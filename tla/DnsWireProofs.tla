---------------------------- MODULE DnsWireProofs ----------------------------
(***************************************************************************)
(* Proofs about DnsWire, for every set of datagrams: parse_response reads  *)
(* only octets that are there, and it ends.  Proofs about DnsMessage, for  *)
(* every set of messages and of names: a message is read as what it means, *)
(* a cut one as a beginning of that, and a query as the name it asks for.  *)
(*                                                                         *)
(* The second part goes from the octets up.  First what FlattenSeq makes   *)
(* of a list of sequences, and where each of them is in the result; then   *)
(* what is where in a message and in a query; then the invariants MInv and *)
(* QInv, which say at every step how far the reader has got in either.     *)
(***************************************************************************)
EXTENDS DnsMessage, WellFoundedInduction, TLAPS

\* The datagram has a length.
LEMMA LengthOfBuf == ASSUME TypeOK PROVE Len(buf) \in Nat
  BY DEF TypeOK

\* An octet of the datagram is an octet.
LEMMA OctetAt ==
  ASSUME TypeOK, NEW i \in Nat, i < Len(buf)
  PROVE  At(i) \in 0 .. 255 /\ At(i) \in Nat
<1>1. buf \in Seq(Octet)
  BY DEF TypeOK
<1>2. i + 1 \in 1 .. Len(buf)
  BY <1>1
<1>3. \A S, s : s \in Seq(S) => \A j \in 1 .. Len(s) : s[j] \in S
  OBVIOUS
<1>4. At(i) \in Octet
  BY <1>1, <1>2, <1>3, Zenon DEF At
<1>5. \A x \in Octet : x \in 0 .. 255 /\ x \in Nat
  BY DEF Octet
<1> QED
  BY <1>4, <1>5, Zenon

\* Two octets make a number.
LEMMA U16At ==
  ASSUME TypeOK, NEW i \in Nat, i + 1 < Len(buf)
  PROVE  U16(i) \in Nat
<1>1. i < Len(buf) /\ i + 1 \in Nat
  BY LengthOfBuf
<1>2. At(i) \in Nat
  BY <1>1, OctetAt
<1>3. At(i + 1) \in Nat
  BY <1>1, OctetAt
<1>4. PICK a \in Nat, b \in Nat : a = At(i) /\ b = At(i + 1)
  BY <1>2, <1>3, Zenon
<1>5. U16(i) = 256 * a + b
  BY <1>4, SMT DEF U16
<1> QED
  BY <1>5

\* The positions are numbers.
LEMMA Positions ==
  ASSUME TypeOK
  PROVE  /\ Len(buf) \in Nat
         /\ pos \in Nat /\ cursor \in Nat /\ end \in Nat /\ jumps \in 0 .. MaxJumps
         /\ rr.start \in Nat /\ rr.len \in Nat
  BY DEF TypeOK

\* The first state satisfies the invariant.
LEMMA InitWInv == Init => WInv
<1> SUFFICES ASSUME Init PROVE WInv
  OBVIOUS
<1>1. buf \in Seq(Octet)
  BY DatagramsAssumption DEF Init
<1>2. TypeOK
  <2>1. rr \in [rtype : Nat, start : Nat, len : Nat]
    BY DEF Init
  <2> QED
    BY <1>1, <2>1 DEF Init, TypeOK, Pcs, MaxJumps
<1> QED
  BY <1>2 DEF Init, WInv, LoopInv, ReadsInside

\* What a step of read_name may rely on when it does not give up.
LEMMA ReadingFacts ==
  ASSUME WInv, Reading
  PROVE  /\ cursor < Len(buf)
         /\ At(cursor) \in 0 .. 255
         /\ ~ IsPointer(At(cursor)) => cursor + 1 + At(cursor) <= Len(buf)
         /\ IsPointer(At(cursor)) =>
              cursor + 1 < Len(buf) /\ MayJump /\ At(cursor + 1) \in 0 .. 255
<1>1. cursor \in Nat /\ cursor < Len(buf)
  BY DEF WInv, TypeOK, Reading, Readable
<1>2. At(cursor) \in 0 .. 255
  BY <1>1, OctetAt, LengthOfBuf DEF WInv
<1>3. IsPointer(At(cursor)) => cursor + 1 < Len(buf) /\ MayJump
  BY DEF Reading, Readable
<1>4. IsPointer(At(cursor)) => At(cursor + 1) \in 0 .. 255
  BY <1>1, <1>3, OctetAt, LengthOfBuf DEF WInv
<1> QED
  BY <1>1, <1>2, <1>3, <1>4 DEF Reading, Readable

\* The end of a name lies within the datagram.
LEMMA EndInside ==
  ASSUME WInv, Reading, NEW n \in {1, 2}, cursor + n <= Len(buf)
  PROVE  EndAfter(cursor + n) \in Nat /\ EndAfter(cursor + n) <= Len(buf)
  BY DEF WInv, TypeOK, ReadsInside, Reading, EndAfter

\* Calling read_name preserves what does not depend on who calls.
LEMMA ReadNameWInv ==
  ASSUME WInv, NEW what \in {"question", "owner", "target"}, NEW at \in Nat,
         ReadName(what, at), UNCHANGED << buf, pos, qleft, aleft, rr, records >>,
         what = "question" => qleft > 0,
         what # "question" => qleft = 0 /\ aleft > 0,
         what = "target" => HasTarget /\ rr.start + rr.len <= Len(buf)
  PROVE  WInv'
<1>1. TypeOK'
  BY DEF WInv, TypeOK, ReadName, Pcs, MaxJumps
<1>2. LoopInv'
  BY DEF LoopInv, ReadName, HasTarget, IsExchange
<1>3. ReadsInside'
  BY LengthOfBuf DEF WInv, ReadsInside, ReadName
<1> QED
  BY <1>1, <1>2, <1>3 DEF WInv

\* Pushing a record preserves the invariant where an answer is being read.
LEMMA PushWInv ==
  ASSUME WInv, NEW record, Push(record), aleft > 0, rr.start + rr.len <= Len(buf)
  PROVE  WInv'
<1>1. TypeOK'
  BY DEF WInv, TypeOK, Push, Pcs
<1>2. LoopInv'
  BY DEF LoopInv, Push
<1>3. ReadsInside'
  BY DEF ReadsInside, Push
<1> QED
  BY <1>1, <1>2, <1>3 DEF WInv

\* Returning preserves the invariant.
LEMMA ReturnWInv ==
  ASSUME WInv, NEW outcome \in {"some", "none"}, Return(outcome)
  PROVE  WInv'
<1>1. TypeOK'
  BY DEF WInv, TypeOK, Return, Pcs
<1> QED
  BY <1>1 DEF WInv, LoopInv, ReadsInside, Return

\* Every step preserves the invariant.
LEMMA StepWInv == WInv /\ Step => WInv'
<1> SUFFICES ASSUME WInv, Step PROVE WInv'
  OBVIOUS
<1> USE LengthOfBuf DEF WInv
<1>1. CASE RefuseHeader \/ AcceptRcode \/ AllRead \/ NameMissing \/ QuestionCut \/ AnswerCut
  BY <1>1, ReturnWInv
     DEF RefuseHeader, AcceptRcode, AllRead, NameMissing, QuestionCut, AnswerCut
<1>2. CASE AcceptHeader
  <2>1. Len(buf) >= 12
    BY <1>2 DEF AcceptHeader, Wellformed
  <2>2. U16(4) \in Nat /\ U16(6) \in Nat
    BY <2>1, U16At
  <2>3. TypeOK'
    BY <1>2, <2>2 DEF AcceptHeader, TypeOK, Pcs
  <2> QED
    BY <1>2, <2>1, <2>3 DEF AcceptHeader, LoopInv, ReadsInside
<1>3. CASE NextQuestion
  BY <1>3, ReadNameWInv DEF NextQuestion, TypeOK
<1>4. CASE NextAnswer
  BY <1>4, ReadNameWInv DEF NextAnswer, TypeOK
<1>5. CASE ReadLabel
  <2>1. cursor' \in Nat
    <3>1. Reading /\ cursor' = cursor + 1 + At(cursor)
      BY <1>5 DEF ReadLabel
    <3>2. At(cursor) \in 0 .. 255
      BY <3>1, ReadingFacts
    <3>3. cursor \in Nat
      BY Positions
    <3>4. \A c \in Nat, a \in 0 .. 255 : c + 1 + a \in Nat
      OBVIOUS
    <3> QED
      BY <3>1, <3>2, <3>3, <3>4, Zenon
  <2>2. TypeOK'
    BY <1>5, <2>1 DEF ReadLabel, TypeOK
  <2> QED
    BY <1>5, <2>2 DEF ReadLabel, LoopInv, ReadsInside, Reading, HasTarget, IsExchange
<1>6. CASE FollowPointer
  <2>1. /\ Reading
        /\ cursor + 2 <= Len(buf)
        /\ jumps < MaxJumps
        /\ cursor' \in Nat
    <3>1. /\ Reading
          /\ IsPointer(At(cursor))
          /\ cursor' = 256 * (At(cursor) % 64) + At(cursor + 1)
      BY <1>6 DEF FollowPointer
    <3>2. TypeOK
      BY DEF WInv
    <3>3. PICK a \in Nat, b \in Nat : a = At(cursor) /\ b = At(cursor + 1)
      <4>1. cursor \in Nat /\ cursor + 1 \in Nat /\ cursor < Len(buf) /\ cursor + 1 < Len(buf)
        BY <3>1, <3>2, ReadingFacts, Positions
      <4> QED
        BY <3>2, <4>1, OctetAt, Zenon
    <3>4. cursor + 1 < Len(buf) /\ jumps < MaxJumps
      BY <3>1, ReadingFacts DEF MayJump
    <3>5. cursor' \in Nat
      <4>1. cursor' = 256 * (a % 64) + b
        BY <3>1, <3>3, SMT
      <4> QED
        BY <4>1
    <3> QED
      BY <3>1, <3>4, <3>5, Positions
  <2>2. end' \in Nat /\ end' <= Len(buf)
    BY <1>6, <2>1, EndInside DEF FollowPointer
  <2>3. TypeOK'
    BY <1>6, <2>1, <2>2 DEF FollowPointer, TypeOK, MaxJumps
  <2> QED
    BY <1>6, <2>1, <2>2, <2>3
       DEF FollowPointer, LoopInv, ReadsInside, Reading, HasTarget, IsExchange
<1>7. CASE SkipQuestion
  <2>1. qleft > 0
    BY <1>7 DEF SkipQuestion, AtRoot, Reading, LoopInv
  <2>2. pos' \in Nat /\ pos' <= Len(buf)
    <3>1. Reading /\ pos' = EndAfter(cursor + 1) + 4 /\ EndAfter(cursor + 1) + 4 <= Len(buf)
      BY <1>7 DEF SkipQuestion, AtRoot
    <3>2. cursor + 1 <= Len(buf)
      BY <3>1, ReadingFacts, Positions
    <3>3. EndAfter(cursor + 1) \in Nat
      BY <3>1, <3>2, EndInside
    <3> QED
      BY <3>1, <3>3
  <2>3. TypeOK'
    BY <1>7, <2>1, <2>2 DEF SkipQuestion, TypeOK, Pcs
  <2> QED
    BY <1>7, <2>2, <2>3 DEF SkipQuestion, LoopInv, ReadsInside
<1>8. CASE ReadHead
  <2> DEFINE at == EndAfter(cursor + 1)
  <2>1. at \in Nat
    BY <1>8, ReadingFacts, EndInside DEF ReadHead, AtRoot, TypeOK
  <2>2. /\ at + 10 <= Len(buf)
        /\ at + 10 + U16(at + 8) <= Len(buf)
        /\ rr' = [rtype |-> U16(at), start |-> at + 10, len |-> U16(at + 8)]
        /\ pos' = at + 10
    BY <1>8 DEF ReadHead, DataFits
  <2>3. qleft = 0 /\ aleft > 0
    BY <1>8 DEF ReadHead, AtRoot, Reading, LoopInv
  <2> HIDE DEF at
  <2>4. U16(at) \in Nat /\ U16(at + 8) \in Nat
    BY <2>1, <2>2, U16At
  <2>5. TypeOK'
    BY <1>8, <2>1, <2>2, <2>4 DEF ReadHead, TypeOK, Pcs
  <2> QED
    BY <1>8, <2>2, <2>3, <2>5 DEF ReadHead, LoopInv, ReadsInside
<1>9. CASE ReadAddress \/ ReadOther
  BY <1>9, PushWInv DEF ReadAddress, ReadOther, LoopInv, ReadsInside
<1>10. CASE ReadTarget
  BY <1>10, ReadNameWInv DEF ReadTarget, LoopInv, ReadsInside, TypeOK
<1>11. CASE ReadText
  <2>1. rr.start \in Nat /\ rr.len \in Nat
    BY DEF TypeOK
  <2>2. TypeOK'
    BY <1>11, <2>1 DEF ReadText, TypeOK, Pcs
  <2> QED
    BY <1>11, <2>1, <2>2 DEF ReadText, LoopInv, ReadsInside
<1>12. CASE TargetRead \/ TargetMissing
  BY <1>12, PushWInv
     DEF TargetRead, TargetMissing, AtRoot, Reading, Unreadable, LoopInv, ReadsInside
<1>13. CASE ReadString
  <2>1. rr.start \in Nat /\ rr.len \in Nat /\ cursor \in Nat
    BY DEF TypeOK
  <2>2. cursor < TextEnd /\ TextEnd <= Len(buf)
    BY <1>13 DEF ReadString, StringFits, TextEnd, ReadsInside
  <2>3. At(cursor) \in 0 .. 255
    <3>1. cursor < Len(buf)
      BY <2>1, <2>2, Positions DEF TextEnd
    <3> QED
      BY <2>1, <3>1, OctetAt
  <2>4. cursor' \in Nat /\ cursor' <= TextEnd
    <3>1. cursor' = cursor + 1 + At(cursor) /\ cursor + 1 + At(cursor) <= TextEnd
      BY <1>13 DEF ReadString, StringFits
    <3>2. \A c \in Nat, a \in 0 .. 255 : c + 1 + a \in Nat
      OBVIOUS
    <3> QED
      BY <2>1, <2>3, <3>1, <3>2, Zenon
  <2>5. TypeOK'
    BY <1>13, <2>4 DEF ReadString, TypeOK
  <2> QED
    BY <1>13, <2>2, <2>4, <2>5 DEF ReadString, LoopInv, ReadsInside, TextEnd
<1>14. CASE TextRead
  BY <1>14, PushWInv DEF TextRead, LoopInv, ReadsInside
<1> QED
  BY <1>1, <1>2, <1>3, <1>4, <1>5, <1>6, <1>7, <1>8, <1>9, <1>10, <1>11, <1>12, <1>13, <1>14
     DEF Step

\* A stuttering step preserves the invariant.
LEMMA StutterWInv == WInv /\ UNCHANGED vars => WInv'
  BY DEF WInv, TypeOK, LoopInv, ReadsInside, HasTarget, IsExchange, vars

-----------------------------------------------------------------------------

\* Whatever the datagram, parse_response indexes only octets that are in it,
\* so it cannot panic on an index.
THEOREM ParserInvariance == Spec => []WInv
<1>1. Init => WInv
  BY InitWInv
<1>2. WInv /\ [Next]_vars => WInv'
  BY StepWInv, StutterWInv DEF Next, Returned
<1> QED
  BY <1>1, <1>2, PTL DEF Spec

\* Every step of reading a datagram leaves less of it to read, in the sense
\* of Descends: reading ends, compression pointers in a loop included.
THEOREM ReadingEnds == Spec => Descends
<1>1. WInv /\ [Next]_vars =>
        [\/ pc = "header"
         \/ Remaining' < Remaining
         \/ /\ Remaining' = Remaining
            /\ \/ jumps' > jumps /\ jumps' <= MaxJumps
               \/ jumps' = jumps /\ cursor' > cursor /\ cursor' <= Len(buf)]_vars
  <2> DEFINE Lower == Remaining' < Remaining
  <2> SUFFICES ASSUME WInv, Step, pc # "header"
               PROVE  \/ Lower
                      \/ /\ Remaining' = Remaining
                         /\ \/ jumps' > jumps /\ jumps' <= MaxJumps
                            \/ jumps' = jumps /\ cursor' > cursor /\ cursor' <= Len(buf)
    BY DEF Next, Returned
  <2>0. qleft \in Nat /\ aleft \in Nat /\ cursor \in Nat /\ jumps \in Nat
    BY DEF WInv, TypeOK, MaxJumps
  <2>1. CASE AllRead
    BY <2>0, <2>1 DEF AllRead, Return, Remaining
  <2>2. CASE NextQuestion
    BY <2>0, <2>2 DEF NextQuestion, ReadName, Remaining
  <2>3. CASE NextAnswer
    BY <2>0, <2>3 DEF NextAnswer, ReadName, Remaining
  <2>4. CASE ReadLabel
    <3>1. Reading /\ ~ IsPointer(At(cursor)) /\ At(cursor) # 0
      BY <2>4 DEF ReadLabel
    <3>2. At(cursor) \in 0 .. 255 /\ cursor + 1 + At(cursor) <= Len(buf)
      BY <3>1, ReadingFacts
    <3>3. cursor' = cursor + 1 + At(cursor) /\ jumps' = jumps
      BY <2>4 DEF ReadLabel
    <3>4. \A c \in Nat, a \in 0 .. 255 : c + 1 + a > c
      OBVIOUS
    <3>5. cursor' > cursor /\ cursor' <= Len(buf)
      BY <2>0, <3>2, <3>3, <3>4, Zenon
    <3>6. Remaining' = Remaining
      BY <2>4 DEF ReadLabel, Remaining
    <3> QED
      BY <3>3, <3>5, <3>6
  <2>5. CASE FollowPointer
    <3>1. jumps' = jumps + 1 /\ jumps < MaxJumps
      BY <2>5, ReadingFacts DEF FollowPointer, MayJump
    <3>2. Remaining' = Remaining
      BY <2>5 DEF FollowPointer, Remaining
    <3> QED
      BY <2>0, <3>1, <3>2 DEF MaxJumps
  <2>6. CASE NameMissing \/ QuestionCut \/ AnswerCut
    BY <2>0, <2>6
       DEF NameMissing, QuestionCut, AnswerCut, AtRoot, Reading, Unreadable, Return, Remaining
  <2>7. CASE SkipQuestion
    BY <2>0, <2>7 DEF SkipQuestion, AtRoot, Reading, Remaining
  <2>8. CASE ReadHead
    BY <2>0, <2>8 DEF ReadHead, AtRoot, Reading, Remaining
  <2>9. CASE ReadAddress \/ ReadOther
    <3>1. pc = "rdata" /\ pc' = "next" /\ qleft' = qleft /\ aleft' = aleft - 1
      BY <2>9 DEF ReadAddress, ReadOther, Push
    <3> QED
      BY <2>0, <3>1 DEF Remaining
  <2>10. CASE ReadTarget
    BY <2>0, <2>10 DEF ReadTarget, ReadName, Remaining
  <2>11. CASE ReadText
    BY <2>0, <2>11 DEF ReadText, Remaining
  <2>12. CASE TargetRead \/ TargetMissing
    BY <2>0, <2>12 DEF TargetRead, TargetMissing, AtRoot, Reading, Unreadable, Push, Remaining
  <2>13. CASE ReadString
    <3>1. rr.start \in Nat /\ rr.len \in Nat /\ TextEnd <= Len(buf) /\ cursor < TextEnd
      BY <2>13 DEF ReadString, StringFits, TextEnd, WInv, TypeOK, ReadsInside
    <3>2. cursor < Len(buf)
      BY <2>0, <3>1, Positions DEF WInv, TextEnd
    <3>3. At(cursor) \in 0 .. 255
      BY <2>0, <3>2, OctetAt DEF WInv
    <3>4. cursor' = cursor + 1 + At(cursor) /\ cursor' <= TextEnd /\ jumps' = jumps
      BY <2>13 DEF ReadString, StringFits
    <3>5. \A c \in Nat, a \in 0 .. 255 : c + 1 + a \in Nat /\ c + 1 + a > c
      OBVIOUS
    <3>6. cursor' \in Nat /\ cursor' > cursor
      BY <2>0, <3>3, <3>4, <3>5, Zenon
    <3>7. cursor' <= Len(buf)
      BY <3>1, <3>4, <3>6, Positions DEF WInv, TextEnd
    <3>8. Remaining' = Remaining
      BY <2>13 DEF ReadString, Remaining
    <3> QED
      BY <3>4, <3>6, <3>7, <3>8
  <2>14. CASE TextRead
    BY <2>0, <2>14 DEF TextRead, Push, Remaining
  <2> QED
    BY <2>1, <2>2, <2>3, <2>4, <2>5, <2>6, <2>7, <2>8, <2>9, <2>10, <2>11, <2>12, <2>13, <2>14
       DEF Step, RefuseHeader, AcceptRcode, AcceptHeader
<1> QED
  BY <1>1, ParserInvariance, PTL DEF Spec, Descends

-----------------------------------------------------------------------------
(* Sequences written one after the other.                                  *)

\* A set of natural numbers that holds 0 and the successor of each of its
\* members holds them all.
LEMMA Induction ==
  ASSUME NEW S, 0 \in S, \A n \in Nat : n \in S => n + 1 \in S
  PROVE  Nat \subseteq S
<1> DEFINE Rest == Nat \ S
           Less == OpToRel(<, Nat)
<1> SUFFICES ASSUME Rest # {} PROVE FALSE
  OBVIOUS
<1>1. IsWellFoundedOn(Less, Nat)
  BY NatLessThanWellFounded
<1>2. Rest \subseteq Nat
  OBVIOUS
<1> HIDE DEF Rest, Less
<1>3. PICK x \in Rest : \A y \in Rest : << y, x >> \notin Less
  BY <1>1, <1>2, WFMin
<1>4. x - 1 \in Nat /\ x - 1 < x /\ (x - 1) + 1 = x
  BY DEF Rest
<1>5. \A y \in Rest : ~ (y < x)
  BY <1>3 DEF Rest, Less, OpToRel
<1> QED
  BY <1>4, <1>5 DEF Rest

\* The recursive function in FlattenSeq.
Flattens(f, q) == f = [i \in 1 .. Len(q) |-> IF i = 1 THEN q[i] ELSE f[i-1] \o q[i]]

\* FlattenSeq chooses that function; there is one.
LEMMA FlatteningExists ==
  ASSUME NEW X, NEW q \in Seq(X)
  PROVE  \E f : Flattens(f, q)
<1> DEFINE UpTo(f, n) == f = [i \in 1 .. n |-> IF i = 1 THEN q[i] ELSE f[i-1] \o q[i]]
           S == {n \in Nat : \E f : UpTo(f, n)}
<1>1. 0 \in S
  <2>1. UpTo(<< >>, 0)
    OBVIOUS
  <2> QED
    BY <2>1
<1>2. ASSUME NEW n \in Nat, n \in S PROVE n + 1 \in S
  <2>1. PICK f : UpTo(f, n)
    BY <1>2
  <2> DEFINE last == IF n = 0 THEN q[1] ELSE f[n] \o q[n + 1]
             g    == [i \in 1 .. n + 1 |-> IF i = n + 1 THEN last ELSE f[i]]
  <2>2. ASSUME NEW i \in 1 .. n + 1
        PROVE  g[i] = IF i = 1 THEN q[i] ELSE g[i-1] \o q[i]
    <3> HIDE DEF last
    <3>1. CASE i = n + 1
      <4>1. g[i] = last
        BY <3>1
      <4>2. CASE n = 0
        BY <3>1, <4>1, <4>2 DEF last
      <4>3. CASE n # 0
        <5>1. i - 1 = n /\ i - 1 \in 1 .. n + 1 /\ i - 1 # n + 1 /\ i # 1
          BY <3>1, <4>3
        <5>2. g[i - 1] = f[n]
          BY <5>1
        <5> QED
          BY <3>1, <4>1, <4>3, <5>1, <5>2 DEF last
      <4> QED
        BY <4>2, <4>3
    <3>2. CASE i # n + 1
      <4>1. i \in 1 .. n /\ g[i] = f[i]
        BY <3>2
      <4>2. f[i] = IF i = 1 THEN q[i] ELSE f[i-1] \o q[i]
        BY <2>1, <4>1
      <4>3. i # 1 => i - 1 \in 1 .. n + 1 /\ i - 1 # n + 1
        BY <4>1
      <4>4. i # 1 => g[i-1] = f[i-1]
        BY <4>3
      <4> QED
        BY <4>1, <4>2, <4>4
    <3> QED
      BY <3>1, <3>2
  <2>3. UpTo(g, n + 1)
    <3> HIDE DEF last
    <3>1. g = [i \in 1 .. n + 1 |-> g[i]]
      OBVIOUS
    <3> HIDE DEF g
    <3> QED
      BY <2>2, <3>1
  <2> HIDE DEF g, UpTo
  <2> QED
    BY <2>3
<1> HIDE DEF S
<1>3. Nat \subseteq S
  BY <1>1, <1>2, Induction
<1>4. Len(q) \in S
  BY <1>3
<1> QED
  BY <1>4 DEF S, Flattens

\* So FlattenSeq is its last value.
LEMMA FlattenSeqIs ==
  ASSUME NEW X, NEW q \in Seq(X), Len(q) # 0
  PROVE  \E f : Flattens(f, q) /\ FlattenSeq(q) = f[Len(q)]
<1> DEFINE f == CHOOSE f : Flattens(f, q)
<1>1. Flattens(f, q)
  BY FlatteningExists
<1>2. FlattenSeq(q) = f[Len(q)]
  BY DEF FlattenSeq, Flattens
<1> QED
  BY <1>1, <1>2

\* Another sequence at the end comes last.
LEMMA FlattenAppend ==
  ASSUME NEW X, NEW q \in Seq(Seq(X)), NEW s \in Seq(X)
  PROVE  FlattenSeq(Append(q, s)) = FlattenSeq(q) \o s
<1> DEFINE r == Append(q, s)
           n == Len(q)
<1>1. /\ r \in Seq(Seq(X)) /\ Len(r) = n + 1 /\ n \in Nat
      /\ \A i \in 1 .. n : r[i] = q[i]
      /\ r[n + 1] = s
  OBVIOUS
<1> HIDE DEF r, n
<1>2. PICK g : Flattens(g, r) /\ FlattenSeq(r) = g[n + 1]
  <2>1. Len(r) # 0
    BY <1>1
  <2>2. \E g : Flattens(g, r) /\ FlattenSeq(r) = g[Len(r)]
    BY <1>1, <2>1, FlattenSeqIs
  <2> QED
    BY <1>1, <2>2
<1>3. CASE n = 0
  <2>1. q = << >> /\ FlattenSeq(q) = q
    BY <1>3 DEF FlattenSeq, n
  <2>2. g[1] = s
    BY <1>1, <1>2, <1>3 DEF Flattens
  <2> QED
    BY <1>2, <1>3, <2>1, <2>2 DEF r
<1>4. CASE n # 0
  <2>1. PICK f : Flattens(f, q) /\ FlattenSeq(q) = f[n]
    BY <1>4, FlattenSeqIs DEF n
  <2> DEFINE S == {k \in Nat : k + 1 \in 1 .. n => f[k + 1] = g[k + 1]}
  <2>2. 0 \in S
    <3>1. 1 \in 1 .. n => f[1] = q[1] /\ g[1] = r[1]
      BY <1>1, <1>2, <2>1 DEF Flattens, n
    <3> QED
      BY <1>1, <3>1
  <2>3. ASSUME NEW k \in Nat, k \in S PROVE k + 1 \in S
    <3> SUFFICES ASSUME k + 2 \in 1 .. n PROVE f[k + 2] = g[k + 2]
      OBVIOUS
    <3>1. f[k + 1] = g[k + 1] /\ q[k + 2] = r[k + 2]
      BY <1>1, <2>3
    <3>2. f[k + 2] = f[k + 1] \o q[k + 2]
      <4>1. k + 2 # 1 /\ (k + 2) - 1 = k + 1
        OBVIOUS
      <4> QED
      BY <2>1, <4>1 DEF Flattens, n
    <3>3. g[k + 2] = g[k + 1] \o r[k + 2]
      <4>1. k + 2 # 1 /\ (k + 2) - 1 = k + 1 /\ k + 2 \in 1 .. Len(r)
        BY <1>1
      <4> QED
      BY <1>2, <4>1 DEF Flattens
    <3> QED
      BY <3>1, <3>2, <3>3
  <2>4. n - 1 \in S
    <3> HIDE DEF S
    <3>1. n - 1 \in Nat
      BY <1>1, <1>4
    <3> QED
    BY <3>1, <2>2, <2>3, Induction
  <2>5. f[n] = g[n]
    BY <1>1, <1>4, <2>4
  <2>6. g[n + 1] = g[n] \o s
    <3>1. n + 1 \in 1 .. Len(r) /\ n + 1 # 1 /\ (n + 1) - 1 = n
      BY <1>1, <1>4
    <3> QED
    BY <1>1, <1>2, <3>1 DEF Flattens
  <2> QED
    BY <1>2, <2>1, <2>5, <2>6 DEF r
<1> QED
  BY <1>3, <1>4

\* What the sequences hold, the one sequence holds.
LEMMA FlattenType ==
  ASSUME NEW X, NEW q \in Seq(Seq(X))
  PROVE  FlattenSeq(q) \in Seq(X)
<1> DEFINE n == Len(q)
<1>1. n \in Nat /\ \A i \in 1 .. n : q[i] \in Seq(X)
  OBVIOUS
<1>2. CASE n = 0
  BY <1>2 DEF FlattenSeq
<1>3. CASE n # 0
  <2>1. PICK f : Flattens(f, q) /\ FlattenSeq(q) = f[n]
    BY <1>3, FlattenSeqIs
  <2> HIDE DEF n
  <2>2. \A i \in 1 .. n : f[i] = IF i = 1 THEN q[i] ELSE f[i - 1] \o q[i]
    BY <2>1 DEF Flattens, n
  <2> DEFINE S == {k \in Nat : k + 1 \in 1 .. n => f[k + 1] \in Seq(X)}
  <2>3. 0 \in S
    BY <1>1, <2>2
  <2>4. ASSUME NEW k \in Nat, k \in S PROVE k + 1 \in S
    <3> SUFFICES ASSUME k + 2 \in 1 .. n PROVE f[k + 2] \in Seq(X)
      OBVIOUS
    <3>1. k + 2 # 1 /\ (k + 2) - 1 = k + 1 /\ f[k + 1] \in Seq(X)
      BY <1>1, <2>4
    <3>2. f[k + 2] = f[k + 1] \o q[k + 2]
      BY <2>2, <3>1
    <3> QED
      BY <1>1, <3>1, <3>2
  <2>5. n - 1 \in S
    <3> HIDE DEF S
    <3>1. n - 1 \in Nat
      BY <1>1, <1>3
    <3> QED
      BY <2>3, <2>4, <3>1, Induction
  <2> QED
    BY <1>1, <1>3, <2>1, <2>5
<1> QED
  BY <1>2, <1>3

-----------------------------------------------------------------------------
(* Octets within octets.                                                   *)

\* The octets s are in w from position `at` on.
HoldsAt(w, at, s) ==
  /\ at + Len(s) <= Len(w)
  /\ \A i \in 1 .. Len(s) : w[at + i] = s[i]

LEMMA HoldsParts ==
  ASSUME NEW X, NEW w \in Seq(X), NEW s \in Seq(X), NEW t \in Seq(X), NEW at \in Nat,
         HoldsAt(w, at, s \o t)
  PROVE  HoldsAt(w, at, s) /\ HoldsAt(w, at + Len(s), t)
<1> DEFINE st == s \o t
<1>1. /\ Len(s) \in Nat /\ Len(t) \in Nat /\ Len(w) \in Nat
      /\ Len(st) = Len(s) + Len(t)
      /\ \A i \in 1 .. Len(s) : st[i] = s[i]
      /\ \A i \in 1 .. Len(t) : st[Len(s) + i] = t[i]
  OBVIOUS
<1> HIDE DEF st
<1>2. at + Len(st) <= Len(w) /\ \A i \in 1 .. Len(st) : w[at + i] = st[i]
  BY DEF HoldsAt, st
<1>3. ASSUME NEW i \in 1 .. Len(s) PROVE w[at + i] = s[i]
  <2>1. i \in 1 .. Len(st)
    BY <1>1
  <2> QED
    BY <1>1, <1>2, <2>1
<1>4. ASSUME NEW i \in 1 .. Len(t) PROVE w[(at + Len(s)) + i] = t[i]
  <2>1. Len(s) + i \in 1 .. Len(st) /\ at + (Len(s) + i) = (at + Len(s)) + i
    BY <1>1
  <2> QED
    BY <1>1, <1>2, <2>1
<1>5. at + Len(s) <= Len(w) /\ (at + Len(s)) + Len(t) <= Len(w)
  BY <1>1, <1>2
<1> QED
  BY <1>3, <1>4, <1>5 DEF HoldsAt

\* The octets at a place are a slice.
LEMMA HoldsSlice ==
  ASSUME NEW X, NEW w \in Seq(X), NEW s \in Seq(X), NEW at \in Nat, HoldsAt(w, at, s)
  PROVE  SubSeq(w, at + 1, at + Len(s)) = s
<1>1. Len(s) \in Nat /\ Len(w) \in Nat /\ at + Len(s) <= Len(w)
  BY DEF HoldsAt
<1> DEFINE u == SubSeq(w, at + 1, at + Len(s))
<1>2. /\ u \in Seq(X) /\ Len(u) = Len(s)
      /\ \A i \in 1 .. Len(s) : u[i] = w[(at + 1) + i - 1]
  <2>1. \A i \in at + 1 .. at + Len(s) : w[i] \in X
    BY <1>1
  <2>2. at + 1 \in Int /\ at + Len(s) \in Int
    BY <1>1
  <2> QED
    BY <1>1, <2>1, <2>2
<1> HIDE DEF u
<1>3. \A i \in 1 .. Len(s) : (at + 1) + i - 1 = at + i
  BY <1>1
<1>4. \A i \in 1 .. Len(s) : u[i] = s[i]
  BY <1>2, <1>3 DEF HoldsAt
<1>5. u = s
  BY <1>2, <1>4
<1> QED
  BY <1>5 DEF u

\* The first i elements, and one more.
LEMMA OneMore ==
  ASSUME NEW X, NEW q \in Seq(X), NEW i \in Nat, i < Len(q)
  PROVE  /\ SubSeq(q, 1, i) \in Seq(X)
         /\ q[i + 1] \in X
         /\ SubSeq(q, 1, i + 1) = Append(SubSeq(q, 1, i), q[i + 1])
<1>1. Len(q) \in Nat /\ i + 1 \in 1 .. Len(q) /\ q[i + 1] \in X
  OBVIOUS
<1> DEFINE s == SubSeq(q, 1, i)
           t == SubSeq(q, 1, i + 1)
           e == q[i + 1]
<1>2. s \in Seq(X) /\ Len(s) = i /\ \A k \in 1 .. i : s[k] = q[k]
  OBVIOUS
<1>3. t \in Seq(X) /\ Len(t) = i + 1 /\ \A k \in 1 .. i + 1 : t[k] = q[k]
  BY <1>1
<1> HIDE DEF s, t
<1>4. /\ Append(s, e) \in Seq(X) /\ Len(Append(s, e)) = i + 1
      /\ \A k \in 1 .. i : Append(s, e)[k] = s[k]
      /\ Append(s, e)[i + 1] = e
  BY <1>1, <1>2
<1>5. \A k \in 1 .. i + 1 : t[k] = Append(s, e)[k]
  <2> SUFFICES ASSUME NEW k \in 1 .. i + 1 PROVE t[k] = Append(s, e)[k]
    OBVIOUS
  <2>1. CASE k = i + 1
    BY <1>3, <1>4, <2>1
  <2>2. CASE k \in 1 .. i
    BY <1>2, <1>3, <1>4, <2>2
  <2>3. k = i + 1 \/ k \in 1 .. i
    OBVIOUS
  <2> QED
    BY <2>1, <2>2, <2>3, Zenon
<1>6. t = Append(s, e)
  BY <1>3, <1>4, <1>5
<1> QED
  BY <1>1, <1>2, <1>6 DEF s, t

LEMMA FirstNone ==
  ASSUME NEW X, NEW q \in Seq(X)
  PROVE  SubSeq(q, 1, 0) = << >> /\ SubSeq(q, 1, Len(q)) = q
  OBVIOUS

\* How far the first i sequences reach.
Offset(q, i) == Len(FlattenSeq(SubSeq(q, 1, i)))

LEMMA OffsetNext ==
  ASSUME NEW X, NEW q \in Seq(Seq(X)), NEW i \in Nat, i < Len(q)
  PROVE  /\ FlattenSeq(SubSeq(q, 1, i)) \in Seq(X)
         /\ FlattenSeq(SubSeq(q, 1, i + 1)) = FlattenSeq(SubSeq(q, 1, i)) \o q[i + 1]
         /\ Offset(q, i) \in Nat /\ Len(q[i + 1]) \in Nat
         /\ Offset(q, i + 1) = Offset(q, i) + Len(q[i + 1])
<1> DEFINE s == SubSeq(q, 1, i)
           f == FlattenSeq(s)
           e == q[i + 1]
<1>1. s \in Seq(Seq(X)) /\ e \in Seq(X) /\ SubSeq(q, 1, i + 1) = Append(s, e)
  BY OneMore
<1> HIDE DEF s, e
<1>2. f \in Seq(X) /\ FlattenSeq(Append(s, e)) = f \o e
  BY <1>1, FlattenType, FlattenAppend
<1> HIDE DEF f
<1>3. Len(f \o e) = Len(f) + Len(e) /\ Len(f) \in Nat /\ Len(e) \in Nat
  BY <1>1, <1>2
<1> QED
  BY <1>1, <1>2, <1>3 DEF s, f, e, Offset

LEMMA OffsetEnds ==
  ASSUME NEW X, NEW q \in Seq(Seq(X))
  PROVE  Offset(q, 0) = 0 /\ Offset(q, Len(q)) = Len(FlattenSeq(q))
<1>1. SubSeq(q, 1, 0) = << >> /\ SubSeq(q, 1, Len(q)) = q
  BY FirstNone
<1>2. FlattenSeq(<< >>) = << >> /\ Len(<< >>) = 0
  BY DEF FlattenSeq
<1> QED
  BY <1>1, <1>2 DEF Offset

\* Where sequences have been written one after the other, each of them is.
LEMMA FlattenHolds ==
  ASSUME NEW X, NEW w \in Seq(X), NEW q \in Seq(Seq(X)), NEW at \in Nat,
         HoldsAt(w, at, FlattenSeq(q)),
         NEW i \in Nat, i < Len(q)
  PROVE  HoldsAt(w, at + Offset(q, i), q[i + 1])
<1> DEFINE n == Len(q)
           Written(k) == FlattenSeq(SubSeq(q, 1, k))
           S == {d \in Nat : d <= n => HoldsAt(w, at, Written(n - d))}
<1>1. n \in Nat
  OBVIOUS
<1>2. 0 \in S
  <2>1. Written(n) = FlattenSeq(q)
    <3>1. SubSeq(q, 1, n) = q
      BY FirstNone
    <3> QED
      BY <3>1
  <2>2. n - 0 = n
    BY <1>1
  <2>3. HoldsAt(w, at, Written(n - 0))
    BY <2>1, <2>2
  <2> QED
    BY <2>3
<1>3. ASSUME NEW k \in Nat, k + 1 <= n, HoldsAt(w, at, Written(k + 1))
      PROVE  HoldsAt(w, at, Written(k)) /\ HoldsAt(w, at + Offset(q, k), q[k + 1])
  <2>1. /\ Written(k) \in Seq(X) /\ Written(k + 1) = Written(k) \o q[k + 1]
        /\ q[k + 1] \in Seq(X)
    <3>1. k < Len(q)
      BY <1>1, <1>3
    <3> QED
      BY <3>1, OffsetNext, OneMore
  <2> HIDE DEF Written
  <2>2. HoldsAt(w, at, Written(k) \o q[k + 1])
    BY <1>3, <2>1
  <2>3. HoldsAt(w, at, Written(k)) /\ HoldsAt(w, at + Len(Written(k)), q[k + 1])
    BY <2>1, <2>2, HoldsParts
  <2> QED
    BY <2>3 DEF Offset, Written
<1>4. ASSUME NEW d \in Nat, d \in S PROVE d + 1 \in S
  <2> SUFFICES ASSUME d + 1 <= n PROVE HoldsAt(w, at, Written(n - (d + 1)))
    OBVIOUS
  <2>1. n - (d + 1) \in Nat /\ (n - (d + 1)) + 1 = n - d /\ (n - (d + 1)) + 1 <= n /\ d <= n
    BY <1>1
  <2>2. HoldsAt(w, at, Written(n - d))
    BY <1>4, <2>1
  <2> HIDE DEF Written, S
  <2> QED
    BY <1>3, <2>1, <2>2
<1>5. n - (i + 1) \in S
  <2>1. n - (i + 1) \in Nat
    BY <1>1
  <2> HIDE DEF S
  <2> QED
    BY <1>2, <1>4, <2>1, Induction
<1>6. HoldsAt(w, at, Written(i + 1)) /\ i + 1 <= n
  <2>1. n - (i + 1) \in Nat /\ n - (n - (i + 1)) = i + 1 /\ n - (i + 1) <= n /\ i + 1 <= n
    BY <1>1
  <2> HIDE DEF Written
  <2> QED
    BY <1>5, <2>1
<1> HIDE DEF Written, n
<1> QED
  BY <1>3, <1>6

LEMMA ListOf ==
  ASSUME NEW S, NEW n \in Nat, NEW f \in [1 .. n -> S]
  PROVE  f \in Seq(S) /\ Len(f) = n
  OBVIOUS

-----------------------------------------------------------------------------
(* What is in an encoded message.                                          *)

\* The length of a string and the string itself.
Framed(strings) == [i \in DOMAIN strings |-> << Len(strings[i]) >> \o strings[i]]

LEMMA FramedType ==
  ASSUME NEW n, NEW least \in Nat, NEW most \in Octet, IsStrings(n, least, most)
  PROVE  /\ Len(n) \in Nat /\ DOMAIN n = 1 .. Len(n)
         /\ Framed(n) \in Seq(Seq(Octet)) /\ Len(Framed(n)) = Len(n)
         /\ \A i \in 1 .. Len(n) :
              /\ n[i] \in Seq(Octet) /\ Len(n[i]) \in Nat /\ Len(n[i]) \in least .. most
              /\ Framed(n)[i] = << Len(n[i]) >> \o n[i]
              /\ Len(Framed(n)[i]) = 1 + Len(n[i])
<1>1. n \in Seq(Seq(Octet)) /\ \A i \in DOMAIN n : Len(n[i]) \in least .. most
  BY DEF IsStrings, Octet
<1>2. Len(n) \in Nat /\ DOMAIN n = 1 .. Len(n)
  BY <1>1
<1>3. ASSUME NEW i \in 1 .. Len(n)
      PROVE  /\ n[i] \in Seq(Octet) /\ Len(n[i]) \in Nat /\ Len(n[i]) \in least .. most
             /\ << Len(n[i]) >> \o n[i] \in Seq(Octet)
             /\ Len(<< Len(n[i]) >> \o n[i]) = 1 + Len(n[i])
  <2> DEFINE s == n[i]
  <2>1. s \in Seq(Octet) /\ Len(s) \in least .. most
    <3>1. \A S : \A q \in Seq(S) : \A k \in DOMAIN q : q[k] \in S
      OBVIOUS
    <3> QED
      BY <1>1, <1>2, <3>1, Zenon
  <2> HIDE DEF s
  <2>2. Len(s) \in Octet /\ Len(s) \in Nat
    <3>1. \A l \in Nat, m \in 0 .. 255 : \A x \in l .. m : x \in 0 .. 255 /\ x \in Nat
      OBVIOUS
    <3> QED
      BY <2>1, <3>1, Zenon DEF Octet
  <2>3. << Len(s) >> \in Seq(Octet) /\ Len(<< Len(s) >>) = 1
    BY <2>2
  <2>4. << Len(s) >> \o s \in Seq(Octet) /\ Len(<< Len(s) >> \o s) = 1 + Len(s)
    BY <2>1, <2>3
  <2> QED
    BY <2>1, <2>2, <2>4 DEF s
<1>4. Framed(n) \in [1 .. Len(n) -> Seq(Octet)]
  BY <1>2, <1>3 DEF Framed
<1>5. Framed(n) \in Seq(Seq(Octet)) /\ Len(Framed(n)) = Len(n)
  BY <1>2, <1>4, ListOf, Zenon
<1>6. \A i \in 1 .. Len(n) : Framed(n)[i] = << Len(n[i]) >> \o n[i]
  BY <1>2 DEF Framed
<1> QED
  BY <1>2, <1>3, <1>5, <1>6

LEMMA EncodeType ==
  ASSUME NEW n, NEW least \in Nat, NEW most \in Octet, IsStrings(n, least, most)
  PROVE  EncodeStrings(n) = FlattenSeq(Framed(n)) /\ EncodeStrings(n) \in Seq(Octet)
<1>1. EncodeStrings(n) = FlattenSeq(Framed(n))
  BY DEF EncodeStrings, Framed
<1> QED
  BY <1>1, FramedType, FlattenType

\* How far the first i strings reach, each behind its length.
Reach(strings, i) == Offset(Framed(strings), i)

LEMMA ReachNext ==
  ASSUME NEW n, NEW least \in Nat, NEW most \in Octet, IsStrings(n, least, most),
         NEW i \in Nat, i < Len(n)
  PROVE  /\ Reach(n, i) \in Nat /\ Len(n[i + 1]) \in Nat
         /\ Reach(n, i + 1) = Reach(n, i) + 1 + Len(n[i + 1])
         /\ n \in Seq(Seq(Octet))
         /\ SubSeq(n, 1, i + 1) = Append(SubSeq(n, 1, i), n[i + 1])
<1>1. Len(n) \in Nat /\ i + 1 \in 1 .. Len(n)
  BY FramedType
<1>2. /\ Framed(n) \in Seq(Seq(Octet)) /\ i < Len(Framed(n))
      /\ Len(Framed(n)[i + 1]) = 1 + Len(n[i + 1]) /\ Len(n[i + 1]) \in Nat
  BY <1>1, FramedType
<1>3. /\ Reach(n, i) \in Nat
      /\ Reach(n, i + 1) = Reach(n, i) + Len(Framed(n)[i + 1])
  BY <1>2, OffsetNext DEF Reach
<1>4. n \in Seq(Seq(Octet))
  BY DEF IsStrings, Octet
<1>5. SubSeq(n, 1, i + 1) = Append(SubSeq(n, 1, i), n[i + 1])
  BY <1>4, OneMore
<1>6. Reach(n, i + 1) = Reach(n, i) + 1 + Len(n[i + 1])
  <2>1. \A r, l \in Nat : r + (1 + l) = r + 1 + l
    OBVIOUS
  <2> QED
    BY <1>2, <1>3, <2>1, Zenon
<1> QED
  BY <1>2, <1>3, <1>4, <1>5, <1>6

LEMMA ReachEnds ==
  ASSUME NEW n, NEW least \in Nat, NEW most \in Octet, IsStrings(n, least, most)
  PROVE  /\ Reach(n, 0) = 0 /\ Reach(n, Len(n)) = Len(EncodeStrings(n))
         /\ Len(EncodeStrings(n)) \in Nat
         /\ SubSeq(n, 1, 0) = << >> /\ SubSeq(n, 1, Len(n)) = n
<1>1. /\ Framed(n) \in Seq(Seq(Octet)) /\ Len(Framed(n)) = Len(n)
  BY FramedType
<1>2. EncodeStrings(n) = FlattenSeq(Framed(n)) /\ EncodeStrings(n) \in Seq(Octet)
  BY EncodeType
<1>3. Reach(n, 0) = 0 /\ Reach(n, Len(n)) = Len(EncodeStrings(n))
  BY <1>1, <1>2, OffsetEnds DEF Reach
<1>4. n \in Seq(Seq(Octet))
  BY DEF IsStrings, Octet
<1> QED
  BY <1>2, <1>3, <1>4, FirstNone

\* A string that was written is found behind its length.
LEMMA StringHolds ==
  ASSUME NEW n, NEW least \in Nat, NEW most \in Octet, IsStrings(n, least, most),
         NEW w \in Seq(Octet), NEW at \in Nat, HoldsAt(w, at, EncodeStrings(n)),
         NEW i \in Nat, i < Len(n)
  PROVE  LET c == at + Reach(n, i)
         IN  /\ c \in Nat
             /\ c + 1 + Len(n[i + 1]) <= Len(w)
             /\ w[c + 1] = Len(n[i + 1])
             /\ SubSeq(w, c + 2, c + 1 + Len(n[i + 1])) = n[i + 1]
<1> DEFINE s == n[i + 1]
           c == at + Reach(n, i)
<1>1. Len(n) \in Nat /\ i + 1 \in 1 .. Len(n)
  BY FramedType
<1>2. /\ Framed(n) \in Seq(Seq(Octet)) /\ i < Len(Framed(n))
      /\ Framed(n)[i + 1] = << Len(s) >> \o s
      /\ s \in Seq(Octet) /\ Len(s) \in Nat /\ Len(s) \in least .. most
  BY <1>1, FramedType
<1>3. c \in Nat
  BY ReachNext
<1> HIDE DEF s
<1>4. HoldsAt(w, c, << Len(s) >> \o s)
  <2>1. HoldsAt(w, at, FlattenSeq(Framed(n)))
    BY EncodeType
  <2> QED
    BY <1>2, <2>1, FlattenHolds DEF Reach
<1> HIDE DEF c
<1>5. << Len(s) >> \in Seq(Octet) /\ Len(<< Len(s) >>) = 1 /\ << Len(s) >>[1] = Len(s)
  <2>1. Len(s) \in Octet
    <3>1. \A l \in Nat, m \in 0 .. 255 : \A x \in l .. m : x \in 0 .. 255
      OBVIOUS
    <3> QED
      BY <1>2, <3>1, Zenon DEF Octet
  <2> QED
    BY <2>1
<1>6. HoldsAt(w, c, << Len(s) >>) /\ HoldsAt(w, c + 1, s)
  BY <1>2, <1>3, <1>4, <1>5, HoldsParts
<1>7. w[c + 1] = Len(s)
  BY <1>5, <1>6 DEF HoldsAt
<1>8. SubSeq(w, c + 2, c + 1 + Len(s)) = s /\ (c + 1) + Len(s) <= Len(w)
  <2>1. c + 1 \in Nat /\ (c + 1) + 1 = c + 2
    BY <1>3
  <2>2. SubSeq(w, (c + 1) + 1, (c + 1) + Len(s)) = s
    BY <1>2, <1>6, <2>1, HoldsSlice
  <2> QED
    BY <1>6, <2>1, <2>2 DEF HoldsAt
<1> QED
  BY <1>3, <1>7, <1>8 DEF c, s

\* The two are kept apart: the provers are slow on an interval up to 65535.
LEMMA MaxU16Type == MaxU16 \in Nat
  BY DEF MaxU16

LEMMA MaxU16Is == MaxU16 = 65535
  BY DEF MaxU16

\* A number of 16 bits, highest octet first.
LEMMA Sixteen ==
  ASSUME NEW n \in Word
  PROVE  /\ n \div 256 \in Octet /\ n % 256 \in Octet
         /\ 256 * (n \div 256) + (n % 256) = n
         /\ Octets16(n) \in Seq(Octet) /\ Len(Octets16(n)) = 2
         /\ Octets16(n)[1] = n \div 256 /\ Octets16(n)[2] = n % 256
<1>1. n \div 256 \in Octet /\ n % 256 \in Octet /\ 256 * (n \div 256) + (n % 256) = n
  <2>1. n \in Nat /\ n <= 65535
    <3>1. n \in Nat /\ n <= MaxU16
      BY MaxU16Type DEF Word
    <3> QED
      BY <3>1, MaxU16Is
  <2>2. n % 256 \in Octet
    BY <2>1 DEF Octet
  <2>3. 256 * (n \div 256) + (n % 256) = n
    BY <2>1
  <2>4. n \div 256 \in Octet
    BY <2>1 DEF Octet
  <2> QED
    BY <2>2, <2>3, <2>4
<1> DEFINE a == n \div 256
           b == n % 256
<1>2. Octets16(n) = << a, b >>
  BY DEF Octets16
<1> HIDE DEF a, b
<1>3. a \in Octet /\ b \in Octet
  BY <1>1 DEF a, b
<1>4. /\ << a, b >> \in Seq(Octet) /\ Len(<< a, b >>) = 2
      /\ << a, b >>[1] = a /\ << a, b >>[2] = b
  BY <1>3
<1> QED
  BY <1>1, <1>2, <1>4 DEF a, b

LEMMA Octets16Hold ==
  ASSUME NEW w \in Seq(Octet), NEW at \in Nat, NEW n \in Word,
         HoldsAt(w, at, Octets16(n))
  PROVE  /\ w[at + 1] = n \div 256 /\ w[at + 2] = n % 256
         /\ 256 * w[at + 1] + w[at + 2] = n
         /\ at + 2 <= Len(w)
<1>1. /\ Len(Octets16(n)) = 2 /\ Octets16(n)[1] = n \div 256 /\ Octets16(n)[2] = n % 256
  BY Sixteen
<1>2. w[at + 1] = n \div 256 /\ w[at + 2] = n % 256 /\ at + 2 <= Len(w)
  BY <1>1 DEF HoldsAt
<1>3. 256 * (n \div 256) + (n % 256) = n
  BY Sixteen
<1> DEFINE a == n \div 256
           b == n % 256
<1>4. w[at + 1] = a /\ w[at + 2] = b /\ 256 * a + b = n
  BY <1>2, <1>3
<1> HIDE DEF a, b
<1>5. 256 * w[at + 1] + w[at + 2] = n
  BY <1>4
<1> QED
  BY <1>2, <1>5

LEMMA Concat ==
  ASSUME NEW X, NEW s \in Seq(X), NEW t \in Seq(X)
  PROVE  /\ s \o t \in Seq(X) /\ Len(s \o t) = Len(s) + Len(t)
         /\ Len(s) \in Nat /\ Len(t) \in Nat
  OBVIOUS

\* A number behind other octets.
Behind(s, n) == s \o Octets16(n)

TwoMore(s, k, n) ==
  /\ Behind(s, n) \in Seq(Octet) /\ Len(Behind(s, n)) = k + 2
  /\ \A w \in Seq(Octet) : HoldsAt(w, 0, Behind(s, n)) =>
       /\ HoldsAt(w, 0, s)
       /\ 256 * w[k + 1] + w[k + 2] = n
       /\ w[k + 2] = n % 256

LEMMA NumberBehind ==
  ASSUME NEW s \in Seq(Octet), NEW k \in Nat, Len(s) = k, NEW n \in Word
  PROVE  TwoMore(s, k, n)
<1> DEFINE t == Octets16(n)
<1>1. t \in Seq(Octet) /\ Len(t) = 2
  BY Sixteen
<1> HIDE DEF t
<1>2. s \o t \in Seq(Octet) /\ Len(s \o t) = k + 2
  BY <1>1, Concat
<1>3. ASSUME NEW w \in Seq(Octet), HoldsAt(w, 0, s \o t)
      PROVE  /\ HoldsAt(w, 0, s)
             /\ 256 * w[k + 1] + w[k + 2] = n
             /\ w[k + 2] = n % 256
  <2>1. HoldsAt(w, 0, s) /\ HoldsAt(w, 0 + k, t)
    BY <1>1, <1>3, HoldsParts
  <2>2. HoldsAt(w, k, Octets16(n))
    BY <2>1 DEF t
  <2> QED
    BY <2>1, <2>2, Octets16Hold
<1>4. Behind(s, n) = s \o t
  BY DEF Behind, t
<1> QED
  BY <1>2, <1>3, <1>4 DEF TwoMore

LEMMA SmallWords ==
  /\ 0 \in Word /\ 1 \in Word /\ 256 \in Word
  /\ Response \in Word /\ CLASS_IN \in Word /\ TYPE_A \in Word /\ TYPE_MX \in Word
<1>0. MaxU16 \in Nat /\ 33152 <= MaxU16
  BY MaxU16Type, MaxU16Is
<1>1. 0 \in Word /\ 1 \in Word /\ 256 \in Word
  BY <1>0 DEF Word
<1>2. Response \in Word /\ CLASS_IN \in Word /\ TYPE_A \in Word /\ TYPE_MX \in Word
  BY <1>0 DEF Word, Response, CLASS_IN, TYPE_A, TYPE_MX
<1> QED
  BY <1>1, <1>2

\* The header is 12 octets long.
LEMMA HeaderHolds ==
  ASSUME NEW id \in Word, NEW flags \in Word, NEW questions \in Word, NEW answers \in Word
  PROVE  /\ Header(id, flags, questions, answers) \in Seq(Octet)
         /\ Len(Header(id, flags, questions, answers)) = 12
         /\ \A w \in Seq(Octet) :
              HoldsAt(w, 0, Header(id, flags, questions, answers)) =>
                /\ 256 * w[1] + w[2] = id
                /\ w[4] = flags % 256
                /\ 256 * w[5] + w[6] = questions
                /\ 256 * w[7] + w[8] = answers
<1>1. Header(id, flags, questions, answers) =
        Behind(Behind(Behind(Behind(Behind(Octets16(id), flags), questions), answers), 0), 0)
  BY Zenon DEF Header, Behind
<1>2. 0 \in Word
  BY SmallWords
<1>3. Octets16(id) \in Seq(Octet) /\ Len(Octets16(id)) = 2
  BY Sixteen
<1>4. TwoMore(Octets16(id), 2, flags)
  BY <1>3, NumberBehind
<1>5. PICK h2 : h2 = Behind(Octets16(id), flags)
  OBVIOUS
<1>6. TwoMore(h2, 4, questions)
  <2>1. h2 \in Seq(Octet) /\ Len(h2) = 4
    BY <1>4, <1>5 DEF TwoMore
  <2> QED
    BY <2>1, NumberBehind
<1>7. PICK h3 : h3 = Behind(h2, questions)
  OBVIOUS
<1>8. TwoMore(h3, 6, answers)
  <2>1. h3 \in Seq(Octet) /\ Len(h3) = 6
    BY <1>6, <1>7 DEF TwoMore
  <2> QED
    BY <2>1, NumberBehind
<1>9. PICK h4 : h4 = Behind(h3, answers)
  OBVIOUS
<1>10. TwoMore(h4, 8, 0)
  <2>1. h4 \in Seq(Octet) /\ Len(h4) = 8
    BY <1>8, <1>9 DEF TwoMore
  <2> QED
    BY <1>2, <2>1, NumberBehind
<1>11. PICK h5 : h5 = Behind(h4, 0)
  OBVIOUS
<1>12. TwoMore(h5, 10, 0)
  <2>1. h5 \in Seq(Octet) /\ Len(h5) = 10
    BY <1>10, <1>11 DEF TwoMore
  <2> QED
    BY <1>2, <2>1, NumberBehind
<1>13. PICK h6 : h6 = Behind(h5, 0)
  OBVIOUS
<1>14. Header(id, flags, questions, answers) = h6
  BY <1>1, <1>5, <1>7, <1>9, <1>11, <1>13, Zenon
<1>15. h6 \in Seq(Octet) /\ Len(h6) = 12
  BY <1>12, <1>13 DEF TwoMore
<1>16. ASSUME NEW w \in Seq(Octet), HoldsAt(w, 0, h6)
       PROVE  /\ 256 * w[1] + w[2] = id
              /\ w[4] = flags % 256
              /\ 256 * w[5] + w[6] = questions
              /\ 256 * w[7] + w[8] = answers
  <2>1. HoldsAt(w, 0, h5)
    BY <1>12, <1>13, <1>16 DEF TwoMore
  <2>2. HoldsAt(w, 0, h4)
    BY <1>10, <1>11, <2>1 DEF TwoMore
  <2>3. HoldsAt(w, 0, h3) /\ 256 * w[6 + 1] + w[6 + 2] = answers
    BY <1>8, <1>9, <2>2 DEF TwoMore
  <2>4. HoldsAt(w, 0, h2) /\ 256 * w[4 + 1] + w[4 + 2] = questions
    BY <1>6, <1>7, <2>3 DEF TwoMore
  <2>5. HoldsAt(w, 0, Octets16(id)) /\ w[2 + 2] = flags % 256
    BY <1>4, <1>5, <2>4 DEF TwoMore
  <2>6. 256 * w[0 + 1] + w[0 + 2] = id
    BY <2>5, Octets16Hold
  <2> QED
    BY <2>3, <2>4, <2>5, <2>6
<1> QED
  BY <1>14, <1>15, <1>16

LEMMA ClosingType ==
  ASSUME NEW c \in BOOLEAN
  PROVE  /\ Closing(c) \in Seq(Octet) /\ Len(Closing(c)) \in Nat
         /\ c => Len(Closing(c)) = 2 /\ Closing(c)[1] = 192 /\ Closing(c)[2] = 12
         /\ ~ c => Len(Closing(c)) = 1 /\ Closing(c)[1] = 0
<1>1. 0 \in Octet /\ 12 \in Octet /\ 192 \in Octet
  BY DEF Octet
<1>2. /\ << 192, 12 >> \in Seq(Octet) /\ Len(<< 192, 12 >>) = 2
      /\ << 0 >> \in Seq(Octet) /\ Len(<< 0 >>) = 1
  BY <1>1
<1> QED
  BY <1>2 DEF Closing, ToQuestion

\* A target is written at c: its labels, and what closes it.
TargetAt(w, c, a) ==
  /\ HoldsAt(w, c, EncodeStrings(a.parts))
  /\ LET e == c + Reach(a.parts, Len(a.parts))
     IN  IF a.compressed THEN e + 2 <= Len(w) /\ w[e + 1] = 192 /\ w[e + 2] = 12
                         ELSE e + 1 <= Len(w) /\ w[e + 1] = 0

IsTarget(t, a) ==
  /\ t \in Seq(Octet) /\ Len(t) \in Nat
  /\ \A w \in Seq(Octet), c \in Nat : HoldsAt(w, c, t) => TargetAt(w, c, a)

LEMMA TargetHolds ==
  ASSUME NEW a, a.compressed \in BOOLEAN, IsStrings(a.parts, 1, 63)
  PROVE  IsTarget(Target(a), a)
<1> DEFINE e == EncodeStrings(a.parts)
           z == Closing(a.compressed)
           k == Reach(a.parts, Len(a.parts))
<1>1. 1 \in Nat /\ 63 \in Octet
  BY DEF Octet
<1>2. e \in Seq(Octet) /\ k = Len(e) /\ k \in Nat
  BY <1>1, EncodeType, ReachEnds
<1>3. /\ z \in Seq(Octet) /\ Len(z) \in Nat
      /\ a.compressed => Len(z) = 2 /\ z[1] = 192 /\ z[2] = 12
      /\ ~ a.compressed => Len(z) = 1 /\ z[1] = 0
  BY ClosingType
<1>4. Target(a) = e \o z
  BY DEF Target
<1> HIDE DEF e, z, k
<1>5. Target(a) \in Seq(Octet) /\ Len(Target(a)) \in Nat
  BY <1>2, <1>3, <1>4, Concat
<1>6. ASSUME NEW w \in Seq(Octet), NEW c \in Nat, HoldsAt(w, c, Target(a))
      PROVE  TargetAt(w, c, a)
  <2>1. HoldsAt(w, c, e) /\ HoldsAt(w, c + k, z)
    BY <1>2, <1>3, <1>4, <1>6, HoldsParts
  <2>2. (c + k) + Len(z) <= Len(w) /\ \A i \in 1 .. Len(z) : w[(c + k) + i] = z[i]
    BY <2>1 DEF HoldsAt
  <2>3. CASE a.compressed
    <3>1. Len(z) = 2 /\ z[1] = 192 /\ z[2] = 12
      BY <1>3, <2>3
    <3>2. (c + k) + 2 <= Len(w) /\ w[(c + k) + 1] = 192 /\ w[(c + k) + 2] = 12
      BY <2>2, <3>1
    <3> QED
      BY <2>1, <2>3, <3>2 DEF TargetAt, e, k
  <2>4. CASE ~ a.compressed
    <3>1. Len(z) = 1 /\ z[1] = 0
      BY <1>3, <2>4
    <3>2. (c + k) + 1 <= Len(w) /\ w[(c + k) + 1] = 0
      BY <2>2, <3>1
    <3> QED
      BY <2>1, <2>4, <3>2 DEF TargetAt, e, k
  <2> QED
    BY <2>3, <2>4
<1> QED
  BY <1>5, <1>6 DEF IsTarget

\* The data of an answer, by its type, is written at c.
DataAt(w, c, a) ==
  /\ HoldsAt(w, c, Data(a))
  /\ a.rtype \in {TYPE_CNAME, TYPE_NS} => TargetAt(w, c, a)
  /\ a.rtype = TYPE_MX =>
       /\ Len(Data(a)) >= 2
       /\ 256 * w[c + 1] + w[c + 2] = a.preference
       /\ TargetAt(w, c + 2, a)

LEMMA TypesDiffer ==
  /\ TYPE_A # TYPE_NS /\ TYPE_A # TYPE_CNAME /\ TYPE_A # TYPE_MX /\ TYPE_A # TYPE_TXT
  /\ TYPE_NS # TYPE_CNAME /\ TYPE_NS # TYPE_MX /\ TYPE_NS # TYPE_TXT
  /\ TYPE_CNAME # TYPE_MX /\ TYPE_CNAME # TYPE_TXT /\ TYPE_MX # TYPE_TXT
  /\ TYPE_AAAA # TYPE_NS /\ TYPE_AAAA # TYPE_CNAME /\ TYPE_AAAA # TYPE_MX
  /\ TYPE_AAAA # TYPE_TXT /\ TYPE_AAAA # TYPE_A
  BY DEF TYPE_A, TYPE_NS, TYPE_CNAME, TYPE_MX, TYPE_TXT, TYPE_AAAA

\* What the data of an answer is, one type at a time.
LEMMA DataIs ==
  ASSUME NEW a
  PROVE  /\ a.rtype \in {TYPE_CNAME, TYPE_NS} => Data(a) = Target(a)
         /\ a.rtype = TYPE_MX => Data(a) = Octets16(a.preference) \o Target(a)
         /\ a.rtype = TYPE_TXT => Data(a) = EncodeStrings(a.parts)
         /\ a.rtype \notin TargetTypes \cup {TYPE_TXT} => Data(a) = a.parts[1]
  BY TypesDiffer, Zenon DEF Data, TargetTypes

LEMMA DataHolds ==
  ASSUME NEW a, IsAnswer(a)
  PROVE  /\ a.rtype \in Word /\ Data(a) \in Seq(Octet) /\ Len(Data(a)) \in Nat
         /\ \A w \in Seq(Octet), c \in Nat : HoldsAt(w, c, Data(a)) => DataAt(w, c, a)
<1>1. a.rtype \in Word /\ a.preference \in Word /\ a.compressed \in BOOLEAN
  BY DEF IsAnswer
<1>2. \A s : s \in Seq(Octet) => Len(s) \in Nat
  OBVIOUS
<1>3. CASE a.rtype \in {TYPE_CNAME, TYPE_NS}
  <2>1. IsStrings(a.parts, 1, 63)
    BY <1>3 DEF IsAnswer, TargetTypes
  <2>2. Data(a) = Target(a) /\ a.rtype # TYPE_MX
    BY <1>3, DataIs, TypesDiffer, Zenon
  <2>3. IsTarget(Target(a), a)
    BY <1>1, <2>1, TargetHolds
  <2> QED
    BY <1>1, <1>2, <2>2, <2>3, Zenon DEF DataAt, IsTarget
<1>4. CASE a.rtype = TYPE_MX
  <2>1. IsStrings(a.parts, 1, 63)
    BY <1>4 DEF IsAnswer, TargetTypes
  <2>2. Data(a) = Octets16(a.preference) \o Target(a) /\ a.rtype \notin {TYPE_CNAME, TYPE_NS}
    BY <1>4, DataIs, TypesDiffer, Zenon
  <2> DEFINE p == Octets16(a.preference)
             t == Target(a)
  <2>3. /\ t \in Seq(Octet) /\ Len(t) \in Nat
        /\ \A w \in Seq(Octet), c \in Nat : HoldsAt(w, c, t) => TargetAt(w, c, a)
    <3>1. IsTarget(Target(a), a)
      BY <1>1, <2>1, TargetHolds
    <3> QED
      BY <3>1, Zenon DEF IsTarget
  <2>4. p \in Seq(Octet) /\ Len(p) = 2
    BY <1>1, Sixteen
  <2> HIDE DEF t
  <2>5. ASSUME NEW w \in Seq(Octet), NEW c \in Nat, HoldsAt(w, c, p)
        PROVE  256 * w[c + 1] + w[c + 2] = a.preference
    <3>1. PICK x \in Word : x = a.preference
      BY <1>1, Zenon
    <3>2. HoldsAt(w, c, Octets16(x))
      BY <2>5, <3>1, Zenon
    <3>3. 256 * w[c + 1] + w[c + 2] = x
      BY <3>2, Octets16Hold, SMT
    <3> QED
      BY <3>1, <3>3
  <2> HIDE DEF p
  <2>6. Data(a) = p \o t
    BY <2>2 DEF p, t
  <2>7. Data(a) \in Seq(Octet) /\ Len(Data(a)) \in Nat /\ Len(Data(a)) >= 2
    <3>1. p \o t \in Seq(Octet) /\ Len(p \o t) = Len(p) + Len(t)
      BY <2>3, <2>4, Concat
    <3> QED
      BY <2>3, <2>4, <2>6, <3>1
  <2>8. ASSUME NEW w \in Seq(Octet), NEW c \in Nat, HoldsAt(w, c, Data(a))
        PROVE  DataAt(w, c, a)
    <3>1. HoldsAt(w, c, p) /\ HoldsAt(w, c + 2, t)
      BY <2>3, <2>4, <2>6, <2>8, HoldsParts
    <3>2. 256 * w[c + 1] + w[c + 2] = a.preference
      BY <2>5, <2>8, <3>1, SMT
    <3>3. TargetAt(w, c + 2, a)
      <4>1. c + 2 \in Nat
        OBVIOUS
      <4> QED
        BY <2>3, <3>1, <4>1, Zenon
    <3> QED
      BY <1>4, <2>2, <2>7, <2>8, <3>2, <3>3, Zenon DEF DataAt
  <2> QED
    BY <1>1, <2>7, <2>8, Zenon
<1>5. CASE a.rtype \notin TargetTypes
  <2>1. Data(a) \in Seq(Octet)
    <3>1. CASE a.rtype = TYPE_TXT
      <4>1. IsStrings(a.parts, 0, 255)
        BY <3>1, Zenon DEF IsAnswer
      <4>2. 0 \in Nat /\ 255 \in Octet
        BY DEF Octet
      <4>3. Data(a) = EncodeStrings(a.parts)
        BY <3>1, DataIs, Zenon
      <4> QED
        BY <4>1, <4>2, <4>3, EncodeType
    <3>2. CASE a.rtype # TYPE_TXT
      <4>1. a.rtype \notin TargetTypes \cup {TYPE_TXT}
        BY <1>5, <3>2
      <4>2. a.parts \in Seq(Seq(Octet)) /\ Len(a.parts) = 1
        BY <4>1, Zenon DEF IsAnswer
      <4>3. Data(a) = a.parts[1]
        BY <4>1, DataIs, Zenon
      <4> QED
        BY <4>2, <4>3
    <3> QED
      BY <3>1, <3>2
  <2>2. a.rtype \notin {TYPE_CNAME, TYPE_NS} /\ a.rtype # TYPE_MX
    BY <1>5 DEF TargetTypes
  <2> QED
    BY <1>1, <1>2, <2>1, <2>2, Zenon DEF DataAt
<1> QED
  BY <1>3, <1>4, <1>5 DEF TargetTypes

\* The same anywhere in the octets.
NumberAfter(s, k, n, t) ==
  /\ t \in Seq(Octet) /\ Len(t) = k + 2
  /\ \A w \in Seq(Octet), at \in Nat : HoldsAt(w, at, t) =>
       HoldsAt(w, at, s) /\ HoldsAt(w, at + k, Octets16(n))

LEMMA BehindHolds ==
  ASSUME NEW s \in Seq(Octet), NEW k \in Nat, Len(s) = k, NEW n \in Word
  PROVE  NumberAfter(s, k, n, Behind(s, n))
<1>1. TwoMore(s, k, n)
  BY NumberBehind
<1>2. Octets16(n) \in Seq(Octet)
  BY Sixteen
<1>3. ASSUME NEW w \in Seq(Octet), NEW at \in Nat, HoldsAt(w, at, Behind(s, n))
      PROVE  HoldsAt(w, at, s) /\ HoldsAt(w, at + k, Octets16(n))
  <2> DEFINE t == Octets16(n)
  <2>1. HoldsAt(w, at, s \o t)
    BY <1>3 DEF Behind
  <2> HIDE DEF t
  <2>2. t \in Seq(Octet)
    BY <1>2 DEF t
  <2>3. HoldsAt(w, at, s) /\ HoldsAt(w, at + k, t)
    BY <2>1, <2>2, HoldsParts
  <2> QED
    BY <2>3 DEF t
<1> QED
  BY <1>1, <1>3 DEF TwoMore, NumberAfter

\* An answer: a pointer, type, class, time to live and length, then the data.
AnswerAt(w, c, a) ==
  /\ c + 12 + Len(Data(a)) <= Len(w)
  /\ w[c + 1] = 192 /\ w[c + 2] = 12
  /\ 256 * w[c + 3] + w[c + 4] = a.rtype
  /\ 256 * w[c + 11] + w[c + 12] = Len(Data(a))
  /\ DataAt(w, c + 12, a)

LEMMA AnswerHolds ==
  ASSUME NEW a, IsAnswer(a), Len(Data(a)) \in Word
  PROVE  /\ EncodeAnswer(a) \in Seq(Octet) /\ Len(EncodeAnswer(a)) = 12 + Len(Data(a))
         /\ \A w \in Seq(Octet), c \in Nat :
              HoldsAt(w, c, EncodeAnswer(a)) => AnswerAt(w, c, a)
<1> DEFINE d == Data(a)
<1>1. /\ a.rtype \in Word /\ d \in Seq(Octet) /\ Len(d) \in Nat /\ Len(d) \in Word
      /\ CLASS_IN \in Word
  BY DataHolds, SmallWords
<1> HIDE DEF d
<1>2. /\ ToQuestion \in Seq(Octet) /\ Len(ToQuestion) = 2
      /\ ToQuestion[1] = 192 /\ ToQuestion[2] = 12
  <2>1. 12 \in Octet /\ 192 \in Octet
    BY DEF Octet
  <2> QED
    BY <2>1 DEF ToQuestion
<1>3. PICK ttl : ttl = << 0, 0, 1, 44 >>
  BY Zenon
<1>4. ttl \in Seq(Octet) /\ Len(ttl) = 4
  <2>1. 0 \in Octet /\ 1 \in Octet /\ 44 \in Octet
    BY DEF Octet
  <2> QED
    BY <1>3, <2>1
<1>5. PICK h1 : h1 = Behind(ToQuestion, a.rtype)
  BY Zenon
<1>6. NumberAfter(ToQuestion, 2, a.rtype, h1)
  <2> DEFINE n == a.rtype
  <2> HIDE DEF n
  <2>1. n \in Word /\ 2 \in Nat
    BY <1>1 DEF n
  <2>2. NumberAfter(ToQuestion, 2, n, Behind(ToQuestion, n))
    BY <1>2, <2>1, BehindHolds
  <2> QED
    BY <1>5, <2>2 DEF n
<1>7. PICK h2 : h2 = Behind(h1, CLASS_IN)
  BY Zenon
<1>8. NumberAfter(h1, 4, CLASS_IN, h2)
  <2>1. h1 \in Seq(Octet) /\ Len(h1) = 4 /\ 4 \in Nat
    BY <1>6 DEF NumberAfter
  <2> QED
    BY <1>1, <1>7, <2>1, BehindHolds
<1>9. PICK h3 : h3 = h2 \o ttl
  BY Zenon
<1>10. h3 \in Seq(Octet) /\ Len(h3) = 10
  <2>1. h2 \in Seq(Octet) /\ Len(h2) = 6
    BY <1>8 DEF NumberAfter
  <2>2. h2 \o ttl \in Seq(Octet) /\ Len(h2 \o ttl) = Len(h2) + Len(ttl)
    BY <1>4, <2>1, Concat
  <2> QED
    BY <1>4, <1>9, <2>1, <2>2
<1>11. PICK h4 : h4 = Behind(h3, Len(d))
  BY Zenon
<1>12. NumberAfter(h3, 10, Len(d), h4)
  BY <1>1, <1>10, <1>11, BehindHolds
<1>13. EncodeAnswer(a) = h4 \o d
  BY <1>3, <1>5, <1>7, <1>9, <1>11, Zenon DEF EncodeAnswer, Behind, d
<1>14. EncodeAnswer(a) \in Seq(Octet) /\ Len(EncodeAnswer(a)) = 12 + Len(d)
  <2>1. h4 \o d \in Seq(Octet) /\ Len(h4 \o d) = 12 + Len(d)
    <3>1. h4 \in Seq(Octet) /\ Len(h4) = 12
      BY <1>12 DEF NumberAfter
    <3>2. h4 \o d \in Seq(Octet) /\ Len(h4 \o d) = Len(h4) + Len(d)
      BY <1>1, <3>1, Concat
    <3> QED
      BY <3>1, <3>2
  <2> QED
    BY <1>13, <2>1
<1>15. ASSUME NEW w \in Seq(Octet), NEW c \in Nat, HoldsAt(w, c, EncodeAnswer(a))
       PROVE  AnswerAt(w, c, a)
  <2>1. HoldsAt(w, c, h4 \o d)
    BY <1>13, <1>15
  <2>2. HoldsAt(w, c, h4) /\ HoldsAt(w, c + 12, d)
    <3>1. h4 \in Seq(Octet) /\ Len(h4) = 12
      BY <1>12 DEF NumberAfter
    <3> QED
      BY <1>1, <2>1, <3>1, HoldsParts
  <2>3. HoldsAt(w, c, h3) /\ HoldsAt(w, c + 10, Octets16(Len(d)))
    BY <1>12, <2>2 DEF NumberAfter
  <2>4. HoldsAt(w, c, h2)
    BY <1>4, <1>8, <1>9, <2>3, HoldsParts DEF NumberAfter
  <2>5. HoldsAt(w, c, h1)
    BY <1>8, <2>4 DEF NumberAfter
  <2>6. HoldsAt(w, c, ToQuestion) /\ HoldsAt(w, c + 2, Octets16(a.rtype))
    BY <1>6, <2>5 DEF NumberAfter
  <2>7. w[c + 1] = 192 /\ w[c + 2] = 12
    BY <1>2, <2>6 DEF HoldsAt
  <2>8. 256 * w[c + 3] + w[c + 4] = a.rtype
    <3>1. c + 2 \in Nat /\ (c + 2) + 1 = c + 3 /\ (c + 2) + 2 = c + 4
      OBVIOUS
    <3>2. 256 * w[(c + 2) + 1] + w[(c + 2) + 2] = a.rtype
      BY <1>1, <2>6, <3>1, Octets16Hold
    <3> QED
      BY <3>1, <3>2
  <2>9. 256 * w[c + 11] + w[c + 12] = Len(d)
    <3>1. c + 10 \in Nat /\ (c + 10) + 1 = c + 11 /\ (c + 10) + 2 = c + 12
      OBVIOUS
    <3>2. 256 * w[(c + 10) + 1] + w[(c + 10) + 2] = Len(d)
      BY <1>1, <2>3, <3>1, Octets16Hold
    <3> QED
      BY <3>1, <3>2
  <2>10. DataAt(w, c + 12, a)
    <3>1. c + 12 \in Nat
      OBVIOUS
    <3> QED
      BY <2>2, <3>1, DataHolds DEF d
  <2>11. c + 12 + Len(d) <= Len(w)
    BY <2>2 DEF HoldsAt
  <2> QED
    BY <2>7, <2>8, <2>9, <2>10, <2>11 DEF AnswerAt, d
<1> QED
  BY <1>14, <1>15 DEF d

-----------------------------------------------------------------------------
(* The layout of messages and queries.                                     *)

\* What follows the labels of a question.
QuestionFrom(s, k, qtype) == Behind(Behind(s \o << 0 >>, qtype), CLASS_IN)

LEMMA QuestionHolds ==
  ASSUME NEW s \in Seq(Octet), NEW k \in Nat, Len(s) = k, NEW qtype \in Word
  PROVE  /\ QuestionFrom(s, k, qtype) \in Seq(Octet)
         /\ Len(QuestionFrom(s, k, qtype)) = k + 5
         /\ \A w \in Seq(Octet), at \in Nat : HoldsAt(w, at, QuestionFrom(s, k, qtype)) =>
              HoldsAt(w, at, s) /\ w[(at + k) + 1] = 0
<1>1. /\ << 0 >> \in Seq(Octet) /\ Len(<< 0 >>) = 1 /\ << 0 >>[1] = 0
  BY DEF Octet
<1>2. CLASS_IN \in Word
  BY SmallWords
<1>3. PICK r : r = s \o << 0 >>
  BY Zenon
<1>4. r \in Seq(Octet) /\ Len(r) = k + 1 /\ k + 1 \in Nat
  BY <1>1, <1>3, Concat
<1>5. PICK t : t = Behind(r, qtype)
  BY Zenon
<1>6. NumberAfter(r, k + 1, qtype, t)
  BY <1>4, <1>5, BehindHolds
<1>7. t \in Seq(Octet) /\ Len(t) = k + 3 /\ k + 3 \in Nat
  BY <1>6 DEF NumberAfter
<1>8. PICK q : q = Behind(t, CLASS_IN)
  BY Zenon
<1>9. NumberAfter(t, k + 3, CLASS_IN, q)
  BY <1>2, <1>7, <1>8, BehindHolds
<1>10. q \in Seq(Octet) /\ Len(q) = k + 5
  BY <1>9 DEF NumberAfter
<1>11. ASSUME NEW w \in Seq(Octet), NEW at \in Nat, HoldsAt(w, at, q)
       PROVE  HoldsAt(w, at, s) /\ w[(at + k) + 1] = 0
  <2>1. HoldsAt(w, at, t)
    BY <1>9, <1>11, Zenon DEF NumberAfter
  <2>2. HoldsAt(w, at, r)
    BY <1>6, <2>1, Zenon DEF NumberAfter
  <2>3. HoldsAt(w, at, s) /\ HoldsAt(w, at + k, << 0 >>)
    BY <1>1, <1>3, <2>2, HoldsParts
  <2>4. w[(at + k) + 1] = 0
    BY <1>1, <2>3 DEF HoldsAt
  <2> QED
    BY <2>3, <2>4
<1>12. q = QuestionFrom(s, k, qtype)
  BY <1>3, <1>5, <1>8, Zenon DEF QuestionFrom
<1> QED
  BY <1>10, <1>11, <1>12, Zenon

Answers(m) == [i \in DOMAIN m |-> EncodeAnswer(m[i])]

\* Where the question ends, and the first k answers.
QuestionEnd == 12 + Reach(Asked, Len(Asked)) + 5
Bound(m, k) == QuestionEnd + Offset(Answers(m), k)

LEMMA AnswersType ==
  ASSUME NEW m \in Messages
  PROVE  /\ Len(m) \in Nat /\ DOMAIN m = 1 .. Len(m) /\ Len(m) \in Word
         /\ Answers(m) \in Seq(Seq(Octet)) /\ Len(Answers(m)) = Len(m)
         /\ \A i \in 1 .. Len(m) :
              /\ IsAnswer(m[i]) /\ Len(Data(m[i])) \in Word
              /\ Answers(m)[i] = EncodeAnswer(m[i])
<1>1. /\ m \in Seq(Range(m)) /\ Len(m) \in Word
      /\ \A i \in DOMAIN m : IsAnswer(m[i]) /\ Len(Data(m[i])) \in Word
  BY MessagesAssumption, Zenon
<1>2. Len(m) \in Nat /\ DOMAIN m = 1 .. Len(m)
  BY <1>1
<1>3. \A i \in 1 .. Len(m) : EncodeAnswer(m[i]) \in Seq(Octet)
  BY <1>1, <1>2, AnswerHolds
<1>4. Answers(m) \in [1 .. Len(m) -> Seq(Octet)]
  BY <1>2, <1>3 DEF Answers
<1>5. Answers(m) \in Seq(Seq(Octet)) /\ Len(Answers(m)) = Len(m)
  BY <1>2, <1>4, ListOf, Zenon
<1>6. \A i \in 1 .. Len(m) : Answers(m)[i] = EncodeAnswer(m[i])
  BY <1>2 DEF Answers
<1> QED
  BY <1>1, <1>2, <1>5, <1>6

\* The octets of a message, one part after the other.
HeaderAt(e, answers) ==
  /\ 256 * e[1] + e[2] = ExpectedId
  /\ e[4] % 16 = 0
  /\ 256 * e[5] + e[6] = 1
  /\ 256 * e[7] + e[8] = answers

NameAt(e, at, n) ==
  /\ HoldsAt(e, at, EncodeStrings(n))
  /\ e[(at + Reach(n, Len(n))) + 1] = 0

LEMMA HeaderIs ==
  ASSUME NEW flags \in Word, (flags % 256) % 16 = 0, NEW answers \in Word
  PROVE  LET h == Header(ExpectedId, flags, 1, answers)
         IN  /\ h \in Seq(Octet) /\ Len(h) = 12
             /\ \A w \in Seq(Octet) : HoldsAt(w, 0, h) => HeaderAt(w, answers)
<1>1. ExpectedId \in Word /\ 1 \in Word
  BY IdAssumption, SmallWords
<1> QED
  BY <1>1, HeaderHolds DEF HeaderAt

LEMMA AskedType ==
  /\ EncodeStrings(Asked) \in Seq(Octet)
  /\ Len(EncodeStrings(Asked)) = Reach(Asked, Len(Asked))
  /\ Reach(Asked, Len(Asked)) \in Nat
<1>1. IsStrings(Asked, 1, 63) /\ 1 \in Nat /\ 63 \in Octet
  BY AskedAssumption DEF Octet
<1> QED
  BY <1>1, EncodeType, ReachEnds

LEMMA PreambleHolds ==
  ASSUME NEW m \in Messages
  PROVE  /\ Preamble(m) \in Seq(Octet) /\ Len(Preamble(m)) = QuestionEnd
         /\ QuestionEnd \in Nat /\ QuestionEnd >= 17
         /\ \A w \in Seq(Octet) : HoldsAt(w, 0, Preamble(m)) =>
              HeaderAt(w, Len(m)) /\ NameAt(w, 12, Asked)
<1> DEFINE h == Header(ExpectedId, Response, 1, Len(m))
           s == EncodeStrings(Asked)
           k == Reach(Asked, Len(Asked))
           q == QuestionFrom(s, k, TYPE_A)
<1>1. /\ h \in Seq(Octet) /\ Len(h) = 12
      /\ \A w \in Seq(Octet) : HoldsAt(w, 0, h) => HeaderAt(w, Len(m))
  <2>1. (Response % 256) % 16 = 0
    BY DEF Response
  <2>2. Response \in Word /\ Len(m) \in Word
    BY AnswersType, SmallWords
  <2> QED
    BY <2>1, <2>2, HeaderIs
<1>2. s \in Seq(Octet) /\ Len(s) = k /\ k \in Nat
  BY AskedType
<1>3. /\ q \in Seq(Octet) /\ Len(q) = k + 5
      /\ \A w \in Seq(Octet), at \in Nat : HoldsAt(w, at, q) =>
           HoldsAt(w, at, s) /\ w[(at + k) + 1] = 0
  <2>1. TYPE_A \in Word
    BY SmallWords
  <2> HIDE DEF s, k
  <2> QED
    BY <1>2, <2>1, QuestionHolds
<1>4. Preamble(m) = h \o q
  BY Zenon DEF Preamble, Question, QuestionFrom, Behind
<1> HIDE DEF h, q
<1>5. /\ Preamble(m) \in Seq(Octet) /\ Len(Preamble(m)) = 12 + (k + 5)
  <2>1. h \o q \in Seq(Octet) /\ Len(h \o q) = Len(h) + Len(q)
    BY <1>1, <1>3, Concat
  <2> QED
    BY <1>1, <1>3, <1>4, <2>1
<1>6. QuestionEnd = 12 + (k + 5) /\ QuestionEnd \in Nat /\ QuestionEnd >= 17
  BY <1>2 DEF QuestionEnd
<1>7. ASSUME NEW w \in Seq(Octet), HoldsAt(w, 0, Preamble(m))
      PROVE  HeaderAt(w, Len(m)) /\ NameAt(w, 12, Asked)
  <2>1. HoldsAt(w, 0, h) /\ HoldsAt(w, 0 + 12, q)
    BY <1>1, <1>3, <1>4, <1>7, HoldsParts
  <2>2. HoldsAt(w, 12, q) /\ 12 \in Nat
    BY <2>1
  <2>3. HoldsAt(w, 12, s) /\ w[(12 + k) + 1] = 0
    BY <1>3, <2>2, Zenon
  <2> QED
    BY <1>1, <2>1, <2>3, Zenon DEF NameAt
<1> QED
  BY <1>5, <1>6, <1>7

\* Where the answers are.
AnswersAt(m, e) ==
  \A k \in Nat : k < Len(m) =>
    /\ Bound(m, k) \in Nat /\ Bound(m, k) >= QuestionEnd
    /\ Bound(m, k + 1) = Bound(m, k) + 12 + Len(Data(m[k + 1]))
    /\ AnswerAt(e, Bound(m, k), m[k + 1])

LEMMA MessageHolds ==
  ASSUME NEW m \in Messages
  PROVE  /\ Encoded[m] \in Seq(Octet)
         /\ Bound(m, 0) = QuestionEnd /\ Bound(m, Len(m)) = Len(Encoded[m])
         /\ QuestionEnd <= Len(Encoded[m])
         /\ HeaderAt(Encoded[m], Len(m)) /\ NameAt(Encoded[m], 12, Asked)
         /\ AnswersAt(m, Encoded[m])
<1> DEFINE p == Preamble(m)
           q == Answers(m)
           f == FlattenSeq(q)
           e == Encoded[m]
<1>1. e = p \o f
  BY Zenon DEF Encoded, EncodeMessage, Answers
<1>2. /\ p \in Seq(Octet) /\ Len(p) = QuestionEnd /\ QuestionEnd \in Nat
      /\ \A w \in Seq(Octet) : HoldsAt(w, 0, p) =>
           HeaderAt(w, Len(m)) /\ NameAt(w, 12, Asked)
  BY PreambleHolds
<1>3. /\ q \in Seq(Seq(Octet)) /\ Len(q) = Len(m) /\ Len(m) \in Nat
      /\ \A i \in 1 .. Len(m) :
           /\ IsAnswer(m[i]) /\ Len(Data(m[i])) \in Word
           /\ q[i] = EncodeAnswer(m[i])
  BY AnswersType
<1> HIDE DEF p, q, e
<1>4. f \in Seq(Octet) /\ Len(f) = Offset(q, Len(q)) /\ Offset(q, 0) = 0
  BY <1>3, FlattenType, OffsetEnds
<1> HIDE DEF f
<1>5. e \in Seq(Octet) /\ Len(e) = QuestionEnd + Len(f) /\ Len(f) \in Nat
  <2>1. p \o f \in Seq(Octet) /\ Len(p \o f) = Len(p) + Len(f) /\ Len(f) \in Nat
    BY <1>2, <1>4, Concat
  <2> QED
    BY <1>1, <1>2, <2>1
<1>6. HoldsAt(e, 0, p \o f)
  <2>1. Len(p \o f) = Len(e) /\ Len(e) \in Nat
    BY <1>1, <1>5
  <2>2. 0 + Len(p \o f) <= Len(e)
    BY <2>1
  <2>3. ASSUME NEW i \in 1 .. Len(p \o f) PROVE e[0 + i] = (p \o f)[i]
    <3>1. 0 + i = i
      BY <2>1
    <3> QED
      BY <1>1, <3>1
  <2> QED
    BY <2>2, <2>3 DEF HoldsAt
<1>7. HoldsAt(e, 0, p) /\ HoldsAt(e, 0 + QuestionEnd, f)
  BY <1>2, <1>4, <1>5, <1>6, HoldsParts
<1>8. HeaderAt(e, Len(m)) /\ NameAt(e, 12, Asked)
  BY <1>2, <1>5, <1>7, Zenon
<1>9. ASSUME NEW k \in Nat, k < Len(m)
      PROVE  /\ Bound(m, k) \in Nat /\ Bound(m, k) >= QuestionEnd
             /\ Bound(m, k + 1) = Bound(m, k) + 12 + Len(Data(m[k + 1]))
             /\ AnswerAt(e, Bound(m, k), m[k + 1])
  <2> DEFINE a == m[k + 1]
             o == Offset(q, k)
  <2>1. /\ IsAnswer(a) /\ Len(Data(a)) \in Word
        /\ q[k + 1] = EncodeAnswer(a)
    <3>1. k + 1 \in 1 .. Len(m)
      BY <1>3, <1>9
    <3> QED
      BY <1>3, <3>1
  <2>2. k < Len(q)
    BY <1>3, <1>9
  <2> HIDE DEF a
  <2>3. /\ o \in Nat
        /\ Offset(q, k + 1) = o + Len(EncodeAnswer(a))
    BY <1>3, <2>1, <2>2, OffsetNext
  <2>4. /\ Len(EncodeAnswer(a)) = 12 + Len(Data(a)) /\ Len(Data(a)) \in Nat
        /\ \A w \in Seq(Octet), c \in Nat :
             HoldsAt(w, c, EncodeAnswer(a)) => AnswerAt(w, c, a)
    BY <2>1, AnswerHolds, DataHolds
  <2>5. HoldsAt(e, QuestionEnd + o, EncodeAnswer(a))
    <3>1. HoldsAt(e, QuestionEnd, FlattenSeq(q))
      BY <1>2, <1>7 DEF f
    <3>2. HoldsAt(e, QuestionEnd + Offset(q, k), q[k + 1])
      BY <1>2, <1>3, <1>5, <2>2, <3>1, FlattenHolds
    <3> QED
      BY <2>1, <3>2
  <2>6. Bound(m, k) = QuestionEnd + o /\ Bound(m, k + 1) = QuestionEnd + Offset(q, k + 1)
    BY DEF Bound, q
  <2> HIDE DEF o
  <2>7. Bound(m, k) \in Nat /\ Bound(m, k) >= QuestionEnd
    BY <1>2, <2>3, <2>6
  <2>8. Bound(m, k + 1) = Bound(m, k) + 12 + Len(Data(a))
    BY <1>2, <2>3, <2>4, <2>6
  <2>9. AnswerAt(e, Bound(m, k), a)
    BY <1>5, <2>4, <2>5, <2>6, <2>7
  <2> QED
    BY <2>7, <2>8, <2>9 DEF a
<1>10. Bound(m, 0) = QuestionEnd /\ Bound(m, Len(m)) = Len(e) /\ QuestionEnd <= Len(e)
  BY <1>2, <1>3, <1>4, <1>5 DEF Bound, q
<1> QED
  BY <1>5, <1>8, <1>9, <1>10 DEF AnswersAt, e

LEMMA SentType ==
  ASSUME NEW n \in Names
  PROVE  IsStrings(LabelsSent(n), 1, 191) /\ LabelsSent(n) = NonEmpty(n)
<1> DEFINE X == {l \in Seq(Octet) : Len(l) \in 1 .. 191}
           q == [i \in DOMAIN n |-> IF n[i] = << >> THEN << >> ELSE << n[i] >>]
<1>1. n \in Seq(Seq(Octet)) /\ \A i \in DOMAIN n : Len(n[i]) \in 0 .. 191
  BY NamesAssumption, Zenon DEF IsStrings
<1>2. Len(n) \in Nat /\ DOMAIN n = 1 .. Len(n)
  BY <1>1
<1>3. ASSUME NEW i \in 1 .. Len(n)
      PROVE  (IF n[i] = << >> THEN << >> ELSE << n[i] >>) \in Seq(X)
  <2> DEFINE s == n[i]
  <2>1. s \in Seq(Octet) /\ Len(s) \in 0 .. 191
    <3>1. \A S : \A r \in Seq(S) : \A k \in DOMAIN r : r[k] \in S
      OBVIOUS
    <3> QED
      BY <1>1, <1>2, <3>1, Zenon
  <2> HIDE DEF s
  <2>2. CASE s # << >>
    <3>1. Len(s) # 0 /\ Len(s) \in Nat
      BY <2>1, <2>2
    <3>2. s \in X
      BY <2>1, <3>1
    <3> HIDE DEF X
    <3>3. << s >> \in Seq(X)
      BY <3>2
    <3> QED
      BY <2>2, <3>3 DEF s
  <2>3. CASE s = << >>
    <3> HIDE DEF X
    <3>1. << >> \in Seq(X)
      OBVIOUS
    <3> QED
      BY <2>3, <3>1 DEF s
  <2> QED
    BY <2>2, <2>3
<1>4. q \in Seq(Seq(X))
  <2> HIDE DEF X
  <2>1. q \in [1 .. Len(n) -> Seq(X)]
    BY <1>2, <1>3
  <2> HIDE DEF q
  <2> QED
    BY <1>2, <2>1, ListOf, Zenon
<1> DEFINE s == FlattenSeq(q)
<1>5. s \in Seq(X)
  <2> HIDE DEF X, q
  <2> QED
    BY <1>4, FlattenType
<1>6. LabelsSent(n) = s /\ NonEmpty(n) = s
  BY Zenon DEF LabelsSent, NonEmpty
<1> HIDE DEF s, q
<1>7. s \in Seq(Seq(Octet))
  <2>1. \A i \in 1 .. Len(s) : s[i] \in X
    <3>1. \A S : \A r \in Seq(S) : \A i \in 1 .. Len(r) : r[i] \in S
      OBVIOUS
    <3> HIDE DEF X
    <3> QED
      BY <1>5, <3>1, Zenon
  <2>2. s \in [1 .. Len(s) -> Seq(Octet)] /\ Len(s) \in Nat
    <3>1. \A i \in 1 .. Len(s) : s[i] \in Seq(Octet)
      BY <2>1
    <3>2. DOMAIN s = 1 .. Len(s) /\ Len(s) \in Nat /\ s = [i \in DOMAIN s |-> s[i]]
      BY <1>5
    <3> QED
      BY <3>1, <3>2
  <2> QED
    BY <2>2, ListOf, Zenon
<1>8. \A i \in DOMAIN s : Len(s[i]) \in 1 .. 191
  <2>1. \A i \in DOMAIN s : s[i] \in X
    <3> HIDE DEF X
    <3> QED
      BY <1>5
  <2> QED
    BY <2>1
<1> QED
  BY <1>6, <1>7, <1>8 DEF IsStrings

\* A query: the header, and the question, which is all of it.
LEMMA QueryHolds ==
  ASSUME NEW n \in Names
  PROVE  LET e == Queries[n]
             s == NonEmpty(n)
         IN  /\ e \in Seq(Octet) /\ Len(e) = 12 + Reach(s, Len(s)) + 5
             /\ HeaderAt(e, 0) /\ NameAt(e, 12, s)
             /\ IsStrings(s, 1, 191)
<1> DEFINE e == Queries[n]
           s == NonEmpty(n)
           h == Header(ExpectedId, 256, 1, 0)
           f == EncodeStrings(s)
           k == Reach(s, Len(s))
           t == h \o f
<1>1. IsStrings(s, 1, 191) /\ LabelsSent(n) = s
  BY SentType
<1> HIDE DEF s
<1>2. 1 \in Nat /\ 191 \in Octet
  BY DEF Octet
<1>3. f \in Seq(Octet) /\ Len(f) = k /\ k \in Nat
  BY <1>1, <1>2, EncodeType, ReachEnds
<1>4. /\ h \in Seq(Octet) /\ Len(h) = 12
      /\ \A w \in Seq(Octet) : HoldsAt(w, 0, h) => HeaderAt(w, 0)
  <2>1. (256 % 256) % 16 = 0
    OBVIOUS
  <2>2. 256 \in Word /\ 0 \in Word
    BY SmallWords
  <2> QED
    BY <2>1, <2>2, HeaderIs
<1> HIDE DEF h
<1>5. t \in Seq(Octet) /\ Len(t) = 12 + k /\ 12 + k \in Nat
  <2> HIDE DEF f, k
  <2>1. h \o f \in Seq(Octet) /\ Len(h \o f) = Len(h) + Len(f)
    BY <1>3, <1>4, Concat
  <2> QED
    BY <1>3, <1>4, <2>1
<1> DEFINE q == QuestionFrom(t, 12 + k, TYPE_MX)
<1>6. /\ q \in Seq(Octet) /\ Len(q) = (12 + k) + 5
      /\ \A w \in Seq(Octet), at \in Nat : HoldsAt(w, at, q) =>
           HoldsAt(w, at, t) /\ w[(at + (12 + k)) + 1] = 0
  <2>1. TYPE_MX \in Word
    BY SmallWords
  <2> HIDE DEF t, k
  <2> QED
    BY <1>5, <2>1, QuestionHolds
<1>7. e = q
  <2>1. FlattenSeq([i \in DOMAIN s |-> << Len(s[i]) % 256 >> \o s[i]]) = f
    <3>1. DOMAIN s = 1 .. Len(s)
      BY <1>1 DEF IsStrings
    <3>2. \A i \in DOMAIN s : Len(s[i]) % 256 = Len(s[i])
      <4>1. \A l \in 1 .. 191 : l % 256 = l
        OBVIOUS
      <4>2. \A i \in DOMAIN s : Len(s[i]) \in 1 .. 191
        BY <1>1, Zenon DEF IsStrings
      <4> QED
        BY <4>1, <4>2, Zenon
    <3>3. [i \in DOMAIN s |-> << Len(s[i]) % 256 >> \o s[i]] =
            [i \in DOMAIN s |-> << Len(s[i]) >> \o s[i]]
      BY <3>2
    <3> QED
      BY <3>3, Zenon DEF EncodeStrings
  <2>2. e = BuildQuery(ExpectedId, n, TYPE_MX)
    BY Zenon DEF Queries
  <2> HIDE DEF e
  <2>3. BuildQuery(ExpectedId, n, TYPE_MX) = q
    <3> DEFINE g == FlattenSeq([i \in DOMAIN s |-> << Len(s[i]) % 256 >> \o s[i]])
               Ends(w) == ((w \o << 0 >>) \o Octets16(TYPE_MX)) \o Octets16(CLASS_IN)
    <3>1. BuildQuery(ExpectedId, n, TYPE_MX) = Ends(h \o g)
      BY <1>1, Zenon DEF BuildQuery, Header, h
    <3>2. q = Ends(h \o f)
      BY Zenon DEF QuestionFrom, Behind
    <3> HIDE DEF g, Ends
    <3> QED
      BY <2>1, <3>1, <3>2, Zenon DEF g
  <2> QED
    BY <2>2, <2>3
<1> HIDE DEF e, q
<1>8. HoldsAt(e, 0, q)
  <2>1. Len(q) = Len(e) /\ Len(e) \in Nat
    BY <1>6, <1>7
  <2>2. \A i \in 1 .. Len(q) : e[0 + i] = q[i]
    BY <1>7, <2>1
  <2> QED
    BY <2>1, <2>2 DEF HoldsAt
<1>9. HoldsAt(e, 0, t) /\ e[(12 + k) + 1] = 0
  <2>1. e \in Seq(Octet) /\ 0 \in Nat
    BY <1>6, <1>7
  <2> HIDE DEF t
  <2>2. HoldsAt(e, 0, t) /\ e[(0 + (12 + k)) + 1] = 0
    BY <1>6, <1>8, <2>1, Zenon
  <2>3. 0 + (12 + k) = 12 + k
    BY <1>3
  <2> QED
    BY <2>2, <2>3
<1>10. HoldsAt(e, 0, h) /\ HoldsAt(e, 12, f)
  <2>1. e \in Seq(Octet)
    BY <1>6, <1>7
  <2> HIDE DEF f
  <2>2. HoldsAt(e, 0, h) /\ HoldsAt(e, 0 + 12, f)
    BY <1>3, <1>4, <1>9, <2>1, HoldsParts
  <2> QED
    BY <2>2
<1>11. NameAt(e, 12, s) /\ HeaderAt(e, 0)
  <2>1. e \in Seq(Octet)
    BY <1>6, <1>7
  <2> QED
    BY <1>4, <1>9, <1>10, <2>1, Zenon DEF NameAt
<1>12. e \in Seq(Octet) /\ Len(e) = 12 + k + 5
  BY <1>3, <1>6, <1>7
<1> QED
  BY <1>1, <1>11, <1>12 DEF e, s

-----------------------------------------------------------------------------
(* How far the reader has got in a message.                                *)

\* read_name is inside the labels n written at `at`, or in the strings.
InLabels(at, n, before) ==
  \E i \in 0 .. Len(n) :
    /\ cursor = at + Reach(n, i)
    /\ parts = before \o SubSeq(n, 1, i)

\* The question is read, and the first k answers.
Read(m, k) ==
  /\ k \in 0 .. Len(m)
  /\ qleft = 0
  /\ aleft = Len(m) - k
  /\ records = SubSeq(Meaning(m), 1, k)
  /\ Bound(m, k) <= Len(buf)

\* The owner of the next answer is a pointer to the name of the question.
InOwner(m, k) ==
  \/ /\ end = 0 /\ jumps = 0
     /\ cursor = Bound(m, k)
     /\ parts = << >>
  \/ /\ end = Bound(m, k) + 2 /\ jumps = 1
     /\ InLabels(12, Asked, << >>)

\* The fixed part of the next answer is read, and its data is there.
AtData(m, k) ==
  /\ k < Len(m)
  /\ rr = [rtype |-> m[k + 1].rtype, start |-> Bound(m, k) + 12, len |-> Len(Data(m[k + 1]))]
  /\ rr.start + rr.len <= Len(buf)

\* A target is behind the preference of an exchange.  It ends in its own
\* closing zero, or in that of the question.
Start(a) == IF a.rtype = TYPE_MX THEN rr.start + 2 ELSE rr.start

InTarget(a) ==
  \/ jumps = 0 /\ InLabels(Start(a), a.parts, << >>)
  \/ jumps = 1 /\ a.compressed /\ InLabels(12, Asked, a.parts)

AtHeader == pc = "header" => records = << >>

AtNext(m) ==
  pc = "next" =>
    \/ qleft = 1 /\ aleft = Len(m) /\ records = << >> /\ pos = 12
    \/ \E k \in Nat : Read(m, k) /\ pos = Bound(m, k)

AtQuestion(m) ==
  pc = "reading" /\ caller = "question" =>
    /\ qleft = 1 /\ aleft = Len(m) /\ records = << >>
    /\ end = 0 /\ jumps = 0
    /\ InLabels(12, Asked, << >>)

AtOwner(m) ==
  pc = "reading" /\ caller = "owner" =>
    \E k \in Nat : Read(m, k) /\ k < Len(m) /\ InOwner(m, k)

InAnswer(m) ==
  pc \in {"rdata", "text"} \/ (pc = "reading" /\ caller = "target") =>
    \E k \in Nat :
      /\ Read(m, k) /\ AtData(m, k)
      /\ pc = "text" => InLabels(rr.start, m[k + 1].parts, << >>)
      /\ pc = "reading" => InTarget(m[k + 1])

AtReturn(m) ==
  pc \in {"some", "none"} =>
    /\ IsPrefix(records, Meaning(m))
    /\ buf = Encoded[m] => pc = "some" /\ records = Meaning(m)

Progress(m) ==
  /\ AtHeader /\ AtNext(m) /\ AtQuestion(m) /\ AtOwner(m) /\ InAnswer(m) /\ AtReturn(m)

MInv ==
  /\ WInv
  /\ \A m \in Messages : IsPrefix(buf, Encoded[m]) => Progress(m)

\* The same of a query sent back, which has the question and no answer.
Back(n) ==
  /\ pc = "next" => aleft = 0 /\ (qleft = 0 \/ (qleft = 1 /\ pos = 12))
  /\ pc = "reading" =>
       /\ caller = "question" /\ qleft = 1 /\ aleft = 0
       /\ end = 0 /\ jumps = 0
       /\ InLabels(12, NonEmpty(n), << >>)
  /\ pc \notin {"rdata", "text"}

QInv ==
  /\ WInv
  /\ \A n \in Names : buf = Queries[n] => Back(n)

\* The datagram is the beginning of e.
Begins(e) ==
  /\ buf \in Seq(Octet) /\ e \in Seq(Octet)
  /\ Len(buf) <= Len(e)
  /\ \A i \in 1 .. Len(buf) : buf[i] = e[i]

LEMMA PrefixBegins ==
  ASSUME buf \in Seq(Octet), NEW e \in Seq(Octet), IsPrefix(buf, e)
  PROVE  Begins(e)
<1> DEFINE n == Len(buf)
<1>1. n \in Nat /\ Len(e) \in Nat /\ n <= Len(e)
  BY DEF IsPrefix
<1>2. SubSeq(buf, 1, n) = SubSeq(e, 1, n)
  BY DEF IsPrefix
<1>3. ASSUME NEW i \in 1 .. n PROVE buf[i] = e[i]
  <2>1. SubSeq(buf, 1, n)[i] = buf[i]
    OBVIOUS
  <2>2. SubSeq(e, 1, n)[i] = e[i]
    BY <1>1
  <2> QED
    BY <1>2, <2>1, <2>2
<1> QED
  BY <1>1, <1>3 DEF Begins

LEMMA BeginsItself ==
  ASSUME buf \in Seq(Octet)
  PROVE  Begins(buf) /\ Len(buf) \in Nat
  BY DEF Begins

LEMMA BeginsAt ==
  ASSUME NEW e, Begins(e), NEW i \in Nat, i < Len(buf)
  PROVE  At(i) = e[i + 1] /\ At(i) \in Octet
<1>1. Len(buf) \in Nat
  BY DEF Begins
<1>2. i + 1 \in 1 .. Len(buf)
  BY <1>1
<1>3. buf[i + 1] \in Octet
  BY <1>2 DEF Begins
<1> QED
  BY <1>2, <1>3 DEF Begins, At

LEMMA BeginsSlice ==
  ASSUME NEW e, Begins(e), NEW i \in Nat, NEW l \in Nat, i + l <= Len(buf)
  PROVE  Slice(i, l) = SubSeq(e, i + 1, i + l)
<1>1. Len(buf) \in Nat /\ Len(e) \in Nat /\ buf \in Seq(Octet) /\ e \in Seq(Octet)
  BY DEF Begins
<1> DEFINE s == SubSeq(buf, i + 1, i + l)
           t == SubSeq(e, i + 1, i + l)
<1>2. s \in Seq(Octet) /\ Len(s) = l /\ \A k \in 1 .. l : s[k] = buf[(i + 1) + k - 1]
  <2>1. \A k \in i + 1 .. i + l : buf[k] \in Octet
    BY <1>1
  <2> QED
    BY <1>1, <2>1
<1>3. t \in Seq(Octet) /\ Len(t) = l /\ \A k \in 1 .. l : t[k] = e[(i + 1) + k - 1]
  <2>1. \A k \in i + 1 .. i + l : e[k] \in Octet
    BY <1>1 DEF Begins
  <2> QED
    BY <1>1, <2>1
<1>4. \A k \in 1 .. l : (i + 1) + k - 1 \in 1 .. Len(buf)
  BY <1>1
<1> HIDE DEF s, t
<1>5. \A k \in 1 .. l : s[k] = t[k]
  BY <1>2, <1>3, <1>4, Zenon DEF Begins
<1>6. s = t
  BY <1>2, <1>3, <1>5
<1> QED
  BY <1>6 DEF Slice, s, t

LEMMA BeginsHolds ==
  ASSUME NEW e, Begins(e), NEW at \in Nat, NEW s \in Seq(Octet),
         HoldsAt(e, at, s), at + Len(s) <= Len(buf)
  PROVE  HoldsAt(buf, at, s)
<1>1. Len(buf) \in Nat /\ Len(s) \in Nat
  BY DEF Begins
<1>2. \A i \in 1 .. Len(s) : at + i \in 1 .. Len(buf)
  BY <1>1
<1>3. \A i \in 1 .. Len(s) : buf[at + i] = s[i]
  BY <1>2, Zenon DEF Begins, HoldsAt
<1> QED
  BY <1>3 DEF HoldsAt

\* One label further.
Grows(b, s, x) == Append(b \o s, x) = b \o Append(s, x)

LEMMA Further ==
  ASSUME NEW X, NEW b \in Seq(X), NEW s \in Seq(X), NEW x \in X
  PROVE  Grows(b, s, x)
<1> DEFINE l == Append(b \o s, x)
           r == b \o Append(s, x)
<1>1. Len(b) \in Nat /\ Len(s) \in Nat /\ b \o s \in Seq(X) /\ Append(s, x) \in Seq(X)
  OBVIOUS
<1>2. /\ l \in Seq(X) /\ r \in Seq(X)
      /\ Len(l) = Len(b) + Len(s) + 1 /\ Len(r) = Len(b) + Len(s) + 1
  BY <1>1
<1>3. ASSUME NEW i \in 1 .. Len(b) + Len(s) + 1 PROVE l[i] = r[i]
  BY <1>1
<1> HIDE DEF l, r
<1>4. l = r
  BY <1>1, <1>2, <1>3
<1> QED
  BY <1>4 DEF Grows, l, r

LEMMA LabelType ==
  ASSUME NEW n, IsStrings(n, 1, 191), NEW i \in 1 .. Len(n)
  PROVE  n[i] \in Seq(Octet) /\ Len(n[i]) \in 1 .. 191
<1>1. n \in Seq(Seq(Octet)) /\ \A k \in DOMAIN n : Len(n[k]) \in 1 .. 191
  BY Zenon DEF IsStrings
<1>2. \A S : \A q \in Seq(S) : \A k \in 1 .. Len(q) : q[k] \in S /\ k \in DOMAIN q
  OBVIOUS
<1> QED
  BY <1>1, <1>2, Zenon

\* What read_name finds at a name that was written: a label of it, or what
\* closes it.
LEMMA LabelsRead ==
  ASSUME NEW e, Begins(e), NEW n, IsStrings(n, 1, 191), NEW at \in Nat,
         HoldsAt(e, at, EncodeStrings(n)),
         NEW before \in Seq(Seq(Octet)), InLabels(at, n, before),
         cursor < Len(buf), cursor + 1 + At(cursor) <= Len(buf) \/ IsPointer(At(cursor))
  PROVE  \/ /\ At(cursor) # 0 /\ ~ IsPointer(At(cursor))
            /\ \E i \in 0 .. Len(n) :
                 /\ cursor + 1 + At(cursor) = at + Reach(n, i)
                 /\ Append(parts, Slice(cursor + 1, At(cursor))) = before \o SubSeq(n, 1, i)
         \/ /\ At(cursor) = e[(at + Reach(n, Len(n))) + 1]
            /\ cursor = at + Reach(n, Len(n))
            /\ parts = before \o n
<1>1. 1 \in Nat /\ 191 \in Octet
  BY DEF Octet
<1>2. PICK i \in 0 .. Len(n) : cursor = at + Reach(n, i) /\ parts = before \o SubSeq(n, 1, i)
  BY DEF InLabels
<1>3. Len(n) \in Nat /\ i \in Nat
  BY <1>1, FramedType
<1>4. CASE i = Len(n)
  <2>1. SubSeq(n, 1, Len(n)) = n /\ Reach(n, Len(n)) \in Nat
    BY <1>1, ReachEnds
  <2>2. cursor \in Nat
    <3> DEFINE r == Reach(n, Len(n))
    <3>1. cursor = at + r /\ r \in Nat
      BY <1>2, <1>4, <2>1
    <3> HIDE DEF r
    <3> QED
      BY <3>1
  <2> QED
    BY <1>2, <1>4, <2>1, <2>2, BeginsAt
<1>5. CASE i < Len(n)
  <2> DEFINE s == n[i + 1]
             l == Len(s)
  <2>1. e \in Seq(Octet)
    BY DEF Begins
  <2>2. /\ cursor \in Nat
        /\ e[cursor + 1] = l
        /\ SubSeq(e, cursor + 2, cursor + 1 + l) = s
    <3> DEFINE c == at + Reach(n, i)
    <3>1. /\ c \in Nat
          /\ e[c + 1] = Len(n[i + 1])
          /\ SubSeq(e, c + 2, c + 1 + Len(n[i + 1])) = n[i + 1]
      BY <1>1, <1>3, <1>5, <2>1, StringHolds
    <3> HIDE DEF c
    <3>2. cursor = c
      BY <1>2 DEF c
    <3> QED
      BY <3>1, <3>2
  <2>3. l \in 1 .. 191 /\ s \in Seq(Octet)
    <3>1. i + 1 \in 1 .. Len(n)
      BY <1>3, <1>5
    <3> QED
      BY <3>1, LabelType
  <2>4. /\ Reach(n, i + 1) = Reach(n, i) + 1 + l /\ Reach(n, i) \in Nat
        /\ n \in Seq(Seq(Octet))
        /\ SubSeq(n, 1, i + 1) = Append(SubSeq(n, 1, i), s)
        /\ SubSeq(n, 1, i) \in Seq(Seq(Octet))
    <3>1. n \in Seq(Seq(Octet))
      BY DEF IsStrings
    <3> QED
      BY <1>1, <1>3, <1>5, <3>1, ReachNext, OneMore
  <2> HIDE DEF s, l
  <2>5. At(cursor) = l
    BY <2>2, BeginsAt
  <2>6. At(cursor) # 0 /\ ~ IsPointer(At(cursor))
    BY <2>3, <2>5 DEF IsPointer
  <2>7. Slice(cursor + 1, l) = s
    <3>1. cursor + 1 \in Nat /\ l \in Nat /\ (cursor + 1) + l <= Len(buf)
      BY <2>2, <2>3, <2>5, <2>6
    <3>2. Slice(cursor + 1, l) = SubSeq(e, (cursor + 1) + 1, (cursor + 1) + l)
      BY <3>1, BeginsSlice
    <3>3. (cursor + 1) + 1 = cursor + 2
      BY <2>2
    <3> QED
      BY <2>2, <3>2, <3>3
  <2>8. Append(parts, s) = before \o SubSeq(n, 1, i + 1)
    <3> DEFINE p == SubSeq(n, 1, i)
    <3> HIDE DEF p
    <3>1. p \in Seq(Seq(Octet)) /\ parts = before \o p /\ SubSeq(n, 1, i + 1) = Append(p, s)
      BY <1>2, <2>4 DEF p
    <3>2. Append(before \o p, s) = before \o Append(p, s)
      <4> DEFINE X == Seq(Octet)
      <4>1. before \in Seq(X) /\ p \in Seq(X) /\ s \in X
        BY <2>3, <3>1
      <4> HIDE DEF X
      <4>2. Grows(before, p, s)
        BY <4>1, Further
      <4> QED
        BY <4>2 DEF Grows
    <3> QED
      BY <3>1, <3>2
  <2>9. i + 1 \in 0 .. Len(n) /\ cursor + 1 + l = at + Reach(n, i + 1)
    <3> DEFINE r == Reach(n, i)
               t == Reach(n, i + 1)
    <3>1. cursor = at + r /\ r \in Nat /\ t = r + 1 + l /\ l \in Nat
      BY <1>2, <2>3, <2>4
    <3> HIDE DEF r, t
    <3>2. cursor + 1 + l = at + t
      BY <3>1
    <3>3. cursor + 1 + l = at + Reach(n, i + 1)
      BY <3>2 DEF t
    <3> QED
      BY <1>3, <1>5, <3>3
  <2> QED
    BY <2>5, <2>6, <2>7, <2>8, <2>9
<1>6. i = Len(n) \/ i < Len(n)
  BY <1>3
<1> QED
  BY <1>4, <1>5, <1>6

\* read_name does not fail inside a name that is all there.
LEMMA LabelsFit ==
  ASSUME buf \in Seq(Octet), NEW n, IsStrings(n, 1, 191), NEW at \in Nat,
         HoldsAt(buf, at, EncodeStrings(n)), NEW before, InLabels(at, n, before)
  PROVE  \/ /\ cursor < Len(buf) /\ At(cursor) \in 1 .. 191
            /\ cursor + 1 + At(cursor) <= Len(buf)
         \/ cursor = at + Reach(n, Len(n))
<1>1. 1 \in Nat /\ 191 \in Octet
  BY DEF Octet
<1>2. PICK i \in 0 .. Len(n) : cursor = at + Reach(n, i)
  BY DEF InLabels
<1>3. Len(n) \in Nat /\ i \in Nat /\ Len(buf) \in Nat
  BY <1>1, FramedType
<1>4. CASE i < Len(n)
  <2> DEFINE l == Len(n[i + 1])
  <2>1. cursor \in Nat /\ buf[cursor + 1] = l /\ cursor + 1 + l <= Len(buf)
    BY <1>1, <1>2, <1>3, <1>4, StringHolds
  <2>2. l \in 1 .. 191
    <3>1. i + 1 \in 1 .. Len(n)
      BY <1>3, <1>4
    <3> QED
      BY <3>1, LabelType
  <2> HIDE DEF l
  <2>3. cursor < Len(buf)
    BY <1>3, <2>1, <2>2
  <2> QED
    BY <2>1, <2>2, <2>3 DEF At
<1>5. i = Len(n) \/ i < Len(n)
  BY <1>3
<1> QED
  BY <1>2, <1>4, <1>5

-----------------------------------------------------------------------------
(* Meanings.                                                               *)

LEMMA MeaningHolds ==
  ASSUME NEW m \in Messages
  PROVE  /\ SubSeq(Meaning(m), 1, 0) = << >> /\ SubSeq(Meaning(m), 1, Len(m)) = Meaning(m)
         /\ \A k \in 0 .. Len(m) : IsPrefix(SubSeq(Meaning(m), 1, k), Meaning(m))
         /\ \A k \in Nat : k < Len(m) =>
              SubSeq(Meaning(m), 1, k + 1) =
                Append(SubSeq(Meaning(m), 1, k), MeaningOf(m[k + 1]))
<1> DEFINE X == {MeaningOf(m[i]) : i \in 1 .. Len(m)}
           q == Meaning(m)
<1>1. Len(m) \in Nat /\ DOMAIN m = 1 .. Len(m)
  BY AnswersType
<1>2. \A i \in 1 .. Len(m) : q[i] = MeaningOf(m[i])
  BY <1>1 DEF Meaning
<1>3. q \in Seq(X) /\ Len(q) = Len(m)
  <2>1. q \in [1 .. Len(m) -> X]
    BY <1>1 DEF Meaning
  <2> HIDE DEF q, X
  <2> QED
    BY <1>1, <2>1, ListOf, Zenon
<1> HIDE DEF q, X
<1>4. SubSeq(q, 1, 0) = << >> /\ SubSeq(q, 1, Len(m)) = q
  BY <1>3, FirstNone
<1>5. ASSUME NEW k \in 0 .. Len(m) PROVE IsPrefix(SubSeq(q, 1, k), q)
  <2> DEFINE p == SubSeq(q, 1, k)
  <2>1. Len(p) = k /\ k \in Nat
    BY <1>1, <1>3
  <2>2. Len(p) <= Len(q)
    BY <1>1, <1>3, <2>1
  <2>3. SubSeq(p, 1, k) = p
    <3>1. p \in Seq(X)
      BY <1>1, <1>3
    <3> HIDE DEF p
    <3> QED
      BY <2>1, <3>1, FirstNone
  <2> QED
    BY <2>1, <2>2, <2>3 DEF IsPrefix
<1>6. ASSUME NEW k \in Nat, k < Len(m)
      PROVE  SubSeq(q, 1, k + 1) = Append(SubSeq(q, 1, k), MeaningOf(m[k + 1]))
  <2>1. k + 1 \in 1 .. Len(m) /\ k < Len(q)
    BY <1>1, <1>3, <1>6
  <2> QED
    BY <1>2, <1>3, <2>1, OneMore
<1> QED
  BY <1>4, <1>5, <1>6 DEF q

IsRecord(a, kind, preference, content) ==
  MeaningOf(a) = [rtype |-> a.rtype, kind |-> kind, preference |-> preference,
                  parts |-> content]

Spelled(a) == IF a.compressed THEN a.parts \o Asked ELSE a.parts

IsUnknown(a) ==
  /\ a.rtype \notin TargetTypes /\ a.rtype # TYPE_TXT
  /\ ~ (a.rtype = TYPE_A /\ Len(a.parts[1]) = 4)
  /\ ~ (a.rtype = TYPE_AAAA /\ Len(a.parts[1]) = 16)

\* What an answer stands for, one type at a time.
LEMMA MeaningIs ==
  ASSUME NEW a
  PROVE  /\ a.rtype = TYPE_CNAME => IsRecord(a, "Cname", 0, Spelled(a))
         /\ a.rtype = TYPE_NS => IsRecord(a, "Ns", 0, Spelled(a))
         /\ a.rtype = TYPE_MX => IsRecord(a, "Mx", a.preference, Spelled(a))
         /\ a.rtype = TYPE_TXT => IsRecord(a, "Txt", 0, a.parts)
         /\ a.rtype = TYPE_A /\ Len(a.parts[1]) = 4 => IsRecord(a, "A", 0, a.parts)
         /\ a.rtype = TYPE_AAAA /\ Len(a.parts[1]) = 16 => IsRecord(a, "Aaaa", 0, a.parts)
         /\ IsUnknown(a) => IsRecord(a, "Other", 0, << >>)
<1>1. /\ a.rtype = TYPE_CNAME => Kind(a) = "Cname"
      /\ a.rtype = TYPE_NS => Kind(a) = "Ns"
      /\ a.rtype = TYPE_MX => Kind(a) = "Mx"
      /\ a.rtype = TYPE_TXT => Kind(a) = "Txt"
      /\ a.rtype = TYPE_A /\ Len(a.parts[1]) = 4 => Kind(a) = "A"
      /\ a.rtype = TYPE_AAAA /\ Len(a.parts[1]) = 16 => Kind(a) = "Aaaa"
      /\ IsUnknown(a) => Kind(a) = "Other"
  BY TypesDiffer, Zenon DEF Kind, TargetTypes, IsUnknown
<1> DEFINE content == CASE a.rtype \in TargetTypes -> IF a.compressed THEN a.parts \o Asked
                                                ELSE a.parts
                        [] Kind(a) = "Other" -> << >>
                        [] OTHER             -> a.parts
           preference == IF a.rtype = TYPE_MX THEN a.preference ELSE 0
<1>2. MeaningOf(a) = [rtype |-> a.rtype, kind |-> Kind(a), preference |-> preference,
                      parts |-> content]
  BY Zenon DEF MeaningOf
<1>3. /\ a.rtype \in TargetTypes => Kind(a) # "Other"
      /\ a.rtype = TYPE_TXT => Kind(a) # "Other"
      /\ a.rtype = TYPE_A /\ Len(a.parts[1]) = 4 => Kind(a) # "Other"
      /\ a.rtype = TYPE_AAAA /\ Len(a.parts[1]) = 16 => Kind(a) # "Other"
  BY <1>1 DEF TargetTypes
<1>4. a.rtype \in TargetTypes => content = Spelled(a)
  BY <1>3, Zenon DEF Spelled
<1>5. a.rtype \notin TargetTypes /\ Kind(a) = "Other" => content = << >>
  BY Zenon
<1>6. a.rtype \notin TargetTypes /\ Kind(a) # "Other" => content = a.parts
  BY Zenon
<1>7. /\ a.rtype = TYPE_MX => preference = a.preference
      /\ a.rtype # TYPE_MX => preference = 0
  BY Zenon
<1> HIDE DEF content, preference
<1>8. /\ a.rtype = TYPE_CNAME => IsRecord(a, "Cname", 0, Spelled(a))
      /\ a.rtype = TYPE_NS => IsRecord(a, "Ns", 0, Spelled(a))
      /\ a.rtype = TYPE_MX => IsRecord(a, "Mx", a.preference, Spelled(a))
  <2>1. a.rtype \in {TYPE_CNAME, TYPE_NS, TYPE_MX} => a.rtype \in TargetTypes
    BY DEF TargetTypes
  <2> QED
    BY <1>1, <1>2, <1>4, <1>7, <2>1, TypesDiffer, Zenon DEF IsRecord
<1>9. a.rtype \in {TYPE_TXT, TYPE_A, TYPE_AAAA} => a.rtype \notin TargetTypes /\ a.rtype # TYPE_MX
  BY TypesDiffer, Zenon DEF TargetTypes
<1>10. /\ a.rtype = TYPE_TXT => IsRecord(a, "Txt", 0, a.parts)
       /\ a.rtype = TYPE_A /\ Len(a.parts[1]) = 4 => IsRecord(a, "A", 0, a.parts)
       /\ a.rtype = TYPE_AAAA /\ Len(a.parts[1]) = 16 => IsRecord(a, "Aaaa", 0, a.parts)
  BY <1>1, <1>2, <1>3, <1>6, <1>7, <1>9, Zenon DEF IsRecord
<1>11. IsUnknown(a) => IsRecord(a, "Other", 0, << >>)
  BY <1>1, <1>2, <1>5, <1>7, Zenon DEF IsRecord, TargetTypes, IsUnknown
<1> QED
  BY <1>8, <1>10, <1>11, Zenon

-----------------------------------------------------------------------------
(* What the reader finds in a message.                                     *)

LEMMA HeaderRead ==
  ASSUME NEW e, Begins(e), NEW answers, HeaderAt(e, answers), Len(buf) >= 12
  PROVE  U16(0) = ExpectedId /\ Rcode = 0 /\ U16(4) = 1 /\ U16(6) = answers
<1>1. Len(buf) \in Nat
  BY DEF Begins
<1>2. /\ At(0) = e[0 + 1] /\ At(1) = e[1 + 1] /\ At(3) = e[3 + 1]
      /\ At(4) = e[4 + 1] /\ At(5) = e[5 + 1] /\ At(6) = e[6 + 1] /\ At(7) = e[7 + 1]
  BY <1>1, BeginsAt
<1>3. /\ At(0) = e[1] /\ At(1) = e[2] /\ At(3) = e[4]
      /\ At(4) = e[5] /\ At(5) = e[6] /\ At(6) = e[7] /\ At(7) = e[8]
  BY <1>2
<1>4. At(0 + 1) = At(1) /\ At(4 + 1) = At(5) /\ At(6 + 1) = At(7)
  OBVIOUS
<1> QED
  BY <1>3, <1>4, SMT DEF HeaderAt, U16, Rcode

LEMMA AskedIs ==
  /\ IsStrings(Asked, 1, 191)
  /\ \A n : IsStrings(n, 1, 63) => IsStrings(n, 1, 191)
<1>1. \A n : IsStrings(n, 1, 63) => IsStrings(n, 1, 191)
  <2>1. \A x \in 1 .. 63 : x \in 1 .. 191
    OBVIOUS
  <2> QED
    BY <2>1, SMT DEF IsStrings
<1> QED
  BY <1>1, AskedAssumption, SMT

\* The answer being read is in the datagram, all of it.
LEMMA DataIn ==
  ASSUME NEW m \in Messages, Begins(Encoded[m]), NEW k \in Nat, AtData(m, k)
  PROVE  LET a == m[k + 1]
         IN  /\ IsAnswer(a)
             /\ rr.rtype = a.rtype /\ rr.start = Bound(m, k) + 12 /\ rr.len = Len(Data(a))
             /\ rr.start \in Nat /\ rr.len \in Nat
             /\ Bound(m, k + 1) = rr.start + rr.len
             /\ DataAt(buf, rr.start, a) /\ HoldsAt(buf, rr.start, Data(a))
             /\ Data(a) \in Seq(Octet)
<1> DEFINE a == m[k + 1]
           b == Bound(m, k)
<1>1. k < Len(m) /\ k + 1 \in 1 .. Len(m)
  BY AnswersType DEF AtData
<1>2. IsAnswer(a)
  BY <1>1, AnswersType
<1>3. Data(a) \in Seq(Octet) /\ Len(Data(a)) \in Nat
  BY <1>2, DataHolds
<1>4. /\ b \in Nat /\ Bound(m, k + 1) = b + 12 + Len(Data(a))
      /\ AnswerAt(Encoded[m], b, a)
  BY <1>1, MessageHolds DEF AnswersAt
<1>5. /\ rr = [rtype |-> a.rtype, start |-> b + 12, len |-> Len(Data(a))]
      /\ rr.start + rr.len <= Len(buf)
  BY DEF AtData
<1> HIDE DEF a, b
<1>6. rr.rtype = a.rtype /\ rr.start = b + 12 /\ rr.len = Len(Data(a))
  BY <1>5
<1>7. HoldsAt(Encoded[m], b + 12, Data(a))
  BY <1>4 DEF AnswerAt, DataAt
<1>8. b + 12 \in Nat /\ (b + 12) + Len(Data(a)) <= Len(buf)
  BY <1>4, <1>5, <1>6
<1>9. HoldsAt(buf, b + 12, Data(a))
  BY <1>3, <1>7, <1>8, BeginsHolds
<1>10. DataAt(buf, b + 12, a)
  <2>1. buf \in Seq(Octet)
    BY DEF Begins
  <2> QED
    BY <1>2, <1>8, <1>9, <2>1, DataHolds
<1> QED
  BY <1>2, <1>3, <1>4, <1>6, <1>8, <1>9, <1>10 DEF a, b

-----------------------------------------------------------------------------
(* The steps.                                                              *)

\* What has to be shown of a step, by where it leads.
LEMMA ProgressBy ==
  ASSUME NEW m
  PROVE  /\ pc' = "next" /\ AtNext(m)' => Progress(m)'
         /\ pc' = "reading" /\ caller' = "question" /\ AtQuestion(m)' => Progress(m)'
         /\ pc' = "reading" /\ caller' = "owner" /\ AtOwner(m)' => Progress(m)'
         /\ pc' = "reading" /\ caller' = "target" /\ InAnswer(m)' => Progress(m)'
         /\ pc' \in {"rdata", "text"} /\ InAnswer(m)' => Progress(m)'
         /\ pc' \in {"some", "none"} /\ AtReturn(m)' => Progress(m)'
  BY DEF Progress, AtHeader, AtNext, AtQuestion, AtOwner, InAnswer, AtReturn

\* Returning: the records so far, or all of them, are meant.
LEMMA ReturnProgress ==
  ASSUME NEW m, NEW outcome \in {"some", "none"}, Return(outcome),
         IsPrefix(records, Meaning(m)),
         buf = Encoded[m] => outcome = "some" /\ records = Meaning(m)
  PROVE  Progress(m)'
<1>1. pc' = outcome /\ records' = records /\ buf' = buf
  BY DEF Return
<1>2. AtReturn(m)'
  BY <1>1 DEF AtReturn
<1> QED
  BY <1>1, <1>2, ProgressBy

LEMMA NothingRead ==
  ASSUME NEW m \in Messages
  PROVE  IsPrefix(<< >>, Meaning(m))
<1>1. 0 \in 0 .. Len(m)
  BY AnswersType
<1> QED
  BY <1>1, MeaningHolds, Zenon

LEMMA ReadPrefix ==
  ASSUME NEW m \in Messages, NEW k, Read(m, k)
  PROVE  IsPrefix(records, Meaning(m))
  BY MeaningHolds, Zenon DEF Read

LEMMA HeaderProgress ==
  ASSUME NEW m \in Messages, WInv, Begins(Encoded[m]), Progress(m),
         RefuseHeader \/ AcceptRcode \/ AcceptHeader
  PROVE  Progress(m)'
<1>1. pc = "header" /\ records = << >> /\ Len(buf) \in Nat
  BY LengthOfBuf DEF Progress, AtHeader, RefuseHeader, AcceptRcode, AcceptHeader, WInv
<1>2. IsPrefix(records, Meaning(m))
  BY <1>1, NothingRead
<1>3. /\ HeaderAt(Encoded[m], Len(m))
      /\ QuestionEnd <= Len(Encoded[m]) /\ QuestionEnd >= 17 /\ QuestionEnd \in Nat
      /\ Len(Encoded[m]) \in Nat
  BY MessageHolds, PreambleHolds
<1>4. Len(buf) >= 12 =>
        U16(0) = ExpectedId /\ Rcode = 0 /\ U16(4) = 1 /\ U16(6) = Len(m)
  BY <1>3, HeaderRead
<1>5. CASE RefuseHeader
  <2>1. buf # Encoded[m]
    <3>1. buf = Encoded[m] => Len(buf) >= 12
      BY <1>3
    <3> QED
      BY <1>4, <1>5, <3>1 DEF RefuseHeader, Wellformed
  <2> QED
    BY <1>2, <1>5, <2>1, ReturnProgress DEF RefuseHeader
<1>6. CASE AcceptRcode
  BY <1>4, <1>6 DEF AcceptRcode, Wellformed
<1>7. CASE AcceptHeader
  <2>1. qleft' = 1 /\ aleft' = Len(m) /\ records' = << >> /\ pos' = 12 /\ pc' = "next"
    BY <1>1, <1>4, <1>7 DEF AcceptHeader, Wellformed
  <2> QED
    BY <2>1, ProgressBy DEF AtNext
<1> QED
  BY <1>5, <1>6, <1>7

LEMMA LabelsBegin ==
  ASSUME NEW at \in Nat, NEW n, IsStrings(n, 1, 191) \/ IsStrings(n, 0, 255),
         NEW before \in Seq(Seq(Octet)), cursor' = at, parts' = before
  PROVE  InLabels(at, n, before)'
<1>1. 0 \in Nat /\ 1 \in Nat /\ 191 \in Octet /\ 255 \in Octet
  BY SMT DEF Octet
<1>2. Reach(n, 0) = 0 /\ SubSeq(n, 1, 0) = << >> /\ Len(n) \in Nat
  BY <1>1, ReachEnds, FramedType
<1>3. 0 \in 0 .. Len(n) /\ before \o << >> = before /\ at + 0 = at
  BY <1>2
<1>4. cursor' = at + Reach(n, 0) /\ parts' = before \o SubSeq(n, 1, 0)
  BY <1>2, <1>3
<1> QED
  BY <1>3, <1>4, Zenon DEF InLabels

LEMMA NextQuestionProgress ==
  ASSUME NEW m \in Messages, Progress(m), NextQuestion
  PROVE  Progress(m)'
<1>1. pc = "next" /\ qleft > 0
  BY DEF NextQuestion
<1>2. qleft = 1 /\ aleft = Len(m) /\ records = << >> /\ pos = 12
  BY <1>1 DEF Progress, AtNext, Read
<1>3. /\ pc' = "reading" /\ caller' = "question" /\ cursor' = 12 /\ end' = 0 /\ jumps' = 0
      /\ parts' = << >> /\ qleft' = 1 /\ aleft' = Len(m) /\ records' = << >>
  BY <1>2 DEF NextQuestion, ReadName
<1>4. InLabels(12, Asked, << >>)'
  <2>1. << >> \in Seq(Seq(Octet)) /\ 12 \in Nat /\ IsStrings(Asked, 1, 191)
    BY AskedIs
  <2> QED
    BY <1>3, <2>1, LabelsBegin
<1> QED
  BY <1>3, <1>4, ProgressBy DEF AtQuestion

LEMMA NextAnswerProgress ==
  ASSUME NEW m \in Messages, Progress(m), NextAnswer
  PROVE  Progress(m)'
<1>1. pc = "next" /\ qleft = 0 /\ aleft > 0
  BY DEF NextAnswer
<1>2. PICK k \in Nat : Read(m, k) /\ pos = Bound(m, k)
  BY <1>1 DEF Progress, AtNext
<1>3. k < Len(m)
  BY <1>1, <1>2, AnswersType DEF Read
<1>4. /\ pc' = "reading" /\ caller' = "owner" /\ cursor' = Bound(m, k) /\ end' = 0
      /\ jumps' = 0 /\ parts' = << >>
      /\ UNCHANGED << buf, qleft, aleft, records >>
  BY <1>2 DEF NextAnswer, ReadName
<1>5. Read(m, k)'
  BY <1>2, <1>4 DEF Read
<1>6. InOwner(m, k)'
  BY <1>4 DEF InOwner
<1>7. AtOwner(m)'
  BY <1>3, <1>5, <1>6 DEF AtOwner
<1> QED
  BY <1>4, <1>7, ProgressBy

LEMMA AllReadProgress ==
  ASSUME NEW m \in Messages, Progress(m), AllRead
  PROVE  Progress(m)'
<1>1. pc = "next" /\ qleft = 0 /\ aleft = 0 /\ Return("some")
  BY DEF AllRead
<1>2. PICK k \in Nat : Read(m, k)
  BY <1>1 DEF Progress, AtNext
<1>3. k = Len(m)
  BY <1>1, <1>2, AnswersType DEF Read
<1>4. records = Meaning(m)
  BY <1>2, <1>3, MeaningHolds DEF Read
<1> QED
  BY <1>1, <1>2, <1>4, ReadPrefix, ReturnProgress

\* A label of a name that was written.
LEMMA LabelStep ==
  ASSUME ReadLabel, NEW e, Begins(e), NEW n, IsStrings(n, 1, 191), NEW at \in Nat,
         HoldsAt(e, at, EncodeStrings(n)),
         e[(at + Reach(n, Len(n))) + 1] = 0 \/ e[(at + Reach(n, Len(n))) + 1] >= 192,
         NEW before \in Seq(Seq(Octet)), InLabels(at, n, before)
  PROVE  InLabels(at, n, before)'
<1>1. /\ cursor < Len(buf) /\ cursor + 1 + At(cursor) <= Len(buf)
      /\ At(cursor) # 0 /\ ~ IsPointer(At(cursor))
      /\ parts' = Append(parts, Slice(cursor + 1, At(cursor)))
      /\ cursor' = cursor + 1 + At(cursor)
  BY DEF ReadLabel, Reading, Readable
<1>2. At(cursor) # e[(at + Reach(n, Len(n))) + 1]
  BY <1>1 DEF IsPointer
<1>3. \E i \in 0 .. Len(n) :
        /\ cursor + 1 + At(cursor) = at + Reach(n, i)
        /\ Append(parts, Slice(cursor + 1, At(cursor))) = before \o SubSeq(n, 1, i)
  BY <1>1, <1>2, LabelsRead
<1> QED
  BY <1>1, <1>3 DEF InLabels

\* What closes a name, when it is not a label that is there.
LEMMA ClosingStep ==
  ASSUME Reading, At(cursor) = 0 \/ IsPointer(At(cursor)),
         NEW e, Begins(e), NEW n, IsStrings(n, 1, 191), NEW at \in Nat,
         HoldsAt(e, at, EncodeStrings(n)),
         NEW before \in Seq(Seq(Octet)), InLabels(at, n, before)
  PROVE  /\ At(cursor) = e[(at + Reach(n, Len(n))) + 1]
         /\ cursor = at + Reach(n, Len(n))
         /\ parts = before \o n
<1>1. /\ cursor < Len(buf)
      /\ cursor + 1 + At(cursor) <= Len(buf) \/ IsPointer(At(cursor))
  BY DEF Reading, Readable
<1> QED
  BY <1>1, LabelsRead

\* With the name of the question, everything before an answer is there.
LEMMA AskedIn ==
  ASSUME NEW m \in Messages, Begins(Encoded[m]), NEW k \in Nat, k < Len(m),
         Bound(m, k) <= Len(buf)
  PROVE  /\ Begins(buf) /\ NameAt(buf, 12, Asked)
         /\ 12 + Reach(Asked, Len(Asked)) + 1 <= Len(buf)
<1> DEFINE s == EncodeStrings(Asked)
           r == Reach(Asked, Len(Asked))
<1>1. s \in Seq(Octet) /\ Len(s) = r /\ r \in Nat
  BY AskedType
<1>2. Bound(m, k) \in Nat /\ Bound(m, k) >= QuestionEnd /\ QuestionEnd = 12 + r + 5
  BY MessageHolds DEF AnswersAt, QuestionEnd
<1>3. HoldsAt(Encoded[m], 12, s) /\ Encoded[m][(12 + r) + 1] = 0
  BY MessageHolds DEF NameAt
<1> HIDE DEF s, r
<1>4. buf \in Seq(Octet) /\ Len(buf) \in Nat
  BY DEF Begins
<1>5. 12 + r + 1 <= Len(buf) /\ 12 + r < Len(buf) /\ 12 + r \in Nat
  BY <1>1, <1>2, <1>4
<1>6. HoldsAt(buf, 12, s)
  BY <1>1, <1>3, <1>5, BeginsHolds
<1>7. buf[(12 + r) + 1] = 0
  BY <1>3, <1>5, BeginsAt DEF At
<1> QED
  BY <1>4, <1>5, <1>6, <1>7, BeginsItself DEF NameAt, s, r

\* What a target that is being read is made of.
LEMMA TargetIn ==
  ASSUME NEW m \in Messages, WInv, Begins(Encoded[m]),
         NEW k \in Nat, Read(m, k), AtData(m, k), HasTarget
  PROVE  LET a == m[k + 1]
         IN  /\ IsAnswer(a) /\ a.rtype \in TargetTypes /\ a.rtype = rr.rtype
             /\ IsStrings(a.parts, 1, 191)
             /\ Start(a) \in Nat /\ TargetAt(buf, Start(a), a)
             /\ a.rtype = TYPE_MX => U16(rr.start) = a.preference
<1> DEFINE a == m[k + 1]
<1>1. /\ IsAnswer(a) /\ a.rtype = rr.rtype /\ rr.start \in Nat
      /\ DataAt(buf, rr.start, a)
  BY DataIn
<1> HIDE DEF a
<1>2. a.rtype \in TargetTypes
  BY <1>1 DEF HasTarget, IsExchange, TargetTypes
<1>3. IsStrings(a.parts, 1, 191)
  BY <1>1, <1>2, AskedIs DEF IsAnswer
<1>4. CASE a.rtype = TYPE_MX
  <2>1. /\ 256 * buf[rr.start + 1] + buf[rr.start + 2] = a.preference
        /\ TargetAt(buf, rr.start + 2, a)
    BY <1>1, <1>4 DEF DataAt
  <2>2. At(rr.start) = buf[rr.start + 1] /\ At(rr.start + 1) = buf[rr.start + 2]
    <3>1. (rr.start + 1) + 1 = rr.start + 2
      BY <1>1
    <3> QED
      BY <3>1 DEF At
  <2>3. U16(rr.start) = a.preference
    BY <2>1, <2>2, Zenon DEF U16
  <2>4. Start(a) = rr.start + 2 /\ rr.start + 2 \in Nat
    BY <1>1, <1>4 DEF Start
  <2> QED
    BY <1>1, <1>2, <1>3, <2>1, <2>3, <2>4 DEF a
<1>5. CASE a.rtype # TYPE_MX
  <2>1. TargetAt(buf, rr.start, a)
    BY <1>1, <1>2, <1>5 DEF DataAt, TargetTypes
  <2>2. Start(a) = rr.start
    BY <1>5 DEF Start
  <2> QED
    BY <1>1, <1>2, <1>3, <1>5, <2>1, <2>2 DEF a
<1> QED
  BY <1>4, <1>5

\* The owner of an answer, as far as the datagram goes.
LEMMA OwnerIn ==
  ASSUME NEW m \in Messages, Begins(Encoded[m]), NEW k \in Nat, k < Len(m)
  PROVE  /\ Bound(m, k) \in Nat
         /\ Bound(m, k) < Len(buf) => At(Bound(m, k)) = 192
         /\ Bound(m, k) + 1 < Len(buf) => At(Bound(m, k) + 1) = 12
<1> DEFINE b == Bound(m, k)
<1>1. b \in Nat /\ Encoded[m][b + 1] = 192 /\ Encoded[m][b + 2] = 12
  BY MessageHolds DEF AnswersAt, AnswerAt
<1> HIDE DEF b
<1>2. b < Len(buf) => At(b) = 192
  BY <1>1, BeginsAt
<1>3. b + 1 < Len(buf) => At(b + 1) = 12
  <2>1. b + 1 \in Nat /\ (b + 1) + 1 = b + 2
    BY <1>1
  <2> QED
    BY <1>1, <2>1, BeginsAt
<1> QED
  BY <1>1, <1>2, <1>3 DEF b

LEMMA NoLabels == << >> \in Seq(Seq(Octet)) /\ 12 \in Nat
  OBVIOUS

LEMMA ReadLabelProgress ==
  ASSUME NEW m \in Messages, WInv, Begins(Encoded[m]), Progress(m), ReadLabel
  PROVE  Progress(m)'
<1>1. /\ pc = "reading" /\ pc' = "reading" /\ caller \in {"question", "owner", "target"}
      /\ At(cursor) # 0 /\ ~ IsPointer(At(cursor)) /\ cursor < Len(buf)
      /\ UNCHANGED << buf, qleft, aleft, rr, records, caller, end, jumps >>
  BY DEF ReadLabel, Reading, Readable, WInv, TypeOK
<1>2. HoldsAt(Encoded[m], 12, EncodeStrings(Asked))
  BY MessageHolds DEF NameAt
<1>3. Encoded[m][(12 + Reach(Asked, Len(Asked))) + 1] = 0
  BY MessageHolds DEF NameAt
<1>4. ASSUME InLabels(12, Asked, << >>) PROVE InLabels(12, Asked, << >>)'
  BY <1>2, <1>3, <1>4, AskedIs, NoLabels, LabelStep
<1>5. CASE caller = "question"
  <2>1. AtQuestion(m)'
    BY <1>1, <1>4, <1>5 DEF Progress, AtQuestion
  <2> QED
    BY <1>1, <1>5, <2>1, ProgressBy
<1>6. CASE caller = "owner"
  <2>1. PICK k \in Nat : Read(m, k) /\ k < Len(m) /\ InOwner(m, k)
    BY <1>1, <1>6 DEF Progress, AtOwner
  <2>2. cursor # Bound(m, k)
    BY <1>1, <2>1, OwnerIn DEF IsPointer
  <2>3. InOwner(m, k)'
    BY <1>1, <1>4, <2>1, <2>2 DEF InOwner
  <2>4. Read(m, k)'
    BY <1>1, <2>1 DEF Read
  <2>5. AtOwner(m)'
    BY <2>1, <2>3, <2>4 DEF AtOwner
  <2> QED
    BY <1>1, <1>6, <2>5, ProgressBy
<1>7. CASE caller = "target"
  <2>1. PICK k \in Nat : Read(m, k) /\ AtData(m, k) /\ InTarget(m[k + 1])
    BY <1>1, <1>7 DEF Progress, InAnswer
  <2> DEFINE a == m[k + 1]
  <2>2. HasTarget
    BY <1>1, <1>7 DEF WInv, LoopInv
  <2>3. /\ IsAnswer(a) /\ IsStrings(a.parts, 1, 191)
        /\ Start(a) \in Nat /\ TargetAt(buf, Start(a), a)
    BY <2>1, <2>2, TargetIn
  <2>4. Begins(buf) /\ NameAt(buf, 12, Asked)
    BY <2>1, AskedIn DEF Read, AtData
  <2> HIDE DEF a
  <2>5. PICK s \in Nat : s = Start(a)
    BY <2>3
  <2>6. PICK w : w = buf
    OBVIOUS
  <2>7. Begins(w)
    BY <2>4, <2>6
  <2>8. ASSUME InLabels(s, a.parts, << >>) PROVE InLabels(s, a.parts, << >>)'
    <3>1. HoldsAt(w, s, EncodeStrings(a.parts))
      BY <2>3, <2>5, <2>6 DEF TargetAt
    <3>2. \/ w[(s + Reach(a.parts, Len(a.parts))) + 1] = 0
          \/ w[(s + Reach(a.parts, Len(a.parts))) + 1] >= 192
      BY <2>3, <2>5, <2>6 DEF TargetAt
    <3> QED
      BY <2>3, <2>7, <2>8, <3>1, <3>2, NoLabels, LabelStep
  <2>9. ASSUME a.compressed, InLabels(12, Asked, a.parts)
        PROVE  InLabels(12, Asked, a.parts)'
    <3>1. a.parts \in Seq(Seq(Octet))
      BY <2>3 DEF IsStrings
    <3> QED
      BY <1>2, <1>3, <2>9, <3>1, AskedIs, NoLabels, LabelStep
  <2>10. InTarget(a)'
    <3>1. Start(a)' = s
      BY <1>1, <2>5 DEF Start
    <3>2. CASE jumps = 0 /\ InLabels(Start(a), a.parts, << >>)
      <4>1. InLabels(s, a.parts, << >>)'
        BY <2>5, <2>8, <3>2
      <4> QED
        BY <1>1, <3>1, <3>2, <4>1 DEF InTarget, InLabels, Start
    <3>3. CASE jumps = 1 /\ a.compressed /\ InLabels(12, Asked, a.parts)
      BY <1>1, <2>9, <3>3 DEF InTarget
    <3> QED
      BY <2>1, <3>2, <3>3 DEF InTarget, Start, a
  <2>11. Read(m, k)' /\ AtData(m, k)'
    BY <1>1, <2>1 DEF Read, AtData
  <2>12. InAnswer(m)'
    BY <1>1, <2>10, <2>11 DEF InAnswer, a
  <2> QED
    BY <1>1, <1>7, <2>12, ProgressBy
<1> QED
  BY <1>1, <1>5, <1>6, <1>7

\* The name of the question has no pointer in it.
LEMMA NoPointerInAsked ==
  ASSUME NEW e, Begins(e), NameAt(e, 12, Asked), Reading, IsPointer(At(cursor)),
         NEW before \in Seq(Seq(Octet)), InLabels(12, Asked, before)
  PROVE  FALSE
<1>1. At(cursor) = 0
  BY AskedIs, NoLabels, ClosingStep DEF NameAt
<1> QED
  BY <1>1 DEF IsPointer

LEMMA FollowPointerProgress ==
  ASSUME NEW m \in Messages, WInv, Begins(Encoded[m]), Progress(m), FollowPointer
  PROVE  Progress(m)'
<1>1. /\ pc = "reading" /\ pc' = "reading" /\ caller \in {"question", "owner", "target"}
      /\ Reading /\ IsPointer(At(cursor)) /\ cursor + 1 < Len(buf)
      /\ UNCHANGED << buf, qleft, aleft, rr, records, caller, parts >>
      /\ end' = EndAfter(cursor + 2) /\ jumps' = jumps + 1
      /\ cursor' = 256 * (At(cursor) % 64) + At(cursor + 1)
  BY DEF FollowPointer, Reading, Readable, WInv, TypeOK
<1>2. NameAt(Encoded[m], 12, Asked)
  BY MessageHolds
<1>3. At(cursor) = 192 /\ At(cursor + 1) = 12 => cursor' = 12
  BY <1>1
<1>4. CASE caller = "question"
  <2>1. InLabels(12, Asked, << >>)
    BY <1>1, <1>4 DEF Progress, AtQuestion
  <2> QED
    BY <1>1, <1>2, <2>1, NoLabels, NoPointerInAsked
<1>5. CASE caller = "owner"
  <2>1. PICK k \in Nat : Read(m, k) /\ k < Len(m) /\ InOwner(m, k)
    BY <1>1, <1>5 DEF Progress, AtOwner
  <2>2. ~ InLabels(12, Asked, << >>)
    BY <1>1, <1>2, NoLabels, NoPointerInAsked
  <2>3. end = 0 /\ jumps = 0 /\ cursor = Bound(m, k) /\ parts = << >>
    BY <2>1, <2>2 DEF InOwner
  <2>4. At(cursor) = 192 /\ At(cursor + 1) = 12
    <3>1. Bound(m, k) \in Nat /\ Len(buf) \in Nat
      BY <2>1, OwnerIn, LengthOfBuf DEF WInv
    <3>2. Bound(m, k) < Len(buf) /\ Bound(m, k) + 1 < Len(buf)
      BY <1>1, <2>3, <3>1
    <3> QED
      BY <2>1, <2>3, <3>2, OwnerIn
  <2>5. cursor' = 12 /\ parts' = << >> /\ jumps' = 1 /\ end' = Bound(m, k) + 2
    BY <1>1, <1>3, <2>3, <2>4 DEF EndAfter
  <2>6. InLabels(12, Asked, << >>)'
    BY <2>5, AskedIs, NoLabels, LabelsBegin
  <2>7. InOwner(m, k)'
    BY <2>5, <2>6 DEF InOwner
  <2>8. Read(m, k)'
    BY <1>1, <2>1 DEF Read
  <2>9. AtOwner(m)'
    BY <2>1, <2>7, <2>8 DEF AtOwner
  <2> QED
    BY <1>1, <1>5, <2>9, ProgressBy
<1>6. CASE caller = "target"
  <2>1. PICK k \in Nat : Read(m, k) /\ AtData(m, k) /\ InTarget(m[k + 1])
    BY <1>1, <1>6 DEF Progress, InAnswer
  <2> DEFINE a == m[k + 1]
  <2>2. HasTarget
    BY <1>1, <1>6 DEF WInv, LoopInv
  <2>3. /\ IsAnswer(a) /\ IsStrings(a.parts, 1, 191)
        /\ Start(a) \in Nat /\ TargetAt(buf, Start(a), a)
    BY <2>1, <2>2, TargetIn
  <2>4. Begins(buf) /\ NameAt(buf, 12, Asked)
    BY <2>1, AskedIn DEF Read, AtData
  <2> HIDE DEF a
  <2>5. PICK s \in Nat : s = Start(a)
    BY <2>3
  <2>6. a.parts \in Seq(Seq(Octet)) /\ << >> \o a.parts = a.parts
    <3>1. a.parts \in Seq(Seq(Octet))
      BY <2>3 DEF IsStrings
    <3> QED
      BY <3>1
  <2>7. ~ InLabels(12, Asked, a.parts)
    BY <1>1, <1>2, <2>6, NoPointerInAsked
  <2>8. jumps = 0 /\ InLabels(s, a.parts, << >>)
    BY <2>1, <2>5, <2>7 DEF InTarget, a
  <2> DEFINE r == Reach(a.parts, Len(a.parts))
  <2>9. At(cursor) = buf[(s + r) + 1] /\ cursor = s + r /\ parts = a.parts
    <3>1. HoldsAt(buf, s, EncodeStrings(a.parts))
      BY <2>3, <2>5 DEF TargetAt
    <3> QED
      BY <1>1, <2>3, <2>4, <2>6, <2>8, <3>1, NoLabels, ClosingStep
  <2>10. a.compressed /\ At(cursor) = 192 /\ At(cursor + 1) = 12
    <3>1. IF a.compressed THEN buf[(s + r) + 1] = 192 /\ buf[(s + r) + 2] = 12
                          ELSE buf[(s + r) + 1] = 0
      BY <2>3, <2>5 DEF TargetAt
    <3>2. a.compressed /\ At(cursor) = 192
      BY <1>1, <2>9, <3>1 DEF IsPointer
    <3>3. (cursor + 1) + 1 = (s + r) + 2
      <4>1. s + r \in Nat
        BY <2>9 DEF WInv, TypeOK
      <4> HIDE DEF r
      <4> QED
        BY <2>9, <4>1
    <3>4. At(cursor + 1) = buf[(s + r) + 2]
      BY <3>3 DEF At
    <3> QED
      BY <3>1, <3>2, <3>4
  <2>11. cursor' = 12 /\ parts' = a.parts /\ jumps' = 1
    BY <1>1, <1>3, <2>8, <2>9, <2>10
  <2>12. InLabels(12, Asked, a.parts)'
    BY <2>6, <2>11, AskedIs, NoLabels, LabelsBegin
  <2>13. InTarget(a)'
    BY <2>10, <2>11, <2>12 DEF InTarget
  <2>14. Read(m, k)' /\ AtData(m, k)'
    BY <1>1, <2>1 DEF Read, AtData
  <2>15. InAnswer(m)'
    BY <1>1, <2>13, <2>14 DEF InAnswer, a
  <2> QED
    BY <1>1, <1>6, <2>15, ProgressBy
<1> QED
  BY <1>1, <1>4, <1>5, <1>6

\* read_name does not fail inside a name of the question that is all there.
LEMMA AskedReadable ==
  ASSUME buf \in Seq(Octet), NEW n, IsStrings(n, 1, 191), NameAt(buf, 12, n),
         12 + Reach(n, Len(n)) + 1 <= Len(buf),
         NEW before, InLabels(12, n, before)
  PROVE  Readable
<1>1. \/ /\ cursor < Len(buf) /\ At(cursor) \in 1 .. 191
         /\ cursor + 1 + At(cursor) <= Len(buf)
      \/ cursor = 12 + Reach(n, Len(n))
  BY NoLabels, LabelsFit DEF NameAt
<1>2. CASE cursor < Len(buf) /\ At(cursor) \in 1 .. 191 /\ cursor + 1 + At(cursor) <= Len(buf)
  <2>1. ~ IsPointer(At(cursor))
    <3>1. \A x \in 1 .. 191 : ~ (x >= 192)
      OBVIOUS
    <3> QED
      BY <1>2, <3>1, Zenon DEF IsPointer
  <2> QED
    BY <1>2, <2>1 DEF Readable
<1>3. CASE cursor = 12 + Reach(n, Len(n))
  <2> DEFINE r == Reach(n, Len(n))
  <2>1. r \in Nat
    <3>1. 1 \in Nat /\ 191 \in Octet
      BY DEF Octet
    <3> QED
      BY <3>1, ReachEnds
  <2>2. At(cursor) = 0
    BY <1>3 DEF At, NameAt
  <2>3. cursor = 12 + r /\ 12 + r + 1 <= Len(buf) /\ Len(buf) \in Nat
    BY <1>3
  <2> HIDE DEF r
  <2>4. cursor < Len(buf) /\ cursor + 1 + 0 <= Len(buf)
    BY <2>1, <2>3
  <2> QED
    BY <2>2, <2>4 DEF Readable, IsPointer
<1> QED
  BY <1>1, <1>2, <1>3

\* A whole message has its question.
LEMMA AskedWhole ==
  ASSUME NEW m \in Messages, buf \in Seq(Octet), buf = Encoded[m]
  PROVE  /\ NameAt(buf, 12, Asked) /\ QuestionEnd <= Len(buf)
         /\ 12 + Reach(Asked, Len(Asked)) + 1 <= Len(buf)
<1>1. NameAt(buf, 12, Asked) /\ QuestionEnd <= Len(buf)
  BY MessageHolds
<1> DEFINE r == Reach(Asked, Len(Asked))
<1>2. r \in Nat /\ 12 + r + 5 <= Len(buf) /\ Len(buf) \in Nat
  BY <1>1, AskedType DEF QuestionEnd
<1> HIDE DEF r
<1>3. 12 + r + 1 <= Len(buf)
  BY <1>2
<1> QED
  BY <1>1, <1>3 DEF r

LEMMA NameMissingProgress ==
  ASSUME NEW m \in Messages, WInv, Begins(Encoded[m]), Progress(m), NameMissing
  PROVE  Progress(m)'
<1>1. /\ pc = "reading" /\ caller \in {"question", "owner"} /\ ~ Readable
      /\ Return("none") /\ buf \in Seq(Octet) /\ Len(buf) \in Nat
  BY LengthOfBuf DEF NameMissing, Unreadable, WInv, TypeOK
<1>2. ASSUME buf = Encoded[m], InLabels(12, Asked, << >>) PROVE FALSE
  BY <1>1, <1>2, AskedIs, AskedWhole, AskedReadable
<1>3. CASE caller = "question"
  <2>1. records = << >> /\ InLabels(12, Asked, << >>)
    BY <1>1, <1>3 DEF Progress, AtQuestion
  <2>2. IsPrefix(records, Meaning(m))
    BY <2>1, NothingRead
  <2> QED
    BY <1>1, <1>2, <2>1, <2>2, ReturnProgress
<1>4. CASE caller = "owner"
  <2>1. PICK k \in Nat : Read(m, k) /\ k < Len(m) /\ InOwner(m, k)
    BY <1>1, <1>4 DEF Progress, AtOwner
  <2>2. IsPrefix(records, Meaning(m))
    BY <2>1, ReadPrefix
  <2>3. buf # Encoded[m]
    <3> SUFFICES ASSUME buf = Encoded[m] PROVE FALSE
      OBVIOUS
    <3>1. jumps = 0 /\ cursor = Bound(m, k)
      BY <1>2, <2>1 DEF InOwner
    <3>2. /\ cursor \in Nat /\ cursor + 12 + Len(Data(m[k + 1])) <= Len(buf)
          /\ Len(Data(m[k + 1])) \in Nat
      <4>1. k + 1 \in 1 .. Len(m)
        BY <2>1, AnswersType
      <4>2. Len(Data(m[k + 1])) \in Nat
        BY <4>1, AnswersType, DataHolds
      <4> QED
        BY <2>1, <3>1, <4>2, MessageHolds DEF AnswersAt, AnswerAt
    <3>3. cursor < Len(buf) /\ cursor + 1 < Len(buf)
      BY <1>1, <3>2
    <3>4. At(cursor) = 192
      BY <2>1, <3>1, <3>3, OwnerIn
    <3> QED
      BY <1>1, <3>1, <3>3, <3>4 DEF Readable, IsPointer, MayJump, MaxJumps
  <2> QED
    BY <1>1, <2>2, <2>3, ReturnProgress
<1> QED
  BY <1>1, <1>3, <1>4

LEMMA SkipQuestionProgress ==
  ASSUME NEW m \in Messages, WInv, Begins(Encoded[m]), Progress(m),
         SkipQuestion \/ QuestionCut
  PROVE  Progress(m)'
<1>1. /\ pc = "reading" /\ caller = "question" /\ Reading /\ At(cursor) = 0
      /\ buf \in Seq(Octet) /\ Len(buf) \in Nat
  BY LengthOfBuf DEF SkipQuestion, QuestionCut, AtRoot, Reading, WInv, TypeOK
<1>2. /\ qleft = 1 /\ aleft = Len(m) /\ records = << >> /\ end = 0
      /\ InLabels(12, Asked, << >>)
  BY <1>1 DEF Progress, AtQuestion
<1> DEFINE r == Reach(Asked, Len(Asked))
<1>3. cursor = 12 + r
  <2>1. HoldsAt(Encoded[m], 12, EncodeStrings(Asked))
    BY MessageHolds DEF NameAt
  <2> QED
    BY <1>1, <1>2, <2>1, AskedIs, NoLabels, ClosingStep
<1>4. r \in Nat /\ QuestionEnd = 12 + r + 5 /\ Bound(m, 0) = QuestionEnd
  BY AskedType, MessageHolds DEF QuestionEnd
<1> HIDE DEF r
<1>5. EndAfter(cursor + 1) + 4 = QuestionEnd
  BY <1>2, <1>3, <1>4 DEF EndAfter
<1>6. CASE SkipQuestion
  <2>1. /\ pc' = "next" /\ pos' = QuestionEnd /\ qleft' = 0 /\ QuestionEnd <= Len(buf)
        /\ UNCHANGED << buf, aleft, records >>
    BY <1>2, <1>5, <1>6 DEF SkipQuestion
  <2>2. 0 \in 0 .. Len(m) /\ Len(m) - 0 = Len(m) /\ SubSeq(Meaning(m), 1, 0) = << >>
    BY AnswersType, MeaningHolds
  <2>3. Read(m, 0)' /\ pos' = Bound(m, 0)
    BY <1>2, <1>4, <2>1, <2>2 DEF Read
  <2>4. AtNext(m)'
    BY <2>3 DEF AtNext
  <2> QED
    BY <2>1, <2>4, ProgressBy
<1>7. CASE QuestionCut
  <2>1. buf # Encoded[m]
    <3> SUFFICES ASSUME buf = Encoded[m] PROVE FALSE
      OBVIOUS
    <3>1. QuestionEnd <= Len(buf)
      BY <1>1, AskedWhole
    <3>2. QuestionEnd > Len(buf)
      BY <1>5, <1>7 DEF QuestionCut
    <3> QED
      BY <1>1, <1>4, <3>1, <3>2
  <2> QED
    BY <1>2, <1>7, <2>1, NothingRead, ReturnProgress DEF QuestionCut
<1> QED
  BY <1>6, <1>7

\* The fixed part of an answer, once the datagram has it.
LEMMA HeadIn ==
  ASSUME NEW m \in Messages, Begins(Encoded[m]), NEW k \in Nat, k < Len(m),
         Bound(m, k) + 12 <= Len(buf)
  PROVE  /\ U16(Bound(m, k) + 2) = m[k + 1].rtype
         /\ U16(Bound(m, k) + 10) = Len(Data(m[k + 1]))
<1> DEFINE b == Bound(m, k)
           e == Encoded[m]
<1>1. /\ b \in Nat
      /\ 256 * e[b + 3] + e[b + 4] = m[k + 1].rtype
      /\ 256 * e[b + 11] + e[b + 12] = Len(Data(m[k + 1]))
  <2>1. AnswersAt(m, e)
    BY MessageHolds
  <2>2. b \in Nat /\ AnswerAt(e, b, m[k + 1])
    BY <2>1, Zenon DEF AnswersAt
  <2> QED
    BY <2>2, Zenon DEF AnswerAt
<1>2. Len(buf) \in Nat
  BY DEF Begins
<1> HIDE DEF b, e
<1>3. b + 12 <= Len(buf) /\ Begins(e)
  BY DEF b, e
<1>4. /\ b + 2 < Len(buf) /\ b + 3 < Len(buf) /\ b + 10 < Len(buf) /\ b + 11 < Len(buf)
      /\ b + 2 \in Nat /\ b + 3 \in Nat /\ b + 10 \in Nat /\ b + 11 \in Nat
      /\ (b + 2) + 1 = b + 3 /\ (b + 3) + 1 = b + 4
      /\ (b + 10) + 1 = b + 11 /\ (b + 11) + 1 = b + 12
  BY <1>1, <1>2, <1>3
<1>5. At(b + 2) = e[b + 3] /\ At(b + 3) = e[b + 4]
  BY <1>3, <1>4, BeginsAt
<1>6. At(b + 10) = e[b + 11] /\ At(b + 11) = e[b + 12]
  BY <1>3, <1>4, BeginsAt
<1>7. U16(b + 2) = m[k + 1].rtype /\ U16(b + 10) = Len(Data(m[k + 1]))
  BY <1>1, <1>4, <1>5, <1>6, SMT DEF U16
<1> QED
  BY <1>7 DEF b

LEMMA ReadHeadProgress ==
  ASSUME NEW m \in Messages, WInv, Begins(Encoded[m]), Progress(m), ReadHead \/ AnswerCut
  PROVE  Progress(m)'
<1>1. /\ pc = "reading" /\ caller = "owner" /\ Reading /\ At(cursor) = 0
      /\ cursor < Len(buf)
      /\ buf \in Seq(Octet) /\ Len(buf) \in Nat
  BY LengthOfBuf DEF ReadHead, AnswerCut, AtRoot, Reading, Readable, WInv, TypeOK
<1>2. PICK k \in Nat : Read(m, k) /\ k < Len(m) /\ InOwner(m, k)
  BY <1>1 DEF Progress, AtOwner
<1> DEFINE b == Bound(m, k)
           d == Len(Data(m[k + 1]))
<1>3. b \in Nat /\ b + 12 + d <= Len(Encoded[m]) /\ d \in Nat
  <2>1. k + 1 \in 1 .. Len(m)
    BY <1>2, AnswersType
  <2>2. d \in Nat
    BY <2>1, AnswersType, DataHolds
  <2> QED
    BY <1>2, <2>2, MessageHolds DEF AnswersAt, AnswerAt
<1>4. end = b + 2
  BY <1>1, <1>2, OwnerIn DEF InOwner
<1>5. b + 12 <= Len(buf) => U16(b + 2) = m[k + 1].rtype /\ U16(b + 10) = d
  BY <1>2, HeadIn
<1> HIDE DEF b, d
<1>6. EndAfter(cursor + 1) = b + 2
  BY <1>3, <1>4 DEF EndAfter
<1>7. /\ (b + 2) + 10 = b + 12 /\ (b + 2) + 8 = b + 10
      /\ DataFits(b + 2) <=> b + 12 <= Len(buf) /\ b + 12 + d <= Len(buf)
  <2>1. (b + 2) + 10 = b + 12 /\ (b + 2) + 8 = b + 10
    BY <1>3
  <2> QED
    BY <1>5, <2>1 DEF DataFits
<1>8. CASE ReadHead
  <2>1. /\ pc' = "rdata" /\ DataFits(b + 2)
        /\ rr' = [rtype |-> U16(b + 2), start |-> b + 12, len |-> U16(b + 10)]
        /\ UNCHANGED << buf, qleft, aleft, records >>
    BY <1>6, <1>7, <1>8 DEF ReadHead
  <2>2. rr' = [rtype |-> m[k + 1].rtype, start |-> b + 12, len |-> d]
    BY <1>5, <1>7, <2>1
  <2>3. rr'.start + rr'.len <= Len(buf')
    BY <1>7, <2>1, <2>2
  <2>4. AtData(m, k)' /\ Read(m, k)'
    BY <1>2, <2>1, <2>2, <2>3 DEF AtData, Read, b, d
  <2>5. InAnswer(m)'
    BY <2>1, <2>4 DEF InAnswer
  <2> QED
    BY <2>1, <2>5, ProgressBy
<1>9. CASE AnswerCut
  <2>1. ~ DataFits(b + 2) /\ Return("some")
    BY <1>6, <1>9 DEF AnswerCut
  <2>2. buf # Encoded[m]
    BY <1>3, <1>7, <2>1
  <2> QED
    BY <1>2, <2>1, <2>2, ReadPrefix, ReturnProgress
<1> QED
  BY <1>8, <1>9

\* A record that is what the answer means is the next one.
LEMMA PushProgress ==
  ASSUME NEW m \in Messages, Begins(Encoded[m]), NEW k \in Nat, Read(m, k), AtData(m, k),
         NEW record, Push(record), record = MeaningOf(m[k + 1])
  PROVE  Progress(m)'
<1>1. /\ records' = Append(records, record) /\ aleft' = aleft - 1
      /\ pos' = rr.start + rr.len /\ pc' = "next" /\ qleft' = qleft /\ buf' = buf
  BY DEF Push
<1>2. /\ k < Len(m) /\ Len(m) \in Nat /\ rr.start + rr.len <= Len(buf)
      /\ Bound(m, k + 1) = rr.start + rr.len
  BY AnswersType, DataIn DEF AtData
<1>3. SubSeq(Meaning(m), 1, k + 1) = Append(SubSeq(Meaning(m), 1, k), MeaningOf(m[k + 1]))
  BY <1>2, MeaningHolds
<1>4. records' = SubSeq(Meaning(m), 1, k + 1)
  BY <1>1, <1>3 DEF Read
<1>5. k + 1 \in 0 .. Len(m) /\ aleft' = Len(m) - (k + 1)
  <2>1. aleft = Len(m) - k
    BY DEF Read
  <2> QED
    BY <1>1, <1>2, <2>1
<1>6. Read(m, k + 1)' /\ pos' = Bound(m, k + 1)
  BY <1>1, <1>2, <1>4, <1>5 DEF Read
<1>7. AtNext(m)'
  BY <1>6 DEF AtNext
<1> QED
  BY <1>1, <1>7, ProgressBy

LEMMA RecordIs ==
  ASSUME NEW a, a.rtype = rr.rtype, NEW kind, NEW preference, NEW content,
         IsRecord(a, kind, preference, content)
  PROVE  Record(kind, preference, content) = MeaningOf(a)
  BY Zenon DEF Record, IsRecord

\* The data of an answer that is neither a target nor a text.
LEMMA PlainData ==
  ASSUME NEW a, IsAnswer(a), a.rtype \notin TargetTypes, a.rtype # TYPE_TXT
  PROVE  Data(a) = a.parts[1] /\ a.parts = << a.parts[1] >>
<1>1. a.rtype \notin TargetTypes \cup {TYPE_TXT}
  BY Zenon
<1>2. Data(a) = a.parts[1]
  BY <1>1, DataIs, Zenon
<1>3. a.parts \in Seq(Seq(Octet)) /\ Len(a.parts) = 1
  BY <1>1, Zenon DEF IsAnswer
<1>4. \A S : \A q \in Seq(S) : Len(q) = 1 => q = << q[1] >>
  OBVIOUS
<1> QED
  BY <1>2, <1>3, <1>4, Zenon

LEMMA ReadAddressProgress ==
  ASSUME NEW m \in Messages, WInv, Begins(Encoded[m]), Progress(m), ReadAddress
  PROVE  Progress(m)'
<1>1. PICK k \in Nat : Read(m, k) /\ AtData(m, k)
  BY DEF ReadAddress, Progress, InAnswer
<1> DEFINE a == m[k + 1]
<1>2. /\ IsAnswer(a) /\ a.rtype = rr.rtype /\ rr.start \in Nat /\ rr.len = Len(Data(a))
      /\ HoldsAt(buf, rr.start, Data(a)) /\ Data(a) \in Seq(Octet)
  BY <1>1, DataIn
<1> HIDE DEF a
<1>3. \/ a.rtype = TYPE_A /\ rr.len = 4
      \/ a.rtype = TYPE_AAAA /\ rr.len = 16
  BY <1>2 DEF ReadAddress, IsAddress
<1>4. a.rtype \notin TargetTypes /\ a.rtype # TYPE_TXT
  BY <1>3, TypesDiffer DEF TargetTypes
<1>5. Data(a) = a.parts[1] /\ a.parts = << a.parts[1] >>
  BY <1>2, <1>4, PlainData
<1>6. Slice(rr.start, rr.len) = Data(a)
  <2>1. buf \in Seq(Octet)
    BY DEF Begins
  <2>2. SubSeq(buf, rr.start + 1, rr.start + Len(Data(a))) = Data(a)
    BY <1>2, <2>1, HoldsSlice
  <2> QED
    BY <1>2, <2>2, Zenon DEF Slice
<1>7. << Slice(rr.start, rr.len) >> = a.parts
  BY <1>5, <1>6, Zenon
<1> DEFINE kind == IF rr.rtype = TYPE_A THEN "A" ELSE "Aaaa"
<1>8. Push(Record(kind, 0, << Slice(rr.start, rr.len) >>))
  BY Zenon DEF ReadAddress
<1>9. Push(Record(kind, 0, a.parts))
  BY <1>7, <1>8, Zenon
<1>10. IsRecord(a, kind, 0, a.parts)
  <2>1. CASE a.rtype = TYPE_A /\ rr.len = 4
    <3>1. IsRecord(a, "A", 0, a.parts)
      BY <1>2, <1>5, <2>1, MeaningIs
    <3> QED
      BY <1>2, <2>1, <3>1
  <2>2. CASE a.rtype = TYPE_AAAA /\ rr.len = 16
    <3>1. IsRecord(a, "Aaaa", 0, a.parts)
      BY <1>2, <1>5, <2>2, MeaningIs
    <3> QED
      BY <1>2, <2>2, <3>1, TypesDiffer
  <2> QED
    BY <1>3, <2>1, <2>2
<1> HIDE DEF kind
<1>11. Record(kind, 0, a.parts) = MeaningOf(a)
  BY <1>2, <1>10, RecordIs
<1> QED
  BY <1>1, <1>9, <1>11, PushProgress DEF a

LEMMA ReadTargetProgress ==
  ASSUME NEW m \in Messages, WInv, Begins(Encoded[m]), Progress(m), ReadTarget
  PROVE  Progress(m)'
<1>1. PICK k \in Nat : Read(m, k) /\ AtData(m, k)
  BY DEF ReadTarget, Progress, InAnswer
<1> DEFINE a == m[k + 1]
<1>2. /\ a.rtype = rr.rtype /\ IsStrings(a.parts, 1, 191) /\ Start(a) \in Nat
  BY <1>1, TargetIn DEF ReadTarget
<1> HIDE DEF a
<1>3. PICK s \in Nat : s = Start(a)
  BY <1>2
<1>4. /\ pc' = "reading" /\ caller' = "target" /\ cursor' = s /\ jumps' = 0 /\ parts' = << >>
      /\ UNCHANGED << buf, qleft, aleft, rr, records >>
  BY <1>2, <1>3 DEF ReadTarget, ReadName, Start
<1>5. InLabels(s, a.parts, << >>)'
  BY <1>2, <1>4, NoLabels, LabelsBegin
<1>6. Start(a)' = s
  BY <1>3, <1>4 DEF Start
<1>7. InTarget(a)'
  BY <1>4, <1>5, <1>6 DEF InTarget, InLabels
<1>8. Read(m, k)' /\ AtData(m, k)'
  BY <1>1, <1>4 DEF Read, AtData
<1>9. InAnswer(m)'
  BY <1>4, <1>7, <1>8 DEF InAnswer, a
<1> QED
  BY <1>4, <1>9, ProgressBy

LEMMA ReadTextProgress ==
  ASSUME NEW m \in Messages, WInv, Begins(Encoded[m]), Progress(m), ReadText
  PROVE  Progress(m)'
<1>1. PICK k \in Nat : Read(m, k) /\ AtData(m, k)
  BY DEF ReadText, Progress, InAnswer
<1> DEFINE a == m[k + 1]
<1>2. IsAnswer(a) /\ a.rtype = rr.rtype /\ rr.start \in Nat
  BY <1>1, DataIn
<1> HIDE DEF a
<1>3. IsStrings(a.parts, 0, 255)
  BY <1>2 DEF ReadText, IsAnswer
<1>4. PICK s \in Nat : s = rr.start
  BY <1>2
<1>5. /\ pc' = "text" /\ cursor' = s /\ parts' = << >>
      /\ UNCHANGED << buf, qleft, aleft, rr, records >>
  BY <1>4 DEF ReadText
<1>6. InLabels(s, a.parts, << >>)'
  BY <1>3, <1>5, NoLabels, LabelsBegin
<1>7. InLabels(rr.start, a.parts, << >>)'
  BY <1>4, <1>5, <1>6 DEF InLabels
<1>8. Read(m, k)' /\ AtData(m, k)'
  BY <1>1, <1>5 DEF Read, AtData
<1>9. InAnswer(m)'
  BY <1>5, <1>7, <1>8 DEF InAnswer, a
<1> QED
  BY <1>5, <1>9, ProgressBy

LEMMA ReadOtherProgress ==
  ASSUME NEW m \in Messages, WInv, Begins(Encoded[m]), Progress(m), ReadOther
  PROVE  Progress(m)'
<1>1. PICK k \in Nat : Read(m, k) /\ AtData(m, k)
  BY DEF ReadOther, Progress, InAnswer
<1> DEFINE a == m[k + 1]
<1>2. /\ IsAnswer(a) /\ a.rtype = rr.rtype /\ rr.len = Len(Data(a))
      /\ DataAt(buf, rr.start, a)
  BY <1>1, DataIn
<1> HIDE DEF a
<1>3. ~ IsAddress /\ ~ HasTarget /\ rr.rtype # TYPE_TXT /\ Push(Other)
  BY DEF ReadOther
<1>4. a.rtype \notin TargetTypes
  <2>1. a.rtype = TYPE_MX => rr.len >= 2
    BY <1>2 DEF DataAt
  <2> QED
    BY <1>2, <1>3, <2>1 DEF HasTarget, IsExchange, TargetTypes
<1>5. rr.len = Len(a.parts[1])
  BY <1>2, <1>3, <1>4, PlainData
<1>6. IsUnknown(a)
  BY <1>2, <1>3, <1>4, <1>5 DEF IsUnknown, IsAddress
<1>7. IsRecord(a, "Other", 0, << >>)
  BY <1>6, MeaningIs
<1>8. Other = MeaningOf(a)
  BY <1>2, <1>7, RecordIs DEF Other
<1> QED
  BY <1>1, <1>3, <1>8, PushProgress DEF a

LEMMA TargetReadProgress ==
  ASSUME NEW m \in Messages, WInv, Begins(Encoded[m]), Progress(m), TargetRead
  PROVE  Progress(m)'
<1>1. /\ pc = "reading" /\ caller = "target" /\ Reading /\ At(cursor) = 0
  BY DEF TargetRead, AtRoot, Reading
<1>2. PICK k \in Nat : Read(m, k) /\ AtData(m, k) /\ InTarget(m[k + 1])
  BY <1>1 DEF Progress, InAnswer
<1> DEFINE a == m[k + 1]
<1>3. HasTarget
  BY <1>1 DEF WInv, LoopInv
<1>4. /\ a.rtype \in TargetTypes /\ a.rtype = rr.rtype /\ IsStrings(a.parts, 1, 191)
      /\ Start(a) \in Nat /\ TargetAt(buf, Start(a), a)
      /\ a.rtype = TYPE_MX => U16(rr.start) = a.preference
  BY <1>2, <1>3, TargetIn
<1>5. Begins(buf) /\ NameAt(buf, 12, Asked)
  BY <1>2, AskedIn DEF Read, AtData
<1> HIDE DEF a
<1>6. a.parts \in Seq(Seq(Octet)) /\ << >> \o a.parts = a.parts
  <2>1. a.parts \in Seq(Seq(Octet))
    BY <1>4 DEF IsStrings
  <2> QED
    BY <2>1
<1>7. parts = Spelled(a)
  <2>1. CASE InLabels(Start(a), a.parts, << >>)
    <3>1. PICK s \in Nat : s = Start(a)
      BY <1>4
    <3>2. HoldsAt(buf, s, EncodeStrings(a.parts))
      BY <1>4, <3>1 DEF TargetAt
    <3>3. /\ At(cursor) = buf[(s + Reach(a.parts, Len(a.parts))) + 1]
          /\ parts = << >> \o a.parts
      BY <1>1, <1>4, <1>5, <2>1, <3>1, <3>2, NoLabels, ClosingStep
    <3>4. ~ a.compressed
      BY <1>1, <1>4, <3>1, <3>3 DEF TargetAt
    <3> QED
      BY <1>6, <3>3, <3>4 DEF Spelled
  <2>2. CASE a.compressed /\ InLabels(12, Asked, a.parts)
    <3>1. PICK w : w = buf
      OBVIOUS
    <3>2. HoldsAt(w, 12, EncodeStrings(Asked)) /\ Begins(w)
      BY <1>5, <3>1 DEF NameAt
    <3>3. PICK b \in Seq(Seq(Octet)) : b = a.parts
      BY <1>6
    <3>4. InLabels(12, Asked, b)
      BY <2>2, <3>3
    <3>5. parts = b \o Asked
      BY <1>1, <3>2, <3>3, <3>4, AskedIs, NoLabels, ClosingStep
    <3> QED
      BY <2>2, <3>3, <3>5 DEF Spelled
  <2> QED
    BY <1>2, <2>1, <2>2 DEF InTarget, a
<1> DEFINE record == CASE rr.rtype = TYPE_CNAME -> Record("Cname", 0, parts)
                       [] rr.rtype = TYPE_NS    -> Record("Ns", 0, parts)
                       [] rr.rtype = TYPE_MX    -> Record("Mx", U16(rr.start), parts)
<1>8. Push(record)
  BY Zenon DEF TargetRead
<1>9. record = MeaningOf(a)
  <2>1. /\ rr.rtype = TYPE_CNAME => record = Record("Cname", 0, Spelled(a))
        /\ rr.rtype = TYPE_NS => record = Record("Ns", 0, Spelled(a))
        /\ rr.rtype = TYPE_MX => record = Record("Mx", a.preference, Spelled(a))
    BY <1>4, <1>7, TypesDiffer, Zenon
  <2> HIDE DEF record
  <2>2. CASE rr.rtype = TYPE_CNAME
    BY <1>4, <2>1, <2>2, MeaningIs, RecordIs
  <2>3. CASE rr.rtype = TYPE_NS
    BY <1>4, <2>1, <2>3, MeaningIs, RecordIs
  <2>4. CASE rr.rtype = TYPE_MX
    BY <1>4, <2>1, <2>4, MeaningIs, RecordIs
  <2> QED
    BY <1>4, <2>2, <2>3, <2>4 DEF TargetTypes
<1> HIDE DEF record
<1> QED
  BY <1>2, <1>8, <1>9, PushProgress DEF a

\* The target of a message is always there: what its answer's length covers.
LEMMA TargetThere ==
  ASSUME NEW m \in Messages, WInv, Begins(Encoded[m]), Progress(m), TargetMissing
  PROVE  FALSE
<1>1. /\ pc = "reading" /\ caller = "target" /\ ~ Readable
      /\ buf \in Seq(Octet) /\ Len(buf) \in Nat
  BY LengthOfBuf DEF TargetMissing, Unreadable, WInv, TypeOK
<1>2. PICK k \in Nat : Read(m, k) /\ AtData(m, k) /\ InTarget(m[k + 1])
  BY <1>1 DEF Progress, InAnswer
<1> DEFINE a == m[k + 1]
<1>3. HasTarget
  BY <1>1 DEF WInv, LoopInv
<1>4. /\ IsStrings(a.parts, 1, 191) /\ Start(a) \in Nat /\ TargetAt(buf, Start(a), a)
  BY <1>2, <1>3, TargetIn
<1>5. NameAt(buf, 12, Asked) /\ 12 + Reach(Asked, Len(Asked)) + 1 <= Len(buf)
  BY <1>2, AskedIn DEF Read, AtData
<1> HIDE DEF a
<1>6. jumps = 0 /\ InLabels(Start(a), a.parts, << >>)
  BY <1>1, <1>2, <1>5, AskedIs, AskedReadable DEF InTarget, a
<1>7. PICK s \in Nat : s = Start(a)
  BY <1>4
<1>8. HoldsAt(buf, s, EncodeStrings(a.parts))
  BY <1>4, <1>7 DEF TargetAt
<1> DEFINE r == Reach(a.parts, Len(a.parts))
<1>9. \/ /\ cursor < Len(buf) /\ At(cursor) \in 1 .. 191
         /\ cursor + 1 + At(cursor) <= Len(buf)
      \/ cursor = s + r
  BY <1>1, <1>4, <1>6, <1>7, <1>8, LabelsFit
<1>10. cursor = s + r
  <2>1. \A x \in 1 .. 191 : ~ (x >= 192)
    OBVIOUS
  <2>2. At(cursor) \in 1 .. 191 => ~ IsPointer(At(cursor))
    BY <2>1, Zenon DEF IsPointer
  <2> QED
    BY <1>1, <1>9, <2>2 DEF Readable
<1>11. /\ a.compressed => (s + r) + 2 <= Len(buf) /\ buf[(s + r) + 1] = 192
       /\ ~ a.compressed => (s + r) + 1 <= Len(buf) /\ buf[(s + r) + 1] = 0
  BY <1>4, <1>7 DEF TargetAt
<1>12. At(cursor) = buf[(s + r) + 1] /\ cursor \in Nat
  BY <1>10 DEF At, WInv, TypeOK
<1> HIDE DEF r
<1>13. /\ a.compressed => cursor + 2 <= Len(buf) /\ At(cursor) = 192
       /\ ~ a.compressed => cursor + 1 <= Len(buf) /\ At(cursor) = 0
  BY <1>10, <1>11, <1>12
<1>14. CASE a.compressed
  <2>1. cursor < Len(buf) /\ cursor + 1 < Len(buf) /\ IsPointer(At(cursor))
    BY <1>1, <1>12, <1>13, <1>14 DEF IsPointer
  <2> QED
    BY <1>1, <1>6, <2>1 DEF Readable, MayJump, MaxJumps
<1>15. CASE ~ a.compressed
  <2>1. cursor < Len(buf) /\ cursor + 1 + At(cursor) <= Len(buf) /\ ~ IsPointer(At(cursor))
    BY <1>1, <1>12, <1>13, <1>15 DEF IsPointer
  <2> QED
    BY <1>1, <2>1 DEF Readable
<1> QED
  BY <1>14, <1>15

\* No string reaches beyond the text.
LEMMA StringInText ==
  ASSUME NEW n, IsStrings(n, 0, 255), NEW i \in Nat, i < Len(n)
  PROVE  Reach(n, i) + 1 + Len(n[i + 1]) <= Len(EncodeStrings(n))
<1> DEFINE w == EncodeStrings(n)
<1>1. 0 \in Nat /\ 255 \in Octet
  BY DEF Octet
<1>2. w \in Seq(Octet) /\ Len(w) \in Nat
  BY <1>1, EncodeType, ReachEnds
<1>3. HoldsAt(w, 0, w)
  <2> HIDE DEF w
  <2>1. \A j \in 1 .. Len(w) : 0 + j = j
    BY <1>2
  <2> QED
    BY <1>2, <2>1 DEF HoldsAt
<1>4. (0 + Reach(n, i)) + 1 + Len(n[i + 1]) <= Len(w)
  BY <1>1, <1>2, <1>3, StringHolds
<1>5. Reach(n, i) \in Nat
  BY <1>1, ReachNext
<1>6. 0 + Reach(n, i) = Reach(n, i)
  BY <1>5
<1> QED
  BY <1>4, <1>6

\* The reader of a text is at one of its strings, or at its end.
LEMMA TextIn ==
  ASSUME NEW m \in Messages, WInv, Begins(Encoded[m]), pc = "text",
         NEW k \in Nat, Read(m, k), AtData(m, k),
         NEW i \in 0 .. Len(m[k + 1].parts),
         cursor = rr.start + Reach(m[k + 1].parts, i)
  PROVE  LET n == m[k + 1].parts
         IN  /\ IsStrings(n, 0, 255) /\ m[k + 1].rtype = rr.rtype /\ rr.rtype = TYPE_TXT
             /\ i < Len(n) => /\ StringFits
                              /\ Slice(cursor + 1, At(cursor)) = n[i + 1]
                              /\ cursor + 1 + At(cursor) = rr.start + Reach(n, i + 1)
             /\ i = Len(n) => ~ StringFits
<1> DEFINE a == m[k + 1]
           n == a.parts
<1>1. /\ IsAnswer(a) /\ a.rtype = rr.rtype /\ rr.start \in Nat /\ rr.len = Len(Data(a))
      /\ HoldsAt(buf, rr.start, Data(a)) /\ Data(a) \in Seq(Octet)
  BY DataIn
<1>2. rr.rtype = TYPE_TXT
  BY DEF WInv, LoopInv
<1> HIDE DEF a
<1>3. IsStrings(n, 0, 255)
  BY <1>1, <1>2 DEF IsAnswer
<1>4. Data(a) = EncodeStrings(n)
  BY <1>1, <1>2, DataIs
<1>5. 0 \in Nat /\ 255 \in Octet
  BY DEF Octet
<1>6. i \in 0 .. Len(n) /\ cursor = rr.start + Reach(n, i)
  BY DEF a
<1>7. buf \in Seq(Octet) /\ Len(n) \in Nat /\ i \in Nat
  BY <1>3, <1>5, <1>6, FramedType DEF Begins
<1> HIDE DEF n
<1>8. ASSUME i < Len(n)
      PROVE  /\ StringFits /\ Slice(cursor + 1, At(cursor)) = n[i + 1]
             /\ cursor + 1 + At(cursor) = rr.start + Reach(n, i + 1)
  <2> DEFINE l == Len(n[i + 1])
             r == Reach(n, i)
             t == Reach(n, i + 1)
             e == Len(EncodeStrings(n))
  <2>1. r \in Nat /\ l \in Nat /\ t = r + 1 + l
    BY <1>3, <1>5, <1>7, <1>8, ReachNext
  <2>2. PICK s \in Nat : s = rr.start
    BY <1>1
  <2>3. HoldsAt(buf, s, EncodeStrings(n))
    BY <1>1, <1>4, <2>2
  <2>4. /\ buf[(s + r) + 1] = l
        /\ SubSeq(buf, (s + r) + 2, (s + r) + 1 + l) = n[i + 1]
    BY <1>3, <1>5, <1>7, <1>8, <2>3, StringHolds
  <2>5. r + 1 + l <= e
    BY <1>3, <1>7, <1>8, StringInText
  <2>6. e \in Nat
    BY <1>3, <1>5, ReachEnds
  <2>7. TextEnd = s + e
    BY <1>1, <1>4, <2>2 DEF TextEnd
  <2>8. cursor = s + r
    BY <1>6, <2>2
  <2>9. At(cursor) = l
    BY <2>4, <2>8 DEF At
  <2> HIDE DEF r, l, t, e
  <2>10. (s + r) + 2 = (cursor + 1) + 1 /\ (s + r) + 1 + l = (cursor + 1) + l
    BY <2>1, <2>2, <2>8
  <2>11. SubSeq(buf, (s + r) + 2, (s + r) + 1 + l) = Slice(cursor + 1, l)
    BY <2>10, Zenon DEF Slice
  <2>12. cursor + 1 + l = s + t
    BY <2>1, <2>2, <2>8
  <2>13. cursor < TextEnd /\ cursor + 1 + l <= TextEnd
    <3>1. PICK x \in Nat, y \in Nat, z \in Nat : x = r /\ y = l /\ z = e
      BY <2>1, <2>6, Zenon
    <3>2. x + 1 + y <= z
      BY <2>5, <3>1, Zenon
    <3>3. cursor = s + x /\ TextEnd = s + z
      BY <2>7, <2>8, <3>1, Zenon
    <3> QED
      BY <3>1, <3>2, <3>3
  <2>14. StringFits
    BY <2>9, <2>13 DEF StringFits
  <2> QED
    BY <2>2, <2>4, <2>9, <2>11, <2>12, <2>14, Zenon DEF t
<1>9. ASSUME i = Len(n) PROVE ~ StringFits
  <2>1. Reach(n, Len(n)) = rr.len
    BY <1>1, <1>3, <1>4, <1>5, ReachEnds
  <2>2. cursor = TextEnd /\ TextEnd \in Nat
    BY <1>1, <1>6, <1>9, <2>1 DEF TextEnd, WInv, TypeOK
  <2> QED
    BY <2>2 DEF StringFits
<1> QED
  BY <1>1, <1>2, <1>3, <1>8, <1>9 DEF a, n

LEMMA ReadStringProgress ==
  ASSUME NEW m \in Messages, WInv, Begins(Encoded[m]), Progress(m), ReadString
  PROVE  Progress(m)'
<1>1. /\ pc = "text" /\ pc' = "text" /\ StringFits
      /\ parts' = Append(parts, Slice(cursor + 1, At(cursor)))
      /\ cursor' = cursor + 1 + At(cursor)
      /\ UNCHANGED << buf, qleft, aleft, rr, records >>
  BY DEF ReadString
<1>2. PICK k \in Nat : Read(m, k) /\ AtData(m, k) /\ InLabels(rr.start, m[k + 1].parts, << >>)
  BY <1>1 DEF Progress, InAnswer
<1> DEFINE n == m[k + 1].parts
<1>3. PICK i \in 0 .. Len(n) :
        cursor = rr.start + Reach(n, i) /\ parts = << >> \o SubSeq(n, 1, i)
  BY <1>2 DEF InLabels
<1>4. /\ IsStrings(n, 0, 255)
      /\ i < Len(n) => /\ Slice(cursor + 1, At(cursor)) = n[i + 1]
                       /\ cursor + 1 + At(cursor) = rr.start + Reach(n, i + 1)
      /\ i = Len(n) => ~ StringFits
  BY <1>1, <1>2, <1>3, TextIn
<1> HIDE DEF n
<1>5. 0 \in Nat /\ 255 \in Octet
  BY DEF Octet
<1>6. Len(n) \in Nat /\ i \in Nat /\ i < Len(n) /\ i + 1 \in 0 .. Len(n)
  <2>1. Len(n) \in Nat
    BY <1>4, <1>5, FramedType
  <2> QED
    BY <1>1, <1>3, <1>4, <2>1
<1>7. /\ n \in Seq(Seq(Octet)) /\ n[i + 1] \in Seq(Octet)
      /\ SubSeq(n, 1, i) \in Seq(Seq(Octet))
      /\ SubSeq(n, 1, i + 1) = Append(SubSeq(n, 1, i), n[i + 1])
  <2>1. n \in Seq(Seq(Octet))
    BY <1>4 DEF IsStrings
  <2> QED
    BY <1>6, <2>1, OneMore
<1>8. parts' = << >> \o SubSeq(n, 1, i + 1)
  <2>1. Grows(<< >>, SubSeq(n, 1, i), n[i + 1])
    BY <1>7, NoLabels, Further
  <2> QED
    BY <1>1, <1>3, <1>4, <1>6, <1>7, <2>1, Zenon DEF Grows
<1>9. PICK s \in Nat : s = rr.start
  BY DEF WInv, TypeOK
<1>10. cursor' = s + Reach(n, i + 1)
  BY <1>1, <1>4, <1>6, <1>9
<1>11. rr' = rr /\ rr'.start = s
  BY <1>1, <1>9
<1>12. InLabels(rr.start, n, << >>)'
  BY <1>6, <1>8, <1>10, <1>11 DEF InLabels
<1>13. Read(m, k)' /\ AtData(m, k)'
  BY <1>1, <1>2 DEF Read, AtData
<1>14. InAnswer(m)'
  BY <1>1, <1>12, <1>13 DEF InAnswer, n
<1> QED
  BY <1>1, <1>14, ProgressBy

LEMMA TextReadProgress ==
  ASSUME NEW m \in Messages, WInv, Begins(Encoded[m]), Progress(m), TextRead
  PROVE  Progress(m)'
<1>1. pc = "text" /\ ~ StringFits /\ Push(Record("Txt", 0, parts))
  BY DEF TextRead
<1>2. PICK k \in Nat : Read(m, k) /\ AtData(m, k) /\ InLabels(rr.start, m[k + 1].parts, << >>)
  BY <1>1 DEF Progress, InAnswer
<1> DEFINE a == m[k + 1]
           n == a.parts
<1>3. PICK i \in 0 .. Len(n) :
        cursor = rr.start + Reach(n, i) /\ parts = << >> \o SubSeq(n, 1, i)
  BY <1>2 DEF InLabels
<1>4. /\ IsStrings(n, 0, 255) /\ a.rtype = rr.rtype /\ rr.rtype = TYPE_TXT
      /\ i < Len(n) => StringFits
  BY <1>1, <1>2, <1>3, TextIn
<1> HIDE DEF a
<1>5. 0 \in Nat /\ 255 \in Octet
  BY DEF Octet
<1>6. i = Len(n)
  <2>1. Len(n) \in Nat
    BY <1>4, <1>5, FramedType
  <2> QED
    BY <1>1, <1>3, <1>4, <2>1
<1>7. parts = n
  <2>1. SubSeq(n, 1, Len(n)) = n /\ n \in Seq(Seq(Octet))
    BY <1>4, <1>5, ReachEnds DEF IsStrings
  <2> HIDE DEF n
  <2> QED
    BY <1>3, <1>6, <2>1
<1>8. IsRecord(a, "Txt", 0, n)
  BY <1>4, MeaningIs
<1>9. Record("Txt", 0, parts) = MeaningOf(a)
  BY <1>4, <1>7, <1>8, RecordIs
<1> QED
  BY <1>1, <1>2, <1>9, PushProgress DEF a

LEMMA StepProgress ==
  ASSUME NEW m \in Messages, WInv, Begins(Encoded[m]), Progress(m), Step
  PROVE  Progress(m)'
<1>1. CASE RefuseHeader \/ AcceptRcode \/ AcceptHeader
  BY <1>1, HeaderProgress
<1>2. CASE NextQuestion
  BY <1>2, NextQuestionProgress
<1>3. CASE NextAnswer
  BY <1>3, NextAnswerProgress
<1>4. CASE AllRead
  BY <1>4, AllReadProgress
<1>5. CASE ReadLabel
  BY <1>5, ReadLabelProgress
<1>6. CASE FollowPointer
  BY <1>6, FollowPointerProgress
<1>7. CASE NameMissing
  BY <1>7, NameMissingProgress
<1>8. CASE SkipQuestion \/ QuestionCut
  BY <1>8, SkipQuestionProgress
<1>9. CASE ReadHead \/ AnswerCut
  BY <1>9, ReadHeadProgress
<1>10. CASE ReadAddress
  BY <1>10, ReadAddressProgress
<1>11. CASE ReadTarget
  BY <1>11, ReadTargetProgress
<1>12. CASE ReadText
  BY <1>12, ReadTextProgress
<1>13. CASE ReadOther
  BY <1>13, ReadOtherProgress
<1>14. CASE TargetRead
  BY <1>14, TargetReadProgress
<1>15. CASE TargetMissing
  BY <1>15, TargetThere
<1>16. CASE ReadString
  BY <1>16, ReadStringProgress
<1>17. CASE TextRead
  BY <1>17, TextReadProgress
<1> QED
  BY <1>1, <1>2, <1>3, <1>4, <1>5, <1>6, <1>7, <1>8, <1>9, <1>10, <1>11, <1>12, <1>13,
     <1>14, <1>15, <1>16, <1>17, Zenon DEF Step

\* parse_response never writes to the datagram.
LEMMA SameDatagram == Next => buf' = buf
<1>1. Step => buf' = buf
  BY DEF Step, RefuseHeader, AcceptRcode, AcceptHeader, NextQuestion, NextAnswer, AllRead,
         ReadLabel, FollowPointer, NameMissing, SkipQuestion, QuestionCut, ReadHead, AnswerCut,
         ReadAddress, ReadTarget, ReadText, ReadOther, TargetRead, TargetMissing, ReadString,
         TextRead, Return, Push
<1> QED
  BY <1>1 DEF Next, Returned, vars

LEMMA StutterProgress ==
  ASSUME NEW m, Progress(m), UNCHANGED vars
  PROVE  Progress(m)'
<1> USE DEF vars
<1>1. \A k : Read(m, k)' <=> Read(m, k)
  BY DEF Read
<1>2. \A at, n, before : InLabels(at, n, before)' <=> InLabels(at, n, before)
  BY DEF InLabels
<1>3. AtHeader' /\ AtNext(m)' /\ AtReturn(m)'
  BY <1>1 DEF Progress, AtHeader, AtNext, AtReturn
<1>4. AtQuestion(m)'
  BY <1>2 DEF Progress, AtQuestion
<1>5. AtOwner(m)'
  BY <1>1, <1>2 DEF Progress, AtOwner, InOwner
<1>6. InAnswer(m)'
  BY <1>1, <1>2 DEF Progress, InAnswer, AtData, InTarget, Start
<1> QED
  BY <1>3, <1>4, <1>5, <1>6 DEF Progress

LEMMA InitMInv == Init => MInv
<1> SUFFICES ASSUME Init PROVE MInv
  OBVIOUS
<1>1. pc = "header" /\ records = << >>
  BY DEF Init
<1>2. \A m \in Messages : Progress(m)
  BY <1>1 DEF Progress, AtHeader, AtNext, AtQuestion, AtOwner, InAnswer, AtReturn
<1> QED
  BY <1>2, InitWInv DEF MInv

LEMMA NextMInv == MInv /\ [Next]_vars => MInv'
<1> SUFFICES ASSUME MInv, [Next]_vars PROVE MInv'
  OBVIOUS
<1>1. WInv /\ WInv'
  BY StepWInv, StutterWInv DEF MInv, Next, Returned
<1>2. buf' = buf
  BY SameDatagram DEF vars
<1>3. ASSUME NEW m \in Messages, IsPrefix(buf', Encoded[m])
      PROVE  Progress(m)'
  <2>1. IsPrefix(buf, Encoded[m])
    BY <1>2, <1>3
  <2>2. Begins(Encoded[m])
    <3>1. buf \in Seq(Octet) /\ Encoded[m] \in Seq(Octet)
      BY <1>1, MessageHolds DEF WInv, TypeOK
    <3> QED
      BY <2>1, <3>1, PrefixBegins
  <2>3. Progress(m)
    BY <2>1 DEF MInv
  <2>4. CASE Step
    BY <1>1, <2>2, <2>3, <2>4, StepProgress
  <2>5. CASE UNCHANGED vars
    BY <2>3, <2>5, StutterProgress
  <2> QED
    BY <2>4, <2>5 DEF Next, Returned
<1>4. \A m \in Messages : IsPrefix(buf', Encoded[m]) => Progress(m)'
  BY <1>3
<1> QED
  BY <1>1, <1>4 DEF MInv

LEMMA MInvMeant == MInv => AnswersAsMeant
<1> SUFFICES ASSUME MInv, pc \in {"some", "none"}, NEW m \in Messages
             PROVE  /\ buf = Encoded[m] => pc = "some" /\ records = Meant[m]
                    /\ IsPrefix(buf, Encoded[m]) => IsPrefix(records, Meant[m])
  BY DEF AnswersAsMeant
<1>1. Meant[m] = Meaning(m)
  BY DEF Meant
<1>2. ASSUME IsPrefix(buf, Encoded[m])
      PROVE  /\ IsPrefix(records, Meaning(m))
             /\ buf = Encoded[m] => pc = "some" /\ records = Meaning(m)
  BY <1>2 DEF MInv, Progress, AtReturn
<1>3. buf = Encoded[m] => IsPrefix(buf, Encoded[m])
  <2>1. buf \in Seq(Octet) /\ Len(buf) \in Nat
    BY LengthOfBuf DEF MInv, WInv, TypeOK
  <2> QED
    BY <2>1, FirstNone DEF IsPrefix
<1> QED
  BY <1>1, <1>2, <1>3

\* A message that arrives whole is read as what it means, for any number of
\* answers of any kind with names of any length, and one that was cut gives
\* only answers that are in it.
THEOREM MessagesReadAsMeant == Spec => []AnswersAsMeant
<1>1. Spec => []MInv
  BY InitMInv, NextMInv, PTL DEF Spec
<1> QED
  BY <1>1, MInvMeant, PTL

-----------------------------------------------------------------------------
(* A query that comes back.                                                *)

QueryBegins(n) ==
  /\ Begins(buf) /\ Len(buf) \in Nat
  /\ IsStrings(NonEmpty(n), 1, 191)
  /\ HoldsAt(buf, 12, EncodeStrings(NonEmpty(n)))
  /\ buf[(12 + Reach(NonEmpty(n), Len(NonEmpty(n)))) + 1] = 0
  /\ Len(buf) = 12 + Reach(NonEmpty(n), Len(NonEmpty(n))) + 5
  /\ Reach(NonEmpty(n), Len(NonEmpty(n))) \in Nat
  /\ HeaderAt(buf, 0)

LEMMA QueryIn ==
  ASSUME NEW n \in Names, WInv, buf = Queries[n]
  PROVE  QueryBegins(n)
<1> DEFINE s == NonEmpty(n)
<1>1. /\ Queries[n] \in Seq(Octet) /\ Len(Queries[n]) = 12 + Reach(s, Len(s)) + 5
      /\ HeaderAt(Queries[n], 0) /\ NameAt(Queries[n], 12, s)
      /\ IsStrings(s, 1, 191)
  BY QueryHolds
<1> HIDE DEF s
<1>2. Reach(s, Len(s)) \in Nat
  <2>1. 1 \in Nat /\ 191 \in Octet
    BY DEF Octet
  <2> QED
    BY <1>1, <2>1, ReachEnds
<1>3. Begins(buf) /\ Len(buf) \in Nat
  BY BeginsItself DEF WInv, TypeOK
<1> QED
  BY <1>1, <1>2, <1>3 DEF QueryBegins, NameAt, s

\* What closes its name.
LEMMA QueryClosing ==
  ASSUME NEW n, QueryBegins(n), Reading, At(cursor) = 0 \/ IsPointer(At(cursor)),
         InLabels(12, NonEmpty(n), << >>)
  PROVE  /\ At(cursor) = 0
         /\ cursor = 12 + Reach(NonEmpty(n), Len(NonEmpty(n)))
         /\ parts = NonEmpty(n)
<1> DEFINE s == NonEmpty(n)
<1>1. PICK w : w = buf
  OBVIOUS
<1>2. /\ Begins(w) /\ IsStrings(s, 1, 191) /\ HoldsAt(w, 12, EncodeStrings(s))
      /\ w[(12 + Reach(s, Len(s))) + 1] = 0 /\ InLabels(12, s, << >>)
  BY <1>1 DEF QueryBegins
<1> HIDE DEF s
<1>3. /\ At(cursor) = w[(12 + Reach(s, Len(s))) + 1]
      /\ cursor = 12 + Reach(s, Len(s))
      /\ parts = << >> \o s
  BY <1>2, NoLabels, ClosingStep
<1>4. << >> \o s = s
  <2>1. s \in Seq(Seq(Octet))
    BY <1>2 DEF IsStrings
  <2> QED
    BY <2>1
<1> QED
  BY <1>2, <1>3, <1>4 DEF s

LEMMA StepBack ==
  ASSUME NEW n, QueryBegins(n), WInv, Back(n), Step
  PROVE  Back(n)'
<1> USE DEF Back
<1>1. /\ pc \notin {"rdata", "text"}
      /\ pc = "reading" => caller = "question"
  OBVIOUS
<1>2. CASE RefuseHeader \/ AcceptRcode \/ AllRead \/ NameMissing \/ QuestionCut
  BY <1>2 DEF RefuseHeader, AcceptRcode, AllRead, NameMissing, QuestionCut, Return
<1>3. CASE AcceptHeader
  <2>1. U16(4) = 1 /\ U16(6) = 0
    <3>1. Len(buf) >= 12 /\ HeaderAt(buf, 0) /\ Begins(buf)
      BY <1>3 DEF QueryBegins, AcceptHeader, Wellformed
    <3> QED
      BY <3>1, HeaderRead
  <2> QED
    BY <1>3, <2>1 DEF AcceptHeader
<1>4. CASE NextQuestion
  <2>1. /\ pc' = "reading" /\ caller' = "question" /\ cursor' = 12 /\ end' = 0 /\ jumps' = 0
        /\ parts' = << >> /\ qleft' = 1 /\ aleft' = 0
    BY <1>4 DEF NextQuestion, ReadName
  <2>2. InLabels(12, NonEmpty(n), << >>)'
    BY <2>1, NoLabels, LabelsBegin DEF QueryBegins
  <2> QED
    BY <2>1, <2>2
<1>5. CASE NextAnswer
  BY <1>5 DEF NextAnswer
<1>6. CASE ReadLabel
  <2>1. /\ pc = "reading"
        /\ UNCHANGED << pc, qleft, aleft, caller, end, jumps >>
    BY <1>6 DEF ReadLabel, Reading
  <2>2. PICK w : w = buf
    OBVIOUS
  <2>3. PICK s : s = NonEmpty(n)
    OBVIOUS
  <2>4. /\ Begins(w) /\ IsStrings(s, 1, 191) /\ HoldsAt(w, 12, EncodeStrings(s))
        /\ w[(12 + Reach(s, Len(s))) + 1] = 0 /\ InLabels(12, s, << >>)
    BY <2>1, <2>2, <2>3 DEF QueryBegins
  <2>5. InLabels(12, s, << >>)'
    BY <1>6, <2>4, NoLabels, LabelStep
  <2>6. InLabels(12, NonEmpty(n), << >>)'
    BY <2>3, <2>5
  <2> QED
    BY <2>1, <2>6
<1>7. CASE FollowPointer
  <2>1. pc = "reading" /\ Reading /\ IsPointer(At(cursor))
    BY <1>7 DEF FollowPointer, Reading
  <2>2. At(cursor) = 0
    BY <2>1, QueryClosing
  <2> QED
    BY <2>1, <2>2 DEF IsPointer
<1>8. CASE SkipQuestion
  <2>1. /\ pc = "reading" /\ pc' = "next" /\ qleft' = qleft - 1 /\ aleft' = aleft
    BY <1>8 DEF SkipQuestion, AtRoot, Reading
  <2> QED
    BY <2>1
<1>9. CASE ReadHead \/ AnswerCut \/ TargetRead \/ TargetMissing
  BY <1>1, <1>9 DEF ReadHead, AnswerCut, TargetRead, TargetMissing, AtRoot, Reading, Unreadable
<1>10. CASE ReadAddress \/ ReadTarget \/ ReadText \/ ReadOther \/ ReadString \/ TextRead
  BY <1>1, <1>10 DEF ReadAddress, ReadTarget, ReadText, ReadOther, ReadString, TextRead
<1> QED
  BY <1>2, <1>3, <1>4, <1>5, <1>6, <1>7, <1>8, <1>9, <1>10, Zenon DEF Step

LEMMA StutterBack ==
  ASSUME NEW n, Back(n), UNCHANGED vars
  PROVE  Back(n)'
<1>1. InLabels(12, NonEmpty(n), << >>)' <=> InLabels(12, NonEmpty(n), << >>)
  BY DEF InLabels, vars
<1> QED
  BY <1>1 DEF Back, vars

LEMMA InitQInv == Init => QInv
<1> SUFFICES ASSUME Init PROVE QInv
  OBVIOUS
<1>1. \A n \in Names : Back(n)
  BY DEF Init, Back
<1> QED
  BY <1>1, InitWInv DEF QInv

LEMMA NextQInv == QInv /\ [Next]_vars => QInv'
<1> SUFFICES ASSUME QInv, [Next]_vars PROVE QInv'
  OBVIOUS
<1>1. WInv /\ WInv'
  BY StepWInv, StutterWInv DEF QInv, Next, Returned
<1>2. buf' = buf
  BY SameDatagram DEF vars
<1>3. ASSUME NEW n \in Names, buf' = Queries[n]
      PROVE  Back(n)'
  <2>1. Back(n) /\ QueryBegins(n)
    BY <1>1, <1>2, <1>3, QueryIn DEF QInv
  <2>2. CASE Step
    BY <1>1, <2>1, <2>2, StepBack
  <2>3. CASE UNCHANGED vars
    BY <2>1, <2>3, StutterBack
  <2> QED
    BY <2>2, <2>3 DEF Next, Returned
<1>4. \A n \in Names : buf' = Queries[n] => Back(n)'
  BY <1>3
<1> QED
  BY <1>1, <1>4 DEF QInv

LEMMA QInvReadsBack == QInv => QuestionReadsBack
<1> SUFFICES ASSUME QInv, pc = "reading", AtRoot, NEW n \in Names, buf = Queries[n]
             PROVE  parts = NonEmpty(n) /\ EndAfter(cursor + 1) + 4 = Len(buf)
  BY DEF QuestionReadsBack
<1>1. /\ InLabels(12, NonEmpty(n), << >>) /\ end = 0 /\ WInv
      /\ Reading /\ At(cursor) = 0
  BY DEF QInv, Back, AtRoot
<1>2. QueryBegins(n)
  BY <1>1, QueryIn
<1>3. cursor = 12 + Reach(NonEmpty(n), Len(NonEmpty(n))) /\ parts = NonEmpty(n)
  BY <1>1, <1>2, QueryClosing
<1> DEFINE r == Reach(NonEmpty(n), Len(NonEmpty(n)))
<1>4. r \in Nat /\ Len(buf) = 12 + r + 5 /\ cursor = 12 + r
  BY <1>2, <1>3 DEF QueryBegins
<1> HIDE DEF r
<1>5. EndAfter(cursor + 1) = 12 + r + 1
  BY <1>1, <1>4 DEF EndAfter
<1> QED
  BY <1>3, <1>4, <1>5

\* The question of a query that build_query wrote reads back as the labels of
\* its name that are not empty, whatever they are made of, and the header,
\* that name, type and class are all there is in the query.
THEOREM QueriesReadBack == Spec => []QuestionReadsBack
<1>1. Spec => []QInv
  BY InitQInv, NextQInv, PTL DEF Spec
<1> QED
  BY <1>1, QInvReadsBack, PTL

=============================================================================
