--------------------------- MODULE ProtocolProofs ---------------------------
(***************************************************************************)
(* What the parsers of protocol.h make of the messages its serializers     *)
(* write, for every name, size and port.                                   *)
(***************************************************************************)
EXTENDS Protocol, TLAPS, SequenceTheorems, WellFoundedInduction

FileHeaderRecord == [filename : Seq(Field), size : Nat, encrypted : BOOLEAN]

USE DEF NoNumber

LEMMA FieldsAreFields ==
  /\ Magic \in Field /\ Empty \in Field /\ Newline \in Field
  /\ \A n \in Nat : Decimal(n) \in Field
BY ProtocolAssumption DEF Magic, Empty, Newline, Decimal, Field

(* A header is a sequence of fields that ends in a newline. *)
LEMMA SerializedHeader ==
  ASSUME NEW h \in FileHeaderRecord
  PROVE  LET raw == SerializeFileHeader(h)
             k   == Len(h.filename)
         IN  /\ raw \in Seq(Field)
             /\ Len(raw) = k + 4
             /\ raw[1] = Magic
             /\ raw[2] = Decimal(IF h.encrypted THEN FILE_HEADER_ENCRYPTED ELSE FILE_HEADER)
             /\ \A i \in 1..k : raw[i + 2] = h.filename[i]
             /\ raw[k + 3] = Decimal(h.size)
             /\ raw[k + 4] = Newline
<1> DEFINE type == Decimal(IF h.encrypted THEN FILE_HEADER_ENCRYPTED ELSE FILE_HEADER)
           front == <<Magic, type>>
           back == <<Decimal(h.size), Newline>>
           k == Len(h.filename)
<1>1. type \in Field
  BY FieldsAreFields DEF FILE_HEADER_ENCRYPTED, FILE_HEADER
<1>2. front \in Seq(Field) /\ Len(front) = 2 /\ front[1] = Magic /\ front[2] = type
  BY <1>1, FieldsAreFields
<1>3. /\ back \in Seq(Field) /\ Len(back) = 2
      /\ back[1] = Decimal(h.size) /\ back[2] = Newline
  BY FieldsAreFields DEF FileHeaderRecord
<1>4. h.filename \in Seq(Field) /\ k \in Nat
  BY DEF FileHeaderRecord
<1> HIDE DEF type, front, back
<1> DEFINE mid == front \o h.filename
<1>5. /\ mid \in Seq(Field)
      /\ Len(mid) = 2 + k
      /\ \A i \in 1..(2 + k) : mid[i] = IF i <= 2 THEN front[i] ELSE h.filename[i - 2]
  <2>1. /\ mid \in Seq(Field) /\ Len(mid) = Len(front) + Len(h.filename)
        /\ \A i \in 1..(Len(front) + Len(h.filename)) :
             mid[i] = IF i <= Len(front) THEN front[i] ELSE h.filename[i - Len(front)]
    BY <1>2, <1>4, ConcatProperties
  <2> HIDE DEF mid
  <2>2. Len(front) = 2 /\ Len(h.filename) = k
    BY <1>2
  <2> QED BY <2>1, <2>2
<1> HIDE DEF mid
<1>6. /\ mid \o back \in Seq(Field)
      /\ Len(mid \o back) = k + 4
      /\ \A i \in 1..(k + 4) :
           (mid \o back)[i] = IF i <= 2 + k THEN mid[i] ELSE back[i - (2 + k)]
  <2> HIDE DEF k
  <2>1. \A i \in 1..(Len(mid) + Len(back)) :
          (mid \o back)[i] = IF i <= Len(mid) THEN mid[i] ELSE back[i - Len(mid)]
    BY <1>3, <1>5, ConcatProperties
  <2>2. Len(mid \o back) = Len(mid) + Len(back) /\ mid \o back \in Seq(Field)
    BY <1>3, <1>5, ConcatProperties
  <2>3. Len(mid) = 2 + k /\ Len(mid) + Len(back) = k + 4
    BY <1>3, <1>4, <1>5
  <2> QED BY <2>1, <2>2, <2>3
<1>7. SerializeFileHeader(h) = mid \o back
  BY DEF SerializeFileHeader, mid, front, back, type
<1>8. \A i \in 1..k : (mid \o back)[i + 2] = h.filename[i]
  <2> HIDE DEF k
  <2> TAKE i \in 1..k
  <2>1. i + 2 \in 1..(2 + k) /\ i + 2 \in 1..(k + 4) /\ ~(i + 2 <= 2) /\ (i + 2) - 2 = i
    BY <1>4
  <2>2. (mid \o back)[i + 2] = mid[i + 2]
    BY <1>6, <2>1
  <2>3. mid[i + 2] = h.filename[(i + 2) - 2]
    BY <1>5, <2>1
  <2> QED BY <2>1, <2>2, <2>3
<1>9. (mid \o back)[1] = Magic /\ (mid \o back)[2] = type
  BY <1>2, <1>4, <1>5, <1>6
<1>10. (mid \o back)[k + 3] = Decimal(h.size) /\ (mid \o back)[k + 4] = Newline
  <2> HIDE DEF k
  <2>1. (mid \o back)[k + 3] = back[(k + 3) - (2 + k)]
    BY <1>4, <1>6
  <2>2. (mid \o back)[k + 4] = back[(k + 4) - (2 + k)]
    BY <1>4, <1>6
  <2> QED BY <1>3, <1>4, <2>1, <2>2
<1> QED BY <1>6, <1>7, <1>8, <1>9, <1>10 DEF type

-----------------------------------------------------------------------------
LEMMA LeastNewline ==
  ASSUME NEW raw \in Seq(Field), NEW n \in 1..Len(raw), raw[n] = Newline
  PROVE  \E i \in 1..Len(raw) : /\ raw[i] = Newline
                                /\ \A j \in 1..(i - 1) : raw[j] # Newline
<1> DEFINE T == {i \in 1..Len(raw) : raw[i] = Newline}
<1>1. T \subseteq Nat /\ T # {}
  OBVIOUS
<1>2. \E i \in T : \A j \in T : ~(<<j, i>> \in OpToRel(<, Nat))
  <2> HIDE DEF T
  <2> QED BY <1>1, WFMin, NatLessThanWellFounded
<1>3. PICK i \in T : \A j \in T : ~(<<j, i>> \in OpToRel(<, Nat))
  BY <1>2
<1>4. \A j \in T : ~(j < i)
  BY <1>1, <1>3 DEF OpToRel
<1>5. \A j \in 1..(i - 1) : raw[j] # Newline
  <2> SUFFICES ASSUME NEW j \in 1..(i - 1), raw[j] = Newline
               PROVE  FALSE
    OBVIOUS
  <2>1. j \in 1..Len(raw) /\ j < i
    OBVIOUS
  <2> QED BY <1>4, <2>1
<1> QED BY <1>5

(* The first line of a message is what precedes its first newline. *)
LEMMA FirstLineCuts ==
  ASSUME NEW raw \in Seq(Field), NEW n \in 1..Len(raw), raw[n] = Newline
  PROVE  \E cut \in 1..n : /\ raw[cut] = Newline
                           /\ \A j \in 1..(cut - 1) : raw[j] # Newline
                           /\ FirstLine(raw) = SubSeq(raw, 1, cut - 1)
                           /\ FirstLine(raw) \in Seq(Field)
                           /\ Len(FirstLine(raw)) = cut - 1
                           /\ \A j \in 1..(cut - 1) : FirstLine(raw)[j] = raw[j]
<1> DEFINE First(i) == raw[i] = Newline /\ \A j \in 1..(i - 1) : raw[j] # Newline
           cut == CHOOSE i \in 1..Len(raw) : First(i)
<1>1. cut \in 1..Len(raw) /\ First(cut)
  BY LeastNewline
<1>2. FirstLine(raw) = SubSeq(raw, 1, cut - 1)
  BY DEF FirstLine
<1> HIDE DEF cut
<1>3. cut \in 1..n
  BY <1>1
<1>4. \A j \in 1..(cut - 1) : raw[j] \in Field
  BY <1>1, ElementOfSeq
<1>5. /\ SubSeq(raw, 1, cut - 1) \in Seq(Field)
      /\ Len(SubSeq(raw, 1, cut - 1)) = IF 1 <= cut - 1 THEN (cut - 1) - 1 + 1 ELSE 0
      /\ \A j \in 1..((cut - 1) - 1 + 1) : SubSeq(raw, 1, cut - 1)[j] = raw[1 + j - 1]
  BY <1>1, <1>4, SubSeqProperties
<1>6. Len(SubSeq(raw, 1, cut - 1)) = cut - 1
  BY <1>1, <1>5
<1>7. \A j \in 1..(cut - 1) : SubSeq(raw, 1, cut - 1)[j] = raw[j]
  BY <1>1, <1>5
<1> QED BY <1>1, <1>2, <1>3, <1>5, <1>6, <1>7
-----------------------------------------------------------------------------
(* Whatever the name, parsing what was serialized throws, fails, or yields *)
(* a size, the sender's flag and the name up to its first colon; it never  *)
(* yields something else.                                                  *)
THEOREM ParsedHeaderType ==
  ASSUME NEW h \in FileHeaderRecord
  PROVE  LET p == ParseFileHeader(FirstLine(SerializeFileHeader(h)))
         IN  /\ p.status \in {"ok", "malformed", "throws"}
             /\ p.status = "ok" => p.size \in Nat /\ p.encrypted = h.encrypted
             /\ p.status = "ok" /\ h.filename # <<>> => p.filename = h.filename[1]
<1> DEFINE raw == SerializeFileHeader(h)
           line == FirstLine(raw)
           p == ParseFileHeader(line)
           k == Len(h.filename)
           type == IF h.encrypted THEN FILE_HEADER_ENCRYPTED ELSE FILE_HEADER
<1>1. /\ raw \in Seq(Field) /\ k + 4 \in 1..Len(raw) /\ raw[k + 4] = Newline
      /\ raw[2] = Decimal(type) /\ k \in Nat
      /\ h.filename # <<>> => raw[3] = h.filename[1]
  <2>1. /\ raw \in Seq(Field) /\ Len(raw) = k + 4 /\ raw[k + 4] = Newline
        /\ raw[2] = Decimal(type) /\ \A i \in 1..k : raw[i + 2] = h.filename[i]
    BY SerializedHeader
  <2>2. k \in Nat /\ (h.filename # <<>> => 1 \in 1..k)
    BY DEF FileHeaderRecord
  <2> HIDE DEF raw, k, type
  <2>3. h.filename # <<>> => raw[1 + 2] = h.filename[1]
    BY <2>1, <2>2
  <2> QED BY <2>1, <2>2, <2>3
<1>2. h.encrypted = (Decimal(type).num = FILE_HEADER_ENCRYPTED)
  <2>1. h.encrypted \in BOOLEAN
    BY DEF FileHeaderRecord
  <2>2. CASE h.encrypted = TRUE
    BY <2>2 DEF Decimal
  <2>3. CASE h.encrypted = FALSE
    <3>1. Decimal(type).num = FILE_HEADER
      BY <2>3 DEF Decimal
    <3>2. Decimal(type).num # FILE_HEADER_ENCRYPTED
      BY <3>1 DEF FILE_HEADER, FILE_HEADER_ENCRYPTED
    <3> QED BY <2>3, <3>2
  <2> QED BY <2>1, <2>2, <2>3
<1> HIDE DEF raw, k, type
<1>3. PICK cut \in 1..(k + 4) :
        /\ line \in Seq(Field) /\ Len(line) = cut - 1
        /\ \A j \in 1..(cut - 1) : line[j] = raw[j]
  BY <1>1, FirstLineCuts
<1> HIDE DEF line
<1>4. /\ p.status \in {"ok", "malformed", "throws"}
      /\ p.status = "ok" => p.size \in Nat /\ p.encrypted = h.encrypted
      /\ p.status = "ok" /\ h.filename # <<>> => p.filename = h.filename[1]
  <2>1. CASE ~HasFields(line, 4)
    BY <2>1 DEF ParseFileHeader, Malformed
  <2>2. CASE HasFields(line, 4)
    <3>1. 4 <= Len(line)
      BY <1>3, <2>2 DEF HasFields, Getline
    <3>2. line[4] \in Field
      BY <1>3, <3>1, ElementOfSeq
    <3>3. line[4].num \in Nat \/ StoullThrows(line[4])
      BY <3>2 DEF Field, StoullThrows
    <3>4. \/ p = Malformed
          \/ p = Throws
          \/ /\ p = [status |-> "ok", filename |-> line[3], size |-> line[4].num,
                     encrypted |-> line[2].num = FILE_HEADER_ENCRYPTED]
             /\ ~StoullThrows(line[4])
      BY <2>2 DEF ParseFileHeader
    <3>5. line[2] = Decimal(type) /\ (h.filename # <<>> => line[3] = h.filename[1])
      <4>1. Len(line) \in Nat /\ 2 \in 1..(cut - 1) /\ 3 \in 1..(cut - 1)
        BY <1>3, <3>1
      <4> QED BY <1>1, <1>3, <4>1
    <3> DEFINE flag == line[2].num = FILE_HEADER_ENCRYPTED
    <3>6. flag = h.encrypted
      BY <1>2, <3>5
    <3> HIDE DEF p, flag
    <3>7. CASE p = Malformed \/ p = Throws
      BY <3>7 DEF Malformed, Throws
    <3>8. CASE /\ p = [status |-> "ok", filename |-> line[3], size |-> line[4].num,
                       encrypted |-> flag]
               /\ ~StoullThrows(line[4])
      BY <3>3, <3>5, <3>6, <3>8
    <3> QED BY <3>4, <3>7, <3>8 DEF flag
  <2> QED BY <2>1, <2>2
<1> QED BY <1>4 DEF raw, line

(* A name without colon and newline, and every size, survive the header.   *)
THEOREM FileHeaderRoundTrip ==
  ASSUME NEW h \in FileHeaderRecord, Len(h.filename) = 1, h.filename[1] # Newline
  PROVE  ParseFileHeader(FirstLine(SerializeFileHeader(h))) =
           [status |-> "ok", filename |-> h.filename[1], size |-> h.size,
            encrypted |-> h.encrypted]
<1> DEFINE raw == SerializeFileHeader(h)
           line == FirstLine(raw)
           type == IF h.encrypted THEN FILE_HEADER_ENCRYPTED ELSE FILE_HEADER
<1>1. /\ raw \in Seq(Field) /\ Len(raw) = 5
      /\ raw[1] = Magic /\ raw[2] = Decimal(type) /\ raw[3] = h.filename[1]
      /\ raw[4] = Decimal(h.size) /\ raw[5] = Newline
  <2> DEFINE k == Len(h.filename)
  <2>1. /\ raw \in Seq(Field) /\ Len(raw) = k + 4
        /\ raw[1] = Magic /\ raw[2] = Decimal(type)
        /\ \A i \in 1..k : raw[i + 2] = h.filename[i]
        /\ raw[k + 3] = Decimal(h.size) /\ raw[k + 4] = Newline
    BY SerializedHeader
  <2> HIDE DEF raw, type
  <2>2. k = 1 /\ raw[1 + 2] = h.filename[1]
    BY <2>1
  <2> QED BY <2>1, <2>2
<1> HIDE DEF raw, type
<1>2. \A i \in 1..4 : raw[i] # Newline
  BY <1>1 DEF Magic, Decimal, Newline
<1>3. /\ Len(line) = 4 /\ line \in Seq(Field)
      /\ line[1] = Magic /\ line[2] = Decimal(type) /\ line[3] = h.filename[1]
      /\ line[4] = Decimal(h.size)
  <2>1. PICK cut \in 1..5 : /\ raw[cut] = Newline
                            /\ Len(line) = cut - 1 /\ line \in Seq(Field)
                            /\ \A j \in 1..(cut - 1) : line[j] = raw[j]
    BY <1>1, FirstLineCuts
  <2>2. cut = 5
    BY <1>2, <2>1
  <2> QED BY <1>1, <2>1, <2>2
<1> HIDE DEF line
<1>4. HasFields(line, 4)
  <2>1. line[1].text \in MagicTexts
    BY <1>3 DEF MagicTexts, Magic
  <2>2. line[4] # Empty
    BY <1>3 DEF Decimal, Empty
  <2>3. \A i \in 1..4 : Getline(line, i)
    BY <1>3, <2>2 DEF Getline
  <2> QED BY <2>1, <2>3 DEF HasFields
<1>5. /\ type \in {FILE_HEADER, FILE_HEADER_ENCRYPTED}
      /\ (type = FILE_HEADER_ENCRYPTED) = h.encrypted
  <2>1. h.encrypted \in BOOLEAN
    BY DEF FileHeaderRecord
  <2>2. CASE h.encrypted = TRUE
    BY <2>2 DEF type
  <2>3. CASE h.encrypted = FALSE
    <3>1. type = FILE_HEADER
      BY <2>3 DEF type
    <3>2. type # FILE_HEADER_ENCRYPTED
      BY <3>1 DEF FILE_HEADER, FILE_HEADER_ENCRYPTED
    <3> QED BY <2>3, <3>1, <3>2
  <2> QED BY <2>1, <2>2, <2>3
<1>6. ~StoiThrows(line[2]) /\ line[2].num = type
  <2>1. line[2].num = type
    BY <1>3 DEF Decimal
  <2>2. type \in {2, 6}
    BY <1>5 DEF FILE_HEADER, FILE_HEADER_ENCRYPTED
  <2>3. type # -1 /\ ~(type >= IntLimit)
    <3>1. 6 < IntLimit /\ IntLimit \in Int
      BY ProtocolAssumption, LimitsAssumption DEF FILE_HEADER_ENCRYPTED
    <3> QED BY <2>2, <3>1
  <2> QED BY <2>1, <2>3 DEF StoiThrows
<1>7. ~StoullThrows(line[4]) /\ line[4].num = h.size
  BY <1>3 DEF StoullThrows, Decimal, FileHeaderRecord
<1>8. ParseFileHeader(line) =
        [status |-> "ok", filename |-> h.filename[1], size |-> h.size,
         encrypted |-> h.encrypted]
  <2>1. ParseFileHeader(line) =
          [status |-> "ok", filename |-> line[3], size |-> line[4].num,
           encrypted |-> line[2].num = FILE_HEADER_ENCRYPTED]
    BY <1>4, <1>5, <1>6, <1>7 DEF ParseFileHeader
  <2> QED BY <1>3, <1>5, <1>6, <1>7, <2>1
<1> QED BY <1>8 DEF line, raw
=============================================================================
