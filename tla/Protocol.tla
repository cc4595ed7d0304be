------------------------------ MODULE Protocol ------------------------------
(***************************************************************************)
(* The text messages of protocol.h: the discovery announcement and the     *)
(* header of a file.  A message is the sequence of its colon-separated     *)
(* fields.  Nothing in the code escapes a colon, so a name that contains   *)
(* some is itself a sequence of several fields.  Nor does anything escape   *)
(* a newline, which ends a header; here it is a field of its own.          *)
(*                                                                         *)
(* A field is a text together with the number std::stoi and std::stoull    *)
(* read at its beginning ("30.txt" has 30); NoNumber stands for a text on  *)
(* which they throw.                                                       *)
(***************************************************************************)
EXTENDS Numbers, Sequences

CONSTANT Texts   \* what may stand between two colons

NoNumber == -1

Field == [text : Texts, num : Nat \cup {NoNumber}]

Magic      == [text |-> "UAIRDROP", num |-> NoNumber]
Empty      == [text |-> "empty", num |-> NoNumber]
Newline    == [text |-> "newline", num |-> NoNumber]
Decimal(n) == [text |-> "decimal", num |-> n]

(* The tag, and one longer text the prefix test of the parsers lets by. *)
MagicTexts == {"UAIRDROP", "UAIRDROP2"}

DISCOVERY             == 1
FILE_HEADER           == 2
FILE_HEADER_ENCRYPTED == 6

ASSUME ProtocolAssumption == /\ {"UAIRDROP", "empty", "newline", "decimal"} \subseteq Texts
                             /\ FILE_HEADER_ENCRYPTED < IntLimit

(* What a parser does: it returns false, it throws, or it fills "out". *)
Malformed == [status |-> "malformed"]
Throws    == [status |-> "throws"]

(* The i-th getline(iss, _, ':') succeeds: an empty text at the very end of *)
(* the stream is not a field.                                               *)
Getline(raw, i) == \/ i < Len(raw)
                   \/ i = Len(raw) /\ raw[i] # Empty

HasFields(raw, n) == /\ raw[1].text \in MagicTexts
                     /\ \A i \in 1..n : Getline(raw, i)

StoiThrows(f)   == f.num = NoNumber \/ f.num >= IntLimit
StoullThrows(f) == f.num = NoNumber
-----------------------------------------------------------------------------
SerializeFileHeader(hdr) ==
  <<Magic, Decimal(IF hdr.encrypted THEN FILE_HEADER_ENCRYPTED ELSE FILE_HEADER)>>
    \o hdr.filename \o <<Decimal(hdr.size), Newline>>

(* What a receiver that reads up to the first newline takes for the header. *)
FirstLine(raw) ==
  LET cut == CHOOSE i \in 1..Len(raw) : /\ raw[i] = Newline
                                        /\ \A j \in 1..(i - 1) : raw[j] # Newline
  IN  SubSeq(raw, 1, cut - 1)

ParseFileHeader(raw) ==
  IF ~HasFields(raw, 4) THEN Malformed
  ELSE IF StoiThrows(raw[2]) THEN Throws
  ELSE IF raw[2].num \notin {FILE_HEADER, FILE_HEADER_ENCRYPTED} THEN Malformed
  ELSE IF StoullThrows(raw[4]) THEN Throws
  ELSE [status    |-> "ok",
        filename  |-> raw[3],
        size      |-> raw[4].num,
        encrypted |-> raw[2].num = FILE_HEADER_ENCRYPTED]
-----------------------------------------------------------------------------
SerializeDiscovery(info) ==
  <<Magic, Decimal(DISCOVERY)>> \o info.name \o <<info.os, Decimal(info.tcp_port)>>

ParseDiscovery(raw) ==
  IF ~HasFields(raw, 5) THEN Malformed
  ELSE IF StoiThrows(raw[2]) THEN Throws
  ELSE IF raw[2].num # DISCOVERY THEN Malformed
  ELSE IF StoiThrows(raw[5]) THEN Throws
  ELSE [status   |-> "ok",
        name     |-> raw[3],
        os       |-> raw[4],
        tcp_port |-> ToPort(raw[5].num)]
=============================================================================
