--------------------------- MODULE TransferProofs ---------------------------
(***************************************************************************)
(* Transfer, for every number of calls, every file, every way the stream   *)
(* is cut and every fault: the types, the order of the payload, and that   *)
(* send_file returns true only for a file that was handed over whole.      *)
(***************************************************************************)
EXTENDS Transfer, ProtocolProofs

(* The client's end was closed by something else than a success. *)
Gone(c) == cpc[c] \in {"failed", "thrown", "signalled", "crashed"}
Cut(c)  == rst[c] \/ Gone(c)

(* The stream: nothing is read that was not sent, nothing sent twice; who  *)
(* waits for the response has sent it all.                                 *)
StreamInv(c) ==
  /\ consumed[c] <= sent[c]
  /\ sent[c] > 0 => sent[c] <= StreamLen(c)
  /\ cpc[c] \in {"start", "connect"} => sent[c] = 0 /\ conn[c] = "none"
  /\ cpc[c] \in {"await", "success"} => sent[c] = StreamLen(c)
  /\ cpc[c] \in {"connect", "send"} \/ sent[c] > 0 => PayloadLen(c) \in Nat

(* The handler's receive loops. *)
ReceiveInv(c) ==
  /\ conn[c] \in {"none", "backlog"} => hpc[c] = "none"
  /\ hpc[c] = "none" => consumed[c] = 0
  /\ hpc[c] \in {"none", "header"} => payload[c] = <<>> /\ consumed[c] < HeaderEnd(c)
  /\ payload[c] = Span(HeaderEnd(c), Received(c))
  /\ hpc[c] = "payload" =>
       /\ Header(c).status = "ok"
       /\ consumed[c] >= HeaderEnd(c)
       /\ Received(c) <= Header(c).size
       /\ Received(c) = Header(c).size \/ Received(c) = consumed[c] - HeaderEnd(c)

(* From the file in the handler's hands to the client's success. *)
Clean(c) == WellNamed(c) /\ Fits(c)

AckInv(c) ==
  /\ hpc[c] \in {"none", "header", "payload", "open", "write"} => ~ok[c]
  /\ resp[c] # "none" => hpc[c] = "done"
  /\ resp[c] = "ACK" => ok[c]
  /\ cpc[c] = "success" => resp[c] = "ACK"
  /\ Clean(c) /\ (hpc[c] \in {"open", "write", "flush"} \/ (hpc[c] = "respond" /\ ok[c]))
       => Whole(c) \/ Cut(c)
  /\ Clean(c) /\ resp[c] = "ACK" => Whole(c) \/ Gone(c)

IInv == TypeOK /\ \A c \in Calls : StreamInv(c) /\ ReceiveInv(c) /\ AckInv(c)
-----------------------------------------------------------------------------
(* Lemmas about the operators *)

LEMMA ToIntFacts ==
  ASSUME NEW n \in Nat
  PROVE  /\ ToInt(n) \in Int
         /\ n < IntLimit => ToInt(n) = n
<1>1. IntLimit \in Nat \ {0} /\ 2 * IntLimit \in Nat \ {0}
  BY LimitsAssumption
<1>2. n % (2 * IntLimit) \in 0..(2 * IntLimit - 1)
  BY <1>1
<1>3. n < IntLimit => n % (2 * IntLimit) = n
  BY <1>1
<1> QED BY <1>1, <1>2, <1>3 DEF ToInt

LEMMA FileFacts ==
  ASSUME NEW f \in Files
  PROVE  /\ f.name \in Seq(Field) /\ f.len \in Nat /\ f.name # <<>>
         /\ WireLen(f) \in Int
<1>1. f \in FileRecord /\ f.name # <<>>
  BY TransferAssumption DEF Files
<1>2. f.name \in Seq(Field) /\ f.len \in Nat
  BY <1>1 DEF FileRecord
<1>3. WireLen(f) \in Int
  BY <1>2, ToIntFacts, CryptoAssumption DEF WireLen, SealedLen
<1> QED BY <1>1, <1>2, <1>3

LEMMA HeaderFacts ==
  ASSUME NEW f \in Files, WireLen(f) \in Nat
  PROVE  /\ ParsedHeader[f].status = "ok" =>
              /\ ParsedHeader[f].size \in Nat /\ ParsedHeader[f].encrypted = HasPass(f)
              /\ ParsedHeader[f].filename = f.name[1]
         /\ Len(f.name) = 1 /\ f.name[1] # Newline =>
              ParsedHeader[f] = [status |-> "ok", filename |-> f.name[1],
                                 size |-> WireLen(f), encrypted |-> HasPass(f)]
<1> DEFINE h == [filename |-> f.name, size |-> WireLen(f), encrypted |-> HasPass(f)]
<1>1. h \in FileHeaderRecord
  BY FileFacts DEF FileHeaderRecord, HasPass
<1>2. ParsedHeader[f] = ParseFileHeader(FirstLine(SerializeFileHeader(h)))
  BY DEF ParsedHeader
<1>3. h.filename = f.name /\ h.size = WireLen(f) /\ h.encrypted = HasPass(f)
  OBVIOUS
<1> HIDE DEF h
<1>4. ParsedHeader[f].status = "ok" =>
        /\ ParsedHeader[f].size \in Nat /\ ParsedHeader[f].encrypted = h.encrypted
        /\ ParsedHeader[f].filename = h.filename[1]
  <2>1. h.filename # <<>>
    BY <1>3, FileFacts
  <2> QED BY <1>1, <1>2, <2>1, ParsedHeaderType
<1>5. Len(f.name) = 1 /\ f.name[1] # Newline =>
        ParsedHeader[f] = [status |-> "ok", filename |-> h.filename[1],
                           size |-> h.size, encrypted |-> h.encrypted]
  <2> SUFFICES ASSUME Len(f.name) = 1, f.name[1] # Newline
               PROVE  ParsedHeader[f] = [status |-> "ok", filename |-> h.filename[1],
                                         size |-> h.size, encrypted |-> h.encrypted]
    OBVIOUS
  <2>1. Len(h.filename) = 1 /\ h.filename[1] # Newline
    BY <1>3
  <2> QED BY <1>1, <1>2, <2>1, FileHeaderRoundTrip
<1> QED BY <1>3, <1>4, <1>5

LEMMA SpanFacts ==
  ASSUME NEW a \in Nat, NEW n \in Nat
  PROVE  /\ Span(a, n) \in Seq({p \in Nat : p > a})
         /\ Len(Span(a, n)) = n
         /\ \A i \in 1..n : Span(a, n)[i] = a + i
         /\ n = 0 => Span(a, n) = <<>>
BY DEF Span

LEMMA HeaderEndFacts ==
  ASSUME NEW c \in Calls
  PROVE  /\ HeaderEnd(c) \in Nat \ {0}
         /\ EARLY_LEN <= HeaderEnd(c) /\ HeaderEnd(c) <= HEADER_LEN
         /\ WellNamed(c) => HeaderEnd(c) = HEADER_LEN
BY TransferAssumption DEF HeaderEnd, HasNewline, WellNamed

LEMMA SpanType ==
  ASSUME NEW c \in Calls, NEW n \in Nat
  PROVE  Span(HeaderEnd(c), n) \in Seq({p \in Nat : p > EARLY_LEN})
<1> DEFINE a == HeaderEnd(c)
<1>1. a \in Nat /\ EARLY_LEN \in Nat /\ EARLY_LEN <= a
  BY HeaderEndFacts, TransferAssumption
<1> HIDE DEF a
<1>2. \A i \in 1..n : a + i \in {p \in Nat : p > EARLY_LEN}
  BY <1>1
<1>3. Span(a, n) \in Seq({p \in Nat : p > EARLY_LEN})
  BY <1>2, IsASeq DEF Span
<1> QED BY <1>3 DEF a

LEMMA SpanConcat ==
  ASSUME NEW a \in Nat, NEW m \in Nat, NEW n \in Nat
  PROVE  Span(a, m) \o Span(a + m, n) = Span(a, m + n)
<1> DEFINE s == Span(a, m)  t == Span(a + m, n)  u == Span(a, m + n)
<1>1. s \in Seq(Nat) /\ Len(s) = m /\ \A i \in 1..m : s[i] = a + i
  BY SpanFacts DEF Span
<1>2. t \in Seq(Nat) /\ Len(t) = n /\ \A i \in 1..n : t[i] = a + m + i
  BY SpanFacts DEF Span
<1>3. u \in Seq(Nat) /\ Len(u) = m + n /\ \A i \in 1..(m + n) : u[i] = a + i
  BY SpanFacts DEF Span
<1> HIDE DEF s, t, u
<1>4. /\ s \o t \in Seq(Nat) /\ Len(s \o t) = m + n
      /\ \A i \in 1..(m + n) : (s \o t)[i] = IF i <= m THEN s[i] ELSE t[i - m]
  <2>1. /\ s \o t \in Seq(Nat) /\ Len(s \o t) = Len(s) + Len(t)
        /\ \A i \in 1..(Len(s) + Len(t)) :
             (s \o t)[i] = IF i <= Len(s) THEN s[i] ELSE t[i - Len(s)]
    BY <1>1, <1>2, ConcatProperties
  <2>2. Len(s) = m /\ Len(t) = n
    BY <1>1, <1>2
  <2> QED BY <2>1, <2>2
<1>5. \A i \in 1..(m + n) : (s \o t)[i] = u[i]
  <2> TAKE i \in 1..(m + n)
  <2>1. CASE i <= m
    BY <1>1, <1>3, <1>4, <2>1
  <2>2. CASE ~(i <= m)
    <3>1. i - m \in 1..n
      BY <2>2
    <3>2. t[i - m] = a + m + (i - m)
      BY <1>2, <3>1
    <3>3. (s \o t)[i] = t[i - m]
      BY <1>4, <2>2
    <3> QED BY <1>3, <3>2, <3>3
  <2> QED BY <2>1, <2>2
<1>6. s \o t = u
  BY <1>3, <1>4, <1>5, SeqEqual
<1> QED BY <1>6 DEF s, t, u

LEMMA OverlayType ==
  ASSUME NEW S, NEW new \in Seq(S), NEW old \in Seq(S)
  PROVE  Overlay(new, old) \in Seq(S)
<1>1. Len(new) \in Nat /\ Len(old) \in Nat
  OBVIOUS
<1> DEFINE m == IF Len(new) < Len(old) THEN Len(old) ELSE Len(new)
           e(i) == IF i <= Len(new) THEN new[i] ELSE old[i]
<1>2. m \in Nat
  BY <1>1
<1>3. \A i \in 1..m : e(i) \in S
  BY <1>1, ElementOfSeq
<1>4. Overlay(new, old) = [i \in 1..m |-> e(i)]
  BY DEF Overlay
<1> HIDE DEF m, e
<1>5. [i \in 1..m |-> e(i)] \in Seq(S)
  BY <1>2, <1>3, IsASeq
<1> QED BY <1>4, <1>5

LEMMA ContentsType ==
  ASSUME TypeOK, NEW c \in Calls
  PROVE  Contents(c) \in Seq(Bytes)
<1>1. payload[c] \in Seq({p \in Nat : p > EARLY_LEN}) /\ Received(c) \in Nat
  BY DEF TypeOK, Received
<1>2. Decrypted(c) \in Nat
  BY <1>1, CryptoAssumption DEF Decrypted, OpenedLen
<1> DEFINE e(i) == <<c, i>>
           g(i) == <<c, payload[c][i] - HEADER_LEN>>
<1>3. \A i \in 1..Decrypted(c) : e(i) \in Bytes
  BY <1>2, TransferAssumption DEF Bytes
<1>4. \A i \in 1..Received(c) : g(i) \in Bytes
  <2> TAKE i \in 1..Received(c)
  <2>1. payload[c][i] \in {p \in Nat : p > EARLY_LEN}
    BY <1>1, ElementOfSeq DEF Received
  <2> QED BY <2>1, TransferAssumption DEF Bytes
<1> HIDE DEF e, g
<1>5. [i \in 1..Decrypted(c) |-> e(i)] \in Seq(Bytes)
  BY <1>2, <1>3, IsASeq
<1>6. [i \in 1..Received(c) |-> g(i)] \in Seq(Bytes)
  BY <1>1, <1>4, IsASeq
<1> QED BY <1>5, <1>6 DEF Contents, e, g

(* Writing a beginning of data keeps the directory well-typed. *)
LEMMA PutType ==
  ASSUME TypeOK, NEW c \in Calls, NEW n \in Int, n <= Len(data[c]), Put(c, n)
  PROVE  disk' \in [Names -> Seq(Bytes)]
<1> DEFINE S == Bytes
           new == SubSeq(data[c], 1, n)
<1>1. data[c] \in Seq(S) /\ disk \in [Names -> Seq(S)]
  BY DEF TypeOK
<1> HIDE DEF S
<1>2. new \in Seq(S)
  <2>1. \A i \in 1..n : data[c][i] \in S
    BY <1>1, ElementOfSeq
  <2> QED BY <1>1, <2>1, SubSeqProperties
<1> HIDE DEF new
<1>3. \A m \in Names : Overlay(new, disk[m]) \in Seq(S)
  BY <1>1, <1>2, OverlayType
<1>4. disk' = [disk EXCEPT ![FileName(c)] = Overlay(new, disk[FileName(c)])]
  BY DEF Put, new
<1> QED BY <1>1, <1>3, <1>4 DEF S
-----------------------------------------------------------------------------
(* The invariant *)

LEMMA InitIInv == Init => IInv
<1> SUFFICES ASSUME Init PROVE IInv
  OBVIOUS
<1> USE TransferAssumption DEF Init
<1>1. TypeOK
  BY DEF TypeOK, ActiveHpcs, EndedPcs
<1>2. ASSUME NEW c \in Calls
      PROVE  StreamInv(c) /\ ReceiveInv(c) /\ AckInv(c)
  <2>1. StreamInv(c)
    BY DEF StreamInv
  <2>2. payload[c] = <<>> /\ Received(c) = 0 /\ Span(HeaderEnd(c), 0) = <<>>
    BY SpanFacts, HeaderEndFacts DEF Received
  <2>3. ReceiveInv(c)
    BY <2>2, HeaderEndFacts DEF ReceiveInv
  <2>4. AckInv(c)
    BY DEF AckInv
  <2> QED BY <2>1, <2>3, <2>4
<1> QED BY <1>1, <1>2 DEF IInv

(* Init chooses the files, and no step changes them. *)
LEMMA SameFiles ==
  ASSUME file' = file, NEW c \in Calls
  PROVE  /\ StreamLen(c)' = StreamLen(c) /\ PayloadLen(c)' = PayloadLen(c)
         /\ Header(c)' = Header(c) /\ FileBytes(c)' = FileBytes(c)
         /\ Encrypted(c)' = Encrypted(c) /\ Clean(c)' = Clean(c)
         /\ HeaderEnd(c)' = HeaderEnd(c)
BY DEF HeaderEnd, HasNewline, StreamLen, PayloadLen, WireLen, SealedLen, ToInt, HasPass, Header, FileBytes,
       Encrypted, Clean, WellNamed, Fits

LEMMA StreamLenType ==
  ASSUME TypeOK, NEW c \in Calls
  PROVE  /\ file[c] \in Files /\ PayloadLen(c) \in Int /\ StreamLen(c) \in Int
         /\ StreamLen(c) = HEADER_LEN + PayloadLen(c)
<1>1. file[c] \in Files
  BY DEF TypeOK, Files
<1>2. PayloadLen(c) \in Int
  BY <1>1, FileFacts DEF PayloadLen
<1> QED BY <1>1, <1>2, TransferAssumption DEF StreamLen

(* A step that changes only the client's program counter. *)
OnlyPc(c, pcs) ==
  /\ \E p \in pcs : cpc' = [cpc EXCEPT ![c] = p]
  /\ cpc'[c] = "connect" => PayloadLen(c) \in Nat
  /\ UNCHANGED <<file, sent, srv, conn, rst, handlerVars, disk>>

LEMMA OnlyPcStep ==
  ASSUME IInv, NEW c \in Calls, NEW pcs,
         OnlyPc(c, pcs),
         \/ cpc[c] \in {"start", "connect"} /\ pcs = {"connect", "thrown", "failed"}
         \/ cpc[c] \in {"send", "await"} /\ pcs = {"failed", "thrown", "signalled"}
         \/ cpc[c] = "await" /\ resp[c] = "ACK" /\ pcs = {"success"}
  PROVE  IInv'
<1> USE DEF OnlyPc, handlerVars
<1>1. TypeOK'
  BY DEF IInv, TypeOK, EndedPcs, ActiveHpcs
<1>2. ASSUME NEW d \in Calls
      PROVE  (StreamInv(d) /\ ReceiveInv(d) /\ AckInv(d))'
  <2>1. StreamInv(d) /\ ReceiveInv(d) /\ AckInv(d) /\ TypeOK
    BY DEF IInv
  <2>2. StreamInv(d)'
    <3>1. /\ UNCHANGED <<sent, conn, consumed>> /\ StreamLen(d)' = StreamLen(d) /\ PayloadLen(d)' = PayloadLen(d)
          /\ cpc'[d] = cpc[d] \/ (d = c /\ cpc'[c] \in pcs)
      BY <2>1, SameFiles DEF TypeOK
    <3> QED BY <2>1, <3>1 DEF StreamInv
  <2>3. ReceiveInv(d)'
    BY <2>1, SameFiles DEF ReceiveInv, TypeOK, Received
  <2>4. AckInv(d)'
    BY <2>1, SameFiles DEF AckInv, TypeOK, Whole, Gone, Cut
  <2> QED BY <2>2, <2>3, <2>4
<1> QED BY <1>1, <1>2 DEF IInv

LEMMA ConnectStep ==
  ASSUME IInv, NEW c \in Calls, Connect(c)
  PROVE  IInv'
<1> USE DEF Connect, handlerVars
<1>1. TypeOK'
  BY DEF IInv, TypeOK, EndedPcs, ActiveHpcs
<1>2. ASSUME NEW d \in Calls
      PROVE  (StreamInv(d) /\ ReceiveInv(d) /\ AckInv(d))'
  <2>1. StreamInv(d) /\ ReceiveInv(d) /\ AckInv(d) /\ TypeOK
    BY DEF IInv
  <2>2. StreamInv(d)'
    BY <2>1, SameFiles DEF StreamInv, TypeOK
  <2>3. ReceiveInv(d)'
    <3>1. UNCHANGED <<consumed, payload, hpc, file>> /\ Header(d)' = Header(d) /\ HeaderEnd(d)' = HeaderEnd(d)
      BY SameFiles
    <3>2. d # c => conn'[d] = conn[d]
      BY <2>1 DEF TypeOK
    <3>3. d = c => hpc[d] = "none"
      BY <2>1 DEF StreamInv, ReceiveInv
    <3> QED BY <2>1, <3>1, <3>2, <3>3 DEF ReceiveInv, Received
  <2>4. AckInv(d)'
    BY <2>1, SameFiles DEF AckInv, TypeOK, Whole, Gone, Cut
  <2> QED BY <2>2, <2>3, <2>4
<1> QED BY <1>1, <1>2 DEF IInv

LEMMA SendStep ==
  ASSUME IInv, NEW c \in Calls, NEW n, Send(c, n) \/ SendToClosed(c, n)
  PROVE  IInv'
<1> USE DEF Send, SendToClosed, handlerVars, AfterSend
<1>1. TypeOK'
  <2>1. TypeOK /\ StreamLen(c) \in Int
    BY StreamLenType DEF IInv
  <2>2. n \in Int /\ 1 <= n
    BY <2>1 DEF TypeOK
  <2>3. sent' \in [Calls -> Nat]
    <3>1. sent' = [sent EXCEPT ![c] = sent[c] + n] /\ sent \in [Calls -> Nat]
      BY <2>1 DEF TypeOK
    <3>2. sent[c] + n \in Nat
      BY <2>2, <3>1
    <3> QED BY <3>1, <3>2
  <2>4. rst' \in [Calls -> BOOLEAN]
    BY <2>1 DEF TypeOK
  <2>5. cpc' \in [Calls -> {"start", "connect", "send", "await"} \cup EndedPcs]
    BY <2>1 DEF TypeOK
  <2> QED BY <2>1, <2>3, <2>4, <2>5 DEF TypeOK
<1>2. ASSUME NEW d \in Calls
      PROVE  (StreamInv(d) /\ ReceiveInv(d) /\ AckInv(d))'
  <2>1. StreamInv(d) /\ ReceiveInv(d) /\ AckInv(d) /\ TypeOK
    BY DEF IInv
  <2>2. StreamInv(d)'
    <3>1. UNCHANGED <<conn, consumed>> /\ StreamLen(d)' = StreamLen(d) /\ PayloadLen(d)' = PayloadLen(d)
      BY SameFiles
    <3>2. StreamLen(c) \in Int /\ sent[c] \in Nat /\ consumed[c] \in Nat
      BY <2>1, StreamLenType DEF TypeOK
    <3>3. /\ n \in Int /\ 1 <= n /\ n <= StreamLen(c) - sent[c]
          /\ cpc[c] = "send"
      BY <3>2
    <3>4. CASE d = c
      <4>1. /\ sent'[d] = sent[d] + n
            /\ cpc'[d] = IF sent[d] + n = StreamLen(d) THEN "await" ELSE "send"
        BY <2>1, <3>4 DEF TypeOK
      <4> QED BY <2>1, <3>1, <3>2, <3>3, <3>4, <4>1 DEF StreamInv
    <3>5. CASE d # c
      <4>1. sent'[d] = sent[d] /\ cpc'[d] = cpc[d]
        BY <2>1, <3>5 DEF TypeOK
      <4> QED BY <2>1, <3>1, <4>1 DEF StreamInv
    <3> QED BY <3>4, <3>5
  <2>3. ReceiveInv(d)'
    BY <2>1, SameFiles DEF ReceiveInv, TypeOK, Received
  <2>4. AckInv(d)'
    BY <2>1, SameFiles DEF AckInv, TypeOK, Whole, Gone, Cut
  <2> QED BY <2>2, <2>3, <2>4
<1> QED BY <1>1, <1>2 DEF IInv

LEMMA CrashStep ==
  ASSUME IInv, NEW c \in Calls, NEW mode, ClientCrash(c, mode)
  PROVE  IInv'
<1> USE DEF ClientCrash, handlerVars
<1>1. TypeOK'
  BY DEF IInv, TypeOK, EndedPcs, ActiveHpcs
<1>2. ASSUME NEW d \in Calls
      PROVE  (StreamInv(d) /\ ReceiveInv(d) /\ AckInv(d))'
  <2>1. StreamInv(d) /\ ReceiveInv(d) /\ AckInv(d) /\ TypeOK
    BY DEF IInv
  <2>2. StreamInv(d)'
    BY <2>1, SameFiles DEF StreamInv, TypeOK
  <2>3. ReceiveInv(d)'
    BY <2>1, SameFiles DEF ReceiveInv, TypeOK, Received
  <2>4. AckInv(d)'
    BY <2>1, SameFiles DEF AckInv, TypeOK, Whole, Gone, Cut
  <2> QED BY <2>2, <2>3, <2>4
<1> QED BY <1>1, <1>2 DEF IInv

LEMMA AcceptStep ==
  ASSUME IInv, NEW c \in Calls, Accept(c)
  PROVE  IInv'
<1> USE DEF Accept, clientVars
<1>1. TypeOK'
  BY DEF IInv, TypeOK, EndedPcs, ActiveHpcs
<1>2. ASSUME NEW d \in Calls
      PROVE  (StreamInv(d) /\ ReceiveInv(d) /\ AckInv(d))'
  <2>1. StreamInv(d) /\ ReceiveInv(d) /\ AckInv(d) /\ TypeOK
    BY DEF IInv
  <2>2. StreamInv(d)'
    BY <2>1, SameFiles DEF StreamInv, TypeOK
  <2>3. ReceiveInv(d)'
    BY <2>1, SameFiles DEF ReceiveInv, TypeOK, Received
  <2>4. AckInv(d)'
    <3>1. UNCHANGED <<cpc, rst, data, ok, resp, file>>
          /\ Clean(d)' = Clean(d) /\ FileBytes(d)' = FileBytes(d)
      BY SameFiles
    <3>2. d # c => hpc'[d] = hpc[d]
      BY <2>1 DEF TypeOK
    <3>3. d = c => hpc[d] = "none" /\ hpc'[d] = "header"
      BY <2>1 DEF TypeOK, ReceiveInv
    <3> QED BY <2>1, <3>1, <3>2, <3>3 DEF AckInv, Whole, Gone, Cut
  <2> QED BY <2>2, <2>3, <2>4
<1> QED BY <1>1, <1>2 DEF IInv

LEMMA OpenFileStep ==
  ASSUME IInv, NEW c \in Calls, OpenFile(c) \/ OpenFileFails(c)
  PROVE  IInv'
<1> USE DEF OpenFile, OpenFileFails, clientVars
<1>1. TypeOK'
  <2>1. <<>> \in Seq(Bytes)
    BY EmptySeq
  <2>2. disk' \in [Names -> Seq(Bytes)]
    BY <2>1 DEF IInv, TypeOK
  <2> QED BY <2>2 DEF IInv, TypeOK, EndedPcs, ActiveHpcs
<1>2. ASSUME NEW d \in Calls
      PROVE  (StreamInv(d) /\ ReceiveInv(d) /\ AckInv(d))'
  <2>1. StreamInv(d) /\ ReceiveInv(d) /\ AckInv(d) /\ TypeOK
    BY DEF IInv
  <2>2. StreamInv(d)'
    BY <2>1, SameFiles DEF StreamInv, TypeOK
  <2>3. ReceiveInv(d)'
    BY <2>1, SameFiles DEF ReceiveInv, TypeOK, Received
  <2>4. AckInv(d)'
    BY <2>1, SameFiles DEF AckInv, TypeOK, Whole, Gone, Cut
  <2> QED BY <2>2, <2>3, <2>4
<1> QED BY <1>1, <1>2 DEF IInv

LEMMA RespondStep ==
  ASSUME IInv, NEW c \in Calls, Respond(c)
  PROVE  IInv'
<1> USE DEF Respond, Close, clientVars
<1>1. TypeOK'
  BY DEF IInv, TypeOK, EndedPcs, ActiveHpcs
<1>2. ASSUME NEW d \in Calls
      PROVE  (StreamInv(d) /\ ReceiveInv(d) /\ AckInv(d))'
  <2>1. StreamInv(d) /\ ReceiveInv(d) /\ AckInv(d) /\ TypeOK
    BY DEF IInv
  <2>2. StreamInv(d)'
    <3>1. UNCHANGED <<cpc, sent, consumed>> /\ StreamLen(d)' = StreamLen(d) /\ PayloadLen(d)' = PayloadLen(d)
      BY SameFiles
    <3>2. d # c => conn'[d] = conn[d]
      BY <2>1 DEF TypeOK
    <3>3. d = c => conn[d] # "none"
      BY <2>1 DEF ReceiveInv
    <3> QED BY <2>1, <3>1, <3>2, <3>3 DEF StreamInv
  <2>3. ReceiveInv(d)'
    BY <2>1, SameFiles DEF ReceiveInv, TypeOK, Received
  <2>4. AckInv(d)'
    BY <2>1, SameFiles DEF AckInv, TypeOK, Whole, Gone, Cut
  <2> QED BY <2>2, <2>3, <2>4
<1> QED BY <1>1, <1>2 DEF IInv

LEMMA ServerStartStep ==
  ASSUME IInv, ServerStart
  PROVE  IInv'
<1> USE DEF ServerStart, clientVars, handlerVars
<1>1. TypeOK'
  BY DEF IInv, TypeOK, EndedPcs, ActiveHpcs
<1>2. ASSUME NEW d \in Calls
      PROVE  (StreamInv(d) /\ ReceiveInv(d) /\ AckInv(d))'
  <2>1. StreamInv(d) /\ ReceiveInv(d) /\ AckInv(d) /\ TypeOK
    BY DEF IInv
  <2>2. StreamInv(d)'
    BY <2>1, SameFiles DEF StreamInv, TypeOK
  <2>3. ReceiveInv(d)'
    BY <2>1, SameFiles DEF ReceiveInv, TypeOK, Received
  <2>4. AckInv(d)'
    BY <2>1, SameFiles DEF AckInv, TypeOK, Whole, Gone, Cut
  <2> QED BY <2>2, <2>3, <2>4
<1> QED BY <1>1, <1>2 DEF IInv

LEMMA HeaderEndsStep ==
  ASSUME IInv, NEW c \in Calls, RecvHeaderEnds(c)
  PROVE  IInv'
<1> USE DEF RecvHeaderEnds, Close, clientVars
<1>1. TypeOK'
  BY DEF IInv, TypeOK, EndedPcs, ActiveHpcs
<1>2. ASSUME NEW d \in Calls
      PROVE  (StreamInv(d) /\ ReceiveInv(d) /\ AckInv(d))'
  <2>1. StreamInv(d) /\ ReceiveInv(d) /\ AckInv(d) /\ TypeOK
    BY DEF IInv
  <2>2. StreamInv(d)'
    <3>1. UNCHANGED <<cpc, sent, consumed>> /\ StreamLen(d)' = StreamLen(d) /\ PayloadLen(d)' = PayloadLen(d)
      BY SameFiles
    <3>2. d # c => conn'[d] = conn[d]
      BY <2>1 DEF TypeOK
    <3>3. d = c => conn[d] # "none"
      BY <2>1 DEF ReceiveInv
    <3> QED BY <2>1, <3>1, <3>2, <3>3 DEF StreamInv
  <2>3. ReceiveInv(d)'
    BY <2>1, SameFiles DEF ReceiveInv, TypeOK, Received
  <2>4. AckInv(d)'
    BY <2>1, SameFiles DEF AckInv, TypeOK, Whole, Gone, Cut
  <2> QED BY <2>2, <2>3, <2>4
<1> QED BY <1>1, <1>2 DEF IInv

(* The receiving process dies, perhaps in the middle of a recv(). *)
LEMMA ServerDiesStep ==
  ASSUME IInv, ServerDies, UNCHANGED <<clientVars, payload, data, ok, resp, disk>>,
         consumed' \in [Calls -> Nat],
         \A d \in Calls : /\ consumed'[d] <= sent[d]
                          /\ (consumed'[d] = consumed[d] \/ Handling(d))
  PROVE  IInv'
<1> USE DEF ServerDies, clientVars
<1>1. TypeOK'
  BY DEF IInv, TypeOK, EndedPcs, ActiveHpcs, Handling
<1>2. ASSUME NEW d \in Calls
      PROVE  (StreamInv(d) /\ ReceiveInv(d) /\ AckInv(d))'
  <2>1. StreamInv(d) /\ ReceiveInv(d) /\ AckInv(d) /\ TypeOK
    BY DEF IInv
  <2>2. /\ UNCHANGED <<cpc[d], sent[d], payload[d], data[d], ok[d], resp[d]>>
        /\ rst[d] => rst'[d]
        /\ conn'[d] = IF conn[d] = "none" THEN "none" ELSE "closed"
        /\ hpc'[d] = IF Handling(d) THEN "killed" ELSE hpc[d]
    OBVIOUS
  <2>3. StreamInv(d)'
    BY <2>1, <2>2, SameFiles DEF StreamInv
  <2>4. ReceiveInv(d)'
    BY <2>1, <2>2, SameFiles DEF ReceiveInv, Received, Handling, ActiveHpcs
  <2>5. AckInv(d)'
    BY <2>1, <2>2, SameFiles DEF AckInv, Whole, Gone, Cut, Handling, ActiveHpcs
  <2> QED BY <2>3, <2>4, <2>5
<1> QED BY <1>1, <1>2 DEF IInv

(* Those of its deaths in which no recv() takes part. *)
LEMMA PlainDeathStep ==
  ASSUME IInv, ServerDies, UNCHANGED <<clientVars, consumed, payload, data, ok, resp, disk>>
  PROVE  IInv'
<1>1. /\ consumed' \in [Calls -> Nat]
      /\ \A d \in Calls : consumed'[d] <= sent[d] /\ consumed'[d] = consumed[d]
  BY DEF IInv, TypeOK, StreamInv
<1> QED BY <1>1, ServerDiesStep

(* A recv() that brings n bytes. *)
LEMMA RecvFacts ==
  ASSUME TypeOK, NEW c \in Calls, NEW n, Recv(c, n)
  PROVE  /\ n \in Nat \ {0}
         /\ consumed' = [consumed EXCEPT ![c] = consumed[c] + n]
         /\ consumed[c] + n <= sent[c]
         /\ consumed' \in [Calls -> Nat]
<1>1. consumed[c] \in Nat /\ sent[c] \in Nat /\ consumed \in [Calls -> Nat]
  BY DEF TypeOK
<1>2. n \in Nat \ {0} /\ consumed[c] + n <= sent[c]
  BY <1>1 DEF Recv
<1>3. consumed' = [consumed EXCEPT ![c] = consumed[c] + n]
  BY DEF Recv
<1>4. consumed[c] + n \in Nat
  BY <1>1, <1>2
<1> QED BY <1>1, <1>2, <1>3, <1>4

LEMMA FatalHeaderStep ==
  ASSUME IInv, NEW c \in Calls, NEW n, RecvFatalHeader(c, n)
  PROVE  IInv'
<1>1. Recv(c, n) /\ hpc[c] = "header" /\ TypeOK /\ \A d \in Calls : StreamInv(d)
  BY DEF RecvFatalHeader, HeaderArrives, IInv
<1>2. consumed' \in [Calls -> Nat]
  BY <1>1, RecvFacts
<1>3. ASSUME NEW d \in Calls
      PROVE  consumed'[d] <= sent[d] /\ (consumed'[d] = consumed[d] \/ Handling(d))
  <2>1. CASE d = c
    <3>1. consumed'[d] = consumed[d] + n /\ consumed[d] + n <= sent[d]
      BY <1>1, <2>1, RecvFacts DEF TypeOK
    <3>2. Handling(d)
      BY <1>1, <2>1 DEF Handling, ActiveHpcs
    <3> QED BY <3>1, <3>2
  <2>2. CASE d # c
    <3>1. consumed'[d] = consumed[d]
      BY <1>1, <2>2, RecvFacts DEF TypeOK
    <3> QED BY <1>1, <3>1 DEF StreamInv
  <2> QED BY <2>1, <2>2
<1> QED BY <1>2, <1>3, ServerDiesStep DEF RecvFatalHeader

LEMMA HeaderPartStep ==
  ASSUME IInv, NEW c \in Calls, NEW n, RecvHeaderPart(c, n)
  PROVE  IInv'
<1> USE DEF RecvHeaderPart, clientVars
<1>1. TypeOK'
  BY RecvFacts DEF IInv, TypeOK, ActiveHpcs
<1>2. ASSUME NEW d \in Calls
      PROVE  (StreamInv(d) /\ ReceiveInv(d) /\ AckInv(d))'
  <2>1. StreamInv(d) /\ ReceiveInv(d) /\ AckInv(d) /\ TypeOK
    BY DEF IInv
  <2>2. StreamInv(d)'
    <3>1. UNCHANGED <<cpc, sent>> /\ StreamLen(d)' = StreamLen(d) /\ PayloadLen(d)' = PayloadLen(d)
      BY SameFiles
    <3>2. consumed'[d] <= sent[d]
      BY <2>1, RecvFacts DEF StreamInv, TypeOK
    <3>3. conn'[d] = conn[d] \/ conn[d] # "none"
      BY <2>1 DEF TypeOK, ReceiveInv
    <3> QED BY <2>1, <3>1, <3>2, <3>3 DEF StreamInv
  <2>3. ReceiveInv(d)'
    <3>1. /\ UNCHANGED <<conn, hpc, payload>>
          /\ Header(d)' = Header(d) /\ HeaderEnd(d)' = HeaderEnd(d)
      BY SameFiles
    <3>2. d # c => consumed'[d] = consumed[d]
      BY <2>1, RecvFacts DEF TypeOK
    <3>3. d = c => /\ hpc[d] = "header" /\ consumed'[d] < HeaderEnd(d)
                   /\ conn[d] \notin {"none", "backlog"}
      BY <2>1, RecvFacts DEF TypeOK, ReceiveInv
    <3> QED BY <2>1, <3>1, <3>2, <3>3 DEF ReceiveInv, Received
  <2>4. AckInv(d)'
    BY <2>1, SameFiles DEF AckInv, TypeOK, Whole, Gone, Cut
  <2> QED BY <2>2, <2>3, <2>4
<1> QED BY <1>1, <1>2 DEF IInv

LEMMA BadHeaderStep ==
  ASSUME IInv, NEW c \in Calls, NEW n, RecvBadHeader(c, n)
  PROVE  IInv'
<1> USE DEF RecvBadHeader, HeaderArrives, Close, clientVars
<1>1. TypeOK'
  BY RecvFacts DEF IInv, TypeOK, ActiveHpcs
<1>2. ASSUME NEW d \in Calls
      PROVE  (StreamInv(d) /\ ReceiveInv(d) /\ AckInv(d))'
  <2>1. StreamInv(d) /\ ReceiveInv(d) /\ AckInv(d) /\ TypeOK
    BY DEF IInv
  <2>2. StreamInv(d)'
    <3>1. UNCHANGED <<cpc, sent>> /\ StreamLen(d)' = StreamLen(d) /\ PayloadLen(d)' = PayloadLen(d)
      BY SameFiles
    <3>2. consumed'[d] <= sent[d]
      BY <2>1, RecvFacts DEF StreamInv, TypeOK
    <3>3. conn'[d] = conn[d] \/ conn[d] # "none"
      BY <2>1 DEF TypeOK, ReceiveInv
    <3> QED BY <2>1, <3>1, <3>2, <3>3 DEF StreamInv
  <2>3. ReceiveInv(d)'
    BY <2>1, SameFiles, RecvFacts DEF ReceiveInv, TypeOK, Received
  <2>4. AckInv(d)'
    BY <2>1, SameFiles DEF AckInv, TypeOK, Whole, Gone, Cut
  <2> QED BY <2>2, <2>3, <2>4
<1> QED BY <1>1, <1>2 DEF IInv
-----------------------------------------------------------------------------
(* The steps of the payload *)

(* What was sent has a payload of a sensible length. *)
LEMMA SentHeader ==
  ASSUME TypeOK, NEW c \in Calls, StreamInv(c), sent[c] > 0
  PROVE  /\ PayloadLen(c) \in Nat
         /\ Header(c).status = "ok" =>
              /\ Header(c).size \in Nat /\ Header(c).encrypted = Encrypted(c)
              /\ FileName(c) = file[c].name[1]
         /\ WellNamed(c) =>
              Header(c) = [status |-> "ok", filename |-> file[c].name[1],
                           size |-> PayloadLen(c), encrypted |-> Encrypted(c)]
<1>1. /\ file[c] \in Files /\ StreamLen(c) = HEADER_LEN + PayloadLen(c)
      /\ PayloadLen(c) \in Int
  BY StreamLenType
<1>2. PayloadLen(c) \in Nat
  BY DEF StreamInv
<1> QED BY <1>1, <1>2, HeaderFacts DEF PayloadLen, Header, FileName, Encrypted, WellNamed

LEMMA HeaderStep ==
  ASSUME IInv, NEW c \in Calls, NEW n, RecvHeader(c, n)
  PROVE  IInv'
<1> USE DEF RecvHeader, HeaderArrives, clientVars
<1> DEFINE size == Header(c).size
           overflow == consumed[c] + n - HeaderEnd(c)
           k == IF overflow < size THEN overflow ELSE size
<1>1. /\ n \in Nat \ {0} /\ consumed' = [consumed EXCEPT ![c] = consumed[c] + n]
      /\ consumed[c] + n <= sent[c] /\ consumed' \in [Calls -> Nat]
      /\ consumed[c] \in Nat /\ sent[c] \in Nat /\ consumed[c] + n >= HeaderEnd(c)
      /\ consumed'[c] = consumed[c] + n
      /\ HeaderEnd(c) \in Nat \ {0}
      /\ sent[c] > 0
  BY RecvFacts, HeaderEndFacts DEF IInv, TypeOK
<1>2. size \in Nat /\ Header(c).status = "ok"
  BY <1>1, SentHeader DEF IInv
<1> HIDE DEF size
<1>3. k \in Nat /\ k <= size /\ (k = size \/ k = consumed'[c] - HeaderEnd(c))
  BY <1>1, <1>2
<1>4. payload' = [payload EXCEPT ![c] = Span(HeaderEnd(c), k)]
  BY DEF FirstPayload, size
<1> HIDE DEF k
<1>5. payload'[c] = Span(HeaderEnd(c), k) /\ Received(c)' = k
  <2>1. Len(Span(HeaderEnd(c), k)) = k
    BY ONLY <1>1, <1>3, SpanFacts
  <2>2. payload'[c] = Span(HeaderEnd(c), k)
    BY <1>4 DEF IInv, TypeOK
  <2> QED BY <2>1, <2>2 DEF Received
<1>6. TypeOK'
  <2>1. payload' \in [Calls -> Seq({p \in Nat : p > EARLY_LEN})]
    <3>1. Span(HeaderEnd(c), k) \in Seq({p \in Nat : p > EARLY_LEN})
      BY ONLY <1>3, SpanType
    <3>2. payload \in [Calls -> Seq({p \in Nat : p > EARLY_LEN})]
      BY DEF IInv, TypeOK
    <3> HIDE DEF RecvHeader
    <3> QED BY <1>4, <3>1, <3>2
  <2> QED BY <1>1, <2>1 DEF IInv, TypeOK, ActiveHpcs
<1>7. ASSUME NEW d \in Calls
      PROVE  (StreamInv(d) /\ ReceiveInv(d) /\ AckInv(d))'
  <2>1. StreamInv(d) /\ ReceiveInv(d) /\ AckInv(d) /\ TypeOK
    BY DEF IInv
  <2>2. StreamInv(d)'
    <3>1. UNCHANGED <<cpc, sent, conn>> /\ StreamLen(d)' = StreamLen(d) /\ PayloadLen(d)' = PayloadLen(d)
      BY SameFiles
    <3>2. consumed'[d] <= sent[d]
      BY <1>1, <2>1 DEF StreamInv, TypeOK
    <3> QED BY <2>1, <3>1, <3>2 DEF StreamInv
  <2>3. ReceiveInv(d)'
    <3>1. UNCHANGED conn /\ Header(d)' = Header(d) /\ HeaderEnd(d)' = HeaderEnd(d)
      BY SameFiles
    <3>2. CASE d = c
      <4>1. hpc'[d] = "payload" /\ conn[d] \notin {"none", "backlog"}
        BY <2>1, <3>2 DEF TypeOK, ReceiveInv
      <4> QED BY <1>1, <1>2, <1>3, <1>5, <3>1, <3>2, <4>1 DEF ReceiveInv, size
    <3>3. CASE d # c
      <4>1. /\ hpc'[d] = hpc[d] /\ consumed'[d] = consumed[d] /\ payload'[d] = payload[d]
        BY <1>1, <1>4, <2>1, <3>3 DEF TypeOK
      <4> QED BY <2>1, <3>1, <4>1 DEF ReceiveInv, Received
    <3> QED BY <3>2, <3>3
  <2>4. AckInv(d)'
    BY <2>1, SameFiles DEF AckInv, TypeOK, Whole, Gone, Cut
  <2> QED BY <2>2, <2>3, <2>4
<1> QED BY <1>6, <1>7 DEF IInv

LEMMA PayloadStep ==
  ASSUME IInv, NEW c \in Calls, NEW n, RecvPayload(c, n)
  PROVE  IInv'
<1> USE DEF RecvPayload, clientVars
<1> DEFINE size == Header(c).size
           k == Received(c)
<1>1. /\ n \in Nat \ {0} /\ consumed' = [consumed EXCEPT ![c] = consumed[c] + n]
      /\ consumed[c] + n <= sent[c] /\ consumed' \in [Calls -> Nat]
      /\ consumed[c] \in Nat /\ sent[c] \in Nat
      /\ consumed'[c] = consumed[c] + n
      /\ HeaderEnd(c) \in Nat \ {0}
      /\ sent[c] > 0
  BY RecvFacts, HeaderEndFacts DEF IInv, TypeOK
<1>2. /\ hpc[c] = "payload" /\ consumed[c] >= HeaderEnd(c) /\ Header(c).status = "ok"
      /\ k <= size /\ (k = size \/ k = consumed[c] - HeaderEnd(c))
      /\ payload[c] = Span(HeaderEnd(c), k)
      /\ k \in Nat
  BY DEF IInv, TypeOK, ReceiveInv, Received
<1>3. size \in Nat
  BY <1>1, <1>2, SentHeader DEF IInv
<1>4. n <= size - k
  OBVIOUS
<1> HIDE DEF size, k
<1>5. k = consumed[c] - HeaderEnd(c) /\ HeaderEnd(c) + k = consumed[c]
  BY <1>1, <1>2, <1>3, <1>4
<1>6. payload'[c] = Span(HeaderEnd(c), k + n)
  <2>1. payload'[c] = payload[c] \o Span(consumed[c], n)
    BY DEF IInv, TypeOK
  <2>2. Span(HeaderEnd(c), k) \o Span(HeaderEnd(c) + k, n) = Span(HeaderEnd(c), k + n)
    <3>1. HeaderEnd(c) \in Nat /\ k \in Nat /\ n \in Nat
      BY <1>1, <1>2
    <3> QED BY ONLY <3>1, SpanConcat
  <2> QED BY <1>2, <1>5, <2>1, <2>2
<1>7. payload' = [payload EXCEPT ![c] = Span(HeaderEnd(c), k + n)]
  BY <1>6 DEF IInv, TypeOK
<1>8. Received(c)' = k + n
  <2>1. HeaderEnd(c) \in Nat /\ k + n \in Nat
    BY <1>1, <1>2
  <2>2. Len(Span(HeaderEnd(c), k + n)) = k + n
    BY ONLY <2>1, SpanFacts
  <2> QED BY <1>6, <2>2 DEF Received
<1>9. TypeOK'
  <2>1. payload' \in [Calls -> Seq({p \in Nat : p > EARLY_LEN})]
    <3>1. k + n \in Nat
      BY <1>1, <1>2
    <3>2. Span(HeaderEnd(c), k + n) \in Seq({p \in Nat : p > EARLY_LEN})
      BY ONLY <3>1, SpanType
    <3>3. payload \in [Calls -> Seq({p \in Nat : p > EARLY_LEN})]
      BY DEF IInv, TypeOK
    <3> QED BY ONLY <1>7, <3>2, <3>3
  <2> QED BY <1>1, <2>1 DEF IInv, TypeOK, ActiveHpcs
<1>10. ASSUME NEW d \in Calls
       PROVE  (StreamInv(d) /\ ReceiveInv(d) /\ AckInv(d))'
  <2>1. StreamInv(d) /\ ReceiveInv(d) /\ AckInv(d) /\ TypeOK
    BY DEF IInv
  <2>2. StreamInv(d)'
    <3>1. UNCHANGED <<cpc, sent, conn>> /\ StreamLen(d)' = StreamLen(d) /\ PayloadLen(d)' = PayloadLen(d)
      BY SameFiles
    <3>2. consumed'[d] <= sent[d]
      BY <1>1, <2>1 DEF StreamInv, TypeOK
    <3> QED BY <2>1, <3>1, <3>2 DEF StreamInv
  <2>3. ReceiveInv(d)'
    <3>1. UNCHANGED <<conn, hpc>> /\ Header(d)' = Header(d) /\ HeaderEnd(d)' = HeaderEnd(d)
      BY SameFiles
    <3>2. CASE d = c
      <4>1. conn[d] \notin {"none", "backlog"}
        BY <1>2, <2>1, <3>2 DEF ReceiveInv
      <4>2. k + n <= size /\ k + n = consumed'[c] - HeaderEnd(c) /\ consumed'[c] >= HeaderEnd(c)
        BY ONLY <1>1, <1>2, <1>3, <1>4, <1>5
      <4> QED BY <1>2, <1>6, <1>8, <3>1, <3>2, <4>1, <4>2 DEF ReceiveInv, size
    <3>3. CASE d # c
      <4>1. consumed'[d] = consumed[d] /\ payload'[d] = payload[d]
        BY <1>1, <1>7, <2>1, <3>3 DEF TypeOK
      <4> QED BY <2>1, <3>1, <4>1 DEF ReceiveInv, Received
    <3> QED BY <3>2, <3>3
  <2>4. AckInv(d)'
    BY <2>1, SameFiles DEF AckInv, TypeOK, Whole, Gone, Cut
  <2> QED BY <2>2, <2>3, <2>4
<1> QED BY <1>9, <1>10 DEF IInv

(* What the handler passes to write_file: of an encrypted file, all of it  *)
(* and with the sender's passphrase.                                       *)
LEMMA SealedIsWhole ==
  ASSUME TypeOK, NEW c \in Calls, StreamInv(c), ReceiveInv(c), hpc[c] = "payload",
         Encrypted(c), Fits(c), ~Rejected(c)
  PROVE  Contents(c) = FileBytes(c) /\ ServerPass = file[c].pass
<1>1. /\ consumed[c] \in Nat /\ sent[c] \in Nat /\ HEADER_LEN \in Nat \ {0}
      /\ consumed[c] >= HeaderEnd(c) /\ HeaderEnd(c) \in Nat \ {0} /\ consumed[c] <= sent[c]
      /\ Header(c).status = "ok"
  BY TransferAssumption, HeaderEndFacts DEF TypeOK, StreamInv, ReceiveInv
<1>2. Header(c).encrypted = Encrypted(c) /\ PayloadLen(c) \in Nat
  <2>1. sent[c] > 0
    BY <1>1
  <2> QED BY <1>1, <2>1, SentHeader
<1>3. file[c].len \in Nat /\ file[c].len < IntLimit
  BY StreamLenType, FileFacts DEF Fits
<1>4. PayloadLen(c) = SALT_LEN + AES_IV_LEN + file[c].len + AES_TAG_LEN
  BY <1>3, ToIntFacts DEF PayloadLen, WireLen, SealedLen, Encrypted
<1>5. Decrypted(c) # 0
  BY <1>2 DEF Rejected
<1>6. Authentic(c) /\ Decrypted(c) = Received(c) - (SALT_LEN + AES_IV_LEN) - AES_TAG_LEN
  BY <1>5 DEF Decrypted, OpenedLen
<1>7. Received(c) = PayloadLen(c)
  <2>1. payload[c] = Span(HEADER_LEN, PayloadLen(c))
    BY <1>6 DEF Authentic
  <2>2. Len(Span(HEADER_LEN, PayloadLen(c))) = PayloadLen(c)
    BY <1>1, <1>2, SpanFacts
  <2> QED BY <2>1, <2>2 DEF Received
<1>8. Decrypted(c) = file[c].len
  <2> DEFINE l == file[c].len  p == PayloadLen(c)  r == Received(c)  e == Decrypted(c)
  <2>1. /\ l \in Nat /\ p = SALT_LEN + AES_IV_LEN + l + AES_TAG_LEN /\ r = p
        /\ e = r - (SALT_LEN + AES_IV_LEN) - AES_TAG_LEN
    BY <1>3, <1>4, <1>6, <1>7
  <2>2. SALT_LEN \in Nat /\ AES_IV_LEN \in Nat /\ AES_TAG_LEN \in Nat
    BY CryptoAssumption
  <2> HIDE DEF l, p, r, e
  <2>3. e = l
    BY ONLY <2>1, <2>2
  <2> QED BY <2>3 DEF e, l
<1> QED BY <1>2, <1>6, <1>8 DEF Contents, FileBytes, Authentic

(* Of a plain file, all of it or what came before the stream ended. *)
LEMMA PlainIsWholeOrCut ==
  ASSUME TypeOK, NEW c \in Calls, StreamInv(c), ReceiveInv(c), AckInv(c),
         hpc[c] = "payload", ~Encrypted(c), WellNamed(c),
         Received(c) >= Header(c).size \/ StreamEnded(c)
  PROVE  Contents(c) = FileBytes(c) \/ Cut(c)
<1>1. /\ consumed[c] \in Nat /\ sent[c] \in Nat /\ HEADER_LEN \in Nat \ {0}
      /\ HeaderEnd(c) = HEADER_LEN
      /\ consumed[c] >= HEADER_LEN /\ consumed[c] <= sent[c] /\ sent[c] > 0
      /\ Received(c) \in Nat /\ Received(c) <= Header(c).size
      /\ payload[c] = Span(HEADER_LEN, Received(c))
  BY TransferAssumption, HeaderEndFacts DEF TypeOK, StreamInv, ReceiveInv, Received
<1>2. ~Header(c).encrypted /\ Header(c).size = PayloadLen(c) /\ PayloadLen(c) \in Nat
  BY <1>1, SentHeader
<1>3. PayloadLen(c) = file[c].len
  BY DEF PayloadLen, WireLen, Encrypted
<1>4. CASE StreamEnded(c)
  <2>1. cpc[c] # "success"
    BY DEF AckInv
  <2> QED BY <1>4, <2>1 DEF StreamEnded, ClientClosed, Ended, EndedPcs, Cut, Gone
<1>5. CASE Received(c) >= Header(c).size
  <2>1. Received(c) = file[c].len
    BY <1>1, <1>2, <1>3, <1>5
  <2>2. \A i \in 1..file[c].len : payload[c][i] - HEADER_LEN = i
    <3>1. \A i \in 1..Received(c) : payload[c][i] = HEADER_LEN + i
      <4>1. HEADER_LEN \in Nat /\ Received(c) \in Nat /\ payload[c] = Span(HEADER_LEN, Received(c))
        BY <1>1
      <4> QED BY ONLY <4>1, SpanFacts
    <3> QED BY <1>1, <2>1, <3>1
  <2> QED BY <1>2, <2>1, <2>2 DEF Contents, FileBytes
<1> QED BY <1>4, <1>5

LEMMA PayloadEndsStep ==
  ASSUME IInv, NEW c \in Calls, PayloadEnds(c)
  PROVE  IInv'
<1> USE DEF PayloadEnds, clientVars
<1>1. TypeOK'
  <2>1. data' \in [Calls -> Seq(Bytes)]
    BY ContentsType DEF IInv, TypeOK
  <2> QED BY <2>1 DEF IInv, TypeOK, ActiveHpcs
<1>2. ASSUME NEW d \in Calls
      PROVE  (StreamInv(d) /\ ReceiveInv(d) /\ AckInv(d))'
  <2>1. StreamInv(d) /\ ReceiveInv(d) /\ AckInv(d) /\ TypeOK
    BY DEF IInv
  <2>2. StreamInv(d)'
    BY <2>1, SameFiles DEF StreamInv, TypeOK
  <2>3. ReceiveInv(d)'
    BY <2>1, SameFiles DEF ReceiveInv, TypeOK, Received
  <2>4. AckInv(d)'
    <3>1. /\ UNCHANGED <<cpc, rst, ok, resp>>
          /\ Clean(d)' = Clean(d) /\ FileBytes(d)' = FileBytes(d)
      BY SameFiles
    <3>2. CASE d # c
      <4>1. hpc'[d] = hpc[d] /\ data'[d] = data[d]
        BY <2>1, <3>2 DEF TypeOK
      <4> QED BY <2>1, <3>1, <4>1 DEF AckInv, Whole, Gone, Cut
    <3>3. CASE d = c
      <4>1. /\ hpc[d] = "payload" /\ ~ok[d] /\ resp[d] = "none"
            /\ cpc[d] # "success"
        BY <2>1, <3>3 DEF AckInv, TypeOK
      <4>2. CASE Rejected(d)
        <5>1. hpc'[d] = "respond"
          BY <2>1, <3>3, <4>2 DEF TypeOK
        <5> QED BY <2>1, <3>1, <4>1, <5>1 DEF AckInv
      <4>3. CASE ~Rejected(d)
        <5>1. hpc'[d] = "open" /\ data'[d] = Contents(d)
          BY <2>1, <3>3, <4>3 DEF TypeOK
        <5>2. Clean(d) => Contents(d) = FileBytes(d) \/ Cut(d)
          BY <2>1, <3>3, <4>1, <4>3, SealedIsWhole, PlainIsWholeOrCut DEF Clean
        <5>3. Clean(d) => Whole(d)' \/ Cut(d)'
          BY <3>1, <5>1, <5>2 DEF Whole, Cut, Gone
        <5> QED BY <2>1, <3>1, <4>1, <5>1, <5>3 DEF AckInv
      <4> QED BY <4>2, <4>3
    <3> QED BY <3>2, <3>3
  <2> QED BY <2>2, <2>3, <2>4
<1> QED BY <1>1, <1>2 DEF IInv

(* The steps of write_file, once the file is open. *)
LEMMA WriteSteps ==
  ASSUME IInv, NEW c \in Calls,
         \/ WriteFile(c) \/ WriteFileFails(c) \/ BufferFile(c)
         \/ FlushFile(c) \/ FlushFileFails(c)
  PROVE  IInv'
<1> USE DEF WriteFile, WriteFileFails, BufferFile, FlushFile, FlushFileFails, clientVars
<1>1. disk' \in [Names -> Seq(Bytes)]
  <2>1. TypeOK /\ Len(data[c]) \in Nat
    <3>1. TypeOK /\ data[c] \in Seq(Bytes)
      BY DEF IInv, TypeOK
    <3> QED BY ONLY <3>1, LenProperties
  <2>2. disk' = disk \/ \E n \in Int : n <= Len(data[c]) /\ Put(c, n)
    BY <2>1
  <2> QED BY <2>1, <2>2, PutType DEF TypeOK
<1>2. /\ UNCHANGED <<clientVars, srv, conn, rst, consumed, payload, data, resp>>
      /\ \/ /\ hpc[c] = "write" /\ \E p \in {"flush", "respond"} : hpc' = [hpc EXCEPT ![c] = p]
            /\ ok' = [ok EXCEPT ![c] = TRUE] \/ (ok' = ok /\ hpc' = [hpc EXCEPT ![c] = "respond"])
         \/ /\ hpc[c] = "flush" /\ hpc' = [hpc EXCEPT ![c] = "respond"]
            /\ ok' = ok
  OBVIOUS
<1>3. TypeOK'
  BY <1>1, <1>2 DEF IInv, TypeOK, ActiveHpcs
<1>4. ASSUME NEW d \in Calls
      PROVE  (StreamInv(d) /\ ReceiveInv(d) /\ AckInv(d))'
  <2> HIDE DEF WriteFile, WriteFileFails, BufferFile, FlushFile, FlushFileFails
  <2>1. StreamInv(d) /\ ReceiveInv(d) /\ AckInv(d) /\ TypeOK
    BY DEF IInv
  <2>2. StreamInv(d)'
    BY <1>2, <2>1, SameFiles DEF StreamInv, TypeOK
  <2>3. ReceiveInv(d)'
    BY <1>2, <2>1, SameFiles DEF ReceiveInv, TypeOK, Received
  <2>4. AckInv(d)'
    BY <1>2, <2>1, SameFiles DEF AckInv, TypeOK, Whole, Gone, Cut
  <2> QED BY <2>2, <2>3, <2>4
<1> QED BY <1>3, <1>4 DEF IInv

(* Every step of the client, of a handler and of the receiving process. *)
LEMMA ClientStepIInv ==
  ASSUME IInv, NEW c \in Calls, ClientStep(c)
  PROVE  IInv'
<1>1. CASE ReadFile(c) \/ ReadFileFails(c) \/ ConnectFails(c)
  <2> DEFINE pcs == {"connect", "thrown", "failed"}
  <2>1. OnlyPc(c, pcs) /\ cpc[c] \in {"start", "connect"}
    <3>1. cpc'[c] = "connect" => ReadFile(c) /\ ~(Encrypted(c) /\ EncryptThrows(file[c].len))
      BY <1>1 DEF ReadFile, ReadFileFails, ConnectFails, IInv, TypeOK
    <3>2. ~(Encrypted(c) /\ EncryptThrows(file[c].len)) => PayloadLen(c) \in Nat
      <4>1. file[c].len \in Nat
        BY StreamLenType, FileFacts DEF IInv
      <4>2. ToInt(file[c].len) \in Int
        BY <4>1, ToIntFacts
      <4> QED BY <4>1, <4>2, CryptoAssumption
              DEF PayloadLen, WireLen, SealedLen, Encrypted, EncryptThrows
    <3>3. \E p \in pcs : cpc' = [cpc EXCEPT ![c] = p]
      BY <1>1 DEF ReadFile, ReadFileFails, ConnectFails
    <3> QED BY <1>1, <3>1, <3>2, <3>3 DEF ReadFile, ReadFileFails, ConnectFails, OnlyPc
  <2> QED BY <2>1, OnlyPcStep
<1>2. CASE SendFails(c) \/ SendSignals(c) \/ RecvPart(c) \/ RecvEnd(c) \/ RecvError(c)
  <2> DEFINE pcs == {"failed", "thrown", "signalled"}
  <2>1. OnlyPc(c, pcs) /\ cpc[c] \in {"send", "await"}
    BY <1>2 DEF SendFails, SendSignals, RecvPart, RecvEnd, RecvError, OnlyPc, IInv, TypeOK
  <2> QED BY <2>1, OnlyPcStep
<1>3. CASE RecvResponse(c)
  <2>1. CASE resp[c] = "ACK"
    <3>1. OnlyPc(c, {"success"}) /\ cpc[c] = "await"
      BY <1>3, <2>1 DEF RecvResponse, OnlyPc
    <3> QED BY <2>1, <3>1, OnlyPcStep
  <2>2. CASE resp[c] # "ACK"
    <3> DEFINE pcs == {"failed", "thrown", "signalled"}
    <3>1. OnlyPc(c, pcs) /\ cpc[c] \in {"send", "await"}
      BY <1>3, <2>2 DEF RecvResponse, OnlyPc
    <3> QED BY <3>1, OnlyPcStep
  <2> QED BY <2>1, <2>2
<1>4. CASE \E n \in 1..StreamLen(c) : Send(c, n) \/ SendToClosed(c, n)
  BY <1>4, SendStep
<1> QED BY <1>1, <1>2, <1>3, <1>4, ConnectStep DEF ClientStep

LEMMA HandlerStepIInv ==
  ASSUME IInv, NEW c \in Calls, HandlerStep(c)
  PROVE  IInv'
<1>1. CASE CreateDirThrows(c) \/ RespondSignals(c)
  BY <1>1, PlainDeathStep DEF CreateDirThrows, RespondSignals
<1>2. CASE \E n \in 1..RECV_BUF : \/ RecvHeaderPart(c, n) \/ RecvHeader(c, n)
                                  \/ RecvBadHeader(c, n) \/ RecvFatalHeader(c, n)
                                  \/ RecvPayload(c, n)
  BY <1>2, HeaderPartStep, HeaderStep, BadHeaderStep, FatalHeaderStep, PayloadStep
<1> QED BY <1>1, <1>2, HeaderEndsStep, PayloadEndsStep, OpenFileStep, WriteSteps,
           RespondStep DEF HandlerStep

LEMMA StutterIInv ==
  ASSUME IInv, UNCHANGED vars
  PROVE  IInv'
<1> USE DEF vars, clientVars, handlerVars
<1>1. TypeOK'
  BY DEF IInv, TypeOK
<1>2. ASSUME NEW d \in Calls
      PROVE  (StreamInv(d) /\ ReceiveInv(d) /\ AckInv(d))'
  <2>1. StreamInv(d) /\ ReceiveInv(d) /\ AckInv(d) /\ TypeOK
    BY DEF IInv
  <2>2. StreamInv(d)'
    BY <2>1, SameFiles DEF StreamInv
  <2>3. ReceiveInv(d)'
    BY <2>1, SameFiles DEF ReceiveInv, Received
  <2>4. AckInv(d)'
    BY <2>1, SameFiles DEF AckInv, Whole, Gone, Cut
  <2> QED BY <2>2, <2>3, <2>4
<1> QED BY <1>1, <1>2 DEF IInv

LEMMA NextIInv == IInv /\ [Next]_vars => IInv'
<1> SUFFICES ASSUME IInv, [Next]_vars PROVE IInv'
  OBVIOUS
<1>1. CASE ServerExit
  BY <1>1, PlainDeathStep DEF ServerExit
<1> QED BY <1>1, ClientStepIInv, CrashStep, AcceptStep, HandlerStepIInv, ServerStartStep,
           StutterIInv DEF Next

THEOREM Invariance == Spec => []IInv
BY InitIInv, NextIInv, PTL DEF Spec
-----------------------------------------------------------------------------
(* What it implies *)

(* Every variable keeps its type: the receive directory holds bytes of     *)
(* files that were sent, the payload positions behind the header.          *)
THEOREM TypeCorrect == Spec => []TypeOK
<1>1. IInv => TypeOK
  BY DEF IInv
<1> QED BY <1>1, Invariance, PTL

(* However recv() cuts the stream, the payload is received in order, none  *)
(* missing and none twice, also what arrives together with the header.     *)
THEOREM InOrder == Spec => []PayloadInOrder
<1>1. IInv => PayloadInOrder
  BY DEF IInv, ReceiveInv, PayloadInOrder
<1> QED BY <1>1, Invariance, PTL

(* send_file returns true only for a file that the handler had whole and   *)
(* for which write_file returned true, whatever crashes or is reset.       *)
THEOREM Delivered == Spec => []SuccessMeansDelivered
<1>1. IInv => SuccessMeansDelivered
  BY DEF IInv, AckInv, SuccessMeansDelivered, Clean, Gone
<1> QED BY <1>1, Invariance, PTL

(* Client and handler wait for each other only when a colon or a newline   *)
(* in the name made the header announce more than was sent: when the       *)
(* client waits and all it sent is read, the handler has either what the   *)
(* header told or everything behind its first newline, and a name with     *)
(* neither makes the header tell exactly what is sent.                     *)
THEOREM NoDeadlyEmbrace == Spec => []NoMutualWait
<1>1. IInv => NoMutualWait
  <2> SUFFICES ASSUME IInv, NEW c \in Calls, WaitForEachOther(c)
               PROVE  ~WellNamed(c) /\ Header(c).size > StreamLen(c) - HeaderEnd(c)
    BY DEF NoMutualWait
  <2>1. StreamInv(c) /\ ReceiveInv(c) /\ TypeOK
    BY DEF IInv
  <2>2. /\ cpc[c] = "await" /\ hpc[c] = "payload" /\ consumed[c] = sent[c]
        /\ Received(c) < Header(c).size
    BY DEF WaitForEachOther
  <2>3. /\ sent[c] \in Nat /\ consumed[c] \in Nat /\ HEADER_LEN \in Nat
        /\ HeaderEnd(c) \in Nat \ {0} /\ consumed[c] >= HeaderEnd(c)
        /\ sent[c] = StreamLen(c)
        /\ Received(c) = Header(c).size \/ Received(c) = consumed[c] - HeaderEnd(c)
    BY <2>1, <2>2, TransferAssumption, HeaderEndFacts DEF StreamInv, ReceiveInv, TypeOK
  <2>4. sent[c] > 0 /\ Header(c).status = "ok"
    BY <2>1, <2>2, <2>3 DEF ReceiveInv
  <2>5. Header(c).size \in Nat
    BY <2>1, <2>4, SentHeader
  <2>6. Received(c) \in Nat
    <3>1. payload[c] \in Seq({p \in Nat : p > EARLY_LEN})
      BY <2>1 DEF TypeOK
    <3> QED BY <3>1, LenProperties DEF Received
  <2>7. Received(c) = StreamLen(c) - HeaderEnd(c)
    BY <2>2, <2>3, <2>5, <2>6
  <2>8. Header(c).size > StreamLen(c) - HeaderEnd(c)
    BY <2>2, <2>7
  <2>9. ASSUME WellNamed(c)
        PROVE  FALSE
    <3>1. /\ PayloadLen(c) \in Nat /\ Header(c).size = PayloadLen(c)
          /\ StreamLen(c) = HEADER_LEN + PayloadLen(c) /\ HeaderEnd(c) = HEADER_LEN
      BY <2>1, <2>4, <2>9, SentHeader, StreamLenType, HeaderEndFacts
    <3> QED BY <2>3, <2>8, <3>1
  <2> QED BY <2>8, <2>9
<1> QED BY <1>1, Invariance, PTL
-----------------------------------------------------------------------------
(* An encrypted file is written whole or not at all *)

LEMMA FilesStay ==
  ASSUME [Next]_vars
  PROVE  file' = file
<1> USE DEF clientVars
<1>1. ASSUME NEW c \in Calls, ClientStep(c) PROVE file' = file
  BY <1>1 DEF ClientStep, ReadFile, ReadFileFails, Connect, ConnectFails, Send,
       SendToClosed, SendFails, SendSignals, RecvResponse, RecvPart, RecvEnd, RecvError
<1>2. ASSUME NEW c \in Calls, HandlerStep(c) PROVE file' = file
  BY <1>2 DEF HandlerStep, RecvHeaderEnds, RecvHeaderPart, RecvHeader, RecvBadHeader,
       RecvFatalHeader, RecvPayload, PayloadEnds, OpenFile, OpenFileFails,
       CreateDirThrows, WriteFile, WriteFileFails, BufferFile, FlushFile, FlushFileFails,
       Respond, RespondSignals
<1> QED BY <1>1, <1>2 DEF Next, vars, ClientCrash, Accept, ServerExit, ServerStart

(* Only the end of the payload loop gives the handler something to write. *)
LEMMA DataStays ==
  ASSUME TypeOK, [Next]_vars, NEW d \in Calls
  PROVE  data'[d] = data[d] \/ (PayloadEnds(d) /\ ~Rejected(d) /\ data'[d] = Contents(d))
<1> USE DEF clientVars, handlerVars
<1>1. ASSUME NEW c \in Calls, ClientStep(c) PROVE data' = data
  BY <1>1 DEF ClientStep, ReadFile, ReadFileFails, Connect, ConnectFails, Send,
       SendToClosed, SendFails, SendSignals, RecvResponse, RecvPart, RecvEnd, RecvError
<1>2. ASSUME NEW c \in Calls, HandlerStep(c) PROVE data' = data \/ PayloadEnds(c)
  BY <1>2 DEF HandlerStep, RecvHeaderEnds, RecvHeaderPart, RecvHeader, RecvBadHeader,
       RecvFatalHeader, RecvPayload, OpenFile, OpenFileFails,
       CreateDirThrows, WriteFile, WriteFileFails, BufferFile, FlushFile, FlushFileFails,
       Respond, RespondSignals
<1>3. data' = data \/ \E c \in Calls : PayloadEnds(c)
  BY <1>1, <1>2 DEF Next, vars, ClientCrash, Accept, ServerExit, ServerStart
<1>4. ASSUME NEW c \in Calls, PayloadEnds(c)
      PROVE  data'[d] = data[d] \/ (c = d /\ ~Rejected(d) /\ data'[d] = Contents(d))
  BY <1>4 DEF PayloadEnds, TypeOK
<1> QED BY <1>3, <1>4

LEMMA AllOrNothingStep ==
  ASSUME IInv, EncryptedAllOrNothing, [Next]_vars
  PROVE  EncryptedAllOrNothing'
<1> SUFFICES ASSUME NEW d \in Calls
             PROVE  (Encrypted(d) /\ Fits(d) /\ data[d] # <<>>
                       => Whole(d) /\ ServerPass = file[d].pass)'
  BY DEF EncryptedAllOrNothing
<1>1. /\ TypeOK /\ StreamInv(d) /\ ReceiveInv(d)
      /\ Encrypted(d) /\ Fits(d) /\ data[d] # <<>> => Whole(d) /\ ServerPass = file[d].pass
  BY DEF IInv, EncryptedAllOrNothing
<1>2. file' = file
  BY FilesStay
<1>3. data'[d] = data[d] \/ (PayloadEnds(d) /\ ~Rejected(d) /\ data'[d] = Contents(d))
  BY <1>1, DataStays
<1>4. /\ Encrypted(d)' = Encrypted(d) /\ Fits(d)' = Fits(d) /\ FileBytes(d)' = FileBytes(d)
      /\ ServerPass' = ServerPass
  BY <1>2, SameFiles DEF Fits
<1>5. CASE data'[d] = data[d]
  BY <1>1, <1>2, <1>4, <1>5 DEF Whole
<1>6. CASE PayloadEnds(d) /\ ~Rejected(d) /\ data'[d] = Contents(d)
  <2>1. hpc[d] = "payload"
    BY <1>6 DEF PayloadEnds
  <2>2. Encrypted(d) /\ Fits(d) => Contents(d) = FileBytes(d) /\ ServerPass = file[d].pass
    BY <1>1, <1>6, <2>1, SealedIsWhole
  <2> QED BY <1>2, <1>4, <1>6, <2>2 DEF Whole
<1> QED BY <1>3, <1>5, <1>6

(* Whatever the name does to the header and wherever the stream is cut, of *)
(* an encrypted file the handler keeps all or nothing.                     *)
THEOREM AllOrNothing == Spec => []EncryptedAllOrNothing
<1>1. Init => EncryptedAllOrNothing
  BY DEF Init, EncryptedAllOrNothing
<1> QED BY <1>1, AllOrNothingStep, Invariance, PTL DEF Spec
-----------------------------------------------------------------------------
(* How far the acknowledgement of a part goes *)

(* A sealed payload that was opened is never empty, for an empty plaintext *)
(* is taken for a failure.                                                 *)
OpenedInv(c) ==
  Encrypted(c) /\ (hpc[c] \in {"open", "write", "flush"} \/ ok[c]) => data[c] # <<>>

(* Only the end of the payload loop leads to write_file, and only          *)
(* write_file sets ok.                                                     *)
LEMMA OpenStays ==
  ASSUME TypeOK, [Next]_vars, NEW d \in Calls, ~PayloadEnds(d),
         hpc'[d] \in {"open", "write", "flush"} \/ ok'[d]
  PROVE  hpc[d] \in {"open", "write", "flush"} \/ ok[d]
<1> USE DEF clientVars, handlerVars, TypeOK
<1>1. ASSUME NEW c \in Calls, ClientStep(c) PROVE hpc' = hpc /\ ok' = ok
  BY <1>1 DEF ClientStep, ReadFile, ReadFileFails, Connect, ConnectFails, Send,
       SendToClosed, SendFails, SendSignals, RecvResponse, RecvPart, RecvEnd, RecvError
<1>2. ASSUME NEW c \in Calls, Accept(c)
      PROVE  ok' = ok /\ (hpc'[d] = hpc[d] \/ hpc'[d] = "header")
  BY <1>2 DEF Accept
<1>3. ASSUME ServerDies, ok' = ok
      PROVE  ok' = ok /\ (hpc'[d] = hpc[d] \/ hpc'[d] = "killed")
  BY <1>3 DEF ServerDies
<1>4. ASSUME NEW c \in Calls, HandlerStep(c), c # d
      PROVE  ok'[d] = ok[d] /\ (hpc'[d] = hpc[d] \/ hpc'[d] = "killed")
  <2>1. CASE \E n \in 1..RECV_BUF : RecvFatalHeader(c, n)
    BY <1>3, <2>1 DEF RecvFatalHeader
  <2>2. CASE CreateDirThrows(c) \/ RespondSignals(c)
    BY <1>3, <2>2 DEF CreateDirThrows, RespondSignals
  <2>3. CASE ~CreateDirThrows(c) /\ ~RespondSignals(c)
             /\ ~\E n \in 1..RECV_BUF : RecvFatalHeader(c, n)
    BY <1>4, <2>3 DEF HandlerStep, RecvHeaderEnds, RecvHeaderPart, RecvHeader, RecvBadHeader,
         RecvPayload, PayloadEnds, OpenFile, OpenFileFails, WriteFile, WriteFileFails,
         BufferFile, FlushFile, FlushFileFails, Respond
  <2> QED BY <2>1, <2>2, <2>3
<1>5. CASE HandlerStep(d)
  <2>1. CASE \E n \in 1..RECV_BUF : RecvFatalHeader(d, n)
    BY <1>3, <2>1 DEF RecvFatalHeader
  <2>2. CASE CreateDirThrows(d) \/ RespondSignals(d)
    BY <1>3, <2>2 DEF CreateDirThrows, RespondSignals
  <2>3. CASE ~CreateDirThrows(d) /\ ~RespondSignals(d)
             /\ ~\E n \in 1..RECV_BUF : RecvFatalHeader(d, n)
    BY <1>5, <2>3 DEF HandlerStep, RecvHeaderEnds, RecvHeaderPart, RecvHeader, RecvBadHeader,
         RecvPayload, OpenFile, OpenFileFails, WriteFile, WriteFileFails,
         BufferFile, FlushFile, FlushFileFails, Respond
  <2> QED BY <2>1, <2>2, <2>3
<1>6. CASE ServerExit
  BY <1>3, <1>6 DEF ServerExit
<1>7. CASE ServerStart \/ UNCHANGED vars \/ \E c \in Calls : \E mode \in CrashModes : ClientCrash(c, mode)
  BY <1>7 DEF vars, ClientCrash, ServerStart
<1> QED BY <1>1, <1>2, <1>4, <1>5, <1>6, <1>7 DEF Next

LEMMA OpenedStep ==
  ASSUME IInv, [Next]_vars, NEW d \in Calls, OpenedInv(d)
  PROVE  OpenedInv(d)'
<1>1. TypeOK /\ StreamInv(d) /\ ReceiveInv(d) /\ AckInv(d)
  BY DEF IInv
<1>2. Encrypted(d)' = Encrypted(d)
  BY FilesStay, SameFiles
<1>3. CASE PayloadEnds(d)
  <2>1. hpc[d] = "payload" /\ Header(d).status = "ok" /\ ~ok[d]
    BY <1>1, <1>3 DEF PayloadEnds, ReceiveInv, AckInv
  <2>2. ok'[d] = ok[d] /\ hpc'[d] = IF Rejected(d) THEN "respond" ELSE "open"
    BY <1>1, <1>3 DEF PayloadEnds, TypeOK
  <2>3. CASE Rejected(d)
    BY <2>1, <2>2, <2>3 DEF OpenedInv
  <2>4. CASE ~Rejected(d) /\ Encrypted(d)
    <3>1. sent[d] > 0
      BY <1>1, <2>1, HeaderEndFacts DEF StreamInv, ReceiveInv, TypeOK
    <3>2. Header(d).encrypted
      BY <1>1, <2>1, <2>4, <3>1, SentHeader
    <3>3. Decrypted(d) # 0 /\ Decrypted(d) \in Nat
      <4>1. Decrypted(d) # 0
        BY <2>4, <3>2 DEF Rejected
      <4>2. Received(d) \in Nat
        BY <1>1 DEF TypeOK, Received
      <4> QED BY <4>1, <4>2, CryptoAssumption DEF Decrypted, OpenedLen
    <3>4. data'[d] = [i \in 1..Decrypted(d) |-> <<d, i>>]
      BY <1>1, <1>3, <2>4, <3>2 DEF PayloadEnds, Contents, TypeOK
    <3> DEFINE n == Decrypted(d)
    <3> HIDE DEF n
    <3>5. 1 \in 1..n
      BY <3>3 DEF n
    <3>6. data'[d] # <<>>
      <4>1. DOMAIN data'[d] = 1..n
        BY <3>4 DEF n
      <4>2. DOMAIN <<>> = {}
        OBVIOUS
      <4> QED BY <4>1, <4>2, <3>5
    <3> QED BY <3>6 DEF OpenedInv
  <2>5. CASE ~Encrypted(d)
    BY <1>2, <2>5 DEF OpenedInv
  <2> QED BY <2>3, <2>4, <2>5
<1>4. CASE ~PayloadEnds(d)
  <2>1. data'[d] = data[d]
    BY <1>1, <1>4, DataStays
  <2> QED BY <1>1, <1>2, <1>4, <2>1, OpenStays DEF OpenedInv
<1> QED BY <1>3, <1>4

(* A part of a file is acknowledged only if it was sent in plain, and to   *)
(* nobody who can still hear it unless the name damaged the header: the    *)
(* bounds of what AckMeansWholeFile shows, for every fault and every cut.  *)
THEOREM AckedPartly == Spec => []PartialAckUnheard
<1>1. Init => \A c \in Calls : OpenedInv(c)
  BY DEF Init, OpenedInv
<1>2. IInv /\ EncryptedAllOrNothing /\ (\A c \in Calls : OpenedInv(c)) => PartialAckUnheard
  <2> SUFFICES ASSUME IInv, EncryptedAllOrNothing, NEW c \in Calls, OpenedInv(c),
                      resp[c] = "ACK", Fits(c), ~Whole(c)
               PROVE  /\ ~Encrypted(c)
                      /\ WellNamed(c) => ClientClosed(c) /\ cpc[c] # "success"
    BY DEF PartialAckUnheard
  <2>1. ok[c] /\ (WellNamed(c) => Gone(c))
    BY DEF IInv, AckInv, Clean
  <2>2. ~Encrypted(c)
    BY <2>1 DEF OpenedInv, EncryptedAllOrNothing
  <2> QED BY <2>1, <2>2 DEF Gone, ClientClosed, Ended, EndedPcs
<1> DEFINE Opened == \A c \in Calls : OpenedInv(c)
<1>3. IInv /\ Opened /\ [Next]_vars => Opened'
  BY OpenedStep
<1> HIDE DEF Opened
<1>4. Init => Opened
  BY <1>1 DEF Opened
<1>5. IInv /\ EncryptedAllOrNothing /\ Opened => PartialAckUnheard
  BY <1>2 DEF Opened
<1> QED BY <1>3, <1>4, <1>5, Invariance, AllOrNothing, PTL DEF Spec
=============================================================================
