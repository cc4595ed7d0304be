----------------------------- MODULE DiskProofs -----------------------------
(***************************************************************************)
(* Transfer's receive directory: what the handlers of several calls leave  *)
(* there, for every number of calls and every interleaving of their opens, *)
(* writes and late flushes.                                                *)
(***************************************************************************)
EXTENDS TransferProofs

(* Whatever the colons of a name do to the header, a handler that has a    *)
(* header writes to the file that the name's first field tells.            *)
NamedInv(c) ==
  hpc[c] \in {"payload", "open", "write", "flush"} => FileName(c) = file[c].name[1]

OwnFile(c) == disk[file[c].name[1]]

(* From opening to writing the file is empty; only a short file is left to *)
(* the late flush; and once write_file is over, and returned true of a     *)
(* file that no late flush could spoil, it holds what the handler had.     *)
DiskInv(c) ==
  /\ hpc[c] \in {"write", "flush"} => OwnFile(c) = <<>>
  /\ hpc[c] = "flush" => Buffered(c)
  /\ hpc[c] \in {"respond", "done"} /\ ok[c] /\ (DiskFaults => ~Buffered(c))
       => OwnFile(c) = data[c]

DirectoryInv == \A c \in Calls : NamedInv(c) /\ (NameIsOwn(c) => DiskInv(c))
-----------------------------------------------------------------------------
LEMMA NameInDirectory ==
  ASSUME TypeOK, NEW c \in Calls
  PROVE  file[c].name[1] \in Names
BY TransferAssumption DEF TypeOK

(* All of it, written to the empty file, is the file. *)
LEMMA OverlayFresh ==
  ASSUME NEW S, NEW s \in Seq(S)
  PROVE  Overlay(SubSeq(s, 1, Len(s)), <<>>) = s
<1>1. SubSeq(s, 1, Len(s)) = s
  BY SubSeqFull
<1>2. Len(s) \in Nat /\ Len(<<>>) = 0
  OBVIOUS
<1> DEFINE m == IF Len(s) < Len(<<>>) THEN Len(<<>>) ELSE Len(s)
           e(i) == IF i <= Len(s) THEN s[i] ELSE <<>>[i]
<1>3. Overlay(s, <<>>) = [i \in 1..m |-> e(i)]
  BY DEF Overlay
<1>4. m = Len(s) /\ \A i \in 1..Len(s) : e(i) = s[i]
  BY <1>2
<1> HIDE DEF m, e
<1>5. [i \in 1..m |-> e(i)] = [i \in 1..Len(s) |-> s[i]]
  BY <1>4
<1>6. [i \in 1..Len(s) |-> s[i]] = s
  OBVIOUS
<1> QED BY <1>1, <1>3, <1>5, <1>6
-----------------------------------------------------------------------------
(* What the steps of others do to c: a handler writes to its own file      *)
(* name, and kills the other handlers with the process or leaves them be.  *)
LEMMA OtherHandler ==
  ASSUME TypeOK, NEW c \in Calls, NEW d \in Calls, c # d, HandlerStep(d)
  PROVE  /\ data'[c] = data[c] /\ ok'[c] = ok[c]
         /\ hpc'[c] = hpc[c] \/ hpc'[c] = "killed"
         /\ \/ disk' = disk
            \/ /\ hpc[d] \in {"open", "write", "flush"}
               /\ \A n \in Names \ {FileName(d)} : disk'[n] = disk[n]
<1> USE DEF TypeOK
<1>1. CASE RecvHeaderEnds(d) \/ Respond(d) \/ PayloadEnds(d) \/ OpenFileFails(d) \/ BufferFile(d)
  BY <1>1 DEF RecvHeaderEnds, Respond, PayloadEnds, OpenFileFails, BufferFile
<1>2. CASE CreateDirThrows(d) \/ RespondSignals(d)
  BY <1>2 DEF CreateDirThrows, RespondSignals, ServerDies
<1>3. ASSUME NEW n \in 1..RECV_BUF,
             \/ RecvHeaderPart(d, n) \/ RecvHeader(d, n)
             \/ RecvBadHeader(d, n) \/ RecvPayload(d, n)
      PROVE  hpc'[c] = hpc[c] /\ UNCHANGED <<data, ok, disk>>
  BY <1>3 DEF RecvHeaderPart, RecvHeader, RecvBadHeader, RecvPayload
<1>4. ASSUME NEW n \in 1..RECV_BUF, RecvFatalHeader(d, n)
      PROVE  (hpc'[c] = hpc[c] \/ hpc'[c] = "killed") /\ UNCHANGED <<data, ok, disk>>
  BY <1>4 DEF RecvFatalHeader, ServerDies
<1>5. CASE OpenFile(d)
  BY <1>5 DEF OpenFile
<1>6. CASE WriteFile(d) \/ WriteFileFails(d) \/ FlushFile(d) \/ FlushFileFails(d)
  <2>1. \E n \in Int : Put(d, n)
    <3>1. data[d] \in Seq(Bytes)
      OBVIOUS
    <3>2. Len(data[d]) \in Nat
      BY <3>1, LenProperties
    <3> QED BY <1>6, <3>2 DEF WriteFile, WriteFileFails, FlushFile, FlushFileFails
  <2>2. \A n \in Names \ {FileName(d)} : disk'[n] = disk[n]
    BY <2>1 DEF Put
  <2> QED BY <1>6, <2>2 DEF WriteFile, WriteFileFails, FlushFile, FlushFileFails
<1> QED BY <1>1, <1>2, <1>3, <1>4, <1>5, <1>6 DEF HandlerStep

(* The clients, the accept loop and the user do not touch the directory.   *)
LEMMA NoHandler ==
  ASSUME TypeOK, NEW c \in Calls, [Next]_vars, \A d \in Calls : ~HandlerStep(d)
  PROVE  /\ UNCHANGED <<data, ok, disk>>
         /\ \/ hpc'[c] = hpc[c] \/ hpc'[c] = "killed"
            \/ conn[c] = "backlog" /\ hpc'[c] = "header"
<1> USE DEF clientVars, handlerVars
<1>1. ASSUME NEW d \in Calls, ClientStep(d) PROVE UNCHANGED handlerVars /\ disk' = disk
  BY <1>1 DEF ClientStep, ReadFile, ReadFileFails, Connect, ConnectFails, Send,
       SendToClosed, SendFails, SendSignals, RecvResponse, RecvPart, RecvEnd, RecvError
<1>2. ASSUME NEW d \in Calls, Accept(d)
      PROVE  /\ UNCHANGED <<data, ok, disk>>
             /\ hpc'[c] = hpc[c] \/ (conn[c] = "backlog" /\ hpc'[c] = "header")
  BY <1>2 DEF Accept, TypeOK
<1>3. CASE ServerExit
  BY <1>3 DEF ServerExit, ServerDies
<1>4. CASE ServerStart \/ UNCHANGED vars
  BY <1>4 DEF ServerStart, vars
<1>5. ASSUME NEW d \in Calls, NEW mode, ClientCrash(d, mode)
      PROVE  UNCHANGED handlerVars /\ disk' = disk
  BY <1>5 DEF ClientCrash
<1> QED BY <1>1, <1>2, <1>3, <1>4, <1>5 DEF Next
-----------------------------------------------------------------------------
(* What the steps of c's own handler do *)

(* Ways in which a step leaves the invariant of c alone. *)
LEMMA Unwritten ==
  ASSUME NEW c \in Calls, file' = file, NamedInv(c), DiskInv(c),
         data'[c] = data[c], ok'[c] = ok[c], OwnFile(c)' = OwnFile(c),
         hpc'[c] = hpc[c] \/ hpc'[c] \in {"none", "header", "killed"}
  PROVE  NamedInv(c)' /\ DiskInv(c)'
BY DEF NamedInv, DiskInv, OwnFile, FileName, Header, Buffered

(* A header that parses tells the first field of the name, whatever colons *)
(* and newlines follow it.                                                 *)
LEMMA HeaderNames ==
  ASSUME IInv, NEW c \in Calls, NEW n, RecvHeader(c, n)
  PROVE  FileName(c) = file[c].name[1]
<1>1. n \in Nat \ {0} /\ consumed[c] + n <= sent[c] /\ consumed[c] \in Nat /\ sent[c] \in Nat
  BY RecvFacts DEF RecvHeader, HeaderArrives, IInv, TypeOK
<1>2. sent[c] > 0
  BY <1>1
<1> QED BY <1>2, SentHeader DEF RecvHeader, IInv

LEMMA ReceiveDisk ==
  ASSUME IInv, NEW c \in Calls, file' = file, NamedInv(c), HandlerStep(c),
         hpc[c] \notin {"open", "write", "flush", "respond"}
  PROVE  NamedInv(c)' /\ DiskInv(c)'
<1>1. TypeOK /\ AckInv(c)
  BY DEF IInv
<1>2. Header(c)' = Header(c) /\ FileName(c)' = FileName(c)
  BY SameFiles DEF FileName
<1>3. ~ok[c] /\ hpc[c] \in {"header", "payload"}
  BY <1>1 DEF AckInv, HandlerStep, RecvHeaderEnds, RecvHeaderPart, RecvHeader, RecvBadHeader,
       HeaderArrives, RecvFatalHeader, RecvPayload, PayloadEnds, OpenFile, OpenFileFails,
       CreateDirThrows, WriteFile, WriteFileFails, BufferFile, FlushFile, FlushFileFails,
       Respond, RespondSignals
<1>4. ASSUME NEW n \in 1..RECV_BUF,
             RecvHeaderPart(c, n) \/ RecvBadHeader(c, n) \/ RecvFatalHeader(c, n)
      PROVE  ok' = ok /\ hpc'[c] \in {"header", "done", "killed"}
  BY <1>1, <1>4 DEF RecvHeaderPart, RecvBadHeader, RecvFatalHeader, HeaderArrives, ServerDies,
       Handling, ActiveHpcs, TypeOK
<1>5. ASSUME NEW n \in 1..RECV_BUF, RecvHeader(c, n)
      PROVE  ok' = ok /\ hpc'[c] = "payload" /\ FileName(c) = file[c].name[1]
  BY <1>1, <1>5, HeaderNames DEF RecvHeader, TypeOK
<1>6. ASSUME NEW n \in 1..RECV_BUF, RecvPayload(c, n)
      PROVE  ok' = ok /\ hpc'[c] = "payload" /\ FileName(c) = file[c].name[1]
  BY <1>1, <1>6 DEF RecvPayload, NamedInv
<1>7. CASE RecvHeaderEnds(c)
  BY <1>1, <1>2, <1>3, <1>7 DEF RecvHeaderEnds, NamedInv, DiskInv, TypeOK
<1>8. CASE PayloadEnds(c)
  <2>1. ok' = ok /\ hpc'[c] \in {"respond", "open"} /\ FileName(c) = file[c].name[1]
    BY <1>1, <1>8 DEF PayloadEnds, NamedInv, TypeOK
  <2> QED BY <1>2, <1>3, <2>1 DEF NamedInv, DiskInv
<1>9. CASE \E n \in 1..RECV_BUF : \/ RecvHeaderPart(c, n) \/ RecvHeader(c, n)
                                  \/ RecvBadHeader(c, n) \/ RecvFatalHeader(c, n)
                                  \/ RecvPayload(c, n)
  <2>1. ok' = ok /\ \/ hpc'[c] \in {"header", "done", "killed"}
                    \/ hpc'[c] = "payload" /\ FileName(c) = file[c].name[1]
    BY <1>4, <1>5, <1>6, <1>9
  <2> QED BY <1>2, <1>3, <2>1 DEF NamedInv, DiskInv
<1> QED BY <1>3, <1>7, <1>8, <1>9 DEF HandlerStep, OpenFile, OpenFileFails, CreateDirThrows,
       WriteFile, WriteFileFails, BufferFile, FlushFile, FlushFileFails, Respond, RespondSignals

LEMMA WriteDisk ==
  ASSUME IInv, NEW c \in Calls, file' = file, NamedInv(c), HandlerStep(c),
         hpc[c] \in {"open", "write", "flush", "respond"}
  PROVE  NamedInv(c)' /\ (DiskInv(c) => DiskInv(c)')
<1>1. TypeOK /\ AckInv(c) /\ data[c] \in Seq(Bytes)
  BY DEF IInv, TypeOK
<1>2. FileName(c)' = FileName(c)
  BY SameFiles DEF FileName
<1>3. hpc[c] # "respond" => FileName(c) = file[c].name[1] /\ file[c].name[1] \in Names
  BY <1>1, NameInDirectory DEF NamedInv
<1>4. CASE CreateDirThrows(c) \/ RespondSignals(c)
  <2>1. hpc'[c] = "killed"
    BY <1>4 DEF CreateDirThrows, RespondSignals, ServerDies, Handling, ActiveHpcs
  <2> QED BY <2>1 DEF NamedInv, DiskInv
<1>5. CASE OpenFile(c)
  <2>1. hpc'[c] = "write" /\ OwnFile(c)' = <<>>
    BY <1>1, <1>3, <1>5 DEF OpenFile, OwnFile, TypeOK
  <2> QED BY <1>2, <1>3, <1>5, <2>1 DEF OpenFile, NamedInv, DiskInv
<1>6. CASE OpenFileFails(c)
  <2>1. hpc'[c] = "respond" /\ ok'[c] = ok[c] /\ ~ok[c]
    BY <1>1, <1>6 DEF OpenFileFails, AckInv, TypeOK
  <2> QED BY <2>1 DEF NamedInv, DiskInv
<1>7. CASE WriteFileFails(c)
  <2>1. hpc'[c] = "respond" /\ ok'[c] = ok[c] /\ ~ok[c]
    BY <1>1, <1>7 DEF WriteFileFails, AckInv, TypeOK
  <2> QED BY <2>1 DEF NamedInv, DiskInv
<1>8. CASE BufferFile(c)
  <2>1. hpc'[c] = "flush" /\ hpc[c] = "write" /\ disk' = disk /\ Buffered(c)'
    BY <1>1, <1>8 DEF BufferFile, Buffered, TypeOK
  <2> QED BY <1>2, <1>3, <2>1 DEF NamedInv, DiskInv, OwnFile
<1>9. CASE FlushFileFails(c)
  <2>1. hpc'[c] = "respond" /\ DiskFaults /\ data' = data /\ hpc[c] = "flush"
    BY <1>1, <1>9 DEF FlushFileFails, TypeOK
  <2> QED BY <2>1 DEF NamedInv, DiskInv, Buffered
<1>10. CASE Respond(c)
  <2>1. hpc'[c] = "done" /\ UNCHANGED <<ok, data, disk>> /\ hpc[c] = "respond"
    BY <1>1, <1>10 DEF Respond, TypeOK
  <2> QED BY <2>1 DEF NamedInv, DiskInv, OwnFile, Buffered
<1>11. CASE WriteFile(c) \/ FlushFile(c)
  <2>1. hpc'[c] = "respond" /\ data' = data /\ Put(c, Len(data[c])) /\ hpc[c] \in {"write", "flush"}
    BY <1>1, <1>11 DEF WriteFile, FlushFile, TypeOK
  <2>2. DiskInv(c) => OwnFile(c)' = data[c]
    <3>1. disk'[file[c].name[1]] = Overlay(SubSeq(data[c], 1, Len(data[c])), disk[file[c].name[1]])
      BY <1>1, <1>3, <2>1 DEF Put, TypeOK
    <3>2. Overlay(SubSeq(data[c], 1, Len(data[c])), <<>>) = data[c]
      BY <1>1, OverlayFresh
    <3> QED BY <2>1, <3>1, <3>2 DEF DiskInv, OwnFile
  <2> QED BY <2>1, <2>2 DEF NamedInv, DiskInv
<1> QED BY <1>4, <1>5, <1>6, <1>7, <1>8, <1>9, <1>10, <1>11 DEF HandlerStep, RecvHeaderEnds,
       RecvHeaderPart, RecvHeader, RecvBadHeader, HeaderArrives, RecvFatalHeader, RecvPayload,
       PayloadEnds
-----------------------------------------------------------------------------
LEMMA DirectoryStep ==
  ASSUME IInv, DirectoryInv, [Next]_vars
  PROVE  DirectoryInv'
<1>1. file' = file
  BY FilesStay
<1> SUFFICES ASSUME NEW c \in Calls
             PROVE  NamedInv(c)' /\ (NameIsOwn(c) => DiskInv(c)')
  BY <1>1 DEF DirectoryInv, NameIsOwn
<1>2. TypeOK /\ NamedInv(c) /\ (NameIsOwn(c) => DiskInv(c))
  BY DEF IInv, DirectoryInv
<1>3. CASE HandlerStep(c)
  BY <1>1, <1>2, <1>3, ReceiveDisk, WriteDisk
<1>4. ASSUME data'[c] = data[c], ok'[c] = ok[c], NameIsOwn(c) => OwnFile(c)' = OwnFile(c),
             hpc'[c] = hpc[c] \/ hpc'[c] \in {"none", "header", "killed"}
      PROVE  NamedInv(c)' /\ (NameIsOwn(c) => DiskInv(c)')
  <2>1. NamedInv(c)'
    BY <1>1, <1>2, <1>4 DEF NamedInv, FileName, Header
  <2>2. NameIsOwn(c) => DiskInv(c)'
    BY <1>1, <1>2, <1>4, Unwritten
  <2> QED BY <2>1, <2>2
<1>5. ASSUME NEW d \in Calls, c # d, HandlerStep(d)
      PROVE  NameIsOwn(c) => OwnFile(c)' = OwnFile(c)
  <2>1. CASE disk' = disk
    BY <1>1, <2>1 DEF OwnFile
  <2>2. CASE /\ hpc[d] \in {"open", "write", "flush"}
             /\ \A n \in Names \ {FileName(d)} : disk'[n] = disk[n]
    <3>1. FileName(d) = file[d].name[1]
      BY <2>2 DEF DirectoryInv, NamedInv
    <3>2. NameIsOwn(c) => file[c].name[1] \in Names \ {FileName(d)}
      BY <1>2, <1>5, <3>1, NameInDirectory DEF NameIsOwn
    <3> QED BY <1>1, <2>2, <3>2 DEF OwnFile
  <2> QED BY <1>2, <1>5, <2>1, <2>2, OtherHandler
<1>6. CASE \E d \in Calls : c # d /\ HandlerStep(d)
  BY <1>2, <1>4, <1>5, <1>6, OtherHandler
<1>7. CASE \A d \in Calls : ~HandlerStep(d)
  <2>1. OwnFile(c)' = OwnFile(c)
    BY <1>1, <1>2, <1>7, NoHandler DEF OwnFile
  <2> QED BY <1>2, <1>4, <1>7, <2>1, NoHandler
<1> QED BY <1>3, <1>6, <1>7

THEOREM DirectoryInvariance == Spec => []DirectoryInv
<1>1. Init => DirectoryInv
  BY DEF Init, DirectoryInv, NamedInv, DiskInv
<1> QED BY <1>1, DirectoryStep, Invariance, PTL DEF Spec

(* A file that send_file reported as received is on the disk, whole, when  *)
(* nobody else sends that name and no late flush can fail: the writes of   *)
(* all other handlers, with names as odd as they like, leave it alone.     *)
THEOREM OnDisk == Spec => []SuccessMeansOnDisk
<1>1. IInv /\ DirectoryInv => SuccessMeansOnDisk
  <2> SUFFICES ASSUME IInv, DirectoryInv, NEW c \in Calls, cpc[c] = "success",
                      WellNamed(c), Fits(c), NameIsOwn(c), DiskFaults => ~Buffered(c)
               PROVE  disk[FileName(c)] = FileBytes(c)
    BY DEF SuccessMeansOnDisk
  <2>1. ok[c] /\ Whole(c) /\ hpc[c] = "done"
    BY DEF IInv, AckInv, Clean, Gone
  <2>2. OwnFile(c) = FileBytes(c)
    BY <2>1 DEF DirectoryInv, DiskInv, Whole
  <2>3. FileName(c) = file[c].name[1]
    <3>1. TypeOK /\ StreamInv(c) /\ ReceiveInv(c)
      BY DEF IInv
    <3>2. PayloadLen(c) \in Int /\ HEADER_LEN \in Nat \ {0} /\ sent[c] \in Nat
          /\ sent[c] = HEADER_LEN + PayloadLen(c)
      BY <3>1, StreamLenType, TransferAssumption DEF StreamInv, TypeOK
    <3>3. PayloadLen(c) \in Nat
      <4>1. file[c] \in Files /\ file[c].len \in Nat
        BY <3>1, StreamLenType, FileFacts
      <4> QED BY <4>1, ToIntFacts, CryptoAssumption
              DEF PayloadLen, WireLen, SealedLen, Fits, Encrypted
    <3>4. sent[c] > 0
      BY <3>2, <3>3
    <3> QED BY <3>1, <3>4, SentHeader DEF FileName
  <2> QED BY <2>2, <2>3 DEF OwnFile
<1> QED BY <1>1, Invariance, DirectoryInvariance, PTL

(* Every file has a name its header can carry and no other call uses. *)
OwnNames == \A c \in Calls : Clean(c) /\ NameIsOwn(c)

(* Two senders of one name are the only reason why acknowledged files do   *)
(* not stay intact on a disk without faults: with names of their own, each *)
(* is there as it was sent, for any number of simultaneous transfers.      *)
THEOREM OwnNamesStayIntact == Spec /\ OwnNames /\ ~DiskFaults => []AckedFilesAreIntact
<1>1. OwnNames /\ [Next]_vars => OwnNames'
  BY FilesStay, SameFiles DEF OwnNames, Clean, NameIsOwn
<1>2. OwnNames /\ ~DiskFaults /\ SuccessMeansOnDisk => AckedFilesAreIntact
  BY DEF OwnNames, Clean, SuccessMeansOnDisk, AckedFilesAreIntact
<1> DEFINE Given == ~DiskFaults
<1>3. OwnNames /\ Given /\ SuccessMeansOnDisk => AckedFilesAreIntact
  BY <1>2
<1>4. Given => Given'
  OBVIOUS
<1> HIDE DEF Given
<1>5. Spec /\ OwnNames /\ Given => []AckedFilesAreIntact
  BY <1>1, <1>3, <1>4, OnDisk, PTL DEF Spec
<1> QED BY <1>5 DEF Given
-----------------------------------------------------------------------------
(* A name that several calls share *)

(* Of these handlers nothing is known any more: they died, or the disk     *)
(* failed them.                                                            *)
Spoiled(c) == \/ hpc[c] = "killed"
              \/ /\ DiskFaults /\ hpc[c] \in {"respond", "done"}
                 /\ IF ok[c] THEN Buffered(c) ELSE data[c] # <<>>

Written(n) == {c \in Named(n) : hpc[c] \in {"respond", "done"} /\ ok[c]}

(* Every byte comes from a handler that has written; and the last to write *)
(* has left its whole file at the beginning, unless somebody has opened,   *)
(* and so emptied, the file after that and is about to write.              *)
BytesOfWriters(n) ==
  \A i \in 1..Len(disk[n]) :
    \E c \in Written(n) : i <= Len(data[c]) /\ disk[n][i] = data[c][i]

LastIsWhole(n) == \/ \E c \in Named(n) : hpc[c] \in {"write", "flush"}
                  \/ Written(n) = {}
                  \/ \E c \in Written(n) : Beginning(data[c], disk[n])

SharedInv(n) ==
  (\A c \in Named(n) : ~Spoiled(c)) => BytesOfWriters(n) /\ LastIsWhole(n)

FlushInv(c) == hpc[c] = "flush" => ok[c] /\ Buffered(c)

NamesInv == (\A c \in Calls : FlushInv(c)) /\ (\A n \in Names : SharedInv(n))

(* What new covers is new, what goes beyond it is old. *)
LEMMA OverlayFacts ==
  ASSUME NEW S, NEW s \in Seq(S), NEW t \in Seq(S)
  PROVE  LET o == Overlay(SubSeq(s, 1, Len(s)), t) IN
         /\ Len(o) \in Nat /\ Len(s) <= Len(o)
         /\ \A i \in 1..Len(s) : o[i] = s[i]
         /\ \A i \in 1..Len(o) : i \in 1..Len(s) \/ (i \in 1..Len(t) /\ o[i] = t[i])
<1> DEFINE m == IF Len(s) < Len(t) THEN Len(t) ELSE Len(s)
           e(i) == IF i <= Len(s) THEN s[i] ELSE t[i]
           o == [i \in 1..m |-> e(i)]
<1>1. SubSeq(s, 1, Len(s)) = s
  BY SubSeqFull
<1>2. Overlay(s, t) = o
  BY DEF Overlay
<1>3. Len(s) \in Nat /\ Len(t) \in Nat /\ m \in Nat /\ Len(s) <= m
      /\ (m = Len(s) \/ m = Len(t))
  OBVIOUS
<1> HIDE DEF m, e
<1>4. Len(o) = m
  BY <1>3
<1>5. \A i \in 1..Len(s) : i \in 1..m /\ e(i) = s[i]
  BY <1>3 DEF e
<1>6. \A i \in 1..m : i \in 1..Len(s) \/ (i \in 1..Len(t) /\ e(i) = t[i])
  BY <1>3 DEF e
<1>7. \A i \in 1..m : o[i] = e(i)
  OBVIOUS
<1> HIDE DEF o
<1> QED BY <1>1, <1>2, <1>3, <1>4, <1>5, <1>6, <1>7
-----------------------------------------------------------------------------
(* What a step does to one call, as far as names are concerned. *)
Quiet(c) ==
  \/ hpc'[c] = "killed"
  \/ ok'[c] = ok[c] /\ data'[c] = data[c] /\ hpc'[c] = hpc[c]
  \/ ok'[c] = ok[c] /\ data'[c] = data[c] /\ hpc[c] = "respond" /\ hpc'[c] = "done"
  \/ ~ok[c] /\ ~ok'[c] /\ hpc[c] \in {"none", "header", "payload", "open"}
  \/ ~ok[c] /\ data'[c] = data[c] /\ hpc[c] = "write" /\ hpc'[c] = "flush"

LEMMA QuietStep ==
  ASSUME file' = file, NEW n \in Names, disk'[n] = disk[n], SharedInv(n),
         \A c \in Named(n) : Quiet(c)
  PROVE  SharedInv(n)'
<1> SUFFICES ASSUME \A c \in Named(n) : ~Spoiled(c)'
             PROVE  BytesOfWriters(n)' /\ LastIsWhole(n)'
  BY DEF SharedInv, Named
<1>1. Named(n)' = Named(n)
  BY DEF Named
<1>2. ASSUME NEW c \in Named(n)
      PROVE  /\ ~Spoiled(c) /\ hpc'[c] # "killed"
             /\ c \in Written(n) <=> c \in Written(n)'
             /\ c \in Written(n) => data'[c] = data[c]
             /\ hpc[c] \in {"write", "flush"} => hpc'[c] \in {"write", "flush"}
  BY <1>1, <1>2 DEF Quiet, Spoiled, Written, Buffered
<1>3. Written(n)' = Written(n)
  BY <1>1, <1>2 DEF Written
<1>4. BytesOfWriters(n) /\ LastIsWhole(n)
  BY <1>2 DEF SharedInv
<1>5. \A c \in Written(n) : c \in Named(n) /\ data'[c] = data[c]
  BY <1>2 DEF Written
<1>6. BytesOfWriters(n)'
  BY <1>3, <1>4, <1>5 DEF BytesOfWriters
<1>7. LastIsWhole(n)'
  <2>1. CASE \E c \in Named(n) : hpc[c] \in {"write", "flush"}
    BY <1>1, <1>2, <2>1 DEF LastIsWhole
  <2>2. CASE Written(n) = {}
    BY <1>3, <2>2 DEF LastIsWhole
  <2>3. CASE \E c \in Written(n) : Beginning(data[c], disk[n])
    BY <1>3, <1>5, <2>3 DEF LastIsWhole, Beginning
  <2> QED BY <1>4, <2>1, <2>2, <2>3 DEF LastIsWhole
<1> QED BY <1>6, <1>7

(* The handler that writes covers what was there with its own bytes. *)
LEMMA WriterStep ==
  ASSUME TypeOK, file' = file, NEW n \in Names, SharedInv(n),
         NEW c \in Named(n), hpc[c] \in {"write", "flush"}, hpc'[c] = "respond",
         ok'[c], data' = data,
         disk'[n] = Overlay(SubSeq(data[c], 1, Len(data[c])), disk[n]),
         \A d \in Named(n) \ {c} : hpc'[d] = hpc[d] /\ ok'[d] = ok[d]
  PROVE  SharedInv(n)'
<1> SUFFICES ASSUME \A d \in Named(n) : ~Spoiled(d)'
             PROVE  BytesOfWriters(n)' /\ LastIsWhole(n)'
  BY DEF SharedInv, Named
<1>1. Named(n)' = Named(n) /\ c \in Calls
  BY DEF Named
<1>2. \A d \in Named(n) : ~Spoiled(d)
  BY DEF Spoiled, Buffered
<1>3. BytesOfWriters(n)
  BY <1>2 DEF SharedInv
<1>4. c \in Written(n)' /\ \A d \in Written(n) : d \in Written(n)'
  BY <1>1 DEF Written
<1>5. data[c] \in Seq(Bytes) /\ disk[n] \in Seq(Bytes)
  BY <1>1 DEF TypeOK
<1>6. /\ Len(disk'[n]) \in Nat /\ Len(data[c]) <= Len(disk'[n])
      /\ \A i \in 1..Len(data[c]) : disk'[n][i] = data[c][i]
      /\ \A i \in 1..Len(disk'[n]) :
           i \in 1..Len(data[c]) \/ (i \in 1..Len(disk[n]) /\ disk'[n][i] = disk[n][i])
  BY <1>5, OverlayFacts
<1>7. BytesOfWriters(n)'
  <2> SUFFICES ASSUME NEW i \in 1..Len(disk'[n])
               PROVE  \E d \in Written(n)' : i <= Len(data[d]) /\ disk'[n][i] = data[d][i]
    BY DEF BytesOfWriters
  <2>1. CASE i \in 1..Len(data[c])
    BY <1>4, <1>6, <2>1
  <2>2. CASE i \in 1..Len(disk[n]) /\ disk'[n][i] = disk[n][i]
    BY <1>3, <1>4, <2>2 DEF BytesOfWriters
  <2> QED BY <1>6, <2>1, <2>2
<1>8. Beginning(data[c], disk'[n])
  BY <1>6 DEF Beginning
<1> QED BY <1>4, <1>7, <1>8 DEF LastIsWhole
-----------------------------------------------------------------------------
(* The steps of a handler, as far as the names are concerned: it moves on, *)
(* empties its file, writes it whole, or is spoiled.                       *)
LEMMA HandlerMoves ==
  ASSUME IInv, NEW c \in Calls, file' = file, FlushInv(c), HandlerStep(c)
  PROVE  /\ FlushInv(c)'
         /\ \/ Quiet(c) /\ disk' = disk
            \/ OpenFile(c)
            \/ (WriteFile(c) \/ FlushFile(c)) /\ ok'[c]
            \/ /\ Spoiled(c)' /\ hpc[c] \in {"write", "flush"}
               /\ \A n \in Names \ {FileName(c)} : disk'[n] = disk[n]
<1> USE DEF TypeOK
<1>1. TypeOK /\ AckInv(c) /\ data[c] \in Seq(Bytes)
  BY DEF IInv
<1>2. CASE CreateDirThrows(c) \/ RespondSignals(c)
  <2>1. hpc'[c] = "killed" /\ disk' = disk
    BY <1>2 DEF CreateDirThrows, RespondSignals, ServerDies, Handling, ActiveHpcs
  <2> QED BY <2>1 DEF Quiet, FlushInv
<1>3. CASE RecvHeaderEnds(c) \/ PayloadEnds(c) \/ OpenFileFails(c)
  <2>1. /\ hpc[c] \in {"header", "payload", "open"} /\ ok' = ok /\ disk' = disk
        /\ hpc'[c] \in {"done", "respond", "open"}
    BY <1>1, <1>3 DEF RecvHeaderEnds, PayloadEnds, OpenFileFails
  <2> QED BY <1>1, <2>1 DEF Quiet, FlushInv, AckInv
<1>4. CASE Respond(c)
  <2>1. UNCHANGED <<data, ok, disk>> /\ hpc[c] = "respond" /\ hpc'[c] = "done"
    BY <1>1, <1>4 DEF Respond
  <2> QED BY <2>1 DEF Quiet, FlushInv
<1>5. CASE BufferFile(c)
  <2>1. /\ UNCHANGED <<data, disk>> /\ hpc[c] = "write" /\ hpc'[c] = "flush"
        /\ ok'[c] = TRUE /\ Buffered(c)
    BY <1>1, <1>5 DEF BufferFile
  <2> QED BY <1>1, <2>1 DEF Quiet, FlushInv, AckInv, Buffered
<1>6. ASSUME NEW n \in 1..RECV_BUF,
             \/ RecvHeaderPart(c, n) \/ RecvHeader(c, n) \/ RecvBadHeader(c, n)
             \/ RecvFatalHeader(c, n) \/ RecvPayload(c, n)
      PROVE  FlushInv(c)' /\ Quiet(c) /\ disk' = disk
  <2>1. /\ hpc[c] \in {"header", "payload"} /\ ok' = ok /\ disk' = disk
        /\ hpc'[c] \in {"header", "payload", "done", "killed"}
    BY <1>1, <1>6 DEF RecvHeaderPart, RecvHeader, RecvBadHeader, HeaderArrives, RecvFatalHeader,
         RecvPayload, ServerDies, Handling, ActiveHpcs
  <2> QED BY <1>1, <2>1 DEF Quiet, FlushInv, AckInv
<1>7. CASE OpenFile(c)
  <2>1. hpc'[c] = "write"
    BY <1>1, <1>7 DEF OpenFile
  <2> QED BY <1>7, <2>1 DEF FlushInv
<1>8. CASE WriteFile(c) \/ FlushFile(c)
  <2>1. /\ hpc'[c] = "respond"
        /\ ok'[c] = TRUE \/ (hpc[c] = "flush" /\ ok'[c] = ok[c])
    BY <1>1, <1>8 DEF WriteFile, FlushFile
  <2>2. hpc[c] = "flush" => ok[c]
    BY DEF FlushInv
  <2> QED BY <1>8, <2>1, <2>2 DEF FlushInv
<1>9. CASE WriteFileFails(c) \/ FlushFileFails(c)
  <2>1. /\ DiskFaults /\ hpc'[c] = "respond" /\ UNCHANGED <<data, ok>>
        /\ \/ hpc[c] = "write" \/ hpc[c] = "flush"
        /\ \E n \in 0..(Len(data[c]) - 1) : Put(c, n)
    BY <1>1, <1>9 DEF WriteFileFails, FlushFileFails
  <2>2. data[c] # <<>>
    BY <2>1
  <2>3. hpc[c] = "write" => ~ok[c]
    BY <1>1 DEF AckInv
  <2>4. hpc[c] = "flush" => ok[c] /\ Buffered(c)
    BY DEF FlushInv
  <2>5. Spoiled(c)'
    BY <2>1, <2>2, <2>3, <2>4 DEF Spoiled, Buffered
  <2>6. \A n \in Names \ {FileName(c)} : disk'[n] = disk[n]
    BY <1>1, <2>1 DEF Put
  <2> QED BY <2>1, <2>5, <2>6 DEF FlushInv
<1> QED BY <1>2, <1>3, <1>4, <1>5, <1>6, <1>7, <1>8, <1>9 DEF HandlerStep

LEMMA NamesStep ==
  ASSUME IInv, DirectoryInv, NamesInv, [Next]_vars
  PROVE  NamesInv'
<1>1. file' = file /\ TypeOK
  BY FilesStay DEF IInv
<1>2. CASE \A d \in Calls : ~HandlerStep(d)
  <2>1. ASSUME NEW c \in Calls
        PROVE  FlushInv(c)' /\ Quiet(c)
    <3>1. /\ UNCHANGED <<data, ok, disk>>
          /\ \/ hpc'[c] = hpc[c] \/ hpc'[c] = "killed"
             \/ conn[c] = "backlog" /\ hpc'[c] = "header"
      BY <1>1, <1>2, NoHandler
    <3>2. conn[c] = "backlog" => hpc[c] = "none" /\ ~ok[c]
      BY DEF IInv, ReceiveInv, AckInv
    <3> QED BY <3>1, <3>2 DEF NamesInv, FlushInv, Quiet, Buffered
  <2>2. \A n \in Names : disk'[n] = disk[n]
    <3>1. ASSUME NEW c \in Calls PROVE disk' = disk
      BY <1>1, <1>2, NoHandler
    <3>2. CASE Calls = {}
      <4>1. ServerExit \/ ServerStart \/ UNCHANGED vars
        BY <3>2 DEF Next
      <4>2. ServerExit => disk' = disk
        BY DEF ServerExit
      <4>3. ServerStart => disk' = disk
        BY DEF ServerStart
      <4>4. UNCHANGED vars => disk' = disk
        BY DEF vars
      <4> QED BY <4>1, <4>2, <4>3, <4>4
    <3> QED BY <3>1, <3>2
  <2>3. \A n \in Names : SharedInv(n)'
    BY <1>1, <2>1, <2>2, QuietStep DEF NamesInv, Named
  <2> QED BY <2>1, <2>3 DEF NamesInv
<1>3. ASSUME NEW c \in Calls, HandlerStep(c)
      PROVE  NamesInv'
  <2>1. FlushInv(c)'
    BY <1>1, <1>3, HandlerMoves DEF NamesInv
  <2>2. ASSUME NEW d \in Calls \ {c}
        PROVE  /\ data'[d] = data[d] /\ ok'[d] = ok[d]
               /\ hpc'[d] = hpc[d] \/ hpc'[d] = "killed"
    BY <1>1, <1>3, OtherHandler
  <2>3. \A d \in Calls : FlushInv(d)'
    BY <2>1, <2>2 DEF NamesInv, FlushInv, Buffered
  <2>4. ASSUME NEW n \in Names
        PROVE  SharedInv(n)'
    <3>1. SharedInv(n) /\ \A d \in Named(n) \ {c} : Quiet(d)
      BY <2>2 DEF NamesInv, Named, Quiet
    <3>2. CASE Quiet(c) /\ disk' = disk
      BY <1>1, <3>1, <3>2, QuietStep
    <3>3. ASSUME hpc[c] \in {"open", "write", "flush"}
          PROVE  FileName(c) = file[c].name[1]
      BY <3>3 DEF DirectoryInv, NamedInv
    <3>4. ASSUME c \notin Named(n), hpc[c] \in {"open", "write", "flush"},
                 \A m \in Names \ {FileName(c)} : disk'[m] = disk[m]
          PROVE  SharedInv(n)'
      <4>1. disk'[n] = disk[n]
        BY <3>3, <3>4 DEF Named
      <4> QED BY <1>1, <3>1, <3>4, <4>1, QuietStep
    <3>5. CASE OpenFile(c)
      <4>1. /\ hpc[c] = "open" /\ hpc'[c] = "write"
            /\ disk' = [disk EXCEPT ![FileName(c)] = <<>>] /\ disk \in [Names -> Seq(Bytes)]
        BY <1>1, <3>5 DEF OpenFile, TypeOK
      <4>2. CASE c \in Named(n)
        <5>1. disk'[n] = <<>> /\ c \in Named(n)'
          BY <1>1, <3>3, <4>1, <4>2 DEF Named
        <5> QED BY <4>1, <5>1 DEF SharedInv, BytesOfWriters, LastIsWhole
      <4>3. CASE c \notin Named(n)
        BY <3>4, <4>1, <4>3
      <4> QED BY <4>2, <4>3
    <3>6. CASE (WriteFile(c) \/ FlushFile(c)) /\ ok'[c]
      <4>1. /\ hpc[c] \in {"write", "flush"} /\ hpc' = [hpc EXCEPT ![c] = "respond"]
            /\ hpc'[c] = "respond" /\ ok'[c] /\ data' = data
            /\ \A d \in Calls \ {c} : hpc'[d] = hpc[d] /\ ok'[d] = ok[d]
            /\ Put(c, Len(data[c]))
        BY <1>1, <3>6 DEF WriteFile, FlushFile, TypeOK
      <4>2. CASE c \in Named(n)
        <5>1. disk'[n] = Overlay(SubSeq(data[c], 1, Len(data[c])), disk[n])
          BY <1>1, <3>3, <4>1, <4>2 DEF Put, Named, TypeOK
        <5> QED BY <1>1, <3>1, <4>1, <4>2, <5>1, WriterStep DEF Named
      <4>3. CASE c \notin Named(n)
        BY <1>1, <3>4, <4>1, <4>3 DEF Put, TypeOK
      <4> QED BY <4>2, <4>3
    <3>7. CASE /\ Spoiled(c)' /\ hpc[c] \in {"write", "flush"}
               /\ \A m \in Names \ {FileName(c)} : disk'[m] = disk[m]
      <4>1. c \in Named(n) => SharedInv(n)'
        BY <1>1, <3>7 DEF SharedInv, Named
      <4> QED BY <3>4, <3>7, <4>1
    <3> QED BY <1>1, <1>3, <3>2, <3>5, <3>6, <3>7, HandlerMoves DEF NamesInv
  <2> QED BY <2>3, <2>4 DEF NamesInv
<1> QED BY <1>2, <1>3

THEOREM NamesInvariance == Spec => []NamesInv
<1>1. Init => NamesInv
  <2> SUFFICES ASSUME Init PROVE NamesInv
    OBVIOUS
  <2>1. ASSUME NEW c \in Calls
        PROVE  hpc[c] = "none" /\ FlushInv(c)
    BY DEF Init, FlushInv
  <2>2. ASSUME NEW n \in Names
        PROVE  SharedInv(n)
    <3>1. Written(n) = {}
      BY <2>1 DEF Written, Named
    <3>2. disk[n] = <<>>
      BY DEF Init
    <3>3. 1..Len(disk[n]) = {}
      BY <3>2
    <3> QED BY <3>1, <3>3 DEF SharedInv, BytesOfWriters, LastIsWhole
  <2> QED BY <2>1, <2>2 DEF NamesInv
<1> QED BY <1>1, NamesStep, Invariance, DirectoryInvariance, PTL DEF Spec

(* However many calls send files of one name at once, and however their    *)
(* opens, writes and late flushes interleave: when all handlers of the     *)
(* name are at rest and some reported success, the file of one of these is *)
(* there from the beginning, and behind it only bytes of such files.       *)
THEOREM SharedOnDisk == Spec => []SharedNameKeepsOne
<1>1. IInv /\ NamesInv => SharedNameKeepsOne
  <2> SUFFICES ASSUME IInv, NamesInv, NEW n \in Names,
                      Savers(n) # {}, \A c \in Named(n) : ~Unfinished(c)
               PROVE  /\ \E c \in Savers(n) : Beginning(data[c], disk[n])
                      /\ \A i \in 1..Len(disk[n]) :
                           \E c \in Savers(n) : i <= Len(data[c]) /\ disk[n][i] = data[c][i]
    BY DEF SharedNameKeepsOne
  <2>1. ASSUME NEW c \in Named(n)
        PROVE  /\ ~Spoiled(c) /\ hpc[c] \notin {"write", "flush"}
               /\ ok[c] => hpc[c] \in {"respond", "done"}
    <3>1. c \in Calls /\ TypeOK /\ AckInv(c) /\ ~Unfinished(c)
      BY DEF Named, IInv
    <3>2. hpc[c] \in {"none", "done", "killed"} \cup ActiveHpcs
      BY <3>1 DEF TypeOK
    <3> QED BY <3>1, <3>2 DEF Spoiled, Unfinished, AckInv, ActiveHpcs
  <2>2. Written(n) = Savers(n)
    BY <2>1 DEF Written, Savers
  <2>3. BytesOfWriters(n) /\ LastIsWhole(n)
    BY <2>1 DEF NamesInv, SharedInv
  <2> QED BY <2>1, <2>2, <2>3 DEF BytesOfWriters, LastIsWhole
<1> QED BY <1>1, Invariance, NamesInvariance, PTL
=============================================================================
