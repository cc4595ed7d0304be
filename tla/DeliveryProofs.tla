--------------------------- MODULE DeliveryProofs ---------------------------
(***************************************************************************)
(* Transfer implements Delivery: seen through the refinement mapping that  *)
(* Transfer gives, every step of a client, a handler or the receiving      *)
(* process is a step of Delivery or changes nothing there.  And what the   *)
(* program's own comments say, where nothing disturbs the transfers.       *)
(***************************************************************************)
EXTENDS TransferProofs

(* No name with a colon or a newline, no length that wraps around: only of *)
(* such files the code can promise that what is saved is the whole.        *)
AllClean == \A c \in Calls : Clean(c)

Saved(c)    == ok[c] /\ Whole(c)
SamePromise == /\ \A c \in Calls : Outcome(c)' = Outcome(c)
               /\ \A c \in Calls : Saved(c)' = Saved(c)

(* The steps of Delivery, in the terms of the mapping. *)
LEMMA SaveMaps ==
  ASSUME NEW c \in Calls, ~Saved(c), Saved(c)',
         \A d \in Calls : Outcome(d)' = Outcome(d),
         \A d \in Calls \ {c} : Saved(d)' = Saved(d)
  PROVE  Promise!Next
<1>1. Saved(c)' = TRUE /\ Saved(c) = FALSE
  BY DEF Saved
<1>2. Promise!Save(c)
  BY <1>1 DEF Promise!Save, Saved
<1> QED BY <1>2 DEF Promise!Next

LEMMA FinishMaps ==
  ASSUME NEW c \in Calls, NEW how \in {"success", "failure", "aborted"},
         Outcome(c) = "pending", Outcome(c)' = how, how = "success" => Saved(c),
         \A d \in Calls \ {c} : Outcome(d)' = Outcome(d),
         \A d \in Calls : Saved(d)' = Saved(d)
  PROVE  Promise!Next
<1>1. Promise!End(c, how)
  BY DEF Promise!End, Saved
<1> QED BY <1>1 DEF Promise!Next, Promise!Finish

LEMMA SamePromiseStutters ==
  ASSUME SamePromise
  PROVE  UNCHANGED Promise!vars
BY DEF SamePromise, Saved, Promise!vars
-----------------------------------------------------------------------------
LEMMA InitMaps == Init => Promise!Init
<1> SUFFICES ASSUME Init PROVE Promise!Init
  OBVIOUS
<1>1. \A c \in Calls : Outcome(c) = "pending" /\ Saved(c) = FALSE
  BY DEF Init, Outcome, Saved, EndedPcs
<1> QED BY <1>1 DEF Promise!Init, Saved

(* A step that leaves program counters, data and verdicts alone. *)
LEMMA UnseenStep ==
  ASSUME UNCHANGED <<file, cpc, data, ok>>
  PROVE  SamePromise
BY SameFiles DEF SamePromise, Outcome, Saved, Whole

(* The client of c ends, or goes on. *)
LEMMA ClientMaps ==
  ASSUME IInv, NEW c \in Calls, NEW to, UNCHANGED <<file, data, ok>>,
         cpc' = [cpc EXCEPT ![c] = to],
         cpc[c] \in {"start", "connect", "send", "await"},
         to \in {"connect", "send", "await"} \cup EndedPcs,
         to = "success" => Saved(c)
  PROVE  Promise!Next \/ SamePromise
<1>1. cpc'[c] = to /\ \A d \in Calls \ {c} : cpc'[d] = cpc[d]
  BY DEF IInv, TypeOK
<1>2. \A d \in Calls : Saved(d)' = Saved(d)
  BY SameFiles DEF Saved, Whole
<1>3. \A d \in Calls \ {c} : Outcome(d)' = Outcome(d)
  BY <1>1 DEF Outcome
<1>4. Outcome(c) = "pending"
  BY DEF Outcome, EndedPcs
<1>5. CASE to \in {"connect", "send", "await"}
  <2>1. Outcome(c)' = "pending"
    BY <1>1, <1>5 DEF Outcome, EndedPcs
  <2> QED BY <1>2, <1>3, <1>4, <2>1 DEF SamePromise
<1>6. CASE to \in EndedPcs
  <2>1. \/ Outcome(c)' = "success" /\ to = "success"
        \/ Outcome(c)' = "failure"
        \/ Outcome(c)' = "aborted"
    BY <1>1, <1>6 DEF Outcome, EndedPcs
  <2> QED BY <1>2, <1>3, <1>4, <2>1, FinishMaps
<1> QED BY <1>5, <1>6

LEMMA ClientStepMaps ==
  ASSUME IInv, AllClean, NEW c \in Calls, ClientStep(c)
  PROVE  Promise!Next \/ SamePromise
<1> USE DEF handlerVars
<1>1. CASE RecvResponse(c)
  <2> DEFINE to == IF resp[c] = "ACK" THEN "success" ELSE "failed"
  <2>1. /\ cpc[c] = "await" /\ UNCHANGED <<file, data, ok>>
        /\ cpc' = [cpc EXCEPT ![c] = to] /\ to \in EndedPcs
    BY <1>1 DEF RecvResponse, EndedPcs
  <2>2. resp[c] = "ACK" => Saved(c)
    BY <2>1 DEF IInv, AckInv, AllClean, Gone, Saved
  <2> QED BY <2>1, <2>2, ClientMaps
<1>2. CASE ~RecvResponse(c)
  <2>1. /\ cpc[c] \in {"start", "connect", "send", "await"}
        /\ UNCHANGED <<file, data, ok>>
        /\ \E to \in {"connect", "send", "await"} \cup (EndedPcs \ {"success"}) :
             cpc' = [cpc EXCEPT ![c] = to]
    BY <1>2 DEF ClientStep, ReadFile, ReadFileFails, Connect, ConnectFails, Send, SendToClosed,
         AfterSend, SendFails, SendSignals, RecvPart, RecvEnd, RecvError, EndedPcs
  <2> QED BY <2>1, ClientMaps
<1> QED BY <1>1, <1>2

LEMMA CrashMaps ==
  ASSUME IInv, NEW c \in Calls, NEW mode, ClientCrash(c, mode)
  PROVE  Promise!Next \/ SamePromise
<1> DEFINE to == IF mode = "silent" THEN "vanished" ELSE "crashed"
<1>1. /\ cpc[c] \in {"send", "await"} /\ UNCHANGED <<file, data, ok>>
      /\ cpc' = [cpc EXCEPT ![c] = to] /\ to \in EndedPcs \ {"success"}
  BY DEF ClientCrash, handlerVars, EndedPcs
<1> QED BY <1>1, ClientMaps

(* write_file returns true: the file is saved, if it is the whole.         *)
LEMMA WriteMaps ==
  ASSUME IInv, NEW c \in Calls, WriteFile(c) \/ BufferFile(c)
  PROVE  Promise!Next \/ SamePromise
<1>1. /\ UNCHANGED <<file, cpc, data>> /\ ok' = [ok EXCEPT ![c] = TRUE] /\ hpc[c] = "write"
  BY DEF WriteFile, BufferFile, clientVars
<1>2. ~ok[c] /\ ok'[c] /\ \A d \in Calls \ {c} : ok'[d] = ok[d]
  BY <1>1 DEF IInv, TypeOK, AckInv
<1>3. \A d \in Calls : Whole(d)' = Whole(d) /\ Outcome(d)' = Outcome(d)
  BY <1>1, SameFiles DEF Whole, Outcome
<1>4. ~Saved(c) /\ \A d \in Calls \ {c} : Saved(d)' = Saved(d)
  BY <1>2, <1>3 DEF Saved
<1>5. CASE Whole(c)
  <2>1. Saved(c)'
    BY <1>2, <1>3, <1>5 DEF Saved
  <2> QED BY <1>3, <1>4, <2>1, SaveMaps
<1>6. CASE ~Whole(c)
  <2>1. Saved(c)' = FALSE /\ Saved(c) = FALSE
    BY <1>3, <1>6 DEF Saved
  <2> QED BY <1>3, <1>4, <2>1 DEF SamePromise
<1> QED BY <1>5, <1>6

(* The payload is complete, and nothing is saved yet. *)
LEMMA PayloadEndsMaps ==
  ASSUME IInv, NEW c \in Calls, PayloadEnds(c)
  PROVE  SamePromise
<1>1. UNCHANGED <<file, cpc, ok>> /\ hpc[c] = "payload"
  BY DEF PayloadEnds, clientVars
<1>2. \A d \in Calls : Outcome(d)' = Outcome(d)
  BY <1>1 DEF Outcome
<1>3. ~ok[c] /\ \A d \in Calls \ {c} : data'[d] = data[d]
  BY <1>1 DEF IInv, TypeOK, AckInv, PayloadEnds
<1>4. ASSUME NEW d \in Calls PROVE Saved(d)' = Saved(d)
  <2>1. CASE d = c
    BY <1>1, <1>3, <2>1 DEF Saved
  <2>2. CASE d # c
    BY <1>1, <1>3, <2>2, SameFiles DEF Saved, Whole
  <2> QED BY <2>1, <2>2
<1> QED BY <1>2, <1>4 DEF SamePromise

LEMMA HandlerStepMaps ==
  ASSUME IInv, NEW c \in Calls, HandlerStep(c)
  PROVE  Promise!Next \/ SamePromise
<1>1. CASE WriteFile(c) \/ BufferFile(c)
  BY <1>1, WriteMaps
<1>2. CASE PayloadEnds(c)
  BY <1>2, PayloadEndsMaps
<1>3. CASE ~(WriteFile(c) \/ BufferFile(c) \/ PayloadEnds(c))
  <2>1. UNCHANGED <<file, cpc, data, ok>>
    BY <1>3 DEF HandlerStep, RecvHeaderEnds, RecvHeaderPart, RecvHeader, RecvBadHeader,
         RecvFatalHeader, RecvPayload, OpenFile, OpenFileFails, CreateDirThrows,
         WriteFileFails, FlushFile, FlushFileFails, Respond, RespondSignals, clientVars
  <2> QED BY <2>1, UnseenStep
<1> QED BY <1>1, <1>2, <1>3

LEMMA NextMaps ==
  ASSUME IInv, AllClean, [Next]_vars
  PROVE  Promise!Next \/ SamePromise
<1>1. ASSUME NEW c \in Calls, Accept(c) PROVE UNCHANGED <<file, cpc, data, ok>>
  BY <1>1 DEF Accept, clientVars
<1>2. CASE ServerExit \/ ServerStart \/ UNCHANGED vars
  <2>1. UNCHANGED <<file, cpc, data, ok>>
    BY <1>2 DEF ServerExit, ServerStart, vars, clientVars, handlerVars
  <2> QED BY <2>1, UnseenStep
<1> QED BY <1>1, <1>2, UnseenStep, ClientStepMaps, CrashMaps, HandlerStepMaps DEF Next

(* Sending clean files is what Delivery promises: each call ends once, a   *)
(* file is saved once and stays so, and a call ends with true only when    *)
(* the receiver has saved the whole file.                                  *)
THEOREM KeepsThePromise == Spec /\ AllClean => Promise!Safety
<1>1. AllClean /\ [Next]_vars => AllClean'
  BY FilesStay, SameFiles DEF AllClean
<1>2. IInv /\ AllClean /\ [Next]_vars => [Promise!Next]_(Promise!vars)
  BY NextMaps, SamePromiseStutters
<1> QED BY <1>1, <1>2, InitMaps, Invariance, PTL DEF Spec, Promise!Safety
-----------------------------------------------------------------------------
(* Undisturbed transfers: names and lengths that are clean, sizes a vector *)
(* can have, a disk that works, a receiver that is not stopped, and no     *)
(* SIGPIPE.  Clients may still crash, in every way.                        *)
Undisturbed ==
  /\ AllClean /\ \A c \in Calls : PayloadLen(c) <= MAX_ALLOC
  /\ ~DiskFaults /\ ~MayExit /\ ~SigPipe

Dead(c) == cpc[c] \in {"crashed", "vanished"}

(* Then only the death of its own client resets a connection; the handler  *)
(* closes it only when it has read everything, and a client that failed    *)
(* has not connected or was answered.                                      *)
QuietInv(c) ==
  /\ rst[c] => Dead(c)
  /\ cpc[c] \notin {"thrown", "signalled"}
  /\ cpc[c] = "failed" => hpc[c] = "done" \/ conn[c] = "none"
  /\ conn[c] = "closed" => hpc[c] = "done"
  /\ hpc[c] = "payload" => consumed[c] = HEADER_LEN + Received(c)
  /\ hpc[c] \in {"open", "write", "flush", "respond", "done"} =>
       consumed[c] = StreamLen(c) \/ Dead(c)
  /\ ok[c] => Whole(c) \/ Dead(c)

Same(c) ==
  /\ cpc'[c] = cpc[c] /\ sent'[c] = sent[c] /\ conn'[c] = conn[c] /\ rst'[c] = rst[c]
  /\ hpc'[c] = hpc[c] /\ consumed'[c] = consumed[c] /\ payload'[c] = payload[c]
  /\ data'[c] = data[c] /\ ok'[c] = ok[c]

LEMMA StaysUndisturbed == Undisturbed /\ [Next]_vars => Undisturbed'
BY FilesStay, SameFiles DEF Undisturbed, AllClean

(* Who has read a byte knows the header the sender wrote. *)
LEMMA CleanHeader ==
  ASSUME IInv, Undisturbed, NEW c \in Calls, sent[c] > 0
  PROVE  /\ Header(c).status = "ok" /\ Header(c).size = PayloadLen(c)
         /\ PayloadLen(c) \in Nat /\ ~HeaderThrows(c)
         /\ HeaderEnd(c) = HEADER_LEN /\ HEADER_LEN \in Nat \ {0}
         /\ StreamLen(c) = HEADER_LEN + PayloadLen(c)
<1>1. WellNamed(c) /\ PayloadLen(c) <= MAX_ALLOC /\ MAX_ALLOC \in Nat
  BY TransferAssumption DEF Undisturbed, AllClean, Clean
<1>2. PayloadLen(c) \in Nat /\ Header(c).status = "ok" /\ Header(c).size = PayloadLen(c)
  BY <1>1, SentHeader DEF IInv
<1>3. ~HeaderThrows(c)
  BY <1>1, <1>2 DEF HeaderThrows
<1> QED BY <1>1, <1>2, <1>3, HeaderEndFacts, StreamLenType, TransferAssumption DEF IInv

LEMMA HeadersAreRead ==
  ASSUME IInv, Undisturbed, NEW c \in Calls, NEW n
  PROVE  ~RecvFatalHeader(c, n) /\ ~RecvBadHeader(c, n)
<1>1. ASSUME HeaderArrives(c, n)
      PROVE  sent[c] > 0
  <2>1. n \in Nat \ {0} /\ consumed[c] + n <= sent[c] /\ consumed[c] \in Nat /\ sent[c] \in Nat
    BY <1>1, RecvFacts DEF HeaderArrives, IInv, TypeOK
  <2> QED BY <2>1
<1>2. ASSUME HeaderArrives(c, n)
      PROVE  ~HeaderThrows(c) /\ Header(c).status # "malformed"
  BY <1>1, <1>2, CleanHeader
<1> QED BY <1>2 DEF RecvFatalHeader, RecvBadHeader

(* No process dies but those of clients, so no step reaches another call. *)
LEMMA ElsewhereSame ==
  ASSUME IInv, Undisturbed, [Next]_vars, NEW d \in Calls,
         ~ClientStep(d), \A mode \in CrashModes : ~ClientCrash(d, mode),
         ~Accept(d), ~HandlerStep(d)
  PROVE  Same(d)
<1> USE DEF clientVars, handlerVars, Same, IInv, TypeOK
<1>1. ASSUME NEW c \in Calls, c # d, ClientStep(c)
      PROVE  Same(d)
  BY <1>1 DEF ClientStep, ReadFile, ReadFileFails, Connect, ConnectFails, Send,
       SendToClosed, SendFails, SendSignals, RecvResponse, RecvPart, RecvEnd, RecvError
<1>2. ASSUME NEW c \in Calls, c # d, NEW mode, ClientCrash(c, mode) \/ Accept(c)
      PROVE  Same(d)
  BY <1>2 DEF ClientCrash, Accept
<1>3. ASSUME NEW c \in Calls, c # d, HandlerStep(c)
      PROVE  Same(d)
  <2>1. ~CreateDirThrows(c) /\ ~RespondSignals(c)
    BY DEF Undisturbed, CreateDirThrows, RespondSignals
  <2>2. \A n : ~RecvFatalHeader(c, n)
    BY HeadersAreRead
  <2>3. CASE \E n \in 1..RECV_BUF : RecvHeaderPart(c, n) \/ RecvHeader(c, n) \/ RecvBadHeader(c, n)
                                  \/ RecvPayload(c, n)
    BY <1>3, <2>3 DEF RecvHeaderPart, RecvHeader, HeaderArrives, RecvBadHeader, RecvPayload,
         Recv, Close
  <2>4. CASE ~\E n \in 1..RECV_BUF : RecvHeaderPart(c, n) \/ RecvHeader(c, n) \/ RecvBadHeader(c, n)
                                   \/ RecvPayload(c, n)
    BY <1>3, <2>1, <2>2, <2>4 DEF HandlerStep, RecvHeaderEnds, PayloadEnds, OpenFile, OpenFileFails,
         WriteFile, WriteFileFails, BufferFile, FlushFile, FlushFileFails, Respond, Close
  <2> QED BY <2>3, <2>4
<1>4. ~ServerExit /\ ~ServerStart
  BY DEF Undisturbed, ServerExit, ServerStart
<1>5. CASE UNCHANGED vars
  BY <1>5 DEF vars
<1> QED BY <1>1, <1>2, <1>3, <1>4, <1>5 DEF Next

(* A client that still runs was not reset, and one that sends finds the    *)
(* connection open.                                                        *)
LEMMA ClientQuiet ==
  ASSUME IInv, Undisturbed, NEW c \in Calls, QuietInv(c), ClientStep(c)
  PROVE  QuietInv(c)'
<1> USE DEF clientVars, handlerVars
<1>1. TypeOK /\ StreamInv(c) /\ ReceiveInv(c) /\ AckInv(c)
  BY DEF IInv
<1>2. file' = file /\ UNCHANGED handlerVars
  BY DEF ClientStep, ReadFile, ReadFileFails, Connect, ConnectFails, Send,
       SendToClosed, SendFails, SendSignals, RecvResponse, RecvPart, RecvEnd, RecvError
<1>3. StreamLen(c)' = StreamLen(c) /\ Whole(c)' = Whole(c) /\ Received(c)' = Received(c)
  BY <1>2, SameFiles DEF Whole, Received
<1>4. ASSUME rst'[c] = rst[c], ~Dead(c),
             conn'[c] = conn[c] \/ conn'[c] = "backlog",
             cpc'[c] \notin {"thrown", "signalled"},
             cpc'[c] = "failed" => hpc[c] = "done" \/ conn'[c] = "none"
      PROVE  QuietInv(c)'
  <2>1. rst'[c] => Dead(c)'
    BY <1>4 DEF QuietInv
  <2> QED BY <1>2, <1>3, <1>4, <2>1 DEF QuietInv
<1>5. ~rst[c] \/ Dead(c)
  BY DEF QuietInv
<1>6. CASE ReadFile(c)
  <2>1. ~(Encrypted(c) /\ EncryptThrows(file[c].len))
    <3>1. Fits(c) /\ file[c] \in Files
      BY <1>1, StreamLenType DEF Undisturbed, AllClean, Clean
    <3>2. file[c].len \in Nat
      BY <3>1, FileFacts
    <3> QED BY <3>1, <3>2, ToIntFacts DEF EncryptThrows, Fits
  <2>2. cpc[c] = "start" /\ cpc'[c] = "connect" /\ rst' = rst /\ conn' = conn
    BY <1>1, <1>6, <2>1 DEF ReadFile, TypeOK
  <2> QED BY <1>4, <2>2 DEF Dead
<1>7. CASE Connect(c) \/ ConnectFails(c)
  <2>1. /\ cpc[c] = "connect" /\ rst' = rst /\ conn[c] = "none"
        /\ \/ cpc'[c] = "send" /\ conn'[c] = "backlog"
           \/ cpc'[c] = "failed" /\ conn' = conn
    BY <1>1, <1>7 DEF Connect, ConnectFails, TypeOK, StreamInv
  <2> QED BY <1>4, <2>1 DEF Dead
<1>8. CASE \E n \in 1..StreamLen(c) : Send(c, n)
  <2>1. cpc[c] = "send" /\ cpc'[c] \in {"send", "await"} /\ rst' = rst /\ conn' = conn
    BY <1>1, <1>8 DEF Send, AfterSend, TypeOK
  <2> QED BY <1>4, <2>1 DEF Dead
<1>9. ASSUME NEW n, SendToClosed(c, n)
      PROVE  FALSE
  <2>1. hpc[c] = "done" /\ cpc[c] = "send" /\ n \in 1..(StreamLen(c) - sent[c])
    BY <1>9 DEF SendToClosed, QuietInv
  <2>2. consumed[c] = StreamLen(c) /\ consumed[c] <= sent[c] /\ sent[c] \in Nat
    BY <1>1, <2>1 DEF QuietInv, Dead, StreamInv, TypeOK
  <2>3. StreamLen(c) \in Int
    BY <1>1, StreamLenType
  <2> QED BY <2>1, <2>2, <2>3
<1>10. ~ReadFileFails(c)
  BY DEF Undisturbed, ReadFileFails
<1>11. ~SendFails(c) /\ ~SendSignals(c) /\ ~RecvError(c)
  BY <1>5 DEF SendFails, SendSignals, RecvError, Dead
<1>12. CASE RecvResponse(c) \/ RecvPart(c)
  <2>1. /\ cpc[c] = "await" /\ cpc'[c] \in {"success", "failed"} /\ hpc[c] = "done"
        /\ rst' = rst /\ conn' = conn
    BY <1>1, <1>12 DEF RecvResponse, RecvPart, TypeOK, AckInv
  <2> QED BY <1>4, <2>1 DEF Dead
<1>13. CASE RecvEnd(c)
  <2>1. /\ cpc[c] = "await" /\ cpc'[c] = "failed" /\ conn[c] = "closed"
        /\ rst' = rst /\ conn' = conn
    BY <1>1, <1>13 DEF RecvEnd, TypeOK
  <2>2. hpc[c] = "done"
    BY <2>1 DEF QuietInv
  <2> QED BY <1>4, <2>1, <2>2 DEF Dead
<1> QED BY <1>6, <1>7, <1>8, <1>9, <1>10, <1>11, <1>12, <1>13 DEF ClientStep

(* The handler reads on until it has everything or the client is dead. *)
LEMMA EndOfStream ==
  ASSUME IInv, Undisturbed, NEW c \in Calls, QuietInv(c),
         hpc[c] \in {"header", "payload"}, StreamEnded(c)
  PROVE  Dead(c)
<1>1. conn[c] # "none" /\ cpc[c] # "success"
  BY DEF IInv, ReceiveInv, AckInv
<1>2. cpc[c] # "failed"
  BY <1>1 DEF QuietInv
<1> QED BY <1>1, <1>2 DEF StreamEnded, ClientClosed, Ended, EndedPcs, QuietInv, Dead

LEMMA HandlerQuiet ==
  ASSUME IInv, Undisturbed, NEW c \in Calls, QuietInv(c), HandlerStep(c)
  PROVE  QuietInv(c)'
<1> USE DEF clientVars
<1>1. TypeOK /\ StreamInv(c) /\ ReceiveInv(c) /\ AckInv(c)
  BY DEF IInv
<1>2. /\ consumed[c] \in Nat /\ sent[c] \in Nat /\ consumed[c] <= sent[c]
      /\ sent[c] > 0 => sent[c] <= StreamLen(c)
  BY <1>1 DEF TypeOK, StreamInv
<1>3. UNCHANGED <<file, cpc, sent>>
  BY DEF HandlerStep, RecvHeaderEnds, RecvHeaderPart, RecvHeader, RecvBadHeader,
       RecvFatalHeader, RecvPayload, PayloadEnds, OpenFile, OpenFileFails,
       CreateDirThrows, WriteFile, WriteFileFails, BufferFile, FlushFile, FlushFileFails,
       Respond, RespondSignals
<1>4. StreamLen(c)' = StreamLen(c) /\ FileBytes(c)' = FileBytes(c) /\ Dead(c)' = Dead(c)
  BY <1>3, SameFiles DEF Dead
<1>5. CASE RecvHeaderEnds(c)
  <2>1. Dead(c)
    BY <1>5, EndOfStream DEF RecvHeaderEnds
  <2>2. hpc'[c] = "done" /\ ok' = ok
    BY <1>1, <1>5 DEF RecvHeaderEnds, TypeOK
  <2> QED BY <1>3, <1>4, <2>1, <2>2 DEF QuietInv, Dead
<1>6. ASSUME NEW n \in 1..RECV_BUF, RecvHeaderPart(c, n)
      PROVE  QuietInv(c)'
  <2>1. hpc[c] = "header" /\ UNCHANGED <<conn, rst, hpc, data, ok>>
    BY <1>6 DEF RecvHeaderPart
  <2> QED BY <1>3, <1>4, <2>1 DEF QuietInv, Whole
<1>7. ASSUME NEW n \in 1..RECV_BUF, RecvHeader(c, n)
      PROVE  QuietInv(c)'
  <2>1. /\ n \in Nat \ {0} /\ consumed'[c] = consumed[c] + n /\ consumed[c] + n <= sent[c]
        /\ consumed[c] + n >= HeaderEnd(c)
    BY <1>1, <1>7, RecvFacts DEF RecvHeader, HeaderArrives, TypeOK
  <2>2. /\ Header(c).size = PayloadLen(c) /\ PayloadLen(c) \in Nat
        /\ HeaderEnd(c) = HEADER_LEN /\ HEADER_LEN \in Nat
        /\ StreamLen(c) = HEADER_LEN + PayloadLen(c)
    <3>1. sent[c] > 0
      BY <1>2, <2>1
    <3> QED BY <3>1, CleanHeader
  <2> DEFINE k == consumed[c] + n - HEADER_LEN
  <2>3. k \in Nat /\ k <= PayloadLen(c) /\ consumed'[c] = HEADER_LEN + k
    BY <1>2, <2>1, <2>2
  <2>4. payload'[c] = Span(HEADER_LEN, k)
    <3>1. FirstPayload(c, n) = Span(HEADER_LEN, IF k < PayloadLen(c) THEN k ELSE PayloadLen(c))
      BY <2>2 DEF FirstPayload
    <3>2. (IF k < PayloadLen(c) THEN k ELSE PayloadLen(c)) = k
      BY <2>2, <2>3
    <3> QED BY <1>1, <1>7, <3>1, <3>2 DEF RecvHeader, TypeOK
  <2> HIDE DEF k
  <2>5. Received(c)' = k
    <3>1. Len(Span(HEADER_LEN, k)) = k
      BY ONLY <2>2, <2>3, SpanFacts
    <3> QED BY <2>4, <3>1 DEF Received
  <2>6. hpc'[c] = "payload" /\ hpc[c] = "header" /\ UNCHANGED <<conn, rst, data, ok>>
    BY <1>1, <1>7 DEF RecvHeader, HeaderArrives, TypeOK
  <2> QED BY <1>1, <1>3, <1>4, <2>3, <2>5, <2>6 DEF QuietInv, AckInv, ReceiveInv
<1>8. ASSUME NEW n \in 1..RECV_BUF, RecvPayload(c, n)
      PROVE  QuietInv(c)'
  <2>1. /\ n \in Nat \ {0} /\ consumed'[c] = consumed[c] + n
        /\ payload'[c] = payload[c] \o Span(consumed[c], n)
        /\ hpc[c] = "payload" /\ UNCHANGED <<conn, rst, hpc, data, ok>>
    BY <1>1, <1>8, RecvFacts DEF RecvPayload, TypeOK
  <2>2. /\ consumed[c] = HEADER_LEN + Received(c) /\ Received(c) \in Nat
        /\ HEADER_LEN \in Nat /\ HeaderEnd(c) = HEADER_LEN
        /\ payload[c] = Span(HEADER_LEN, Received(c))
    BY <1>1, <2>1, TransferAssumption, HeaderEndFacts
    DEF QuietInv, ReceiveInv, TypeOK, Received, Undisturbed, AllClean, Clean
  <2>3. Received(c)' = Received(c) + n
    <3> DEFINE k == Received(c)
    <3>1. k \in Nat /\ n \in Nat /\ k + n \in Nat /\ HEADER_LEN \in Nat
      BY <2>1, <2>2
    <3>2. payload'[c] = Span(HEADER_LEN, k) \o Span(HEADER_LEN + k, n)
      BY <2>1, <2>2
    <3> HIDE DEF k
    <3>3. Span(HEADER_LEN, k) \o Span(HEADER_LEN + k, n) = Span(HEADER_LEN, k + n)
      BY ONLY <3>1, SpanConcat
    <3>4. Len(Span(HEADER_LEN, k + n)) = k + n
      BY ONLY <3>1, SpanFacts
    <3> QED BY <3>2, <3>3, <3>4 DEF Received, k
  <2>4. consumed'[c] = HEADER_LEN + Received(c)'
    BY <2>1, <2>2, <2>3
  <2> QED BY <1>1, <1>3, <1>4, <2>1, <2>4 DEF QuietInv, AckInv
<1>9. CASE PayloadEnds(c)
  <2>1. hpc[c] = "payload" /\ ~ok[c] /\ UNCHANGED <<conn, rst, ok, consumed>>
        /\ hpc'[c] \in {"respond", "open"}
    BY <1>1, <1>9 DEF PayloadEnds, AckInv, TypeOK
  <2>2. consumed[c] = StreamLen(c) \/ Dead(c)
    <3>1. CASE StreamEnded(c)
      BY <2>1, <3>1, EndOfStream
    <3>2. CASE Received(c) >= Header(c).size
      <4>1. sent[c] > 0 /\ consumed[c] = HEADER_LEN + Received(c) /\ Received(c) \in Nat
        BY <1>1, <1>2, <2>1, TransferAssumption DEF QuietInv, TypeOK, Received
      <4> QED BY <1>2, <3>2, <4>1, CleanHeader
    <3> QED BY <1>9, <3>1, <3>2 DEF PayloadEnds
  <2> QED BY <1>1, <1>3, <1>4, <2>1, <2>2 DEF QuietInv, ReceiveInv, AckInv
<1>10. CASE OpenFile(c) \/ FlushFile(c)
  <2>1. /\ hpc[c] \in {"open", "flush"} /\ hpc'[c] \in {"write", "respond"}
        /\ UNCHANGED <<conn, rst, data, ok, consumed>>
    BY <1>1, <1>10 DEF OpenFile, FlushFile, TypeOK
  <2> QED BY <1>3, <1>4, <2>1 DEF QuietInv, Whole
<1>11. CASE WriteFile(c) \/ BufferFile(c)
  <2>1. /\ hpc[c] = "write" /\ hpc'[c] \in {"flush", "respond"}
        /\ UNCHANGED <<conn, rst, data, consumed>>
    BY <1>1, <1>11 DEF WriteFile, BufferFile, TypeOK
  <2>2. Whole(c) \/ Cut(c)
    BY <1>1, <2>1 DEF AckInv, Undisturbed, AllClean
  <2>3. conn[c] # "none"
    BY <1>1, <2>1 DEF ReceiveInv
  <2>4. Whole(c) \/ Dead(c)
    BY <2>1, <2>2, <2>3 DEF QuietInv, Cut, Gone, Dead
  <2> QED BY <1>3, <1>4, <2>1, <2>3, <2>4 DEF QuietInv, Whole
<1>12. CASE Respond(c)
  <2>1. /\ hpc[c] = "respond" /\ hpc'[c] = "done" /\ UNCHANGED <<data, ok, consumed>>
        /\ rst'[c] => rst[c] \/ consumed[c] < sent[c]
    BY <1>1, <1>12 DEF Respond, Close, TypeOK
  <2>2. consumed[c] = StreamLen(c) \/ Dead(c)
    BY <2>1 DEF QuietInv
  <2>3. consumed[c] < sent[c] => Dead(c)
    BY <1>2, <2>2
  <2> QED BY <1>3, <1>4, <2>1, <2>2, <2>3 DEF QuietInv, Whole
<1>13. ~OpenFileFails(c) /\ ~CreateDirThrows(c) /\ ~WriteFileFails(c) /\ ~FlushFileFails(c)
       /\ ~RespondSignals(c)
  BY DEF Undisturbed, OpenFileFails, CreateDirThrows, WriteFileFails, FlushFileFails, RespondSignals
<1> QED BY <1>5, <1>6, <1>7, <1>8, <1>9, <1>10, <1>11, <1>12, <1>13, HeadersAreRead DEF HandlerStep

LEMMA QuietStep ==
  ASSUME IInv, Undisturbed, [Next]_vars, NEW c \in Calls, QuietInv(c)
  PROVE  QuietInv(c)'
<1>1. file' = file /\ StreamLen(c)' = StreamLen(c) /\ FileBytes(c)' = FileBytes(c)
  BY FilesStay, SameFiles
<1>2. CASE Same(c)
  BY <1>1, <1>2 DEF Same, QuietInv, Dead, Received, Whole
<1>3. ASSUME NEW mode \in CrashModes, ClientCrash(c, mode)
      PROVE  QuietInv(c)'
  <2>1. Dead(c)' /\ UNCHANGED <<conn, handlerVars>>
    BY <1>3 DEF ClientCrash, Dead, IInv, TypeOK
  <2> QED BY <1>1, <2>1 DEF QuietInv, Dead, handlerVars, Received
<1>4. CASE Accept(c)
  <2>1. /\ conn[c] = "backlog" /\ conn'[c] = "open" /\ hpc'[c] = "header"
        /\ UNCHANGED <<cpc, rst, ok, data>>
    BY <1>4 DEF Accept, IInv, TypeOK, clientVars
  <2>2. hpc[c] = "none" /\ cpc[c] # "failed"
    BY <2>1 DEF IInv, ReceiveInv, QuietInv
  <2> QED BY <1>1, <2>1, <2>2 DEF QuietInv, Dead, Whole
<1> QED BY <1>2, <1>3, <1>4, ElsewhereSame, ClientQuiet, HandlerQuiet

LEMMA QuietInvariance == Spec /\ Undisturbed => [](\A c \in Calls : QuietInv(c))
<1> DEFINE Quiet == \A c \in Calls : QuietInv(c)
<1>1. Init => Quiet
  BY DEF Init, QuietInv
<1>2. IInv /\ Undisturbed /\ Quiet /\ [Next]_vars => Quiet'
  BY QuietStep
<1> HIDE DEF Quiet
<1>3. Spec /\ Undisturbed => []Quiet
  BY <1>1, <1>2, StaysUndisturbed, Invariance, PTL DEF Spec
<1> QED BY <1>3 DEF Quiet

(* What makes send_file throw is one of these disturbances: without them   *)
(* it returns, however many other clients die, and in whichever way.       *)
THEOREM SendFileReturnsUndisturbed == Spec /\ Undisturbed => []SendFileReturns
<1>1. (\A c \in Calls : QuietInv(c)) => SendFileReturns
  BY DEF QuietInv, SendFileReturns
<1> QED BY <1>1, QuietInvariance, PTL

(* And an ACK is that of a whole file when no sender dies either.          *)
THEOREM AckIsWholeUndisturbed ==
  Spec /\ Undisturbed /\ CrashModes = {} => []AckMeansWholeFile
<1> DEFINE NoCrash == CrashModes = {}
           Alive == \A c \in Calls : ~Dead(c)
           Quiet == \A c \in Calls : QuietInv(c)
<1>1. Init => Alive
  BY DEF Init, Dead
<1>2. NoCrash /\ IInv /\ Undisturbed /\ Quiet /\ Alive /\ [Next]_vars => Alive'
  <2> SUFFICES ASSUME NoCrash, IInv, Undisturbed, Quiet, Alive, [Next]_vars, NEW c \in Calls
               PROVE  ~Dead(c)'
    OBVIOUS
  <2>1. CASE ClientStep(c)
    BY <2>1 DEF ClientStep, ReadFile, ReadFileFails, Connect, ConnectFails, Send, SendToClosed,
         AfterSend, SendFails, SendSignals, RecvResponse, RecvPart, RecvEnd, RecvError,
         Dead, IInv, TypeOK
  <2>2. CASE Accept(c) \/ HandlerStep(c)
    <3>1. cpc' = cpc
      BY <2>2 DEF Accept, HandlerStep, RecvHeaderEnds, RecvHeaderPart, RecvHeader, RecvBadHeader,
           RecvFatalHeader, RecvPayload, PayloadEnds, OpenFile, OpenFileFails,
           CreateDirThrows, WriteFile, WriteFileFails, BufferFile, FlushFile, FlushFileFails,
           Respond, RespondSignals, clientVars
    <3> QED BY <3>1 DEF Dead
  <2>3. CASE Same(c)
    BY <2>3 DEF Same, Dead
  <2> QED BY <2>1, <2>2, <2>3, ElsewhereSame
<1>3. IInv /\ Quiet /\ Alive => AckMeansWholeFile
  BY DEF IInv, AckInv, QuietInv, AckMeansWholeFile
<1>4. NoCrash => NoCrash'
  OBVIOUS
<1>5. Spec /\ Undisturbed => []Quiet
  BY QuietInvariance
<1> HIDE DEF NoCrash, Alive, Quiet
<1>6. Spec /\ Undisturbed /\ NoCrash => []AckMeansWholeFile
  BY <1>1, <1>2, <1>3, <1>4, <1>5, StaysUndisturbed, Invariance, PTL DEF Spec
<1> QED BY <1>6 DEF NoCrash
=============================================================================
