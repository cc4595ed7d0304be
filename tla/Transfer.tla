------------------------------ MODULE Transfer ------------------------------
(***************************************************************************)
(* A file transfer from end to end: calls of TcpClient::send_file, the TCP *)
(* connection of each, the receiving process with its accept loop and one  *)
(* detached handle_client thread per connection, and the receive directory *)
(* those threads write to.                                                 *)
(*                                                                         *)
(* The bytes of a connection are known by their position in the stream the *)
(* client sends: 1 .. HEADER_LEN are the header with its newline, the rest  *)
(* is the payload.  What is received is a sequence of positions, so a byte *)
(* lost, repeated or taken for another one shows.  A byte on disk is       *)
(* <<c, i>>, byte i of the file call c sends, or, with i < 1, a byte of its *)
(* header.                                                                 *)
(***************************************************************************)
EXTENDS Protocol, Crypto, FiniteSets

CONSTANTS
  Calls,       \* the calls of send_file, each in a process of its own
  Workloads,   \* the assignments of files to calls that Init picks from
  Names,       \* the file names (one field each) in the receive directory
  ServerPass,  \* TcpServer::passphrase_
  HEADER_LEN,  \* bytes of a header, its newline included
  EARLY_LEN,   \* bytes up to the first newline, when the name has one
  CHUNK_SIZE,  \* bytes of a piece of the payload, on both sides
  RECV_BUF,    \* bytes of handle_client's buffer
  MAX_ALLOC,   \* the largest size vector::reserve accepts
  STREAM_BUF,  \* an ofstream holds back a file shorter than this until it closes
  SOCK_BUF,    \* bytes a connection holds between sender and receiver
  BACKLOG,     \* connections that wait for accept()
  SigPipe,     \* sending on a reset connection may kill the process (POSIX)
  DiskFaults,  \* creating, opening and writing may fail
  MayExit,     \* the user may stop and start the receiving program
  CrashModes   \* how a client process may die: with a FIN, a reset, silently

FileRecord == [name : Seq(Field), len : Nat, pass : STRING]

ASSUME TransferAssumption ==
  /\ Names \subseteq Field
  /\ Workloads \subseteq [Calls -> FileRecord]
  /\ \A w \in Workloads, c \in Calls : w[c].name # <<>> /\ w[c].name[1] \in Names
  /\ ServerPass \in STRING
  /\ HEADER_LEN \in Nat \ {0}
  /\ EARLY_LEN \in 1..HEADER_LEN
  /\ CHUNK_SIZE \in Nat \ {0}
  /\ RECV_BUF \in Nat /\ RECV_BUF >= CHUNK_SIZE
  /\ MAX_ALLOC \in Nat
  /\ STREAM_BUF \in Nat
  /\ SOCK_BUF \in Nat \ {0}
  /\ BACKLOG \in Nat \ {0}
  /\ SigPipe \in BOOLEAN
  /\ DiskFaults \in BOOLEAN
  /\ MayExit \in BOOLEAN
  /\ CrashModes \subseteq {"fin", "rst", "silent"}

VARIABLES
  file,      \* the file of each call
  srv,       \* the receiving process: "up" or "down"
  cpc,       \* where send_file is, or how it ended
  sent,      \* bytes the client's send() calls accepted
  conn,      \* the receiver's end of the connection
  rst,       \* the connection was reset
  hpc,       \* where handle_client is
  consumed,  \* bytes the handler's recv() calls returned
  payload,   \* handle_client's payload
  data,      \* what it passes to write_file
  ok,        \* handle_client's ok
  resp,      \* the response in the stream to the client
  disk       \* the receive directory; an absent file is an empty one

clientVars  == <<file, cpc, sent>>
handlerVars == <<hpc, consumed, payload, data, ok, resp>>
vars        == <<clientVars, srv, conn, rst, handlerVars, disk>>
-----------------------------------------------------------------------------
(* A run of n stream positions after position a. *)
Span(a, n) == [i \in 1..n |-> a + i]

(* Writing new at the beginning of a file that holds old. *)
Overlay(new, old) ==
  [i \in 1..(IF Len(new) < Len(old) THEN Len(old) ELSE Len(new)) |->
     IF i <= Len(new) THEN new[i] ELSE old[i]]

(* The files sent, and the payload of each: sealed with a passphrase, as   *)
(* it is without.                                                          *)
Files == {w[c] : w \in Workloads, c \in Calls}

HasPass(f) == f.pass # NoPass
WireLen(f) == IF HasPass(f) THEN SealedLen(f.len) ELSE f.len

(* The header of each file, as the handler that reads it understands it. *)
ParsedHeader ==
  [f \in Files |-> ParseFileHeader(FirstLine(SerializeFileHeader(
                     [filename |-> f.name, size |-> WireLen(f), encrypted |-> HasPass(f)])))]

Encrypted(c)  == HasPass(file[c])
PayloadLen(c) == WireLen(file[c])
StreamLen(c)  == HEADER_LEN + PayloadLen(c)
Header(c)     == ParsedHeader[file[c]]
FileBytes(c)  == [i \in 1..file[c].len |-> <<c, i>>]

(* Where the handler sees the end of the header: at its first newline. *)
HasNewline(name) == \E i \in 1..Len(name) : name[i] = Newline
HeaderEnd(c)     == IF HasNewline(file[c].name) THEN EARLY_LEN ELSE HEADER_LEN

EndedPcs  == {"success", "failed", "thrown", "signalled", "crashed", "vanished"}
Ended(c)  == cpc[c] \in EndedPcs

(* The client's socket is closed by send_file or by the end of its process; *)
(* a machine that vanished closes nothing.                                  *)
ClientClosed(c) == Ended(c) /\ cpc[c] # "vanished"

ActiveHpcs  == {"header", "payload", "open", "write", "flush", "respond"}
Handling(c) == hpc[c] \in ActiveHpcs
-----------------------------------------------------------------------------
(* TcpClient::send_file *)

(* read_file and, with a passphrase, encrypt. *)
ReadFile(c) ==
  /\ cpc[c] = "start"
  /\ cpc' = [cpc EXCEPT ![c] =
               IF Encrypted(c) /\ EncryptThrows(file[c].len) THEN "thrown" ELSE "connect"]
  /\ UNCHANGED <<file, sent, srv, conn, rst, handlerVars, disk>>

(* The file is not there, or is a directory, whose size no vector can have. *)
ReadFileFails(c) ==
  /\ DiskFaults
  /\ cpc[c] = "start"
  /\ \E how \in {"failed", "thrown"} : cpc' = [cpc EXCEPT ![c] = how]
  /\ UNCHANGED <<file, sent, srv, conn, rst, handlerVars, disk>>

Waiting == {c \in Calls : conn[c] = "backlog"}

Connect(c) ==
  /\ cpc[c] = "connect"
  /\ srv = "up"
  /\ Cardinality(Waiting) < BACKLOG
  /\ cpc' = [cpc EXCEPT ![c] = "send"]
  /\ conn' = [conn EXCEPT ![c] = "backlog"]
  /\ UNCHANGED <<file, sent, srv, rst, handlerVars, disk>>

(* The receiver is not there, is full, or cannot be reached. *)
ConnectFails(c) ==
  /\ cpc[c] = "connect"
  /\ cpc' = [cpc EXCEPT ![c] = "failed"]
  /\ UNCHANGED <<file, sent, srv, conn, rst, handlerVars, disk>>

(* One send() of send_all: the header is a piece, then every CHUNK_SIZE    *)
(* bytes of the payload; a call accepts no more than the rest of its piece.*)
WithinPiece(c, n) ==
  IF sent[c] < HEADER_LEN
  THEN sent[c] + n <= HEADER_LEN
  ELSE ((sent[c] - HEADER_LEN) % CHUNK_SIZE) + n <= CHUNK_SIZE

AfterSend(c, n) == IF sent[c] + n = StreamLen(c) THEN "await" ELSE "send"

Send(c, n) ==
  /\ cpc[c] = "send" /\ ~rst[c]
  /\ n \in 1..(StreamLen(c) - sent[c]) /\ WithinPiece(c, n)
  /\ conn[c] \in {"backlog", "open"} /\ sent[c] + n - consumed[c] <= SOCK_BUF
  /\ sent' = [sent EXCEPT ![c] = @ + n]
  /\ cpc' = [cpc EXCEPT ![c] = AfterSend(c, n)]
  /\ UNCHANGED <<file, srv, conn, rst, handlerVars, disk>>

(* The receiver has closed: the first bytes are accepted all the same, and *)
(* answered with a reset, sooner or later.                                 *)
SendToClosed(c, n) ==
  /\ cpc[c] = "send" /\ ~rst[c]
  /\ n \in 1..(StreamLen(c) - sent[c]) /\ WithinPiece(c, n)
  /\ conn[c] = "closed" /\ n <= SOCK_BUF
  /\ sent' = [sent EXCEPT ![c] = @ + n]
  /\ cpc' = [cpc EXCEPT ![c] = AfterSend(c, n)]
  /\ \E b \in BOOLEAN : rst' = [rst EXCEPT ![c] = b]
  /\ UNCHANGED <<file, srv, conn, handlerVars, disk>>

(* send() on a reset connection: an error, or SIGPIPE for the process. *)
SendFails(c) ==
  /\ cpc[c] = "send" /\ rst[c]
  /\ cpc' = [cpc EXCEPT ![c] = "failed"]
  /\ UNCHANGED <<file, sent, srv, conn, rst, handlerVars, disk>>

SendSignals(c) ==
  /\ SigPipe
  /\ cpc[c] = "send" /\ rst[c]
  /\ cpc' = [cpc EXCEPT ![c] = "signalled"]
  /\ UNCHANGED <<file, sent, srv, conn, rst, handlerVars, disk>>

(* The one recv() for the response, and what each of its results leads to. *)
RecvResponse(c) ==
  /\ cpc[c] = "await" /\ resp[c] # "none"
  /\ cpc' = [cpc EXCEPT ![c] = IF resp[c] = "ACK" THEN "success" ELSE "failed"]
  /\ UNCHANGED <<file, sent, srv, conn, rst, handlerVars, disk>>

(* Only the bytes before the message type have arrived. *)
RecvPart(c) ==
  /\ cpc[c] = "await" /\ resp[c] # "none"
  /\ cpc' = [cpc EXCEPT ![c] = "failed"]
  /\ UNCHANGED <<file, sent, srv, conn, rst, handlerVars, disk>>

(* A mutant: the end of the stream is taken for an ACK. *)
RecvEndIsSuccess(c) ==
  /\ cpc[c] = "await" /\ conn[c] = "closed" /\ resp[c] = "none"
  /\ cpc' = [cpc EXCEPT ![c] = "success"]
  /\ UNCHANGED <<file, sent, srv, conn, rst, handlerVars, disk>>

RecvEnd(c) ==
  /\ cpc[c] = "await" /\ conn[c] = "closed" /\ resp[c] = "none"
  /\ cpc' = [cpc EXCEPT ![c] = "failed"]
  /\ UNCHANGED <<file, sent, srv, conn, rst, handlerVars, disk>>

(* recv() returns -1, with which std::string resp(resp_buf, resp_len) throws. *)
RecvError(c) ==
  /\ cpc[c] = "await" /\ rst[c]
  /\ cpc' = [cpc EXCEPT ![c] = "thrown"]
  /\ UNCHANGED <<file, sent, srv, conn, rst, handlerVars, disk>>

ClientCrash(c, mode) ==
  /\ cpc[c] \in {"send", "await"}
  /\ cpc' = [cpc EXCEPT ![c] = IF mode = "silent" THEN "vanished" ELSE "crashed"]
  /\ rst' = [rst EXCEPT ![c] = @ \/ mode = "rst"]
  /\ UNCHANGED <<file, sent, srv, conn, handlerVars, disk>>

ClientStep(c) ==
  \/ ReadFile(c) \/ ReadFileFails(c) \/ Connect(c) \/ ConnectFails(c)
  \/ \E n \in 1..StreamLen(c) : Send(c, n) \/ SendToClosed(c, n)
  \/ SendFails(c) \/ SendSignals(c)
  \/ RecvResponse(c) \/ RecvPart(c) \/ RecvEnd(c) \/ RecvError(c)
-----------------------------------------------------------------------------
(* TcpServer::accept_loop and TcpServer::handle_client *)

Accept(c) ==
  /\ srv = "up" /\ conn[c] = "backlog"
  /\ conn' = [conn EXCEPT ![c] = "open"]
  /\ hpc' = [hpc EXCEPT ![c] = "header"]
  /\ UNCHANGED <<clientVars, srv, rst, consumed, payload, data, ok, resp, disk>>

(* A mutant: only a negative result of recv() ends the loops. *)
StreamReset(c) == rst[c]

(* recv() returns 0 or less: the sender has closed and everything is read, *)
(* or the connection was reset.                                            *)
StreamEnded(c) == rst[c] \/ (ClientClosed(c) /\ consumed[c] = sent[c])

(* SOCK_CLOSE by the handler; closing with bytes unread resets. *)
Close(c, unread) ==
  /\ conn' = [conn EXCEPT ![c] = "closed"]
  /\ rst' = [rst EXCEPT ![c] = @ \/ unread]

(* The receiving process ends: at the user's wish, by an exception that    *)
(* leaves a detached thread, or by a signal.  Every handler stops where it *)
(* is, the kernel closes the connections and resets those with bytes that  *)
(* nobody has read and those not accepted yet.                             *)
ServerDies ==
  /\ srv' = "down"
  /\ hpc' = [c \in Calls |-> IF Handling(c) THEN "killed" ELSE hpc[c]]
  /\ conn' = [c \in Calls |-> IF conn[c] = "none" THEN "none" ELSE "closed"]
  /\ rst' = [c \in Calls |-> \/ rst[c]
                             \/ conn[c] = "backlog"
                             \/ conn[c] = "open" /\ consumed'[c] < sent[c]]

RecvHeaderEnds(c) ==
  /\ hpc[c] = "header" /\ StreamEnded(c)
  /\ hpc' = [hpc EXCEPT ![c] = "done"]
  /\ Close(c, consumed[c] < sent[c])
  /\ UNCHANGED <<clientVars, srv, consumed, payload, data, ok, resp, disk>>

(* recv() returns the next n bytes. *)
Recv(c, n) ==
  /\ n \in 1..(sent[c] - consumed[c])
  /\ consumed' = [consumed EXCEPT ![c] = @ + n]

RecvHeaderPart(c, n) ==
  /\ hpc[c] = "header" /\ n <= RECV_BUF
  /\ consumed[c] + n < HeaderEnd(c)
  /\ Recv(c, n)
  /\ UNCHANGED <<clientVars, srv, conn, rst, hpc, payload, data, ok, resp, disk>>

(* The newline is among the n bytes.  Those after it, the overflow, begin  *)
(* the payload.                                                            *)
HeaderArrives(c, n) ==
  /\ hpc[c] = "header" /\ n <= RECV_BUF
  /\ consumed[c] + n >= HeaderEnd(c)
  /\ Recv(c, n)

HeaderThrows(c) == \/ Header(c).status = "throws"
                   \/ Header(c).status = "ok" /\ Header(c).size > MAX_ALLOC

(* Mutants: the overflow is forgotten, or is the whole chunk. *)
NoOverflow(c, n) == <<>>
WholeChunk(c, n) == Span(consumed[c], n)

FirstPayload(c, n) ==
  LET overflow == consumed[c] + n - HeaderEnd(c)
  IN  Span(HeaderEnd(c), IF overflow < Header(c).size THEN overflow ELSE Header(c).size)

RecvHeader(c, n) ==
  /\ HeaderArrives(c, n)
  /\ Header(c).status = "ok" /\ ~HeaderThrows(c)
  /\ payload' = [payload EXCEPT ![c] = FirstPayload(c, n)]
  /\ hpc' = [hpc EXCEPT ![c] = "payload"]
  /\ UNCHANGED <<clientVars, srv, conn, rst, data, ok, resp, disk>>

RecvBadHeader(c, n) ==
  /\ HeaderArrives(c, n)
  /\ Header(c).status = "malformed"
  /\ hpc' = [hpc EXCEPT ![c] = "done"]
  /\ Close(c, consumed[c] + n < sent[c])
  /\ UNCHANGED <<clientVars, srv, payload, data, ok, resp, disk>>

(* stoi, stoull or reserve throws in the detached thread: std::terminate. *)
RecvFatalHeader(c, n) ==
  /\ HeaderArrives(c, n)
  /\ HeaderThrows(c)
  /\ UNCHANGED <<clientVars, payload, data, ok, resp, disk>>
  /\ ServerDies

Received(c) == Len(payload[c])

RecvPayload(c, n) ==
  /\ hpc[c] = "payload"
  /\ n <= CHUNK_SIZE /\ n <= Header(c).size - Received(c)
  /\ Recv(c, n)
  /\ payload' = [payload EXCEPT ![c] = @ \o Span(consumed[c], n)]
  /\ UNCHANGED <<clientVars, srv, conn, rst, hpc, data, ok, resp, disk>>

(* A mutant: the result of EVP_DecryptFinal_ex is not looked at. *)
TagUnchecked(c) == TRUE

(* AES-GCM: every byte the client sealed, and the client's passphrase. *)
Authentic(c) == /\ payload[c] = Span(HEADER_LEN, PayloadLen(c))
                /\ ServerPass = file[c].pass

Decrypted(c) == IF ServerPass = NoPass
                THEN 0
                ELSE OpenedLen(Received(c), Authentic(c))

Rejected(c) == Header(c).encrypted /\ Decrypted(c) = 0

(* The bytes the handler has for write_file. *)
Contents(c) == IF Header(c).encrypted
               THEN [i \in 1..Decrypted(c) |-> <<c, i>>]
               ELSE [i \in 1..Received(c) |-> <<c, payload[c][i] - HEADER_LEN>>]

(* A mutant: after a failed decryption the file is removed. *)
PayloadEndsRemoves(c) ==
  /\ hpc[c] = "payload"
  /\ Received(c) >= Header(c).size \/ StreamEnded(c)
  /\ hpc' = [hpc EXCEPT ![c] = IF Rejected(c) THEN "respond" ELSE "open"]
  /\ data' = [data EXCEPT ![c] = IF Rejected(c) THEN @ ELSE Contents(c)]
  /\ disk' = [disk EXCEPT ![Header(c).filename] = IF Rejected(c) THEN <<>> ELSE @]
  /\ UNCHANGED <<clientVars, srv, conn, rst, consumed, payload, ok, resp>>

(* The payload loop ends, whether the size is reached or the stream ends. *)
PayloadEnds(c) ==
  /\ hpc[c] = "payload"
  /\ Received(c) >= Header(c).size \/ StreamEnded(c)
  /\ hpc' = [hpc EXCEPT ![c] = IF Rejected(c) THEN "respond" ELSE "open"]
  /\ data' = [data EXCEPT ![c] = IF Rejected(c) THEN @ ELSE Contents(c)]
  /\ UNCHANGED <<clientVars, srv, conn, rst, consumed, payload, ok, resp, disk>>
-----------------------------------------------------------------------------
(* write_file *)

FileName(c) == Header(c).filename

(* The first n bytes of data reach the file, from its beginning. *)
Put(c, n) ==
  disk' = [disk EXCEPT ![FileName(c)] = Overlay(SubSeq(data[c], 1, n), @)]

(* The directory exists or is created; opening truncates the file. *)
OpenFile(c) ==
  /\ hpc[c] = "open"
  /\ disk' = [disk EXCEPT ![FileName(c)] = <<>>]
  /\ hpc' = [hpc EXCEPT ![c] = "write"]
  /\ UNCHANGED <<clientVars, srv, conn, rst, consumed, payload, data, ok, resp>>

OpenFileFails(c) ==
  /\ DiskFaults
  /\ hpc[c] = "open"
  /\ hpc' = [hpc EXCEPT ![c] = "respond"]
  /\ UNCHANGED <<clientVars, srv, conn, rst, consumed, payload, data, ok, resp, disk>>

(* create_directories throws a filesystem_error in the detached thread. *)
CreateDirThrows(c) ==
  /\ DiskFaults
  /\ hpc[c] = "open"
  /\ UNCHANGED <<clientVars, consumed, payload, data, ok, resp, disk>>
  /\ ServerDies

Buffered(c) == Len(data[c]) < STREAM_BUF

(* ofs.write and ofs.good(): a long file goes to the disk at once. *)
WriteFile(c) ==
  /\ hpc[c] = "write" /\ ~Buffered(c)
  /\ Put(c, Len(data[c]))
  /\ ok' = [ok EXCEPT ![c] = TRUE]
  /\ hpc' = [hpc EXCEPT ![c] = "respond"]
  /\ UNCHANGED <<clientVars, srv, conn, rst, consumed, payload, data, resp>>

(* A mutant: write_file returns true without asking ofs.good(). *)
WriteFileUnchecked(c) ==
  /\ DiskFaults
  /\ hpc[c] = "write" /\ ~Buffered(c)
  /\ \E n \in 0..(Len(data[c]) - 1) : Put(c, n)
  /\ ok' = [ok EXCEPT ![c] = TRUE]
  /\ hpc' = [hpc EXCEPT ![c] = "respond"]
  /\ UNCHANGED <<clientVars, srv, conn, rst, consumed, payload, data, resp>>

WriteFileFails(c) ==
  /\ DiskFaults
  /\ hpc[c] = "write" /\ ~Buffered(c)
  /\ \E n \in 0..(Len(data[c]) - 1) : Put(c, n)
  /\ hpc' = [hpc EXCEPT ![c] = "respond"]
  /\ UNCHANGED <<clientVars, srv, conn, rst, consumed, payload, data, ok, resp>>

(* A short one stays in the stream, which is good whatever the disk says. *)
BufferFile(c) ==
  /\ hpc[c] = "write" /\ Buffered(c)
  /\ ok' = [ok EXCEPT ![c] = TRUE]
  /\ hpc' = [hpc EXCEPT ![c] = "flush"]
  /\ UNCHANGED <<clientVars, srv, conn, rst, consumed, payload, data, resp, disk>>

(* The ofstream's destructor writes it, and tells nobody when it cannot. *)
FlushFile(c) ==
  /\ hpc[c] = "flush"
  /\ Put(c, Len(data[c]))
  /\ hpc' = [hpc EXCEPT ![c] = "respond"]
  /\ UNCHANGED <<clientVars, srv, conn, rst, consumed, payload, data, ok, resp>>

FlushFileFails(c) ==
  /\ DiskFaults
  /\ hpc[c] = "flush"
  /\ \E n \in 0..(Len(data[c]) - 1) : Put(c, n)
  /\ hpc' = [hpc EXCEPT ![c] = "respond"]
  /\ UNCHANGED <<clientVars, srv, conn, rst, consumed, payload, data, ok, resp>>
-----------------------------------------------------------------------------
(* A mutant: the response is ACK whatever write_file returned. *)
RespondAck(c) ==
  /\ hpc[c] = "respond"
  /\ resp' = [resp EXCEPT ![c] = IF rst[c] THEN @ ELSE "ACK"]
  /\ hpc' = [hpc EXCEPT ![c] = "done"]
  /\ Close(c, consumed[c] < sent[c])
  /\ UNCHANGED <<clientVars, srv, consumed, payload, data, ok, disk>>

(* The response and SOCK_CLOSE at the end of handle_client; send's result   *)
(* is not looked at.  On a reset connection nothing is sent.                *)
Respond(c) ==
  /\ hpc[c] = "respond"
  /\ resp' = [resp EXCEPT ![c] = IF rst[c] THEN @ ELSE IF ok[c] THEN "ACK" ELSE "ERR"]
  /\ hpc' = [hpc EXCEPT ![c] = "done"]
  /\ Close(c, consumed[c] < sent[c])
  /\ UNCHANGED <<clientVars, srv, consumed, payload, data, ok, disk>>

RespondSignals(c) ==
  /\ SigPipe
  /\ hpc[c] = "respond" /\ rst[c]
  /\ UNCHANGED <<clientVars, consumed, payload, data, ok, resp, disk>>
  /\ ServerDies

HandlerStep(c) ==
  \/ RecvHeaderEnds(c)
  \/ \E n \in 1..RECV_BUF : \/ RecvHeaderPart(c, n) \/ RecvHeader(c, n)
                            \/ RecvBadHeader(c, n) \/ RecvFatalHeader(c, n)
                            \/ RecvPayload(c, n)
  \/ PayloadEnds(c)
  \/ OpenFile(c) \/ OpenFileFails(c) \/ CreateDirThrows(c)
  \/ WriteFile(c) \/ WriteFileFails(c)
  \/ BufferFile(c) \/ FlushFile(c) \/ FlushFileFails(c)
  \/ Respond(c) \/ RespondSignals(c)

(* The user stops the receiving program, or starts it again. *)
ServerExit ==
  /\ MayExit /\ srv = "up"
  /\ UNCHANGED <<clientVars, consumed, payload, data, ok, resp, disk>>
  /\ ServerDies

ServerStart ==
  /\ MayExit /\ srv = "down"
  /\ srv' = "up"
  /\ UNCHANGED <<clientVars, conn, rst, handlerVars, disk>>
-----------------------------------------------------------------------------
Init ==
  /\ file \in Workloads
  /\ srv = "up"
  /\ cpc = [c \in Calls |-> "start"]
  /\ sent = [c \in Calls |-> 0]
  /\ conn = [c \in Calls |-> "none"]
  /\ rst = [c \in Calls |-> FALSE]
  /\ hpc = [c \in Calls |-> "none"]
  /\ consumed = [c \in Calls |-> 0]
  /\ payload = [c \in Calls |-> <<>>]
  /\ data = [c \in Calls |-> <<>>]
  /\ ok = [c \in Calls |-> FALSE]
  /\ resp = [c \in Calls |-> "none"]
  /\ disk = [n \in Names |-> <<>>]

Next ==
  \/ \E c \in Calls : \/ ClientStep(c)
                      \/ \E mode \in CrashModes : ClientCrash(c, mode)
                      \/ Accept(c)
                      \/ HandlerStep(c)
  \/ ServerExit
  \/ ServerStart

(* The scheduler runs every thread, and TCP delivers what it has accepted. *)
Fairness == \A c \in Calls : /\ WF_vars(ClientStep(c))
                             /\ WF_vars(Accept(c))
                             /\ WF_vars(HandlerStep(c))

Spec == Init /\ [][Next]_vars
FairSpec == Spec /\ Fairness
-----------------------------------------------------------------------------
(* Properties *)

Bytes == Calls \X {i \in Int : i > EARLY_LEN - HEADER_LEN}

TypeOK ==
  /\ file \in Workloads
  /\ srv \in {"up", "down"}
  /\ cpc \in [Calls -> {"start", "connect", "send", "await"} \cup EndedPcs]
  /\ sent \in [Calls -> Nat]
  /\ conn \in [Calls -> {"none", "backlog", "open", "closed"}]
  /\ rst \in [Calls -> BOOLEAN]
  /\ hpc \in [Calls -> {"none", "done", "killed"} \cup ActiveHpcs]
  /\ consumed \in [Calls -> Nat]
  /\ payload \in [Calls -> Seq({p \in Nat : p > EARLY_LEN})]
  /\ data \in [Calls -> Seq(Bytes)]
  /\ ok \in [Calls -> BOOLEAN]
  /\ resp \in [Calls -> {"none", "ACK", "ERR"}]
  /\ disk \in [Names -> Seq(Bytes)]

(* The file of c has a name its header can carry, and a length that can be *)
(* encrypted.                                                              *)
WellNamed(c) == Len(file[c].name) = 1 /\ file[c].name[1] # Newline
Fits(c)      == Encrypted(c) => file[c].len < IntLimit
Whole(c)     == data[c] = FileBytes(c)

(* However recv() cuts the stream, and whatever of the payload arrives     *)
(* together with the header, the handler holds the first bytes after the   *)
(* newline, in order, none missing and none twice.                         *)
PayloadInOrder == \A c \in Calls : payload[c] = Span(HeaderEnd(c), Received(c))

(* Of a file whose name has no colon and no newline (WellNamed), and whose *)
(* length fits into an int when it is sealed (Fits): send_file returns     *)
(* true only if the handler had the very bytes of the file for write_file  *)
(* and write_file returned true.  It is the promise of FILE_ACK, seen from *)
(* the sender, through crashes and resets.                                 *)
SuccessMeansDelivered ==
  \A c \in Calls : cpc[c] = "success" /\ WellNamed(c) /\ Fits(c) => ok[c] /\ Whole(c)

(* When nobody else sends a file of that name, and it is not a short file  *)
(* whose write at closing went wrong, the file is then on the disk.        *)
NameIsOwn(c) == \A d \in Calls \ {c} : file[d].name[1] # file[c].name[1]

SuccessMeansOnDisk ==
  \A c \in Calls :
    /\ cpc[c] = "success" /\ WellNamed(c) /\ Fits(c)
    /\ NameIsOwn(c)
    /\ DiskFaults => ~Buffered(c)
    => disk[FileName(c)] = FileBytes(c)

(* Two senders of one name may leave a mixture, but never less than one    *)
(* file: at rest, when some handler of the name has reported success, what *)
(* one of those had is there, whole, from the beginning, and behind it are *)
(* only bytes of the others, each at its place.  Left out are names of     *)
(* which a handler died in write_file or the disk failed.                  *)
Named(n)   == {c \in Calls : file[c].name[1] = n}
Savers(n)  == {c \in Named(n) : ok[c]}
Beginning(s, t) == Len(s) <= Len(t) /\ \A i \in 1..Len(s) : t[i] = s[i]

Unfinished(c) == \/ hpc[c] \in {"write", "flush", "killed"}
                 \/ /\ DiskFaults /\ hpc[c] \in {"respond", "done"}
                    /\ IF ok[c] THEN Buffered(c) ELSE data[c] # <<>>

SharedNameKeepsOne ==
  \A n \in Names :
    Savers(n) # {} /\ (\A c \in Named(n) : ~Unfinished(c)) =>
      /\ \E c \in Savers(n) : Beginning(data[c], disk[n])
      /\ \A i \in 1..Len(disk[n]) :
           \E c \in Savers(n) : i <= Len(data[c]) /\ disk[n][i] = data[c][i]

(* Of an encrypted file the handler writes all or nothing, and only with   *)
(* the sender's passphrase: a cut transfer or a wrong passphrase never     *)
(* leaves a part of the plaintext, whatever the name does to the header.   *)
EncryptedAllOrNothing ==
  \A c \in Calls :
    Encrypted(c) /\ Fits(c) /\ data[c] # <<>> => Whole(c) /\ ServerPass = file[c].pass

(* A part of a file is acknowledged only when it was sent in plain, and    *)
(* then only to a sender that can no longer hear it, unless the file's     *)
(* name damaged its header: how far the FILE_ACK of a cut file goes.       *)
PartialAckUnheard ==
  \A c \in Calls :
    resp[c] = "ACK" /\ Fits(c) /\ ~Whole(c) =>
      /\ ~Encrypted(c)
      /\ WellNamed(c) => ClientClosed(c) /\ cpc[c] # "success"

(* The client waits for the response while the handler, having read all    *)
(* there is, waits for more of the payload: neither has a timeout.         *)
WaitForEachOther(c) ==
  /\ cpc[c] = "await" /\ hpc[c] = "payload"
  /\ consumed[c] = sent[c] /\ Received(c) < Header(c).size

(* Only a name with a colon or a newline makes client and handler wait for *)
(* each other, and only one that makes the header announce more bytes than *)
(* come after its first newline: with every other file, however the stream *)
(* is cut, whoever waits is waited for by nobody.                          *)
NoMutualWait ==
  \A c \in Calls :
    WaitForEachOther(c) =>
      ~WellNamed(c) /\ Header(c).size > StreamLen(c) - HeaderEnd(c)

(* Every handler thread ends. *)
HandlersFinish == \A c \in Calls : Handling(c) ~> ~Handling(c)

(* The transfer implements what sending promises: a step of it is a step   *)
(* of Delivery or changes nothing there, and every call ends.              *)
Outcome(c) == CASE cpc[c] = "success" -> "success"
                [] cpc[c] = "failed"  -> "failure"
                [] cpc[c] \in EndedPcs \ {"success", "failed"} -> "aborted"
                [] OTHER -> "pending"

Promise == INSTANCE Delivery WITH outcome <- [c \in Calls |-> Outcome(c)],
                                  saved   <- [c \in Calls |-> ok[c] /\ Whole(c)]

ImplementsDelivery == Promise!Spec
-----------------------------------------------------------------------------
(* What the comments of the code say and the code does not do *)

(* "FILE_ACK: receiver confirms successful file save" (protocol.h): no ACK *)
(* for a file of which only a part is there.                               *)
AckMeansWholeFile == \A c \in Calls : resp[c] = "ACK" => Whole(c)

(* "true if the server acknowledged success, false otherwise" (TcpClient): *)
(* send_file returns, it does not throw.                                   *)
SendFileReturns == \A c \in Calls : cpc[c] # "thrown"

(* "Waits for an ACK or ERR response from the server. Closes the           *)
(* connection and returns success/failure" (TcpClient): with both programs *)
(* and the network working, send_file ends.                                *)
SendFileEnds == \A c \in Calls : <>Ended(c)

(* "multiple file transfers can happen simultaneously" (TcpServer): when   *)
(* every call succeeded, each file name holds a file that was sent.        *)
AckedFilesAreIntact ==
  (\A c \in Calls : cpc[c] = "success") =>
    \A c \in Calls : \E d \in Calls : /\ FileName(d) = FileName(c)
                                      /\ disk[FileName(c)] = FileBytes(d)
=============================================================================
