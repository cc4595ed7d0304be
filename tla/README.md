# Universal Airdrop in TLA+

Universal Airdrop sends files between the machines of a local network: devices
announce themselves by UDP broadcast, a file goes over one TCP connection of its
own, in the clear or sealed with AES-256-GCM. These modules model the program, TLC
checks small instances of it, and TLAPS proves the main safety properties for every
instance.

## The system

| Part | Code | State | Operations |
|---|---|---|---|
| Protocol | `protocol.h` | none | serialize and parse an announcement, a file header |
| Crypto | `crypto.cpp` | none | seal a file with a passphrase, open it |
| TcpClient | `tcp_client.cpp` | one `send_file` call: position, socket | read, seal, connect, send header and pieces, receive the response |
| TcpServer, transfers | `tcp_server.cpp` `accept_loop`, `handle_client` | one detached thread per connection: header, payload, ok | accept, receive, open, write, respond |
| TcpServer, start and stop | `tcp_server.cpp` `start`, `stop` | listening socket, running flag, accept thread | start, stop, destroy |
| File transfer | `file_transfer.cpp` | the receive directory | read_file, write_file |
| UdpDiscovery | `udp_discovery.cpp` | two sockets, two threads, the device list | start, stop, announce, listen, callback |
| Command line | `main.cpp` | one command | discover, send, receive |
| GUI | `gui/*.cpp` | workers, device list, buttons | scan, send, receive, and the signals between threads |
| Platform layer | `platform.h` | the signal handler | close a socket, install the handler |

How they interact: a receiver runs a TcpServer and a UdpDiscovery; a sender reads
the announced address and calls `send_file`. Client and handler share nothing but
the connection. Handlers share the receive directory and the process, which an
exception or a SIGPIPE in any of them ends. UdpDiscovery's threads share the device
list under a mutex; the GUI gets its events as queued signals. All sockets of a process
share its table of descriptors, in which a closed number is given again.

What is hard: TCP cuts the stream anywhere, so header and payload arrive in any
pieces; either side may die, with a FIN, a reset or without a trace; neither side has
a timeout; `recv` and `send` fail late; handlers of one file name write over each
other; a name with a colon or a newline changes the header; a short file is judged
before it is on the disk. Announcements are lost, devices come back under other names
or share one. `stop()` closes sockets on which other threads are calling, joins threads
that may wait, and leaves handlers behind; `start()` fails half-way. The window is told
late, by queued events, what other threads did. `PROJECT.json` lists these hazards at
their lines.

## Modules

| Module | Stands for |
|---|---|
| `Numbers` | the conversions of `size_t` to `int` and `int` to `uint16_t`, with their limits as parameters |
| `Protocol` | the messages as sequences of colon-separated fields, their serializers and parsers |
| `Crypto` | what sealing and opening do to lengths, and when opening succeeds |
| `Delivery` | the abstract promise of sending files: two variables, no connections |
| `Transfer` | clients, connections, the receiving process with its handlers, the directory |
| `Discovery` | the UdpDiscovery of several devices, and the network between them |
| `Lifecycle` | one process: its TcpServers and UdpDiscoveries with their threads and descriptors, as a command or the window starts, stops and destroys them |
| `Gui` | the window: its workers, list and Send tab, the send threads, and the events between them |
| `MCTransfer`, `MCDiscovery`, `MCLifecycle`, `MCGui` | the instances TLC checks |
| `ProtocolProofs` | theorems about the parsers |
| `TransferProofs`, `DiscoveryProofs`, `LifecycleProofs`, `GuiProofs` | the inductive invariants of those modules and what follows from them |
| `DiskProofs`, `DeliveryProofs` | on top of `TransferProofs`: what the receive directory holds, and that `Transfer` keeps the promise of `Delivery` |
| `StopProofs` | on top of `LifecycleProofs`: what `stop()` leaves behind |

`Transfer` and `Discovery` extend `Protocol`, `Transfer` also `Crypto`, and it implements
`Delivery`. `Lifecycle` and `Gui` see the same program from other sides: `Lifecycle` is about
the server that `Transfer` has running, `Transfer` about the `send_file` that `Gui` calls.

### Transfer and the code

`cpc[c]` is where call `c` of `send_file` is: `start` (reading and sealing),
`connect`, `send` (header and pieces), `await` (the one `recv` for the response), or
how it ended: `success` and `failed` are true and false, `thrown` an exception that
leaves `send_file`, `signalled` SIGPIPE, `crashed` and `vanished` the death of the
process with and without a trace. `hpc[c]` is where the handler of its connection is:
`header`, `payload`, then `open`, `write`, `flush` (the three moments of
`write_file`) and `respond`; `done` when the thread returned, `killed` when its
process ended. `sent` and `consumed` count the bytes that `send` accepted and `recv`
returned; bytes are known by their position in the stream, so `payload[c]` is a
sequence of positions and a byte lost or repeated shows. `data`, `ok` and `payload`
are the variables of `handle_client`, `resp` the response on its way, `disk` what each
file name holds.

Every `send` and every `recv` returns any number of bytes the code allows: a `send`
does not go beyond its piece (`WithinPiece`), a `recv` not beyond the handler's
buffer while it reads the header, and not beyond CHUNK_SIZE and the rest of the size
in the payload. The end of the receive loops (`StreamEnded`), the parsing of what is
before the newline, the overflow behind it (`FirstPayload`), the decision of what to
write (`Rejected`, `Contents`), the write itself and the response are one action
each. `write_file` is three steps because other handlers run in between: the file is
truncated when opened; a long file is written by `ofs.write`, a short one by the
stream's destructor, after `good()` was asked.

`ServerDies` is shared by everything that ends the receiving process: the user
(`ServerExit`), an exception in a detached thread (`RecvFatalHeader`,
`CreateDirThrows`) and SIGPIPE (`RespondSignals`). It stops all handlers and closes
their connections; the kernel resets those with bytes unread and those in the
backlog.

The kernel's part is modelled from what the code can observe: a connection holds at
most SOCK_BUF bytes, at most BACKLOG connections wait for `accept`, closing with
bytes unread resets, sending to a closed end is accepted at first and answered with a
reset. A client in the backlog is connected and may send.

### Discovery and the code

`up[d]` says whether the UdpDiscovery at address `d` runs, is inside `stop()`, is off, or
its process was ended by an exception in the listen thread. `self[d]` is what it was
constructed with (name, operating system, announced port); `inbox[d]` is the queue at
`listen_sock_`, `devices_[d]` its list. `Broadcast` is a round of `broadcast_loop`: the datagram reaches any subset of
the sockets that have room, its own among them. `ListenNew`, `ListenIgnored` and
`ListenThrows` are the rounds of `listen_loop`, from `recvfrom` to the end of the locked
section. One listen thread per object writes the list, so a round is one step.

`stop()` has two outcomes. `Stop`: the thread is between two calls of `recvfrom`, or is
woken, sees `running_` and ends. `StopWaits`: it waits in `recvfrom` on an empty queue,
and `close()` does not wake it, as on Linux (CLOSE_WAKES is FALSE there); the call in
progress keeps the socket bound, and the thread ends with the next datagram
(`ListenLast`).

Addresses outside Devices send any datagrams of the set Foreign. They stand for further
devices and other programs; nothing is assumed of when or how often they send.

### Lifecycle and the code

`fd` is the process's table of descriptors: which number stands for which file. A socket is
the file named by the member that holds its number: `<<w, "accept">>` is `listen_sock_` of
worker `w`'s TcpServer, `<<w, "listen">>` and `<<w, "broadcast">>` are the two of its
UdpDiscovery; `<<c, "conn">>` is the socket of a connection. `sock` and `cfd` are the numbers
that members and handlers keep. With numbers and files apart, a number that was kept too
long is seen to stand for something else. The lowest free number is given first.

`todo` is what the main thread still has to run: calls of `start()`, and the statements of
`stop()` one by one, because the threads go on between them: `running_ = false`, `close()`,
the reset of the member, `join()`. `start()` is one step, since nobody else knows the object
until it spawns its threads. Its failures differ as in the code: `TcpServer::start` resets the
member it closed (`StartTcpFails`), `UdpDiscovery::start` does not (`StartUdpFails`).
`Failed` is what the caller does: a command gives up when the first of its two objects does
not start and ignores the second, the window ignores both. `proc` tells the window from a
command, and a command before `install_signal_handler`, which Ctrl+C kills, from one after
it, where Ctrl+C only clears `g_running`.

A thread is before its call (`call`, with the number it has read in `arg`), blocked in it
(`in`, with the file in `held`) or `ended`. Between reading the number and the call anything
may happen to the table: `Target` is what the number stands for *by then*. CLOSE_WAKES says
what `close()` does to a call of another thread on that socket: where it is FALSE, as on
Linux, the call goes on, and the socket, though it has no number any more, still listens
(`Alive`) and still takes a connection. When the last call on it returns, or when it is
closed with nobody inside, the connections in its backlog are dropped with it
(`DropUnserved`).

`con[c]` follows a connection from the backlog to its handler, which, when it has the header,
reads `receive_dir_` and `passphrase_` of the TcpServer (`settings`). `srv[c]` is that
server, or `Gone` when it was destroyed meanwhile. Senders are the sockets of `send_file`
in the same process.

### Gui and the code

All slots run on the GUI thread, and each is one action: the buttons (`StartScan`,
`StartReceiving`, `on_send_clicked`), the double-click
(`PickDevice`), the file dialog (`PickFile`), and the handlers of queued events
(`on_device_found`, `ShowProgress`, `ShowResult`, `Quit`). The slots that stop a worker are
two, because they join its threads: `StopScan` and `StopReceiving` call `stop()`,
`ScanStopped` and `ReceivingStopped` are what follows when it has returned; the destructor
is `CloseWindow` and `WindowClosed` in the same way. In between the GUI thread is `Blocked`
and takes neither a click nor an event (`Ready`), while the listen thread may finish its last
round and the send threads go on. Nothing in the model makes a `stop()` return. Other threads only append to
`events`: the listen thread when it has found a device (`Find`), a send thread for every
piece and at the end (`SendPart`, `SendEnds`). An event outlives the worker that posted it, so
that a device found before Stop may be shown after it. `known` is the list of the running
scan's UdpDiscovery, against which `listen_loop` compares; the window's own receiver
(`Own`) has another name and is found like any device.

`started` of a QThread runs in the new thread: `thread[t]` is `sending` until `send_file`
returns, and `ending` until the GUI thread has handled `quit`. A `quit()` that comes before
the thread's event loop is remembered and ends the loop when it begins (`ThreadEnds`). An
exception or SIGPIPE inside `send_file`, and closing the window, end the process with all
its threads (`End`).

### Abstractions

* The contents of a file are its positions; two files differ by their call.
* A field of a message is a text and the number `stoi` and `stoull` find at its
  beginning; formatting is not modelled, what colons and newlines do is.
* AES-GCM opens exactly what was sealed with that passphrase.
* The number of bytes of a header is the constant HEADER_LEN. The handler looks for
  the first newline: when the name has one, it finds it after EARLY_LEN bytes, and
  takes the rest of the header for the beginning of the payload.
* A datagram arrives when it is sent or never; the loss of some and not of others gives
  the reorderings a list can notice. At one address runs one UdpDiscovery. Messages
  longer than 1023 bytes, which `recvfrom` cuts, are left out.
* `Discovery` takes a `start()` that succeeds; its failures are `Lifecycle`'s subject.
* `Lifecycle` merges the test of `running_` with the read of the member that follows it
  (`Again`), and the two-second sleep of `broadcast_loop` with the call before it.
  Reads and writes of `running_` (atomic) and of the member (a data race in the code, where
  both old and new values are possible) are indivisible. A connection takes its number when
  `accept` returns with it. That a signal makes a blocked call return early (EINTR) is left
  out, it would only let `stop()` return sooner. What is transferred is left out too.
* `Gui` leaves out the text fields' contents, the passphrase, the save directory, warnings
  and labels. A device is found at most once in a scan, as `listen_loop` sees to it.
* The bytes that one `ofs.write`, or one flush, gives to the file are one step: another
  handler's bytes come before or behind them, not in their middle, as the kernel does it
  with the `write` of a regular file.
* `make_directory` before the payload, the progress callback and all printing change
  nothing a property is about.

## Runs

| Run | Checks | Shows |
|---|---|---|
| `transfer_safety` | `TypeOK`, `PayloadInOrder`, `SuccessMeansDelivered`, `SuccessMeansOnDisk`, `SharedNameKeepsOne`, `EncryptedAllOrNothing`, `PartialAckUnheard`, `NoMutualWait` | safety under every fault at once; client and handler wait for each other only over a name that damages the header |
| `transfer_live` | `HandlersFinish`, `ImplementsDelivery` | threads end, calls end, the promise is kept |
| `cut_transfer` | `AckMeansWholeFile`, violated | a cut plain file is saved and acknowledged |
| `throwing_client` | `SendFileReturns`, violated | `send_file` throws when `recv` fails |
| `colon_wait` | `SendFileEnds`, violated | a file `a:4` of two bytes: the handler waits for four, the client for the response, for ever, with no fault at all |
| `discovery` | `TypeOK`, `ListedOnce`, `ListedAsAnnounced`, `NeverSelf`, `EventuallyListed`, `StopReturnsInCompany` | what a device's list holds, that devices find each other, and that `stop()` returns while others announce themselves |
| `discovery_colon` | `ListenersSurvive`, violated | a colon in one device's name ends the others' programs |
| `lifecycle_safety` | `TypeOK`, `NumbersAreOwn`, `CallsAreOwn`, `AcceptsOwn`, `NothingLeft` | Scan and Receive of one window on one port, on Linux: nobody closes another's socket, threads keep to their own, a stopped worker leaves nothing behind |
| `lifecycle_live` | `StopReturns`, `InterruptEnds`, `BacklogIsServed` | with too few descriptors, where `close()` wakes: `stop()` returns, a command ends after Ctrl+C, a waiting connection is served |
| `lifecycle_linux` | `CtrlCEnds`, violated | on Linux a command to which nobody connects does not end after Ctrl+C |
| `lifecycle_handlers` | `HandlersHaveServer`, violated | a handler uses a TcpServer that the Stop button has destroyed |
| `gui` | `TypeOK`, `RowsAreDevices`, `NothingFoundIsLost`, `OneSendAtATime`, `ResultStays`, `ProgressGrows`, `SendButtonComesBack`, `ThreadsEnd` | every order of clicks and events: the list matches the devices behind it, one send runs at a time and what the tab shows is that send; as long as `stop()` returns to the Stop slots, the button comes back and send threads end |

**Bounds.** Two calls are enough for every property that relates handlers to each
other (all of them speak of one call or of a pair). The header has two bytes, a piece
two, the receive buffer three, so a `recv` can end inside the header, bring its last
byte alone, or bring one or two payload bytes with it; files have up to two bytes,
sealed ones up to five, so a payload needs more than one piece and more than one
`recv`. STREAM_BUF is 2: a file of one byte is flushed late, one of two is written at
once. The header of a name with a newline ends after one byte. MAX_ALLOC is 8 and
IntLimit 8, and names give sizes of 1, 4 and 9. The pairs of files that `Init` picks from
are in `MCTransfer`: plain and sealed, own and shared names, right and wrong passphrase,
empty, and seven ways a name damages its header. In the pair that shares a name one file is
written at once over the other's three bytes, so a tail can stay; in `transfer_live`'s the
short one is flushed late. The liveness run uses one pair, no salt
and no tag, and smaller buffers. `colon_wait` has one pair, a file that announces four bytes
and has two, and a clean one.

In discovery two devices run, with a third address from which come an announcement of the
same name as the second's and a datagram that is none. `d1` comes back under another name,
so that lists keep an old entry and must take a new one of the same address; `d2` has at
times a colon in its name. Lists have up to three entries at `d2` and two at `d1`, which is
what "same name, other address" and "same address, other name" need. Two datagrams fit
into a socket, so that others are lost there. CLOSE_WAKES is FALSE, the harder case.
PortLimit 16 and IntLimit 32 keep the order of the real limits.

The window has two workers at most, and `lifecycle_safety` has both, on the same port, so
that the second server cannot start while the first listens. Six sockets and a connection
leave one of eight numbers free: every closed number can be given to another's socket, none
is refused. One connection suffices to take any number at any moment; which of several has
a number makes no difference to the threads. `lifecycle_live` is the opposite: four
numbers for three sockets, a connection and a sender, so that `start()` fails at its first
socket or its second, `accept` fails, and `bind` may fail as well; one worker, since
commands have one. UdpDiscovery does not fail in `lifecycle_safety`: after such a failure
`NumbersAreOwn` is false (see below).

`gui` has one device besides the own receiver, so that a list has more than one row; two
threads, so that one ends while the next sends; two pieces, so that one progress is not the
last. MAX_EVENTS bounds the announcements that wait for the GUI thread; events of sends need
no bound.

**Deadlock** is not checked in `Transfer` and `Discovery`: a transfer system stops when all
calls have ended and the user does not restart the receiver, and a handler whose sender
vanished waits for ever. It is checked in `Lifecycle`, where another process can always
connect or the user go on, and in `Gui`.

**Fairness.** `FairSpec` of `Transfer` has weak fairness of each client, of `accept` and of
each handler: the operating system runs every thread, and TCP delivers what it has
accepted. Nothing is assumed of crashes, of the user or of which alternative a step
takes. A sender that vanishes without a trace is left out of the liveness run, since
no code on the other side would ever notice it (a hazard in the list). The promise
`Returns`, that every call ends, holds because a dying receiver closes its
connections and resets those it never accepted. It needs clean names too: a colon that makes
`header.size` too large leaves both sides waiting (`colon_wait`).

`Discovery` has weak fairness of the listen threads, and strong fairness of `Reach(d, e)`
for the pairs in Links: an announcement that is repeated every two seconds, from a device
that keeps running to a socket that has room again and again, gets through some time. A
pair outside Links may be cut off for ever. Starting, stopping and what comes from other
addresses are not fair.

`Lifecycle` has weak fairness of the main thread, of each other thread and of each handler.
`accept` of a connection is strongly fair: descriptors come and go, but the backlog is a
queue, and the connection at its head is the one the next successful `accept` takes.
Orders of the user, new connections and datagrams (`Received`) are not fair.

`Gui` has strong fairness of the GUI thread's events and weak fairness of the send threads.
The event loop delivers what was posted before it waits for the next click; a Stop slot
that waits holds the events up, so under weak fairness a user who clicks Stop again and again
would keep them from ever being handled, which the event loop does not allow. That a Stop slot returns is *not* assumed of the specification:
`SendButtonComesBack` and `ThreadsEnd` have it as their premise, `SlotsReturn`, that again
and again the GUI thread is not inside a `stop()`. Without the premise TLC violates both, by
Send, then Stop, then nothing. Where `close()` wakes blocked calls the premise holds
(`StopReturns` of `Lifecycle`); on Linux a `stop()` may last until somebody connects
(`lifecycle_linux`) or announces himself (`StopReturnsInCompany`), and then the window is
dead, its button disabled, as long. Fairness of the send threads includes that `send_file`
returns. `ImplementsDelivery` says when it does: the name is clean, and the other side
neither vanishes without a trace nor hangs with its accept loop ended or its threads stopped.
Clicks and announcements are not fair.

**True of the code but without a run.** These follow from the lines themselves:

* `cmd_receive` announces the default TCP port whatever port its server listens on, and a
  server whose `start()` failed is announced as well; the window says "Listening" whatever
  `start()` returned.
* Two senders of one name are both told of success, and the longer file's tail stays behind
  the shorter one. `SharedNameKeepsOne` bounds the damage: one of the files is there whole,
  from the beginning, and what is behind it are others' bytes in their places.
* On Linux, Send and then Stop leave the window without events until somebody connects to the
  server or announces himself: result and progress are not shown, the button stays disabled.
* A window's Scan lists its own Receive, for a UdpDiscovery knows itself only by the name.
* After a failed `UdpDiscovery::start` the members keep closed numbers, and `stop()` closes
  them again, whoever has them by then.
* While `stop()` runs, a thread that has read its member before may call with a number that
  already belongs to a connection: an announcement may be sent into it, or bytes
  received from it. `CallsAreOwn` is about the time before, `AcceptsOwn` excludes the
  worst of it.

## Refinement

`Delivery` says what sending promises: a call ends once, and with true only after the
receiver saved the whole file; the converse is not promised. `Transfer` implements it
with `outcome` read off `cpc` and `saved` true when `write_file` returned true for
the whole file. TLC checks it, with liveness, as the property `ImplementsDelivery`; TLAPS
proves its safety half for every instance (`KeepsThePromise`, below).

## Proofs

All theorems are proved from the assumptions of the modules: `LimitsAssumption`,
`ProtocolAssumption` (the type numbers fit into an int), `CryptoAssumption`,
`TransferAssumption` (a file has a name, whose first field is one of the names the
directory knows, the buffer is as large as a piece, the bounds are numbers),
`DiscoveryAssumption`, `LifecycleAssumption` (connections, senders and workers are different
things) and `GuiAssumption` (a send has at least one piece). The number of calls, devices,
workers and threads, the files, all sizes, buffers and faults are arbitrary.

`ProtocolProofs`: `FileHeaderRoundTrip`, a name without colon and newline survives
serializing, cutting at the newline and parsing, with every size; `ParsedHeaderType`,
whatever the name, parsing fails, throws, or yields a size and the sender's own
encryption flag.

`TransferProofs` proves `Invariance`, `Spec => []IInv`. `IInv` is `TypeOK` and, for
each call, three parts:

* `StreamInv`: nothing is read that was not sent, no more is sent than the stream
  has, and who waits for the response has sent it all;
* `ReceiveInv`: before the header is complete nothing is in the payload, after it the
  payload is the stream from the newline on, either as far as it was consumed or as
  far as the header's size;
* `AckInv`: from the end of the payload loop to the client's success, what the
  handler has is the whole file *or the connection was reset or closed by a client
  that had not succeeded* (`Cut`). This alternative is why `SuccessMeansDelivered` is
  not inductive by itself: a cut plain file is acknowledged, and true is kept from
  the client only because a client that caused the cut has already ended.

From `IInv` follow `TypeCorrect`, `InOrder`, `Delivered` and `NoDeadlyEmbrace`.
`NoDeadlyEmbrace` says that client and handler wait for each other only over a name with a
colon or a newline, and then only if the header announces more bytes than come behind its
first newline; the run `colon_wait` shows that this case happens. For all other names it needs
`FileHeaderRoundTrip`: the size the handler waits for is the one the client sends. `AllOrNothing` is invariant relative to `IInv`, since only the
end of the payload loop changes what is written; it needs `ParsedHeaderType`, for a
damaged header must not turn a sealed payload into a plain one.

`AckedPartly` proves `PartialAckUnheard`: a handler that acknowledges a part of a file has
been sent it in plain, and by a client that has closed the connection without success,
unless the name damaged the header. `OpenedInv` is what `AckInv` and `EncryptedAllOrNothing`
lack together: when a handler opens the file for a sealed payload it has something to write, since an
empty plaintext is taken for a failure.

`DiskProofs` proves `OnDisk`: a file reported as received is in the directory, whole, when no
other call has its name and a late flush cannot fail. `IInv` does not speak of `disk`; what
is added is `DirectoryInv`. A handler writes to the file of the *first field* of the sent
name, whatever colons do to the rest (`NamedInv`), so handlers of other names never touch
it; and for a name of one's own (`DiskInv`) the file is empty between opening and writing,
only a short file is left to the destructor's flush, and after it what was written is
there. That the file is empty in between is needed because `Overlay` writes over what is
there and keeps what goes beyond. `OwnNamesStayIntact` is the same for all calls at once: if
each has a clean name of its own and the disk has no faults, every acknowledged file is intact.

`SharedOnDisk` is about names that are not one's own. Its invariant (`NamesInvariance`, on
top of `IInv`) has for each name two parts, as long as no handler of it died in `write_file` or was failed
by the disk (`Spoiled`): every byte comes from a handler that has written (`BytesOfWriters`),
and the last to write has left its whole file at the beginning, unless somebody has opened
the file after that, and so emptied it, and is about to write (`LastIsWhole`). The second is
what makes it inductive: each write begins at the handler's own offset 0, and only opening
truncates. The theorem needs no assumption on the number of writers or their order.

`DeliveryProofs` proves `KeepsThePromise`: for clean names and lengths (`AllClean`, no
colon, no newline, no length that wraps) every step of `Transfer` is one of `Delivery`'s or a
stutter under the refinement mapping. Each fault is covered: a crash, a reset or an
exception maps to the call ending with false or without a result; that the mapped
`saved` is true whenever a client ends with true is `AckInv`. Outside `AllClean` the code
acknowledges files it saved under another name or length, which `Delivery` does not speak of.

Three findings have a theorem that marks the boundary: what the run shows can only happen
under the condition that the theorem excludes.

* `WithoutColonsListenersSurvive` (`DiscoveryProofs`): without a colon in the devices' names
  (`NoColons`, which also keeps foreign programs from sending what throws) no listener ends
  its program. `CalmInv`: what waits at any socket can be parsed.
* `SendFileReturnsUndisturbed` (`DeliveryProofs`): `send_file` throws only when `recv` fails,
  which takes a receiver that exits, is ended by an exception (a header that does not parse,
  a size above MAX_ALLOC, a directory that cannot be made) or by SIGPIPE. `Undisturbed`
  excludes these; senders may still die. `QuietInv` is the chain from there to the client: a connection is reset only when its
  own sender is dead, and closed only when its handler is done and has answered.
* `AckIsWholeUndisturbed`: if moreover no sender dies, an acknowledged file is a whole file.
  Both conditions are needed: a sender that dies cuts its own file, and a receiver that exits
  resets others.

`DiscoveryProofs` has `DiscoveryRoundTrip`, the announcement's counterpart of
`FileHeaderRoundTrip`, and `DiscoveryInvariance`, `Spec => []DInv`. `DInv` adds to the
properties of the lists that what waits at a socket is honest (`Honest`): a datagram from a
modelled device is the announcement of one of its set-ups, and a device's own datagrams are
of its *present* set-up. The latter is why `NeverSelf` holds across a change of name, where
the name alone would not tell a device its own earlier announcements: `stop()` closes the
socket with everything in it. From `DInv` follow `DiscoveryTypes`, `NobodyTwice`,
`NothingInvented` and `NotItself`. `DiscoveryAssumption` asks for names, one more limit
(a port fits into an int), and that the modelled devices' addresses are their own.

`LifecycleProofs` is about all steps but `StartUdpFails` (`NextUdpStarts`), and this
condition is necessary: `UdpDiscovery::start` leaves closed numbers in its members.
`OwnNumbers` shows `NumbersAreOwn` by `OwnInv`: in `todo` every `close` is followed by the
`reset` of the same member (`Paired`), and who keeps a number has its file. Without `Paired`
the step after a `close` could be another `start()` that takes the number which the member
still has. `AcceptOwnServer` shows `AcceptsOwn`, whose invariant `AcceptInv` says what an
accept thread's number can stand for between `close()` and `join()`: nothing, or a
connection (`Spare`), on which `accept` fails. It cannot be another worker's server, because
the main thread, the only one that starts servers, waits in `join()` until the thread has
read its member again. This is the reason why the code may reuse numbers at all.

`StopProofs` has three invariants, each on top of the one before.

* `StopInv`, for all steps, `StartUdpFails` included: in `todo` a `start()` comes before the
  statements that end what it began (`Begins`), and what is in use, a running thread, a
  kept number, a blocked call, has its ending statement in `todo` or belongs to a worker
  that is on (`Attached`). So nothing of an object that has not been started is in use, and
  no thread is started over one that was not joined. It gives `LifecycleTypes`.
* `CallInv`, for `NextUdpStarts`: while `running_` is set, the thread's number is its
  member's, and `running_ = false` comes before `close()` and the reset in `todo`. It gives
  `OwnCalls`. The order of the statements of `stop()` is what is used here.
* `LeftInv`: an open socket still has its `close()` before its reset and its `join()`
  (`Closes`); a thread's number stands for its own socket or, while its `join()` is still to
  come, for nothing or a connection (`Touches`); a connection waits only at a server that
  still listens (`Waits`). It gives `NothingStays`: when the statements have run, there is
  no thread, no socket, no blocked call and no connection left that waits for an `accept()`
  that never comes.

`GuiProofs` proves `GuiInvariance`, `Spec => []GInv`. `GInv` adds to `TypeOK` and the list's
properties `SendInv`: the button is enabled and no
send has left anything in the queue (`Calm`), or it is disabled and either one thread runs,
with no progress in the queue beyond what it has sent, or one result waits behind all
progress (`Busy`); progress lies in the queue in order (`InSequence`), and a thread is
asked to quit once (`QuitOnce`), which `TypeOK` needs. From it follow `GuiTypes`,
`RowsShowDevices`, `FoundIsShown`, `OneSendOnly`, `ResultIsLast` and `BarGrows`; the last
needs that the integer division by the number of pieces is monotonic.

Every invariant and action property of a passing run is a theorem now. Only model-checked are
the liveness properties (`HandlersFinish`, `EventuallyListed`, `StopReturnsInCompany`,
`StopReturns`, `InterruptEnds`, `BacklogIsServed`, `SendButtonComesBack`, `ThreadsEnd`) and
the liveness half of `ImplementsDelivery`: fairness and ENABLED are out of the prover's
reach. Under `StartUdpFails` `NumbersAreOwn`, `CallsAreOwn`, `AcceptsOwn` and `NothingLeft`
are false or unproved, as said above.

## Plan

Left to prove: the safety core of `StopReturns`, that whoever is in `join()` has
already cleared `running_`, closed the socket and, where `close()` wakes, woken the thread
(two more clauses on the order of `todo`, next to `Ordered`); and which of the steps that
`Undisturbed` excludes it may still allow, to make the boundary of `SendFileReturns` exact.

## Not modelled

* The cryptography: AES-GCM, the key derivation and the random numbers are OpenSSL's. The
  length that is cut to an `int` wraps only for files of 2^32 bytes, beyond the bounds.
* Widgets, layout, labels and warnings, argument parsing and printing, the name of the
  operating system, WSAStartup: they change no state that other parts read.
* `get_devices`, which copies the list, and the signal `fileReceived`, which nobody emits.
* A UDP message longer than 1023 bytes, which needs a device name of almost that length,
  and a UdpDiscovery callback that calls back into it, which no caller has.
* In the window, the send of an empty plain file, which reports no progress at all.
