----------------------------- MODULE Lifecycle -----------------------------
(***************************************************************************)
(* One process of the program: the sockets and threads of its TcpServers   *)
(* and UdpDiscoveries, as main.cpp (one command) or the window (a          *)
(* DiscoveryWorker and a ReceiveWorker) starts, stops and destroys them.   *)
(*                                                                         *)
(* A descriptor is a number, an entry of the process's table; what it       *)
(* stands for is a file.  A socket is the file <<w, role>> of the worker w  *)
(* whose member holds its number, a connection's is <<c, "conn">>.  Numbers *)
(* are given again as soon as they are free, the lowest first.             *)
(*                                                                         *)
(* start() is one step: until it spawns its threads only its own thread    *)
(* knows the object.  stop() is one step per statement.                    *)
(***************************************************************************)
EXTENDS Naturals, Sequences

CONSTANTS
  Workers,      \* the commands a user may run, or the workers of the window
  Kind,         \* "discover" starts the UdpDiscovery first, "receive" the TcpServer
  Port,         \* the port of each worker's TcpServer
  Conns,        \* connections of other devices to this process
  Senders,      \* sockets of send_file in this process
  MAX_FD,       \* descriptors the process may have
  BindFails,    \* whose bind() may fail: "udp", "tcp"
  CLOSE_WAKES,  \* close() ends the calls on a socket: not on Linux
  Gone          \* in place of a destroyed TcpServer

Loops   == Workers \X {"accept", "broadcast", "listen"}
Objects == Workers \X {"tcp", "udp"}
Users   == Conns \cup Senders

ASSUME LifecycleAssumption ==
  /\ Kind \in [Workers -> {"discover", "receive"}]
  /\ Conns \cap Senders = {} /\ Workers \cap Users = {}
  /\ MAX_FD \in Nat
  /\ BindFails \subseteq {"udp", "tcp"}
  /\ CLOSE_WAKES \in BOOLEAN
  /\ Gone \notin Workers

VARIABLES
  proc,     \* "ended", a "window", or a "command", which is later "handling"
            \* signals and "interrupted"
  wst,      \* whether each worker's objects exist
  todo,     \* the statements the main thread still has to run
  fd,       \* the table of descriptors
  sock,     \* listen_sock_ and broadcast_sock_ of each thread's object
  running,  \* running_ of each object
  lpc,      \* where each thread is: before its call, in it, ended, joined
  arg,      \* the number it has read for the call
  held,     \* the file it is blocked on
  con,      \* where the user of a connection or socket is
  srv,      \* the server a connection waits at, then whose handler has it
  cfd       \* the number its user keeps

mainVars == <<proc, wst, todo>>
loopVars == <<lpc, arg, held>>
conVars  == <<con, srv, cfd>>
vars     == <<mainVars, fd, sock, running, loopVars, conVars>>
-----------------------------------------------------------------------------
(* The table of descriptors *)

NUMBERS      == 1..MAX_FD
INVALID_SOCK == 0
Free         == <<>>
Files        == Loops \cup (Users \X {"conn"})

Full(t)    == \A n \in NUMBERS : t[n] # Free
Lowest(t)  == CHOOSE n \in NUMBERS : t[n] = Free /\ \A m \in 1..(n - 1) : t[m] # Free
Opened(f)  == [fd EXCEPT ![Lowest(fd)] = f]
IsOpen(f)  == \E n \in NUMBERS : fd[n] = f

(* A call of another thread keeps a closed socket alive. *)
Alive(f) == IsOpen(f) \/ \E l \in Loops : held[l] = f

(* close(n), which may do nothing, and may end the calls that are blocked. *)
CloseNumber(n) ==
  /\ fd' = [m \in NUMBERS |-> IF m = n THEN Free ELSE fd[m]]
  /\ held' = [l \in Loops |-> IF CLOSE_WAKES /\ n \in NUMBERS /\ held[l] = fd[n]
                              THEN Free ELSE held[l]]

Accept(w)    == <<w, "accept">>
Broadcast(w) == <<w, "broadcast">>
Listen(w)    == <<w, "listen">>
Udp(w)       == <<w, "udp">>
Tcp(w)       == <<w, "tcp">>
Object(l)    == IF l[2] = "accept" THEN Tcp(l[1]) ELSE Udp(l[1])

Listening(w) == Alive(Accept(w))
PortTaken(w) == \E v \in Workers : Listening(v) /\ Port[v] = Port[w]

(* With the listening socket go the connections that wait at it. *)
Unserved(x) == con[x] = "backlog" /\ ~Listening(srv[x])'

DropUnserved == con' = [x \in Users |-> IF Unserved(x) THEN "none" ELSE con[x]]

Becomes(x, state) ==
  con' = [y \in Users |-> IF y = x THEN state ELSE IF Unserved(y) THEN "none" ELSE con[y]]
-----------------------------------------------------------------------------
(* What the main thread does, as sequences of statements *)

Do(op, x) == << <<op, x>> >>

CloseAndReset(s) == Do("close", s) \o Do("reset", s)

(* Mutants: no join(); join() before the sockets are closed. *)
StopNoJoin(o) ==
  LET w == o[1] IN
  Do("clear", o) \o
  IF o = Udp(w)
  THEN CloseAndReset(Broadcast(w)) \o CloseAndReset(Listen(w)) \o Do("join", Broadcast(w))
  ELSE CloseAndReset(Accept(w))

StopJoinsFirst(o) ==
  LET w == o[1] IN
  Do("clear", o) \o
  IF o = Udp(w)
  THEN Do("join", Broadcast(w)) \o Do("join", Listen(w))
       \o CloseAndReset(Broadcast(w)) \o CloseAndReset(Listen(w))
  ELSE Do("join", Accept(w)) \o CloseAndReset(Accept(w))

(* UdpDiscovery::stop and TcpServer::stop *)
Stop(o) ==
  LET w == o[1] IN
  Do("clear", o) \o
  IF o = Udp(w)
  THEN CloseAndReset(Broadcast(w)) \o CloseAndReset(Listen(w))
       \o Do("join", Broadcast(w)) \o Do("join", Listen(w))
  ELSE CloseAndReset(Accept(w)) \o Do("join", Accept(w))

First(w)  == IF Kind[w] = "discover" THEN Udp(w) ELSE Tcp(w)
Second(w) == IF Kind[w] = "discover" THEN Tcp(w) ELSE Udp(w)

StartBoth(w) == Do("start", First(w)) \o Do("start", Second(w))
StopBoth(w)  == Stop(First(w)) \o Stop(Second(w))
Destroy(w)   == Do("free", w)
Exit         == Do("exit", "process")

At(op, x)   == todo # <<>> /\ Head(todo) = <<op, x>>
Then(op, x) == At(op, x) /\ todo' = Tail(todo)

(* The worker of a kind, if there is one: discovery_ and receiver_. *)
IfOn(kind, steps) ==
  LET on == {w \in Workers : wst[w] = "on" /\ Kind[w] = kind}
  IN  IF on = {} THEN <<>> ELSE steps[CHOOSE w \in on : TRUE]
-----------------------------------------------------------------------------
(* The process ends, and the kernel closes and frees everything. *)
Die ==
  /\ proc' = "ended"
  /\ todo' = <<>>
  /\ wst' = [w \in Workers |-> "off"]
  /\ fd' = [n \in NUMBERS |-> Free]
  /\ sock' = [l \in Loops |-> INVALID_SOCK]
  /\ running' = [o \in Objects |-> FALSE]
  /\ lpc' = [l \in Loops |-> "none"]
  /\ arg' = [l \in Loops |-> INVALID_SOCK]
  /\ held' = [l \in Loops |-> Free]
  /\ con' = [x \in Users |-> "none"]
  /\ srv' = [x \in Users |-> Gone]
  /\ cfd' = [x \in Users |-> INVALID_SOCK]

(* main() runs cmd_discover or cmd_receive. *)
RunCommand(w) ==
  /\ proc = "ended" /\ proc' = "command"
  /\ wst' = [wst EXCEPT ![w] = "on"]
  /\ todo' = StartBoth(w) \o Do("install", w)
  /\ UNCHANGED <<fd, sock, running, loopVars, conVars>>

OpenWindow ==
  /\ proc = "ended" /\ proc' = "window"
  /\ UNCHANGED <<wst, todo, fd, sock, running, loopVars, conVars>>

(* The Scan or Receive button, for a new worker and for the one there is. *)
StartWorker(w) ==
  /\ proc = "window" /\ todo = <<>> /\ wst[w] = "off"
  /\ wst' = [wst EXCEPT ![w] = "on"]
  /\ todo' = StartBoth(w)
  /\ UNCHANGED <<proc, fd, sock, running, loopVars, conVars>>

StopWorker(w) ==
  /\ proc = "window" /\ todo = <<>> /\ wst[w] = "on"
  /\ todo' = StopBoth(w) \o Destroy(w)
  /\ UNCHANGED <<proc, wst, fd, sock, running, loopVars, conVars>>

(* ~MainWindow, and the end of main(). *)
CloseWindow ==
  /\ proc = "window" /\ todo = <<>>
  /\ LET stops == [w \in Workers |-> StopBoth(w)]
         frees == [w \in Workers |-> Destroy(w)]
     IN  todo' = IfOn("discover", stops) \o IfOn("receive", stops)
                 \o IfOn("discover", frees) \o IfOn("receive", frees) \o Exit
  /\ UNCHANGED <<proc, wst, fd, sock, running, loopVars, conVars>>

(* SIGINT or SIGTERM: without signal_handler the process dies, with it     *)
(* g_running becomes false.                                                *)
SignalKills == proc \in {"command", "window"} /\ Die

Signal ==
  /\ proc = "handling"
  /\ proc' = "interrupted"
  /\ UNCHANGED <<wst, todo, fd, sock, running, loopVars, conVars>>

(* The loop of the command sees g_running. *)
LoopEnds(w) ==
  /\ proc = "interrupted" /\ todo = <<>> /\ wst[w] = "on"
  /\ todo' = StopBoth(w) \o Destroy(w) \o Exit
  /\ UNCHANGED <<proc, wst, fd, sock, running, loopVars, conVars>>

InstallSignalHandler(w) ==
  /\ Then("install", w)
  /\ proc' = "handling"
  /\ UNCHANGED <<wst, fd, sock, running, loopVars, conVars>>

ExitProcess == At("exit", "process") /\ Die
-----------------------------------------------------------------------------
(* start() returned false: only a command looks, and only at the first of  *)
(* its two objects, whose destructor then runs.                            *)
Failed(o) == IF proc # "window" /\ o = First(o[1])
             THEN Stop(o) \o Destroy(o[1]) \o Exit
             ELSE Tail(todo)

Spawn(ls, number) ==
  /\ lpc' = [l \in Loops |-> IF l \in ls THEN "call" ELSE lpc[l]]
  /\ arg' = [l \in Loops |-> IF l \in ls THEN number[l] ELSE arg[l]]
  /\ UNCHANGED held

(* TcpServer::start *)
StartTcp(w) ==
  LET n == Lowest(fd) IN
  /\ Then("start", Tcp(w))
  /\ ~Full(fd) /\ ~PortTaken(w)
  /\ fd' = Opened(Accept(w))
  /\ sock' = [sock EXCEPT ![Accept(w)] = n]
  /\ running' = [running EXCEPT ![Tcp(w)] = TRUE]
  /\ Spawn({Accept(w)}, sock')
  /\ UNCHANGED <<proc, wst, conVars>>

(* A mutant: the member keeps the number that was closed. *)
StartTcpKeepsNumber(w) ==
  /\ At("start", Tcp(w))
  /\ Full(fd) \/ PortTaken(w) \/ "tcp" \in BindFails
  /\ todo' = Failed(Tcp(w))
  /\ sock' = [sock EXCEPT ![Accept(w)] = IF Full(fd) THEN INVALID_SOCK ELSE Lowest(fd)]
  /\ UNCHANGED <<proc, wst, fd, running, loopVars, conVars>>

(* The socket, if there was one, is closed and the member reset. *)
StartTcpFails(w) ==
  /\ At("start", Tcp(w))
  /\ Full(fd) \/ PortTaken(w) \/ "tcp" \in BindFails
  /\ todo' = Failed(Tcp(w))
  /\ sock' = [sock EXCEPT ![Accept(w)] = INVALID_SOCK]
  /\ UNCHANGED <<proc, wst, fd, running, loopVars, conVars>>

(* UdpDiscovery::start: two sockets, the broadcast socket first. *)
WithBroadcast(w) == Opened(Broadcast(w))

UdpNumbers(w, b, n) == [sock EXCEPT ![Broadcast(w)] = b, ![Listen(w)] = n]

StartUdp(w) ==
  LET t == WithBroadcast(w) IN
  /\ Then("start", Udp(w))
  /\ ~Full(fd) /\ ~Full(t)
  /\ fd' = [t EXCEPT ![Lowest(t)] = Listen(w)]
  /\ sock' = UdpNumbers(w, Lowest(fd), Lowest(t))
  /\ running' = [running EXCEPT ![Udp(w)] = TRUE]
  /\ Spawn({Broadcast(w), Listen(w)}, sock')
  /\ UNCHANGED <<proc, wst, conVars>>

(* What was opened is closed; the members keep the numbers. *)
StartUdpFails(w) ==
  LET t == WithBroadcast(w) IN
  /\ At("start", Udp(w))
  /\ \/ /\ Full(fd)
        /\ sock' = UdpNumbers(w, INVALID_SOCK, INVALID_SOCK)
     \/ /\ ~Full(fd) /\ Full(t)
        /\ sock' = UdpNumbers(w, Lowest(fd), INVALID_SOCK)
     \/ /\ ~Full(fd) /\ ~Full(t) /\ "udp" \in BindFails
        /\ sock' = UdpNumbers(w, Lowest(fd), Lowest(t))
  /\ todo' = Failed(Udp(w))
  /\ UNCHANGED <<proc, wst, fd, running, loopVars, conVars>>

(* The statements of stop(). *)

(* A mutant: running_ stays. *)
ClearNothing(o) ==
  /\ Then("clear", o)
  /\ UNCHANGED <<proc, wst, fd, sock, running, loopVars, conVars>>

ClearRunning(o) ==
  /\ Then("clear", o)
  /\ running' = [running EXCEPT ![o] = FALSE]
  /\ UNCHANGED <<proc, wst, fd, sock, loopVars, conVars>>

CloseSocket(s) ==
  /\ Then("close", s)
  /\ CloseNumber(sock[s])
  /\ UNCHANGED <<proc, wst, sock, running, lpc, arg, srv, cfd>>
  /\ DropUnserved

ResetSocket(s) ==
  /\ Then("reset", s)
  /\ sock' = [sock EXCEPT ![s] = INVALID_SOCK]
  /\ UNCHANGED <<proc, wst, fd, running, loopVars, conVars>>

(* A mutant: the thread is detached. *)
Detach(l) ==
  /\ Then("join", l)
  /\ lpc' = [lpc EXCEPT ![l] = "none"]
  /\ UNCHANGED <<proc, wst, fd, sock, running, arg, held, conVars>>

Join(l) ==
  /\ Then("join", l) /\ lpc[l] \in {"none", "ended"}
  /\ lpc' = [lpc EXCEPT ![l] = "none"]
  /\ UNCHANGED <<proc, wst, fd, sock, running, arg, held, conVars>>

(* The objects are destroyed, under the handlers that still use one. *)
FreeWorker(w) ==
  /\ Then("free", w)
  /\ wst' = [wst EXCEPT ![w] = "off"]
  /\ srv' = [x \in Users |-> IF srv[x] = w THEN Gone ELSE srv[x]]
  /\ UNCHANGED <<proc, fd, sock, running, loopVars, con, cfd>>

MainStep ==
  \/ \E w \in Workers : \/ StartTcp(w) \/ StartTcpFails(w) \/ StartUdp(w) \/ StartUdpFails(w)
                        \/ InstallSignalHandler(w) \/ LoopEnds(w) \/ FreeWorker(w)
  \/ \E o \in Objects : ClearRunning(o)
  \/ \E l \in Loops : CloseSocket(l) \/ ResetSocket(l) \/ Join(l)
  \/ ExitProcess
-----------------------------------------------------------------------------
(* accept_loop, broadcast_loop and listen_loop: running_ is read, then the *)
(* member for the next call.                                               *)
Again(l) ==
  /\ lpc' = [lpc EXCEPT ![l] = IF running[Object(l)] THEN "call" ELSE "ended"]
  /\ arg' = [arg EXCEPT ![l] = IF running[Object(l)] THEN sock[l] ELSE INVALID_SOCK]
  /\ held' = [held EXCEPT ![l] = Free]

(* What the number stands for by now, and the calls that block on it:      *)
(* accept() on a listening socket, recvfrom() on all others.               *)
Target(l) == IF arg[l] = INVALID_SOCK THEN Free ELSE fd[arg[l]]

BlocksOn == [role \in {"accept", "broadcast", "listen"} |->
               CASE role = "accept" -> {"accept"}
                 [] role = "listen" -> {"broadcast", "listen", "conn"}
                 [] OTHER           -> {}]

Blocks(l) == Target(l) # Free /\ Target(l)[2] \in BlocksOn[l[2]]

Call(l) ==
  /\ lpc[l] = "call" /\ Blocks(l)
  /\ lpc' = [lpc EXCEPT ![l] = "in"]
  /\ held' = [held EXCEPT ![l] = Target(l)]
  /\ arg' = [arg EXCEPT ![l] = INVALID_SOCK]
  /\ UNCHANGED <<mainVars, fd, sock, running, conVars>>

(* The call fails, or is sendto(), and the sleep of two seconds is over. *)
CallReturns(l) ==
  /\ lpc[l] = "call" /\ ~Blocks(l)
  /\ Again(l)
  /\ UNCHANGED <<mainVars, fd, sock, running, conVars>>

(* A datagram, or bytes of a connection, for recvfrom(). *)
Received(l) ==
  /\ lpc[l] = "in" /\ l[2] = "listen"
  /\ Again(l)
  /\ UNCHANGED <<mainVars, fd, sock, running, conVars>>

(* A mutant: the loop ends with the first accept() that fails. *)
AcceptGivesUp(l) ==
  /\ lpc[l] = "in" /\ l[2] = "accept" /\ Full(fd)
  /\ lpc' = [lpc EXCEPT ![l] = "ended"]
  /\ held' = [held EXCEPT ![l] = Free]
  /\ UNCHANGED <<mainVars, fd, sock, running, arg, srv, cfd>>
  /\ DropUnserved

(* There is no number for a connection.  With the call may go a socket that *)
(* was closed.                                                             *)
AcceptFails(l) ==
  /\ lpc[l] = "in" /\ l[2] = "accept" /\ Full(fd)
  /\ Again(l)
  /\ UNCHANGED <<mainVars, fd, sock, running, srv, cfd>>
  /\ DropUnserved

(* accept() takes a connection and gives it a number; a handler begins.    *)
AcceptConnection(l, c) ==
  /\ lpc[l] = "in" /\ con[c] = "backlog" /\ held[l] = Accept(srv[c])
  /\ ~Full(fd)
  /\ fd' = Opened(<<c, "conn">>)
  /\ cfd' = [cfd EXCEPT ![c] = Lowest(fd)]
  /\ srv' = [srv EXCEPT ![c] = l[1]]
  /\ Again(l)
  /\ Becomes(c, "receive")
  /\ UNCHANGED <<mainVars, sock, running>>

(* The socket was closed under the call. *)
Woken(l) ==
  /\ lpc[l] = "in" /\ held[l] = Free
  /\ Again(l)
  /\ UNCHANGED <<mainVars, fd, sock, running, conVars>>

LoopStep(l) == Call(l) \/ CallReturns(l) \/ AcceptFails(l) \/ Woken(l)
-----------------------------------------------------------------------------
(* Connections and their handlers, and send_file in this process *)

Active(x) == con[x] \in {"receive", "settings", "sending"}

Connect(c, w) ==
  /\ con[c] = "none" /\ Listening(w)
  /\ con' = [con EXCEPT ![c] = "backlog"]
  /\ srv' = [srv EXCEPT ![c] = w]
  /\ UNCHANGED <<mainVars, fd, sock, running, loopVars, cfd>>

(* handle_client has the header; it uses receive_dir_, then passphrase_. *)
ReceiveHeader(c) ==
  /\ con[c] = "receive"
  /\ con' = [con EXCEPT ![c] = "settings"]
  /\ UNCHANGED <<mainVars, fd, sock, running, loopVars, srv, cfd>>

(* The handler, or send_file, closes its number and ends. *)
CloseConnection(x) ==
  /\ Active(x)
  /\ CloseNumber(cfd[x])
  /\ cfd' = [cfd EXCEPT ![x] = INVALID_SOCK]
  /\ srv' = [srv EXCEPT ![x] = Gone]
  /\ UNCHANGED <<mainVars, sock, running, lpc, arg>>
  /\ Becomes(x, "none")

OpenSender(x) ==
  /\ proc = "window"
  /\ con[x] = "none" /\ ~Full(fd)
  /\ fd' = Opened(<<x, "conn">>)
  /\ cfd' = [cfd EXCEPT ![x] = Lowest(fd)]
  /\ con' = [con EXCEPT ![x] = "sending"]
  /\ UNCHANGED <<mainVars, sock, running, loopVars, srv>>

HandlerStep(x) == ReceiveHeader(x) \/ CloseConnection(x)
-----------------------------------------------------------------------------
Init ==
  /\ proc = "ended"
  /\ todo = <<>>
  /\ wst = [w \in Workers |-> "off"]
  /\ fd = [n \in NUMBERS |-> Free]
  /\ sock = [l \in Loops |-> INVALID_SOCK]
  /\ running = [o \in Objects |-> FALSE]
  /\ lpc = [l \in Loops |-> "none"]
  /\ arg = [l \in Loops |-> INVALID_SOCK]
  /\ held = [l \in Loops |-> Free]
  /\ con = [x \in Users |-> "none"]
  /\ srv = [x \in Users |-> Gone]
  /\ cfd = [x \in Users |-> INVALID_SOCK]

Next ==
  \/ \E w \in Workers : RunCommand(w) \/ StartWorker(w) \/ StopWorker(w)
  \/ OpenWindow \/ CloseWindow \/ SignalKills \/ Signal
  \/ MainStep
  \/ \E l \in Loops : LoopStep(l) \/ Received(l)
  \/ \E c \in Conns, w \in Workers : Connect(c, w) \/ AcceptConnection(Accept(w), c)
  \/ \E x \in Users : HandlerStep(x)
  \/ \E x \in Senders : OpenSender(x)

Spec == Init /\ [][Next]_vars

(* Every thread runs.  Connections wait in a queue: one whose turn comes   *)
(* again and again is taken.                                               *)
Fairness == /\ WF_vars(MainStep)
            /\ \A l \in Loops : WF_vars(LoopStep(l))
            /\ \A x \in Users : WF_vars(HandlerStep(x))
            /\ \A w \in Workers, c \in Conns : SF_vars(AcceptConnection(Accept(w), c))

FairSpec == Spec /\ Fairness
-----------------------------------------------------------------------------
(* Properties *)

(* Every variable has its type; only a thread in its call holds a file.     *)
TypeOK ==
  /\ proc \in {"ended", "window", "command", "handling", "interrupted"}
  /\ wst \in [Workers -> {"off", "on"}]
  /\ fd \in [NUMBERS -> Files \cup {Free}]
  /\ sock \in [Loops -> {INVALID_SOCK} \cup NUMBERS]
  /\ running \in [Objects -> BOOLEAN]
  /\ lpc \in [Loops -> {"none", "call", "in", "ended"}]
  /\ arg \in [Loops -> {INVALID_SOCK} \cup NUMBERS]
  /\ held \in [Loops -> Files \cup {Free}]
  /\ con \in [Users -> {"none", "backlog", "receive", "settings", "sending"}]
  /\ srv \in [Users -> Workers \cup {Gone}]
  /\ cfd \in [Users -> {INVALID_SOCK} \cup NUMBERS]
  /\ \A l \in Loops : held[l] # Free => lpc[l] = "in"

(* As long as UdpDiscovery::start() does not fail, which leaves numbers in *)
(* its members that it has closed: whatever opens and closes meanwhile, a  *)
(* number that a member, a handler or send_file keeps and will close       *)
(* stands for the very socket it was given for: no close() takes away what *)
(* another part of the process uses.                                       *)
NumbersAreOwn ==
  /\ \A l \in Loops : sock[l] # INVALID_SOCK /\ ~At("reset", l) => fd[sock[l]] = l
  /\ \A x \in Users : Active(x) => fd[cfd[x]] = <<x, "conn">>

(* Until stop() has begun a thread calls on its own socket and on no other. *)
CallsAreOwn ==
  \A l \in Loops : /\ lpc[l] = "call" /\ running[Object(l)] => Target(l) = l
                   /\ lpc[l] = "in" /\ running[Object(l)] => held[l] = l

(* Even with a number that is closed and given again while it calls, an     *)
(* accept thread never waits at the server of another worker, whose         *)
(* connections it would save in its own directory with its own passphrase. *)
AcceptsOwn == \A w \in Workers : held[Accept(w)] \in {Accept(w), Free}

(* Once a worker is stopped and destroyed none of its threads runs, its    *)
(* sockets are closed and held by nobody, its port is free, and no         *)
(* connection waits at it.                                                 *)
NothingLeft ==
  todo = <<>> =>
    \A w \in Workers : wst[w] = "off" =>
      /\ \A l \in Loops : /\ l[1] = w => lpc[l] = "none" /\ ~IsOpen(l)
                          /\ held[l] # Free => held[l][1] # w
      /\ \A x \in Users : con[x] = "backlog" => srv[x] \notin {w, Gone}

(* stop() returns, whether started threads wait, call or sleep, and the    *)
(* window can be used again.                                               *)
StopReturns == todo # <<>> ~> todo = <<>>

(* After Ctrl+C a command ends, also one of whose objects did not start.   *)
InterruptEnds == proc = "interrupted" ~> proc = "ended"

(* A connection that waits does not wait for ever, though accept() fails   *)
(* while the process has no descriptor left, unless sends of this process  *)
(* take each one that becomes free.                                        *)
BacklogIsServed ==
  \A c \in Conns : []<>(con[c] # "backlog") \/ []<>(\E x \in Senders : con[x] = "sending")
-----------------------------------------------------------------------------
(* What the comments of the code say and the code does not do *)

(* tcp_server.cpp:93: closing the listening socket unblocks the accept     *)
(* thread that stop() joins.  Then Ctrl+C ends a command.                  *)
CtrlCEnds == proc = "interrupted" ~> proc = "ended"

(* tcp_server.cpp:124: handlers need not be tracked or joined.  Then none  *)
(* is about to use the settings of a server that was destroyed.            *)
HandlersHaveServer == \A c \in Conns : con[c] = "settings" => srv[c] # Gone
=============================================================================
