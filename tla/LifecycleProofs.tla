-------------------------- MODULE LifecycleProofs --------------------------
(***************************************************************************)
(* Lifecycle, for every set of workers, connections and senders and every  *)
(* size of the descriptor table: one failure alone, that of                *)
(* UdpDiscovery::start, lets a part of the process close the descriptor of *)
(* another.                                                                *)
(***************************************************************************)
EXTENDS Lifecycle, TLAPS, SequenceTheorems, WellFoundedInduction

Numbered == NUMBERS \cup {INVALID_SOCK}

Table == /\ fd \in [NUMBERS -> Files \cup {Free}]
         /\ sock \in [Loops -> Numbered]
         /\ cfd \in [Users -> Numbered]

(* A member is reset right after its socket was closed, and the accept      *)
(* thread is joined right after that.                                      *)
Statement == {"start", "clear", "close", "reset", "join", "install", "free", "exit"}
             \X (Loops \cup Objects \cup Workers \cup {"process"})

Follows(e, f) == \/ \E s : e = <<"close", s>> /\ f = <<"reset", s>>
                 \/ \E w : e = <<"reset", Accept(w)>> /\ f = <<"join", Accept(w)>>

Due(e) == e[1] = "close" \/ (e[1] = "reset" /\ \E w : e[2] = Accept(w))

Paired(q) ==
  /\ q \in Seq(Statement)
  /\ \A i \in 1..Len(q) : Due(q[i]) => i + 1 \in 1..Len(q) /\ Follows(q[i], q[i + 1])

(* Who keeps a number has the file it was given for. *)
Owns(l)  == sock[l] # INVALID_SOCK /\ ~At("reset", l) => fd[sock[l]] = l
Keeps(x) == Active(x) => cfd[x] \in NUMBERS /\ fd[cfd[x]] = <<x, "conn">>
Own      == (\A l \in Loops : Owns(l)) /\ (\A x \in Users : Keeps(x))

OwnInv == Table /\ Paired(todo) /\ (proc = "ended" => todo = <<>>) /\ Own

(* All steps but the failure of UdpDiscovery::start. *)
NextUdpStarts == Next /\ \A w \in Workers : ~StartUdpFails(w)
-----------------------------------------------------------------------------
(* Lemmas about the table of descriptors *)

LEMMA FileFacts ==
  /\ \A f \in Files : f # Free
  /\ \A l \in Loops : l \in Files
  /\ \A x \in Users : <<x, "conn">> \in Files
  /\ \A l \in Loops, x \in Users : l # <<x, "conn">>
  /\ \A w \in Workers : Accept(w) \in Loops /\ Broadcast(w) \in Loops /\ Listen(w) \in Loops
  /\ \A w, v : Broadcast(w) # Listen(v)
BY DEF Files, Loops, Free, Accept, Broadcast, Listen

LEMMA NumberFacts ==
  /\ INVALID_SOCK \notin NUMBERS
  /\ NUMBERS \subseteq Nat
  /\ \A n \in Numbered : n # INVALID_SOCK => n \in NUMBERS
BY LifecycleAssumption DEF NUMBERS, INVALID_SOCK, Numbered

(* A table that is not full has a lowest free number. *)
LEMMA LowestFacts ==
  ASSUME NEW t, ~Full(t)
  PROVE  Lowest(t) \in NUMBERS /\ t[Lowest(t)] = Free
<1> DEFINE F == {n \in NUMBERS : t[n] = Free}
<1>1. F \subseteq Nat /\ F # {} /\ NUMBERS = 1..MAX_FD /\ MAX_FD \in Nat
  BY LifecycleAssumption DEF Full, NUMBERS
<1>2. PICK n \in F : \A m \in F : ~(<<m, n>> \in OpToRel(<, Nat))
  <2> HIDE DEF F
  <2> QED BY <1>1, NatLessThanWellFounded, WFMin
<1>3. \A m \in F : ~(m < n)
  BY <1>1, <1>2 DEF OpToRel
<1>4. \A m \in 1..(n - 1) : t[m] # Free
  <2> SUFFICES ASSUME NEW m \in 1..(n - 1), t[m] = Free
               PROVE  FALSE
    OBVIOUS
  <2>1. n \in NUMBERS /\ n \in Nat
    BY <1>1
  <2>2. m \in NUMBERS /\ m < n
    BY <2>1, <1>1
  <2> QED BY <2>2, <1>3
<1>5. \E k \in NUMBERS : t[k] = Free /\ \A m \in 1..(k - 1) : t[m] # Free
  BY <1>2, <1>4
<1> QED BY <1>5 DEF Lowest
-----------------------------------------------------------------------------
(* Lemmas about sequences of statements *)

LEMMA PairedConcat ==
  ASSUME NEW p, NEW q, Paired(p), Paired(q)
  PROVE  Paired(p \o q)
<1>1. /\ p \in Seq(Statement) /\ q \in Seq(Statement)
      /\ Len(p) \in Nat /\ Len(q) \in Nat
  BY LenProperties DEF Paired
<1>2. /\ p \o q \in Seq(Statement) /\ Len(p \o q) = Len(p) + Len(q)
      /\ \A i \in 1..(Len(p) + Len(q)) :
           (p \o q)[i] = IF i <= Len(p) THEN p[i] ELSE q[i - Len(p)]
  BY <1>1, ConcatProperties
<1>3. ASSUME NEW i \in 1..Len(p \o q), Due((p \o q)[i])
      PROVE  i + 1 \in 1..Len(p \o q) /\ Follows((p \o q)[i], (p \o q)[i + 1])
  <2>1. CASE i <= Len(p)
    <3>1. i \in 1..Len(p) /\ Due(p[i]) /\ (p \o q)[i] = p[i]
      BY <2>1, <1>1, <1>2, <1>3
    <3>2. i + 1 \in 1..Len(p) /\ Follows(p[i], p[i + 1])
      BY <3>1 DEF Paired
    <3>3. i + 1 \in 1..(Len(p) + Len(q)) /\ i + 1 <= Len(p)
      BY <3>2, <1>1
    <3> QED BY <3>1, <3>2, <3>3, <1>2
  <2>2. CASE ~(i <= Len(p))
    <3> DEFINE k == i - Len(p)
    <3>1. k \in 1..Len(q) /\ Due(q[k]) /\ (p \o q)[i] = q[k]
      BY <2>2, <1>1, <1>2, <1>3
    <3>2. k + 1 \in 1..Len(q) /\ Follows(q[k], q[k + 1])
      BY <3>1 DEF Paired
    <3>3. i + 1 \in 1..(Len(p) + Len(q)) /\ ~(i + 1 <= Len(p)) /\ (i + 1) - Len(p) = k + 1
      BY <2>2, <3>2, <1>1, <1>2
    <3> QED BY <3>1, <3>2, <3>3, <1>2
  <2> QED BY <2>1, <2>2
<1> QED BY <1>2, <1>3 DEF Paired

LEMMA PairedTail ==
  ASSUME NEW q, Paired(q), q # <<>>
  PROVE  /\ Paired(Tail(q))
         /\ Due(Head(q)) => Tail(q) # <<>> /\ Follows(Head(q), Head(Tail(q)))
<1>1. /\ q \in Seq(Statement) /\ Len(q) \in Nat \ {0} /\ Head(q) = q[1]
      /\ Tail(q) \in Seq(Statement) /\ Len(Tail(q)) = Len(q) - 1
      /\ \A i \in 1..Len(Tail(q)) : Tail(q)[i] = q[i + 1]
  BY HeadTailProperties, EmptySeq DEF Paired
<1>2. ASSUME NEW i \in 1..Len(Tail(q)), Due(Tail(q)[i])
      PROVE  i + 1 \in 1..Len(Tail(q)) /\ Follows(Tail(q)[i], Tail(q)[i + 1])
  <2>1. i + 1 \in 1..Len(q) /\ Due(q[i + 1]) /\ Tail(q)[i] = q[i + 1]
    BY <1>1, <1>2
  <2>2. (i + 1) + 1 \in 1..Len(q) /\ Follows(q[i + 1], q[(i + 1) + 1])
    BY <2>1 DEF Paired
  <2>3. i + 1 \in 1..Len(Tail(q)) /\ Tail(q)[i + 1] = q[(i + 1) + 1]
    BY <2>2, <1>1
  <2> QED BY <2>1, <2>2, <2>3
<1>3. ASSUME Due(Head(q))
      PROVE  Tail(q) # <<>> /\ Follows(Head(q), Head(Tail(q)))
  <2>1. 1 \in 1..Len(q) /\ Due(q[1])
    BY <1>1, <1>3
  <2>2. 1 + 1 \in 1..Len(q) /\ Follows(q[1], q[1 + 1])
    BY <2>1 DEF Paired
  <2>3. 1 \in 1..Len(Tail(q)) /\ Tail(q)[1] = q[1 + 1]
    BY <2>2, <1>1
  <2>4. Tail(q) # <<>>
    <3>1. Len(Tail(q)) # 0
      BY <2>3, <1>1
    <3> QED BY <3>1, <1>1, EmptySeq
  <2> QED BY <2>2, <2>3, <2>4, <1>1
<1> QED BY <1>1, <1>2, <1>3 DEF Paired

LEMMA PairedEmpty == Paired(<<>>)
BY EmptySeq DEF Paired

LEMMA PairedDo ==
  ASSUME NEW op \in {"start", "clear", "join", "install", "free", "exit"},
         NEW x \in Loops \cup Objects \cup Workers \cup {"process"}
  PROVE  Paired(Do(op, x))
<1>1. <<op, x>> \in Statement /\ ~Due(<<op, x>>)
  BY DEF Statement, Due
<1> DEFINE e == <<op, x>>
<1>2. Do(op, x) = <<e>> /\ e \in Statement
  BY <1>1 DEF Do
<1>3. <<e>> \in Seq(Statement) /\ Len(<<e>>) = 1 /\ <<e>>[1] = e
  BY <1>1
<1> QED BY <1>1, <1>2, <1>3 DEF Paired

(* Two and three statements one after the other. *)
LEMMA InARow ==
  ASSUME NEW c \in Statement, NEW r \in Statement
  PROVE  LET q == <<c>> \o <<r>>
         IN  /\ q \in Seq(Statement) /\ Len(q) = 2 /\ q[1] = c /\ q[2] = r
             /\ \A j \in Statement : LET t == q \o <<j>>
                                     IN  /\ t \in Seq(Statement) /\ Len(t) = 3
                                         /\ t[1] = c /\ t[2] = r /\ t[3] = j
<1> DEFINE p1 == <<c>>
           p2 == <<r>>
           q == p1 \o p2
<1>1. /\ p1 \in Seq(Statement) /\ Len(p1) = 1 /\ p1[1] = c
      /\ p2 \in Seq(Statement) /\ Len(p2) = 1 /\ p2[1] = r
  OBVIOUS
<1> HIDE DEF p1, p2
<1>2. q \in Seq(Statement) /\ Len(q) = 2 /\ q[1] = c /\ q[2] = r
  <2>1. /\ q \in Seq(Statement) /\ Len(q) = Len(p1) + Len(p2)
        /\ \A i \in 1..(Len(p1) + Len(p2)) :
             q[i] = IF i <= Len(p1) THEN p1[i] ELSE p2[i - Len(p1)]
    BY <1>1, ConcatProperties
  <2> HIDE DEF q
  <2>2. Len(q) = 2 /\ q[1] = p1[1] /\ q[2] = p2[2 - 1]
    BY <2>1, <1>1
  <2> QED BY <2>1, <2>2, <1>1
<1> HIDE DEF q
<1>3. ASSUME NEW j \in Statement
      PROVE  LET t == q \o <<j>>
             IN  /\ t \in Seq(Statement) /\ Len(t) = 3
                 /\ t[1] = c /\ t[2] = r /\ t[3] = j
  <2> DEFINE p3 == <<j>>
  <2>1. p3 \in Seq(Statement) /\ Len(p3) = 1 /\ p3[1] = j
    OBVIOUS
  <2> HIDE DEF p3
  <2>2. /\ q \o p3 \in Seq(Statement) /\ Len(q \o p3) = 3
        /\ (q \o p3)[1] = c /\ (q \o p3)[2] = r /\ (q \o p3)[3] = j
    BY <2>1, <1>2, ConcatProperties
  <2> QED BY <2>2 DEF p3
<1> QED BY <1>2, <1>3 DEF q, p1, p2

LEMMA PairedClose ==
  ASSUME NEW s \in Loops, \A w : s # Accept(w)
  PROVE  Paired(CloseAndReset(s))
<1> DEFINE c == <<"close", s>>
           r == <<"reset", s>>
           q == <<c>> \o <<r>>
<1>1. c \in Statement /\ r \in Statement /\ ~Due(r) /\ Follows(c, r)
  BY DEF Statement, Due, Follows
<1>2. CloseAndReset(s) = q
  BY DEF CloseAndReset, Do
<1> HIDE DEF c, r
<1>3. q \in Seq(Statement) /\ Len(q) = 2 /\ q[1] = c /\ q[2] = r
  BY <1>1, InARow
<1> HIDE DEF q
<1>4. ASSUME NEW i \in 1..2, Due(q[i])
      PROVE  i + 1 \in 1..2 /\ Follows(q[i], q[i + 1])
  <2>1. i = 1
    BY <1>1, <1>3, <1>4
  <2> QED BY <2>1, <1>1, <1>3
<1> QED BY <1>2, <1>3, <1>4 DEF Paired

LEMMA PairedAccept ==
  ASSUME NEW w \in Workers
  PROVE  Paired(CloseAndReset(Accept(w)) \o Do("join", Accept(w)))
<1> DEFINE a == Accept(w)
           c == <<"close", a>>
           r == <<"reset", a>>
           j == <<"join", a>>
           q == <<c>> \o <<r>> \o <<j>>
<1>1. /\ c \in Statement /\ r \in Statement /\ j \in Statement
      /\ ~Due(j) /\ Follows(c, r) /\ Follows(r, j)
  <2>1. a \in Loops
    BY FileFacts
  <2> QED BY <2>1 DEF Statement, Due, Follows
<1>2. CloseAndReset(a) \o Do("join", a) = q
  BY DEF CloseAndReset, Do
<1> HIDE DEF c, r, j
<1>3. q \in Seq(Statement) /\ Len(q) = 3 /\ q[1] = c /\ q[2] = r /\ q[3] = j
  BY <1>1, InARow
<1> HIDE DEF q
<1>4. ASSUME NEW i \in 1..3, Due(q[i])
      PROVE  i + 1 \in 1..3 /\ Follows(q[i], q[i + 1])
  <2>1. i = 1 \/ i = 2
    BY <1>1, <1>3, <1>4
  <2> QED BY <2>1, <1>1, <1>3
<1> QED BY <1>2, <1>3, <1>4 DEF Paired

LEMMA PairedStop ==
  ASSUME NEW o \in Objects
  PROVE  Paired(Stop(o))
<1> DEFINE w == o[1]
<1>1. /\ w \in Workers /\ o \in Loops \cup Objects \cup Workers \cup {"process"}
      /\ Accept(w) \in Loops /\ Broadcast(w) \in Loops /\ Listen(w) \in Loops
  BY FileFacts DEF Objects
<1> HIDE DEF w
<1>2. Paired(Do("clear", o))
  BY <1>1, PairedDo
<1>3. Paired(Do("join", Broadcast(w))) /\ Paired(Do("join", Listen(w)))
  BY <1>1, PairedDo
<1>4. Paired(CloseAndReset(Accept(w)) \o Do("join", Accept(w)))
  BY <1>1, PairedAccept
<1>5. Paired(CloseAndReset(Broadcast(w)) \o CloseAndReset(Listen(w))
             \o Do("join", Broadcast(w)) \o Do("join", Listen(w)))
  <2>1. Paired(CloseAndReset(Broadcast(w))) /\ Paired(CloseAndReset(Listen(w)))
    BY <1>1, PairedClose DEF Accept, Broadcast, Listen
  <2>2. Paired(CloseAndReset(Broadcast(w)) \o CloseAndReset(Listen(w)))
    BY <2>1, PairedConcat
  <2>3. Paired(CloseAndReset(Broadcast(w)) \o CloseAndReset(Listen(w)) \o Do("join", Broadcast(w)))
    BY <2>2, <1>3, PairedConcat
  <2> QED BY <2>3, <1>3, PairedConcat
<1> QED BY <1>2, <1>4, <1>5, PairedConcat DEF Stop, w

LEMMA PairedBoth ==
  ASSUME NEW w \in Workers
  PROVE  Paired(StartBoth(w)) /\ Paired(StopBoth(w)) /\ Paired(Destroy(w)) /\ Paired(Exit)
<1>1. First(w) \in Objects /\ Second(w) \in Objects
  BY DEF First, Second, Udp, Tcp, Objects
<1>2. Paired(Do("start", First(w))) /\ Paired(Do("start", Second(w)))
  BY <1>1, PairedDo
<1>3. Paired(Stop(First(w))) /\ Paired(Stop(Second(w)))
  BY <1>1, PairedStop
<1>4. Paired(Do("free", w)) /\ Paired(Do("exit", "process"))
  BY PairedDo
<1> QED BY <1>2, <1>3, <1>4, PairedConcat DEF StartBoth, StopBoth, Destroy, Exit

LEMMA PairedFailed ==
  ASSUME NEW o \in Objects, Paired(todo), todo # <<>>
  PROVE  Paired(Failed(o))
<1>1. o[1] \in Workers
  BY DEF Objects
<1>2. Paired(Stop(o)) /\ Paired(Destroy(o[1])) /\ Paired(Exit)
  BY <1>1, PairedStop, PairedBoth
<1>3. Paired(Stop(o) \o Destroy(o[1]))
  BY <1>2, PairedConcat
<1>4. Paired(Stop(o) \o Destroy(o[1]) \o Exit)
  BY <1>2, <1>3, PairedConcat
<1>5. Paired(Tail(todo))
  BY PairedTail
<1> QED BY <1>4, <1>5 DEF Failed

LEMMA PairedIfOn ==
  ASSUME NEW kind, NEW steps, \A w \in Workers : Paired(steps[w])
  PROVE  Paired(IfOn(kind, steps))
BY PairedEmpty DEF IfOn
-----------------------------------------------------------------------------
(* Opening and closing keep what the others have. *)

(* The table and its users stay, the reset that is due stays due. *)
LEMMA OwnSame ==
  ASSUME Table, Own, UNCHANGED <<fd, sock, cfd>>,
         \A l \in Loops : At("reset", l) => At("reset", l)',
         \A x \in Users : Active(x)' => Active(x)
  PROVE  Table' /\ Own'
<1>1. Table'
  BY DEF Table
<1>2. \A l \in Loops : Owns(l)'
  BY DEF Own, Owns
<1>3. \A x \in Users : Keeps(x)'
  BY DEF Own, Keeps
<1> QED BY <1>1, <1>2, <1>3 DEF Own

(* A free number is given out: nobody had it. *)
LEMMA OpenedFacts ==
  ASSUME Table, Own, ~Full(fd), NEW f \in Files
  PROVE  /\ Opened(f) \in [NUMBERS -> Files \cup {Free}]
         /\ Lowest(fd) \in NUMBERS /\ Opened(f)[Lowest(fd)] = f
         /\ \A n \in NUMBERS : fd[n] # Free => Opened(f)[n] = fd[n]
<1>1. Lowest(fd) \in NUMBERS /\ fd[Lowest(fd)] = Free
  BY LowestFacts
<1> QED BY <1>1 DEF Opened, Table

(* The number closed was the own of nobody but the one that closed it. *)
LEMMA CloseFacts ==
  ASSUME Table, NEW n, CloseNumber(n)
  PROVE  /\ fd' \in [NUMBERS -> Files \cup {Free}]
         /\ \A m \in NUMBERS : m # n => fd'[m] = fd[m]
BY DEF CloseNumber, Table

(* A statement of the main thread that is no reset: no reset was due. *)
LEMMA ThenFacts ==
  ASSUME Paired(todo), NEW op, NEW x, Then(op, x)
  PROVE  /\ Paired(todo') /\ todo # <<>>
         /\ op # "reset" => \A l : ~At("reset", l)
         /\ op = "close" => At("reset", x)'
         /\ \A w : op = "reset" /\ x = Accept(w) => At("join", Accept(w))'
<1>1. todo # <<>> /\ Head(todo) = <<op, x>> /\ todo' = Tail(todo)
  BY DEF Then, At
<1>2. /\ Paired(Tail(todo))
      /\ Due(<<op, x>>) => Tail(todo) # <<>> /\ Follows(<<op, x>>, Head(Tail(todo)))
  BY <1>1, PairedTail
<1>3. op = "close" => At("reset", x)'
  BY <1>1, <1>2 DEF At, Due, Follows
<1>4. \A w : op = "reset" /\ x = Accept(w) => At("join", Accept(w))'
  BY <1>1, <1>2 DEF At, Due, Follows
<1>5. op # "reset" => \A l : ~At("reset", l)
  BY <1>1 DEF At
<1> QED BY <1>1, <1>2, <1>3, <1>4, <1>5

LEMMA EndOwn == Die => OwnInv'
<1> SUFFICES ASSUME Die
             PROVE  OwnInv'
  OBVIOUS
<1>1. Table'
  BY DEF Die, Table, Numbered
<1>2. todo' = <<>> /\ Paired(todo')
  BY PairedEmpty DEF Die
<1>3. \A l \in Loops : Owns(l)'
  BY DEF Die, Owns
<1>4. \A x \in Users : Keeps(x)'
  BY DEF Die, Keeps, Active
<1> QED BY <1>1, <1>2, <1>3, <1>4 DEF OwnInv, Own

(* Orders of the user: no statement was left. *)
LEMMA OrderOwn ==
  ASSUME OwnInv,
         \/ \E w \in Workers : RunCommand(w) \/ StartWorker(w) \/ StopWorker(w) \/ LoopEnds(w)
         \/ CloseWindow
  PROVE  OwnInv'
<1>1. todo = <<>> /\ UNCHANGED <<fd, sock, cfd, con>> /\ proc' # "ended"
  BY DEF RunCommand, StartWorker, StopWorker, CloseWindow, LoopEnds, OwnInv, conVars
<1>2. Table' /\ Own'
  BY <1>1, OwnSame DEF OwnInv, At, Active
<1>3. Paired(todo')
  <2>1. \A v \in Workers :
          Paired(StartBoth(v)) /\ Paired(StopBoth(v)) /\ Paired(Destroy(v)) /\ Paired(Exit)
    BY PairedBoth
  <2>2. ASSUME NEW w \in Workers, RunCommand(w) \/ StartWorker(w)
        PROVE  Paired(todo')
    <3>1. Paired(Do("install", w))
      BY PairedDo
    <3> QED BY <2>1, <2>2, <3>1, PairedConcat DEF RunCommand, StartWorker
  <2>3. ASSUME NEW w \in Workers, StopWorker(w) \/ LoopEnds(w)
        PROVE  Paired(todo')
    <3>1. Paired(StopBoth(w) \o Destroy(w))
      BY <2>1, PairedConcat
    <3>2. Paired(StopBoth(w) \o Destroy(w) \o Exit)
      BY <2>1, <3>1, PairedConcat
    <3> QED BY <2>3, <3>1, <3>2 DEF StopWorker, LoopEnds
  <2>4. CASE CloseWindow
    <3> DEFINE stops == [v \in Workers |-> StopBoth(v)]
               frees == [v \in Workers |-> Destroy(v)]
               sd == IfOn("discover", stops)
               sr == IfOn("receive", stops)
               fr == IfOn("discover", frees)
               rr == IfOn("receive", frees)
    <3>1. (\A v \in Workers : Paired(stops[v])) /\ (\A v \in Workers : Paired(frees[v]))
      BY <2>1
    <3>2. todo' = sd \o sr \o fr \o rr \o Exit
      BY <2>4 DEF CloseWindow
    <3> HIDE DEF stops, frees
    <3>3. Paired(sd) /\ Paired(sr) /\ Paired(fr) /\ Paired(rr) /\ Paired(Exit)
      <4>1. Paired(sd) /\ Paired(sr)
        BY <3>1, PairedIfOn
      <4>2. Paired(fr) /\ Paired(rr)
        BY <3>1, PairedIfOn
      <4>3. Paired(Exit)
        <5>1. Paired(Do("exit", "process"))
          BY PairedDo
        <5> QED BY <5>1 DEF Exit
      <4> QED BY <4>1, <4>2, <4>3
    <3> HIDE DEF sd, sr, fr, rr
    <3>4. Paired(sd \o sr)
      BY <3>3, PairedConcat
    <3>5. Paired(sd \o sr \o fr)
      BY <3>3, <3>4, PairedConcat
    <3>6. Paired(sd \o sr \o fr \o rr)
      BY <3>3, <3>5, PairedConcat
    <3> QED BY <3>2, <3>3, <3>6, PairedConcat
  <2> QED BY <2>2, <2>3, <2>4
<1> QED BY <1>1, <1>2, <1>3 DEF OwnInv

(* start() *)
LEMMA StartTcpOwn ==
  ASSUME OwnInv, NEW w \in Workers, StartTcp(w)
  PROVE  OwnInv'
<1> DEFINE a == Accept(w)
<1>1. /\ Then("start", Tcp(w)) /\ ~Full(fd) /\ fd' = Opened(a)
      /\ sock' = [sock EXCEPT ![a] = Lowest(fd)] /\ UNCHANGED <<proc, con, cfd>>
  BY DEF StartTcp, conVars
<1>2. a \in Loops /\ a \in Files /\ \A f \in Files : f # Free
  BY FileFacts
<1> HIDE DEF a
<1>3. /\ fd' \in [NUMBERS -> Files \cup {Free}]
      /\ Lowest(fd) \in NUMBERS /\ fd'[Lowest(fd)] = a
      /\ \A n \in NUMBERS : fd[n] # Free => fd'[n] = fd[n]
  BY <1>1, <1>2, OpenedFacts DEF OwnInv
<1>4. Paired(todo') /\ todo # <<>> /\ \A l : ~At("reset", l)
  BY <1>1, ThenFacts DEF OwnInv
<1>5. Table'
  BY <1>1, <1>3 DEF OwnInv, Table, Numbered
<1>6. ASSUME NEW l \in Loops
      PROVE  Owns(l)'
  <2>1. CASE l = a
    BY <2>1, <1>1, <1>3 DEF Owns, OwnInv, Table
  <2>2. CASE l # a
    <3>1. sock'[l] = sock[l] /\ sock[l] \in Numbered
      BY <2>2, <1>1 DEF OwnInv, Table
    <3>2. sock[l] # INVALID_SOCK => sock[l] \in NUMBERS /\ fd[sock[l]] = l /\ l # Free
      BY <3>1, <1>4, FileFacts, NumberFacts DEF OwnInv, Own, Owns
    <3> QED BY <3>1, <3>2, <1>3 DEF Owns
  <2> QED BY <2>1, <2>2
<1>7. ASSUME NEW x \in Users
      PROVE  Keeps(x)'
  <2>1. Active(x) => cfd[x] \in NUMBERS /\ fd[cfd[x]] = <<x, "conn">> /\ <<x, "conn">> # Free
    BY FileFacts DEF OwnInv, Own, Keeps
  <2> QED BY <2>1, <1>1, <1>3 DEF Keeps, Active
<1> QED BY <1>1, <1>4, <1>5, <1>6, <1>7 DEF OwnInv, Own

LEMMA StartUdpOwn ==
  ASSUME OwnInv, NEW w \in Workers, StartUdp(w)
  PROVE  OwnInv'
<1> DEFINE a == Broadcast(w)
           b == Listen(w)
           t == Opened(a)
           m == Lowest(fd)
           n == Lowest(t)
<1>1. /\ Then("start", Udp(w)) /\ ~Full(fd) /\ ~Full(t)
      /\ fd' = [t EXCEPT ![n] = b]
      /\ sock' = [sock EXCEPT ![a] = m, ![b] = n] /\ UNCHANGED <<proc, con, cfd>>
  BY DEF StartUdp, WithBroadcast, UdpNumbers, conVars
<1>2. a \in Loops /\ b \in Loops /\ a # b /\ a \in Files /\ b \in Files
      /\ \A f \in Files : f # Free
  BY FileFacts
<1>3. /\ t \in [NUMBERS -> Files \cup {Free}] /\ m \in NUMBERS /\ t[m] = a
      /\ \A k \in NUMBERS : fd[k] # Free => t[k] = fd[k]
  BY <1>1, <1>2, OpenedFacts DEF OwnInv
<1>4. n \in NUMBERS /\ t[n] = Free
  BY <1>1, LowestFacts
<1> HIDE DEF a, b, t, m, n
<1>5. /\ fd' \in [NUMBERS -> Files \cup {Free}] /\ fd'[m] = a /\ fd'[n] = b
      /\ \A k \in NUMBERS : fd[k] # Free => fd'[k] = fd[k]
  BY <1>1, <1>2, <1>3, <1>4 DEF OwnInv, Table
<1>6. Paired(todo') /\ todo # <<>> /\ \A l : ~At("reset", l)
  BY <1>1, ThenFacts DEF OwnInv
<1>7. Table'
  BY <1>1, <1>3, <1>4, <1>5 DEF OwnInv, Table, Numbered
<1>8. ASSUME NEW l \in Loops
      PROVE  Owns(l)'
  <2>1. CASE l = a \/ l = b
    BY <2>1, <1>1, <1>2, <1>5 DEF Owns, OwnInv, Table
  <2>2. CASE l # a /\ l # b
    <3>1. sock'[l] = sock[l] /\ sock[l] \in Numbered
      BY <2>2, <1>1 DEF OwnInv, Table
    <3>2. sock[l] # INVALID_SOCK => sock[l] \in NUMBERS /\ fd[sock[l]] = l /\ l # Free
      BY <3>1, <1>6, FileFacts, NumberFacts DEF OwnInv, Own, Owns
    <3> QED BY <3>1, <3>2, <1>5 DEF Owns
  <2> QED BY <2>1, <2>2
<1>9. ASSUME NEW x \in Users
      PROVE  Keeps(x)'
  <2>1. Active(x) => cfd[x] \in NUMBERS /\ fd[cfd[x]] = <<x, "conn">> /\ <<x, "conn">> # Free
    BY FileFacts DEF OwnInv, Own, Keeps
  <2> QED BY <2>1, <1>1, <1>5 DEF Keeps, Active
<1> QED BY <1>1, <1>6, <1>7, <1>8, <1>9 DEF OwnInv, Own

LEMMA StartTcpFailsOwn ==
  ASSUME OwnInv, NEW w \in Workers, StartTcpFails(w)
  PROVE  OwnInv'
<1>1. /\ At("start", Tcp(w)) /\ todo' = Failed(Tcp(w))
      /\ sock' = [sock EXCEPT ![Accept(w)] = INVALID_SOCK] /\ UNCHANGED <<proc, fd, con, cfd>>
  BY DEF StartTcpFails, conVars
<1>2. Paired(todo') /\ todo # <<>> /\ \A l : ~At("reset", l)
  <2>1. Tcp(w) \in Objects /\ todo # <<>> /\ \A l : ~At("reset", l)
    BY <1>1 DEF Tcp, Objects, At
  <2> QED BY <2>1, <1>1, PairedFailed DEF OwnInv
<1>3. Table'
  BY <1>1 DEF OwnInv, Table, Numbered
<1>4. ASSUME NEW l \in Loops
      PROVE  Owns(l)'
  <2>1. sock'[l] # INVALID_SOCK => sock'[l] = sock[l]
    BY <1>1 DEF OwnInv, Table
  <2> QED BY <2>1, <1>1, <1>2 DEF Owns, OwnInv, Own
<1>5. \A x \in Users : Keeps(x)'
  BY <1>1 DEF OwnInv, Own, Keeps, Active
<1> QED BY <1>1, <1>2, <1>3, <1>4, <1>5 DEF OwnInv, Own

(* close() and the assignment after it *)
LEMMA CloseSocketOwn ==
  ASSUME OwnInv, NEW s \in Loops, CloseSocket(s)
  PROVE  OwnInv'
<1>1. /\ Then("close", s) /\ CloseNumber(sock[s]) /\ UNCHANGED <<proc, sock, cfd>>
      /\ con' = [x \in Users |-> IF Unserved(x) THEN "none" ELSE con[x]]
  BY DEF CloseSocket, DropUnserved
<1>2. Paired(todo') /\ todo # <<>> /\ (\A l : ~At("reset", l)) /\ At("reset", s)'
  BY <1>1, ThenFacts DEF OwnInv
<1>3. /\ fd' \in [NUMBERS -> Files \cup {Free}]
      /\ \A m \in NUMBERS : m # sock[s] => fd'[m] = fd[m]
  BY <1>1, CloseFacts DEF OwnInv
<1>4. \A l \in Loops : /\ sock[l] \in Numbered
                       /\ sock[l] # INVALID_SOCK => sock[l] \in NUMBERS /\ fd[sock[l]] = l
  BY <1>2, NumberFacts DEF OwnInv, Own, Owns, Table
<1>5. Table'
  BY <1>1, <1>3 DEF OwnInv, Table
<1>6. ASSUME NEW l \in Loops
      PROVE  Owns(l)'
  <2>1. CASE l = s
    BY <2>1, <1>2 DEF Owns
  <2>2. CASE l # s
    <3>1. sock[l] # INVALID_SOCK => sock[l] # sock[s]
      BY <2>2, <1>4
    <3> QED BY <3>1, <1>1, <1>3, <1>4 DEF Owns
  <2> QED BY <2>1, <2>2
<1>7. ASSUME NEW x \in Users, Active(x)'
      PROVE  Keeps(x)'
  <2>1. Active(x)
    BY <1>1, <1>7 DEF Active
  <2>2. cfd[x] \in NUMBERS /\ fd[cfd[x]] = <<x, "conn">>
    BY <2>1 DEF OwnInv, Own, Keeps
  <2>3. cfd[x] # sock[s]
    BY <2>2, <1>4, FileFacts, NumberFacts
  <2> QED BY <2>2, <2>3, <1>1, <1>3 DEF Keeps
<1> QED BY <1>1, <1>2, <1>5, <1>6, <1>7 DEF OwnInv, Own, Keeps

LEMMA ResetSocketOwn ==
  ASSUME OwnInv, NEW s \in Loops, ResetSocket(s)
  PROVE  OwnInv'
<1>1. /\ Then("reset", s) /\ sock' = [sock EXCEPT ![s] = INVALID_SOCK]
      /\ UNCHANGED <<proc, fd, con, cfd>>
  BY DEF ResetSocket, conVars
<1>2. Paired(todo') /\ todo # <<>>
  BY <1>1, ThenFacts DEF OwnInv
<1>3. Table'
  BY <1>1 DEF OwnInv, Table, Numbered
<1>4. ASSUME NEW l \in Loops
      PROVE  Owns(l)'
  <2>1. CASE l = s
    BY <2>1, <1>1 DEF Owns, OwnInv, Table
  <2>2. CASE l # s
    <3>1. sock'[l] = sock[l] /\ ~At("reset", l)
      BY <2>2, <1>1 DEF OwnInv, Table, Then, At
    <3> QED BY <3>1, <1>1 DEF Owns, OwnInv, Own
  <2> QED BY <2>1, <2>2
<1>5. \A x \in Users : Keeps(x)'
  BY <1>1 DEF OwnInv, Own, Keeps, Active
<1> QED BY <1>1, <1>2, <1>3, <1>4, <1>5 DEF OwnInv, Own

(* accept(), socket() of send_file, and their close() *)
LEMMA OpenUserOwn ==
  ASSUME OwnInv, NEW x \in Users, ~Full(fd), ~Active(x),
         fd' = Opened(<<x, "conn">>), cfd' = [cfd EXCEPT ![x] = Lowest(fd)],
         UNCHANGED <<mainVars, sock>>,
         \A y \in Users : y # x => (Active(y)' => Active(y))
  PROVE  OwnInv'
<1> DEFINE f == <<x, "conn">>
<1>1. f \in Files /\ fd' = Opened(f)
  BY FileFacts
<1> HIDE DEF f
<1>2. /\ fd' \in [NUMBERS -> Files \cup {Free}]
      /\ Lowest(fd) \in NUMBERS /\ fd'[Lowest(fd)] = f
      /\ \A n \in NUMBERS : fd[n] # Free => fd'[n] = fd[n]
  <2>1. Table /\ Own /\ f \in Files
    BY <1>1 DEF OwnInv
  <2>2. /\ Opened(f) \in [NUMBERS -> Files \cup {Free}]
        /\ Lowest(fd) \in NUMBERS /\ Opened(f)[Lowest(fd)] = f
        /\ \A n \in NUMBERS : fd[n] # Free => Opened(f)[n] = fd[n]
    BY <2>1, OpenedFacts
  <2> QED BY <2>2, <1>1
<1>3. Table'
  BY <1>2 DEF OwnInv, Table, Numbered
<1>4. ASSUME NEW l \in Loops
      PROVE  Owns(l)'
  <2>1. sock[l] # INVALID_SOCK /\ ~At("reset", l)
          => sock[l] \in NUMBERS /\ fd[sock[l]] = l /\ l # Free
    BY FileFacts, NumberFacts DEF OwnInv, Own, Owns, Table
  <2>2. At("reset", l)' <=> At("reset", l)
    BY DEF At, mainVars
  <2> QED BY <2>1, <2>2, <1>2 DEF Owns
<1>5. ASSUME NEW y \in Users, Active(y)'
      PROVE  Keeps(y)'
  <2>1. CASE y = x
    BY <2>1, <1>2 DEF Keeps, OwnInv, Table, f
  <2>2. CASE y # x
    <3>1. cfd[y] \in NUMBERS /\ fd[cfd[y]] = <<y, "conn">> /\ <<y, "conn">> # Free
      BY <2>2, <1>5, FileFacts DEF OwnInv, Own, Keeps
    <3>2. cfd'[y] = cfd[y]
      BY <2>2 DEF OwnInv, Table
    <3> QED BY <3>1, <3>2, <1>2 DEF Keeps
  <2> QED BY <2>1, <2>2
<1> QED BY <1>3, <1>4, <1>5 DEF OwnInv, Own, Keeps, mainVars

LEMMA CloseConnectionOwn ==
  ASSUME OwnInv, NEW x \in Users, CloseConnection(x)
  PROVE  OwnInv'
<1>1. /\ Active(x) /\ CloseNumber(cfd[x]) /\ cfd' = [cfd EXCEPT ![x] = INVALID_SOCK]
      /\ UNCHANGED <<proc, todo, sock>>
      /\ con' = [y \in Users |-> IF y = x THEN "none" ELSE IF Unserved(y) THEN "none" ELSE con[y]]
  BY DEF CloseConnection, Becomes, mainVars
<1>2. cfd[x] \in NUMBERS /\ fd[cfd[x]] = <<x, "conn">>
  BY <1>1 DEF OwnInv, Own, Keeps
<1>3. /\ fd' \in [NUMBERS -> Files \cup {Free}]
      /\ \A m \in NUMBERS : m # cfd[x] => fd'[m] = fd[m]
  BY <1>1, CloseFacts DEF OwnInv
<1>4. Table'
  BY <1>1, <1>3 DEF OwnInv, Table, Numbered
<1>5. ASSUME NEW l \in Loops
      PROVE  Owns(l)'
  <2>1. sock[l] # INVALID_SOCK /\ ~At("reset", l) => sock[l] \in NUMBERS /\ fd[sock[l]] = l
    BY NumberFacts DEF OwnInv, Own, Owns, Table
  <2>2. At("reset", l)' <=> At("reset", l)
    BY <1>1 DEF At
  <2>3. l # <<x, "conn">>
    BY FileFacts
  <2> QED BY <2>1, <2>2, <2>3, <1>1, <1>2, <1>3 DEF Owns
<1>6. ASSUME NEW y \in Users, Active(y)'
      PROVE  Keeps(y)'
  <2>1. y # x /\ Active(y)
    BY <1>1, <1>6 DEF Active
  <2>2. cfd[y] \in NUMBERS /\ fd[cfd[y]] = <<y, "conn">> /\ cfd[y] # cfd[x] /\ cfd'[y] = cfd[y]
    BY <2>1, <1>1, <1>2 DEF OwnInv, Own, Keeps, Table
  <2> QED BY <2>2, <1>3 DEF Keeps
<1> QED BY <1>1, <1>4, <1>5, <1>6 DEF OwnInv, Own, Keeps

(* Steps that leave the numbers alone *)
LEMMA KeepOwn ==
  ASSUME OwnInv, UNCHANGED <<mainVars, fd, sock, cfd>>, \A x \in Users : Active(x)' => Active(x)
  PROVE  OwnInv'
<1>1. Table' /\ Own'
  BY OwnSame DEF OwnInv, At, mainVars
<1> QED BY <1>1 DEF OwnInv, mainVars

LEMMA ThenOwn ==
  ASSUME OwnInv, NEW op, NEW x, Then(op, x), op # "reset",
         UNCHANGED <<fd, sock, con, cfd>>, proc' # proc => proc' # "ended"
  PROVE  OwnInv'
<1>1. Paired(todo') /\ todo # <<>> /\ \A l : ~At("reset", l)
  BY ThenFacts DEF OwnInv
<1>2. Table' /\ Own'
  BY <1>1, OwnSame DEF OwnInv, Active
<1> QED BY <1>1, <1>2 DEF OwnInv

LEMMA OwnStep ==
  ASSUME OwnInv, [NextUdpStarts]_vars
  PROVE  OwnInv'
<1>1. CASE SignalKills \/ ExitProcess
  BY <1>1, EndOwn DEF SignalKills, ExitProcess
<1>2. CASE OpenWindow \/ Signal
  <2>1. UNCHANGED <<todo, fd, sock, con, cfd>> /\ proc' # "ended"
    BY <1>2 DEF OpenWindow, Signal, conVars
  <2>2. Table' /\ Own'
    BY <2>1, OwnSame DEF OwnInv, At, Active
  <2> QED BY <2>1, <2>2 DEF OwnInv
<1>3. ASSUME NEW w \in Workers, InstallSignalHandler(w) \/ FreeWorker(w)
      PROVE  OwnInv'
  <2>1. CASE InstallSignalHandler(w)
    <3>1. Then("install", w) /\ UNCHANGED <<fd, sock, con, cfd>> /\ proc' # "ended"
      BY <2>1 DEF InstallSignalHandler, conVars
    <3> QED BY <3>1, ThenOwn
  <2>2. CASE FreeWorker(w)
    <3>1. Then("free", w) /\ UNCHANGED <<fd, sock, con, cfd, proc>>
      BY <2>2 DEF FreeWorker
    <3> QED BY <3>1, ThenOwn
  <2> QED BY <1>3, <2>1, <2>2
<1>4. ASSUME NEW o \in Objects, ClearRunning(o)
      PROVE  OwnInv'
  <2>1. Then("clear", o) /\ UNCHANGED <<fd, sock, con, cfd, proc>>
    BY <1>4 DEF ClearRunning, conVars
  <2> QED BY <2>1, ThenOwn
<1>5. ASSUME NEW l \in Loops, Join(l)
      PROVE  OwnInv'
  <2>1. Then("join", l) /\ UNCHANGED <<fd, sock, con, cfd, proc>>
    BY <1>5 DEF Join, conVars
  <2> QED BY <2>1, ThenOwn
<1>6. ASSUME NEW l \in Loops, LoopStep(l) \/ Received(l)
      PROVE  OwnInv'
  <2>1. UNCHANGED <<mainVars, fd, sock, cfd>> /\ (UNCHANGED con \/ DropUnserved)
    BY <1>6 DEF LoopStep, Call, CallReturns, AcceptFails, Woken, Received, conVars
  <2>2. \A x \in Users : Active(x)' => Active(x)
    BY <2>1 DEF Active, DropUnserved
  <2> QED BY <2>1, <2>2, KeepOwn
<1>7. ASSUME NEW c \in Conns, NEW w \in Workers, Connect(c, w)
      PROVE  OwnInv'
  <2>1. UNCHANGED <<mainVars, fd, sock, cfd>> /\ con' = [con EXCEPT ![c] = "backlog"]
    BY <1>7 DEF Connect
  <2>2. \A x \in Users : Active(x)' => Active(x)
    BY <2>1 DEF Active
  <2> QED BY <2>1, <2>2, KeepOwn
<1>8. ASSUME NEW x \in Users, ReceiveHeader(x)
      PROVE  OwnInv'
  <2>1. /\ UNCHANGED <<mainVars, fd, sock, cfd>> /\ con[x] = "receive"
        /\ con' = [con EXCEPT ![x] = "settings"]
    BY <1>8 DEF ReceiveHeader
  <2>2. \A y \in Users : Active(y)' => Active(y)
    BY <2>1 DEF Active
  <2> QED BY <2>1, <2>2, KeepOwn
<1>9. ASSUME NEW c \in Conns, NEW w \in Workers, AcceptConnection(Accept(w), c)
      PROVE  OwnInv'
  <2>1. /\ c \in Users /\ ~Full(fd) /\ ~Active(c)
        /\ fd' = Opened(<<c, "conn">>) /\ cfd' = [cfd EXCEPT ![c] = Lowest(fd)]
        /\ UNCHANGED <<mainVars, sock>> /\ Becomes(c, "receive")
    BY <1>9 DEF AcceptConnection, Active, Users
  <2>2. \A y \in Users : y # c => (Active(y)' => Active(y))
    BY <2>1 DEF Becomes, Active
  <2> QED BY <2>1, <2>2, OpenUserOwn
<1>10. ASSUME NEW x \in Senders, OpenSender(x)
       PROVE  OwnInv'
  <2>1. /\ x \in Users /\ ~Full(fd) /\ ~Active(x)
        /\ fd' = Opened(<<x, "conn">>) /\ cfd' = [cfd EXCEPT ![x] = Lowest(fd)]
        /\ UNCHANGED <<mainVars, sock>> /\ con' = [con EXCEPT ![x] = "sending"]
    BY <1>10 DEF OpenSender, Active, Users
  <2>2. \A y \in Users : y # x => (Active(y)' => Active(y))
    BY <2>1 DEF Active
  <2> QED BY <2>1, <2>2, OpenUserOwn
<1>11. CASE UNCHANGED vars
  BY <1>11, KeepOwn DEF vars, mainVars, conVars, Active
<1> QED BY <1>1, <1>2, <1>3, <1>4, <1>5, <1>6, <1>7, <1>8, <1>9, <1>10, <1>11,
           OrderOwn, StartTcpOwn, StartUdpOwn, StartTcpFailsOwn, CloseSocketOwn, ResetSocketOwn,
           CloseConnectionOwn
        DEF NextUdpStarts, Next, MainStep, HandlerStep

LEMMA InitOwn == Init => OwnInv
<1> SUFFICES ASSUME Init
             PROVE  OwnInv
  OBVIOUS
<1>1. Table
  BY DEF Init, Table, Numbered
<1>2. todo = <<>> /\ Paired(todo)
  BY PairedEmpty DEF Init
<1>3. \A l \in Loops : Owns(l)
  BY DEF Init, Owns
<1>4. \A x \in Users : Keeps(x)
  BY DEF Init, Keeps, Active
<1> QED BY <1>1, <1>2, <1>3, <1>4 DEF OwnInv, Own

(* As long as UdpDiscovery::start does not fail, no close() of the process *)
(* takes a socket away from the part that uses it, however often servers   *)
(* and scans start and stop while connections come and go.                 *)
THEOREM OwnNumbers == Init /\ [][NextUdpStarts]_vars => []NumbersAreOwn
<1>1. OwnInv => NumbersAreOwn
  BY DEF OwnInv, Own, Owns, Keeps, NumbersAreOwn
<1> QED BY <1>1, InitOwn, OwnStep, PTL
-----------------------------------------------------------------------------
(* An accept thread, its number, and the files it can stand for while the  *)
(* main thread is between close() and join(): none, or a connection.       *)

LoopTypes == /\ lpc \in [Loops -> {"none", "call", "in", "ended"}]
             /\ arg \in [Loops -> Numbered]
             /\ held \in [Loops -> Files \cup {Free}]

Spare == {Free} \cup (Users \X {"conn"})

Stopping(w) == At("reset", Accept(w)) \/ At("join", Accept(w))

Given(w) ==
  lpc[Accept(w)] = "call" /\ arg[Accept(w)] # INVALID_SOCK =>
    \/ fd[arg[Accept(w)]] = Accept(w)
    \/ Stopping(w) /\ fd[arg[Accept(w)]] \in Spare

Member(w) ==
  sock[Accept(w)] # INVALID_SOCK =>
    \/ fd[sock[Accept(w)]] = Accept(w)
    \/ At("reset", Accept(w)) /\ fd[sock[Accept(w)]] \in Spare

AcceptInv == OwnInv /\ LoopTypes /\ (\A w \in Workers : Given(w) /\ Member(w)) /\ AcceptsOwn

LEMMA SpareFacts ==
  /\ Free \in Spare
  /\ \A x \in Users : <<x, "conn">> \in Spare
  /\ \A w \in Workers : Accept(w) \notin Spare /\ Accept(w) # Free
BY DEF Spare, Free, Accept

LEMMA OpenedElsewhere ==
  ASSUME NEW f, fd' = Opened(f), fd \in [NUMBERS -> Files \cup {Free}],
         NEW n \in NUMBERS, n # Lowest(fd)
  PROVE  fd'[n] = fd[n]
BY DEF Opened

LEMMA AgainFacts ==
  ASSUME LoopTypes, Table, NEW l \in Loops, Again(l)
  PROVE  /\ LoopTypes'
         /\ lpc'[l] = "call" => arg'[l] = sock[l]
         /\ held'[l] = Free
         /\ \A k \in Loops : k # l => lpc'[k] = lpc[k] /\ arg'[k] = arg[k] /\ held'[k] = held[k]
BY DEF LoopTypes, Table, Again, Numbered

(* Steps of threads, handlers and senders: a number is opened for a        *)
(* connection, or a connection's is closed.                                *)
LEMMA GentleAccept ==
  ASSUME AcceptInv, LoopTypes', UNCHANGED <<todo, sock>>,
         \A n \in NUMBERS : fd'[n] = fd[n] \/ (fd[n] \in Spare /\ fd'[n] \in Spare),
         \A w \in Workers : LET a == Accept(w) IN
           /\ lpc'[a] = "call" => (lpc[a] = "call" /\ arg'[a] = arg[a]) \/ arg'[a] = sock[a]
           /\ held'[a] \in {held[a], Free, a}
  PROVE  (\A w \in Workers : Given(w)' /\ Member(w)') /\ AcceptsOwn'
<1>1. ASSUME NEW w \in Workers
      PROVE  Given(w)' /\ Member(w)' /\ held'[Accept(w)] \in {Accept(w), Free}
  <2> DEFINE a == Accept(w)
  <2>1. /\ a \in Loops /\ a \notin Spare /\ arg'[a] \in Numbered /\ sock[a] \in Numbered
        /\ Given(w) /\ Member(w) /\ held[a] \in {a, Free}
    BY FileFacts, SpareFacts DEF AcceptInv, LoopTypes, OwnInv, Table, AcceptsOwn
  <2>2. /\ At("reset", a)' <=> At("reset", a)
        /\ At("join", a)' <=> At("join", a)
    BY DEF At
  <2>3. \A n \in Numbered : n # INVALID_SOCK => n \in NUMBERS
    BY NumberFacts
  <2>4. \A n \in NUMBERS : /\ fd[n] = a => fd'[n] = a
                           /\ fd[n] \in Spare => fd'[n] \in Spare
    BY <2>1
  <2>5. Member(w)'
    BY <2>1, <2>2, <2>3, <2>4 DEF Member
  <2>6. Given(w)'
    <3> SUFFICES ASSUME lpc'[a] = "call", arg'[a] # INVALID_SOCK
                 PROVE  fd'[arg'[a]] = a \/ (Stopping(w)' /\ fd'[arg'[a]] \in Spare)
      BY DEF Given
    <3>1. CASE lpc[a] = "call" /\ arg'[a] = arg[a]
      BY <3>1, <2>1, <2>2, <2>3, <2>4 DEF Given, Stopping
    <3>2. CASE arg'[a] = sock[a]
      BY <3>2, <2>1, <2>2, <2>3, <2>4 DEF Member, Stopping
    <3> QED BY <3>1, <3>2
  <2>7. held'[a] \in {a, Free}
    BY <2>1
  <2> QED BY <2>5, <2>6, <2>7
<1> QED BY <1>1 DEF AcceptsOwn

(* Statements of the main thread but those between close() and join().     *)
LEMMA StatementAccept ==
  ASSUME AcceptInv, \A w \in Workers : ~Stopping(w),
         \A n \in NUMBERS : fd[n] # Free => fd'[n] = fd[n],
         \A w \in Workers : LET a == Accept(w) IN
           /\ sock'[a] \in {sock[a], INVALID_SOCK}
           /\ lpc'[a] = "call" => lpc[a] = "call" /\ arg'[a] = arg[a]
           /\ held'[a] = held[a]
  PROVE  (\A w \in Workers : Given(w)' /\ Member(w)') /\ AcceptsOwn'
<1>1. ASSUME NEW w \in Workers
      PROVE  Given(w)' /\ Member(w)' /\ held'[Accept(w)] \in {Accept(w), Free}
  <2> DEFINE a == Accept(w)
  <2>1. /\ a \in Loops /\ a # Free /\ arg[a] \in Numbered /\ sock[a] \in Numbered
        /\ Given(w) /\ Member(w) /\ held[a] \in {a, Free}
    BY FileFacts, SpareFacts DEF AcceptInv, LoopTypes, OwnInv, Table, AcceptsOwn
  <2>2. /\ ~At("reset", a) /\ ~Stopping(w)
    BY DEF Stopping
  <2>3. \A n \in Numbered : n # INVALID_SOCK => n \in NUMBERS
    BY NumberFacts
  <2>4. Member(w)'
    BY <2>1, <2>2, <2>3 DEF Member
  <2>5. Given(w)'
    BY <2>1, <2>2, <2>3 DEF Given
  <2> QED BY <2>1, <2>4, <2>5
<1> QED BY <1>1 DEF AcceptsOwn

(* A statement that is neither a reset nor a join of an accept thread *)
LEMMA NotStopping ==
  ASSUME NEW op, NEW x, At(op, x), op # "reset", \A w \in Workers : op = "join" => x # Accept(w)
  PROVE  \A w \in Workers : ~Stopping(w)
<1> SUFFICES ASSUME NEW w \in Workers, Stopping(w)
             PROVE  FALSE
  OBVIOUS
<1>1. CASE At("reset", Accept(w))
  <2>1. op = "reset"
    BY <1>1 DEF At
  <2> QED BY <2>1
<1>2. CASE At("join", Accept(w))
  <2>1. op = "join" /\ x = Accept(w)
    BY <1>2 DEF At
  <2> QED BY <2>1
<1> QED BY <1>1, <1>2 DEF Stopping

LEMMA StartAccept ==
  ASSUME AcceptInv, NEW w \in Workers, StartTcp(w)
  PROVE  LoopTypes' /\ (\A v \in Workers : Given(v)' /\ Member(v)') /\ AcceptsOwn'
<1> DEFINE a == Accept(w)
<1>1. /\ At("start", Tcp(w)) /\ ~Full(fd) /\ fd' = Opened(a)
      /\ sock' = [sock EXCEPT ![a] = Lowest(fd)]
      /\ lpc' = [l \in Loops |-> IF l \in {a} THEN "call" ELSE lpc[l]]
      /\ arg' = [l \in Loops |-> IF l \in {a} THEN sock'[l] ELSE arg[l]]
      /\ held' = held
  BY DEF StartTcp, Then, Spawn
<1>2. a \in Loops /\ a \in Files /\ \A v \in Workers : Accept(v) \in Loops
  BY FileFacts
<1>3. /\ Lowest(fd) \in NUMBERS /\ fd'[Lowest(fd)] = a
      /\ \A n \in NUMBERS : fd[n] # Free => fd'[n] = fd[n]
  BY <1>1, <1>2, OpenedFacts DEF AcceptInv, OwnInv
<1>4. sock'[a] = Lowest(fd) /\ lpc'[a] = "call" /\ arg'[a] = Lowest(fd)
  BY <1>1, <1>2 DEF AcceptInv, OwnInv, Table
<1>5. \A v \in Workers : ~Stopping(v)
  BY <1>1, NotStopping
<1>6. LoopTypes'
  BY <1>1, <1>3, <1>4 DEF AcceptInv, OwnInv, Table, LoopTypes, Numbered
<1>7. Given(w)' /\ Member(w)'
  BY <1>3, <1>4 DEF Given, Member
<1>8. ASSUME NEW v \in Workers, v # w
      PROVE  Given(v)' /\ Member(v)'
  <2> DEFINE b == Accept(v)
  <2>1. b # a /\ b \in Loops /\ b # Free
    BY <1>2, <1>8, SpareFacts DEF Accept
  <2>2. sock'[b] = sock[b] /\ lpc'[b] = lpc[b] /\ arg'[b] = arg[b]
    BY <2>1, <1>1 DEF AcceptInv, OwnInv, Table
  <2>3. /\ sock[b] # INVALID_SOCK => sock[b] \in NUMBERS
        /\ arg[b] # INVALID_SOCK => arg[b] \in NUMBERS
    BY <2>1, NumberFacts DEF AcceptInv, OwnInv, Table, LoopTypes
  <2>4. Given(v) /\ Member(v) /\ ~Stopping(v) /\ ~At("reset", b)
    BY <1>5 DEF AcceptInv, Stopping
  <2>5. Given(v)'
    BY <2>1, <2>2, <2>3, <2>4, <1>3 DEF Given
  <2>6. Member(v)'
    BY <2>1, <2>2, <2>3, <2>4, <1>3 DEF Member
  <2> QED BY <2>5, <2>6
<1>9. AcceptsOwn'
  BY <1>1 DEF AcceptInv, AcceptsOwn
<1> QED BY <1>6, <1>7, <1>8, <1>9

LEMMA CloseAccept ==
  ASSUME AcceptInv, NEW s \in Loops, CloseSocket(s)
  PROVE  LoopTypes' /\ (\A w \in Workers : Given(w)' /\ Member(w)') /\ AcceptsOwn'
<1>1. /\ Then("close", s) /\ CloseNumber(sock[s]) /\ UNCHANGED <<sock, lpc, arg>>
      /\ fd' = [m \in NUMBERS |-> IF m = sock[s] THEN Free ELSE fd[m]]
  BY DEF CloseSocket, CloseNumber
<1>2. At("reset", s)' /\ \A l : ~At("reset", l)
  BY <1>1, ThenFacts DEF AcceptInv, OwnInv
<1>3. \A w \in Workers : ~Stopping(w)
  BY <1>1, NotStopping DEF Then
<1>4. \A l \in Loops : held'[l] \in {held[l], Free}
  BY <1>1 DEF CloseNumber, AcceptInv, LoopTypes
<1>5. LoopTypes'
  <2>1. held' \in [Loops -> Files \cup {Free}]
    BY <1>1, <1>4 DEF CloseNumber, AcceptInv, LoopTypes
  <2> QED BY <2>1, <1>1 DEF AcceptInv, LoopTypes
<1>6. \A l \in Loops : sock[l] # INVALID_SOCK => sock[l] \in NUMBERS /\ fd[sock[l]] = l
  BY <1>2, NumberFacts DEF AcceptInv, OwnInv, Own, Owns, Table
<1>7. ASSUME NEW w \in Workers
      PROVE  Given(w)' /\ Member(w)'
  <2> DEFINE a == Accept(w)
  <2>1. a \in Loops /\ Free \in Spare
    BY FileFacts, SpareFacts
  <2>2. lpc[a] = "call" /\ arg[a] # INVALID_SOCK => arg[a] \in NUMBERS /\ fd[arg[a]] = a
    BY <2>1, <1>3, NumberFacts DEF AcceptInv, LoopTypes, Given
  <2>3. CASE s = a
    <3>1. \A n \in NUMBERS : fd[n] = a => fd'[n] \in {a, Free}
      BY <1>1
    <3> QED BY <2>1, <2>2, <2>3, <3>1, <1>1, <1>2, <1>6 DEF Given, Member, Stopping
  <2>4. CASE s # a
    <3>1. \A n \in NUMBERS : fd[n] = a => n # sock[s] /\ fd'[n] = a
      BY <2>4, <1>1, <1>6, NumberFacts
    <3> QED BY <2>1, <2>2, <3>1, <1>1, <1>6 DEF Given, Member
  <2> QED BY <2>3, <2>4
<1>8. AcceptsOwn'
  BY <1>4, FileFacts DEF AcceptInv, AcceptsOwn
<1> QED BY <1>5, <1>7, <1>8

LEMMA ResetAccept ==
  ASSUME AcceptInv, NEW s \in Loops, ResetSocket(s)
  PROVE  LoopTypes' /\ (\A w \in Workers : Given(w)' /\ Member(w)') /\ AcceptsOwn'
<1>1. /\ Then("reset", s) /\ sock' = [sock EXCEPT ![s] = INVALID_SOCK]
      /\ UNCHANGED <<fd, lpc, arg, held>>
  BY DEF ResetSocket, loopVars
<1>2. \A w : s = Accept(w) => At("join", Accept(w))'
  BY <1>1, ThenFacts DEF AcceptInv, OwnInv
<1>3. \A l : At("reset", l) => l = s
  BY <1>1 DEF Then, At
<1>4. \A l : ~At("join", l)
  BY <1>1 DEF Then, At
<1>5. ASSUME NEW w \in Workers
      PROVE  Given(w)' /\ Member(w)'
  <2> DEFINE a == Accept(w)
  <2>1. Given(w) /\ Member(w) /\ a \in Loops
    BY FileFacts DEF AcceptInv
  <2>2. CASE s = a
    <3>1. sock'[a] = INVALID_SOCK /\ At("join", a)'
      BY <2>1, <2>2, <1>1, <1>2 DEF AcceptInv, OwnInv, Table
    <3> QED BY <2>1, <3>1, <1>1 DEF Given, Member, Stopping
  <2>3. CASE s # a
    <3>1. sock'[a] = sock[a] /\ ~Stopping(w) /\ ~At("reset", a)
      BY <2>1, <2>3, <1>1, <1>3, <1>4 DEF AcceptInv, OwnInv, Table, Stopping
    <3> QED BY <2>1, <3>1, <1>1 DEF Given, Member
  <2> QED BY <2>2, <2>3
<1>6. LoopTypes' /\ AcceptsOwn'
  BY <1>1 DEF AcceptInv, LoopTypes, AcceptsOwn
<1> QED BY <1>5, <1>6

LEMMA JoinAccept ==
  ASSUME AcceptInv, NEW l \in Loops, Join(l)
  PROVE  LoopTypes' /\ (\A w \in Workers : Given(w)' /\ Member(w)') /\ AcceptsOwn'
<1>1. /\ Then("join", l) /\ lpc' = [lpc EXCEPT ![l] = "none"]
      /\ UNCHANGED <<fd, sock, arg, held>>
  BY DEF Join
<1>2. \A k : ~At("reset", k)
  BY <1>1 DEF Then, At
<1>3. \A k : At("join", k) => k = l
  BY <1>1 DEF Then, At
<1>4. ASSUME NEW w \in Workers
      PROVE  Given(w)' /\ Member(w)'
  <2> DEFINE a == Accept(w)
  <2>1. Given(w) /\ Member(w) /\ a \in Loops
    BY FileFacts DEF AcceptInv
  <2>2. Member(w)'
    BY <2>1, <1>1, <1>2 DEF Member
  <2>3. CASE l = a
    <3>1. lpc'[a] = "none"
      BY <2>1, <2>3, <1>1 DEF AcceptInv, LoopTypes
    <3> QED BY <2>2, <3>1 DEF Given
  <2>4. CASE l # a
    <3>1. lpc'[a] = lpc[a] /\ ~Stopping(w)
      BY <2>1, <2>4, <1>1, <1>2, <1>3 DEF AcceptInv, LoopTypes, Stopping
    <3> QED BY <2>1, <2>2, <3>1, <1>1 DEF Given
  <2> QED BY <2>3, <2>4
<1>5. LoopTypes' /\ AcceptsOwn'
  BY <1>1 DEF AcceptInv, LoopTypes, AcceptsOwn
<1> QED BY <1>4, <1>5

LEMMA EndAccept ==
  ASSUME Die
  PROVE  LoopTypes' /\ (\A w \in Workers : Given(w)' /\ Member(w)') /\ AcceptsOwn'
<1>1. \A w \in Workers : lpc'[Accept(w)] = "none" /\ sock'[Accept(w)] = INVALID_SOCK
                         /\ held'[Accept(w)] = Free
  BY FileFacts DEF Die
<1>2. LoopTypes'
  BY DEF Die, LoopTypes, Numbered
<1> QED BY <1>1, <1>2 DEF Given, Member, AcceptsOwn

LEMMA LoopAccept ==
  ASSUME AcceptInv, NEW l \in Loops, LoopStep(l) \/ Received(l)
  PROVE  LoopTypes' /\ (\A w \in Workers : Given(w)' /\ Member(w)') /\ AcceptsOwn'
<1>1. UNCHANGED <<todo, fd, sock>>
  BY DEF LoopStep, Call, CallReturns, AcceptFails, Woken, Received, mainVars
<1>2. CASE Call(l)
  <2>1. /\ lpc[l] = "call" /\ Blocks(l)
        /\ lpc' = [lpc EXCEPT ![l] = "in"] /\ held' = [held EXCEPT ![l] = Target(l)]
        /\ arg' = [arg EXCEPT ![l] = INVALID_SOCK]
    BY <1>2 DEF Call
  <2>2. Target(l) \in Files \cup {Free}
    <3>1. arg[l] # INVALID_SOCK => arg[l] \in NUMBERS
      BY NumberFacts DEF AcceptInv, LoopTypes
    <3> QED BY <3>1 DEF Target, AcceptInv, OwnInv, Table
  <2>3. LoopTypes'
    BY <2>1, <2>2 DEF AcceptInv, LoopTypes, Numbered
  <2>4. ASSUME NEW w \in Workers, l = Accept(w)
        PROVE  Target(l) = l
    <3>1. arg[l] # INVALID_SOCK /\ Target(l) = fd[arg[l]] /\ Target(l) # Free
      BY <2>1 DEF Blocks, Target
    <3>2. fd[arg[l]] = l \/ fd[arg[l]] \in Spare
      BY <2>1, <2>4, <3>1 DEF AcceptInv, Given
    <3>3. l[2] = "accept" /\ Target(l)[2] \in BlocksOn["accept"]
      BY <2>1, <2>4 DEF Blocks, Accept
    <3>4. Target(l)[2] = "accept"
      BY <3>3 DEF BlocksOn
    <3>5. Target(l) \notin Spare
      BY <3>1, <3>4 DEF Spare
    <3> QED BY <3>1, <3>2, <3>5
  <2>5. \A w \in Workers : LET a == Accept(w) IN
          /\ lpc'[a] = "call" => (lpc[a] = "call" /\ arg'[a] = arg[a]) \/ arg'[a] = sock[a]
          /\ held'[a] \in {held[a], Free, a}
    <3> SUFFICES ASSUME NEW w \in Workers
                 PROVE  LET a == Accept(w) IN
                        /\ lpc'[a] = "call" => (lpc[a] = "call" /\ arg'[a] = arg[a]) \/ arg'[a] = sock[a]
                        /\ held'[a] \in {held[a], Free, a}
      OBVIOUS
    <3>1. CASE l = Accept(w)
      BY <3>1, <2>1, <2>4 DEF AcceptInv, LoopTypes
    <3>2. CASE l # Accept(w)
      <4>1. Accept(w) \in Loops
        BY FileFacts
      <4> QED BY <4>1, <3>2, <2>1 DEF AcceptInv, LoopTypes
    <3> QED BY <3>1, <3>2
  <2> QED BY <1>1, <2>3, <2>5, GentleAccept
<1>3. CASE ~Call(l)
  <2>1. Again(l)
    BY <1>3 DEF LoopStep, CallReturns, AcceptFails, Woken, Received
  <2>2. /\ LoopTypes'
        /\ lpc'[l] = "call" => arg'[l] = sock[l]
        /\ held'[l] = Free
        /\ \A k \in Loops : k # l => lpc'[k] = lpc[k] /\ arg'[k] = arg[k] /\ held'[k] = held[k]
    BY <2>1, AgainFacts DEF AcceptInv, OwnInv
  <2>3. \A w \in Workers : LET a == Accept(w) IN
          /\ lpc'[a] = "call" => (lpc[a] = "call" /\ arg'[a] = arg[a]) \/ arg'[a] = sock[a]
          /\ held'[a] \in {held[a], Free, a}
    BY <2>2, FileFacts
  <2> QED BY <1>1, <2>2, <2>3, GentleAccept
<1> QED BY <1>2, <1>3

LEMMA UserAccept ==
  ASSUME AcceptInv,
         \/ \E c \in Conns, w \in Workers : Connect(c, w) \/ AcceptConnection(Accept(w), c)
         \/ \E x \in Users : HandlerStep(x)
         \/ \E x \in Senders : OpenSender(x)
  PROVE  LoopTypes' /\ (\A w \in Workers : Given(w)' /\ Member(w)') /\ AcceptsOwn'
<1>1. ASSUME NEW x \in Users, ~Full(fd), fd' = Opened(<<x, "conn">>)
      PROVE  \A n \in NUMBERS : fd'[n] = fd[n] \/ (fd[n] \in Spare /\ fd'[n] \in Spare)
  <2>1. Lowest(fd) \in NUMBERS /\ fd[Lowest(fd)] = Free
    BY <1>1, LowestFacts
  <2>2. <<x, "conn">> \in Files /\ <<x, "conn">> \in Spare /\ Free \in Spare
    BY FileFacts, SpareFacts
  <2>3. fd'[Lowest(fd)] = <<x, "conn">>
    BY <2>1, <1>1 DEF Opened, AcceptInv, OwnInv, Table
  <2>4. \A n \in NUMBERS : n # Lowest(fd) => fd'[n] = fd[n]
    BY <1>1, OpenedElsewhere DEF AcceptInv, OwnInv, Table
  <2> QED BY <2>1, <2>2, <2>3, <2>4
<1>2. ASSUME NEW c \in Conns, NEW w \in Workers, Connect(c, w)
      PROVE  LoopTypes' /\ (\A v \in Workers : Given(v)' /\ Member(v)') /\ AcceptsOwn'
  <2>1. UNCHANGED <<todo, fd, sock, lpc, arg, held>>
    BY <1>2 DEF Connect, mainVars, loopVars
  <2>2. LoopTypes'
    BY <2>1 DEF AcceptInv, LoopTypes
  <2> QED BY <2>1, <2>2, GentleAccept
<1>3. ASSUME NEW c \in Conns, NEW w \in Workers, AcceptConnection(Accept(w), c)
      PROVE  LoopTypes' /\ (\A v \in Workers : Given(v)' /\ Member(v)') /\ AcceptsOwn'
  <2> DEFINE l == Accept(w)
  <2>1. /\ ~Full(fd) /\ fd' = Opened(<<c, "conn">>) /\ c \in Users /\ l \in Loops
        /\ UNCHANGED <<todo, sock>> /\ Again(l)
    BY <1>3, FileFacts DEF AcceptConnection, mainVars, Users
  <2>2. \A n \in NUMBERS : fd'[n] = fd[n] \/ (fd[n] \in Spare /\ fd'[n] \in Spare)
    BY <2>1, <1>1
  <2> HIDE DEF l
  <2>3. /\ LoopTypes'
        /\ lpc'[l] = "call" => arg'[l] = sock[l]
        /\ held'[l] = Free
        /\ \A k \in Loops : k # l => lpc'[k] = lpc[k] /\ arg'[k] = arg[k] /\ held'[k] = held[k]
    BY <2>1, AgainFacts DEF AcceptInv, OwnInv
  <2>4. \A v \in Workers : LET a == Accept(v) IN
          /\ lpc'[a] = "call" => (lpc[a] = "call" /\ arg'[a] = arg[a]) \/ arg'[a] = sock[a]
          /\ held'[a] \in {held[a], Free, a}
    BY <2>3, FileFacts
  <2> QED BY <2>1, <2>2, <2>3, <2>4, GentleAccept
<1>4. ASSUME NEW x \in Users, ReceiveHeader(x)
      PROVE  LoopTypes' /\ (\A v \in Workers : Given(v)' /\ Member(v)') /\ AcceptsOwn'
  <2>1. UNCHANGED <<todo, fd, sock, lpc, arg, held>>
    BY <1>4 DEF ReceiveHeader, mainVars, loopVars
  <2>2. LoopTypes'
    BY <2>1 DEF AcceptInv, LoopTypes
  <2> QED BY <2>1, <2>2, GentleAccept
<1>5. ASSUME NEW x \in Users, CloseConnection(x)
      PROVE  LoopTypes' /\ (\A v \in Workers : Given(v)' /\ Member(v)') /\ AcceptsOwn'
  <2>1. /\ Active(x) /\ UNCHANGED <<todo, sock, lpc, arg>>
        /\ fd' = [m \in NUMBERS |-> IF m = cfd[x] THEN Free ELSE fd[m]]
        /\ held' = [l \in Loops |-> IF CLOSE_WAKES /\ cfd[x] \in NUMBERS /\ held[l] = fd[cfd[x]]
                                    THEN Free ELSE held[l]]
    BY <1>5 DEF CloseConnection, CloseNumber, mainVars
  <2>2. cfd[x] \in NUMBERS /\ fd[cfd[x]] = <<x, "conn">>
    BY <2>1 DEF AcceptInv, OwnInv, Own, Keeps
  <2>3. \A n \in NUMBERS : fd'[n] = fd[n] \/ (fd[n] \in Spare /\ fd'[n] \in Spare)
    BY <2>1, <2>2, SpareFacts
  <2>4. \A l \in Loops : held'[l] \in {held[l], Free}
    BY <2>1
  <2>5. LoopTypes'
    <3>1. held' \in [Loops -> Files \cup {Free}]
      BY <2>1 DEF AcceptInv, LoopTypes
    <3> QED BY <2>1, <3>1 DEF AcceptInv, LoopTypes
  <2> QED BY <2>1, <2>3, <2>4, <2>5, GentleAccept, FileFacts
<1>6. ASSUME NEW x \in Senders, OpenSender(x)
      PROVE  LoopTypes' /\ (\A v \in Workers : Given(v)' /\ Member(v)') /\ AcceptsOwn'
  <2>1. /\ ~Full(fd) /\ fd' = Opened(<<x, "conn">>) /\ x \in Users
        /\ UNCHANGED <<todo, sock, lpc, arg, held>>
    BY <1>6 DEF OpenSender, mainVars, loopVars, Users
  <2>2. \A n \in NUMBERS : fd'[n] = fd[n] \/ (fd[n] \in Spare /\ fd'[n] \in Spare)
    BY <2>1, <1>1
  <2>3. LoopTypes'
    BY <2>1 DEF AcceptInv, LoopTypes
  <2> QED BY <2>1, <2>2, <2>3, GentleAccept
<1> QED BY <1>2, <1>3, <1>4, <1>5, <1>6 DEF HandlerStep

(* The main thread: orders, and statements that leave the numbers alone *)
LEMMA MainAccept ==
  ASSUME AcceptInv, \A w \in Workers : ~Stopping(w), UNCHANGED <<fd, lpc, arg, held>>,
         \A w \in Workers : sock'[Accept(w)] \in {sock[Accept(w)], INVALID_SOCK}
  PROVE  LoopTypes' /\ (\A w \in Workers : Given(w)' /\ Member(w)') /\ AcceptsOwn'
<1>1. LoopTypes'
  BY DEF AcceptInv, LoopTypes
<1> QED BY <1>1, StatementAccept

LEMMA StartUdpAccept ==
  ASSUME AcceptInv, NEW w \in Workers, StartUdp(w)
  PROVE  LoopTypes' /\ (\A v \in Workers : Given(v)' /\ Member(v)') /\ AcceptsOwn'
<1> DEFINE a == Broadcast(w)
           b == Listen(w)
           t == Opened(a)
           m == Lowest(fd)
           n == Lowest(t)
<1>1. /\ At("start", Udp(w)) /\ ~Full(fd) /\ ~Full(t)
      /\ fd' = [t EXCEPT ![n] = b]
      /\ sock' = [sock EXCEPT ![a] = m, ![b] = n] /\ UNCHANGED <<held>>
      /\ lpc' = [l \in Loops |-> IF l \in {a, b} THEN "call" ELSE lpc[l]]
      /\ arg' = [l \in Loops |-> IF l \in {a, b} THEN sock'[l] ELSE arg[l]]
  BY DEF StartUdp, WithBroadcast, UdpNumbers, Spawn, Then
<1>2. /\ a \in Loops /\ b \in Loops /\ a # b /\ a \in Files
      /\ \A v \in Workers : Accept(v) \in Loops /\ Accept(v) # a /\ Accept(v) # b
  BY FileFacts DEF Accept, Broadcast, Listen
<1>3. /\ t \in [NUMBERS -> Files \cup {Free}] /\ m \in NUMBERS
      /\ \A k \in NUMBERS : fd[k] # Free => t[k] = fd[k]
  BY <1>1, <1>2, OpenedFacts DEF AcceptInv, OwnInv
<1>4. n \in NUMBERS /\ t[n] = Free
  BY <1>1, LowestFacts
<1> HIDE DEF a, b, t, m, n
<1>5. \A k \in NUMBERS : fd[k] # Free => fd'[k] = fd[k]
  BY <1>1, <1>3, <1>4
<1>6. sock' \in [Loops -> Numbered]
  BY <1>1, <1>3, <1>4 DEF AcceptInv, OwnInv, Table, Numbered
<1>7. LoopTypes'
  BY <1>1, <1>6 DEF AcceptInv, LoopTypes
<1>8. \A v \in Workers : ~Stopping(v)
  BY <1>1, NotStopping
<1>9. \A v \in Workers : LET c == Accept(v) IN
        /\ sock'[c] \in {sock[c], INVALID_SOCK}
        /\ lpc'[c] = "call" => lpc[c] = "call" /\ arg'[c] = arg[c]
        /\ held'[c] = held[c]
  BY <1>1, <1>2 DEF AcceptInv, OwnInv, Table
<1> QED BY <1>5, <1>7, <1>8, <1>9, StatementAccept

LEMMA AcceptStep ==
  ASSUME AcceptInv, [NextUdpStarts]_vars
  PROVE  AcceptInv'
<1> DEFINE Kept == LoopTypes' /\ (\A w \in Workers : Given(w)' /\ Member(w)') /\ AcceptsOwn'
<1>1. OwnInv'
  BY OwnStep DEF AcceptInv
<1>2. ASSUME OpenWindow \/ Signal
      PROVE  Kept
  <2>1. UNCHANGED <<todo, fd, sock, lpc, arg, held>>
    BY <1>2 DEF OpenWindow, Signal, loopVars
  <2>2. LoopTypes'
    BY <2>1 DEF AcceptInv, LoopTypes
  <2> QED BY <2>1, <2>2, GentleAccept
<1>3. ASSUME UNCHANGED vars
      PROVE  Kept
  <2>1. UNCHANGED <<todo, fd, sock, lpc, arg, held>>
    BY <1>3 DEF vars, mainVars, loopVars
  <2>2. LoopTypes'
    BY <2>1 DEF AcceptInv, LoopTypes
  <2> QED BY <2>1, <2>2, GentleAccept
<1>4. ASSUME \/ \E w \in Workers : RunCommand(w) \/ StartWorker(w) \/ StopWorker(w) \/ LoopEnds(w)
             \/ CloseWindow
      PROVE  Kept
  <2>1. todo = <<>> /\ UNCHANGED <<fd, sock, lpc, arg, held>>
    BY <1>4 DEF RunCommand, StartWorker, StopWorker, LoopEnds, CloseWindow, loopVars, AcceptInv, OwnInv
  <2>2. \A w \in Workers : ~Stopping(w)
    BY <2>1 DEF Stopping, At
  <2> QED BY <2>1, <2>2, MainAccept
<1>5. ASSUME NEW w \in Workers, InstallSignalHandler(w) \/ FreeWorker(w)
      PROVE  Kept
  <2>1. UNCHANGED <<fd, sock, lpc, arg, held>> /\ (At("install", w) \/ At("free", w))
    BY <1>5 DEF InstallSignalHandler, FreeWorker, loopVars, Then
  <2>2. \A v \in Workers : ~Stopping(v)
    BY <2>1, NotStopping
  <2> QED BY <2>1, <2>2, MainAccept
<1>6. ASSUME NEW o \in Objects, ClearRunning(o)
      PROVE  Kept
  <2>1. UNCHANGED <<fd, sock, lpc, arg, held>> /\ At("clear", o)
    BY <1>6 DEF ClearRunning, loopVars, Then
  <2>2. \A v \in Workers : ~Stopping(v)
    BY <2>1, NotStopping
  <2> QED BY <2>1, <2>2, MainAccept
<1>7. ASSUME NEW w \in Workers, StartTcpFails(w)
      PROVE  Kept
  <2>1. /\ UNCHANGED <<fd, lpc, arg, held>> /\ At("start", Tcp(w))
        /\ sock' = [sock EXCEPT ![Accept(w)] = INVALID_SOCK]
    BY <1>7 DEF StartTcpFails, loopVars
  <2>2. \A v \in Workers : ~Stopping(v)
    BY <2>1, NotStopping
  <2>3. \A v \in Workers : sock'[Accept(v)] \in {sock[Accept(v)], INVALID_SOCK}
    BY <2>1, FileFacts DEF AcceptInv, OwnInv, Table
  <2> QED BY <2>1, <2>2, <2>3, MainAccept
<1>8. ASSUME SignalKills \/ ExitProcess
      PROVE  Kept
  BY <1>8, EndAccept DEF SignalKills, ExitProcess
<1>9. Kept
  BY <1>2, <1>3, <1>4, <1>5, <1>6, <1>7, <1>8, StartAccept, StartUdpAccept, CloseAccept, ResetAccept,
     JoinAccept, LoopAccept, UserAccept
     DEF NextUdpStarts, Next, MainStep
<1> QED BY <1>1, <1>9 DEF AcceptInv

(* As long as UdpDiscovery::start does not fail, an accept thread waits at *)
(* its own server only: the number it calls with is closed and perhaps     *)
(* given again only until stop() has joined it, and meanwhile only to      *)
(* connections and senders.                                                *)
THEOREM AcceptOwnServer == Init /\ [][NextUdpStarts]_vars => []AcceptsOwn
<1>1. Init => AcceptInv
  <2> SUFFICES ASSUME Init
               PROVE  AcceptInv
    OBVIOUS
  <2>1. LoopTypes
    BY DEF Init, LoopTypes, Numbered
  <2>2. \A w \in Workers : /\ lpc[Accept(w)] = "none" /\ sock[Accept(w)] = INVALID_SOCK
                           /\ held[Accept(w)] = Free
    BY FileFacts DEF Init
  <2> QED BY <2>1, <2>2, InitOwn DEF AcceptInv, Given, Member, AcceptsOwn
<1>2. AcceptInv => AcceptsOwn
  BY DEF AcceptInv
<1> QED BY <1>1, <1>2, AcceptStep, PTL
=============================================================================
