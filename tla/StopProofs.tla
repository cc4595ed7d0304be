----------------------------- MODULE StopProofs -----------------------------
(***************************************************************************)
(* Lifecycle: what start() gave, stop() takes back.  The order of its      *)
(* statements, for every set of workers and every size of the table.       *)
(***************************************************************************)
EXTENDS LifecycleProofs

(* The statements before and after each other *)
Has(q, e)         == \E i \in 1..Len(q) : q[i] = e
Before(q, a, b)   == \A i \in 1..Len(q) : q[i] = b => \E j \in 1..(i - 1) : q[j] = a
Followed(q, a, b) == \A i \in 1..Len(q) : q[i] = a => \E j \in (i + 1)..Len(q) : q[j] = b

(* While an object has still to be started nothing else is planned but to   *)
(* start other objects, the second after the first, and to wait for signals. *)
Begins(q) ==
  \A i \in 1..Len(q) : q[i][1] = "start" =>
    /\ \A j \in 1..Len(q) : j # i => q[j][1] \in {"start", "install"} /\ q[j] # q[i]
    /\ \A w \in Workers : q[i][2] = First(w) =>
         \E j \in (i + 1)..Len(q) : q[j] = <<"start", Second(w)>>

(* What a thread has from start(), and the statement that ends it *)
Ends == {"clear", "reset", "join"}

InUse(op, l) == \/ op = "clear" /\ running[Object(l)]
                \/ op = "reset" /\ sock[l] # INVALID_SOCK
                \/ op = "join"  /\ lpc[l] # "none"

Last(op, l) == <<op, IF op = "clear" THEN Object(l) ELSE l>>

Start(l) == <<"start", Object(l)>>
FreeOf(l) == <<"free", l[1]>>

(* It ends before the object is destroyed. *)
Attached ==
  \A l \in Loops, op \in Ends : InUse(op, l) =>
    /\ wst[l[1]] = "on"
    /\ ~Has(todo, Start(l))
    /\ Before(todo, Last(op, l), FreeOf(l))

Planned ==
  /\ todo \in Seq(Statement) /\ wst \in [Workers -> {"off", "on"}]
  /\ Begins(todo)
  /\ \A l \in Loops : Has(todo, Start(l)) => wst[l[1]] = "on"
  /\ proc = "ended" => todo = <<>> /\ \A w \in Workers : wst[w] = "off"

PlanInv == Planned /\ Attached
StopInv == TypeOK /\ PlanInv

(* A thread of a running object has its own socket, and stop() clears       *)
(* running_ before it closes that.                                         *)
Calls(l) ==
  running[Object(l)] =>
    /\ sock[l] # INVALID_SOCK
    /\ lpc[l] = "call" => arg[l] = sock[l]
    /\ lpc[l] = "in" => held[l] = l
    /\ Before(todo, Last("clear", l), <<"close", l>>)
    /\ Before(todo, Last("clear", l), Last("reset", l))

CallInv == StopInv /\ OwnInv /\ \A l \in Loops : Calls(l)

(* A socket has no number but the member's, and is closed before that is    *)
(* forgotten and before the thread is joined.                              *)
Closes(l) ==
  /\ \A n \in NUMBERS : fd[n] = l => sock[l] = n
  /\ IsOpen(l) => Before(todo, <<"close", l>>, Last("reset", l))
  /\ Followed(todo, <<"close", l>>, Last("join", l))

(* A number that was closed under a call is given to connections only until *)
(* the thread is joined.                                                   *)
Touches(l) ==
  /\ lpc[l] = "call" /\ arg[l] # INVALID_SOCK =>
       fd[arg[l]] = l \/ (fd[arg[l]] \in Spare /\ Has(todo, Last("join", l)))
  /\ held[l] \in {l} \cup Spare

Waits(x) == con[x] = "backlog" => srv[x] \in Workers /\ Listening(srv[x])

Left    == (\A l \in Loops : Closes(l) /\ Touches(l)) /\ \A x \in Users : Waits(x)
LeftInv == CallInv /\ Left
-----------------------------------------------------------------------------
(* Lemmas about the order of statements *)

LEMMA EmptyOrder ==
  ASSUME NEW a, NEW b
  PROVE  ~Has(<<>>, a) /\ Before(<<>>, a, b) /\ Followed(<<>>, a, b) /\ Begins(<<>>)
BY DEF Has, Before, Followed, Begins

LEMMA TailFacts ==
  ASSUME NEW q \in Seq(Statement), q # <<>>
  PROVE  /\ Len(q) \in Nat /\ Len(q) >= 1 /\ Tail(q) \in Seq(Statement)
         /\ Len(Tail(q)) = Len(q) - 1 /\ Head(q) = q[1]
         /\ \A i \in 1..Len(Tail(q)) : i + 1 \in 1..Len(q) /\ Tail(q)[i] = q[i + 1]
         /\ \A i \in 1..Len(q) : i # 1 => i - 1 \in 1..Len(Tail(q)) /\ Tail(q)[i - 1] = q[i]
<1>1. /\ Len(q) \in Nat \ {0} /\ Head(q) = q[1]
      /\ Tail(q) \in Seq(Statement) /\ Len(Tail(q)) = Len(q) - 1
      /\ \A i \in 1..Len(Tail(q)) : Tail(q)[i] = q[i + 1]
  BY HeadTailProperties, EmptySeq
<1> QED BY <1>1

LEMMA TailOrder ==
  ASSUME NEW q \in Seq(Statement), q # <<>>, NEW a, NEW b
  PROVE  /\ Has(Tail(q), a) => Has(q, a)
         /\ Has(q, a) => Head(q) = a \/ Has(Tail(q), a)
         /\ Before(q, a, b) /\ Head(q) # a => Before(Tail(q), a, b)
         /\ Before(q, a, b) => Head(q) # b
         /\ Followed(q, a, b) => Followed(Tail(q), a, b) /\ (Head(q) = a => Has(Tail(q), b))
<1> DEFINE t == Tail(q)
<1>1. /\ Len(q) \in Nat /\ Len(q) >= 1 /\ t \in Seq(Statement)
      /\ Len(t) = Len(q) - 1 /\ Head(q) = q[1]
      /\ \A i \in 1..Len(t) : i + 1 \in 1..Len(q) /\ t[i] = q[i + 1]
      /\ \A i \in 1..Len(q) : i # 1 => i - 1 \in 1..Len(t) /\ t[i - 1] = q[i]
  BY TailFacts
<1> HIDE DEF t
<1>2. Has(t, a) => Has(q, a)
  BY <1>1 DEF Has
<1>3. Has(q, a) => Head(q) = a \/ Has(t, a)
  BY <1>1 DEF Has
<1>4. ASSUME Before(q, a, b), Head(q) # a
      PROVE  Before(t, a, b)
  <2> SUFFICES ASSUME NEW i \in 1..Len(t), t[i] = b
               PROVE  \E j \in 1..(i - 1) : t[j] = a
    BY DEF Before
  <2>1. i + 1 \in 1..Len(q) /\ q[i + 1] = b
    BY <1>1
  <2>2. PICK j \in 1..((i + 1) - 1) : q[j] = a
    BY <2>1, <1>4 DEF Before
  <2>3. j # 1 /\ j \in 1..Len(q)
    BY <2>2, <2>1, <1>1, <1>4
  <2>4. j - 1 \in 1..(i - 1) /\ t[j - 1] = a
    BY <2>2, <2>3, <1>1
  <2> QED BY <2>4
<1>5. Before(q, a, b) => Head(q) # b
  <2> SUFFICES ASSUME Before(q, a, b), Head(q) = b
               PROVE  FALSE
    OBVIOUS
  <2>1. 1 \in 1..Len(q) /\ q[1] = b
    BY <1>1
  <2>2. \E j \in 1..(1 - 1) : q[j] = a
    BY <2>1 DEF Before
  <2> QED BY <2>2
<1>6. ASSUME Followed(q, a, b)
      PROVE  Followed(t, a, b) /\ (Head(q) = a => Has(t, b))
  <2>1. ASSUME NEW i \in 1..Len(t), t[i] = a
        PROVE  \E j \in (i + 1)..Len(t) : t[j] = b
    <3>1. i + 1 \in 1..Len(q) /\ q[i + 1] = a
      BY <1>1, <2>1
    <3>2. PICK j \in ((i + 1) + 1)..Len(q) : q[j] = b
      BY <3>1, <1>6 DEF Followed
    <3>3. j \in 1..Len(q) /\ j # 1 /\ j - 1 \in (i + 1)..Len(t)
      BY <3>1, <3>2, <1>1
    <3>4. t[j - 1] = b
      BY <3>2, <3>3, <1>1
    <3> QED BY <3>3, <3>4
  <2>2. ASSUME Head(q) = a
        PROVE  Has(t, b)
    <3>1. 1 \in 1..Len(q) /\ q[1] = a
      BY <1>1, <2>2
    <3>2. PICK j \in (1 + 1)..Len(q) : q[j] = b
      BY <3>1, <1>6 DEF Followed
    <3>3. j \in 1..Len(q) /\ j # 1
      BY <3>2, <1>1
    <3> QED BY <3>2, <3>3, <1>1 DEF Has
  <2> QED BY <2>1, <2>2 DEF Followed
<1> QED BY <1>2, <1>3, <1>4, <1>5, <1>6 DEF t

LEMMA TailBegins ==
  ASSUME NEW q \in Seq(Statement), q # <<>>, Begins(q)
  PROVE  /\ Begins(Tail(q))
         /\ Head(q)[1] = "start" =>
              /\ ~Has(Tail(q), Head(q))
              /\ \A op, x : Has(Tail(q), <<op, x>>) => op \in {"start", "install"}
              /\ \A w \in Workers : Head(q)[2] = First(w) => Has(Tail(q), <<"start", Second(w)>>)
         /\ Head(q)[1] \notin {"start", "install"} => \A x : ~Has(Tail(q), <<"start", x>>)
<1> DEFINE t == Tail(q)
<1>1. /\ Len(q) \in Nat /\ Len(q) >= 1 /\ t \in Seq(Statement)
      /\ Len(t) = Len(q) - 1 /\ Head(q) = q[1]
      /\ \A i \in 1..Len(t) : i + 1 \in 1..Len(q) /\ t[i] = q[i + 1]
      /\ \A i \in 1..Len(q) : i # 1 => i - 1 \in 1..Len(t) /\ t[i - 1] = q[i]
  BY TailFacts
<1> HIDE DEF t
<1>2. ASSUME NEW i \in 1..Len(t), t[i][1] = "start"
      PROVE  /\ \A j \in 1..Len(t) : j # i => t[j][1] \in {"start", "install"} /\ t[j] # t[i]
             /\ \A w \in Workers : t[i][2] = First(w) =>
                  \E j \in (i + 1)..Len(t) : t[j] = <<"start", Second(w)>>
  <2>1. i + 1 \in 1..Len(q) /\ q[i + 1] = t[i]
    BY <1>1
  <2>2. /\ \A j \in 1..Len(q) : j # i + 1 => q[j][1] \in {"start", "install"} /\ q[j] # q[i + 1]
        /\ \A w \in Workers : q[i + 1][2] = First(w) =>
             \E j \in ((i + 1) + 1)..Len(q) : q[j] = <<"start", Second(w)>>
    BY <2>1, <1>2 DEF Begins
  <2>3. \A j \in 1..Len(t) : j # i => t[j][1] \in {"start", "install"} /\ t[j] # t[i]
    <3> SUFFICES ASSUME NEW j \in 1..Len(t), j # i
                 PROVE  t[j][1] \in {"start", "install"} /\ t[j] # t[i]
      OBVIOUS
    <3>1. j + 1 \in 1..Len(q) /\ j + 1 # i + 1 /\ t[j] = q[j + 1]
      BY <1>1
    <3> QED BY <3>1, <2>1, <2>2
  <2>4. ASSUME NEW w \in Workers, t[i][2] = First(w)
        PROVE  \E j \in (i + 1)..Len(t) : t[j] = <<"start", Second(w)>>
    <3>1. PICK j \in ((i + 1) + 1)..Len(q) : q[j] = <<"start", Second(w)>>
      BY <2>1, <2>2, <2>4
    <3>2. j \in 1..Len(q) /\ j # 1 /\ j - 1 \in (i + 1)..Len(t)
      BY <3>1, <2>1, <1>1
    <3> QED BY <3>1, <3>2, <1>1
  <2> QED BY <2>3, <2>4
<1>3. ASSUME Head(q)[1] = "start"
      PROVE  /\ ~Has(t, Head(q))
             /\ \A op, x : Has(t, <<op, x>>) => op \in {"start", "install"}
             /\ \A w \in Workers : Head(q)[2] = First(w) => Has(t, <<"start", Second(w)>>)
  <2>1. 1 \in 1..Len(q) /\ q[1][1] = "start" /\ Head(q) = q[1]
    BY <1>1, <1>3
  <2>2. /\ \A j \in 1..Len(q) : j # 1 => q[j][1] \in {"start", "install"} /\ q[j] # q[1]
        /\ \A w \in Workers : q[1][2] = First(w) =>
             \E j \in (1 + 1)..Len(q) : q[j] = <<"start", Second(w)>>
    BY <2>1 DEF Begins
  <2>3. \A i \in 1..Len(t) : t[i][1] \in {"start", "install"} /\ t[i] # Head(q)
    <3> SUFFICES ASSUME NEW i \in 1..Len(t)
                 PROVE  t[i][1] \in {"start", "install"} /\ t[i] # Head(q)
      OBVIOUS
    <3>1. i + 1 \in 1..Len(q) /\ i + 1 # 1 /\ t[i] = q[i + 1]
      BY <1>1
    <3> QED BY <3>1, <2>1, <2>2
  <2>4. ASSUME NEW w \in Workers, Head(q)[2] = First(w)
        PROVE  Has(t, <<"start", Second(w)>>)
    <3>1. PICK j \in (1 + 1)..Len(q) : q[j] = <<"start", Second(w)>>
      BY <2>1, <2>2, <2>4
    <3>2. j \in 1..Len(q) /\ j # 1
      BY <3>1, <1>1
    <3> QED BY <3>1, <3>2, <1>1 DEF Has
  <2>5. ASSUME NEW op, NEW x, Has(t, <<op, x>>)
        PROVE  op \in {"start", "install"}
    <3>1. PICK i \in 1..Len(t) : t[i] = <<op, x>>
      BY <2>5 DEF Has
    <3> QED BY <3>1, <2>3
  <2> QED BY <2>3, <2>4, <2>5 DEF Has
<1>4. ASSUME Head(q)[1] \notin {"start", "install"}, NEW x, Has(t, <<"start", x>>)
      PROVE  FALSE
  <2>1. PICK i \in 1..Len(t) : t[i] = <<"start", x>>
    BY <1>4 DEF Has
  <2>2. i + 1 \in 1..Len(q) /\ q[i + 1][1] = "start" /\ 1 \in 1..Len(q) /\ 1 # i + 1
    BY <2>1, <1>1
  <2>3. q[1][1] \in {"start", "install"}
    BY <2>2 DEF Begins
  <2> QED BY <2>3, <1>1, <1>4
<1> QED BY <1>2, <1>3, <1>4 DEF t, Begins

LEMMA ConcatOrder ==
  ASSUME NEW p \in Seq(Statement), NEW q \in Seq(Statement), NEW a, NEW b
  PROVE  /\ p \o q \in Seq(Statement)
         /\ Has(p \o q, a) <=> Has(p, a) \/ Has(q, a)
         /\ Before(p, a, b) /\ (Has(p, a) \/ Before(q, a, b)) => Before(p \o q, a, b)
         /\ Followed(q, a, b) /\ (Followed(p, a, b) \/ Has(q, b)) => Followed(p \o q, a, b)
<1> DEFINE c == p \o q
           m == Len(p)
           n == Len(q)
<1>1. /\ m \in Nat /\ n \in Nat /\ c \in Seq(Statement) /\ Len(c) = m + n
      /\ \A i \in 1..(m + n) : c[i] = IF i <= m THEN p[i] ELSE q[i - m]
  BY ConcatProperties, LenProperties
<1>2. /\ \A i \in 1..m : i \in 1..Len(c) /\ c[i] = p[i]
      /\ \A i \in 1..n : m + i \in 1..Len(c) /\ c[m + i] = q[i]
      /\ \A i \in 1..Len(c) : \/ i \in 1..m /\ c[i] = p[i]
                              \/ i - m \in 1..n /\ i = m + (i - m) /\ c[i] = q[i - m]
  <2>1. ASSUME NEW i \in 1..m
        PROVE  i \in 1..Len(c) /\ c[i] = p[i]
    <3>1. i \in 1..(m + n) /\ i <= m
      BY <1>1
    <3> QED BY <3>1, <1>1
  <2>2. ASSUME NEW i \in 1..n
        PROVE  m + i \in 1..Len(c) /\ c[m + i] = q[i]
    <3>1. m + i \in 1..(m + n) /\ ~(m + i <= m) /\ (m + i) - m = i
      BY <1>1
    <3> QED BY <3>1, <1>1
  <2>3. ASSUME NEW i \in 1..Len(c)
        PROVE  \/ i \in 1..m /\ c[i] = p[i]
               \/ i - m \in 1..n /\ i = m + (i - m) /\ c[i] = q[i - m]
    <3>1. i \in 1..(m + n)
      BY <1>1
    <3> QED BY <3>1, <1>1
  <2> QED BY <2>1, <2>2, <2>3
<1> HIDE DEF c
<1>3. Has(c, a) <=> Has(p, a) \/ Has(q, a)
  <2>1. Has(p, a) => Has(c, a)
    BY <1>2 DEF Has, m
  <2>2. Has(q, a) => Has(c, a)
    BY <1>2 DEF Has, n
  <2>3. Has(c, a) => Has(p, a) \/ Has(q, a)
    BY <1>2 DEF Has, m, n
  <2> QED BY <2>1, <2>2, <2>3
<1>4. ASSUME Before(p, a, b), Has(p, a) \/ Before(q, a, b)
      PROVE  Before(c, a, b)
  <2> SUFFICES ASSUME NEW i \in 1..Len(c), c[i] = b
               PROVE  \E j \in 1..(i - 1) : c[j] = a
    BY DEF Before
  <2>1. CASE i \in 1..m /\ c[i] = p[i]
    <3>1. PICK j \in 1..(i - 1) : p[j] = a
      BY <2>1, <1>4 DEF Before, m
    <3>2. j \in 1..m
      BY <2>1, <3>1, <1>1
    <3> QED BY <3>1, <3>2, <1>2
  <2>2. CASE i - m \in 1..n /\ i = m + (i - m) /\ c[i] = q[i - m]
    <3>1. CASE Has(p, a)
      <4>1. PICK j \in 1..m : p[j] = a
        BY <3>1 DEF Has, m
      <4>2. j \in 1..(i - 1)
        BY <2>2, <4>1, <1>1
      <4> QED BY <4>1, <4>2, <1>2
    <3>2. CASE Before(q, a, b)
      <4>1. PICK j \in 1..((i - m) - 1) : q[j] = a
        BY <2>2, <3>2 DEF Before, n
      <4>2. j \in 1..n /\ m + j \in 1..(i - 1)
        BY <2>2, <4>1, <1>1
      <4> QED BY <4>1, <4>2, <1>2
    <3> QED BY <3>1, <3>2, <1>4
  <2> QED BY <2>1, <2>2, <1>2
<1>5. ASSUME Followed(q, a, b), Followed(p, a, b) \/ Has(q, b)
      PROVE  Followed(c, a, b)
  <2> SUFFICES ASSUME NEW i \in 1..Len(c), c[i] = a
               PROVE  \E j \in (i + 1)..Len(c) : c[j] = b
    BY DEF Followed
  <2>1. CASE i \in 1..m /\ c[i] = p[i]
    <3>1. CASE Has(q, b)
      <4>1. PICK j \in 1..n : q[j] = b
        BY <3>1 DEF Has, n
      <4>2. m + j \in (i + 1)..Len(c)
        BY <2>1, <4>1, <1>1
      <4> QED BY <4>1, <4>2, <1>2
    <3>2. CASE Followed(p, a, b)
      <4>1. PICK j \in (i + 1)..m : p[j] = b
        BY <2>1, <3>2 DEF Followed, m
      <4>2. j \in 1..m /\ j \in (i + 1)..Len(c)
        BY <2>1, <4>1, <1>1
      <4> QED BY <4>1, <4>2, <1>2
    <3> QED BY <3>1, <3>2, <1>5
  <2>2. CASE i - m \in 1..n /\ i = m + (i - m) /\ c[i] = q[i - m]
    <3>1. PICK j \in ((i - m) + 1)..n : q[j] = b
      BY <2>2, <1>5 DEF Followed, n
    <3>2. j \in 1..n /\ m + j \in (i + 1)..Len(c)
      BY <2>2, <3>1, <1>1
    <3> QED BY <3>1, <3>2, <1>2
  <2> QED BY <2>1, <2>2, <1>2
<1> QED BY <1>1, <1>3, <1>4, <1>5 DEF c

LEMMA DoOrder ==
  ASSUME NEW op, NEW x, <<op, x>> \in Statement
  PROVE  /\ Do(op, x) \in Seq(Statement)
         /\ \A e : Has(Do(op, x), e) <=> e = <<op, x>>
         /\ \A a, b : b # <<op, x>> => Before(Do(op, x), a, b)
         /\ \A a, b : a # <<op, x>> => Followed(Do(op, x), a, b)
<1> DEFINE e == <<op, x>>
<1>1. Do(op, x) = <<e>> /\ <<e>> \in Seq(Statement) /\ Len(<<e>>) = 1 /\ <<e>>[1] = e
  BY DEF Do
<1> QED BY <1>1 DEF Has, Before, Followed

(* What the orders of the user keep *)
Ordered(q) ==
  \A l \in Loops :
    /\ Before(q, Last("clear", l), <<"close", l>>)
    /\ Before(q, Last("clear", l), Last("reset", l))
    /\ Before(q, <<"close", l>>, Last("reset", l))
    /\ Followed(q, <<"close", l>>, Last("join", l))

Sound(q) == q \in Seq(Statement) /\ Ordered(q) /\ \A x : ~Has(q, <<"start", x>>)

Emptied(q, l)  == \A op \in Ends : Has(q, Last(op, l))
Released(q, l) == \A op \in Ends : Before(q, Last(op, l), FreeOf(l))

LEMMA SoundConcat ==
  ASSUME NEW p, NEW q, Sound(p), Sound(q)
  PROVE  Sound(p \o q)
<1>1. p \in Seq(Statement) /\ q \in Seq(Statement)
  BY DEF Sound
<1>2. Ordered(p \o q)
  BY <1>1, ConcatOrder DEF Sound, Ordered
<1>3. p \o q \in Seq(Statement) /\ \A x : ~Has(p \o q, <<"start", x>>)
  BY <1>1, ConcatOrder DEF Sound
<1> QED BY <1>2, <1>3 DEF Sound

LEMMA EmptiedConcat ==
  ASSUME NEW p \in Seq(Statement), NEW q \in Seq(Statement), NEW l, Emptied(p, l) \/ Emptied(q, l)
  PROVE  Emptied(p \o q, l)
BY ConcatOrder DEF Emptied

LEMMA ReleasedConcat ==
  ASSUME NEW p \in Seq(Statement), NEW q \in Seq(Statement), NEW l,
         Released(p, l), Emptied(p, l) \/ Released(q, l)
  PROVE  Released(p \o q, l)
BY ConcatOrder DEF Emptied, Released

LEMMA NotThere ==
  ASSUME NEW q \in Seq(Statement), NEW a, NEW b
  PROVE  /\ ~Has(q, b) => Before(q, a, b)
         /\ ~Has(q, a) => Followed(q, a, b)
BY DEF Has, Before, Followed

(* Where objects are started nothing is out of order. *)
LEMMA BeginsOrder ==
  ASSUME NEW q \in Seq(Statement), \A op, x : Has(q, <<op, x>>) => op \in {"start", "install"}
  PROVE  Ordered(q) /\ \A l \in Loops : Released(q, l)
<1>1. \A op, x : op \in {"clear", "close", "reset", "join", "free"} => ~Has(q, <<op, x>>)
  OBVIOUS
<1>2. ASSUME NEW l \in Loops
      PROVE  /\ ~Has(q, <<"close", l>>) /\ ~Has(q, Last("reset", l)) /\ ~Has(q, FreeOf(l))
  BY <1>1 DEF Last, FreeOf
<1>3. Ordered(q)
  BY <1>2, NotThere DEF Ordered
<1>4. \A l \in Loops : Released(q, l)
  BY <1>2, NotThere DEF Released
<1> QED BY <1>3, <1>4

LEMMA LoopFacts ==
  /\ \A l \in Loops : /\ l[1] \in Workers /\ Object(l) \in Objects /\ Object(l)[1] = l[1]
                      /\ Object(l) \in {First(l[1]), Second(l[1])}
                      /\ <<"close", l>> \in Statement /\ FreeOf(l) \in Statement
                      /\ \A op \in Ends : Last(op, l) \in Statement
  /\ \A o \in Objects, l \in Loops :
       Object(l) = o <=> IF o = Udp(o[1]) THEN l \in {Broadcast(o[1]), Listen(o[1])}
                         ELSE l = Accept(o[1])
  /\ \A w \in Workers : /\ First(w) \in Objects /\ Second(w) \in Objects /\ First(w) # Second(w)
                        /\ First(w)[1] = w /\ Second(w)[1] = w
  /\ \A o \in Objects : o[1] \in Workers
<1>1. ASSUME NEW l \in Loops
      PROVE  /\ l[1] \in Workers /\ Object(l) \in Objects /\ Object(l)[1] = l[1]
             /\ Object(l) \in {First(l[1]), Second(l[1])}
  BY DEF Loops, Objects, Object, First, Second, Udp, Tcp
<1>2. ASSUME NEW l \in Loops
      PROVE  /\ <<"close", l>> \in Statement /\ FreeOf(l) \in Statement
             /\ \A op \in Ends : Last(op, l) \in Statement
  BY <1>1 DEF Statement, FreeOf, Last, Ends
<1>3. ASSUME NEW o \in Objects, NEW l \in Loops
      PROVE  Object(l) = o <=> IF o = Udp(o[1]) THEN l \in {Broadcast(o[1]), Listen(o[1])}
                               ELSE l = Accept(o[1])
  <2>1. PICK w \in Workers, role \in {"accept", "broadcast", "listen"} : l = <<w, role>>
    BY DEF Loops
  <2>2. PICK v \in Workers, kind \in {"tcp", "udp"} : o = <<v, kind>>
    BY DEF Objects
  <2>3. CASE kind = "udp"
    BY <2>1, <2>2, <2>3 DEF Object, Udp, Tcp, Broadcast, Listen, Accept
  <2>4. CASE kind = "tcp"
    BY <2>1, <2>2, <2>4 DEF Object, Udp, Tcp, Broadcast, Listen, Accept
  <2> QED BY <2>2, <2>3, <2>4
<1>4. /\ \A w \in Workers : /\ First(w) \in Objects /\ Second(w) \in Objects /\ First(w) # Second(w)
                            /\ First(w)[1] = w /\ Second(w)[1] = w
      /\ \A o \in Objects : o[1] \in Workers
  BY DEF First, Second, Udp, Tcp, Objects
<1> QED BY <1>1, <1>2, <1>3, <1>4

LEMMA CloseOrder ==
  ASSUME NEW s \in Loops
  PROVE  LET q == CloseAndReset(s)
         IN  /\ q \in Seq(Statement)
             /\ \A e : Has(q, e) <=> e \in {<<"close", s>>, <<"reset", s>>}
             /\ \A l : Before(q, <<"close", l>>, <<"reset", l>>)
<1> DEFINE p == Do("close", s)
           q == Do("reset", s)
<1>1. <<"close", s>> \in Statement /\ <<"reset", s>> \in Statement
  BY DEF Statement
<1>2. /\ p \in Seq(Statement) /\ q \in Seq(Statement)
      /\ \A e : (Has(p, e) <=> e = <<"close", s>>) /\ (Has(q, e) <=> e = <<"reset", s>>)
  BY <1>1, DoOrder
<1> HIDE DEF p, q
<1>3. p \o q \in Seq(Statement) /\ \A e : Has(p \o q, e) <=> e \in {<<"close", s>>, <<"reset", s>>}
  BY <1>2, ConcatOrder
<1>4. ASSUME NEW l
      PROVE  Before(p \o q, <<"close", l>>, <<"reset", l>>)
  <2> DEFINE c == <<"close", l>>
             r == <<"reset", l>>
  <2>1. Before(p, c, r)
    BY <1>2, NotThere
  <2>2. Has(p, c) \/ ~Has(q, r)
    BY <1>2
  <2>3. Has(p, c) \/ Before(q, c, r)
    BY <2>2, <1>2, NotThere
  <2> HIDE DEF c, r
  <2>4. Before(p \o q, c, r)
    BY <2>1, <2>3, <1>2, ConcatOrder
  <2> QED BY <2>4 DEF c, r
<1> QED BY <1>3, <1>4 DEF CloseAndReset, p, q

(* A sequence that closes and resets, then one that joins *)
LEMMA JoinOrder ==
  ASSUME NEW p \in Seq(Statement), NEW q \in Seq(Statement), NEW ls, NEW o \in Objects,
         \A l \in Loops : Object(l) = o <=> l \in ls, ls \subseteq Loops,
         \A e : Has(p, e) <=> \E l \in ls : e \in {<<"close", l>>, <<"reset", l>>},
         \A e : Has(q, e) <=> \E l \in ls : e = <<"join", l>>,
         \A l \in Loops : Before(p, <<"close", l>>, <<"reset", l>>),
         NEW s, s = Do("clear", o) \o (p \o q)
  PROVE  /\ Sound(s)
         /\ \A x : ~Has(s, <<"free", x>>)
         /\ \A l \in Loops : Object(l) = o => Emptied(s, l)
<1> DEFINE c == Do("clear", o)
           t == c \o (p \o q)
<1>1. <<"clear", o>> \in Statement
  BY DEF Statement
<1>2. /\ c \in Seq(Statement) /\ \A e : Has(c, e) <=> e = <<"clear", o>>
  BY <1>1, DoOrder
<1> HIDE DEF c
<1>3. /\ p \o q \in Seq(Statement)
      /\ \A e : Has(p \o q, e) <=> \E l \in ls : e \in {<<"close", l>>, <<"reset", l>>, <<"join", l>>}
  <2>1. p \o q \in Seq(Statement)
    BY ConcatOrder
  <2>2. \A e : Has(p \o q, e) <=> Has(p, e) \/ Has(q, e)
    BY ConcatOrder
  <2> QED BY <2>1, <2>2
<1>4. /\ t \in Seq(Statement)
      /\ \A e : Has(t, e) <=> \/ e = <<"clear", o>>
                              \/ \E l \in ls : e \in {<<"close", l>>, <<"reset", l>>, <<"join", l>>}
  <2>1. t \in Seq(Statement)
    BY <1>2, <1>3, ConcatOrder
  <2>2. \A e : Has(t, e) <=> Has(c, e) \/ Has(p \o q, e)
    BY <1>2, <1>3, ConcatOrder
  <2> QED BY <2>1, <2>2, <1>2, <1>3
<1>5. ASSUME NEW l \in Loops
      PROVE  /\ Before(t, Last("clear", l), <<"close", l>>)
             /\ Before(t, Last("clear", l), Last("reset", l))
             /\ Before(t, <<"close", l>>, Last("reset", l))
             /\ Followed(t, <<"close", l>>, Last("join", l))
  <2> DEFINE k == <<"close", l>>
             a == Last("clear", l)
             r == Last("reset", l)
             j == Last("join", l)
  <2>1. a = <<"clear", Object(l)>> /\ r = <<"reset", l>> /\ j = <<"join", l>>
    BY DEF Last
  <2>2. ~Has(c, k) /\ ~Has(c, r) /\ ~Has(c, a) => (~Has(t, k) /\ ~Has(t, r))
    BY <2>1, <1>2, <1>4
  <2>3. /\ ~Has(c, k) /\ ~Has(c, r) /\ ~Has(q, k) /\ ~Has(q, r)
        /\ Has(p \o q, k) => Has(q, j)
        /\ Has(p, k) => Has(q, j)
    BY <2>1, <1>2, <1>3
  <2>4. Before(p, k, r)
    BY <2>1
  <2> HIDE DEF k, a, r, j
  <2>5. Before(t, a, k) /\ Before(t, a, r)
    <3>1. Before(c, a, k) /\ Before(c, a, r)
      BY <2>3, <1>2, NotThere
    <3>2. CASE Has(c, a)
      BY <3>1, <3>2, <1>2, <1>3, ConcatOrder
    <3>3. CASE ~Has(c, a)
      BY <3>3, <2>2, <2>3, <1>4, NotThere
    <3> QED BY <3>2, <3>3
  <2>6. Before(t, k, r)
    <3>1. Before(c, k, r) /\ Before(q, k, r)
      BY <2>3, <1>2, NotThere
    <3>2. Before(p \o q, k, r)
      BY <3>1, <2>4, ConcatOrder
    <3> QED BY <3>1, <3>2, <1>2, <1>3, ConcatOrder
  <2>7. Followed(t, k, j)
    <3>1. Followed(c, k, j) /\ Followed(q, k, j)
      BY <2>3, <1>2, NotThere
    <3>2. Followed(p \o q, k, j)
      <4>1. CASE Has(q, j)
        BY <3>1, <4>1, ConcatOrder
      <4>2. CASE ~Has(q, j)
        BY <2>3, <3>1, <4>2, NotThere, ConcatOrder
      <4> QED BY <4>1, <4>2
    <3> QED BY <3>1, <3>2, <1>2, <1>3, ConcatOrder
  <2> QED BY <2>5, <2>6, <2>7 DEF k, a, r, j
<1> HIDE DEF t
<1>6. Sound(t)
  <2>1. \A x : ~Has(t, <<"start", x>>)
    BY <1>4
  <2> QED BY <2>1, <1>4, <1>5 DEF Sound, Ordered
<1>7. \A x : ~Has(t, <<"free", x>>)
  BY <1>4
<1>8. ASSUME NEW l \in Loops, Object(l) = o, NEW op \in Ends
      PROVE  Has(t, Last(op, l))
  <2>1. l \in ls /\ op \in {"clear", "reset", "join"}
    BY <1>8 DEF Ends
  <2> QED BY <2>1, <1>4, <1>8 DEF Last
<1>9. \A l \in Loops : Object(l) = o => Emptied(t, l)
  BY <1>8 DEF Emptied
<1>10. s = t
  BY DEF t, c
<1> QED BY <1>6, <1>7, <1>9, <1>10

LEMMA StopOrder ==
  ASSUME NEW o \in Objects
  PROVE  /\ Sound(Stop(o))
         /\ \A x : ~Has(Stop(o), <<"free", x>>)
         /\ \A l \in Loops : Object(l) = o => Emptied(Stop(o), l)
<1> DEFINE w == o[1]
           a == Accept(w)
           b == Broadcast(w)
           i == Listen(w)
<1>1. /\ w \in Workers /\ a \in Loops /\ b \in Loops /\ i \in Loops
      /\ \A l \in Loops : Object(l) = o <=> IF o = Udp(w) THEN l \in {b, i} ELSE l \in {a}
  BY LoopFacts, FileFacts
<1>2. ASSUME NEW s \in Loops
      PROVE  /\ CloseAndReset(s) \in Seq(Statement)
             /\ \A e : Has(CloseAndReset(s), e) <=> e \in {<<"close", s>>, <<"reset", s>>}
             /\ \A l : Before(CloseAndReset(s), <<"close", l>>, <<"reset", l>>)
             /\ Do("join", s) \in Seq(Statement)
             /\ \A e : Has(Do("join", s), e) <=> e = <<"join", s>>
  <2>1. <<"join", s>> \in Statement
    BY DEF Statement
  <2> QED BY <2>1, CloseOrder, DoOrder
<1>3. CASE o = Udp(w)
  <2> DEFINE cb == CloseAndReset(b)
             ci == CloseAndReset(i)
             jb == Do("join", b)
             ji == Do("join", i)
             ls == {b, i}
             p == cb \o ci
             q == jb \o ji
  <2> HIDE DEF w, a, b, i
  <2>1. /\ cb \in Seq(Statement) /\ ci \in Seq(Statement) /\ jb \in Seq(Statement) /\ ji \in Seq(Statement)
        /\ \A e : /\ Has(cb, e) <=> e \in {<<"close", b>>, <<"reset", b>>}
                  /\ Has(ci, e) <=> e \in {<<"close", i>>, <<"reset", i>>}
                  /\ Has(jb, e) <=> e = <<"join", b>>
                  /\ Has(ji, e) <=> e = <<"join", i>>
        /\ \A l : Before(cb, <<"close", l>>, <<"reset", l>>) /\ Before(ci, <<"close", l>>, <<"reset", l>>)
    BY <1>1, <1>2
  <2> HIDE DEF cb, ci, jb, ji
  <2>2. /\ p \in Seq(Statement) /\ q \in Seq(Statement)
        /\ \A e : (Has(p, e) <=> Has(cb, e) \/ Has(ci, e)) /\ (Has(q, e) <=> Has(jb, e) \/ Has(ji, e))
        /\ \A l : Before(p, <<"close", l>>, <<"reset", l>>)
    BY <2>1, ConcatOrder
  <2>3. \A e : Has(p, e) <=> \E l \in ls : e \in {<<"close", l>>, <<"reset", l>>}
    BY <2>1, <2>2
  <2>4. \A e : Has(q, e) <=> \E l \in ls : e = <<"join", l>>
    BY <2>1, <2>2
  <2>5. ls \subseteq Loops /\ \A l \in Loops : Object(l) = o <=> l \in ls
    BY <1>1, <1>3
  <2>6. Stop(o) = Do("clear", o) \o (p \o q)
    <3>1. Stop(o) = Do("clear", o) \o (cb \o ci \o jb \o ji)
      BY <1>3 DEF Stop, cb, ci, jb, ji, b, i, w
    <3>2. cb \o ci \o jb \o ji = p \o q
      BY <2>1, <2>2, ConcatAssociative
    <3> QED BY <3>1, <3>2
  <2> HIDE DEF p, q, ls
  <2> QED BY <2>2, <2>3, <2>4, <2>5, <2>6, JoinOrder
<1>4. CASE o # Udp(w)
  <2> DEFINE p == CloseAndReset(a)
             q == Do("join", a)
             ls == {a}
  <2>1. Stop(o) = Do("clear", o) \o (p \o q)
    BY <1>4 DEF Stop
  <2> HIDE DEF w, a, b, i
  <2>2. /\ p \in Seq(Statement) /\ q \in Seq(Statement)
        /\ \A e : Has(p, e) <=> \E l \in ls : e \in {<<"close", l>>, <<"reset", l>>}
        /\ \A e : Has(q, e) <=> \E l \in ls : e = <<"join", l>>
        /\ \A l : Before(p, <<"close", l>>, <<"reset", l>>)
    BY <1>1, <1>2
  <2>3. ls \subseteq Loops /\ \A l \in Loops : Object(l) = o <=> l \in ls
    BY <1>1, <1>4
  <2> HIDE DEF p, q, ls
  <2> QED BY <2>1, <2>2, <2>3, JoinOrder
<1> QED BY <1>3, <1>4

LEMMA EndOrder ==
  ASSUME NEW w \in Workers
  PROVE  /\ Sound(Destroy(w)) /\ Sound(Exit)
         /\ \A e : (Has(Destroy(w), e) <=> e = <<"free", w>>) /\ (Has(Exit, e) <=> e = <<"exit", "process">>)
<1>1. <<"free", w>> \in Statement /\ <<"exit", "process">> \in Statement
  BY DEF Statement
<1>2. /\ Destroy(w) \in Seq(Statement) /\ Exit \in Seq(Statement)
      /\ \A e : (Has(Destroy(w), e) <=> e = <<"free", w>>) /\ (Has(Exit, e) <=> e = <<"exit", "process">>)
  BY <1>1, DoOrder DEF Destroy, Exit
<1>3. \A l \in Loops : /\ ~Has(Destroy(w), <<"close", l>>) /\ ~Has(Destroy(w), Last("reset", l))
                       /\ ~Has(Exit, <<"close", l>>) /\ ~Has(Exit, Last("reset", l))
  BY <1>2 DEF Last
<1>4. Ordered(Destroy(w)) /\ Ordered(Exit)
  BY <1>2, <1>3, NotThere DEF Ordered
<1>5. \A x : ~Has(Destroy(w), <<"start", x>>) /\ ~Has(Exit, <<"start", x>>)
  BY <1>2
<1> QED BY <1>2, <1>4, <1>5 DEF Sound

LEMMA BothOrder ==
  ASSUME NEW w \in Workers
  PROVE  /\ Sound(StopBoth(w))
         /\ \A x : ~Has(StopBoth(w), <<"free", x>>)
         /\ \A l \in Loops : l[1] = w => Emptied(StopBoth(w), l)
<1> DEFINE p == Stop(First(w))
           q == Stop(Second(w))
<1>1. First(w) \in Objects /\ Second(w) \in Objects
  BY LoopFacts
<1>2. Sound(p) /\ Sound(q) /\ \A x : ~Has(p, <<"free", x>>) /\ ~Has(q, <<"free", x>>)
  BY <1>1, StopOrder
<1>3. p \in Seq(Statement) /\ q \in Seq(Statement)
  BY <1>2 DEF Sound
<1>4. \A l \in Loops : l[1] = w => Emptied(p, l) \/ Emptied(q, l)
  BY <1>1, LoopFacts, StopOrder
<1> HIDE DEF p, q
<1>5. Sound(p \o q)
  BY <1>2, SoundConcat
<1>6. \A x : ~Has(p \o q, <<"free", x>>)
  BY <1>2, <1>3, ConcatOrder
<1>7. \A l \in Loops : l[1] = w => Emptied(p \o q, l)
  BY <1>3, <1>4, EmptiedConcat
<1> QED BY <1>5, <1>6, <1>7 DEF StopBoth, p, q

(* stop(), then destroy *)
LEMMA StopAndFree ==
  ASSUME NEW w \in Workers, NEW p, Sound(p), \A x : ~Has(p, <<"free", x>>)
  PROVE  /\ Sound(p \o Destroy(w)) /\ Sound(p \o Destroy(w) \o Exit)
         /\ \A l \in Loops : (l[1] = w => Emptied(p, l)) =>
              Released(p \o Destroy(w), l) /\ Released(p \o Destroy(w) \o Exit, l)
<1> DEFINE d == Destroy(w)
           r == p \o d
<1>1. /\ Sound(d) /\ Sound(Exit) /\ Sound(r) /\ Sound(r \o Exit)
      /\ \A e : (Has(d, e) <=> e = <<"free", w>>) /\ (Has(Exit, e) <=> e = <<"exit", "process">>)
  BY EndOrder, SoundConcat
<1>2. p \in Seq(Statement) /\ d \in Seq(Statement) /\ Exit \in Seq(Statement) /\ r \in Seq(Statement)
  BY <1>1 DEF Sound
<1> HIDE DEF d
<1>3. ASSUME NEW l \in Loops, l[1] = w => Emptied(p, l)
      PROVE  Released(r, l) /\ Released(r \o Exit, l)
  <2>1. ~Has(p, FreeOf(l)) /\ ~Has(Exit, FreeOf(l)) /\ (l[1] # w => ~Has(d, FreeOf(l)))
    BY <1>1 DEF FreeOf
  <2>2. Released(p, l) /\ Released(Exit, l) /\ (l[1] # w => Released(d, l))
    BY <2>1, <1>2, NotThere DEF Released
  <2>3. Released(r, l)
    BY <2>2, <1>2, <1>3, ReleasedConcat
  <2> HIDE DEF r
  <2> QED BY <2>2, <2>3, <1>2, ReleasedConcat
<1> QED BY <1>1, <1>3 DEF d, r

LEMMA StartOrder ==
  ASSUME NEW w \in Workers, NEW q, q \in {StartBoth(w), StartBoth(w) \o Do("install", w)}
  PROVE  /\ q \in Seq(Statement) /\ Begins(q) /\ q # <<>>
         /\ Ordered(q) /\ \A l \in Loops : Released(q, l)
         /\ \A l \in Loops : Has(q, Start(l)) => l[1] = w
<1> DEFINE e == <<"start", First(w)>>
           f == <<"start", Second(w)>>
           g == <<"install", w>>
           s == <<e>> \o <<f>>
           t == s \o <<g>>
<1>1. /\ e \in Statement /\ f \in Statement /\ g \in Statement /\ e # f /\ e # g /\ f # g
      /\ e[1] = "start" /\ f[1] = "start" /\ g[1] = "install"
      /\ e[2] = First(w) /\ f[2] = Second(w)
      /\ \A v \in Workers : e[2] = First(v) => v = w
      /\ \A v \in Workers : f[2] # First(v)
  <2>1. /\ First(w) \in Objects /\ Second(w) \in Objects /\ First(w) # Second(w)
        /\ \A v \in Workers : First(v) = First(w) => v = w
        /\ \A v \in Workers : First(v) # Second(w)
    BY LoopFacts
  <2> QED BY <2>1 DEF Statement
<1>2. \A l \in Loops : e = Start(l) \/ f = Start(l) => l[1] = w
  BY LoopFacts DEF Start
<1>3. \A l \in Loops : g # Start(l)
  BY DEF Start
<1>4. q = s \/ q = t
  BY DEF StartBoth, Do
<1> HIDE DEF e, f, g
<1>5. /\ s \in Seq(Statement) /\ Len(s) = 2 /\ s[1] = e /\ s[2] = f
      /\ t \in Seq(Statement) /\ Len(t) = 3 /\ t[1] = e /\ t[2] = f /\ t[3] = g
  BY <1>1, InARow
<1> HIDE DEF s, t
<1>6. /\ q \in Seq(Statement) /\ q[1] = e /\ q[2] = f /\ (Len(q) = 2 \/ (Len(q) = 3 /\ q[3] = g))
  BY <1>4, <1>5
<1>7. Begins(q)
  <2>1. ASSUME NEW i \in 1..Len(q), q[i][1] = "start"
        PROVE  /\ \A j \in 1..Len(q) : j # i => q[j][1] \in {"start", "install"} /\ q[j] # q[i]
               /\ \A v \in Workers : q[i][2] = First(v) =>
                    \E j \in (i + 1)..Len(q) : q[j] = <<"start", Second(v)>>
    <3>1. CASE i = 1
      <4>1. \A v \in Workers : q[i][2] = First(v) => v = w
        BY <3>1, <1>1, <1>6
      <4>2. 2 \in (i + 1)..Len(q) /\ q[2] = <<"start", Second(w)>>
        BY <3>1, <1>6 DEF f
      <4> QED BY <3>1, <4>1, <4>2, <1>1, <1>6
    <3>2. CASE i = 2
      BY <3>2, <1>1, <1>6
    <3>3. i = 1 \/ i = 2
      BY <2>1, <1>1, <1>6
    <3> QED BY <3>1, <3>2, <3>3
  <2> QED BY <2>1 DEF Begins
<1>8. \A x : Has(q, x) => x \in {e, f, g}
  BY <1>6 DEF Has
<1>9. \A op, x : Has(q, <<op, x>>) => op \in {"start", "install"}
  BY <1>8, <1>1
<1>10. Ordered(q) /\ \A l \in Loops : Released(q, l)
  BY <1>6, <1>9, BeginsOrder
<1>11. \A l \in Loops : Has(q, Start(l)) => l[1] = w
  BY <1>8, <1>2, <1>3
<1>12. q # <<>>
  BY <1>6
<1> QED BY <1>6, <1>7, <1>10, <1>11, <1>12

LEMMA SoundBegins ==
  ASSUME NEW q, Sound(q)
  PROVE  Begins(q)
<1>1. \A i \in 1..Len(q) : q[i] \in Statement
  BY ElementOfSeq DEF Sound
<1>2. \A i \in 1..Len(q) : q[i] = <<q[i][1], q[i][2]>>
  BY <1>1 DEF Statement
<1>3. \A i \in 1..Len(q) : q[i][1] # "start"
  BY <1>2 DEF Sound, Has
<1> QED BY <1>3 DEF Begins

(* The stops of both workers of the window, then their destructors *)
LEMMA WindowOrder ==
  ASSUME CloseWindow
  PROVE  Sound(todo') /\ \A l \in Loops : Released(todo', l)
<1> DEFINE stops == [v \in Workers |-> StopBoth(v)]
           frees == [v \in Workers |-> Destroy(v)]
           sd == IfOn("discover", stops)
           sr == IfOn("receive", stops)
           fr == IfOn("discover", frees)
           rr == IfOn("receive", frees)
           s1 == sd \o sr
           s2 == s1 \o fr
           s3 == s2 \o rr
           s4 == s3 \o Exit
<1>1. todo' = s4
  BY DEF CloseWindow
<1>2. Sound(<<>>) /\ \A e : ~Has(<<>>, e)
  <2>1. <<>> \in Seq(Statement) /\ \A e : ~Has(<<>>, e)
    BY EmptySeq, EmptyOrder
  <2>2. Ordered(<<>>)
    BY EmptyOrder DEF Ordered
  <2> QED BY <2>1, <2>2 DEF Sound
<1>3. ASSUME NEW kind
      PROVE  /\ Sound(IfOn(kind, stops)) /\ Sound(IfOn(kind, frees))
             /\ \A x : ~Has(IfOn(kind, stops), <<"free", x>>)
             /\ \A l \in Loops : Has(IfOn(kind, frees), FreeOf(l)) => Emptied(IfOn(kind, stops), l)
  <2> DEFINE on == {w \in Workers : wst[w] = "on" /\ Kind[w] = kind}
             c == CHOOSE w \in on : TRUE
             s == IfOn(kind, stops)
             f == IfOn(kind, frees)
  <2>1. CASE on = {}
    <3>1. s = <<>> /\ f = <<>>
      BY <2>1 DEF IfOn
    <3> HIDE DEF s, f
    <3>2. /\ Sound(s) /\ Sound(f) /\ \A x : ~Has(s, <<"free", x>>)
          /\ \A l \in Loops : Has(f, FreeOf(l)) => Emptied(s, l)
      BY <3>1, <1>2
    <3> QED BY <3>2 DEF s, f
  <2>2. CASE on # {}
    <3>1. c \in Workers
      BY <2>2
    <3>2. s = StopBoth(c) /\ f = Destroy(c)
      BY <2>2, <3>1 DEF IfOn
    <3> HIDE DEF s, f, c
    <3>3. /\ Sound(s) /\ Sound(f) /\ \A x : ~Has(s, <<"free", x>>)
          /\ \A l \in Loops : l[1] = c => Emptied(s, l)
      BY <3>1, <3>2, BothOrder, EndOrder
    <3>4. \A l \in Loops : Has(f, FreeOf(l)) => l[1] = c
      BY <3>1, <3>2, EndOrder DEF FreeOf
    <3> QED BY <3>3, <3>4 DEF s, f
  <2> QED BY <2>1, <2>2
<1> HIDE DEF stops, frees
<1>4. /\ Sound(sd) /\ Sound(sr) /\ Sound(fr) /\ Sound(rr)
      /\ \A x : ~Has(sd, <<"free", x>>) /\ ~Has(sr, <<"free", x>>)
      /\ \A l \in Loops : /\ Has(fr, FreeOf(l)) => Emptied(sd, l)
                          /\ Has(rr, FreeOf(l)) => Emptied(sr, l)
  BY <1>3
<1> HIDE DEF sd, sr, fr, rr
<1>5. Sound(Exit) /\ \A e : Has(Exit, e) => e = <<"exit", "process">>
  <2>1. <<"exit", "process">> \in Statement
    BY DEF Statement
  <2>2. Exit \in Seq(Statement) /\ \A e : Has(Exit, e) <=> e = <<"exit", "process">>
    BY <2>1, DoOrder DEF Exit
  <2>3. \A l \in Loops : ~Has(Exit, <<"close", l>>) /\ ~Has(Exit, Last("reset", l))
    BY <2>2 DEF Last
  <2>4. Ordered(Exit)
    BY <2>2, <2>3, NotThere DEF Ordered
  <2> QED BY <2>2, <2>4 DEF Sound
<1>6. Sound(s1) /\ Sound(s2) /\ Sound(s3) /\ Sound(s4)
  <2>1. Sound(s1)
    BY <1>4, SoundConcat
  <2>2. Sound(s2)
    BY <2>1, <1>4, SoundConcat
  <2>3. Sound(s3)
    BY <2>2, <1>4, SoundConcat
  <2> QED BY <2>1, <2>2, <2>3, <1>5, SoundConcat
<1>7. /\ sd \in Seq(Statement) /\ sr \in Seq(Statement) /\ fr \in Seq(Statement) /\ rr \in Seq(Statement)
      /\ s1 \in Seq(Statement) /\ s2 \in Seq(Statement) /\ s3 \in Seq(Statement) /\ Exit \in Seq(Statement)
  BY <1>4, <1>5, <1>6 DEF Sound
<1>8. ASSUME NEW l \in Loops
      PROVE  Released(s4, l)
  <2>1. /\ ~Has(sd, FreeOf(l)) /\ ~Has(sr, FreeOf(l)) /\ ~Has(Exit, FreeOf(l))
    BY <1>4, <1>5 DEF FreeOf
  <2>2. Released(sd, l) /\ Released(sr, l) /\ Released(Exit, l)
    BY <2>1, <1>7, NotThere DEF Released
  <2>3. Released(s1, l)
    BY <2>2, <1>7, ReleasedConcat
  <2>4. CASE Emptied(sd, l) \/ Emptied(sr, l)
    <3>1. Emptied(s1, l)
      BY <2>4, <1>7, EmptiedConcat
    <3>2. Emptied(s2, l) /\ Released(s2, l)
      BY <2>3, <3>1, <1>7, EmptiedConcat, ReleasedConcat
    <3>3. Emptied(s3, l) /\ Released(s3, l)
      BY <3>2, <1>7, EmptiedConcat, ReleasedConcat
    <3> QED BY <3>3, <1>7, ReleasedConcat
  <2>5. CASE ~(Emptied(sd, l) \/ Emptied(sr, l))
    <3>1. ~Has(fr, FreeOf(l)) /\ ~Has(rr, FreeOf(l))
      BY <2>5, <1>4
    <3>2. Released(fr, l) /\ Released(rr, l)
      BY <3>1, <1>7, NotThere DEF Released
    <3>3. Released(s2, l)
      BY <2>3, <3>2, <1>7, ReleasedConcat
    <3>4. Released(s3, l)
      BY <3>2, <3>3, <1>7, ReleasedConcat
    <3> QED BY <2>2, <3>4, <1>7, ReleasedConcat
  <2> QED BY <2>4, <2>5
<1> QED BY <1>1, <1>6, <1>8
-----------------------------------------------------------------------------
(* What the main thread plans, and what start() gave, step by step *)

LEMMA HeadThere ==
  ASSUME NEW q \in Seq(Statement), q # <<>>
  PROVE  Has(q, Head(q))
BY TailFacts DEF Has

(* Of an object that has still to be started nothing is in use. *)
LEMMA NotStarted ==
  ASSUME PlanInv, NEW o \in Objects, At("start", o), NEW l \in Loops, Object(l) = o
  PROVE  /\ lpc[l] = "none" /\ ~running[Object(l)] /\ sock[l] = INVALID_SOCK
         /\ wst[l[1]] = "on"
         /\ \A op \in Ends : ~InUse(op, l)
<1>1. todo \in Seq(Statement) /\ todo # <<>> /\ Head(todo) = Start(l)
  BY DEF PlanInv, Planned, At, Start
<1>2. Has(todo, Start(l))
  BY <1>1, HeadThere
<1>3. wst[l[1]] = "on" /\ \A op \in Ends : ~InUse(op, l)
  BY <1>2 DEF PlanInv, Planned, Attached
<1> QED BY <1>3 DEF InUse, Ends

LEMMA SamePlan ==
  ASSUME PlanInv, UNCHANGED <<todo, wst>>, proc' = proc \/ proc' # "ended",
         \A l \in Loops, op \in Ends : InUse(op, l)' => InUse(op, l)
  PROVE  PlanInv'
<1>1. Planned'
  BY DEF PlanInv, Planned
<1>2. Attached'
  BY DEF PlanInv, Attached
<1> QED BY <1>1, <1>2 DEF PlanInv

LEMMA ThenPlan ==
  ASSUME PlanInv, NEW op, NEW x, Then(op, x), UNCHANGED wst, proc' = proc \/ proc' # "ended",
         \A l \in Loops, e \in Ends : InUse(e, l)' => InUse(e, l) /\ <<op, x>> # Last(e, l)
  PROVE  PlanInv'
<1>1. /\ todo \in Seq(Statement) /\ todo # <<>> /\ Head(todo) = <<op, x>> /\ todo' = Tail(todo)
      /\ Begins(todo)
  BY DEF PlanInv, Planned, Then, At
<1>2. todo' \in Seq(Statement) /\ Begins(todo') /\ proc' # "ended"
  BY <1>1, TailFacts, TailBegins DEF PlanInv, Planned
<1>3. Planned'
  BY <1>1, <1>2, TailOrder DEF PlanInv, Planned
<1>4. ASSUME NEW l \in Loops, NEW e \in Ends, InUse(e, l)'
      PROVE  wst'[l[1]] = "on" /\ ~Has(todo', Start(l)) /\ Before(todo', Last(e, l), FreeOf(l))
  <2>1. /\ wst[l[1]] = "on" /\ ~Has(todo, Start(l)) /\ Before(todo, Last(e, l), FreeOf(l))
        /\ Head(todo) # Last(e, l)
    BY <1>1, <1>4 DEF PlanInv, Attached
  <2> QED BY <2>1, <1>1, TailOrder
<1> QED BY <1>3, <1>4 DEF PlanInv, Attached, Start, FreeOf, Last

LEMMA StartPlan ==
  ASSUME PlanInv, NEW o \in Objects, Then("start", o), UNCHANGED <<proc, wst>>,
         \A l \in Loops, e \in Ends : InUse(e, l)' => InUse(e, l) \/ Object(l) = o
  PROVE  PlanInv'
<1>1. /\ todo \in Seq(Statement) /\ todo # <<>> /\ Head(todo) = <<"start", o>> /\ todo' = Tail(todo)
      /\ Begins(todo)
  BY DEF PlanInv, Planned, Then, At
<1>2. /\ todo' \in Seq(Statement) /\ Begins(todo') /\ proc' # "ended"
      /\ ~Has(todo', <<"start", o>>)
      /\ \A op, x : Has(todo', <<op, x>>) => op \in {"start", "install"}
  <2>1. Head(todo)[1] = "start"
    BY <1>1
  <2>2. proc' # "ended"
    BY <1>1 DEF PlanInv, Planned
  <2> QED BY <2>1, <2>2, <1>1, TailFacts, TailBegins
<1>3. Planned'
  BY <1>1, <1>2, TailOrder DEF PlanInv, Planned
<1>4. ASSUME NEW l \in Loops, NEW e \in Ends, InUse(e, l)'
      PROVE  wst'[l[1]] = "on" /\ ~Has(todo', Start(l)) /\ Before(todo', Last(e, l), FreeOf(l))
  <2>1. Before(todo', Last(e, l), FreeOf(l))
    BY <1>2, BeginsOrder DEF Released
  <2>2. CASE Object(l) = o
    BY <2>1, <2>2, <1>2, NotStarted DEF Start, Then
  <2>3. CASE Object(l) # o
    BY <2>1, <2>3, <1>1, <1>4, TailOrder DEF PlanInv, Attached
  <2> QED BY <2>2, <2>3
<1> QED BY <1>3, <1>4 DEF PlanInv, Attached, Start, FreeOf, Last

(* start() fails: a command stops the object and leaves. *)
LEMMA FailedPlan ==
  ASSUME PlanInv, NEW o \in Objects, At("start", o), todo' = Failed(o), UNCHANGED <<proc, wst>>,
         \A l \in Loops, e \in Ends : InUse(e, l)' => InUse(e, l) \/ Object(l) = o
  PROVE  PlanInv'
<1>1. CASE todo' = Tail(todo)
  BY <1>1, StartPlan DEF Then
<1>2. CASE o = First(o[1]) /\ todo' = Stop(o) \o Destroy(o[1]) \o Exit
  <2> DEFINE w == o[1]
             p == Stop(o)
  <2>1. w \in Workers
    BY LoopFacts
  <2>2. /\ Sound(p) /\ \A x : ~Has(p, <<"free", x>>)
        /\ \A l \in Loops : Object(l) = o => Emptied(p, l)
    BY StopOrder
  <2>3. o = First(w) /\ todo' = p \o Destroy(w) \o Exit
    BY <1>2
  <2> HIDE DEF w, p
  <2>4. /\ Sound(todo')
        /\ \A l \in Loops : Object(l) = o \/ l[1] # w => Released(todo', l)
    BY <2>1, <2>2, <2>3, StopAndFree
  <2>5. todo' \in Seq(Statement) /\ Begins(todo') /\ \A x : ~Has(todo', <<"start", x>>)
    BY <2>4, SoundBegins DEF Sound
  <2>6. /\ todo \in Seq(Statement) /\ todo # <<>> /\ Head(todo) = <<"start", o>> /\ Begins(todo)
        /\ proc # "ended"
    BY DEF PlanInv, Planned, At
  <2>7. Has(todo, <<"start", Second(w)>>)
    <3>1. Head(todo)[1] = "start" /\ Head(todo)[2] = First(w)
      BY <2>3, <2>6
    <3>2. Has(Tail(todo), <<"start", Second(w)>>)
      BY <3>1, <2>1, <2>6, TailBegins
    <3> QED BY <3>2, <2>6, TailOrder
  <2>8. Planned'
    BY <2>5, <2>6 DEF PlanInv, Planned, Start
  <2>9. ASSUME NEW l \in Loops, NEW e \in Ends, InUse(e, l)'
        PROVE  wst'[l[1]] = "on" /\ ~Has(todo', Start(l)) /\ Before(todo', Last(e, l), FreeOf(l))
    <3>1. ~Has(todo', Start(l))
      BY <2>5 DEF Start
    <3>2. CASE Object(l) = o
      BY <3>1, <3>2, <2>4, NotStarted DEF Released
    <3>3. CASE Object(l) # o
      <4>1. wst[l[1]] = "on" /\ ~Has(todo, Start(l))
        BY <3>3, <2>9 DEF PlanInv, Attached
      <4>2. l[1] # w
        <5>1. ASSUME l[1] = w
              PROVE  FALSE
          <6>1. Object(l) = Second(w)
            BY <3>3, <5>1, <2>3, LoopFacts
          <6> QED BY <6>1, <4>1, <2>7 DEF Start
        <5> QED BY <5>1
      <4> QED BY <3>1, <4>1, <4>2, <2>4 DEF Released
    <3> QED BY <3>2, <3>3
  <2> QED BY <2>8, <2>9 DEF PlanInv, Attached, Start, FreeOf, Last
<1> QED BY <1>1, <1>2 DEF Failed

(* Orders of the user *)
LEMMA OrderPlan ==
  ASSUME PlanInv,
         \/ \E w \in Workers : RunCommand(w) \/ StartWorker(w) \/ StopWorker(w) \/ LoopEnds(w)
         \/ CloseWindow
  PROVE  PlanInv'
<1>1. /\ todo = <<>> /\ proc' # "ended" /\ UNCHANGED <<sock, running, lpc>>
  BY DEF RunCommand, StartWorker, StopWorker, CloseWindow, LoopEnds, PlanInv, Planned, loopVars
<1>2. \A l \in Loops, e \in Ends : InUse(e, l)' => InUse(e, l) /\ wst[l[1]] = "on"
  BY <1>1 DEF InUse, PlanInv, Attached
<1>3. ASSUME NEW w \in Workers, RunCommand(w) \/ StartWorker(w)
      PROVE  PlanInv'
  <2>1. /\ wst[w] = "off" /\ todo' \in {StartBoth(w), StartBoth(w) \o Do("install", w)}
        /\ wst' = [wst EXCEPT ![w] = "on"]
    BY <1>3 DEF RunCommand, StartWorker, PlanInv, Planned
  <2>2. /\ todo' \in Seq(Statement) /\ Begins(todo')
        /\ \A l \in Loops : Released(todo', l) /\ (Has(todo', Start(l)) => l[1] = w)
    BY <2>1, StartOrder
  <2>3. ASSUME NEW l \in Loops, Has(todo', Start(l))
        PROVE  wst'[l[1]] = "on"
    <3>1. l[1] = w
      BY <2>2, <2>3
    <3>2. wst'[w] = "on"
      BY <2>1, <1>3 DEF PlanInv, Planned
    <3> QED BY <3>1, <3>2
  <2>4. Planned'
    BY <2>1, <2>2, <2>3, <1>1 DEF PlanInv, Planned
  <2>5. ASSUME NEW l \in Loops, NEW e \in Ends, InUse(e, l)'
        PROVE  wst'[l[1]] = "on" /\ ~Has(todo', Start(l)) /\ Before(todo', Last(e, l), FreeOf(l))
    <3>1. wst[l[1]] = "on" /\ l[1] # w /\ l[1] \in Workers
      BY <2>1, <2>5, <1>2, LoopFacts
    <3>2. wst'[l[1]] = "on"
      BY <3>1, <2>1 DEF PlanInv, Planned
    <3> QED BY <3>1, <3>2, <2>2 DEF Released
  <2> QED BY <2>4, <2>5 DEF PlanInv, Attached, Start, FreeOf, Last
<1>4. ASSUME Sound(todo'), \A l \in Loops : Released(todo', l), UNCHANGED wst
      PROVE  PlanInv'
  <2>1. todo' \in Seq(Statement) /\ Begins(todo') /\ \A l \in Loops : ~Has(todo', Start(l))
    BY <1>4, SoundBegins DEF Sound, Start
  <2>2. Planned'
    BY <2>1, <1>1, <1>4 DEF PlanInv, Planned, Start
  <2>3. ASSUME NEW l \in Loops, NEW e \in Ends, InUse(e, l)'
        PROVE  wst'[l[1]] = "on" /\ ~Has(todo', Start(l)) /\ Before(todo', Last(e, l), FreeOf(l))
    BY <2>1, <2>3, <1>2, <1>4 DEF Released
  <2> QED BY <2>2, <2>3 DEF PlanInv, Attached, Start, FreeOf, Last
<1>5. ASSUME NEW w \in Workers, StopWorker(w) \/ LoopEnds(w)
      PROVE  PlanInv'
  <2> DEFINE p == StopBoth(w)
  <2>1. UNCHANGED wst /\ todo' \in {p \o Destroy(w), p \o Destroy(w) \o Exit}
    BY <1>5 DEF StopWorker, LoopEnds
  <2>2. /\ Sound(p) /\ \A x : ~Has(p, <<"free", x>>)
        /\ \A l \in Loops : l[1] = w => Emptied(p, l)
    BY BothOrder
  <2> HIDE DEF p
  <2>3. Sound(todo') /\ \A l \in Loops : Released(todo', l)
    BY <2>1, <2>2, StopAndFree
  <2> QED BY <2>1, <2>3, <1>4
<1>6. CASE CloseWindow
  <2>1. UNCHANGED wst
    BY <1>6 DEF CloseWindow
  <2> QED BY <1>6, <2>1, <1>4, WindowOrder
<1> QED BY <1>3, <1>5, <1>6

(* The objects are destroyed: nothing of theirs is in use. *)
LEMMA FreePlan ==
  ASSUME PlanInv, NEW w \in Workers, FreeWorker(w)
  PROVE  PlanInv'
<1>1. /\ todo \in Seq(Statement) /\ todo # <<>> /\ Head(todo) = <<"free", w>> /\ todo' = Tail(todo)
      /\ Begins(todo) /\ wst' = [wst EXCEPT ![w] = "off"]
      /\ UNCHANGED <<proc, sock, running, lpc>>
  BY DEF FreeWorker, PlanInv, Planned, Then, At, loopVars
<1>2. todo' \in Seq(Statement) /\ Begins(todo') /\ \A x : ~Has(todo', <<"start", x>>)
  BY <1>1, TailFacts, TailBegins
<1>3. Planned'
  BY <1>1, <1>2 DEF PlanInv, Planned, Start
<1>4. ASSUME NEW l \in Loops, NEW e \in Ends, InUse(e, l)'
      PROVE  wst'[l[1]] = "on" /\ ~Has(todo', Start(l)) /\ Before(todo', Last(e, l), FreeOf(l))
  <2>1. wst[l[1]] = "on" /\ Before(todo, Last(e, l), FreeOf(l))
    BY <1>1, <1>4 DEF PlanInv, Attached, InUse
  <2>2. Head(todo) # FreeOf(l)
    BY <2>1, <1>1, TailOrder
  <2>3. wst'[l[1]] = "on"
    BY <2>1, <2>2, <1>1, LoopFacts DEF FreeOf, PlanInv, Planned
  <2>4. Head(todo) # Last(e, l)
    BY <1>1 DEF Last, Ends
  <2> QED BY <2>1, <2>3, <2>4, <1>1, <1>2, TailOrder DEF Start
<1> QED BY <1>3, <1>4 DEF PlanInv, Attached, Start, FreeOf, Last

LEMMA EndPlan ==
  ASSUME Die
  PROVE  PlanInv'
<1>1. todo' = <<>> /\ todo' \in Seq(Statement) /\ Begins(todo') /\ \A e : ~Has(todo', e)
  BY EmptySeq, EmptyOrder DEF Die
<1>2. Planned'
  BY <1>1 DEF Die, Planned, Start
<1>3. \A l \in Loops, e \in Ends : ~InUse(e, l)'
  <2>1. \A l \in Loops : lpc'[l] = "none" /\ sock'[l] = INVALID_SOCK /\ ~running'[Object(l)]
    BY LoopFacts DEF Die
  <2> QED BY <2>1 DEF InUse
<1> QED BY <1>2, <1>3 DEF PlanInv, Attached

(* Two objects of a worker, by the threads that are theirs *)
LEMMA ObjectFacts ==
  ASSUME NEW w \in Workers
  PROVE  /\ Tcp(w) \in Objects /\ Udp(w) \in Objects
         /\ Object(Accept(w)) = Tcp(w)
         /\ Object(Broadcast(w)) = Udp(w) /\ Object(Listen(w)) = Udp(w)
BY DEF Tcp, Udp, Objects, Object, Accept, Broadcast, Listen

LEMMA StartsPlan ==
  ASSUME StopInv, NEW w \in Workers,
         StartTcp(w) \/ StartUdp(w) \/ StartTcpFails(w) \/ StartUdpFails(w)
  PROVE  PlanInv'
<1>1. CASE StartTcp(w)
  <2>1. /\ Then("start", Tcp(w)) /\ UNCHANGED <<proc, wst>>
        /\ sock' = [sock EXCEPT ![Accept(w)] = Lowest(fd)]
        /\ running' = [running EXCEPT ![Tcp(w)] = TRUE]
        /\ lpc' = [l \in Loops |-> IF l \in {Accept(w)} THEN "call" ELSE lpc[l]]
    BY <1>1 DEF StartTcp, Spawn
  <2>2. ASSUME NEW l \in Loops, NEW e \in Ends, Object(l) # Tcp(w), InUse(e, l)'
        PROVE  InUse(e, l)
    <3>1. l # Accept(w) /\ Object(l) \in Objects
      BY <2>2, ObjectFacts, LoopFacts
    <3>2. sock'[l] = sock[l] /\ running'[Object(l)] = running[Object(l)] /\ lpc'[l] = lpc[l]
      BY <2>1, <2>2, <3>1 DEF StopInv, TypeOK
    <3> QED BY <3>2, <2>2 DEF InUse
  <2> QED BY <2>1, <2>2, ObjectFacts, StartPlan DEF StopInv
<1>2. CASE StartUdp(w)
  <2> DEFINE m == Lowest(fd)
             n == Lowest(WithBroadcast(w))
  <2>1. /\ Then("start", Udp(w)) /\ UNCHANGED <<proc, wst>>
        /\ sock' = [sock EXCEPT ![Broadcast(w)] = m, ![Listen(w)] = n]
        /\ running' = [running EXCEPT ![Udp(w)] = TRUE]
        /\ lpc' = [l \in Loops |-> IF l \in {Broadcast(w), Listen(w)} THEN "call" ELSE lpc[l]]
    BY <1>2 DEF StartUdp, Spawn, UdpNumbers
  <2> HIDE DEF m, n
  <2>2. ASSUME NEW l \in Loops, NEW e \in Ends, Object(l) # Udp(w), InUse(e, l)'
        PROVE  InUse(e, l)
    <3>1. l # Broadcast(w) /\ l # Listen(w) /\ Object(l) \in Objects
      BY <2>2, ObjectFacts, LoopFacts
    <3>2. sock'[l] = sock[l] /\ running'[Object(l)] = running[Object(l)] /\ lpc'[l] = lpc[l]
      BY <2>1, <2>2, <3>1 DEF StopInv, TypeOK
    <3> QED BY <3>2, <2>2 DEF InUse
  <2> QED BY <2>1, <2>2, ObjectFacts, StartPlan DEF StopInv
<1>3. CASE StartTcpFails(w)
  <2>1. /\ At("start", Tcp(w)) /\ todo' = Failed(Tcp(w)) /\ UNCHANGED <<proc, wst, running, lpc>>
        /\ sock' = [sock EXCEPT ![Accept(w)] = INVALID_SOCK]
    BY <1>3 DEF StartTcpFails, loopVars
  <2>2. ASSUME NEW l \in Loops, NEW e \in Ends, Object(l) # Tcp(w), InUse(e, l)'
        PROVE  InUse(e, l)
    <3>1. l # Accept(w)
      BY <2>2, ObjectFacts
    <3>2. sock'[l] = sock[l]
      BY <2>1, <3>1 DEF StopInv, TypeOK
    <3> QED BY <3>2, <2>1, <2>2 DEF InUse
  <2> QED BY <2>1, <2>2, ObjectFacts, FailedPlan DEF StopInv
<1>4. CASE StartUdpFails(w)
  <2>1. PICK m, n : sock' = [sock EXCEPT ![Broadcast(w)] = m, ![Listen(w)] = n]
    BY <1>4 DEF StartUdpFails, UdpNumbers
  <2>2. At("start", Udp(w)) /\ todo' = Failed(Udp(w)) /\ UNCHANGED <<proc, wst, running, lpc>>
    BY <1>4 DEF StartUdpFails, loopVars
  <2>3. ASSUME NEW l \in Loops, NEW e \in Ends, Object(l) # Udp(w), InUse(e, l)'
        PROVE  InUse(e, l)
    <3>1. l # Broadcast(w) /\ l # Listen(w)
      BY <2>3, ObjectFacts
    <3>2. sock'[l] = sock[l]
      BY <2>1, <3>1 DEF StopInv, TypeOK
    <3> QED BY <3>2, <2>2, <2>3 DEF InUse
  <2> QED BY <2>2, <2>3, ObjectFacts, FailedPlan DEF StopInv
<1> QED BY <1>1, <1>2, <1>3, <1>4

(* The statements of stop() *)
LEMMA StatementsPlan ==
  ASSUME StopInv,
         \/ \E w \in Workers : InstallSignalHandler(w)
         \/ \E o \in Objects : ClearRunning(o)
         \/ \E l \in Loops : CloseSocket(l) \/ ResetSocket(l) \/ Join(l)
  PROVE  PlanInv'
<1>1. ASSUME NEW w \in Workers, InstallSignalHandler(w)
      PROVE  PlanInv'
  <2>1. Then("install", w) /\ UNCHANGED <<wst, sock, running, lpc>> /\ proc' # "ended"
    BY <1>1 DEF InstallSignalHandler, loopVars
  <2>2. \A l \in Loops, e \in Ends : InUse(e, l)' => InUse(e, l) /\ <<"install", w>> # Last(e, l)
    BY <2>1 DEF InUse, Last
  <2> QED BY <2>1, <2>2, ThenPlan DEF StopInv
<1>2. ASSUME NEW o \in Objects, ClearRunning(o)
      PROVE  PlanInv'
  <2>1. /\ Then("clear", o) /\ UNCHANGED <<proc, wst, sock, lpc>>
        /\ running' = [running EXCEPT ![o] = FALSE]
    BY <1>2 DEF ClearRunning, loopVars
  <2>2. \A l \in Loops, e \in Ends : InUse(e, l)' => InUse(e, l) /\ <<"clear", o>> # Last(e, l)
    BY <2>1, LoopFacts DEF InUse, Last, StopInv, TypeOK
  <2> QED BY <2>1, <2>2, ThenPlan DEF StopInv
<1>3. ASSUME NEW s \in Loops, CloseSocket(s)
      PROVE  PlanInv'
  <2>1. Then("close", s) /\ UNCHANGED <<proc, wst, sock, running, lpc>>
    BY <1>3 DEF CloseSocket
  <2>2. \A l \in Loops, e \in Ends : InUse(e, l)' => InUse(e, l) /\ <<"close", s>> # Last(e, l)
    BY <2>1 DEF InUse, Last, Ends
  <2> QED BY <2>1, <2>2, ThenPlan DEF StopInv
<1>4. ASSUME NEW s \in Loops, ResetSocket(s)
      PROVE  PlanInv'
  <2>1. /\ Then("reset", s) /\ UNCHANGED <<proc, wst, running, lpc>>
        /\ sock' = [sock EXCEPT ![s] = INVALID_SOCK]
    BY <1>4 DEF ResetSocket, loopVars
  <2>2. \A l \in Loops, e \in Ends : InUse(e, l)' => InUse(e, l) /\ <<"reset", s>> # Last(e, l)
    BY <2>1 DEF InUse, Last, StopInv, TypeOK
  <2> QED BY <2>1, <2>2, ThenPlan DEF StopInv
<1>5. ASSUME NEW k \in Loops, Join(k)
      PROVE  PlanInv'
  <2>1. /\ Then("join", k) /\ UNCHANGED <<proc, wst, running, sock>>
        /\ lpc' = [lpc EXCEPT ![k] = "none"]
    BY <1>5 DEF Join
  <2>2. \A l \in Loops, e \in Ends : InUse(e, l)' => InUse(e, l) /\ <<"join", k>> # Last(e, l)
    BY <2>1 DEF InUse, Last, StopInv, TypeOK
  <2> QED BY <2>1, <2>2, ThenPlan DEF StopInv
<1> QED BY <1>1, <1>2, <1>3, <1>4, <1>5

(* Threads, handlers and senders start and end nothing of an object. *)
LEMMA OthersPlan ==
  ASSUME StopInv,
         \/ \E l \in Loops : LoopStep(l) \/ Received(l)
         \/ \E c \in Conns, w \in Workers : Connect(c, w) \/ AcceptConnection(Accept(w), c)
         \/ \E x \in Users : HandlerStep(x)
         \/ \E x \in Senders : OpenSender(x)
         \/ OpenWindow \/ Signal \/ UNCHANGED vars
  PROVE  PlanInv'
<1>1. UNCHANGED <<todo, wst, sock, running>> /\ (proc' = proc \/ proc' # "ended")
  BY DEF LoopStep, Call, CallReturns, AcceptFails, Woken, Received, Connect, AcceptConnection,
         HandlerStep, ReceiveHeader, CloseConnection, OpenSender, OpenWindow, Signal, vars, mainVars
<1>2. \/ UNCHANGED lpc
      \/ \E k \in Loops : lpc[k] # "none" /\ \A l \in Loops : l # k => lpc'[l] = lpc[l]
  <2>1. ASSUME NEW l \in Loops, LoopStep(l) \/ Received(l)
        PROVE  lpc[l] # "none" /\ \A k \in Loops : k # l => lpc'[k] = lpc[k]
    BY <2>1 DEF LoopStep, Call, CallReturns, AcceptFails, Woken, Received, Again, StopInv, TypeOK
  <2>2. ASSUME NEW c \in Conns, NEW w \in Workers, AcceptConnection(Accept(w), c)
        PROVE  lpc[Accept(w)] # "none" /\ \A k \in Loops : k # Accept(w) => lpc'[k] = lpc[k]
    <3> DEFINE l == Accept(w)
    <3>1. lpc[l] = "in" /\ Again(l)
      BY <2>2 DEF AcceptConnection
    <3> HIDE DEF l
    <3>2. lpc[l] # "none" /\ \A k \in Loops : k # l => lpc'[k] = lpc[k]
      BY <3>1 DEF Again, StopInv, TypeOK
    <3> QED BY <3>2 DEF l
  <2>3. ASSUME \/ \E c \in Conns, w \in Workers : Connect(c, w)
               \/ \E x \in Users : HandlerStep(x)
               \/ \E x \in Senders : OpenSender(x)
               \/ OpenWindow \/ Signal \/ UNCHANGED vars
        PROVE  UNCHANGED lpc
    BY <2>3 DEF Connect, HandlerStep, ReceiveHeader, CloseConnection, OpenSender, OpenWindow, Signal,
                vars, loopVars
  <2> QED BY <2>1, <2>2, <2>3, FileFacts
<1>3. \A l \in Loops, e \in Ends : InUse(e, l)' => InUse(e, l)
  BY <1>1, <1>2 DEF InUse
<1> QED BY <1>1, <1>3, SamePlan DEF StopInv

LEMMA PlanStep ==
  ASSUME StopInv, [Next]_vars
  PROVE  PlanInv'
<1>1. CASE SignalKills \/ ExitProcess
  BY <1>1, EndPlan DEF SignalKills, ExitProcess
<1> QED BY <1>1, OrderPlan, FreePlan, StartsPlan, StatementsPlan, OthersPlan
        DEF StopInv, Next, MainStep

(* Types *)

LEMMA RangeFacts ==
  /\ {INVALID_SOCK} \cup NUMBERS = Numbered
  /\ \A t : ~Full(t) => Lowest(t) \in NUMBERS
  /\ \A w \in Workers : {Accept(w), Broadcast(w), Listen(w)} \subseteq Files
BY LowestFacts, FileFacts DEF Numbered

LEMMA CloseTypes ==
  ASSUME TypeOK, NEW n, CloseNumber(n), UNCHANGED lpc
  PROVE  /\ fd' \in [NUMBERS -> Files \cup {Free}] /\ held' \in [Loops -> Files \cup {Free}]
         /\ \A l \in Loops : held'[l] # Free => lpc'[l] = "in"
BY DEF CloseNumber, TypeOK

LEMMA AgainTypes ==
  ASSUME TypeOK, NEW l \in Loops, Again(l)
  PROVE  /\ lpc' \in [Loops -> {"none", "call", "in", "ended"}]
         /\ arg' \in [Loops -> {INVALID_SOCK} \cup NUMBERS]
         /\ held' \in [Loops -> Files \cup {Free}]
         /\ \A k \in Loops : held'[k] # Free => lpc'[k] = "in"
BY DEF Again, TypeOK

LEMMA UsersTypes ==
  ASSUME TypeOK
  PROVE  /\ DropUnserved => con' \in [Users -> {"none", "backlog", "receive", "settings", "sending"}]
         /\ \A x, state : Becomes(x, state) /\ state \in {"none", "receive"}
              => con' \in [Users -> {"none", "backlog", "receive", "settings", "sending"}]
BY DEF DropUnserved, Becomes, TypeOK

LEMMA StartTypes ==
  ASSUME StopInv, NEW w \in Workers,
         StartTcp(w) \/ StartUdp(w) \/ StartTcpFails(w) \/ StartUdpFails(w)
  PROVE  TypeOK'
<1>1. /\ UNCHANGED <<proc, wst, held, conVars>>
      /\ proc \in {"ended", "window", "command", "handling", "interrupted"}
  BY DEF StartTcp, StartUdp, StartTcpFails, StartUdpFails, Spawn, loopVars, StopInv, TypeOK
<1>2. CASE StartTcp(w)
  <2> DEFINE a == Accept(w)
             n == Lowest(fd)
  <2>1. /\ At("start", Tcp(w)) /\ ~Full(fd) /\ fd' = Opened(a)
        /\ sock' = [sock EXCEPT ![a] = n]
        /\ running' = [running EXCEPT ![Tcp(w)] = TRUE]
        /\ lpc' = [l \in Loops |-> IF l \in {a} THEN "call" ELSE lpc[l]]
        /\ arg' = [l \in Loops |-> IF l \in {a} THEN sock'[l] ELSE arg[l]]
    BY <1>2 DEF StartTcp, Then, Spawn
  <2>2. n \in NUMBERS /\ a \in Files /\ a \in Loops
    BY <2>1, RangeFacts, FileFacts
  <2>3. lpc[a] = "none"
    BY <2>1, <2>2, ObjectFacts, NotStarted DEF StopInv
  <2>4. fd' = [fd EXCEPT ![n] = a]
    BY <2>1 DEF Opened
  <2> HIDE DEF a, n
  <2>5. \A l \in Loops : held'[l] # Free => lpc'[l] = "in"
    BY <1>1, <2>1, <2>3 DEF StopInv, TypeOK
  <2>6. fd' \in [NUMBERS -> Files \cup {Free}]
    BY <2>2, <2>4 DEF StopInv, TypeOK
  <2>7. sock' \in [Loops -> {INVALID_SOCK} \cup NUMBERS]
    BY <2>1, <2>2 DEF StopInv, TypeOK
  <2>8. /\ running' \in [Objects -> BOOLEAN]
        /\ lpc' \in [Loops -> {"none", "call", "in", "ended"}]
    BY <2>1 DEF StopInv, TypeOK
  <2>9. arg' \in [Loops -> {INVALID_SOCK} \cup NUMBERS]
    BY <2>1, <2>7 DEF StopInv, TypeOK
  <2> QED BY <1>1, <2>5, <2>6, <2>7, <2>8, <2>9 DEF StopInv, TypeOK, conVars
<1>3. CASE StartUdp(w)
  <2> DEFINE a == Broadcast(w)
             b == Listen(w)
             t == Opened(a)
             m == Lowest(fd)
             n == Lowest(t)
  <2>1. /\ At("start", Udp(w)) /\ ~Full(fd) /\ ~Full(t)
        /\ fd' = [t EXCEPT ![n] = b]
        /\ sock' = [sock EXCEPT ![a] = m, ![b] = n]
        /\ running' = [running EXCEPT ![Udp(w)] = TRUE]
        /\ lpc' = [l \in Loops |-> IF l \in {a, b} THEN "call" ELSE lpc[l]]
        /\ arg' = [l \in Loops |-> IF l \in {a, b} THEN sock'[l] ELSE arg[l]]
    BY <1>3 DEF StartUdp, WithBroadcast, UdpNumbers, Then, Spawn
  <2>2. m \in NUMBERS /\ n \in NUMBERS /\ a \in Files /\ b \in Files /\ a \in Loops /\ b \in Loops
    BY <2>1, RangeFacts, FileFacts
  <2>3. lpc[a] = "none" /\ lpc[b] = "none"
    BY <2>1, <2>2, ObjectFacts, NotStarted DEF StopInv
  <2>4. t = [fd EXCEPT ![m] = a]
    BY DEF Opened
  <2> HIDE DEF a, b, t, m, n
  <2>5. \A l \in Loops : held'[l] # Free => lpc'[l] = "in"
    BY <1>1, <2>1, <2>3 DEF StopInv, TypeOK
  <2> QED BY <1>1, <2>1, <2>2, <2>4, <2>5 DEF StopInv, TypeOK, conVars
<1>4. CASE StartTcpFails(w)
  <2>1. /\ UNCHANGED <<fd, running, lpc, arg>>
        /\ sock' = [sock EXCEPT ![Accept(w)] = INVALID_SOCK]
    BY <1>4 DEF StartTcpFails, loopVars
  <2> QED BY <1>1, <2>1 DEF StopInv, TypeOK, conVars
<1>5. CASE StartUdpFails(w)
  <2>1. UNCHANGED <<fd, running, lpc, arg>>
    BY <1>5 DEF StartUdpFails, loopVars
  <2>2. PICK m \in Numbered, n \in Numbered : sock' = [sock EXCEPT ![Broadcast(w)] = m, ![Listen(w)] = n]
    BY <1>5, RangeFacts DEF StartUdpFails, UdpNumbers
  <2> QED BY <1>1, <2>1, <2>2, RangeFacts DEF StopInv, TypeOK, conVars
<1> QED BY <1>2, <1>3, <1>4, <1>5

LEMMA MainTypes ==
  ASSUME StopInv,
         \/ \E w \in Workers : \/ RunCommand(w) \/ StartWorker(w) \/ StopWorker(w) \/ LoopEnds(w)
                               \/ InstallSignalHandler(w) \/ FreeWorker(w)
         \/ \E o \in Objects : ClearRunning(o)
         \/ \E l \in Loops : CloseSocket(l) \/ ResetSocket(l) \/ Join(l)
         \/ CloseWindow \/ OpenWindow \/ Signal \/ UNCHANGED vars
  PROVE  TypeOK'
<1>1. TypeOK
  BY DEF StopInv
<1>2. ASSUME NEW w \in Workers, RunCommand(w) \/ StartWorker(w) \/ StopWorker(w) \/ LoopEnds(w)
                                \/ InstallSignalHandler(w)
      PROVE  TypeOK'
  <2>1. /\ UNCHANGED <<fd, sock, running, loopVars, conVars>>
        /\ proc' \in {proc, "command", "handling"}
        /\ wst' = wst \/ wst' = [wst EXCEPT ![w] = "on"]
    BY <1>2 DEF RunCommand, StartWorker, StopWorker, LoopEnds, InstallSignalHandler
  <2> QED BY <1>1, <2>1 DEF TypeOK, loopVars, conVars
<1>3. ASSUME CloseWindow \/ OpenWindow \/ Signal \/ UNCHANGED vars
      PROVE  TypeOK'
  <2>1. /\ UNCHANGED <<wst, fd, sock, running, loopVars, conVars>>
        /\ proc' \in {proc, "window", "interrupted"}
    BY <1>3 DEF CloseWindow, OpenWindow, Signal, vars, mainVars
  <2> QED BY <1>1, <2>1 DEF TypeOK, loopVars, conVars
<1>4. ASSUME NEW w \in Workers, FreeWorker(w)
      PROVE  TypeOK'
  <2>1. /\ UNCHANGED <<proc, fd, sock, running, loopVars, con, cfd>>
        /\ wst' = [wst EXCEPT ![w] = "off"]
        /\ srv' = [x \in Users |-> IF srv[x] = w THEN Gone ELSE srv[x]]
    BY <1>4 DEF FreeWorker
  <2> QED BY <1>1, <2>1 DEF TypeOK, loopVars
<1>5. ASSUME NEW o \in Objects, ClearRunning(o)
      PROVE  TypeOK'
  <2>1. /\ UNCHANGED <<proc, wst, fd, sock, loopVars, conVars>>
        /\ running' = [running EXCEPT ![o] = FALSE]
    BY <1>5 DEF ClearRunning
  <2> QED BY <1>1, <2>1 DEF TypeOK, loopVars, conVars
<1>6. ASSUME NEW s \in Loops, CloseSocket(s)
      PROVE  TypeOK'
  <2>1. CloseNumber(sock[s]) /\ DropUnserved /\ UNCHANGED <<proc, wst, sock, running, lpc, arg, srv, cfd>>
    BY <1>6 DEF CloseSocket
  <2>2. con' \in [Users -> {"none", "backlog", "receive", "settings", "sending"}]
    BY <1>1, <2>1, UsersTypes
  <2>3. /\ fd' \in [NUMBERS -> Files \cup {Free}] /\ held' \in [Loops -> Files \cup {Free}]
        /\ \A l \in Loops : held'[l] # Free => lpc'[l] = "in"
    BY <1>1, <2>1, CloseTypes
  <2> QED BY <1>1, <2>1, <2>2, <2>3 DEF TypeOK
<1>7. ASSUME NEW s \in Loops, ResetSocket(s)
      PROVE  TypeOK'
  <2>1. /\ UNCHANGED <<proc, wst, fd, running, loopVars, conVars>>
        /\ sock' = [sock EXCEPT ![s] = INVALID_SOCK]
    BY <1>7 DEF ResetSocket
  <2> QED BY <1>1, <2>1 DEF TypeOK, loopVars, conVars
<1>8. ASSUME NEW l \in Loops, Join(l)
      PROVE  TypeOK'
  <2>1. /\ UNCHANGED <<proc, wst, fd, sock, running, arg, held, conVars>>
        /\ lpc[l] \in {"none", "ended"} /\ lpc' = [lpc EXCEPT ![l] = "none"]
    BY <1>8 DEF Join
  <2>2. \A k \in Loops : held'[k] # Free => lpc'[k] = "in"
    BY <1>1, <2>1 DEF TypeOK
  <2> QED BY <1>1, <2>1, <2>2 DEF TypeOK, conVars
<1> QED BY <1>2, <1>3, <1>4, <1>5, <1>6, <1>7, <1>8

LEMMA OtherTypes ==
  ASSUME TypeOK,
         \/ \E l \in Loops : LoopStep(l) \/ Received(l)
         \/ \E c \in Conns, w \in Workers : Connect(c, w) \/ AcceptConnection(Accept(w), c)
         \/ \E x \in Users : HandlerStep(x)
         \/ \E x \in Senders : OpenSender(x)
  PROVE  TypeOK'
<1>1. ASSUME NEW l \in Loops, Call(l)
      PROVE  TypeOK'
  <2>1. /\ UNCHANGED <<mainVars, fd, sock, running, conVars>>
        /\ lpc' = [lpc EXCEPT ![l] = "in"] /\ held' = [held EXCEPT ![l] = Target(l)]
        /\ arg' = [arg EXCEPT ![l] = INVALID_SOCK]
    BY <1>1 DEF Call
  <2>2. Target(l) \in Files \cup {Free}
    BY NumberFacts DEF Target, TypeOK
  <2>3. \A k \in Loops : held'[k] # Free => lpc'[k] = "in"
    BY <2>1 DEF TypeOK
  <2> QED BY <2>1, <2>2, <2>3 DEF TypeOK, mainVars, conVars
<1>2. ASSUME NEW l \in Loops, CallReturns(l) \/ AcceptFails(l) \/ Woken(l) \/ Received(l)
      PROVE  TypeOK'
  <2>1. /\ Again(l) /\ UNCHANGED <<mainVars, fd, sock, running, srv, cfd>>
        /\ con' = con \/ DropUnserved
    BY <1>2 DEF CallReturns, AcceptFails, Woken, Received, conVars
  <2>2. con' \in [Users -> {"none", "backlog", "receive", "settings", "sending"}]
    BY <2>1, UsersTypes DEF TypeOK
  <2>3. /\ lpc' \in [Loops -> {"none", "call", "in", "ended"}]
        /\ arg' \in [Loops -> {INVALID_SOCK} \cup NUMBERS]
        /\ held' \in [Loops -> Files \cup {Free}]
        /\ \A k \in Loops : held'[k] # Free => lpc'[k] = "in"
    BY <2>1, AgainTypes
  <2> QED BY <2>1, <2>2, <2>3 DEF TypeOK, mainVars
<1>3. ASSUME NEW c \in Conns, NEW w \in Workers, Connect(c, w)
      PROVE  TypeOK'
  <2>1. /\ UNCHANGED <<mainVars, fd, sock, running, loopVars, cfd>>
        /\ con' = [con EXCEPT ![c] = "backlog"] /\ srv' = [srv EXCEPT ![c] = w]
    BY <1>3 DEF Connect
  <2> QED BY <2>1 DEF TypeOK, mainVars, loopVars
<1>4. ASSUME NEW c \in Conns, NEW w \in Workers, AcceptConnection(Accept(w), c)
      PROVE  TypeOK'
  <2> DEFINE l == Accept(w)
             f == <<c, "conn">>
  <2>1. /\ ~Full(fd) /\ fd' = Opened(f) /\ cfd' = [cfd EXCEPT ![c] = Lowest(fd)]
        /\ srv' = [srv EXCEPT ![c] = l[1]] /\ Again(l) /\ Becomes(c, "receive")
        /\ UNCHANGED <<mainVars, sock, running>>
    BY <1>4 DEF AcceptConnection
  <2>2. f \in Files /\ l \in Loops /\ l[1] \in Workers /\ Lowest(fd) \in NUMBERS
    BY <2>1, FileFacts, RangeFacts DEF Users, Accept
  <2>3. fd' = [fd EXCEPT ![Lowest(fd)] = f]
    BY <2>1 DEF Opened
  <2> HIDE DEF l, f
  <2>4. con' \in [Users -> {"none", "backlog", "receive", "settings", "sending"}]
    BY <2>1, UsersTypes
  <2>5. /\ lpc' \in [Loops -> {"none", "call", "in", "ended"}]
        /\ arg' \in [Loops -> {INVALID_SOCK} \cup NUMBERS]
        /\ held' \in [Loops -> Files \cup {Free}]
        /\ \A k \in Loops : held'[k] # Free => lpc'[k] = "in"
    BY <2>1, <2>2, AgainTypes
  <2>6. fd' \in [NUMBERS -> Files \cup {Free}]
    BY <2>2, <2>3 DEF TypeOK
  <2>7. cfd' \in [Users -> {INVALID_SOCK} \cup NUMBERS] /\ srv' \in [Users -> Workers \cup {Gone}]
    BY <2>1, <2>2 DEF TypeOK
  <2> QED BY <2>1, <2>4, <2>5, <2>6, <2>7 DEF TypeOK, mainVars
<1>5. ASSUME NEW x \in Users, ReceiveHeader(x)
      PROVE  TypeOK'
  <2>1. /\ UNCHANGED <<mainVars, fd, sock, running, loopVars, srv, cfd>>
        /\ con' = [con EXCEPT ![x] = "settings"]
    BY <1>5 DEF ReceiveHeader
  <2> QED BY <2>1 DEF TypeOK, mainVars, loopVars
<1>6. ASSUME NEW x \in Users, CloseConnection(x)
      PROVE  TypeOK'
  <2>1. /\ CloseNumber(cfd[x]) /\ cfd' = [cfd EXCEPT ![x] = INVALID_SOCK]
        /\ srv' = [srv EXCEPT ![x] = Gone] /\ Becomes(x, "none")
        /\ UNCHANGED <<mainVars, sock, running, lpc, arg>>
    BY <1>6 DEF CloseConnection
  <2>2. con' \in [Users -> {"none", "backlog", "receive", "settings", "sending"}]
    BY <2>1, UsersTypes
  <2>3. /\ fd' \in [NUMBERS -> Files \cup {Free}] /\ held' \in [Loops -> Files \cup {Free}]
        /\ \A l \in Loops : held'[l] # Free => lpc'[l] = "in"
    BY <2>1, CloseTypes
  <2> QED BY <2>1, <2>2, <2>3 DEF TypeOK, mainVars
<1>7. ASSUME NEW x \in Senders, OpenSender(x)
      PROVE  TypeOK'
  <2> DEFINE f == <<x, "conn">>
  <2>1. /\ ~Full(fd) /\ fd' = Opened(f) /\ cfd' = [cfd EXCEPT ![x] = Lowest(fd)]
        /\ con' = [con EXCEPT ![x] = "sending"]
        /\ UNCHANGED <<mainVars, sock, running, loopVars, srv>>
    BY <1>7 DEF OpenSender
  <2>2. f \in Files /\ Lowest(fd) \in NUMBERS
    BY <2>1, FileFacts, RangeFacts DEF Users
  <2>3. fd' = [fd EXCEPT ![Lowest(fd)] = f]
    BY <2>1 DEF Opened
  <2> HIDE DEF f
  <2>4. fd' \in [NUMBERS -> Files \cup {Free}]
    BY <2>2, <2>3 DEF TypeOK
  <2>5. /\ cfd' \in [Users -> {INVALID_SOCK} \cup NUMBERS]
        /\ con' \in [Users -> {"none", "backlog", "receive", "settings", "sending"}]
    BY <2>1, <2>2 DEF TypeOK
  <2> QED BY <2>1, <2>4, <2>5 DEF TypeOK, mainVars, loopVars
<1> QED BY <1>1, <1>2, <1>3, <1>4, <1>5, <1>6, <1>7 DEF LoopStep, HandlerStep

LEMMA EndTypes == Die => TypeOK'
BY DEF Die, TypeOK

LEMMA StopStep ==
  ASSUME StopInv, [Next]_vars
  PROVE  StopInv'
<1>1. TypeOK'
  <2>1. CASE SignalKills \/ ExitProcess
    BY <2>1, EndTypes DEF SignalKills, ExitProcess
  <2> QED BY <2>1, StartTypes, MainTypes, OtherTypes DEF StopInv, Next, MainStep
<1> QED BY <1>1, PlanStep DEF StopInv

LEMMA InitStop == Init => StopInv
<1> SUFFICES ASSUME Init
             PROVE  StopInv
  OBVIOUS
<1>1. TypeOK
  BY DEF Init, TypeOK
<1>2. todo = <<>> /\ todo \in Seq(Statement) /\ Begins(todo) /\ \A e : ~Has(todo, e)
  BY EmptySeq, EmptyOrder DEF Init
<1>3. Planned
  BY <1>2 DEF Init, Planned, Start
<1>4. \A l \in Loops, e \in Ends : ~InUse(e, l)
  BY LoopFacts DEF Init, InUse
<1> QED BY <1>1, <1>3, <1>4 DEF StopInv, PlanInv, Attached

(* Every variable has its type, and only a thread in its call holds a file: *)
(* no start() begins a thread anew that has not been joined, whatever       *)
(* failed before.                                                          *)
THEOREM LifecycleTypes == Spec => []TypeOK
<1>1. StopInv => TypeOK
  BY DEF StopInv
<1> QED BY <1>1, InitStop, StopStep, PTL DEF Spec
-----------------------------------------------------------------------------
(* Whose socket a thread calls on *)

(* Orders, and a failed start(), leave a plan in the right order. *)
LEMMA OrderOrdered ==
  ASSUME PlanInv,
         \/ \E w \in Workers : RunCommand(w) \/ StartWorker(w) \/ StopWorker(w) \/ LoopEnds(w)
         \/ CloseWindow
  PROVE  Ordered(todo')
<1>1. ASSUME NEW w \in Workers, RunCommand(w) \/ StartWorker(w)
      PROVE  Ordered(todo')
  <2>1. todo' \in {StartBoth(w), StartBoth(w) \o Do("install", w)}
    BY <1>1 DEF RunCommand, StartWorker
  <2> QED BY <2>1, StartOrder
<1>2. ASSUME NEW w \in Workers, StopWorker(w) \/ LoopEnds(w)
      PROVE  Ordered(todo')
  <2> DEFINE p == StopBoth(w)
  <2>1. todo' \in {p \o Destroy(w), p \o Destroy(w) \o Exit}
    BY <1>2 DEF StopWorker, LoopEnds
  <2>2. Sound(p) /\ \A x : ~Has(p, <<"free", x>>)
    BY BothOrder
  <2> HIDE DEF p
  <2> QED BY <2>1, <2>2, StopAndFree DEF Sound
<1> QED BY <1>1, <1>2, WindowOrder DEF Sound

(* Before an object is started nothing is planned but starts. *)
LEMMA AtStart ==
  ASSUME PlanInv, NEW o \in Objects, At("start", o)
  PROVE  /\ todo \in Seq(Statement) /\ todo # <<>> /\ Ordered(Tail(todo))
         /\ \A l \in Loops : ~Has(todo, Last("join", l)) /\ ~At("reset", l)
<1>1. todo \in Seq(Statement) /\ todo # <<>> /\ Head(todo) = <<"start", o>> /\ Begins(todo)
  BY DEF PlanInv, Planned, At
<1>2. \A op, x : Has(Tail(todo), <<op, x>>) => op \in {"start", "install"}
  <2>1. Head(todo)[1] = "start"
    BY <1>1
  <2> QED BY <2>1, <1>1, TailBegins
<1>3. Ordered(Tail(todo))
  BY <1>1, <1>2, TailFacts, BeginsOrder
<1>4. ASSUME NEW l \in Loops, Has(todo, Last("join", l))
      PROVE  FALSE
  <2>1. Last("join", l) = <<"join", l>> /\ Head(todo) # Last("join", l)
    BY <1>1 DEF Last
  <2>2. Has(Tail(todo), Last("join", l))
    BY <2>1, <1>1, <1>4, TailOrder
  <2> QED BY <2>1, <2>2, <1>2
<1>5. \A l \in Loops : ~At("reset", l)
  BY <1>1 DEF At
<1> QED BY <1>1, <1>3, <1>4, <1>5

LEMMA FailedOrdered ==
  ASSUME PlanInv, NEW o \in Objects, At("start", o)
  PROVE  Ordered(Failed(o))
<1>1. Ordered(Tail(todo))
  BY AtStart
<1>2. Ordered(Stop(o) \o Destroy(o[1]) \o Exit)
  <2> DEFINE p == Stop(o)
             w == o[1]
  <2>1. w \in Workers /\ Sound(p) /\ \A x : ~Has(p, <<"free", x>>)
    BY LoopFacts, StopOrder
  <2> HIDE DEF p, w
  <2>2. Sound(p \o Destroy(w) \o Exit)
    BY <2>1, StopAndFree
  <2> QED BY <2>2 DEF Sound, p, w
<1> QED BY <1>1, <1>2 DEF Failed

(* A running object's sockets are open. *)
LEMMA RunningOwns ==
  ASSUME CallInv, NEW l \in Loops, running[Object(l)]
  PROVE  sock[l] \in NUMBERS /\ fd[sock[l]] = l
<1>1. sock[l] # INVALID_SOCK /\ Before(todo, Last("clear", l), Last("reset", l))
  BY DEF CallInv, Calls
<1>2. ~At("reset", l)
  <2>1. todo \in Seq(Statement)
    BY DEF CallInv, StopInv, PlanInv, Planned
  <2>2. todo # <<>> => Head(todo) # Last("reset", l)
    BY <2>1, <1>1, TailOrder
  <2> QED BY <2>2 DEF At, Last
<1>3. fd[sock[l]] = l /\ sock[l] \in Numbered
  BY <1>1, <1>2 DEF CallInv, OwnInv, Own, Owns, Table
<1> QED BY <1>1, <1>3, NumberFacts

(* close() ends the call of no thread but the one whose socket it closes. *)
LEMMA HeldOwn ==
  ASSUME CallInv, NEW s \in Loops, CloseNumber(sock[s]), ~At("reset", s), NEW l \in Loops, l # s,
         held[l] = l
  PROVE  held'[l] = l
<1>1. sock[s] # INVALID_SOCK => fd[sock[s]] = s
  BY DEF CallInv, OwnInv, Own, Owns
<1>2. sock[s] \in NUMBERS => fd[sock[s]] # l
  BY <1>1, NumberFacts
<1> QED BY <1>2 DEF CloseNumber

(* Statements that leave the object of a thread alone *)
LEMMA TailCalls ==
  ASSUME CallInv, NEW op, NEW x, Then(op, x), NEW l \in Loops, <<op, x>> # Last("clear", l),
         running'[Object(l)] = running[Object(l)], sock'[l] = sock[l], arg'[l] = arg[l],
         held[l] = l => held'[l] = l,
         lpc'[l] \in {lpc[l], "none"}
  PROVE  Calls(l)'
<1>1. todo \in Seq(Statement) /\ todo # <<>> /\ Head(todo) = <<op, x>> /\ todo' = Tail(todo)
  BY DEF CallInv, StopInv, PlanInv, Planned, Then, At
<1> SUFFICES ASSUME running[Object(l)]
             PROVE  Calls(l)'
  BY DEF Calls
<1>2. /\ sock[l] # INVALID_SOCK
      /\ lpc[l] = "call" => arg[l] = sock[l]
      /\ lpc[l] = "in" => held[l] = l
      /\ Before(todo, Last("clear", l), <<"close", l>>)
      /\ Before(todo, Last("clear", l), Last("reset", l))
  BY DEF CallInv, Calls
<1>3. /\ Before(todo', Last("clear", l), <<"close", l>>)
      /\ Before(todo', Last("clear", l), Last("reset", l))
  BY <1>1, <1>2, TailOrder
<1> QED BY <1>2, <1>3 DEF Calls, Last

(* Before the first statement of a plan *)
LEMMA OrderedCalls ==
  ASSUME CallInv, Ordered(todo'), NEW l \in Loops,
         running'[Object(l)] => running[Object(l)] /\ UNCHANGED <<sock[l], lpc[l], arg[l], held[l]>>
  PROVE  Calls(l)'
BY DEF CallInv, Calls, Ordered, Last

(* The threads *)
LEMMA SameCalls ==
  ASSUME CallInv, UNCHANGED <<todo, sock, running>>, NEW l \in Loops,
         \/ UNCHANGED <<lpc[l], arg[l]>> /\ held'[l] \in {held[l], l}
         \/ Again(l)
         \/ Call(l)
  PROVE  Calls(l)'
<1> SUFFICES ASSUME running[Object(l)]
             PROVE  Calls(l)'
  BY DEF Calls
<1>1. /\ sock[l] # INVALID_SOCK
      /\ lpc[l] = "call" => arg[l] = sock[l]
      /\ lpc[l] = "in" => held[l] = l
      /\ Before(todo, Last("clear", l), <<"close", l>>)
      /\ Before(todo, Last("clear", l), Last("reset", l))
  BY DEF CallInv, Calls
<1>2. /\ Before(todo', Last("clear", l), <<"close", l>>)
      /\ Before(todo', Last("clear", l), Last("reset", l))
  BY <1>1
<1>3. CASE UNCHANGED <<lpc[l], arg[l]>> /\ held'[l] \in {held[l], l}
  BY <1>1, <1>2, <1>3 DEF Calls, Last
<1>4. CASE Again(l)
  <2>1. lpc'[l] = "call" /\ arg'[l] = sock[l]
    BY <1>4 DEF Again, CallInv, StopInv, TypeOK
  <2> QED BY <2>1, <1>1, <1>2 DEF Calls, Last
<1>5. CASE Call(l)
  <2>1. lpc[l] = "call" /\ lpc'[l] = "in" /\ held'[l] = Target(l)
    BY <1>5 DEF Call, CallInv, StopInv, TypeOK
  <2>2. Target(l) = l
    BY <2>1, <1>1, RunningOwns DEF Target
  <2> QED BY <2>1, <2>2, <1>1, <1>2 DEF Calls, Last
<1> QED BY <1>3, <1>4, <1>5

LEMMA StartTcpCalls ==
  ASSUME CallInv, NEW w \in Workers, StartTcp(w), NEW l \in Loops
  PROVE  Calls(l)'
<1> DEFINE a == Accept(w)
<1>1. /\ At("start", Tcp(w)) /\ todo' = Tail(todo) /\ ~Full(fd)
      /\ sock' = [sock EXCEPT ![a] = Lowest(fd)]
      /\ running' = [running EXCEPT ![Tcp(w)] = TRUE]
      /\ lpc' = [k \in Loops |-> IF k \in {a} THEN "call" ELSE lpc[k]]
      /\ arg' = [k \in Loops |-> IF k \in {a} THEN sock'[k] ELSE arg[k]]
      /\ held' = held
  BY DEF StartTcp, Then, Spawn
<1>2. Ordered(todo')
  BY <1>1, AtStart, ObjectFacts DEF CallInv, StopInv
<1>3. a \in Loops /\ Lowest(fd) \in NUMBERS /\ Object(a) = Tcp(w)
  BY <1>1, FileFacts, RangeFacts, ObjectFacts
<1>4. CASE l = a
  <2>1. sock'[l] = Lowest(fd) /\ lpc'[l] = "call" /\ arg'[l] = sock'[l]
    BY <1>1, <1>3, <1>4 DEF CallInv, StopInv, TypeOK
  <2>2. sock'[l] # INVALID_SOCK
    BY <2>1, <1>3, NumberFacts
  <2> QED BY <2>1, <2>2, <1>2 DEF Calls, Ordered, Last
<1>5. CASE l # a
  <2>1. Object(l) # Tcp(w)
    <3>1. Tcp(w)[1] = w /\ Tcp(w) # Udp(w) /\ Tcp(w) \in Objects
      BY ObjectFacts DEF Tcp, Udp
    <3> QED BY <3>1, <1>5, LoopFacts
  <2>2. running'[Object(l)] = running[Object(l)]
    BY <2>1, <1>1, LoopFacts DEF CallInv, StopInv, TypeOK
  <2>3. UNCHANGED <<sock[l], lpc[l], arg[l], held[l]>>
    BY <1>1, <1>5 DEF CallInv, StopInv, TypeOK
  <2> QED BY <2>2, <2>3, <1>2, OrderedCalls
<1> QED BY <1>4, <1>5

LEMMA StartUdpCalls ==
  ASSUME CallInv, NEW w \in Workers, StartUdp(w), NEW l \in Loops
  PROVE  Calls(l)'
<1> DEFINE a == Broadcast(w)
           b == Listen(w)
           m == Lowest(fd)
           n == Lowest(WithBroadcast(w))
<1>1. /\ At("start", Udp(w)) /\ todo' = Tail(todo) /\ ~Full(fd) /\ ~Full(WithBroadcast(w))
      /\ sock' = [sock EXCEPT ![a] = m, ![b] = n]
      /\ running' = [running EXCEPT ![Udp(w)] = TRUE]
      /\ lpc' = [k \in Loops |-> IF k \in {a, b} THEN "call" ELSE lpc[k]]
      /\ arg' = [k \in Loops |-> IF k \in {a, b} THEN sock'[k] ELSE arg[k]]
      /\ held' = held
  BY DEF StartUdp, UdpNumbers, Then, Spawn
<1>2. Ordered(todo')
  BY <1>1, AtStart, ObjectFacts DEF CallInv, StopInv
<1>3. /\ a \in Loops /\ b \in Loops /\ m \in NUMBERS /\ n \in NUMBERS
      /\ Object(a) = Udp(w) /\ Object(b) = Udp(w)
  BY <1>1, FileFacts, RangeFacts, ObjectFacts
<1>4. CASE l \in {a, b}
  <2>1. sock'[l] \in {m, n} /\ lpc'[l] = "call" /\ arg'[l] = sock'[l]
    BY <1>1, <1>3, <1>4 DEF CallInv, StopInv, TypeOK
  <2>2. sock'[l] # INVALID_SOCK
    BY <2>1, <1>3, NumberFacts
  <2> QED BY <2>1, <2>2, <1>2 DEF Calls, Ordered, Last
<1>5. CASE l \notin {a, b}
  <2>1. Object(l) # Udp(w)
    <3>1. Udp(w)[1] = w /\ Udp(w) \in Objects
      BY ObjectFacts DEF Udp
    <3> QED BY <3>1, <1>5, LoopFacts
  <2>2. running'[Object(l)] = running[Object(l)]
    BY <2>1, <1>1, LoopFacts DEF CallInv, StopInv, TypeOK
  <2>3. UNCHANGED <<sock[l], lpc[l], arg[l], held[l]>>
    BY <1>1, <1>5 DEF CallInv, StopInv, TypeOK
  <2> QED BY <2>2, <2>3, <1>2, OrderedCalls
<1> QED BY <1>4, <1>5

LEMMA StartTcpFailsCalls ==
  ASSUME CallInv, NEW w \in Workers, StartTcpFails(w), NEW l \in Loops
  PROVE  Calls(l)'
<1>1. /\ At("start", Tcp(w)) /\ todo' = Failed(Tcp(w)) /\ UNCHANGED <<running, lpc, arg, held>>
      /\ sock' = [sock EXCEPT ![Accept(w)] = INVALID_SOCK]
  BY DEF StartTcpFails, loopVars
<1>2. Ordered(todo')
  BY <1>1, FailedOrdered, ObjectFacts DEF CallInv, StopInv
<1>3. running'[Object(l)] => UNCHANGED <<sock[l], lpc[l], arg[l], held[l]>>
  <2>1. CASE l = Accept(w)
    BY <2>1, <1>1, NotStarted, ObjectFacts DEF CallInv, StopInv
  <2>2. CASE l # Accept(w)
    BY <2>2, <1>1 DEF CallInv, StopInv, TypeOK
  <2> QED BY <2>1, <2>2
<1> QED BY <1>1, <1>2, <1>3, OrderedCalls

LEMMA StatementCalls ==
  ASSUME CallInv,
         \/ \E w \in Workers : InstallSignalHandler(w) \/ FreeWorker(w)
         \/ \E o \in Objects : ClearRunning(o)
         \/ \E s \in Loops : CloseSocket(s) \/ ResetSocket(s) \/ Join(s),
         NEW l \in Loops
  PROVE  Calls(l)'
<1>1. ASSUME NEW w \in Workers, InstallSignalHandler(w) \/ FreeWorker(w)
      PROVE  Calls(l)'
  <2>1. PICK op \in {"install", "free"} : Then(op, w)
    BY <1>1 DEF InstallSignalHandler, FreeWorker
  <2>2. UNCHANGED <<sock, running, lpc, arg, held>>
    BY <1>1 DEF InstallSignalHandler, FreeWorker, loopVars
  <2>3. <<op, w>> # Last("clear", l)
    BY <2>1 DEF Last
  <2> QED BY <2>1, <2>2, <2>3, TailCalls
<1>2. ASSUME NEW o \in Objects, ClearRunning(o)
      PROVE  Calls(l)'
  <2>1. /\ Then("clear", o) /\ UNCHANGED <<sock, lpc, arg, held>>
        /\ running' = [running EXCEPT ![o] = FALSE]
    BY <1>2 DEF ClearRunning, loopVars
  <2>2. CASE Object(l) = o
    <3>1. ~running'[Object(l)]
      BY <2>1, <2>2 DEF CallInv, StopInv, TypeOK
    <3> QED BY <3>1 DEF Calls
  <2>3. CASE Object(l) # o
    <3>1. running'[Object(l)] = running[Object(l)]
      BY <2>1, <2>3, LoopFacts DEF CallInv, StopInv, TypeOK
    <3>2. <<"clear", o>> # Last("clear", l)
      BY <2>3 DEF Last
    <3> QED BY <3>1, <3>2, <2>1, TailCalls
  <2> QED BY <2>2, <2>3
<1>3. ASSUME NEW s \in Loops, CloseSocket(s) \/ ResetSocket(s)
      PROVE  Calls(l)'
  <2>1. PICK op \in {"close", "reset"} : Then(op, s) /\ (op = "close" <=> CloseSocket(s))
    BY <1>3 DEF CloseSocket, ResetSocket, Then, At
  <2>2. UNCHANGED <<running, lpc, arg>>
    BY <1>3 DEF CloseSocket, ResetSocket, loopVars
  <2>3. CASE l = s
    <3>1. ~running[Object(l)]
      <4>1. todo \in Seq(Statement) /\ todo # <<>> /\ Head(todo) = <<op, s>>
        BY <2>1 DEF Then, At, CallInv, StopInv, PlanInv, Planned
      <4>2. ~(Before(todo, Last("clear", l), <<"close", l>>) /\ Before(todo, Last("clear", l), Last("reset", l)))
        BY <4>1, <2>3, TailOrder DEF Last
      <4> QED BY <4>2 DEF CallInv, Calls
    <3> QED BY <3>1, <2>2 DEF Calls
  <2>4. CASE l # s
    <3>1. <<op, s>> # Last("clear", l)
      BY <2>1 DEF Last
    <3>2. sock'[l] = sock[l]
      BY <2>4, <1>3 DEF CloseSocket, ResetSocket, CallInv, StopInv, TypeOK
    <3>3. held[l] = l => held'[l] = l
      <4>1. CASE CloseSocket(s)
        <5>1. CloseNumber(sock[s]) /\ ~At("reset", s)
          BY <4>1 DEF CloseSocket, Then, At
        <5> QED BY <5>1, <2>4, HeldOwn
      <4>2. CASE ResetSocket(s)
        BY <4>2 DEF ResetSocket, loopVars
      <4> QED BY <4>1, <4>2, <1>3
    <3> QED BY <3>1, <3>2, <3>3, <2>1, <2>2, TailCalls
  <2> QED BY <2>3, <2>4
<1>4. ASSUME NEW k \in Loops, Join(k)
      PROVE  Calls(l)'
  <2>1. /\ Then("join", k) /\ UNCHANGED <<sock, running, arg, held>>
        /\ lpc' = [lpc EXCEPT ![k] = "none"]
    BY <1>4 DEF Join
  <2>2. lpc'[l] \in {lpc[l], "none"} /\ <<"join", k>> # Last("clear", l)
    BY <2>1 DEF Last, CallInv, StopInv, TypeOK
  <2> QED BY <2>1, <2>2, TailCalls
<1> QED BY <1>1, <1>2, <1>3, <1>4

LEMMA OtherCalls ==
  ASSUME CallInv,
         \/ \E k \in Loops : LoopStep(k) \/ Received(k)
         \/ \E c \in Conns, w \in Workers : Connect(c, w) \/ AcceptConnection(Accept(w), c)
         \/ \E x \in Users : HandlerStep(x)
         \/ \E x \in Senders : OpenSender(x)
         \/ OpenWindow \/ Signal \/ UNCHANGED vars,
         NEW l \in Loops
  PROVE  Calls(l)'
<1>1. UNCHANGED <<todo, sock, running>>
  BY DEF LoopStep, Call, CallReturns, AcceptFails, Woken, Received, Connect, AcceptConnection,
         HandlerStep, ReceiveHeader, CloseConnection, OpenSender, OpenWindow, Signal, vars, mainVars
<1>2. ASSUME NEW k \in Loops, Again(k) \/ Call(k)
      PROVE  Calls(l)'
  <2>1. CASE k = l
    BY <2>1, <1>1, <1>2, SameCalls
  <2>2. CASE k # l
    <3>1. UNCHANGED <<lpc[l], arg[l], held[l]>>
      BY <2>2, <1>2 DEF Again, Call, CallInv, StopInv, TypeOK
    <3> QED BY <3>1, <1>1, SameCalls
  <2> QED BY <2>1, <2>2
<1>3. ASSUME NEW k \in Loops, LoopStep(k) \/ Received(k)
      PROVE  Calls(l)'
  BY <1>2, <1>3 DEF LoopStep, CallReturns, AcceptFails, Woken, Received
<1>4. ASSUME NEW c \in Conns, NEW w \in Workers, AcceptConnection(Accept(w), c)
      PROVE  Calls(l)'
  <2>1. Again(Accept(w)) /\ Accept(w) \in Loops
    BY <1>4, FileFacts DEF AcceptConnection
  <2> QED BY <2>1, <1>2
<1>5. ASSUME \/ \E c \in Conns, w \in Workers : Connect(c, w)
             \/ \E x \in Users : ReceiveHeader(x)
             \/ \E x \in Senders : OpenSender(x)
             \/ OpenWindow \/ Signal \/ UNCHANGED vars
      PROVE  Calls(l)'
  <2>1. UNCHANGED <<lpc, arg, held>>
    BY <1>5 DEF Connect, ReceiveHeader, OpenSender, OpenWindow, Signal, vars, loopVars
  <2> QED BY <2>1, <1>1, SameCalls
<1>6. ASSUME NEW x \in Users, CloseConnection(x)
      PROVE  Calls(l)'
  <2>1. Active(x) /\ CloseNumber(cfd[x]) /\ UNCHANGED <<lpc, arg>>
    BY <1>6 DEF CloseConnection
  <2>2. fd[cfd[x]] # l
    BY <2>1, FileFacts DEF CallInv, OwnInv, Own, Keeps
  <2>3. held[l] = l => held'[l] = l
    BY <2>1, <2>2 DEF CloseNumber
  <2>4. held'[l] \in {held[l], Free}
    BY <2>1 DEF CloseNumber
  <2> SUFFICES ASSUME running[Object(l)]
               PROVE  Calls(l)'
    BY <1>1 DEF Calls
  <2>5. /\ Before(todo', Last("clear", l), <<"close", l>>)
        /\ Before(todo', Last("clear", l), Last("reset", l))
    BY <1>1 DEF CallInv, Calls
  <2> QED BY <1>1, <2>1, <2>3, <2>5 DEF CallInv, Calls, Last
<1> QED BY <1>3, <1>4, <1>5, <1>6 DEF HandlerStep

LEMMA CallStep ==
  ASSUME CallInv, [NextUdpStarts]_vars
  PROVE  CallInv'
<1>1. StopInv' /\ OwnInv'
  BY StopStep, OwnStep DEF CallInv, NextUdpStarts
<1>2. ASSUME NEW l \in Loops
      PROVE  Calls(l)'
  <2>1. CASE SignalKills \/ ExitProcess
    <3>1. ~running'[Object(l)]
      BY <2>1, LoopFacts DEF SignalKills, ExitProcess, Die
    <3> QED BY <3>1 DEF Calls
  <2>2. CASE \/ \E w \in Workers : RunCommand(w) \/ StartWorker(w) \/ StopWorker(w) \/ LoopEnds(w)
             \/ CloseWindow
    <3>1. UNCHANGED <<sock, running, lpc, arg, held>>
      BY <2>2 DEF RunCommand, StartWorker, StopWorker, LoopEnds, CloseWindow, loopVars
    <3>2. Ordered(todo')
      BY <2>2, OrderOrdered DEF CallInv, StopInv
    <3> QED BY <3>1, <3>2, OrderedCalls
  <2> QED BY <2>1, <2>2, StartTcpCalls, StartUdpCalls, StartTcpFailsCalls, StatementCalls, OtherCalls
          DEF NextUdpStarts, Next, MainStep
<1> QED BY <1>1, <1>2 DEF CallInv

LEMMA InitCall == Init => CallInv
<1>1. Init => \A l \in Loops : ~running[Object(l)]
  BY LoopFacts DEF Init
<1> QED BY <1>1, InitStop, InitOwn DEF CallInv, Calls

(* As long as UdpDiscovery::start does not fail, a thread of a running      *)
(* object calls on its own socket: stop() clears running_ first, then       *)
(* closes.                                                                 *)
THEOREM OwnCalls == Init /\ [][NextUdpStarts]_vars => []CallsAreOwn
<1>1. CallInv => CallsAreOwn
  <2> SUFFICES ASSUME CallInv, NEW l \in Loops, running[Object(l)]
               PROVE  /\ lpc[l] = "call" => Target(l) = l
                      /\ lpc[l] = "in" => held[l] = l
    BY DEF CallsAreOwn
  <2>1. /\ sock[l] # INVALID_SOCK
        /\ lpc[l] = "call" => arg[l] = sock[l]
        /\ lpc[l] = "in" => held[l] = l
    BY DEF CallInv, Calls
  <2> QED BY <2>1, RunningOwns DEF Target
<1> QED BY <1>1, InitCall, CallStep, PTL
-----------------------------------------------------------------------------
(* What stop() leaves *)

(* Only the accept thread of a server can be in a call on its socket. *)
LEMMA ServerFacts ==
  ASSUME LeftInv, NEW w \in Workers
  PROVE  /\ \A l \in Loops : held[l] = Accept(w) => l = Accept(w)
         /\ Listening(w) <=> IsOpen(Accept(w)) \/ held[Accept(w)] = Accept(w)
<1>1. \A l \in Loops : held[l] \in {l} \cup Spare
  BY DEF LeftInv, Left, Touches
<1>2. \A l \in Loops : held[l] = Accept(w) => l = Accept(w)
  BY <1>1, SpareFacts
<1> QED BY <1>2, FileFacts DEF Listening, Alive

(* A server stays while neither its number nor the call on it goes. *)
LEMMA KeepsListening ==
  ASSUME LeftInv, NEW v \in Workers, Listening(v),
         \A n \in NUMBERS : fd[n] = Accept(v) => fd'[n] = Accept(v),
         held[Accept(v)] = Accept(v) => held'[Accept(v)] = Accept(v)
  PROVE  Listening(v)'
<1>1. IsOpen(Accept(v)) \/ held[Accept(v)] = Accept(v)
  BY ServerFacts
<1> QED BY <1>1, FileFacts DEF Listening, Alive, IsOpen

LEMMA KeepsWaiting ==
  ASSUME LeftInv, NEW x \in Users,
         con'[x] = "backlog" => con[x] = "backlog" /\ srv'[x] = srv[x],
         \A v \in Workers : Listening(v) => Listening(v)'
  PROVE  Waits(x)'
BY DEF LeftInv, Left, Waits

(* The kernel drops who waits at a socket that went. *)
LEMMA DroppedWaiting ==
  ASSUME LeftInv, NEW x \in Users,
         con'[x] = "backlog" => con[x] = "backlog" /\ srv'[x] = srv[x] /\ ~Unserved(x)
  PROVE  Waits(x)'
<1> SUFFICES ASSUME con'[x] = "backlog"
             PROVE  srv'[x] \in Workers /\ Listening(srv[x])'
  BY DEF Waits
<1>1. con[x] = "backlog" /\ srv'[x] = srv[x] /\ ~Unserved(x)
  OBVIOUS
<1>2. srv[x] \in Workers
  BY <1>1 DEF LeftInv, Left, Waits
<1> QED BY <1>1, <1>2 DEF Unserved

(* Where a plan begins: what is opened is new, what is called on was open. *)
LEMMA PlannedLeft ==
  ASSUME LeftInv, Ordered(todo'), NEW l \in Loops, ~Has(todo, Last("join", l)),
         fd' \in [NUMBERS -> Files \cup {Free}],
         \A n \in NUMBERS : fd[n] # Free => fd'[n] = fd[n],
         \A n \in NUMBERS : fd'[n] = l => fd[n] = l \/ sock'[l] = n,
         sock[l] # INVALID_SOCK => sock'[l] = sock[l],
         lpc'[l] = "call" => (lpc[l] = "call" /\ arg'[l] = arg[l]) \/ fd'[arg'[l]] = l,
         held'[l] = held[l]
  PROVE  Closes(l)' /\ Touches(l)'
<1>1. /\ \A n \in NUMBERS : fd[n] = l => sock[l] = n
      /\ lpc[l] = "call" /\ arg[l] # INVALID_SOCK => fd[arg[l]] = l
      /\ held[l] \in {l} \cup Spare
      /\ arg[l] # INVALID_SOCK => arg[l] \in NUMBERS
  BY NumberFacts DEF LeftInv, Left, CallInv, StopInv, TypeOK, Closes, Touches
<1>2. \A n \in NUMBERS : fd'[n] = l => sock'[l] = n
  BY <1>1, NumberFacts
<1>3. Closes(l)'
  BY <1>2 DEF Closes, Ordered, Last
<1>4. Touches(l)'
  BY <1>1, FileFacts DEF Touches
<1> QED BY <1>3, <1>4

(* Statements other than close() *)
LEMMA TailLeft ==
  ASSUME LeftInv, NEW op, NEW x, Then(op, x), op # "close", NEW l \in Loops,
         UNCHANGED <<fd, held, arg>>,
         sock'[l] = sock[l] \/ <<op, x>> = Last("reset", l),
         lpc'[l] = "call" => lpc[l] = "call" /\ <<op, x>> # Last("join", l)
  PROVE  Closes(l)' /\ Touches(l)'
<1>1. todo \in Seq(Statement) /\ todo # <<>> /\ Head(todo) = <<op, x>> /\ todo' = Tail(todo)
  BY DEF LeftInv, CallInv, StopInv, PlanInv, Planned, Then, At
<1>2. /\ \A n \in NUMBERS : fd[n] = l => sock[l] = n
      /\ IsOpen(l) => Before(todo, <<"close", l>>, Last("reset", l))
      /\ Followed(todo, <<"close", l>>, Last("join", l))
      /\ lpc[l] = "call" /\ arg[l] # INVALID_SOCK =>
           fd[arg[l]] = l \/ (fd[arg[l]] \in Spare /\ Has(todo, Last("join", l)))
      /\ held[l] \in {l} \cup Spare
  BY DEF LeftInv, Left, Closes, Touches
<1>3. <<op, x>> # <<"close", l>>
  OBVIOUS
<1>4. Followed(todo', <<"close", l>>, Last("join", l))
  BY <1>1, <1>2, TailOrder
<1>5. ASSUME IsOpen(l)
      PROVE  <<op, x>> # Last("reset", l) /\ Before(todo', <<"close", l>>, Last("reset", l))
  <2>1. Before(todo, <<"close", l>>, Last("reset", l))
    BY <1>2, <1>5
  <2>2. Head(todo) # <<"close", l>>
    BY <1>1, <1>3
  <2>3. /\ Before(Tail(todo), <<"close", l>>, Last("reset", l))
        /\ Head(todo) # Last("reset", l)
    BY <1>1, <2>1, <2>2, TailOrder
  <2> QED BY <1>1, <2>3
<1>6. \A n \in NUMBERS : fd'[n] = l => sock'[l] = n
  BY <1>2, <1>5 DEF IsOpen
<1>7. Closes(l)'
  <2>1. IsOpen(l)' => Before(todo', <<"close", l>>, Last("reset", l))
    BY <1>5 DEF IsOpen
  <2> QED BY <2>1, <1>4, <1>6 DEF Closes, Last
<1>8. <<op, x>> # Last("join", l) /\ Has(todo, Last("join", l)) => Has(todo', Last("join", l))
  BY <1>1, TailOrder
<1>9. Touches(l)'
  BY <1>2, <1>8 DEF Touches, Last
<1> QED BY <1>7, <1>9

(* close(): who is in its call is joined before anything is opened. *)
LEMMA CloseLeft ==
  ASSUME LeftInv, NEW s \in Loops, CloseSocket(s), NEW l \in Loops
  PROVE  Closes(l)' /\ Touches(l)'
<1>1. /\ todo \in Seq(Statement) /\ todo # <<>> /\ Head(todo) = <<"close", s>> /\ todo' = Tail(todo)
      /\ CloseNumber(sock[s]) /\ ~At("reset", s) /\ UNCHANGED <<sock, lpc, arg>>
  BY DEF LeftInv, CallInv, StopInv, PlanInv, Planned, CloseSocket, Then, At
<1>2. /\ \A n \in NUMBERS : fd[n] = l => sock[l] = n
      /\ IsOpen(l) => Before(todo, <<"close", l>>, Last("reset", l))
      /\ Followed(todo, <<"close", l>>, Last("join", l))
      /\ lpc[l] = "call" /\ arg[l] # INVALID_SOCK =>
           fd[arg[l]] = l \/ (fd[arg[l]] \in Spare /\ Has(todo, Last("join", l)))
      /\ held[l] \in {l} \cup Spare
      /\ arg[l] # INVALID_SOCK => arg[l] \in NUMBERS
  BY NumberFacts DEF LeftInv, Left, CallInv, StopInv, TypeOK, Closes, Touches
<1>3. /\ \A n \in NUMBERS : fd'[n] = IF n = sock[s] THEN Free ELSE fd[n]
      /\ held'[l] \in {held[l], Free}
  BY <1>1 DEF CloseNumber
<1>4. sock[s] \in NUMBERS => fd[sock[s]] = s
  BY <1>1, NumberFacts DEF LeftInv, CallInv, OwnInv, Own, Owns
<1>5. \A n \in NUMBERS : fd'[n] = l => fd[n] = l /\ l # s
  <2> SUFFICES ASSUME NEW n \in NUMBERS, fd'[n] = l
               PROVE  fd[n] = l /\ l # s
    OBVIOUS
  <2>1. n # sock[s] /\ fd[n] = l
    BY <1>3, FileFacts
  <2> QED BY <2>1, <1>2
<1>6. Closes(l)'
  <2>1. Followed(todo', <<"close", l>>, Last("join", l))
    BY <1>1, <1>2, TailOrder
  <2>2. ASSUME IsOpen(l)'
        PROVE  Before(todo', <<"close", l>>, Last("reset", l))
    <3>1. IsOpen(l) /\ l # s
      BY <2>2, <1>5 DEF IsOpen
    <3>2. Head(todo) # <<"close", l>>
      BY <3>1, <1>1
    <3> QED BY <3>1, <3>2, <1>1, <1>2, TailOrder
  <2>3. \A n \in NUMBERS : fd'[n] = l => sock'[l] = n
    BY <1>1, <1>2, <1>5
  <2> QED BY <2>1, <2>2, <2>3 DEF Closes, Last
<1>7. Touches(l)'
  <2>1. held'[l] \in {l} \cup Spare
    BY <1>2, <1>3, SpareFacts
  <2>2. ASSUME lpc[l] = "call", arg[l] # INVALID_SOCK
        PROVE  fd'[arg[l]] = l \/ (fd'[arg[l]] \in Spare /\ Has(todo', Last("join", l)))
    <3>1. CASE fd[arg[l]] = l /\ arg[l] # sock[s]
      BY <3>1, <1>2, <1>3, <2>2
    <3>2. CASE fd[arg[l]] = l /\ arg[l] = sock[s]
      <4>1. l = s
        BY <3>2, <1>2, <1>4, <2>2
      <4>2. Has(todo', Last("join", l))
        BY <4>1, <1>1, <1>2, TailOrder
      <4> QED BY <3>2, <4>2, <1>2, <1>3, <2>2, SpareFacts
    <3>3. CASE fd[arg[l]] \in Spare /\ Has(todo, Last("join", l))
      <4>1. Head(todo) # Last("join", l)
        BY <1>1 DEF Last
      <4>2. Has(todo', Last("join", l))
        BY <4>1, <3>3, <1>1, TailOrder
      <4> QED BY <3>3, <4>2, <1>2, <1>3, <2>2, SpareFacts
    <3> QED BY <3>1, <3>2, <3>3, <1>2, <2>2
  <2> QED BY <2>1, <2>2, <1>1 DEF Touches, Last
<1> QED BY <1>6, <1>7

(* Threads, handlers and senders *)
LEMMA OthersLeft ==
  ASSUME LeftInv, UNCHANGED <<todo, sock>>, NEW l \in Loops,
         \A n \in NUMBERS : fd'[n] = fd[n] \/ (fd[n] \in Spare /\ fd'[n] \in Spare),
         \/ UNCHANGED <<lpc[l], arg[l]>> /\ held'[l] \in {held[l], Free}
         \/ Again(l)
         \/ Call(l)
  PROVE  Closes(l)' /\ Touches(l)'
<1>1. /\ \A n \in NUMBERS : fd[n] = l => sock[l] = n
      /\ IsOpen(l) => Before(todo, <<"close", l>>, Last("reset", l))
      /\ Followed(todo, <<"close", l>>, Last("join", l))
      /\ lpc[l] = "call" /\ arg[l] # INVALID_SOCK =>
           fd[arg[l]] = l \/ (fd[arg[l]] \in Spare /\ Has(todo, Last("join", l)))
      /\ held[l] \in {l} \cup Spare
      /\ arg[l] # INVALID_SOCK => arg[l] \in NUMBERS
  BY NumberFacts DEF LeftInv, Left, CallInv, StopInv, TypeOK, Closes, Touches
<1>2. l \notin Spare
  BY FileFacts DEF Spare
<1>3. \A n \in NUMBERS : /\ fd'[n] = l <=> fd[n] = l
                         /\ fd[n] \in Spare => fd'[n] \in Spare
  BY <1>2
<1>4. Closes(l)'
  <2>1. IsOpen(l)' => IsOpen(l)
    BY <1>3 DEF IsOpen
  <2> QED BY <2>1, <1>1, <1>3 DEF Closes, Last
<1>5. Touches(l)'
  <2>1. CASE UNCHANGED <<lpc[l], arg[l]>> /\ held'[l] \in {held[l], Free}
    BY <2>1, <1>1, <1>3, SpareFacts DEF Touches, Last
  <2>2. CASE Again(l)
    <3>1. /\ held'[l] = Free
          /\ lpc'[l] = "call" => running[Object(l)] /\ arg'[l] = sock[l]
      BY <2>2 DEF Again, LeftInv, CallInv, StopInv, TypeOK
    <3>2. lpc'[l] = "call" => sock[l] \in NUMBERS /\ fd[sock[l]] = l
      BY <3>1, RunningOwns DEF LeftInv
    <3> QED BY <3>1, <3>2, <1>3, SpareFacts DEF Touches
  <2>3. CASE Call(l)
    <3>1. lpc[l] = "call" /\ Blocks(l) /\ lpc'[l] = "in" /\ held'[l] = Target(l)
      BY <2>3 DEF Call, LeftInv, CallInv, StopInv, TypeOK
    <3>2. arg[l] # INVALID_SOCK /\ Target(l) = fd[arg[l]]
      BY <3>1 DEF Blocks, Target
    <3>3. held'[l] \in {l} \cup Spare
      BY <3>1, <3>2, <1>1
    <3> QED BY <3>1, <3>3 DEF Touches
  <2> QED BY <2>1, <2>2, <2>3
<1> QED BY <1>4, <1>5

(* A table that only grows, and the same calls *)
LEMMA SameWaiting ==
  ASSUME LeftInv, \A n \in NUMBERS : fd[n] # Free => fd'[n] = fd[n],
         UNCHANGED <<held, con, srv>>, NEW x \in Users
  PROVE  Waits(x)'
<1>1. \A v \in Workers : Accept(v) # Free
  BY SpareFacts
<1>2. \A v \in Workers : Listening(v) => Listening(v)'
  BY <1>1, KeepsListening
<1> QED BY <1>2, KeepsWaiting

LEMMA EndLeft == Die => Left'
<1> SUFFICES ASSUME Die
             PROVE  Left'
  OBVIOUS
<1>1. /\ todo' = <<>> /\ \A n \in NUMBERS : fd'[n] = Free
      /\ \A l \in Loops : lpc'[l] = "none" /\ held'[l] = Free
      /\ \A x \in Users : con'[x] = "none"
  BY DEF Die
<1>2. ASSUME NEW l \in Loops
      PROVE  Closes(l)'
  <2>1. Followed(todo', <<"close", l>>, Last("join", l)) /\ ~IsOpen(l)'
    BY <1>1, EmptyOrder, FileFacts DEF IsOpen
  <2> QED BY <1>1, <2>1, FileFacts DEF Closes, Last
<1>3. \A l \in Loops : Touches(l)'
  BY <1>1, SpareFacts DEF Touches
<1>4. \A x \in Users : Waits(x)'
  BY <1>1 DEF Waits
<1> QED BY <1>2, <1>3, <1>4 DEF Left

LEMMA OrderLeft ==
  ASSUME LeftInv,
         \/ \E w \in Workers : RunCommand(w) \/ StartWorker(w) \/ StopWorker(w) \/ LoopEnds(w)
         \/ CloseWindow
  PROVE  Left'
<1>1. todo = <<>> /\ UNCHANGED <<fd, sock, lpc, arg, held, con, srv>>
  BY DEF RunCommand, StartWorker, StopWorker, LoopEnds, CloseWindow, loopVars, conVars,
         LeftInv, CallInv, OwnInv
<1>2. Ordered(todo')
  BY OrderOrdered DEF LeftInv, CallInv, StopInv
<1>3. ASSUME NEW l \in Loops
      PROVE  Closes(l)' /\ Touches(l)'
  <2>1. ~Has(todo, Last("join", l))
    BY <1>1, EmptyOrder
  <2>2. fd' \in [NUMBERS -> Files \cup {Free}]
    BY <1>1 DEF LeftInv, CallInv, StopInv, TypeOK
  <2> QED BY <1>1, <1>2, <2>1, <2>2, PlannedLeft
<1>4. \A x \in Users : Waits(x)'
  BY <1>1, SameWaiting
<1> QED BY <1>3, <1>4 DEF Left

LEMMA StartTcpLeft ==
  ASSUME LeftInv, NEW w \in Workers, StartTcp(w)
  PROVE  Left'
<1> DEFINE a == Accept(w)
           m == Lowest(fd)
<1>1. /\ At("start", Tcp(w)) /\ todo' = Tail(todo) /\ ~Full(fd) /\ fd' = Opened(a)
      /\ sock' = [sock EXCEPT ![a] = m]
      /\ lpc' = [k \in Loops |-> IF k \in {a} THEN "call" ELSE lpc[k]]
      /\ arg' = [k \in Loops |-> IF k \in {a} THEN sock'[k] ELSE arg[k]]
      /\ UNCHANGED <<held, con, srv>>
  BY DEF StartTcp, Then, Spawn, conVars
<1>2. Ordered(todo') /\ \A l \in Loops : ~Has(todo, Last("join", l))
  BY <1>1, AtStart, ObjectFacts DEF LeftInv, CallInv, StopInv
<1>3. a \in Loops /\ a \in Files /\ Object(a) = Tcp(w) /\ Tcp(w) \in Objects
  BY FileFacts, ObjectFacts
<1>4. sock[a] = INVALID_SOCK
  BY <1>1, <1>3, NotStarted DEF LeftInv, CallInv, StopInv
<1> HIDE DEF a
<1>5. /\ fd' \in [NUMBERS -> Files \cup {Free}] /\ m \in NUMBERS /\ fd'[m] = a
      /\ \A n \in NUMBERS : fd[n] # Free => fd'[n] = fd[n]
      /\ \A n \in NUMBERS : n # m => fd'[n] = fd[n]
  BY <1>1, <1>3, OpenedFacts, OpenedElsewhere DEF LeftInv, CallInv, OwnInv, Table
<1> HIDE DEF m
<1>6. ASSUME NEW l \in Loops
      PROVE  Closes(l)' /\ Touches(l)'
  <2>1. CASE l = a
    <3>1. sock'[l] = m /\ arg'[l] = m /\ held'[l] = held[l]
      BY <2>1, <1>1, <1>3 DEF LeftInv, CallInv, StopInv, TypeOK
    <3> QED BY <2>1, <3>1, <1>2, <1>4, <1>5, PlannedLeft
  <2>2. CASE l # a
    <3>1. UNCHANGED <<sock[l], lpc[l], arg[l], held[l]>>
      BY <2>2, <1>1 DEF LeftInv, CallInv, StopInv, TypeOK
    <3>2. \A n \in NUMBERS : fd'[n] = l => fd[n] = l
      BY <2>2, <1>5
    <3> QED BY <3>1, <3>2, <1>2, <1>5, PlannedLeft
  <2> QED BY <2>1, <2>2
<1>7. \A x \in Users : Waits(x)'
  BY <1>1, <1>5, SameWaiting
<1> QED BY <1>6, <1>7 DEF Left

LEMMA StartUdpLeft ==
  ASSUME LeftInv, NEW w \in Workers, StartUdp(w)
  PROVE  Left'
<1> DEFINE a == Broadcast(w)
           b == Listen(w)
           t == Opened(a)
           m == Lowest(fd)
           n == Lowest(t)
<1>1. /\ At("start", Udp(w)) /\ todo' = Tail(todo) /\ ~Full(fd) /\ ~Full(t)
      /\ fd' = [t EXCEPT ![n] = b]
      /\ sock' = [sock EXCEPT ![a] = m, ![b] = n]
      /\ lpc' = [k \in Loops |-> IF k \in {a, b} THEN "call" ELSE lpc[k]]
      /\ arg' = [k \in Loops |-> IF k \in {a, b} THEN sock'[k] ELSE arg[k]]
      /\ UNCHANGED <<held, con, srv>>
  BY DEF StartUdp, WithBroadcast, UdpNumbers, Then, Spawn, conVars
<1>2. Ordered(todo') /\ \A l \in Loops : ~Has(todo, Last("join", l))
  BY <1>1, AtStart, ObjectFacts DEF LeftInv, CallInv, StopInv
<1>3. /\ a \in Loops /\ b \in Loops /\ a # b /\ a \in Files /\ b \in Files
      /\ Object(a) = Udp(w) /\ Object(b) = Udp(w) /\ Udp(w) \in Objects
  BY FileFacts, ObjectFacts
<1>4. sock[a] = INVALID_SOCK /\ sock[b] = INVALID_SOCK
  BY <1>1, <1>3, NotStarted DEF LeftInv, CallInv, StopInv
<1>5. a # Free /\ b # Free
  BY <1>3, FileFacts
<1> HIDE DEF a, b
<1>6. /\ t \in [NUMBERS -> Files \cup {Free}] /\ m \in NUMBERS /\ t[m] = a
      /\ \A k \in NUMBERS : fd[k] # Free => t[k] = fd[k]
      /\ \A k \in NUMBERS : k # m => t[k] = fd[k]
  BY <1>1, <1>3, OpenedFacts DEF LeftInv, CallInv, OwnInv, Table, Opened
<1> HIDE DEF t
<1>7. n \in NUMBERS /\ t[n] = Free
  BY <1>1, LowestFacts
<1> HIDE DEF m, n
<1>8. /\ fd' \in [NUMBERS -> Files \cup {Free}] /\ m # n /\ fd'[m] = a /\ fd'[n] = b
      /\ \A k \in NUMBERS : fd[k] # Free => fd'[k] = fd[k]
      /\ \A k \in NUMBERS : k # m /\ k # n => fd'[k] = fd[k]
  BY <1>1, <1>3, <1>5, <1>6, <1>7
<1>9. ASSUME NEW l \in Loops
      PROVE  Closes(l)' /\ Touches(l)'
  <2>1. CASE l = a
    <3>1. sock'[l] = m /\ arg'[l] = m /\ held'[l] = held[l]
      BY <2>1, <1>1, <1>3 DEF LeftInv, CallInv, StopInv, TypeOK
    <3>2. \A k \in NUMBERS : fd'[k] = l => fd[k] = l \/ sock'[l] = k
      BY <2>1, <3>1, <1>3, <1>8
    <3> QED BY <2>1, <3>1, <3>2, <1>2, <1>4, <1>8, PlannedLeft
  <2>2. CASE l = b
    <3>1. sock'[l] = n /\ arg'[l] = n /\ held'[l] = held[l]
      BY <2>2, <1>1, <1>3 DEF LeftInv, CallInv, StopInv, TypeOK
    <3>2. \A k \in NUMBERS : fd'[k] = l => fd[k] = l \/ sock'[l] = k
      BY <2>2, <3>1, <1>3, <1>8
    <3> QED BY <2>2, <3>1, <3>2, <1>2, <1>4, <1>8, PlannedLeft
  <2>3. CASE l \notin {a, b}
    <3>1. UNCHANGED <<sock[l], lpc[l], arg[l], held[l]>>
      BY <2>3, <1>1 DEF LeftInv, CallInv, StopInv, TypeOK
    <3>2. \A k \in NUMBERS : fd'[k] = l => fd[k] = l
      BY <2>3, <1>8
    <3> QED BY <3>1, <3>2, <1>2, <1>8, PlannedLeft
  <2> QED BY <2>1, <2>2, <2>3
<1>10. \A x \in Users : Waits(x)'
  BY <1>1, <1>8, SameWaiting
<1> QED BY <1>9, <1>10 DEF Left

LEMMA StartTcpFailsLeft ==
  ASSUME LeftInv, NEW w \in Workers, StartTcpFails(w)
  PROVE  Left'
<1>1. /\ At("start", Tcp(w)) /\ todo' = Failed(Tcp(w))
      /\ UNCHANGED <<fd, lpc, arg, held, con, srv>>
      /\ sock' = [sock EXCEPT ![Accept(w)] = INVALID_SOCK]
  BY DEF StartTcpFails, loopVars, conVars
<1>2. Ordered(todo') /\ \A l \in Loops : ~Has(todo, Last("join", l))
  BY <1>1, FailedOrdered, AtStart, ObjectFacts DEF LeftInv, CallInv, StopInv
<1>3. sock[Accept(w)] = INVALID_SOCK
  BY <1>1, FileFacts, ObjectFacts, NotStarted DEF LeftInv, CallInv, StopInv
<1>4. sock' = sock
  BY <1>1, <1>3 DEF LeftInv, CallInv, StopInv, TypeOK
<1>5. fd' \in [NUMBERS -> Files \cup {Free}]
  BY <1>1 DEF LeftInv, CallInv, StopInv, TypeOK
<1>6. \A l \in Loops : Closes(l)' /\ Touches(l)'
  BY <1>1, <1>2, <1>4, <1>5, PlannedLeft
<1>7. \A x \in Users : Waits(x)'
  BY <1>1, SameWaiting
<1> QED BY <1>6, <1>7 DEF Left

(* A worker is destroyed when nobody can wait at its server any more. *)
LEMMA FreeLeft ==
  ASSUME LeftInv, NEW w \in Workers, FreeWorker(w)
  PROVE  Left'
<1> DEFINE a == Accept(w)
<1>1. /\ Then("free", w) /\ UNCHANGED <<fd, sock, lpc, arg, held, con>>
      /\ srv' = [x \in Users |-> IF srv[x] = w THEN Gone ELSE srv[x]]
  BY DEF FreeWorker, loopVars
<1>2. ASSUME NEW l \in Loops
      PROVE  Closes(l)' /\ Touches(l)'
  <2>1. <<"free", w>> # Last("join", l)
    BY DEF Last
  <2> QED BY <1>1, <2>1, TailLeft
<1>3. a \in Loops /\ FreeOf(a) = <<"free", w>> /\ a # Free
  BY FileFacts DEF FreeOf, Accept
<1>4. \A op \in Ends : ~InUse(op, a)
  <2>1. todo \in Seq(Statement) /\ todo # <<>> /\ Head(todo) = FreeOf(a)
    BY <1>1, <1>3 DEF LeftInv, CallInv, StopInv, PlanInv, Planned, Then, At
  <2>2. \A op \in Ends : ~Before(todo, Last(op, a), FreeOf(a))
    BY <2>1, TailOrder
  <2> QED BY <2>2, <1>3 DEF LeftInv, CallInv, StopInv, PlanInv, Attached
<1>5. ~Listening(w)
  <2>1. sock[a] = INVALID_SOCK /\ lpc[a] = "none"
    BY <1>4 DEF InUse, Ends
  <2>2. ~IsOpen(a)
    BY <2>1, <1>3, NumberFacts DEF IsOpen, LeftInv, Left, Closes
  <2>3. held[a] # a
    BY <2>1, <1>3 DEF LeftInv, CallInv, StopInv, TypeOK
  <2> QED BY <2>2, <2>3, ServerFacts
<1>6. ASSUME NEW x \in Users
      PROVE  Waits(x)'
  <2>1. con'[x] = "backlog" => con[x] = "backlog" /\ srv'[x] = srv[x]
    BY <1>1, <1>5 DEF LeftInv, Left, Waits
  <2>2. \A v \in Workers : Listening(v) => Listening(v)'
    BY <1>1, KeepsListening
  <2> QED BY <2>1, <2>2, KeepsWaiting
<1> QED BY <1>2, <1>6 DEF Left

(* The statements of stop() *)
LEMMA StatementsLeft ==
  ASSUME LeftInv,
         \/ \E w \in Workers : InstallSignalHandler(w)
         \/ \E o \in Objects : ClearRunning(o)
         \/ \E l \in Loops : CloseSocket(l) \/ ResetSocket(l) \/ Join(l)
  PROVE  Left'
<1>1. ASSUME NEW w \in Workers, InstallSignalHandler(w)
      PROVE  Left'
  <2>1. Then("install", w) /\ UNCHANGED <<fd, sock, lpc, arg, held, con, srv>>
    BY <1>1 DEF InstallSignalHandler, loopVars, conVars
  <2>2. \A l \in Loops : <<"install", w>> # Last("join", l)
    BY DEF Last
  <2>3. \A l \in Loops : Closes(l)' /\ Touches(l)'
    BY <2>1, <2>2, TailLeft
  <2>4. \A x \in Users : Waits(x)'
    BY <2>1, SameWaiting
  <2> QED BY <2>3, <2>4 DEF Left
<1>2. ASSUME NEW o \in Objects, ClearRunning(o)
      PROVE  Left'
  <2>1. Then("clear", o) /\ UNCHANGED <<fd, sock, lpc, arg, held, con, srv>>
    BY <1>2 DEF ClearRunning, loopVars, conVars
  <2>2. \A l \in Loops : <<"clear", o>> # Last("join", l)
    BY DEF Last
  <2>3. \A l \in Loops : Closes(l)' /\ Touches(l)'
    BY <2>1, <2>2, TailLeft
  <2>4. \A x \in Users : Waits(x)'
    BY <2>1, SameWaiting
  <2> QED BY <2>3, <2>4 DEF Left
<1>3. ASSUME NEW s \in Loops, CloseSocket(s)
      PROVE  Left'
  <2>1. \A l \in Loops : Closes(l)' /\ Touches(l)'
    BY <1>3, CloseLeft
  <2>2. DropUnserved /\ UNCHANGED srv
    BY <1>3 DEF CloseSocket
  <2>3. \A x \in Users : Waits(x)'
    BY <2>2, DroppedWaiting DEF DropUnserved
  <2> QED BY <2>1, <2>3 DEF Left
<1>4. ASSUME NEW s \in Loops, ResetSocket(s)
      PROVE  Left'
  <2>1. /\ Then("reset", s) /\ UNCHANGED <<fd, lpc, arg, held, con, srv>>
        /\ sock' = [sock EXCEPT ![s] = INVALID_SOCK]
    BY <1>4 DEF ResetSocket, loopVars, conVars
  <2>2. \A l \in Loops : /\ sock'[l] = sock[l] \/ <<"reset", s>> = Last("reset", l)
                         /\ <<"reset", s>> # Last("join", l)
    BY <2>1 DEF Last, LeftInv, CallInv, StopInv, TypeOK
  <2>3. \A l \in Loops : Closes(l)' /\ Touches(l)'
    BY <2>1, <2>2, TailLeft
  <2>4. \A x \in Users : Waits(x)'
    BY <2>1, SameWaiting
  <2> QED BY <2>3, <2>4 DEF Left
<1>5. ASSUME NEW k \in Loops, Join(k)
      PROVE  Left'
  <2>1. /\ Then("join", k) /\ UNCHANGED <<fd, sock, arg, held, con, srv>>
        /\ lpc' = [lpc EXCEPT ![k] = "none"]
    BY <1>5 DEF Join, conVars
  <2>2. \A l \in Loops : lpc'[l] = "call" => lpc[l] = "call" /\ <<"join", k>> # Last("join", l)
    BY <2>1 DEF Last, LeftInv, CallInv, StopInv, TypeOK
  <2>3. \A l \in Loops : Closes(l)' /\ Touches(l)'
    BY <2>1, <2>2, TailLeft
  <2>4. \A x \in Users : Waits(x)'
    BY <2>1, SameWaiting
  <2> QED BY <2>3, <2>4 DEF Left
<1> QED BY <1>1, <1>2, <1>3, <1>4, <1>5

LEMMA ThreadsLeft ==
  ASSUME LeftInv, NEW k \in Loops, LoopStep(k) \/ Received(k)
  PROVE  Left'
<1>1. /\ UNCHANGED <<todo, fd, sock, srv>>
      /\ Again(k) \/ Call(k)
      /\ DropUnserved \/ (con' = con /\ (held[k] = Free \/ k[2] = "listen"))
  <2>1. lpc[k] = "call" => held[k] = Free
    BY DEF LeftInv, CallInv, StopInv, TypeOK
  <2> QED BY <2>1 DEF LoopStep, Call, CallReturns, AcceptFails, Woken, Received, mainVars, conVars
<1>2. \A l \in Loops : l # k => UNCHANGED <<lpc[l], arg[l], held[l]>>
  BY <1>1 DEF Again, Call, LeftInv, CallInv, StopInv, TypeOK
<1>3. \A l \in Loops : Closes(l)' /\ Touches(l)'
  BY <1>1, <1>2, OthersLeft
<1>4. CASE DropUnserved
  <2>1. \A x \in Users : Waits(x)'
    BY <1>1, <1>4, DroppedWaiting DEF DropUnserved
  <2> QED BY <1>3, <2>1 DEF Left
<1>5. CASE con' = con /\ (held[k] = Free \/ k[2] = "listen")
  <2>1. \A v \in Workers : held[Accept(v)] = Accept(v) => held'[Accept(v)] = Accept(v)
    <3> SUFFICES ASSUME NEW v \in Workers, held[Accept(v)] = Accept(v)
                 PROVE  held'[Accept(v)] = Accept(v)
      OBVIOUS
    <3>1. Accept(v) # Free /\ Accept(v)[2] = "accept" /\ Accept(v) \in Loops
      BY FileFacts, SpareFacts DEF Accept
    <3>2. Accept(v) # k
      BY <3>1, <1>5
    <3> QED BY <3>1, <3>2, <1>2
  <2>2. \A v \in Workers : Listening(v) => Listening(v)'
    BY <1>1, <2>1, KeepsListening
  <2>3. \A x \in Users : Waits(x)'
    BY <1>1, <1>5, <2>2, KeepsWaiting
  <2> QED BY <1>3, <2>3 DEF Left
<1> QED BY <1>1, <1>4, <1>5

(* Connections come, are taken and are closed. *)
LEMMA AcceptConnectionLeft ==
  ASSUME LeftInv, NEW c \in Conns, NEW w \in Workers, AcceptConnection(Accept(w), c)
  PROVE  Left'
<1> DEFINE k == Accept(w)
           f == <<c, "conn">>
<1>1. /\ UNCHANGED <<todo, sock>> /\ ~Full(fd) /\ fd' = Opened(f) /\ Again(k)
      /\ srv' = [srv EXCEPT ![c] = k[1]] /\ Becomes(c, "receive")
  BY DEF AcceptConnection, mainVars
<1>2. k \in Loops /\ c \in Users /\ f \in Spare
  BY FileFacts, SpareFacts DEF Users
<1> HIDE DEF k, f
<1>3. \A l \in Loops : l # k => UNCHANGED <<lpc[l], arg[l], held[l]>>
  BY <1>1 DEF Again, LeftInv, CallInv, StopInv, TypeOK
<1>4. \A n \in NUMBERS : fd'[n] = fd[n] \/ (fd[n] \in Spare /\ fd'[n] \in Spare)
  <2>1. Lowest(fd) \in NUMBERS /\ fd[Lowest(fd)] = Free
    BY <1>1, LowestFacts
  <2> QED BY <2>1, <1>1, <1>2, SpareFacts DEF Opened, LeftInv, CallInv, StopInv, TypeOK
<1>5. \A l \in Loops : Closes(l)' /\ Touches(l)'
  BY <1>1, <1>3, <1>4, OthersLeft
<1>6. ASSUME NEW x \in Users
      PROVE  Waits(x)'
  <2>1. con'[x] = "backlog" => x # c /\ con[x] = "backlog" /\ ~Unserved(x)
    BY <1>1 DEF Becomes
  <2>2. x # c => srv'[x] = srv[x]
    BY <1>1 DEF LeftInv, CallInv, StopInv, TypeOK
  <2> QED BY <2>1, <2>2, DroppedWaiting
<1> QED BY <1>5, <1>6 DEF Left

LEMMA CloseConnectionLeft ==
  ASSUME LeftInv, NEW u \in Users, CloseConnection(u)
  PROVE  Left'
<1>1. /\ Active(u) /\ CloseNumber(cfd[u]) /\ UNCHANGED <<todo, sock, lpc, arg>>
      /\ srv' = [srv EXCEPT ![u] = Gone] /\ Becomes(u, "none")
  BY DEF CloseConnection, mainVars
<1>2. fd[cfd[u]] \in Spare
  BY <1>1, SpareFacts DEF LeftInv, CallInv, OwnInv, Own, Keeps
<1>3. /\ \A n \in NUMBERS : fd'[n] = fd[n] \/ (fd[n] \in Spare /\ fd'[n] \in Spare)
      /\ \A l \in Loops : held'[l] \in {held[l], Free}
  BY <1>1, <1>2, SpareFacts DEF CloseNumber
<1>4. \A l \in Loops : Closes(l)' /\ Touches(l)'
  BY <1>1, <1>3, OthersLeft
<1>5. ASSUME NEW x \in Users
      PROVE  Waits(x)'
  <2>1. con'[x] = "backlog" => x # u /\ con[x] = "backlog" /\ ~Unserved(x)
    BY <1>1 DEF Becomes
  <2>2. x # u => srv'[x] = srv[x]
    BY <1>1 DEF LeftInv, CallInv, StopInv, TypeOK
  <2> QED BY <2>1, <2>2, DroppedWaiting
<1> QED BY <1>4, <1>5 DEF Left

LEMMA UsersLeft ==
  ASSUME LeftInv,
         \/ \E c \in Conns, w \in Workers : Connect(c, w)
         \/ \E x \in Users : ReceiveHeader(x)
         \/ \E x \in Senders : OpenSender(x)
         \/ OpenWindow \/ Signal \/ UNCHANGED vars
  PROVE  Left'
<1>1. UNCHANGED <<todo, sock, lpc, arg, held>>
  BY DEF Connect, ReceiveHeader, OpenSender, OpenWindow, Signal, vars, mainVars, loopVars
<1>2. /\ \A n \in NUMBERS : fd'[n] = fd[n] \/ (fd[n] \in Spare /\ fd'[n] \in Spare)
      /\ \A n \in NUMBERS : fd[n] # Free => fd'[n] = fd[n]
  <2>1. ASSUME NEW x \in Senders, OpenSender(x)
        PROVE  /\ \A n \in NUMBERS : fd'[n] = fd[n] \/ (fd[n] \in Spare /\ fd'[n] \in Spare)
               /\ \A n \in NUMBERS : fd[n] # Free => fd'[n] = fd[n]
    <3> DEFINE f == <<x, "conn">>
    <3>1. ~Full(fd) /\ fd' = Opened(f) /\ f \in Spare
      BY <2>1, SpareFacts DEF OpenSender, Users
    <3> HIDE DEF f
    <3>2. Lowest(fd) \in NUMBERS /\ fd[Lowest(fd)] = Free
      BY <3>1, LowestFacts
    <3> QED BY <3>1, <3>2, SpareFacts DEF Opened, LeftInv, CallInv, StopInv, TypeOK
  <2>2. CASE UNCHANGED fd
    BY <2>2
  <2> QED BY <2>1, <2>2 DEF Connect, ReceiveHeader, OpenWindow, Signal, vars
<1>3. \A l \in Loops : Closes(l)' /\ Touches(l)'
  BY <1>1, <1>2, OthersLeft
<1>4. \A v \in Workers : Listening(v) => Listening(v)'
  BY <1>1, <1>2, SpareFacts, KeepsListening
<1>5. ASSUME NEW x \in Users
      PROVE  Waits(x)'
  <2>1. CASE con'[x] = "backlog" => con[x] = "backlog" /\ srv'[x] = srv[x]
    BY <2>1, <1>4, KeepsWaiting
  <2>2. CASE con'[x] = "backlog" /\ ~(con[x] = "backlog" /\ srv'[x] = srv[x])
    <3>1. PICK c \in Conns, w \in Workers : Connect(c, w)
      BY <2>2 DEF ReceiveHeader, OpenSender, OpenWindow, Signal, vars, conVars,
                  LeftInv, CallInv, StopInv, TypeOK
    <3>2. x = c /\ srv'[x] = w /\ Listening(w)
      BY <2>2, <3>1 DEF Connect, LeftInv, CallInv, StopInv, TypeOK
    <3> QED BY <3>2, <1>4 DEF Waits
  <2> QED BY <2>1, <2>2
<1> QED BY <1>3, <1>5 DEF Left

LEMMA LeftStep ==
  ASSUME LeftInv, [NextUdpStarts]_vars
  PROVE  LeftInv'
<1>1. CallInv'
  BY CallStep DEF LeftInv
<1>2. Left'
  <2>1. CASE SignalKills \/ ExitProcess
    BY <2>1, EndLeft DEF SignalKills, ExitProcess
  <2> QED BY <2>1, OrderLeft, StartTcpLeft, StartUdpLeft, StartTcpFailsLeft, FreeLeft,
             StatementsLeft, ThreadsLeft, AcceptConnectionLeft, CloseConnectionLeft, UsersLeft
          DEF NextUdpStarts, Next, MainStep, HandlerStep
<1> QED BY <1>1, <1>2 DEF LeftInv

LEMMA InitLeft == Init => LeftInv
<1> SUFFICES ASSUME Init
             PROVE  LeftInv
  OBVIOUS
<1>1. /\ todo = <<>> /\ \A n \in NUMBERS : fd[n] = Free
      /\ \A l \in Loops : lpc[l] = "none" /\ held[l] = Free
      /\ \A x \in Users : con[x] = "none"
  BY DEF Init
<1>2. ASSUME NEW l \in Loops
      PROVE  Closes(l) /\ Touches(l)
  <2>1. Followed(todo, <<"close", l>>, Last("join", l)) /\ ~IsOpen(l)
    BY <1>1, EmptyOrder, FileFacts DEF IsOpen
  <2> QED BY <1>1, <2>1, FileFacts, SpareFacts DEF Closes, Touches
<1>3. \A x \in Users : Waits(x)
  BY <1>1 DEF Waits
<1> QED BY <1>2, <1>3, InitCall DEF LeftInv, Left

(* As long as UdpDiscovery::start does not fail, a worker that was stopped  *)
(* and destroyed leaves no thread, no open or blocked-on socket, and no     *)
(* connection that waits for an accept() that never comes.                 *)
THEOREM NothingStays == Init /\ [][NextUdpStarts]_vars => []NothingLeft
<1>1. LeftInv => NothingLeft
  <2> SUFFICES ASSUME LeftInv, todo = <<>>, NEW w \in Workers, wst[w] = "off"
               PROVE  /\ \A l \in Loops : /\ l[1] = w => lpc[l] = "none" /\ ~IsOpen(l)
                                          /\ held[l] # Free => held[l][1] # w
                      /\ \A x \in Users : con[x] = "backlog" => srv[x] \notin {w, Gone}
    BY DEF NothingLeft
  <2>1. ASSUME NEW l \in Loops, l[1] = w
        PROVE  lpc[l] = "none" /\ ~IsOpen(l)
    <3>1. \A op \in Ends : ~InUse(op, l)
      BY <2>1 DEF LeftInv, CallInv, StopInv, PlanInv, Attached
    <3>2. lpc[l] = "none" /\ sock[l] = INVALID_SOCK
      BY <3>1 DEF InUse, Ends
    <3> QED BY <3>2, NumberFacts DEF IsOpen, LeftInv, Left, Closes
  <2>2. ASSUME NEW l \in Loops, held[l] # Free
        PROVE  held[l][1] # w
    <3>1. CASE held[l] = l
      <4>1. lpc[l] = "in"
        BY <2>2 DEF LeftInv, CallInv, StopInv, TypeOK
      <4> QED BY <4>1, <3>1, <2>1
    <3>2. CASE held[l] \in Spare
      BY <2>2, <3>2, LifecycleAssumption DEF Spare
    <3> QED BY <3>1, <3>2 DEF LeftInv, Left, Touches
  <2>3. ASSUME NEW x \in Users, con[x] = "backlog"
        PROVE  srv[x] \notin {w, Gone}
    <3>1. srv[x] \in Workers /\ Listening(srv[x])
      BY <2>3 DEF LeftInv, Left, Waits
    <3>2. ~Listening(w)
      <4>1. /\ Accept(w) \in Loops /\ Accept(w)[1] = w /\ Accept(w) # Free
            /\ Accept(w)[2] = "accept"
        BY FileFacts, SpareFacts DEF Accept
      <4>2. lpc[Accept(w)] = "none" /\ ~IsOpen(Accept(w))
        BY <4>1, <2>1
      <4>3. held[Accept(w)] = Free
        BY <4>1, <4>2 DEF LeftInv, CallInv, StopInv, TypeOK
      <4> QED BY <4>1, <4>2, <4>3, ServerFacts
    <3> QED BY <3>1, <3>2, LifecycleAssumption
  <2> QED BY <2>1, <2>2, <2>3
<1> QED BY <1>1, InitLeft, LeftStep, PTL
=============================================================================
