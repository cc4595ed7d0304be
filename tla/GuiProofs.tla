----------------------------- MODULE GuiProofs -----------------------------
(***************************************************************************)
(* Gui, for every set of devices, every number of send threads and pieces: *)
(* the list shows the devices behind it and misses none, one send runs at  *)
(* a time, and the Send tab shows the end of the last one.                 *)
(***************************************************************************)
EXTENDS Gui, TLAPS, SequenceTheorems, FiniteSetTheorems

Kind(i) == events[i][1]
Of(i)   == events[i][2]
Queue   == 1..Len(events)

Percent(n) == (n * 100) \div PARTS

(* The list, the devices behind it, and what the scan has found. *)
ListInv == RowsAreDevices /\ NothingFoundIsLost

(* A thread is asked to quit once. *)
QuitOnce == \A i, j \in Queue : Kind(i) = "quit" /\ Kind(j) = "quit" /\ Of(i) = Of(j) => i = j

(* Between sends. *)
Calm == /\ \A t \in Threads : thread[t] # "sending"
        /\ \A i \in Queue : Kind(i) \notin {"progress", "finished"}
        /\ sendStatus # "sending"
        /\ sendStatus = "sent" => sendProgress = 100

(* While send_file runs, in one thread, and when its result is on its way, *)
(* behind all progress.                                                    *)
Runs(t) == /\ \A u \in Threads : thread[u] = "sending" <=> u = t
           /\ \A i \in Queue : /\ Kind(i) # "finished"
                               /\ Kind(i) = "progress" => Of(i) <= sent[t]
           /\ sendProgress <= Percent(sent[t])

Result(i) == /\ \A t \in Threads : thread[t] # "sending"
             /\ Kind(i) = "finished"
             /\ \A j \in Queue : /\ Kind(j) = "finished" => j = i
                                 /\ Kind(j) = "progress" => j < i

Busy == /\ sendStatus = "sending"
        /\ (\E t \in Threads : Runs(t)) \/ (\E i \in Queue : Result(i))

(* Progress is shown in the order in which it was made. *)
InSequence ==
  \A i \in Queue : Kind(i) = "progress" =>
    /\ sendProgress <= Percent(Of(i))
    /\ \A j \in Queue : Kind(j) = "progress" /\ i < j => Of(i) <= Of(j)

SendInv == QuitOnce /\ InSequence /\ (sendButton => Calm) /\ (~sendButton => Busy)

GInv == TypeOK /\ ListInv /\ SendInv
-----------------------------------------------------------------------------
(* Lemmas about the queue of events *)

LEMMA PercentFacts ==
  ASSUME NEW m \in 0..PARTS, NEW n \in 0..PARTS, m <= n
  PROVE  Percent(m) \in 0..100 /\ Percent(m) <= Percent(n)
<1>1. PARTS \in Nat /\ PARTS > 0
  BY GuiAssumption
<1>2. \A k \in 0..PARTS : /\ Percent(k) \in Int
                          /\ PARTS * Percent(k) <= k * 100
                          /\ k * 100 < PARTS * Percent(k) + PARTS
  BY <1>1, SMTT(30) DEF Percent
<1> DEFINE p == Percent(m)
           q == Percent(n)
<1>3. /\ p \in Int /\ PARTS * p <= m * 100 /\ m * 100 < PARTS * p + PARTS
      /\ q \in Int /\ n * 100 < PARTS * q + PARTS
  BY <1>2
<1> HIDE DEF p, q
<1>4. p >= 0
  <2> SUFFICES ASSUME p + 1 <= 0 PROVE FALSE
    BY <1>3
  <2>1. PARTS * (p + 1) <= 0
    BY <1>1, <1>3
  <2> QED BY <2>1, <1>1, <1>3
<1>5. p <= 100
  <2> SUFFICES ASSUME p >= 101 PROVE FALSE
    BY <1>3
  <2>1. PARTS * p >= PARTS * 101
    BY <1>1, <1>3
  <2> QED BY <2>1, <1>1, <1>3
<1>6. p <= q
  <2> SUFFICES ASSUME p >= q + 1 PROVE FALSE
    BY <1>3
  <2>1. PARTS * p >= PARTS * (q + 1)
    BY <1>1, <1>3
  <2> QED BY <2>1, <1>1, <1>3
<1> QED BY <1>3, <1>4, <1>5, <1>6 DEF p, q

LEMMA EventFacts ==
  ASSUME NEW e \in Event
  PROVE  /\ e = <<e[1], e[2]>>
         /\ e[1] \in {"deviceFound", "progress", "finished", "quit"}
         /\ e[1] = "deviceFound" => e[2] \in Devices \cup {Own}
         /\ e[1] = "progress" => e[2] \in 0..PARTS
         /\ e[1] = "finished" => e[2] \in BOOLEAN
         /\ e[1] = "quit" => e[2] \in Threads
BY DEF Event

LEMMA TypesOfEvents ==
  ASSUME events \in Seq(Event), NEW i \in Queue
  PROVE  /\ Kind(i) = "deviceFound" => Of(i) \in Devices \cup {Own}
         /\ Kind(i) = "progress" => Of(i) \in 0..PARTS
         /\ Kind(i) = "finished" => Of(i) \in BOOLEAN
         /\ Kind(i) = "quit" => Of(i) \in Threads
         /\ Kind(i) \in {"deviceFound", "progress", "finished", "quit"}
<1>1. events[i] \in Event
  BY ElementOfSeq DEF Queue
<1> QED BY <1>1, EventFacts DEF Kind, Of

LEMMA TakeFacts ==
  ASSUME events \in Seq(Event), NEW kind, Take(kind)
  PROVE  /\ Len(events) \in Nat \ {0} /\ 1 \in Queue
         /\ Kind(1) = kind /\ Of(1) = Argument
         /\ events' \in Seq(Event)
         /\ Len(events') = Len(events) - 1
         /\ \A i \in 1..Len(events') : events'[i] = events[i + 1]
<1>1. events # <<>> /\ events' = Tail(events) /\ Head(events)[1] = kind
  BY DEF Take
<1>2. Len(events) \in Nat \ {0}
  BY <1>1, EmptySeq
<1>3. Head(events) = events[1]
  BY <1>1
<1> QED BY <1>1, <1>2, <1>3, HeadTailProperties DEF Kind, Of, Argument, Queue

LEMMA PostOne ==
  ASSUME events \in Seq(Event), NEW e \in Event, Post(<<e>>)
  PROVE  /\ Len(events) \in Nat
         /\ events' \in Seq(Event)
         /\ Len(events') = Len(events) + 1
         /\ \A i \in 1..Len(events) : events'[i] = events[i]
         /\ events'[Len(events) + 1] = e
<1> DEFINE es == <<e>>
<1>1. es \in Seq(Event) /\ Len(es) = 1 /\ es[1] = e
  OBVIOUS
<1> HIDE DEF es
<1>2. Len(events) \in Nat /\ events' = events \o es
  BY LenProperties DEF Post, es
<1> QED BY <1>1, <1>2, ConcatProperties

LEMMA PostTwo ==
  ASSUME events \in Seq(Event), NEW e \in Event, NEW f \in Event, Post(<<e, f>>)
  PROVE  /\ Len(events) \in Nat
         /\ events' \in Seq(Event)
         /\ Len(events') = Len(events) + 2
         /\ \A i \in 1..Len(events) : events'[i] = events[i]
         /\ events'[Len(events) + 1] = e
         /\ events'[Len(events) + 2] = f
<1> DEFINE es == <<e, f>>
<1>1. es \in Seq(Event) /\ Len(es) = 2 /\ es[1] = e /\ es[2] = f
  OBVIOUS
<1> HIDE DEF es
<1>2. Len(events) \in Nat /\ events' = events \o es
  BY LenProperties DEF Post, es
<1>3. /\ events \o es \in Seq(Event) /\ Len(events \o es) = Len(events) + Len(es)
      /\ \A i \in 1..(Len(events) + Len(es)) :
           (events \o es)[i] = IF i <= Len(events) THEN events[i] ELSE es[i - Len(events)]
  BY <1>1, ConcatProperties
<1> QED BY <1>1, <1>2, <1>3
-----------------------------------------------------------------------------
(* The list of devices *)

LEMMA ListUnchanged ==
  ASSUME ListInv, UNCHANGED <<events, scanVars>>
  PROVE  ListInv'
BY DEF ListInv, RowsAreDevices, NothingFoundIsLost, scanVars

LEMMA ListPost ==
  ASSUME ListInv, UNCHANGED scanVars,
         Len(events) \in Nat, Len(events') \in Nat, Len(events) <= Len(events'),
         \A i \in 1..Len(events) : events'[i] = events[i]
  PROVE  ListInv'
<1>1. \A i \in 1..Len(events) : i \in 1..Len(events')
  OBVIOUS
<1>2. NothingFoundIsLost'
  BY <1>1 DEF ListInv, NothingFoundIsLost, scanVars
<1> QED BY <1>2 DEF ListInv, RowsAreDevices, scanVars

LEMMA ListTake ==
  ASSUME ListInv, events \in Seq(Event), UNCHANGED scanVars,
         NEW kind \in {"progress", "finished", "quit"}, Take(kind)
  PROVE  ListInv'
<1>1. \A d : \A i \in Queue : events[i] = <<"deviceFound", d>>
                                => \E j \in Queue' : events'[j] = <<"deviceFound", d>>
  <2> SUFFICES ASSUME NEW d, NEW i \in Queue, events[i] = <<"deviceFound", d>>
               PROVE  \E j \in Queue' : events'[j] = <<"deviceFound", d>>
    OBVIOUS
  <2>1. i # 1
    BY TakeFacts DEF Kind
  <2>2. /\ Len(events) \in Nat /\ Len(events') = Len(events) - 1
        /\ \A j \in 1..Len(events') : events'[j] = events[j + 1]
    BY TakeFacts
  <2>3. i - 1 \in 1..Len(events') /\ (i - 1) + 1 = i
    BY <2>1, <2>2 DEF Queue
  <2> QED BY <2>2, <2>3 DEF Queue
<1> QED BY <1>1 DEF ListInv, RowsAreDevices, NothingFoundIsLost, scanVars, Queue

LEMMA ListStep ==
  ASSUME TypeOK, ListInv, [Next]_vars
  PROVE  ListInv'
<1> USE DEF TypeOK
<1>1. CASE OpenWindow
  BY <1>1, ListUnchanged DEF OpenWindow
<1>2. CASE End
  BY <1>2 DEF End, ListInv, RowsAreDevices, NothingFoundIsLost
<1>3. CASE StartScan \/ StopScan \/ CloseWindow
  <2>1. UNCHANGED <<events, known, deviceList, devices_>>
    BY <1>3 DEF StartScan, StopScan, CloseWindow
  <2> QED BY ONLY <2>1, ListInv DEF ListInv, RowsAreDevices, NothingFoundIsLost
<1>4. CASE ScanStopped
  BY <1>4 DEF ScanStopped, ListInv, RowsAreDevices, NothingFoundIsLost
<1>5. CASE StartReceiving \/ StopReceiving \/ ReceivingStopped
  BY <1>5, ListUnchanged DEF StartReceiving, StopReceiving, ReceivingStopped
<1>6. ASSUME NEW d \in Devices \cup {Own}, Find(d)
      PROVE  ListInv'
  <2> DEFINE e == <<"deviceFound", d>>
  <2>1. e \in Event /\ Post(<<e>>)
    BY <1>6 DEF Find, Event
  <2>2. events' = events \o <<e>>
    BY <2>1 DEF Post
  <2> HIDE DEF e
  <2>3. /\ Len(events) \in Nat /\ Len(events') = Len(events) + 1
        /\ \A i \in 1..Len(events) : events'[i] = events[i]
        /\ events'[Len(events) + 1] = e
    BY <2>1, PostOne
  <2>4. UNCHANGED <<deviceList, devices_>> /\ known' = known \cup {d}
    BY <1>6 DEF Find
  <2>5. \A i \in 1..Len(events) : i \in 1..Len(events')
    BY <2>3
  <2>6. \E i \in 1..Len(events') : events'[i] = <<"deviceFound", d>>
    <3>1. Len(events) + 1 \in 1..Len(events')
      BY <2>3
    <3> QED BY <3>1, <2>3 DEF e
  <2>7. NothingFoundIsLost'
    <3> SUFFICES ASSUME NEW x \in known'
                 PROVE  \/ \E i \in 1..Len(deviceList) : deviceList[i] = x
                        \/ \E i \in 1..Len(events') : events'[i] = <<"deviceFound", x>>
      BY <2>4 DEF NothingFoundIsLost
    <3>1. CASE x = d
      BY <3>1, <2>6
    <3>2. CASE x \in known
      <4>1. \/ \E i \in 1..Len(deviceList) : deviceList[i] = x
            \/ \E i \in 1..Len(events) : events[i] = <<"deviceFound", x>>
        BY <3>2 DEF ListInv, NothingFoundIsLost
      <4>2. ASSUME NEW i \in 1..Len(events), events[i] = <<"deviceFound", x>>
            PROVE  \E j \in 1..Len(events') : events'[j] = <<"deviceFound", x>>
        BY <4>2, <2>3, <2>5
      <4> QED BY <4>1, <4>2
    <3> QED BY <3>1, <3>2, <2>4
  <2> QED BY <2>4, <2>7 DEF ListInv, RowsAreDevices
<1>7. ASSUME NEW row \in 1..Len(deviceList), PickDevice(row)
      PROVE  ListInv'
  BY <1>7, ListUnchanged DEF PickDevice
<1>8. ASSUME NEW file \in {Empty, "file"}, PickFile(file)
      PROVE  ListInv'
  BY <1>8, ListUnchanged DEF PickFile
<1>9. ASSUME NEW t \in Threads, on_send_clicked(t) \/ ThreadEnds(t)
      PROVE  ListInv'
  BY <1>9, ListUnchanged DEF on_send_clicked, ThreadEnds
<1>10. ASSUME NEW t \in Threads, SendPart(t)
       PROVE  ListInv'
  <2>1. sent[t] + 1 \in 0..PARTS
    BY <1>10, GuiAssumption DEF SendPart
  <2>2. <<"progress", sent[t] + 1>> \in Event /\ Post(<< <<"progress", sent[t] + 1>> >>)
    BY <2>1, <1>10 DEF SendPart, Event
  <2>3. /\ Len(events) \in Nat /\ Len(events') = Len(events) + 1
        /\ \A i \in 1..Len(events) : events'[i] = events[i]
    BY <2>2, PostOne
  <2>4. Len(events') \in Nat /\ Len(events) <= Len(events') /\ UNCHANGED scanVars
    BY <2>3, <1>10 DEF SendPart
  <2> QED BY <2>3, <2>4, ListPost
<1>11. ASSUME NEW t \in Threads, SendEnds(t)
       PROVE  ListInv'
  <2>1. PICK success \in BOOLEAN : Post(<< <<"finished", success>>, <<"quit", t>> >>)
    BY <1>11 DEF SendEnds
  <2>2. <<"finished", success>> \in Event /\ <<"quit", t>> \in Event
    BY DEF Event
  <2>3. /\ Len(events) \in Nat /\ Len(events') = Len(events) + 2
        /\ \A i \in 1..Len(events) : events'[i] = events[i]
    BY <2>1, <2>2, PostTwo
  <2>4. Len(events') \in Nat /\ Len(events) <= Len(events') /\ UNCHANGED scanVars
    BY <2>3, <1>11 DEF SendEnds
  <2> QED BY <2>3, <2>4, ListPost
<1>12. CASE on_device_found
  <2>1. Take("deviceFound") /\ UNCHANGED known
    BY <1>12 DEF on_device_found
  <2>2. Argument \in Devices \cup {Own} /\ events[1] = <<"deviceFound", Argument>>
    <3>1. 1 \in Queue /\ Kind(1) = "deviceFound" /\ Of(1) = Argument
      BY <2>1, TakeFacts
    <3>2. events[1] \in Event
      BY <3>1, ElementOfSeq DEF Queue
    <3> QED BY <3>1, <3>2, EventFacts DEF Kind, Of
  <2> DEFINE a == Argument
  <2>3. deviceList' = Append(deviceList, a) /\ devices_' = Append(devices_, a)
    BY <1>12 DEF on_device_found
  <2> HIDE DEF a
  <2>4. /\ Len(deviceList) \in Nat /\ Len(deviceList') = Len(deviceList) + 1
        /\ deviceList'[Len(deviceList) + 1] = a
        /\ \A i \in 1..Len(deviceList) : deviceList'[i] = deviceList[i]
    BY <2>2, <2>3, AppendProperties, LenProperties DEF a
  <2>5. ASSUME NEW x, NEW i \in Queue, events[i] = <<"deviceFound", x>>
        PROVE  \/ \E j \in 1..Len(deviceList') : deviceList'[j] = x
               \/ \E j \in 1..Len(events') : events'[j] = <<"deviceFound", x>>
    <3>1. CASE i = 1
      BY <3>1, <2>2, <2>4, <2>5 DEF a
    <3>2. CASE i # 1
      <4>1. i - 1 \in 1..Len(events') /\ events'[i - 1] = events[i]
        BY <3>2, <2>1, TakeFacts DEF Queue
      <4> QED BY <4>1, <2>5
    <3> QED BY <3>1, <3>2
  <2>6. ASSUME NEW x, NEW i \in 1..Len(deviceList), deviceList[i] = x
        PROVE  \E j \in 1..Len(deviceList') : deviceList'[j] = x
    BY <2>4, <2>6
  <2>7. NothingFoundIsLost'
    BY <2>1, <2>5, <2>6 DEF ListInv, NothingFoundIsLost, Queue
  <2> QED BY <2>1, <2>3, <2>7 DEF ListInv, RowsAreDevices
<1>13. CASE ShowProgress
  BY <1>13, ListTake DEF ShowProgress
<1>14. CASE ShowResult
  BY <1>14, ListTake DEF ShowResult
<1>15. CASE Quit
  BY <1>15, ListTake DEF Quit
<1>16. CASE UNCHANGED vars
  BY <1>16, ListUnchanged DEF vars
<1> QED BY <1>1, <1>2, <1>3, <1>4, <1>5, <1>6, <1>7, <1>8, <1>9, <1>10, <1>11, <1>12,
           <1>13, <1>14, <1>15, <1>16
        DEF Next, SendThread, HandleEvent, WindowClosed, SendThrows
-----------------------------------------------------------------------------
(* Sends and their events *)

LEMMA TakeShift ==
  ASSUME events \in Seq(Event), NEW kind, Take(kind)
  PROVE  /\ 1 \in Queue /\ Kind(1) = kind /\ Of(1) = Argument
         /\ \A i \in Queue' : /\ i \in Nat \ {0} /\ i + 1 \in Queue
                              /\ Kind(i)' = Kind(i + 1) /\ Of(i)' = Of(i + 1)
         /\ \A i \in Queue : i # 1 => /\ i \in Nat /\ i - 1 \in Queue' /\ (i - 1) + 1 = i
                                      /\ Kind(i - 1)' = Kind(i) /\ Of(i - 1)' = Of(i)
<1>1. /\ Len(events) \in Nat \ {0} /\ Len(events') = Len(events) - 1
      /\ 1 \in Queue /\ Kind(1) = kind /\ Of(1) = Argument
      /\ \A i \in 1..Len(events') : events'[i] = events[i + 1]
  BY TakeFacts
<1>2. ASSUME NEW i \in 1..Len(events')
      PROVE  i \in Nat \ {0} /\ i + 1 \in 1..Len(events)
  BY <1>1
<1>3. ASSUME NEW i \in 1..Len(events), i # 1
      PROVE  i \in Nat /\ i - 1 \in 1..Len(events') /\ (i - 1) + 1 = i
  BY <1>1, <1>3
<1> QED BY <1>1, <1>2, <1>3 DEF Queue, Kind, Of

(* Without the first event, every quit is still meant for a thread that     *)
(* ends.                                                                   *)
LEMMA TakeQuits ==
  ASSUME TypeOK, NEW kind, Take(kind), UNCHANGED thread
  PROVE  \A i \in 1..Len(events') : events'[i][1] = "quit" => thread'[events'[i][2]] = "ending"
<1>1. \A i \in Queue : Kind(i) = "quit" => thread[Of(i)] = "ending"
  BY DEF TypeOK, Queue, Kind, Of
<1>2. \A i \in Queue' : i + 1 \in Queue /\ Kind(i)' = Kind(i + 1) /\ Of(i)' = Of(i + 1)
  BY TakeShift DEF TypeOK
<1>3. \A i \in Queue' : Kind(i)' = "quit" => thread'[Of(i)'] = "ending"
  BY <1>1, <1>2
<1> QED BY <1>3 DEF Queue, Kind, Of

LEMMA PostShift ==
  ASSUME events \in Seq(Event), NEW e \in Event, Post(<<e>>)
  PROVE  LET last == Len(events) + 1
         IN  /\ Len(events) \in Nat /\ last \in Queue' /\ events'[last] = e
             /\ \A i \in Queue' : i \in Queue \/ i = last
             /\ \A i \in Queue : /\ i \in Nat /\ i \in Queue' /\ i < last
                                 /\ Kind(i)' = Kind(i) /\ Of(i)' = Of(i)
<1>1. /\ Len(events) \in Nat /\ Len(events') = Len(events) + 1
      /\ \A i \in 1..Len(events) : events'[i] = events[i]
      /\ events'[Len(events) + 1] = e
  BY PostOne
<1>2. /\ Len(events) + 1 \in 1..Len(events')
      /\ \A i \in 1..Len(events') : i \in 1..Len(events) \/ i = Len(events) + 1
  BY <1>1
<1>3. \A i \in 1..Len(events) : i \in Nat /\ i \in 1..Len(events') /\ i < Len(events) + 1
  BY <1>1
<1> QED BY <1>1, <1>2, <1>3 DEF Queue, Kind, Of

LEMMA SendUnchanged ==
  ASSUME SendInv, UNCHANGED <<events, sendVars>>
  PROVE  SendInv'
BY DEF SendInv, QuitOnce, InSequence, Calm, Busy, Runs, Result, Queue, Kind, Of, Percent, sendVars

LEMMA FindSend ==
  ASSUME TypeOK, SendInv, NEW d \in Devices \cup {Own}, Find(d)
  PROVE  SendInv'
<1> DEFINE e == <<"deviceFound", d>>
<1>1. e \in Event /\ e[1] = "deviceFound" /\ Post(<<e>>) /\ events \in Seq(Event)
  BY DEF Find, Event, TypeOK
<1>2. UNCHANGED <<sendButton, sendStatus, sendProgress, thread, sent>>
  BY DEF Find, sendVars
<1> HIDE DEF e
<1>3. PICK last \in Nat :
        /\ last \in Queue' /\ events'[last] = e
        /\ \A i \in Queue' : i \in Queue \/ i = last
        /\ \A i \in Queue : i \in Nat /\ i \in Queue' /\ Kind(i)' = Kind(i) /\ Of(i)' = Of(i)
  <2>1. Len(events) + 1 \in Nat
    BY <1>1, LenProperties
  <2> QED BY <2>1, <1>1, PostShift
<1>4. Kind(last)' = "deviceFound"
  BY <1>1, <1>3 DEF Kind
<1>5. QuitOnce'
  BY <1>3, <1>4 DEF SendInv, QuitOnce
<1>6. InSequence'
  BY <1>2, <1>3, <1>4 DEF SendInv, InSequence, Percent
<1>7. Calm => Calm'
  BY <1>2, <1>3, <1>4 DEF Calm
<1>8. ASSUME NEW t \in Threads, Runs(t)
      PROVE  Runs(t)'
  BY <1>2, <1>3, <1>4, <1>8 DEF Runs, Percent
<1>9. ASSUME NEW i \in Queue, Result(i)
      PROVE  Result(i)'
  BY <1>2, <1>3, <1>4, <1>9 DEF Result
<1>10. Busy => Busy'
  BY <1>2, <1>3, <1>8, <1>9 DEF Busy
<1> QED BY <1>2, <1>5, <1>6, <1>7, <1>10 DEF SendInv

LEMMA TakeSend ==
  ASSUME TypeOK, SendInv, NEW kind \in {"deviceFound", "quit"}, Take(kind),
         UNCHANGED <<sendButton, sendStatus, sendProgress, sent>>,
         \A t \in Threads : thread'[t] = "sending" <=> thread[t] = "sending"
  PROVE  SendInv'
<1>1. /\ 1 \in Queue /\ Kind(1) = kind
      /\ \A i \in Queue' : /\ i \in Nat \ {0} /\ i + 1 \in Queue
                           /\ Kind(i)' = Kind(i + 1) /\ Of(i)' = Of(i + 1)
      /\ \A i \in Queue : i # 1 => /\ i \in Nat /\ i - 1 \in Queue' /\ (i - 1) + 1 = i
                                   /\ Kind(i - 1)' = Kind(i)
  BY TakeShift DEF TypeOK
<1>2. QuitOnce'
  <2> SUFFICES ASSUME NEW i \in Queue', NEW j \in Queue',
                      Kind(i)' = "quit", Kind(j)' = "quit", Of(i)' = Of(j)'
               PROVE  i = j
    BY DEF QuitOnce
  <2>1. i + 1 = j + 1
    BY <1>1 DEF SendInv, QuitOnce
  <2> QED BY <2>1, <1>1
<1>3. InSequence'
  <2> SUFFICES ASSUME NEW i \in Queue', Kind(i)' = "progress"
               PROVE  /\ sendProgress' <= Percent(Of(i)')
                      /\ \A j \in Queue' : Kind(j)' = "progress" /\ i < j => Of(i)' <= Of(j)'
    BY DEF InSequence, Percent
  <2>1. i + 1 \in Queue /\ Kind(i + 1) = "progress" /\ Of(i)' = Of(i + 1)
    BY <1>1
  <2>2. sendProgress' <= Percent(Of(i)')
    BY <2>1 DEF SendInv, InSequence, Percent
  <2>3. ASSUME NEW j \in Queue', Kind(j)' = "progress", i < j
        PROVE  Of(i)' <= Of(j)'
    <3>1. j + 1 \in Queue /\ Kind(j + 1) = "progress" /\ Of(j)' = Of(j + 1) /\ i + 1 < j + 1
      BY <1>1, <2>3
    <3> QED BY <2>1, <3>1 DEF SendInv, InSequence
  <2> QED BY <2>2, <2>3
<1>4. Calm => Calm'
  BY <1>1 DEF Calm
<1>5. ASSUME NEW t \in Threads, Runs(t)
      PROVE  Runs(t)'
  BY <1>1, <1>5 DEF Runs, Percent
<1>6. ASSUME NEW i \in Queue, Result(i)
      PROVE  i - 1 \in Queue' /\ Result(i - 1)'
  <2>1. i # 1 /\ i \in Nat
    BY <1>1, <1>6 DEF Result
  <2>2. i - 1 \in Queue' /\ Kind(i - 1)' = "finished"
    BY <1>1, <1>6, <2>1 DEF Result
  <2>3. ASSUME NEW j \in Queue'
        PROVE  /\ Kind(j)' = "finished" => j = i - 1
               /\ Kind(j)' = "progress" => j < i - 1
    <3>1. j \in Nat /\ j + 1 \in Queue /\ Kind(j)' = Kind(j + 1)
      BY <1>1
    <3>2. (Kind(j)' = "finished" => j + 1 = i) /\ (Kind(j)' = "progress" => j + 1 < i)
      BY <3>1, <1>6 DEF Result
    <3> QED BY <3>1, <3>2, <2>1
  <2> QED BY <2>2, <2>3, <1>6 DEF Result
<1>7. Busy => Busy'
  BY <1>5, <1>6 DEF Busy
<1> QED BY <1>2, <1>3, <1>4, <1>7 DEF SendInv

(* A piece was sent: its progress goes behind what waits. *)
LEMMA PartSend ==
  ASSUME TypeOK, SendInv, NEW t \in Threads, SendPart(t)
  PROVE  TypeOK' /\ SendInv'
<1> DEFINE e == <<"progress", sent[t] + 1>>
<1>1. /\ sent \in [Threads -> 0..PARTS] /\ sent[t] + 1 \in 0..PARTS /\ sent[t] \in Nat
      /\ sent' = [sent EXCEPT ![t] = sent[t] + 1] /\ sendProgress \in 0..100
  BY GuiAssumption DEF SendPart, TypeOK
<1>2. /\ thread[t] = "sending" /\ UNCHANGED <<sendButton, sendStatus, sendProgress, thread>>
      /\ Post(<<e>>) /\ events \in Seq(Event)
  BY DEF SendPart, TypeOK
<1>3. e \in Event /\ e[1] = "progress" /\ e[2] = sent[t] + 1
  BY <1>1 DEF Event
<1> HIDE DEF e
<1>4. PICK last \in Nat :
        /\ last \in Queue' /\ events'[last] = e
        /\ \A i \in Queue' : i \in Queue \/ i = last
        /\ \A i \in Queue : /\ i \in Nat /\ i \in Queue' /\ i < last
                            /\ Kind(i)' = Kind(i) /\ Of(i)' = Of(i)
  <2>1. Len(events) + 1 \in Nat
    BY <1>2, LenProperties
  <2> QED BY <2>1, <1>2, <1>3, PostShift
<1>5. Kind(last)' = "progress" /\ Of(last)' = sent[t] + 1
  BY <1>3, <1>4 DEF Kind, Of
<1>6. events' \in Seq(Event)
  BY <1>2, <1>3, PostOne
<1>7. ~sendButton /\ Runs(t)
  BY <1>2 DEF SendInv, Calm, Busy, Runs, Result
<1>8. \A i \in Queue : Kind(i) = "progress" => Of(i) \in 0..PARTS
  BY <1>2, TypesOfEvents
<1>9. sent'[t] = sent[t] + 1 /\ Percent(sent[t]) <= Percent(sent[t] + 1)
      /\ Percent(sent[t]) \in Int /\ Percent(sent[t] + 1) \in Int
  BY <1>1, PercentFacts
<1>10. Runs(t)'
  <2>1. ASSUME NEW i \in Queue'
        PROVE  Kind(i)' # "finished" /\ (Kind(i)' = "progress" => Of(i)' <= sent[t] + 1)
    <3>1. CASE i \in Queue
      BY <3>1, <1>1, <1>4, <1>7, <1>8 DEF Runs
    <3>2. CASE i = last
      BY <3>2, <1>1, <1>5
    <3> QED BY <3>1, <3>2, <1>4
  <2>2. sendProgress <= Percent(sent[t] + 1)
    <3> HIDE DEF Percent
    <3> QED BY <1>1, <1>7, <1>9 DEF Runs
  <2> QED BY <2>1, <2>2, <1>2, <1>7, <1>9 DEF Runs, Percent
<1>11. QuitOnce'
  BY <1>4, <1>5 DEF SendInv, QuitOnce
<1>12. InSequence'
  <2> SUFFICES ASSUME NEW i \in Queue', Kind(i)' = "progress"
               PROVE  /\ sendProgress' <= Percent(Of(i)')
                      /\ \A j \in Queue' : Kind(j)' = "progress" /\ i < j => Of(i)' <= Of(j)'
    BY DEF InSequence, Percent
  <2>1. CASE i \in Queue
    <3>1. Kind(i) = "progress" /\ Of(i)' = Of(i) /\ Of(i) \in Nat /\ Of(i) <= sent[t]
      BY <2>1, <1>4, <1>7, <1>8 DEF Runs
    <3>2. ASSUME NEW j \in Queue', Kind(j)' = "progress", i < j
          PROVE  Of(i)' <= Of(j)'
      <4>1. CASE j \in Queue
        BY <4>1, <3>1, <3>2, <2>1, <1>4 DEF SendInv, InSequence
      <4>2. CASE j = last
        BY <4>2, <3>1, <1>1, <1>5
      <4> QED BY <4>1, <4>2, <1>4
    <3>3. sendProgress' <= Percent(Of(i)')
      BY <3>1, <2>1, <1>2 DEF SendInv, InSequence
    <3> QED BY <3>2, <3>3
  <2>2. CASE i = last
    <3>1. sendProgress' <= Percent(Of(i)')
      <4> HIDE DEF Percent
      <4> QED BY <2>2, <1>1, <1>2, <1>5, <1>7, <1>9 DEF Runs
    <3>2. ASSUME NEW j \in Queue', i < j
          PROVE  FALSE
      BY <3>2, <2>2, <1>4, <1>5
    <3> QED BY <3>1, <3>2
  <2> QED BY <2>1, <2>2, <1>4
<1>13. Busy'
  BY <1>2, <1>7, <1>10 DEF SendInv, Busy
<1>14. \A i \in 1..Len(events') : events'[i][1] = "quit" => thread'[events'[i][2]] = "ending"
  <2>1. \A i \in Queue : Kind(i) = "quit" => thread[Of(i)] = "ending"
    BY DEF TypeOK, Queue, Kind, Of
  <2>2. \A i \in Queue' : Kind(i)' = "quit" => thread'[Of(i)'] = "ending"
    BY <2>1, <1>2, <1>4, <1>5
  <2> QED BY <2>2 DEF Queue, Kind, Of
<1>15. sent' \in [Threads -> 0..PARTS]
  BY <1>1
<1>16. TypeOK'
  BY <1>2, <1>6, <1>14, <1>15 DEF TypeOK, SendPart, scanVars
<1> QED BY <1>2, <1>7, <1>11, <1>12, <1>13, <1>16 DEF SendInv

(* send_file returned: the result goes behind all progress. *)
LEMMA EndSend ==
  ASSUME TypeOK, SendInv, NEW t \in Threads, SendEnds(t)
  PROVE  TypeOK' /\ SendInv'
<1>1. PICK success \in BOOLEAN : Post(<< <<"finished", success>>, <<"quit", t>> >>)
  BY DEF SendEnds
<1>2. /\ thread[t] = "sending" /\ UNCHANGED <<sendButton, sendStatus, sendProgress, sent>>
      /\ thread' = [thread EXCEPT ![t] = "ending"]
      /\ thread \in [Threads -> {"none", "sending", "ending", "quit"}]
      /\ events \in Seq(Event)
  BY DEF SendEnds, TypeOK
<1>3. <<"finished", success>> \in Event /\ <<"quit", t>> \in Event
  BY DEF Event
<1>4. /\ Len(events) \in Nat /\ events' \in Seq(Event) /\ Len(events') = Len(events) + 2
      /\ \A i \in 1..Len(events) : events'[i] = events[i]
      /\ events'[Len(events) + 1] = <<"finished", success>>
      /\ events'[Len(events) + 2] = <<"quit", t>>
  BY <1>1, <1>2, <1>3, PostTwo
<1> PICK last \in Nat : last = Len(events) + 1
  BY <1>4
<1>5. /\ last \in Nat /\ last \in 1..Len(events') /\ Len(events) + 2 = last + 1
      /\ Len(events) + 1 = last
      /\ \A i \in 1..Len(events') : i \in 1..Len(events) \/ i = last \/ i = last + 1
      /\ \A i \in 1..Len(events) : i \in Nat /\ i \in 1..Len(events') /\ i < last
  BY <1>4
<1>6. /\ last \in Queue' /\ last \in Nat
      /\ Kind(last)' = "finished" /\ Of(last)' = success
      /\ Kind(last + 1)' = "quit" /\ Of(last + 1)' = t
      /\ \A i \in Queue' : i \in Queue \/ i = last \/ i = last + 1
      /\ \A i \in Queue : /\ i \in Nat /\ i \in Queue' /\ i < last
                          /\ Kind(i)' = Kind(i) /\ Of(i)' = Of(i)
  BY <1>4, <1>5 DEF Queue, Kind, Of
<1>7. ~sendButton /\ Runs(t)
  BY <1>2 DEF SendInv, Calm, Busy, Runs, Result
<1>8. \A i \in Queue : Kind(i) = "quit" => Of(i) # t /\ thread[Of(i)] = "ending"
  BY <1>2 DEF TypeOK, Queue, Kind, Of
<1>9. Result(last)'
  <2>1. \A u \in Threads : thread'[u] # "sending"
    BY <1>2, <1>7 DEF Runs
  <2>2. ASSUME NEW j \in Queue'
        PROVE  (Kind(j)' = "finished" => j = last) /\ (Kind(j)' = "progress" => j < last)
    BY <1>6, <1>7 DEF Runs
  <2> QED BY <2>1, <2>2, <1>6 DEF Result
<1>10. QuitOnce'
  BY <1>6, <1>8 DEF SendInv, QuitOnce
<1>11. InSequence'
  BY <1>2, <1>6 DEF SendInv, InSequence, Percent
<1>12. Busy'
  BY <1>2, <1>6, <1>7, <1>9 DEF SendInv, Busy
<1>13. \A i \in Queue' : Kind(i)' = "quit" => thread'[Of(i)'] = "ending"
  <2> SUFFICES ASSUME NEW i \in Queue', Kind(i)' = "quit"
               PROVE  thread'[Of(i)'] = "ending"
    OBVIOUS
  <2>1. CASE i \in Queue
    <3>1. Of(i)' = Of(i) /\ Of(i) # t /\ thread[Of(i)] = "ending" /\ Of(i) \in Threads
      BY <2>1, <1>2, <1>6, <1>8, TypesOfEvents
    <3> QED BY <3>1, <1>2
  <2>2. CASE i = last + 1
    BY <2>2, <1>2, <1>6
  <2> QED BY <2>1, <2>2, <1>6
<1>14. \A i \in 1..Len(events') : events'[i][1] = "quit" => thread'[events'[i][2]] = "ending"
  BY <1>13 DEF Queue, Kind, Of
<1>15. TypeOK'
  BY <1>2, <1>4, <1>14 DEF TypeOK, SendEnds, scanVars
<1> QED BY <1>2, <1>7, <1>10, <1>11, <1>12, <1>15 DEF SendInv

(* The Send button. *)
LEMMA ClickSend ==
  ASSUME TypeOK, SendInv, NEW t \in Threads, on_send_clicked(t)
  PROVE  TypeOK' /\ SendInv'
<1>1. /\ sendButton /\ sendButton' = FALSE /\ sendStatus' = "sending" /\ sendProgress' = 0
      /\ thread[t] = "none" /\ thread' = [thread EXCEPT ![t] = "sending"]
      /\ sent' = [sent EXCEPT ![t] = 0] /\ events' = events
      /\ thread \in [Threads -> {"none", "sending", "ending", "quit"}]
      /\ sent \in [Threads -> 0..PARTS]
  BY DEF on_send_clicked, TypeOK
<1>2. Calm
  BY <1>1 DEF SendInv
<1>3. 0 \in 0..PARTS /\ 0 <= Percent(0)
  <2>1. 0 \in 0..PARTS
    BY GuiAssumption
  <2>2. Percent(0) \in 0..100
    BY <2>1, PercentFacts
  <2> HIDE DEF Percent
  <2> QED BY <2>1, <2>2
<1>4. Runs(t)'
  <2>1. (\A u \in Threads : thread[u] = "sending" <=> u = t)'
    BY <1>1, <1>2 DEF Calm
  <2>2. (\A i \in Queue : Kind(i) # "finished" /\ (Kind(i) = "progress" => Of(i) <= sent[t]))'
    BY <1>1, <1>2 DEF Calm, Queue, Kind, Of
  <2>3. sent'[t] = 0
    BY <1>1
  <2> QED BY <2>1, <2>2, <2>3, <1>1, <1>3 DEF Runs, Percent
<1>5. QuitOnce'
  BY <1>1 DEF SendInv, QuitOnce, Queue, Kind, Of
<1>6. InSequence'
  BY <1>1, <1>2 DEF Calm, InSequence, Queue, Kind, Of
<1>7. \A i \in 1..Len(events) : events[i][1] = "quit" => thread'[events[i][2]] = "ending"
  <2> SUFFICES ASSUME NEW i \in Queue, Kind(i) = "quit"
               PROVE  thread'[Of(i)] = "ending"
    BY DEF Queue, Kind, Of
  <2>1. Of(i) \in Threads /\ thread[Of(i)] = "ending"
    BY TypesOfEvents DEF TypeOK, Queue, Kind, Of
  <2> QED BY <2>1, <1>1
<1>8. thread' \in [Threads -> {"none", "sending", "ending", "quit"}]
      /\ sent' \in [Threads -> 0..PARTS]
  BY <1>1, <1>3
<1>9. \A i \in 1..Len(events') : events'[i][1] = "quit" => thread'[events'[i][2]] = "ending"
  BY <1>1, <1>7
<1>10. sendProgress' \in 0..100 /\ sendButton' \in BOOLEAN
  <2>1. sendButton' \in BOOLEAN
    BY <1>1, Zenon
  <2>2. 0 \in 0..100
    OBVIOUS
  <2> QED BY <2>1, <2>2, <1>1
<1>11. TypeOK'
  BY <1>1, <1>8, <1>9, <1>10 DEF TypeOK, on_send_clicked, scanVars
<1> QED BY <1>1, <1>4, <1>5, <1>6, <1>11 DEF SendInv, Busy

(* The bar shows a progress. *)
LEMMA ProgressSend ==
  ASSUME TypeOK, SendInv, ShowProgress
  PROVE  /\ TypeOK' /\ SendInv'
         /\ sendProgress' >= sendProgress
<1>1. /\ Take("progress") /\ events \in Seq(Event)
      /\ sendProgress' = Percent(Argument) /\ sendProgress \in 0..100
      /\ UNCHANGED <<sendButton, sendStatus, thread, sent>>
      /\ sent \in [Threads -> 0..PARTS]
  BY DEF ShowProgress, TypeOK, Percent
<1>2. /\ 1 \in Queue /\ Kind(1) = "progress" /\ Of(1) = Argument
      /\ \A i \in Queue' : /\ i \in Nat \ {0} /\ i + 1 \in Queue
                           /\ Kind(i)' = Kind(i + 1) /\ Of(i)' = Of(i + 1)
      /\ \A i \in Queue : i # 1 => /\ i \in Nat /\ i - 1 \in Queue' /\ (i - 1) + 1 = i
                                   /\ Kind(i - 1)' = Kind(i)
  BY <1>1, TakeShift
<1>3. \A i \in Queue : Kind(i) = "progress" => Of(i) \in 0..PARTS
  BY <1>1, TypesOfEvents
<1>4. Argument \in 0..PARTS /\ sendProgress' \in 0..100
  <2>1. Argument \in 0..PARTS
    BY <1>2, <1>3
  <2>2. Argument <= Argument
    BY <2>1
  <2>3. Percent(Argument) \in 0..100
    BY <2>1, <2>2, PercentFacts
  <2> QED BY <2>1, <2>3, <1>1
<1>5. sendProgress' >= sendProgress
  <2>1. sendProgress <= Percent(Argument)
    BY <1>2 DEF SendInv, InSequence
  <2> HIDE DEF Percent
  <2> QED BY <2>1, <1>1, <1>4
<1>6. ~sendButton /\ Busy
  BY <1>2 DEF SendInv, Calm
<1>7. QuitOnce'
  <2> SUFFICES ASSUME NEW i \in Queue', NEW j \in Queue',
                      Kind(i)' = "quit", Kind(j)' = "quit", Of(i)' = Of(j)'
               PROVE  i = j
    BY DEF QuitOnce
  <2>1. i + 1 = j + 1
    BY <1>2 DEF SendInv, QuitOnce
  <2> QED BY <2>1, <1>2
<1>8. InSequence'
  <2> SUFFICES ASSUME NEW i \in Queue', Kind(i)' = "progress"
               PROVE  /\ sendProgress' <= Percent(Of(i)')
                      /\ \A j \in Queue' : Kind(j)' = "progress" /\ i < j => Of(i)' <= Of(j)'
    BY DEF InSequence, Percent
  <2>1. i + 1 \in Queue /\ Kind(i + 1) = "progress" /\ Of(i)' = Of(i + 1) /\ 1 < i + 1
    BY <1>2
  <2>2. Of(1) <= Of(i + 1) /\ Of(i + 1) \in 0..PARTS
    BY <2>1, <1>2, <1>3 DEF SendInv, InSequence
  <2>3. sendProgress' <= Percent(Of(i)')
    BY <2>1, <2>2, <1>1, <1>2, <1>4, PercentFacts
  <2>4. ASSUME NEW j \in Queue', Kind(j)' = "progress", i < j
        PROVE  Of(i)' <= Of(j)'
    <3>1. j + 1 \in Queue /\ Kind(j + 1) = "progress" /\ Of(j)' = Of(j + 1) /\ i + 1 < j + 1
      BY <1>2, <2>4
    <3> QED BY <2>1, <3>1 DEF SendInv, InSequence
  <2> QED BY <2>3, <2>4
<1>9. ASSUME NEW t \in Threads, Runs(t)
      PROVE  Runs(t)'
  <2>1. Of(1) <= sent[t] /\ sent[t] \in 0..PARTS
    BY <1>1, <1>2, <1>9 DEF Runs
  <2>2. sendProgress' <= Percent(sent[t])
    BY <2>1, <1>1, <1>2, <1>4, PercentFacts
  <2> QED BY <2>2, <1>1, <1>2, <1>9 DEF Runs, Percent
<1>10. ASSUME NEW i \in Queue, Result(i)
       PROVE  i - 1 \in Queue' /\ Result(i - 1)'
  <2>1. i # 1 /\ i \in Nat
    BY <1>2, <1>10 DEF Result
  <2>2. i - 1 \in Queue' /\ Kind(i - 1)' = "finished"
    BY <1>2, <1>10, <2>1 DEF Result
  <2>3. ASSUME NEW j \in Queue'
        PROVE  /\ Kind(j)' = "finished" => j = i - 1
               /\ Kind(j)' = "progress" => j < i - 1
    <3>1. j \in Nat /\ j + 1 \in Queue /\ Kind(j)' = Kind(j + 1)
      BY <1>2
    <3>2. (Kind(j)' = "finished" => j + 1 = i) /\ (Kind(j)' = "progress" => j + 1 < i)
      BY <3>1, <1>10 DEF Result
    <3> QED BY <3>1, <3>2, <2>1
  <2> QED BY <2>2, <2>3, <1>1, <1>10 DEF Result
<1>11. Busy'
  BY <1>1, <1>6, <1>9, <1>10 DEF Busy
<1>12. \A i \in 1..Len(events') : events'[i][1] = "quit" => thread'[events'[i][2]] = "ending"
  BY <1>1, TakeQuits
<1>13. events' \in Seq(Event)
  BY <1>1, TakeFacts
<1>14. TypeOK'
  BY <1>1, <1>4, <1>12, <1>13 DEF TypeOK, ShowProgress, scanVars
<1> QED BY <1>1, <1>5, <1>6, <1>7, <1>8, <1>11, <1>14 DEF SendInv

(* The result is shown: nothing of the send is left in the queue. *)
LEMMA ResultSend ==
  ASSUME TypeOK, SendInv, ShowResult
  PROVE  TypeOK' /\ SendInv'
<1>1. /\ Take("finished") /\ events \in Seq(Event)
      /\ sendButton' = TRUE /\ sendStatus' = IF Argument THEN "sent" ELSE "failed"
      /\ sendProgress' = IF Argument THEN 100 ELSE sendProgress
      /\ UNCHANGED <<thread, sent>> /\ sendProgress \in 0..100
  BY DEF ShowResult, TypeOK
<1>2. /\ 1 \in Queue /\ Kind(1) = "finished" /\ Of(1) = Argument
      /\ \A i \in Queue' : /\ i \in Nat \ {0} /\ i + 1 \in Queue
                           /\ Kind(i)' = Kind(i + 1) /\ Of(i)' = Of(i + 1)
  BY <1>1, TakeShift
<1>3. ~sendButton /\ Busy
  BY <1>2 DEF SendInv, Calm
<1>4. Result(1)
  BY <1>2, <1>3 DEF Busy, Runs, Result
<1>5. \A i \in Queue' : Kind(i)' \notin {"progress", "finished"}
  <2> SUFFICES ASSUME NEW i \in Queue'
               PROVE  Kind(i)' # "progress" /\ Kind(i)' # "finished"
    OBVIOUS
  <2>1. i + 1 \in Queue /\ Kind(i)' = Kind(i + 1) /\ i + 1 # 1 /\ ~(i + 1 < 1)
    BY <1>2
  <2> QED BY <2>1, <1>4 DEF Result
<1>6. Calm'
  BY <1>1, <1>4, <1>5 DEF Calm, Result
<1>7. QuitOnce'
  <2> SUFFICES ASSUME NEW i \in Queue', NEW j \in Queue',
                      Kind(i)' = "quit", Kind(j)' = "quit", Of(i)' = Of(j)'
               PROVE  i = j
    BY DEF QuitOnce
  <2>1. i + 1 = j + 1
    BY <1>2 DEF SendInv, QuitOnce
  <2> QED BY <2>1, <1>2
<1>8. InSequence'
  BY <1>5 DEF InSequence
<1>9. \A i \in 1..Len(events') : events'[i][1] = "quit" => thread'[events'[i][2]] = "ending"
  BY <1>1, TakeQuits
<1>10. events' \in Seq(Event)
  BY <1>1, TakeFacts
<1>11. sendButton' \in BOOLEAN /\ sendStatus' \in {"sent", "failed"} /\ sendProgress' \in 0..100
  BY <1>1
<1>12. TypeOK'
  BY <1>1, <1>9, <1>10, <1>11 DEF TypeOK, ShowResult, scanVars
<1> QED BY <1>1, <1>6, <1>7, <1>8, <1>12 DEF SendInv

(* The thread is told to quit, once. *)
LEMMA QuitSend ==
  ASSUME TypeOK, SendInv, Quit
  PROVE  TypeOK' /\ SendInv'
<1>1. /\ Take("quit") /\ events \in Seq(Event)
      /\ thread' = [thread EXCEPT ![Argument] = "quit"]
      /\ UNCHANGED <<sendButton, sendStatus, sendProgress, sent>>
      /\ thread \in [Threads -> {"none", "sending", "ending", "quit"}]
  BY DEF Quit, TypeOK
<1>2. /\ 1 \in Queue /\ Kind(1) = "quit" /\ Of(1) = Argument
      /\ \A i \in Queue' : /\ i \in Nat \ {0} /\ i + 1 \in Queue
                           /\ Kind(i)' = Kind(i + 1) /\ Of(i)' = Of(i + 1)
  BY <1>1, TakeShift
<1>3. \A i \in Queue : Kind(i) = "quit" => Of(i) \in Threads /\ thread[Of(i)] = "ending"
  BY <1>1, TypesOfEvents DEF TypeOK, Queue, Kind, Of
<1>4. \A t \in Threads : thread'[t] = "sending" <=> thread[t] = "sending"
  BY <1>1, <1>2, <1>3
<1>5. SendInv'
  BY <1>1, <1>4, TakeSend
<1>6. ASSUME NEW i \in Queue', Kind(i)' = "quit"
      PROVE  thread'[Of(i)'] = "ending"
  <2>1. i + 1 \in Queue /\ Kind(i + 1) = "quit" /\ Of(i)' = Of(i + 1) /\ i + 1 # 1
    BY <1>2, <1>6
  <2>2. Of(i + 1) # Argument
    BY <2>1, <1>2 DEF SendInv, QuitOnce
  <2> QED BY <2>1, <2>2, <1>1, <1>3
<1>7. \A i \in 1..Len(events') : events'[i][1] = "quit" => thread'[events'[i][2]] = "ending"
  BY <1>6 DEF Queue, Kind, Of
<1>8. events' \in Seq(Event)
  BY <1>1, TakeFacts
<1>9. thread' \in [Threads -> {"none", "sending", "ending", "quit"}]
  BY <1>1
<1>10. TypeOK'
  BY <1>1, <1>7, <1>8, <1>9 DEF TypeOK, Quit, scanVars
<1> QED BY <1>5, <1>10

(* A device is added to the list. *)
LEMMA DeviceSend ==
  ASSUME TypeOK, SendInv, on_device_found
  PROVE  TypeOK' /\ SendInv'
<1>1. /\ Take("deviceFound") /\ events \in Seq(Event) /\ UNCHANGED sendVars
      /\ UNCHANGED <<window, form, discovery_, known, receiver_>>
      /\ devices_' = Append(devices_, Argument) /\ deviceList' = Append(deviceList, Argument)
      /\ deviceList \in Seq(Devices \cup {Own}) /\ devices_ \in Seq(Devices \cup {Own})
  BY DEF on_device_found, TypeOK
<1>2. 1 \in Queue /\ Kind(1) = "deviceFound" /\ Of(1) = Argument
  BY <1>1, TakeShift
<1>3. Argument \in Devices \cup {Own}
  BY <1>1, <1>2, TypesOfEvents
<1>4. devices_' \in Seq(Devices \cup {Own}) /\ deviceList' \in Seq(Devices \cup {Own})
  BY <1>1, <1>3, AppendProperties
<1>5. SendInv'
  BY <1>1, TakeSend DEF sendVars
<1>6. \A i \in 1..Len(events') : events'[i][1] = "quit" => thread'[events'[i][2]] = "ending"
  BY <1>1, TakeQuits DEF sendVars
<1>7. events' \in Seq(Event)
  BY <1>1, TakeFacts
<1>8. TypeOK'
  BY <1>1, <1>4, <1>6, <1>7 DEF TypeOK, sendVars
<1> QED BY <1>5, <1>8

(* The event loop of the thread ends: no quit waits for it any more. *)
LEMMA ThreadEndSend ==
  ASSUME TypeOK, SendInv, NEW t \in Threads, ThreadEnds(t)
  PROVE  TypeOK' /\ SendInv'
<1>1. /\ thread[t] = "quit" /\ thread' = [thread EXCEPT ![t] = "none"]
      /\ thread \in [Threads -> {"none", "sending", "ending", "quit"}]
      /\ sent \in [Threads -> 0..PARTS] /\ sent' = [sent EXCEPT ![t] = 0]
      /\ UNCHANGED <<events, sendButton, sendStatus, sendProgress>>
      /\ events \in Seq(Event)
  BY DEF ThreadEnds, TypeOK
<1>2. \A u \in Threads : thread'[u] = "sending" <=> thread[u] = "sending"
  BY <1>1
<1>3. SendInv'
  <2>1. QuitOnce' /\ InSequence'
    BY <1>1 DEF SendInv, QuitOnce, InSequence, Queue, Kind, Of, Percent
  <2>2. Calm => Calm'
    BY <1>1, <1>2 DEF Calm, Queue, Kind
  <2>3. ASSUME NEW u \in Threads, Runs(u)
        PROVE  Runs(u)'
    <3>1. u # t /\ sent'[u] = sent[u]
      BY <2>3, <1>1 DEF Runs
    <3> QED BY <2>3, <3>1, <1>1, <1>2 DEF Runs, Queue, Kind, Of, Percent
  <2>4. ASSUME NEW i \in Queue, Result(i)
        PROVE  i \in Queue' /\ Result(i)'
    BY <2>4, <1>1, <1>2 DEF Result, Queue, Kind
  <2>5. Busy => Busy'
    BY <2>3, <2>4, <1>1 DEF Busy
  <2> QED BY <2>1, <2>2, <2>5, <1>1 DEF SendInv
<1>4. ASSUME NEW i \in Queue, Kind(i) = "quit"
      PROVE  thread'[Of(i)] = "ending"
  <2>1. Of(i) \in Threads /\ thread[Of(i)] = "ending"
    BY <1>4, TypesOfEvents DEF TypeOK, Queue, Kind, Of
  <2> QED BY <2>1, <1>1
<1>5. \A i \in 1..Len(events') : events'[i][1] = "quit" => thread'[events'[i][2]] = "ending"
  BY <1>1, <1>4 DEF Queue, Kind, Of
<1>6. /\ thread' \in [Threads -> {"none", "sending", "ending", "quit"}]
      /\ sent' \in [Threads -> 0..PARTS]
  BY <1>1, GuiAssumption
<1>7. TypeOK'
  BY <1>1, <1>5, <1>6 DEF TypeOK, ThreadEnds, scanVars
<1> QED BY <1>3, <1>7
-----------------------------------------------------------------------------
(* What the queue and the threads keep when a step leaves them alone. *)
LEMMA SameQuits ==
  ASSUME TypeOK, UNCHANGED <<events, thread>>
  PROVE  \A i \in 1..Len(events') : events'[i][1] = "quit" => thread'[events'[i][2]] = "ending"
BY DEF TypeOK

LEMMA InitGInv == Init => GInv
<1> SUFFICES ASSUME Init
             PROVE  GInv
  OBVIOUS
<1> USE DEF Init
<1>1. Queue = {} /\ events = <<>>
  BY DEF Queue
<1>2. 0 \in 0..PARTS /\ 0 \in 0..100
  BY GuiAssumption
<1>3. /\ thread \in [Threads -> {"none", "sending", "ending", "quit"}]
      /\ sent \in [Threads -> 0..PARTS]
  BY <1>2
<1>4. /\ events \in Seq(Event)
      /\ deviceList \in Seq(Devices \cup {Own}) /\ devices_ \in Seq(Devices \cup {Own})
  BY EmptySeq
<1>5. form \in [ip : Devices \cup {Own, Empty}, file : {Empty, "file"}]
  BY DEF Empty
<1>6. \A i \in 1..Len(events) : events[i][1] = "quit" => thread[events[i][2]] = "ending"
  BY <1>1 DEF Queue
<1>7. /\ window \in {"none", "open", "closing"}
      /\ discovery_ \in {"none", "running", "stopping", "joined"}
      /\ receiver_ \in {"none", "running", "stopping"}
      /\ sendButton \in BOOLEAN
  OBVIOUS
<1>8. TypeOK
  BY <1>2, <1>3, <1>4, <1>5, <1>6, <1>7 DEF TypeOK
<1>9. ListInv
  BY DEF ListInv, RowsAreDevices, NothingFoundIsLost
<1>10. Calm
  BY <1>1 DEF Calm
<1>11. SendInv
  BY <1>1, <1>10 DEF SendInv, QuitOnce, InSequence
<1> QED BY <1>8, <1>9, <1>11 DEF GInv

(* Every step keeps the types and the send part. *)
LEMMA SendStep ==
  ASSUME TypeOK, SendInv, [Next]_vars
  PROVE  TypeOK' /\ SendInv'
<1>1. CASE End
  <2>1. Init => GInv
    BY InitGInv
  <2>2. (Init => GInv)'
    BY InitGInv, PTL
  <2>3. Init'
    BY <1>1 DEF End, Init
  <2> QED BY <2>2, <2>3 DEF GInv
<1>2. CASE OpenWindow
  <2>1. UNCHANGED <<events, scanVars, sendVars>>
    BY <1>2 DEF OpenWindow
  <2>2. TypeOK'
    BY <1>2, <2>1, SameQuits DEF TypeOK, OpenWindow, scanVars, sendVars
  <2> QED BY <2>1, <2>2, SendUnchanged
<1>3. CASE StartScan \/ StopScan \/ ScanStopped \/ CloseWindow
  <2> USE DEF StartScan, StopScan, ScanStopped, CloseWindow
  <2>1. UNCHANGED <<events, sendVars>>
    BY <1>3
  <2>2. /\ discovery_' \in {"none", "running", "stopping", "joined"}
        /\ window' \in {"none", "open", "closing"}
        /\ known' \subseteq Devices \cup {Own}
        /\ UNCHANGED <<receiver_, form>>
    BY <1>3 DEF TypeOK
  <2>3. deviceList' \in Seq(Devices \cup {Own}) /\ devices_' \in Seq(Devices \cup {Own})
    <3>1. <<>> \in Seq(Devices \cup {Own})
      BY EmptySeq
    <3>2. deviceList' \in {deviceList, <<>>} /\ devices_' \in {devices_, <<>>}
      BY <1>3
    <3> QED BY <3>1, <3>2 DEF TypeOK
  <2> HIDE DEF StartScan, StopScan, ScanStopped, CloseWindow
  <2>4. TypeOK'
    BY <2>1, <2>2, <2>3, SameQuits DEF TypeOK, sendVars
  <2> QED BY <2>1, <2>4, SendUnchanged
<1>4. CASE StartReceiving \/ StopReceiving \/ ReceivingStopped
  <2>1. UNCHANGED <<window, form, events, scanVars, sendVars>>
    BY <1>4 DEF StartReceiving, StopReceiving, ReceivingStopped
  <2>2. receiver_' \in {"none", "running", "stopping"}
    BY <1>4 DEF StartReceiving, StopReceiving, ReceivingStopped
  <2>3. TypeOK'
    BY <2>1, <2>2, SameQuits DEF TypeOK, scanVars, sendVars
  <2> QED BY <2>1, <2>3, SendUnchanged
<1>5. ASSUME NEW d \in Devices \cup {Own}, Find(d)
      PROVE  TypeOK' /\ SendInv'
  <2> DEFINE e == <<"deviceFound", d>>
  <2>1. e \in Event /\ e[1] = "deviceFound" /\ Post(<<e>>) /\ events \in Seq(Event)
    BY <1>5 DEF Find, Event, TypeOK
  <2> HIDE DEF e
  <2>2. /\ Len(events) \in Nat /\ events' \in Seq(Event) /\ Len(events') = Len(events) + 1
        /\ \A i \in 1..Len(events) : events'[i] = events[i]
        /\ events'[Len(events) + 1] = e
    BY <2>1, PostOne
  <2>3. UNCHANGED thread
    BY <1>5 DEF Find, sendVars
  <2>4. ASSUME NEW i \in 1..Len(events'), events'[i][1] = "quit"
        PROVE  thread'[events'[i][2]] = "ending"
    <3>1. i # Len(events) + 1
      BY <2>1, <2>2, <2>4
    <3>2. i \in 1..Len(events)
      BY <3>1, <2>2
    <3> QED BY <3>2, <2>2, <2>3, <2>4 DEF TypeOK
  <2>5. TypeOK'
    BY <1>5, <2>2, <2>4 DEF TypeOK, Find, sendVars
  <2> QED BY <1>5, <2>5, FindSend
<1>6. ASSUME NEW row \in 1..Len(deviceList), PickDevice(row)
      PROVE  TypeOK' /\ SendInv'
  <2>1. UNCHANGED <<events, scanVars, sendVars>>
    BY <1>6 DEF PickDevice
  <2>2. row \in 1..Len(devices_)
    BY <1>6, LenProperties DEF PickDevice, TypeOK
  <2>3. devices_[row] \in Devices \cup {Own}
    BY <2>2, ElementOfSeq DEF TypeOK
  <2>4. form' \in [ip : Devices \cup {Own, Empty}, file : {Empty, "file"}]
    BY <1>6, <2>3 DEF PickDevice, TypeOK
  <2>5. TypeOK'
    BY <1>6, <2>1, <2>4, SameQuits DEF TypeOK, PickDevice, scanVars, sendVars
  <2> QED BY <2>1, <2>5, SendUnchanged
<1>7. ASSUME NEW file \in {Empty, "file"}, PickFile(file)
      PROVE  TypeOK' /\ SendInv'
  <2>1. UNCHANGED <<events, scanVars, sendVars>>
    BY <1>7 DEF PickFile
  <2>2. form' \in [ip : Devices \cup {Own, Empty}, file : {Empty, "file"}]
    BY <1>7 DEF PickFile, TypeOK
  <2>3. TypeOK'
    BY <1>7, <2>1, <2>2, SameQuits DEF TypeOK, PickFile, scanVars, sendVars
  <2> QED BY <2>1, <2>3, SendUnchanged
<1>8. CASE UNCHANGED vars
  <2>1. TypeOK'
    BY <1>8, SameQuits DEF TypeOK, vars, scanVars, sendVars
  <2>2. UNCHANGED <<events, sendVars>>
    BY <1>8 DEF vars
  <2> QED BY <2>1, <2>2, SendUnchanged
<1> QED BY <1>1, <1>2, <1>3, <1>4, <1>5, <1>6, <1>7, <1>8,
           ClickSend, PartSend, EndSend, ThreadEndSend, ProgressSend, ResultSend, QuitSend, DeviceSend
        DEF Next, SendThread, HandleEvent, WindowClosed, SendThrows
-----------------------------------------------------------------------------
(* The invariant holds of every window, whatever devices announce          *)
(* themselves and however the slots, threads and events interleave.        *)
THEOREM GuiInvariance == Spec => []GInv
<1>1. Init => GInv
  BY InitGInv
<1>2. GInv /\ [Next]_vars => GInv'
  BY ListStep, SendStep DEF GInv
<1> QED BY <1>1, <1>2, PTL DEF Spec

(* The window's variables keep their types, and a quit is meant for a      *)
(* thread that ends.                                                       *)
THEOREM GuiTypes == Spec => []TypeOK
<1>1. GInv => TypeOK
  BY DEF GInv
<1> QED BY <1>1, GuiInvariance, PTL

(* deviceList and devices_ never differ: on_device_clicked fills in the    *)
(* device the row shows.                                                   *)
THEOREM RowsShowDevices == Spec => []RowsAreDevices
<1>1. GInv => RowsAreDevices
  BY DEF GInv, ListInv
<1> QED BY <1>1, GuiInvariance, PTL

(* Every device the running scan has found is shown or will be.            *)
THEOREM FoundIsShown == Spec => []NothingFoundIsLost
<1>1. GInv => NothingFoundIsLost
  BY DEF GInv, ListInv
<1> QED BY <1>1, GuiInvariance, PTL

(* The queue has no event of a kind, or exactly one.                       *)
LEMMA WaitingFacts ==
  ASSUME NEW kind
  PROVE  /\ (\A i \in Queue : Kind(i) # kind) => Waiting(kind) = 0
         /\ \A i \in Queue : Kind(i) = kind /\ (\A j \in Queue : Kind(j) = kind => j = i)
                               => Waiting(kind) = 1
<1>1. ASSUME \A i \in Queue : Kind(i) # kind
      PROVE  Waiting(kind) = 0
  <2>1. {i \in 1..Len(events) : events[i][1] = kind} = {}
    BY <1>1 DEF Queue, Kind
  <2> QED BY <2>1, FS_EmptySet DEF Waiting
<1>2. ASSUME NEW i \in Queue, Kind(i) = kind, \A j \in Queue : Kind(j) = kind => j = i
      PROVE  Waiting(kind) = 1
  <2>1. {j \in 1..Len(events) : events[j][1] = kind} = {i}
    BY <1>2 DEF Queue, Kind
  <2> QED BY <2>1, FS_Singleton DEF Waiting
<1> QED BY <1>1, <1>2

LEMMA OneSend == GInv => OneSendAtATime
<1> SUFFICES ASSUME TypeOK, SendInv
             PROVE  OneSendAtATime
  BY DEF GInv
<1> DEFINE S == {t \in Threads : thread[t] = "sending"}
<1>1. CASE sendButton
  <2>1. Calm
    BY <1>1 DEF SendInv
  <2>2. S = {} /\ \A i \in Queue : Kind(i) # "finished"
    BY <2>1 DEF Calm
  <2>3. Cardinality(S) = 0 /\ Waiting("finished") = 0
    BY <2>2, FS_EmptySet, WaitingFacts
  <2> QED BY <2>3, <1>1 DEF OneSendAtATime
<1>2. ASSUME ~sendButton, NEW t \in Threads, Runs(t)
      PROVE  OneSendAtATime
  <2>1. S = {t} /\ \A i \in Queue : Kind(i) # "finished"
    BY <1>2 DEF Runs
  <2>2. Cardinality(S) = 1 /\ Waiting("finished") = 0
    BY <2>1, FS_Singleton, WaitingFacts
  <2> QED BY <2>2, <1>2 DEF OneSendAtATime
<1>3. ASSUME ~sendButton, NEW i \in Queue, Result(i)
      PROVE  OneSendAtATime
  <2>1. S = {} /\ Kind(i) = "finished" /\ \A j \in Queue : Kind(j) = "finished" => j = i
    BY <1>3 DEF Result
  <2>2. Cardinality(S) = 0 /\ Waiting("finished") = 1
    BY <2>1, FS_EmptySet, WaitingFacts
  <2> QED BY <2>2, <1>3 DEF OneSendAtATime
<1> QED BY <1>1, <1>2, <1>3 DEF SendInv, Busy

(* While the Send button is disabled exactly one send runs or its result   *)
(* waits; while it is enabled there is neither.                            *)
THEOREM OneSendOnly == Spec => []OneSendAtATime
BY OneSend, GuiInvariance, PTL

(* Nothing of a send is left to be shown once its result is.               *)
THEOREM ResultIsLast == Spec => []ResultStays
<1>1. GInv => ResultStays
  <2> SUFFICES ASSUME SendInv, sendButton
               PROVE  /\ sendStatus # "sending" /\ Waiting("progress") = 0
                      /\ sendStatus = "sent" => sendProgress = 100
    BY DEF GInv, ResultStays
  <2>1. Calm
    BY DEF SendInv
  <2> QED BY <2>1, WaitingFacts DEF Calm
<1> QED BY <1>1, GuiInvariance, PTL

(* The bar follows the pieces of one send, in order.                       *)
THEOREM BarGrows == Spec => ProgressGrows
<1>1. GInv /\ GInv' /\ [Next]_vars => [Sending /\ Sending' => sendProgress' >= sendProgress]_vars
  <2> SUFFICES ASSUME TypeOK, SendInv, SendInv', Next, Sending, Sending'
               PROVE  sendProgress' >= sendProgress
    BY DEF GInv
  <2>1. ~sendButton /\ ~sendButton'
    BY DEF SendInv, Calm, Sending
  <2>2. CASE ShowProgress
    BY <2>2, ProgressSend
  <2>3. CASE ~ShowProgress
    <3>1. sendProgress' = sendProgress
      BY <2>1, <2>3 DEF Next, SendThread, HandleEvent, CloseWindow, WindowClosed, SendThrows,
         OpenWindow, End, StartScan, StopScan, ScanStopped, StartReceiving, StopReceiving,
         ReceivingStopped, Find, PickDevice, PickFile,
         on_send_clicked, SendPart, SendEnds, ThreadEnds, on_device_found, ShowResult, Quit, sendVars
    <3> QED BY <3>1 DEF TypeOK
  <2> QED BY <2>2, <2>3
<1> QED BY <1>1, GuiInvariance, PTL DEF Spec, ProgressGrows
=============================================================================
