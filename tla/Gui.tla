-------------------------------- MODULE Gui --------------------------------
(***************************************************************************)
(* The window: MainWindow, its DiscoveryWorker and ReceiveWorker, and the   *)
(* QThreads on which files are sent.  Slots run one at a time on the GUI   *)
(* thread; other threads only post events to it, which it takes in order.  *)
(* An event that was posted is delivered even when its sender is deleted.  *)
(* The slots that stop a worker join its threads and may not return: while *)
(* one waits, the GUI thread takes neither clicks nor events.              *)
(***************************************************************************)
EXTENDS Integers, Sequences, FiniteSets

CONSTANTS
  Devices,           \* devices of the network that announce themselves
  Own,               \* the announcement of the window's own ReceiveWorker
  Threads,           \* the QThreads there may be at a time
  PARTS,             \* pieces of the payload a send reports
  MAX_EVENTS         \* announcements waiting for the GUI thread

ASSUME GuiAssumption ==
  /\ Own \notin Devices
  /\ PARTS \in Nat \ {0}
  /\ MAX_EVENTS \in Nat

VARIABLES
  window,         \* "none", "open", or "closing" in ~MainWindow
  discovery_,     \* the DiscoveryWorker: "none", "running", in stop() with its
                  \* listen thread ("stopping") or without it ("joined")
  receiver_,      \* the ReceiveWorker: "none", "running" or "stopping"
  known,          \* UdpDiscovery::devices_ of the DiscoveryWorker
  events,         \* the events posted to the GUI thread
  deviceList,     \* the rows shown
  devices_,       \* MainWindow::devices_
  form,           \* ipEdit and fileEdit of the Send tab
  sendButton,     \* whether it is enabled
  sendStatus,
  sendProgress,
  thread,         \* what each QThread does
  sent            \* the pieces it has sent

scanVars == <<discovery_, known, deviceList, devices_>>
sendVars == <<sendButton, sendStatus, sendProgress, thread, sent>>
vars     == <<window, receiver_, events, form, scanVars, sendVars>>

Empty == "empty"

Post(es) == events' = events \o es

(* A Stop slot, or the destructor, waits in a join() on the GUI thread. *)
Blocked == \/ window = "closing"
           \/ discovery_ \in {"stopping", "joined"}
           \/ receiver_ = "stopping"

(* The GUI thread is in its event loop and takes the next click or event. *)
Ready == window = "open" /\ ~Blocked
-----------------------------------------------------------------------------
Init ==
  /\ window = "none"
  /\ discovery_ = "none" /\ receiver_ = "none"
  /\ known = {}
  /\ events = <<>>
  /\ deviceList = <<>> /\ devices_ = <<>>
  /\ form = [ip |-> Empty, file |-> Empty]
  /\ sendButton = TRUE /\ sendStatus = "none" /\ sendProgress = 0
  /\ thread = [t \in Threads |-> "none"] /\ sent = [t \in Threads |-> 0]

OpenWindow ==
  /\ window = "none" /\ window' = "open"
  /\ UNCHANGED <<events, form, scanVars, sendVars, receiver_>>

(* The process ends with all its threads. *)
End ==
  /\ window' = "none" /\ discovery_' = "none" /\ receiver_' = "none"
  /\ known' = {} /\ events' = <<>> /\ deviceList' = <<>> /\ devices_' = <<>>
  /\ form' = [ip |-> Empty, file |-> Empty]
  /\ sendButton' = TRUE /\ sendStatus' = "none" /\ sendProgress' = 0
  /\ thread' = [t \in Threads |-> "none"] /\ sent' = [t \in Threads |-> 0]

(* ~MainWindow: the workers' stop(), one after the other, on the GUI thread *)
CloseWindow ==
  /\ Ready /\ window' = "closing"
  /\ discovery_' = IF discovery_ = "running" THEN "stopping" ELSE discovery_
  /\ UNCHANGED <<events, form, known, deviceList, devices_, sendVars, receiver_>>

(* and when both have returned, main() does. *)
WindowClosed == window = "closing" /\ End

(* The Scan button, which is also the Stop button: stop() closes and joins, *)
StopScan ==
  /\ Ready /\ discovery_ = "running" /\ discovery_' = "stopping"
  /\ UNCHANGED <<window, events, form, known, deviceList, devices_, sendVars, receiver_>>

(* A mutant: only the rows are cleared. *)
ScanStoppedKeepsDevices ==
  /\ window = "open" /\ discovery_ \in {"stopping", "joined"} /\ discovery_' = "none"
  /\ known' = {}
  /\ deviceList' = <<>>
  /\ UNCHANGED <<window, events, form, devices_, sendVars, receiver_>>

(* and when it returns, the worker is deleted and the list cleared. *)
ScanStopped ==
  /\ window = "open" /\ discovery_ \in {"stopping", "joined"} /\ discovery_' = "none"
  /\ known' = {}
  /\ deviceList' = <<>> /\ devices_' = <<>>
  /\ UNCHANGED <<window, events, form, sendVars, receiver_>>

(* A mutant: deviceFound is connected after the worker was started. *)
StartScanConnectsLate ==
  /\ Ready /\ discovery_ = "none" /\ discovery_' = "running"
  /\ known' \in SUBSET Devices
  /\ UNCHANGED <<window, events, form, deviceList, devices_, sendVars, receiver_>>

(* With a name in nameEdit; without one a warning changes nothing. *)
StartScan ==
  /\ Ready /\ discovery_ = "none" /\ discovery_' = "running"
  /\ UNCHANGED <<window, events, form, known, deviceList, devices_, sendVars, receiver_>>

(* The listen thread of the DiscoveryWorker has a device it does not know  *)
(* yet, possibly the ReceiveWorker's, and emits deviceFound.  When stop()  *)
(* has cleared running_, a round it is in, or a datagram that wakes it, is *)
(* its last.                                                               *)
Waiting(kind) == Cardinality({i \in 1..Len(events) : events[i][1] = kind})

Announced == Devices \cup IF receiver_ # "none" THEN {Own} ELSE {}

Find(d) ==
  /\ discovery_ \in {"running", "stopping"} /\ d \in Announced \ known
  /\ discovery_' = IF discovery_ = "stopping" THEN "joined" ELSE discovery_
  /\ Waiting("deviceFound") < MAX_EVENTS
  /\ known' = known \cup {d}
  /\ Post(<< <<"deviceFound", d>> >>)
  /\ UNCHANGED <<window, form, deviceList, devices_, sendVars, receiver_>>

Take(kind) ==
  /\ Ready /\ events # <<>> /\ Head(events)[1] = kind
  /\ events' = Tail(events)

Argument == Head(events)[2]

on_device_found ==
  /\ Take("deviceFound")
  /\ devices_' = Append(devices_, Argument)
  /\ deviceList' = Append(deviceList, Argument)
  /\ UNCHANGED <<window, form, discovery_, known, sendVars, receiver_>>

(* A double-click on a row fills the Send tab in. *)
PickDevice(row) ==
  /\ Ready /\ row \in 1..Len(deviceList) /\ row <= Len(devices_)
  /\ form' = [form EXCEPT !.ip = devices_[row]]
  /\ UNCHANGED <<window, events, scanVars, sendVars, receiver_>>

(* on_browse_file and the line edit. *)
PickFile(file) ==
  /\ Ready
  /\ form' = [form EXCEPT !.file = file]
  /\ UNCHANGED <<window, events, scanVars, sendVars, receiver_>>
-----------------------------------------------------------------------------
(* Sending: the Send button, the thread, and the events it posts *)

(* Mutants: the button stays enabled; the bar stays where it was. *)
SendButtonStays(t) ==
  /\ Ready /\ sendButton /\ thread[t] = "none"
  /\ form.ip # Empty /\ form.file # Empty
  /\ sendStatus' = "sending" /\ sendProgress' = 0
  /\ thread' = [thread EXCEPT ![t] = "sending"]
  /\ sent' = [sent EXCEPT ![t] = 0]
  /\ UNCHANGED <<window, events, form, sendButton, scanVars, receiver_>>

SendKeepsProgress(t) ==
  /\ Ready /\ sendButton /\ thread[t] = "none"
  /\ form.ip # Empty /\ form.file # Empty
  /\ sendButton' = FALSE /\ sendStatus' = "sending"
  /\ thread' = [thread EXCEPT ![t] = "sending"]
  /\ sent' = [sent EXCEPT ![t] = 0]
  /\ UNCHANGED <<window, events, form, sendProgress, scanVars, receiver_>>

(* With an address and a file; otherwise a warning changes nothing. *)
on_send_clicked(t) ==
  /\ Ready /\ sendButton /\ thread[t] = "none"
  /\ form.ip # Empty /\ form.file # Empty
  /\ sendButton' = FALSE /\ sendStatus' = "sending" /\ sendProgress' = 0
  /\ thread' = [thread EXCEPT ![t] = "sending"]
  /\ sent' = [sent EXCEPT ![t] = 0]
  /\ UNCHANGED <<window, events, form, scanVars, receiver_>>

(* send_file has sent a piece and calls back. *)
SendPart(t) ==
  /\ thread[t] = "sending" /\ sent[t] < PARTS
  /\ sent' = [sent EXCEPT ![t] = @ + 1]
  /\ Post(<< <<"progress", sent[t] + 1>> >>)
  /\ UNCHANGED <<window, form, sendButton, sendStatus, sendProgress, thread, scanVars, receiver_>>

(* Mutants: finished is emitted before the last progress; nobody asks the  *)
(* thread to quit.                                                         *)
SendEndsEarly(t) ==
  /\ thread[t] = "sending"
  /\ \E success \in BOOLEAN :
       /\ success => sent[t] = PARTS
       /\ Post(<< <<"finished", success>>, <<"quit", t>>, <<"progress", PARTS>> >>)
  /\ thread' = [thread EXCEPT ![t] = "ending"]
  /\ UNCHANGED <<window, form, sendButton, sendStatus, sendProgress, sent, scanVars, receiver_>>

SendNoQuit(t) ==
  /\ thread[t] = "sending"
  /\ \E success \in BOOLEAN : /\ success => sent[t] = PARTS
                              /\ Post(<< <<"finished", success>> >>)
  /\ thread' = [thread EXCEPT ![t] = "ending"]
  /\ UNCHANGED <<window, form, sendButton, sendStatus, sendProgress, sent, scanVars, receiver_>>

(* send_file returns; finished goes to the window and to QThread::quit. *)
SendEnds(t) ==
  /\ thread[t] = "sending"
  /\ \E success \in BOOLEAN : /\ success => sent[t] = PARTS
                              /\ Post(<< <<"finished", success>>, <<"quit", t>> >>)
  /\ thread' = [thread EXCEPT ![t] = "ending"]
  /\ UNCHANGED <<window, form, sendButton, sendStatus, sendProgress, sent, scanVars, receiver_>>

(* An exception that leaves send(), or SIGPIPE, ends the process. *)
SendThrows(t) == thread[t] = "sending" /\ End

(* A mutant: the pieces are taken for per cent. *)
ShowPieces ==
  /\ Take("progress")
  /\ sendProgress' = Argument * 100
  /\ UNCHANGED <<window, form, sendButton, sendStatus, thread, sent, scanVars, receiver_>>

ShowProgress ==
  /\ Take("progress")
  /\ sendProgress' = (Argument * 100) \div PARTS
  /\ UNCHANGED <<window, form, sendButton, sendStatus, thread, sent, scanVars, receiver_>>

(* A mutant: the button comes back only after a success. *)
ShowSuccessOnly ==
  /\ Take("finished")
  /\ sendButton' = Argument
  /\ sendStatus' = IF Argument THEN "sent" ELSE "failed"
  /\ sendProgress' = IF Argument THEN 100 ELSE sendProgress
  /\ UNCHANGED <<window, form, thread, sent, scanVars, receiver_>>

ShowResult ==
  /\ Take("finished")
  /\ sendButton' = TRUE
  /\ sendStatus' = IF Argument THEN "sent" ELSE "failed"
  /\ sendProgress' = IF Argument THEN 100 ELSE sendProgress
  /\ UNCHANGED <<window, form, thread, sent, scanVars, receiver_>>

Quit ==
  /\ Take("quit")
  /\ thread' = [thread EXCEPT ![Argument] = "quit"]
  /\ UNCHANGED <<window, form, sendButton, sendStatus, sendProgress, sent, scanVars, receiver_>>

(* The thread's event loop ends; worker and thread are deleted. *)
ThreadEnds(t) ==
  /\ thread[t] = "quit"
  /\ thread' = [thread EXCEPT ![t] = "none"] /\ sent' = [sent EXCEPT ![t] = 0]
  /\ UNCHANGED <<window, events, form, sendButton, sendStatus, sendProgress, scanVars, receiver_>>
-----------------------------------------------------------------------------
(* on_receive_toggled; whether the server listens is Lifecycle's matter.   *)
StartReceiving ==
  /\ Ready /\ receiver_ = "none" /\ receiver_' = "running"
  /\ UNCHANGED <<window, events, form, scanVars, sendVars>>

StopReceiving ==
  /\ Ready /\ receiver_ = "running" /\ receiver_' = "stopping"
  /\ UNCHANGED <<window, events, form, scanVars, sendVars>>

(* stop() has returned and the worker is deleted. *)
ReceivingStopped ==
  /\ window = "open" /\ receiver_ = "stopping" /\ receiver_' = "none"
  /\ UNCHANGED <<window, events, form, scanVars, sendVars>>

HandleEvent == on_device_found \/ ShowProgress \/ ShowResult \/ Quit

SendThread(t) == SendPart(t) \/ SendEnds(t) \/ ThreadEnds(t)

Next ==
  \/ OpenWindow \/ CloseWindow \/ WindowClosed
  \/ StartScan \/ StopScan \/ ScanStopped
  \/ StartReceiving \/ StopReceiving \/ ReceivingStopped
  \/ \E d \in Devices \cup {Own} : Find(d)
  \/ \E row \in 1..Len(deviceList) : PickDevice(row)
  \/ \E file \in {Empty, "file"} : PickFile(file)
  \/ \E t \in Threads : on_send_clicked(t) \/ SendThread(t) \/ SendThrows(t)
  \/ HandleEvent

(* The threads run, and send_file returns.  The event loop delivers what   *)
(* was posted before it waits for the next click, so that events get their *)
(* turn between clicks.  A slot that waits in stop() need not return.      *)
Fairness == /\ SF_vars(HandleEvent)
            /\ \A t \in Threads : WF_vars(SendThread(t))

Spec     == Init /\ [][Next]_vars
FairSpec == Spec /\ Fairness
-----------------------------------------------------------------------------
Event == ({"deviceFound"} \X (Devices \cup {Own})) \cup ({"progress"} \X (0..PARTS))
         \cup ({"finished"} \X BOOLEAN) \cup ({"quit"} \X Threads)

(* Every variable has its type; a quit is meant for a thread that ends. *)
TypeOK ==
  /\ window \in {"none", "open", "closing"}
  /\ discovery_ \in {"none", "running", "stopping", "joined"}
  /\ receiver_ \in {"none", "running", "stopping"}
  /\ known \subseteq Devices \cup {Own}
  /\ events \in Seq(Event)
  /\ deviceList \in Seq(Devices \cup {Own}) /\ devices_ \in Seq(Devices \cup {Own})
  /\ form \in [ip : Devices \cup {Own, Empty}, file : {Empty, "file"}]
  /\ sendButton \in BOOLEAN
  /\ sendStatus \in {"none", "sending", "sent", "failed"}
  /\ sendProgress \in 0..100
  /\ thread \in [Threads -> {"none", "sending", "ending", "quit"}]
  /\ sent \in [Threads -> 0..PARTS]
  /\ \A i \in 1..Len(events) : events[i][1] = "quit" => thread[events[i][2]] = "ending"

(* A double-click fills in what the row shows: however scans, stops and    *)
(* late announcements follow each other, row i is devices_[i].             *)
RowsAreDevices == deviceList = devices_

(* What the scan has found, until its worker is deleted, is in the list or *)
(* on its way to it, also what is found while stop() waits.                *)
NothingFoundIsLost ==
  \A d \in known : \/ \E i \in 1..Len(deviceList) : deviceList[i] = d
                   \/ \E i \in 1..Len(events) : events[i] = <<"deviceFound", d>>

(* While the button is disabled one send runs or its result is on its way; *)
(* while it is enabled none does, though threads may still end.            *)
OneSendAtATime ==
  Cardinality({t \in Threads : thread[t] = "sending"}) + Waiting("finished")
    = IF sendButton THEN 0 ELSE 1

(* What the Send tab shows between sends is the end of the last one, and   *)
(* nothing late overwrites it.                                             *)
ResultStays ==
  sendButton => /\ sendStatus # "sending" /\ Waiting("progress") = 0
                /\ sendStatus = "sent" => sendProgress = 100

(* During a send the bar never moves back. *)
Sending == sendStatus = "sending"
ProgressGrows == [][Sending /\ Sending' => sendProgress' >= sendProgress]_vars

(* The GUI thread always comes back from stop().  When it does is a matter *)
(* of the sockets (StopReturns and CtrlCEnds of Lifecycle): where close()  *)
(* wakes the joined threads it does, on Linux only when somebody connects  *)
(* and announces himself.                                                  *)
SlotsReturn == []<>~Blocked

(* As long as Stop slots return, and send_file does, the button comes back *)
(* after every send, whatever its result and whatever is clicked meanwhile.*)
SendButtonComesBack == SlotsReturn => (~sendButton ~> sendButton)

(* Under the same conditions the thread of a send ends: its quit() is an   *)
(* event of the GUI thread.                                                *)
ThreadsEnd == SlotsReturn => \A t \in Threads : thread[t] = "sending" ~> thread[t] = "none"
=============================================================================
