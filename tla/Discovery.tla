----------------------------- MODULE Discovery -----------------------------
(***************************************************************************)
(* UdpDiscovery on the devices of a network.  A device is known to others  *)
(* by its address; it runs one UdpDiscovery at a time, with what the       *)
(* command or the GUI gave it, and may stop and come back with something   *)
(* else.  Announcements are lost and overtake each other.  From the other  *)
(* addresses of the network come any datagrams of a given set, those of    *)
(* more devices and those of other programs.                               *)
(***************************************************************************)
EXTENDS Protocol

CONSTANTS
  Addresses,    \* the addresses of the network
  Devices,      \* those of the devices whose UdpDiscovery is modelled
  Setups,       \* what each of them may run with
  Foreign,      \* the datagrams that come from other addresses
  Links,        \* <<d, e>>: of what d announces not everything to e is lost
  RECV_BUF,     \* datagrams a listening socket holds
  CLOSE_WAKES   \* close() ends a recvfrom() of another thread: not on Linux

(* What a UdpDiscovery is constructed with and announces. *)
Port  == 0..(PortLimit - 1)
Setup == [name : Seq(Field), os : Field, tcp_port : Port]

Announcement(s) == SerializeDiscovery(s)

Message  == {raw \in Seq(Field) : raw # <<>>}
Datagram == [from : Addresses, raw : Message]

ASSUME DiscoveryAssumption ==
  /\ PortLimit <= IntLimit
  /\ Setups \in [Devices -> SUBSET Setup]
  /\ \A d \in Devices : Setups[d] # {} /\ \A s \in Setups[d] : s.name # <<>>
  /\ Devices \subseteq Addresses
  /\ \A p \in Foreign : p \in Datagram /\ p.from \notin Devices
  /\ Links \subseteq Devices \X Devices
  /\ RECV_BUF \in Nat \ {0}
  /\ CLOSE_WAKES \in BOOLEAN

VARIABLES
  up,        \* whether the UdpDiscovery of each device runs
  self,      \* what it runs with, or ran with last
  inbox,     \* the datagrams waiting at listen_sock_, each with its source
  devices_   \* the list of each device

vars == <<up, self, inbox, devices_>>

Running(d) == up[d] = "running"
-----------------------------------------------------------------------------
Start(d) ==
  /\ up[d] \in {"off", "terminated"}
  /\ up' = [up EXCEPT ![d] = "running"]
  /\ \E s \in Setups[d] : self' = [self EXCEPT ![d] = s]
  /\ UNCHANGED <<inbox, devices_>>

(* The threads are gone, and the object or the process with its list. *)
End(d, how) ==
  /\ up' = [up EXCEPT ![d] = how]
  /\ inbox' = [inbox EXCEPT ![d] = <<>>]
  /\ devices_' = [devices_ EXCEPT ![d] = <<>>]
  /\ UNCHANGED self

(* The listen thread is not in recvfrom(), or is woken: it sees running_.  *)
Stop(d) == Running(d) /\ End(d, "off")

(* The listen thread waits in recvfrom(), which keeps the socket open: the *)
(* join() in stop() waits for one more datagram.                           *)
StopWaits(d) ==
  /\ Running(d) /\ ~CLOSE_WAKES /\ inbox[d] = <<>>
  /\ up' = [up EXCEPT ![d] = "stopping"]
  /\ UNCHANGED <<self, inbox, devices_>>

(* The datagram reaches some of the sockets that have room for it. *)
HasRoom(d) == up[d] \in {"running", "stopping"} /\ Len(inbox[d]) < RECV_BUF

Arrive(p, reached) ==
  /\ \A e \in reached : HasRoom(e)
  /\ inbox' = [e \in Devices |-> IF e \in reached THEN Append(inbox[e], p) ELSE inbox[e]]
  /\ UNCHANGED <<up, self, devices_>>

(* One round of broadcast_loop; its own device may be among the reached. *)
Broadcast(d, reached) ==
  Running(d) /\ Arrive([from |-> d, raw |-> Announcement(self[d])], reached)

(* Somebody else sends to the port. *)
Noise(e) == \E p \in Foreign : Arrive(p, {e})
-----------------------------------------------------------------------------
Take(d) == inbox[d] # <<>> /\ inbox' = [inbox EXCEPT ![d] = Tail(@)]

Info(d) == ParseDiscovery(Head(inbox[d]).raw)
From(d) == Head(inbox[d]).from

(* A mutant: a device lists itself. *)
OursNever(d, info) == FALSE

Ours(d, info) == self[d].name = <<info.name>>

Same(x, info, ip) == x.name = info.name /\ x.ip = ip

(* Mutants: the address is not compared; the search ends with the first.   *)
KnownByName(d, info, ip) ==
  \E i \in 1..Len(devices_[d]) : devices_[d][i].name = info.name

KnownFirst(d, info, ip) ==
  Len(devices_[d]) > 0 /\ Same(devices_[d][1], info, ip)

Known(d, info, ip) == \E i \in 1..Len(devices_[d]) : Same(devices_[d][i], info, ip)

(* A mutant: two fields change places. *)
DeviceSwapped(info, ip) ==
  [name |-> info.os, os |-> info.name, tcp_port |-> info.tcp_port, ip |-> ip]

(* A mutant: the address is left as parse_discovery left it. *)
DeviceNoAddress(info, ip) ==
  [name |-> info.name, os |-> info.os, tcp_port |-> info.tcp_port, ip |-> ""]

Device(info, ip) ==
  [name |-> info.name, os |-> info.os, tcp_port |-> info.tcp_port, ip |-> ip]

(* A round of listen_loop with an announcement of an unknown device. *)
ListenNew(d) ==
  /\ Running(d) /\ Take(d)
  /\ Info(d).status = "ok" /\ ~Ours(d, Info(d)) /\ ~Known(d, Info(d), From(d))
  /\ devices_' = [devices_ EXCEPT ![d] = Append(@, Device(Info(d), From(d)))]
  /\ UNCHANGED <<up, self>>

ListenIgnored(d) ==
  /\ Running(d) /\ Take(d)
  /\ \/ Info(d).status = "malformed"
     \/ Info(d).status = "ok" /\ (Ours(d, Info(d)) \/ Known(d, Info(d), From(d)))
  /\ UNCHANGED <<up, self, devices_>>

(* stoi throws in the listen thread, and std::terminate ends the process. *)
ListenThrows(d) ==
  /\ inbox[d] # <<>> /\ Info(d).status = "throws"
  /\ End(d, "terminated")

(* A mutant: the loop does not look at running_ again. *)
LastForever(d) ==
  /\ up[d] = "stopping" /\ Take(d)
  /\ UNCHANGED <<up, self, devices_>>

(* The last round during stop(): whatever it lists is gone with the object. *)
ListenLast(d) ==
  /\ up[d] = "stopping" /\ inbox[d] # <<>> /\ Info(d).status # "throws"
  /\ End(d, "off")

Listen(d) == ListenNew(d) \/ ListenIgnored(d) \/ ListenThrows(d) \/ ListenLast(d)
-----------------------------------------------------------------------------
Init ==
  /\ up = [d \in Devices |-> "off"]
  /\ self = [d \in Devices |-> CHOOSE s \in Setups[d] : TRUE]
  /\ inbox = [d \in Devices |-> <<>>]
  /\ devices_ = [d \in Devices |-> <<>>]

Next ==
  \E d \in Devices : \/ Start(d)
                     \/ Stop(d)
                     \/ StopWaits(d)
                     \/ \E reached \in SUBSET Devices : Broadcast(d, reached)
                     \/ Noise(d)
                     \/ Listen(d)

Reach(d, e) == \E reached \in SUBSET Devices : e \in reached /\ Broadcast(d, reached)

(* The listen thread runs, and of the announcements repeated every two     *)
(* seconds not all are lost on a link.                                     *)
Fairness == /\ \A d \in Devices : WF_vars(Listen(d))
            /\ \A l \in Links : SF_vars(Reach(l[1], l[2]))

Spec     == Init /\ [][Next]_vars
FairSpec == Spec /\ Fairness
-----------------------------------------------------------------------------
DeviceInfo == [name : Field, os : Field, tcp_port : Port, ip : Addresses]

(* Every variable has its type: a socket holds no more than it can, and    *)
(* only a device that runs or stops has datagrams or a list.               *)
TypeOK ==
  /\ up \in [Devices -> {"off", "running", "stopping", "terminated"}]
  /\ self \in [Devices -> Setup]
  /\ inbox \in [Devices -> Seq(Datagram)]
  /\ devices_ \in [Devices -> Seq(DeviceInfo)]
  /\ \A d \in Devices :
       /\ self[d] \in Setups[d]
       /\ Len(inbox[d]) <= RECV_BUF
       /\ up[d] \in {"off", "terminated"} => inbox[d] = <<>> /\ devices_[d] = <<>>

(* A name without a colon. *)
WellNamed(s) == Len(s.name) = 1

(* However often an announcement arrives and in which order, nobody is     *)
(* listed twice: no two entries have the same name and address.            *)
ListedOnce ==
  \A d \in Devices : \A i, j \in 1..Len(devices_[d]) :
    devices_[d][i].name = devices_[d][j].name /\ devices_[d][i].ip = devices_[d][j].ip
      => i = j

AsAnnounced(x) ==
  x.ip \in Devices /\ (\A s \in Setups[x.ip] : WellNamed(s)) =>
    \E s \in Setups[x.ip] : s.name = <<x.name>> /\ s.os = x.os /\ s.tcp_port = x.tcp_port

(* An entry is what its address announces in one of its set-ups: the       *)
(* fields survive the message, and no entry mixes two announcements.       *)
ListedAsAnnounced ==
  \A d \in Devices : \A i \in 1..Len(devices_[d]) : AsAnnounced(devices_[d][i])

(* A device hears its own broadcasts and never lists itself. *)
NeverSelf ==
  \A d \in Devices : WellNamed(self[d]) =>
    \A i \in 1..Len(devices_[d]) : devices_[d][i].ip # d

Listed(d, e) == \E i \in 1..Len(devices_[d]) :
                  <<devices_[d][i].name>> = self[e].name /\ devices_[d][i].ip = e

Visible(d, e) == Running(d) /\ Running(e) /\ WellNamed(self[e]) /\ self[d].name # self[e].name

(* Two devices with different names that keep running find each other,     *)
(* whoever else has one of these names and under whatever names they ran   *)
(* before.                                                                 *)
EventuallyListed ==
  \A l \in Links : <>[]Visible(l[2], l[1]) => <>[]Listed(l[2], l[1])

(* Where close() does not wake the listen thread, stop() returns as long   *)
(* as some other device keeps announcing itself.                           *)
StopReturnsInCompany ==
  \A l \in Links : <>[]Running(l[1]) => []<>(up[l[2]] # "stopping")

(* protocol.h:106 says that parse_discovery returns false for a malformed  *)
(* message; then no announcement of others ends a listener.                *)
ListenersSurvive == \A d \in Devices : WellNamed(self[d]) => up[d] # "terminated"
=============================================================================
