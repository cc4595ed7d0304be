-------------------------- MODULE DiscoveryProofs --------------------------
(***************************************************************************)
(* Discovery, for every set of devices and set-ups, every buffer size and  *)
(* whatever arrives from elsewhere: the types, and what the lists hold.    *)
(***************************************************************************)
EXTENDS Discovery, ProtocolProofs

(* What waits at a socket and comes from a modelled device is what that    *)
(* device announces in one of its set-ups; a device's own datagrams are of *)
(* its present set-up.                                                     *)
Honest(d) ==
  \A i \in 1..Len(inbox[d]) :
    inbox[d][i].from \in Devices =>
      \E s \in Setups[inbox[d][i].from] :
        /\ inbox[d][i].raw = Announcement(s)
        /\ inbox[d][i].from = d => s = self[d]

DInv == /\ TypeOK
        /\ \A d \in Devices : Honest(d)
        /\ ListedOnce /\ ListedAsAnnounced /\ NeverSelf
-----------------------------------------------------------------------------
(* Lemmas about messages *)

LEMMA PortLimits == PortLimit \in Nat \ {0} /\ PortLimit <= IntLimit /\ IntLimit \in Nat
BY LimitsAssumption, DiscoveryAssumption

LEMMA PortIsPort ==
  ASSUME NEW n \in Nat
  PROVE  ToPort(n) \in Port /\ (n \in Port => ToPort(n) = n)
<1>1. n % PortLimit \in 0..(PortLimit - 1)
  BY PortLimits
<1>2. n < PortLimit => n % PortLimit = n
  BY PortLimits
<1> QED BY <1>1, <1>2, PortLimits DEF ToPort, Port

LEMMA SetupTypes ==
  ASSUME NEW d \in Devices, NEW s \in Setups[d]
  PROVE  s \in Setup /\ s.name # <<>>
BY DiscoveryAssumption

(* An announcement: two fields, the name, two fields. *)
LEMMA AnnouncementFields ==
  ASSUME NEW s \in Setup
  PROVE  LET raw == Announcement(s)
         IN  /\ raw \in Seq(Field)
             /\ Len(raw) = Len(s.name) + 4
             /\ raw[1] = Magic
             /\ raw[2] = Decimal(DISCOVERY)
             /\ Len(s.name) = 1 => /\ raw[3] = s.name[1]
                                   /\ raw[4] = s.os
                                   /\ raw[5] = Decimal(s.tcp_port)
<1> DEFINE front == <<Magic, Decimal(DISCOVERY)>>
           back == <<s.os, Decimal(s.tcp_port)>>
           k == Len(s.name)
<1>1. s.name \in Seq(Field) /\ k \in Nat /\ s.os \in Field /\ s.tcp_port \in Nat
  BY PortLimits DEF Setup, Port
<1>2. /\ front \in Seq(Field) /\ Len(front) = 2
      /\ front[1] = Magic /\ front[2] = Decimal(DISCOVERY)
  BY FieldsAreFields DEF DISCOVERY
<1>3. /\ back \in Seq(Field) /\ Len(back) = 2
      /\ back[1] = s.os /\ back[2] = Decimal(s.tcp_port)
  BY <1>1, FieldsAreFields
<1> HIDE DEF front, back, k
<1> DEFINE mid == front \o s.name
<1>4. /\ mid \in Seq(Field)
      /\ Len(mid) = 2 + k
      /\ \A i \in 1..(2 + k) : mid[i] = IF i <= 2 THEN front[i] ELSE s.name[i - 2]
  <2>1. /\ mid \in Seq(Field) /\ Len(mid) = Len(front) + Len(s.name)
        /\ \A i \in 1..(Len(front) + Len(s.name)) :
             mid[i] = IF i <= Len(front) THEN front[i] ELSE s.name[i - Len(front)]
    BY <1>1, <1>2, ConcatProperties
  <2> HIDE DEF mid
  <2>2. Len(front) = 2 /\ Len(s.name) = k
    BY <1>2 DEF k
  <2> QED BY <2>1, <2>2
<1> HIDE DEF mid
<1>5. /\ mid \o back \in Seq(Field)
      /\ Len(mid \o back) = 2 + k + 2
      /\ \A i \in 1..(2 + k + 2) :
           (mid \o back)[i] = IF i <= 2 + k THEN mid[i] ELSE back[i - (2 + k)]
  <2>1. /\ mid \o back \in Seq(Field) /\ Len(mid \o back) = Len(mid) + Len(back)
        /\ \A i \in 1..(Len(mid) + Len(back)) :
             (mid \o back)[i] = IF i <= Len(mid) THEN mid[i] ELSE back[i - Len(mid)]
    BY <1>3, <1>4, ConcatProperties
  <2>2. Len(mid) = 2 + k /\ Len(back) = 2
    BY <1>3, <1>4
  <2> QED BY <2>1, <2>2
<1>6. Announcement(s) = mid \o back
  BY DEF Announcement, SerializeDiscovery, mid, front, back
<1>7. (mid \o back)[1] = Magic /\ (mid \o back)[2] = Decimal(DISCOVERY)
  BY <1>1, <1>2, <1>4, <1>5
<1>8. k = 1 => /\ (mid \o back)[3] = s.name[1]
               /\ (mid \o back)[4] = s.os
               /\ (mid \o back)[5] = Decimal(s.tcp_port)
  <2> SUFFICES ASSUME k = 1
               PROVE  /\ (mid \o back)[3] = s.name[1]
                      /\ (mid \o back)[4] = s.os
                      /\ (mid \o back)[5] = Decimal(s.tcp_port)
    OBVIOUS
  <2>1. (mid \o back)[3] = mid[3] /\ mid[3] = s.name[1]
    BY <1>4, <1>5
  <2>2. (mid \o back)[4] = back[4 - 3] /\ (mid \o back)[5] = back[5 - 3]
    BY <1>5
  <2> QED BY <2>1, <2>2, <1>3
<1> HIDE DEF k
<1>9. Len(mid \o back) = k + 4
  BY <1>1, <1>5
<1>10. mid \o back \in Seq(Field)
  BY <1>5
<1> DEFINE raw == mid \o back
<1> HIDE DEF raw
<1>11. /\ raw \in Seq(Field) /\ Len(raw) = k + 4
       /\ raw[1] = Magic /\ raw[2] = Decimal(DISCOVERY)
       /\ k = 1 => raw[3] = s.name[1] /\ raw[4] = s.os /\ raw[5] = Decimal(s.tcp_port)
  BY <1>7, <1>8, <1>9, <1>10 DEF raw
<1>12. Announcement(s) = raw /\ Len(s.name) = k
  BY <1>6 DEF raw, k
<1> QED BY <1>11, <1>12

(* A name without a colon, the operating system and the port survive the   *)
(* announcement.                                                           *)
THEOREM DiscoveryRoundTrip ==
  ASSUME NEW s \in Setup, WellNamed(s)
  PROVE  ParseDiscovery(Announcement(s)) =
           [status |-> "ok", name |-> s.name[1], os |-> s.os, tcp_port |-> s.tcp_port]
<1> DEFINE raw == Announcement(s)
<1>1. /\ Len(raw) = 5 /\ raw[1] = Magic /\ raw[2] = Decimal(DISCOVERY)
      /\ raw[3] = s.name[1] /\ raw[4] = s.os /\ raw[5] = Decimal(s.tcp_port)
  <2>1. Len(s.name) = 1
    BY DEF WellNamed
  <2>2. Len(raw) = Len(s.name) + 4 /\ raw[1] = Magic /\ raw[2] = Decimal(DISCOVERY)
    BY AnnouncementFields
  <2>3. raw[3] = s.name[1] /\ raw[4] = s.os /\ raw[5] = Decimal(s.tcp_port)
    BY <2>1, AnnouncementFields
  <2> QED BY <2>1, <2>2, <2>3
<1>2. s.tcp_port \in Port /\ s.tcp_port \in Nat /\ s.tcp_port < IntLimit
  BY PortLimits DEF Setup, Port
<1> HIDE DEF raw
<1>3. HasFields(raw, 5)
  <2>1. raw[1].text \in MagicTexts
    BY <1>1 DEF Magic, MagicTexts
  <2>2. raw[5] # Empty
    BY <1>1 DEF Decimal, Empty
  <2> QED BY <1>1, <2>1, <2>2 DEF HasFields, Getline
<1>4. ~StoiThrows(raw[2]) /\ raw[2].num = DISCOVERY
  <2>1. raw[2].num = 1
    BY <1>1 DEF Decimal, DISCOVERY
  <2>2. 1 < IntLimit /\ IntLimit \in Nat
    BY ProtocolAssumption, PortLimits DEF FILE_HEADER_ENCRYPTED
  <2> QED BY <2>1, <2>2 DEF StoiThrows, DISCOVERY, NoNumber
<1>5. ~StoiThrows(raw[5]) /\ raw[5].num = s.tcp_port
  <2>1. raw[5].num = s.tcp_port
    BY <1>1 DEF Decimal
  <2> QED BY <2>1, <1>2, PortLimits DEF StoiThrows, NoNumber
<1>6. ToPort(s.tcp_port) = s.tcp_port
  BY <1>2, PortIsPort
<1>7. ParseDiscovery(raw) = [status |-> "ok", name |-> raw[3], os |-> raw[4],
                             tcp_port |-> ToPort(raw[5].num)]
  BY <1>3, <1>4, <1>5 DEF ParseDiscovery
<1> QED BY <1>1, <1>5, <1>6, <1>7 DEF raw

(* Whatever arrives, what is parsed has the types of a device's fields. *)
LEMMA ParsedType ==
  ASSUME NEW raw \in Message, ParseDiscovery(raw).status = "ok"
  PROVE  /\ ParseDiscovery(raw).name \in Field
         /\ ParseDiscovery(raw).os \in Field
         /\ ParseDiscovery(raw).tcp_port \in Port
<1>1. HasFields(raw, 5) /\ ~StoiThrows(raw[5])
  BY DEF ParseDiscovery, Malformed, Throws
<1>2. ParseDiscovery(raw) = [status |-> "ok", name |-> raw[3], os |-> raw[4],
                             tcp_port |-> ToPort(raw[5].num)]
  BY DEF ParseDiscovery, Malformed, Throws
<1>3. raw \in Seq(Field) /\ Len(raw) \in Nat
  BY DEF Message
<1>4. Len(raw) >= 5
  BY <1>1, <1>3 DEF HasFields, Getline
<1>5. raw[3] \in Field /\ raw[4] \in Field /\ raw[5] \in Field
  BY <1>3, <1>4
<1>6. raw[5].num \in Nat
  BY <1>1, <1>5 DEF Field, StoiThrows
<1> QED BY <1>2, <1>5, <1>6, PortIsPort
-----------------------------------------------------------------------------
(* The actions *)

LEMMA InitInv == Init => DInv
<1> SUFFICES ASSUME Init PROVE DInv
  OBVIOUS
<1>1. \A d \in Devices : inbox[d] = <<>> /\ devices_[d] = <<>> /\ up[d] = "off"
  BY DEF Init
<1>2. \A d \in Devices : self[d] \in Setups[d]
  <2> TAKE d \in Devices
  <2>1. self[d] = CHOOSE s \in Setups[d] : TRUE
    BY DEF Init
  <2>2. \E s \in Setups[d] : TRUE
    BY DiscoveryAssumption
  <2> QED BY <2>1, <2>2
<1>3. TypeOK
  <2>1. up \in [Devices -> {"off", "running", "stopping", "terminated"}]
    BY DEF Init
  <2>2. RECV_BUF \in Nat
    BY DiscoveryAssumption
  <2>3. self \in [Devices -> Setup]
    BY <1>2, SetupTypes DEF Init
  <2>4. inbox \in [Devices -> Seq(Datagram)] /\ devices_ \in [Devices -> Seq(DeviceInfo)]
    BY DEF Init
  <2>5. \A d \in Devices : Len(inbox[d]) <= RECV_BUF
    BY <1>1, <2>2
  <2> QED BY <1>1, <1>2, <2>1, <2>3, <2>4, <2>5 DEF TypeOK
<1> QED BY <1>1, <1>3 DEF DInv, Honest, ListedOnce, ListedAsAnnounced, NeverSelf

LEMMA StartInv ==
  ASSUME DInv, NEW d \in Devices, Start(d)
  PROVE  DInv'
<1>1. TypeOK /\ \A e \in Devices : Honest(e)
  BY DEF DInv
<1>2. inbox[d] = <<>> /\ devices_[d] = <<>>
  BY <1>1 DEF TypeOK, Start
<1>3. PICK s \in Setups[d] : self' = [self EXCEPT ![d] = s]
  BY DEF Start
<1>4. inbox' = inbox /\ devices_' = devices_ /\ up' = [up EXCEPT ![d] = "running"]
  BY DEF Start
<1>5. TypeOK'
  <2>1. up' \in [Devices -> {"off", "running", "stopping", "terminated"}]
    BY <1>1, <1>4 DEF TypeOK
  <2>2. self' \in [Devices -> Setup] /\ \A e \in Devices : self'[e] \in Setups[e]
    BY <1>1, <1>3, SetupTypes DEF TypeOK
  <2>3. \A e \in Devices : up'[e] \in {"off", "terminated"} => e # d /\ up'[e] = up[e]
    BY <1>1, <1>4 DEF TypeOK
  <2> QED BY <1>1, <1>4, <2>1, <2>2, <2>3 DEF TypeOK
<1>6. \A e \in Devices : Honest(e)'
  <2> TAKE e \in Devices
  <2>1. CASE e = d
    BY <2>1, <1>2, <1>4 DEF Honest
  <2>2. CASE e # d
    <3>1. self'[e] = self[e]
      BY <2>2, <1>1, <1>3 DEF TypeOK
    <3> QED BY <3>1, <1>1, <1>4 DEF Honest
  <2> QED BY <2>1, <2>2
<1>7. ListedOnce' /\ ListedAsAnnounced'
  <2>1. ListedOnce'
    BY <1>4 DEF DInv, ListedOnce
  <2>2. ListedAsAnnounced'
    BY <1>4 DEF DInv, ListedAsAnnounced
  <2> QED BY <2>1, <2>2
<1>8. NeverSelf'
  <2>1. \A e \in Devices : e # d => self'[e] = self[e]
    BY <1>1, <1>3 DEF TypeOK
  <2> QED BY <2>1, <1>2, <1>4 DEF DInv, NeverSelf
<1> QED BY <1>5, <1>6, <1>7, <1>8 DEF DInv

(* Whatever ends a UdpDiscovery takes its socket and its list along. *)
LEMMA EndInv ==
  ASSUME DInv, NEW d \in Devices, NEW how \in {"off", "terminated"}, End(d, how)
  PROVE  DInv'
<1>1. TypeOK /\ \A e \in Devices : Honest(e)
  BY DEF DInv
<1>2. /\ self' = self
      /\ up' = [up EXCEPT ![d] = how]
      /\ inbox' = [inbox EXCEPT ![d] = <<>>]
      /\ devices_' = [devices_ EXCEPT ![d] = <<>>]
  BY DEF End
<1>3. \A e \in Devices : IF e = d THEN inbox'[e] = <<>> /\ devices_'[e] = <<>>
                         ELSE inbox'[e] = inbox[e] /\ devices_'[e] = devices_[e] /\ up'[e] = up[e]
  BY <1>1, <1>2 DEF TypeOK
<1>4. TypeOK'
  <2>1. up' \in [Devices -> {"off", "running", "stopping", "terminated"}]
    BY <1>1, <1>2 DEF TypeOK
  <2>2. inbox' \in [Devices -> Seq(Datagram)] /\ devices_' \in [Devices -> Seq(DeviceInfo)]
    BY <1>1, <1>2 DEF TypeOK
  <2>3. \A e \in Devices : Len(inbox'[e]) <= RECV_BUF
    BY <1>1, <1>3, DiscoveryAssumption DEF TypeOK
  <2> QED BY <1>1, <1>2, <1>3, <2>1, <2>2, <2>3 DEF TypeOK
<1>5. \A e \in Devices : Honest(e)'
  <2> TAKE e \in Devices
  <2>1. CASE e = d
    BY <2>1, <1>3 DEF Honest
  <2>2. CASE e # d
    BY <2>2, <1>1, <1>2, <1>3 DEF Honest
  <2> QED BY <2>1, <2>2
<1>6. ListedOnce'
  BY <1>3 DEF DInv, ListedOnce
<1>7. ListedAsAnnounced'
  BY <1>3 DEF DInv, ListedAsAnnounced
<1>8. NeverSelf'
  BY <1>2, <1>3 DEF DInv, NeverSelf
<1> QED BY <1>4, <1>5, <1>6, <1>7, <1>8 DEF DInv

(* Whoever sends, honestly if a modelled device, leaves the lists alone. *)
LEMMA ArriveInv ==
  ASSUME DInv, NEW p \in Datagram, NEW reached \in SUBSET Devices, Arrive(p, reached),
         p.from \in Devices => p.raw = Announcement(self[p.from])
  PROVE  DInv'
<1>1. TypeOK /\ \A e \in Devices : Honest(e)
  BY DEF DInv
<1>2. up' = up /\ self' = self /\ devices_' = devices_
  BY DEF Arrive
<1>3. \A e \in Devices \ reached : inbox'[e] = inbox[e]
  BY DEF Arrive
<1>4. ASSUME NEW e \in reached
      PROVE  /\ inbox'[e] \in Seq(Datagram)
             /\ Len(inbox'[e]) = Len(inbox[e]) + 1
             /\ Len(inbox[e]) \in Nat
             /\ \A i \in 1..Len(inbox[e]) : inbox'[e][i] = inbox[e][i]
             /\ inbox'[e][Len(inbox[e]) + 1] = p
  <2>1. inbox'[e] = Append(inbox[e], p)
    BY DEF Arrive
  <2>2. inbox[e] \in Seq(Datagram)
    BY <1>1 DEF TypeOK
  <2> QED BY <2>1, <2>2
<1>5. TypeOK'
  <2>1. inbox' \in [Devices -> Seq(Datagram)]
    <3>1. DOMAIN inbox' = Devices /\ inbox' = [e \in Devices |-> inbox'[e]]
      BY DEF Arrive
    <3>2. \A e \in Devices : inbox'[e] \in Seq(Datagram)
      BY <1>1, <1>3, <1>4 DEF TypeOK
    <3> QED BY <3>1, <3>2
  <2>2. \A e \in Devices : Len(inbox'[e]) <= RECV_BUF
    <3> TAKE e \in Devices
    <3>1. CASE e \in reached
      <4>1. Len(inbox[e]) < RECV_BUF
        BY <3>1 DEF Arrive, HasRoom
      <4> QED BY <4>1, <3>1, <1>4, DiscoveryAssumption
    <3>2. CASE e \notin reached
      BY <3>2, <1>1, <1>3 DEF TypeOK
    <3> QED BY <3>1, <3>2
  <2>3. \A e \in Devices : up[e] \in {"off", "terminated"} => inbox'[e] = <<>>
    BY <1>1, <1>3 DEF TypeOK, Arrive, HasRoom
  <2> QED BY <1>1, <1>2, <2>1, <2>2, <2>3 DEF TypeOK
<1>6. \A e \in Devices : Honest(e)'
  <2> TAKE e \in Devices
  <2>1. CASE e \notin reached
    BY <2>1, <1>1, <1>2, <1>3 DEF Honest
  <2>2. CASE e \in reached
    <3> SUFFICES ASSUME NEW i \in 1..Len(inbox'[e]), inbox'[e][i].from \in Devices
                 PROVE  \E s \in Setups[inbox'[e][i].from] :
                          /\ inbox'[e][i].raw = Announcement(s)
                          /\ inbox'[e][i].from = e => s = self'[e]
      BY DEF Honest
    <3>1. CASE i \in 1..Len(inbox[e])
      BY <3>1, <2>2, <1>1, <1>2, <1>4 DEF Honest
    <3>2. CASE i = Len(inbox[e]) + 1
      <4>1. inbox'[e][i] = p
        BY <3>2, <2>2, <1>4
      <4>2. self[p.from] \in Setups[p.from] /\ p.raw = Announcement(self[p.from])
        BY <4>1, <1>1 DEF TypeOK
      <4> QED BY <4>1, <4>2, <1>2
    <3>3. i \in 1..Len(inbox[e]) \/ i = Len(inbox[e]) + 1
      BY <2>2, <1>4
    <3> QED BY <3>1, <3>2, <3>3
  <2> QED BY <2>1, <2>2
<1>7. ListedOnce'
  BY <1>2 DEF DInv, ListedOnce
<1>8. ListedAsAnnounced'
  BY <1>2 DEF DInv, ListedAsAnnounced
<1>9. NeverSelf'
  BY <1>2 DEF DInv, NeverSelf
<1> QED BY <1>5, <1>6, <1>7, <1>8, <1>9 DEF DInv

(* A round of the listen loop that stays in the loop: the next datagram is *)
(* gone; if the list changed, a device was appended.                       *)
LEMMA TakeFacts ==
  ASSUME TypeOK, NEW d \in Devices, Honest(d), Take(d)
  PROVE  /\ Head(inbox[d]) \in Datagram
         /\ Head(inbox[d]) = inbox[d][1] /\ 1 \in 1..Len(inbox[d])
         /\ inbox' \in [Devices -> Seq(Datagram)]
         /\ \A e \in Devices \ {d} : inbox'[e] = inbox[e]
         /\ Len(inbox'[d]) <= Len(inbox[d])
         /\ \A i \in 1..Len(inbox'[d]) : i + 1 \in 1..Len(inbox[d]) /\ inbox'[d][i] = inbox[d][i + 1]
<1>1. inbox \in [Devices -> Seq(Datagram)] /\ inbox[d] # <<>> /\ inbox' = [inbox EXCEPT ![d] = Tail(inbox[d])]
  BY DEF TypeOK, Take
<1>2. inbox[d] \in Seq(Datagram) /\ inbox'[d] = Tail(inbox[d])
  BY <1>1
<1>3. /\ Tail(inbox[d]) \in Seq(Datagram)
      /\ Len(Tail(inbox[d])) = Len(inbox[d]) - 1
      /\ Len(inbox[d]) \in Nat \ {0}
      /\ \A i \in 1..Len(Tail(inbox[d])) : Tail(inbox[d])[i] = inbox[d][i + 1]
  BY <1>1, <1>2, HeadTailProperties, EmptySeq
<1>4. Head(inbox[d]) \in Datagram /\ Head(inbox[d]) = inbox[d][1]
  BY <1>1, <1>2
<1> QED BY <1>1, <1>2, <1>3, <1>4

LEMMA TakeInv ==
  ASSUME DInv, NEW d \in Devices, Take(d), Running(d), up' = up, self' = self
  PROVE  /\ inbox' \in [Devices -> Seq(Datagram)]
         /\ \A e \in Devices : Len(inbox'[e]) <= RECV_BUF
         /\ \A e \in Devices : up'[e] \in {"off", "terminated"} => inbox'[e] = <<>>
         /\ \A e \in Devices : Honest(e)'
<1>1. TypeOK /\ \A e \in Devices : Honest(e)
  BY DEF DInv
<1>2. /\ inbox' \in [Devices -> Seq(Datagram)]
      /\ \A e \in Devices \ {d} : inbox'[e] = inbox[e]
      /\ Len(inbox'[d]) <= Len(inbox[d])
      /\ \A i \in 1..Len(inbox'[d]) : i + 1 \in 1..Len(inbox[d]) /\ inbox'[d][i] = inbox[d][i + 1]
  BY <1>1, TakeFacts
<1>3. \A e \in Devices : Len(inbox'[e]) <= RECV_BUF
  <2> TAKE e \in Devices
  <2>1. CASE e # d
    BY <2>1, <1>1, <1>2 DEF TypeOK
  <2>2. CASE e = d
    <3>1. Len(inbox[d]) <= RECV_BUF /\ Len(inbox[d]) \in Nat /\ Len(inbox'[d]) \in Nat
      BY <1>1, <1>2 DEF TypeOK
    <3> QED BY <3>1, <2>2, <1>2, DiscoveryAssumption
  <2> QED BY <2>1, <2>2
<1>4. \A e \in Devices : up'[e] \in {"off", "terminated"} => inbox'[e] = <<>>
  BY <1>1, <1>2 DEF TypeOK, Running
<1>5. \A e \in Devices : Honest(e)'
  <2> TAKE e \in Devices
  <2>1. CASE e # d
    BY <2>1, <1>1, <1>2 DEF Honest
  <2>2. CASE e = d
    <3> SUFFICES ASSUME NEW i \in 1..Len(inbox'[d]), inbox'[d][i].from \in Devices
                 PROVE  \E s \in Setups[inbox'[d][i].from] :
                          /\ inbox'[d][i].raw = Announcement(s)
                          /\ inbox'[d][i].from = d => s = self[d]
      BY <2>2 DEF Honest
    <3>1. i + 1 \in 1..Len(inbox[d]) /\ inbox'[d][i] = inbox[d][i + 1]
      BY <1>2
    <3>2. \A k \in 1..Len(inbox[d]) :
            inbox[d][k].from \in Devices =>
              \E s \in Setups[inbox[d][k].from] :
                /\ inbox[d][k].raw = Announcement(s)
                /\ inbox[d][k].from = d => s = self[d]
      BY <1>1 DEF Honest
    <3> QED BY ONLY <3>1, <3>2, inbox'[d][i].from \in Devices
  <2> QED BY <2>1, <2>2
<1> QED BY <1>2, <1>3, <1>4, <1>5

LEMMA ListenIgnoredInv ==
  ASSUME DInv, NEW d \in Devices, ListenIgnored(d)
  PROVE  DInv'
<1>1. up' = up /\ self' = self /\ devices_' = devices_ /\ Running(d) /\ Take(d)
  BY DEF ListenIgnored
<1>2. TypeOK' /\ \A e \in Devices : Honest(e)'
  BY <1>1, TakeInv DEF DInv, TypeOK
<1>3. ListedOnce' /\ ListedAsAnnounced'
  BY <1>1 DEF DInv, ListedOnce, ListedAsAnnounced
<1>4. NeverSelf'
  BY <1>1 DEF DInv, NeverSelf
<1> QED BY <1>2, <1>3, <1>4 DEF DInv

(* An announcement of a modelled device that was parsed: what is listed is *)
(* what that device announces.                                             *)
LEMMA HeardAsAnnounced ==
  ASSUME DInv, NEW d \in Devices, Take(d), Info(d).status = "ok"
  PROVE  /\ Device(Info(d), From(d)) \in DeviceInfo
         /\ AsAnnounced(Device(Info(d), From(d)))
         /\ From(d) = d /\ WellNamed(self[d]) => Ours(d, Info(d))
<1> DEFINE p == inbox[d][1]
           x == Device(Info(d), From(d))
<1>1. /\ p \in Datagram /\ p = Head(inbox[d]) /\ 1 \in 1..Len(inbox[d])
      /\ Info(d) = ParseDiscovery(p.raw) /\ From(d) = p.from
  BY TakeFacts DEF DInv, Info, From
<1>2. /\ x.name = Info(d).name /\ x.os = Info(d).os /\ x.tcp_port = Info(d).tcp_port
      /\ x.ip = p.from
  BY <1>1 DEF Device
<1>3. x \in DeviceInfo
  <2>1. p.raw \in Message /\ p.from \in Addresses
    BY <1>1 DEF Datagram
  <2>2. Info(d).name \in Field /\ Info(d).os \in Field /\ Info(d).tcp_port \in Port
    BY <1>1, <2>1, ParsedType
  <2> QED BY <1>1, <2>1, <2>2 DEF Device, DeviceInfo
<1>4. p.from \in Devices =>
        \E s \in Setups[p.from] : p.raw = Announcement(s) /\ (p.from = d => s = self[d])
  BY <1>1 DEF DInv, Honest
<1>5. ASSUME p.from \in Devices, NEW s \in Setups[p.from], p.raw = Announcement(s), WellNamed(s)
      PROVE  s.name = <<Info(d).name>> /\ s.os = Info(d).os /\ s.tcp_port = Info(d).tcp_port
  <2>1. s \in Setup
    BY <1>5, SetupTypes
  <2>2. Info(d) = [status |-> "ok", name |-> s.name[1], os |-> s.os, tcp_port |-> s.tcp_port]
    BY <1>1, <1>5, <2>1, DiscoveryRoundTrip
  <2>3. s.name = <<s.name[1]>>
    BY <1>5, <2>1 DEF WellNamed, Setup
  <2> QED BY <2>2, <2>3
<1> HIDE DEF x, p
<1>6. AsAnnounced(x)
  BY <1>2, <1>4, <1>5 DEF AsAnnounced
<1>7. From(d) = d /\ WellNamed(self[d]) => Ours(d, Info(d))
  BY <1>1, <1>4, <1>5 DEF Ours
<1> QED BY <1>3, <1>6, <1>7 DEF x

LEMMA ListenNewInv ==
  ASSUME DInv, NEW d \in Devices, ListenNew(d)
  PROVE  DInv'
<1> DEFINE x == Device(Info(d), From(d))
           n == Len(devices_[d])
<1>1. /\ up' = up /\ self' = self /\ Running(d) /\ Take(d)
      /\ Info(d).status = "ok" /\ ~Ours(d, Info(d)) /\ ~Known(d, Info(d), From(d))
      /\ devices_' = [devices_ EXCEPT ![d] = Append(devices_[d], x)]
  BY DEF ListenNew
<1>2. x \in DeviceInfo /\ AsAnnounced(x) /\ ~(From(d) = d /\ WellNamed(self[d]))
  BY <1>1, HeardAsAnnounced
<1>3. x.name = Info(d).name /\ x.ip = From(d)
  BY DEF Device
<1>4. \A i \in 1..n : ~(devices_[d][i].name = x.name /\ devices_[d][i].ip = x.ip)
  BY <1>1, <1>3 DEF Known, Same
<1> HIDE DEF x
<1>5. devices_ \in [Devices -> Seq(DeviceInfo)] /\ n \in Nat
  BY DEF DInv, TypeOK
<1>6. \A e \in Devices \ {d} : devices_'[e] = devices_[e]
  BY <1>1, <1>5
<1>7. /\ devices_'[d] \in Seq(DeviceInfo)
      /\ Len(devices_'[d]) = n + 1
      /\ \A i \in 1..n : devices_'[d][i] = devices_[d][i]
      /\ devices_'[d][n + 1] = x
  BY <1>1, <1>2, <1>5
<1>8. devices_' \in [Devices -> Seq(DeviceInfo)]
  BY <1>1, <1>5, <1>6, <1>7
<1> HIDE DEF n
<1>9. \A i \in 1..(n + 1) : i \in 1..n \/ i = n + 1
  BY <1>5
<1>10. TypeOK' /\ \A e \in Devices : Honest(e)'
  BY <1>1, <1>6, <1>8, TakeInv DEF DInv, TypeOK, Running
<1>11. ListedOnce'
  <2> SUFFICES ASSUME NEW e \in Devices,
                      NEW i \in 1..Len(devices_'[e]), NEW j \in 1..Len(devices_'[e]),
                      devices_'[e][i].name = devices_'[e][j].name,
                      devices_'[e][i].ip = devices_'[e][j].ip
               PROVE  i = j
    BY DEF ListedOnce
  <2>1. CASE e # d
    BY <2>1, <1>6 DEF DInv, ListedOnce
  <2>2. CASE e = d
    <3>1. CASE i \in 1..n /\ j \in 1..n
      BY <3>1, <2>2, <1>7 DEF DInv, ListedOnce, n
    <3>2. CASE i \in 1..n /\ j = n + 1
      BY <3>2, <2>2, <1>4, <1>7
    <3>3. CASE i = n + 1 /\ j \in 1..n
      BY <3>3, <2>2, <1>4, <1>7
    <3> QED BY <3>1, <3>2, <3>3, <2>2, <1>7, <1>9
  <2> QED BY <2>1, <2>2
<1>12. ListedAsAnnounced'
  <2> SUFFICES ASSUME NEW e \in Devices, NEW i \in 1..Len(devices_'[e])
               PROVE  AsAnnounced(devices_'[e][i])
    BY DEF ListedAsAnnounced
  <2>1. CASE e # d
    BY <2>1, <1>6 DEF DInv, ListedAsAnnounced
  <2>2. CASE e = d /\ i \in 1..n
    BY <2>2, <1>7 DEF DInv, ListedAsAnnounced, n
  <2>3. CASE e = d /\ i = n + 1
    BY <2>3, <1>2, <1>7
  <2> QED BY <2>1, <2>2, <2>3, <1>7, <1>9
<1>13. NeverSelf'
  <2> SUFFICES ASSUME NEW e \in Devices, WellNamed(self[e]), NEW i \in 1..Len(devices_'[e])
               PROVE  devices_'[e][i].ip # e
    BY <1>1 DEF NeverSelf
  <2>1. CASE e # d
    BY <2>1, <1>6 DEF DInv, NeverSelf
  <2>2. CASE e = d /\ i \in 1..n
    BY <2>2, <1>7 DEF DInv, NeverSelf, n
  <2>3. CASE e = d /\ i = n + 1
    BY <2>3, <1>2, <1>3, <1>7
  <2> QED BY <2>1, <2>2, <2>3, <1>7, <1>9
<1> QED BY <1>10, <1>11, <1>12, <1>13 DEF DInv

LEMMA NextInv == DInv /\ [Next]_vars => DInv'
<1> SUFFICES ASSUME DInv, [Next]_vars PROVE DInv'
  OBVIOUS
<1>1. CASE UNCHANGED vars
  <2>1. up' = up /\ self' = self /\ inbox' = inbox /\ devices_' = devices_
    BY <1>1 DEF vars
  <2>2. TypeOK' /\ \A d \in Devices : Honest(d)'
    BY <2>1 DEF DInv, TypeOK, Honest
  <2>3. ListedOnce' /\ ListedAsAnnounced'
    BY <2>1 DEF DInv, ListedOnce, ListedAsAnnounced
  <2>4. NeverSelf'
    BY <2>1 DEF DInv, NeverSelf
  <2> QED BY <2>2, <2>3, <2>4 DEF DInv
<1>2. CASE Next
  <2> PICK d \in Devices : \/ Start(d)
                           \/ Stop(d)
                           \/ StopWaits(d)
                           \/ \E reached \in SUBSET Devices : Broadcast(d, reached)
                           \/ Noise(d)
                           \/ Listen(d)
    BY <1>2 DEF Next
  <2>1. CASE Start(d)
    BY <2>1, StartInv
  <2>2. CASE Stop(d)
    BY <2>2, EndInv DEF Stop
  <2>3. CASE StopWaits(d)
    <3>1. /\ up' = [up EXCEPT ![d] = "stopping"]
          /\ self' = self /\ inbox' = inbox /\ devices_' = devices_
      BY <2>3 DEF StopWaits
    <3>2. TypeOK'
      BY <3>1 DEF DInv, TypeOK
    <3>3. \A e \in Devices : Honest(e)'
      BY <3>1 DEF DInv, Honest
    <3>4. ListedOnce' /\ ListedAsAnnounced'
      BY <3>1 DEF DInv, ListedOnce, ListedAsAnnounced
    <3>5. NeverSelf'
      BY <3>1 DEF DInv, NeverSelf
    <3> QED BY <3>2, <3>3, <3>4, <3>5 DEF DInv
  <2>4. ASSUME NEW reached \in SUBSET Devices, Broadcast(d, reached)
        PROVE  DInv'
    <3> DEFINE p == [from |-> d, raw |-> Announcement(self[d])]
    <3>1. p \in Datagram
      <4>1. self[d] \in Setup
        BY DEF DInv, TypeOK
      <4>2. Announcement(self[d]) \in Seq(Field) /\ Announcement(self[d])[1] = Magic
            /\ Len(Announcement(self[d])) = Len(self[d].name) + 4
        BY <4>1, AnnouncementFields
      <4>3. Len(self[d].name) \in Nat
        BY <4>1 DEF Setup
      <4>4. Announcement(self[d]) # <<>>
        BY <4>2, <4>3
      <4> QED BY <4>2, <4>4, DiscoveryAssumption DEF Datagram, Message
    <3>2. Arrive(p, reached) /\ p.from = d /\ p.raw = Announcement(self[d])
      BY <2>4 DEF Broadcast
    <3> HIDE DEF p
    <3> QED BY <3>1, <3>2, ArriveInv
  <2>5. CASE Noise(d)
    <3>1. PICK p \in Foreign : Arrive(p, {d})
      BY <2>5 DEF Noise
    <3>2. p \in Datagram /\ p.from \notin Devices
      BY DiscoveryAssumption
    <3> QED BY <3>1, <3>2, ArriveInv
  <2>6. CASE ListenNew(d)
    BY <2>6, ListenNewInv
  <2>7. CASE ListenIgnored(d)
    BY <2>7, ListenIgnoredInv
  <2>8. CASE ListenThrows(d)
    BY <2>8, EndInv DEF ListenThrows
  <2>9. CASE ListenLast(d)
    BY <2>9, EndInv DEF ListenLast
  <2> QED BY <2>1, <2>2, <2>3, <2>4, <2>5, <2>6, <2>7, <2>8, <2>9 DEF Listen
<1> QED BY <1>1, <1>2

(* DInv always holds. *)
THEOREM DiscoveryInvariance == Spec => []DInv
BY InitInv, NextInv, PTL DEF Spec

(* The types, whatever arrives and whoever starts and stops when. *)
THEOREM DiscoveryTypes == Spec => []TypeOK
<1>1. DInv => TypeOK
  BY DEF DInv
<1> QED BY <1>1, DiscoveryInvariance, PTL

(* A device's list has no name and address twice. *)
THEOREM NobodyTwice == Spec => []ListedOnce
<1>1. DInv => ListedOnce
  BY DEF DInv
<1> QED BY <1>1, DiscoveryInvariance, PTL

(* An entry is what its address announces in one of its set-ups. *)
THEOREM NothingInvented == Spec => []ListedAsAnnounced
<1>1. DInv => ListedAsAnnounced
  BY DEF DInv
<1> QED BY <1>1, DiscoveryInvariance, PTL

(* A device never lists itself. *)
THEOREM NotItself == Spec => []NeverSelf
<1>1. DInv => NeverSelf
  BY DEF DInv
<1> QED BY <1>1, DiscoveryInvariance, PTL
-----------------------------------------------------------------------------
(* What ends a listener *)

(* No modelled device has a colon in a name it runs under, and nothing     *)
(* that comes from elsewhere makes a parser throw.                         *)
NoColons == /\ \A d \in Devices : \A s \in Setups[d] : WellNamed(s)
            /\ \A p \in Foreign : ParseDiscovery(p.raw).status # "throws"

Harmless(raw) == ParseDiscovery(raw).status # "throws"

(* Nothing that waits at a socket throws, and no listener was ended. *)
CalmInv == /\ \A d \in Devices : \A i \in 1..Len(inbox[d]) : Harmless(inbox[d][i].raw)
           /\ \A d \in Devices : up[d] # "terminated"

LEMMA AnnouncedHarmless ==
  ASSUME NoColons, NEW d \in Devices, NEW s \in Setups[d]
  PROVE  Harmless(Announcement(s))
<1>1. s \in Setup /\ WellNamed(s)
  BY SetupTypes DEF NoColons
<1>2. ParseDiscovery(Announcement(s)).status = "ok"
  BY <1>1, DiscoveryRoundTrip
<1> QED BY <1>2 DEF Harmless

LEMMA ArriveCalm ==
  ASSUME TypeOK, CalmInv, NEW p, Harmless(p.raw),
         NEW reached \in SUBSET Devices, Arrive(p, reached)
  PROVE  CalmInv'
<1>1. up' = up /\ \A e \in Devices :
        inbox'[e] = IF e \in reached THEN Append(inbox[e], p) ELSE inbox[e]
  BY DEF Arrive
<1>2. ASSUME NEW e \in Devices, NEW i \in 1..Len(inbox'[e])
      PROVE  Harmless(inbox'[e][i].raw)
  <2>1. CASE e \notin reached
    BY <2>1, <1>1, <1>2 DEF CalmInv
  <2>2. CASE e \in reached
    <3>1. inbox[e] \in Seq(Datagram) /\ inbox'[e] = Append(inbox[e], p)
      BY <2>2, <1>1 DEF TypeOK
    <3>2. /\ Len(inbox'[e]) = Len(inbox[e]) + 1 /\ Len(inbox[e]) \in Nat
          /\ \A j \in 1..Len(inbox[e]) : inbox'[e][j] = inbox[e][j]
          /\ inbox'[e][Len(inbox[e]) + 1] = p
      BY <3>1
    <3>3. i \in 1..Len(inbox[e]) \/ i = Len(inbox[e]) + 1
      BY <1>2, <3>2
    <3> QED BY <3>2, <3>3 DEF CalmInv
  <2> QED BY <2>1, <2>2
<1> QED BY <1>1, <1>2 DEF CalmInv

LEMMA EndCalm ==
  ASSUME TypeOK, CalmInv, NEW d \in Devices, End(d, "off")
  PROVE  CalmInv'
<1>1. /\ up' = [up EXCEPT ![d] = "off"]
      /\ inbox' = [inbox EXCEPT ![d] = <<>>]
  BY DEF End
<1>2. \A e \in Devices : /\ up'[e] # "terminated"
                         /\ inbox'[e] = IF e = d THEN <<>> ELSE inbox[e]
  BY <1>1 DEF TypeOK, CalmInv
<1> QED BY <1>2 DEF CalmInv

LEMMA TakeCalm ==
  ASSUME DInv, CalmInv, NEW d \in Devices, Take(d), up' = up
  PROVE  CalmInv'
<1>1. /\ \A e \in Devices \ {d} : inbox'[e] = inbox[e]
      /\ \A i \in 1..Len(inbox'[d]) : i + 1 \in 1..Len(inbox[d]) /\ inbox'[d][i] = inbox[d][i + 1]
  BY TakeFacts DEF DInv
<1>2. ASSUME NEW e \in Devices, NEW i \in 1..Len(inbox'[e])
      PROVE  Harmless(inbox'[e][i].raw)
  <2>1. CASE e # d
    BY <2>1, <1>1, <1>2 DEF CalmInv
  <2>2. CASE e = d
    <3>1. i + 1 \in 1..Len(inbox[d]) /\ inbox'[d][i] = inbox[d][i + 1]
      BY <2>2, <1>1, <1>2
    <3> QED BY <3>1, <2>2 DEF CalmInv
  <2> QED BY <2>1, <2>2
<1> QED BY <1>2 DEF CalmInv

LEMMA NextCalm == NoColons /\ DInv /\ CalmInv /\ [Next]_vars => CalmInv'
<1> SUFFICES ASSUME NoColons, DInv, CalmInv, [Next]_vars PROVE CalmInv'
  OBVIOUS
<1>1. CASE UNCHANGED vars
  BY <1>1 DEF vars, CalmInv
<1>2. CASE Next
  <2> PICK d \in Devices : \/ Start(d)
                           \/ Stop(d)
                           \/ StopWaits(d)
                           \/ \E reached \in SUBSET Devices : Broadcast(d, reached)
                           \/ Noise(d)
                           \/ Listen(d)
    BY <1>2 DEF Next
  <2>t. TypeOK
    BY DEF DInv
  <2>1. CASE Start(d) \/ StopWaits(d)
    <3>1. inbox' = inbox
      BY <2>1 DEF Start, StopWaits
    <3>2. up' = [up EXCEPT ![d] = "running"] \/ up' = [up EXCEPT ![d] = "stopping"]
      BY <2>1 DEF Start, StopWaits
    <3> QED BY <3>1, <3>2, <2>t DEF CalmInv, TypeOK
  <2>2. CASE Stop(d)
    BY <2>2, <2>t, EndCalm DEF Stop
  <2>3. ASSUME NEW reached \in SUBSET Devices, Broadcast(d, reached)
        PROVE  CalmInv'
    <3>1. self[d] \in Setups[d]
      BY <2>t DEF TypeOK
    <3> DEFINE p == [from |-> d, raw |-> Announcement(self[d])]
    <3>2. Harmless(p.raw)
      BY <3>1, AnnouncedHarmless
    <3>3. Arrive(p, reached)
      BY <2>3 DEF Broadcast
    <3> HIDE DEF p
    <3> QED BY <3>2, <3>3, <2>t, ArriveCalm
  <2>4. CASE Noise(d)
    <3>1. PICK p \in Foreign : Arrive(p, {d})
      BY <2>4 DEF Noise
    <3>2. Harmless(p.raw)
      BY DEF NoColons, Harmless
    <3> QED BY <3>1, <3>2, <2>t, ArriveCalm
  <2>5. CASE ListenNew(d) \/ ListenIgnored(d)
    BY <2>5, TakeCalm DEF ListenNew, ListenIgnored
  <2>6. CASE ListenThrows(d)
    <3>1. inbox[d] # <<>> /\ inbox[d] \in Seq(Datagram) /\ ~Harmless(Head(inbox[d]).raw)
      BY <2>6, <2>t DEF ListenThrows, Info, Harmless, TypeOK
    <3>2. 1 \in 1..Len(inbox[d]) /\ Head(inbox[d]) = inbox[d][1]
      BY <3>1
    <3> QED BY <3>1, <3>2 DEF CalmInv
  <2>7. CASE ListenLast(d)
    BY <2>7, <2>t, EndCalm DEF ListenLast
  <2> QED BY <2>1, <2>2, <2>3, <2>4, <2>5, <2>6, <2>7 DEF Listen
<1> QED BY <1>1, <1>2

(* A colon in a name is the only way the announcements of these programs   *)
(* end a listener: without one, and without other programs whose           *)
(* datagrams throw, no listener ever ends that way, whatever is lost,      *)
(* overtaken or repeated and whoever restarts.                             *)
THEOREM WithoutColonsListenersSurvive == Spec /\ NoColons => []ListenersSurvive
<1>1. Init => CalmInv
  <2>1. Init => \A d \in Devices : inbox[d] = <<>> /\ up[d] = "off"
    BY DEF Init
  <2> QED BY <2>1 DEF CalmInv
<1>2. CalmInv => ListenersSurvive
  BY DEF CalmInv, ListenersSurvive
<1> DEFINE Given == NoColons
<1>3. Given /\ DInv /\ CalmInv /\ [Next]_vars => CalmInv'
  BY NextCalm
<1>4. Given => Given'
  BY DEF NoColons, WellNamed
<1> HIDE DEF Given
<1>5. Spec /\ Given => []ListenersSurvive
  BY <1>1, <1>2, <1>3, <1>4, DiscoveryInvariance, PTL DEF Spec
<1> QED BY <1>5 DEF Given
=============================================================================
