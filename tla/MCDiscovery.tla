---------------------------- MODULE MCDiscovery ----------------------------
(* Small instances of Discovery. *)
EXTENDS Discovery, TLC

Plain(t) == [text |-> t, num |-> NoNumber]

Device9(name) == [name |-> name, os |-> Plain("os"), tcp_port |-> 9]

Alice == <<Plain("alice")>>
Bob   == <<Plain("bob")>>
Carol == <<Plain("carol")>>
Colon == Bob \o Carol

MCTexts == {"UAIRDROP", "empty", "newline", "decimal", "os", "alice", "bob", "carol"}

(* d1 comes back under another name; d2 has, at times, a colon in its name *)
(* and at times the name of d3, which is not modelled and also sends       *)
(* something that is no announcement.                                      *)
MCAddresses == {"d1", "d2", "d3"}
MCDevices   == {"d1", "d2"}
MCForeign   == {[from |-> "d3", raw |-> raw] : raw \in {SerializeDiscovery(Device9(Bob)), Alice}}
MCSetups    == "d1" :> {Device9(Alice), Device9(Carol)}
            @@ "d2" :> {Device9(Bob), Device9(Colon)}
MCLinks     == {<<"d2", "d1">>, <<"d1", "d2">>}
None        == {}

ColonSetups == "d1" :> {Device9(Alice)} @@ "d2" :> {Device9(Colon)}
=============================================================================
