----------------------------- MODULE MCTransfer -----------------------------
(***************************************************************************)
(* Small instances of Transfer.  One byte of salt, IV and tag, a header of *)
(* two bytes, pieces of two bytes and a receive buffer of three: a recv()  *)
(* can end inside the header, bring its last byte alone, or bring one or   *)
(* two bytes of payload with it.                                           *)
(***************************************************************************)
EXTENDS Transfer, TLC

Plain(t)   == [text |-> t, num |-> NoNumber]
Numeric(n) == [text |-> "n" \o ToString(n), num |-> n]

A == <<Plain("a")>>
B == <<Plain("b")>>

MCTexts == {"UAIRDROP", "empty", "newline", "decimal",
            "a", "b", "x", "n1", "n4", "n9"}
MCNames == {Plain("a"), Plain("b")}

File(name, len, pass) == [name |-> name, len |-> len, pass |-> pass]

Pair(f, g) == "c1" :> f @@ "c2" :> g

MCCalls == {"c1", "c2"}

(* Plain and encrypted, own and shared names, the right passphrase and a   *)
(* wrong one, the empty file.                                              *)
CleanPairs ==
  {Pair(File(A, 2, NoPass), File(B, 1, "k")),
   Pair(File(A, 3, NoPass), File(A, 2, NoPass)),
   Pair(File(A, 2, "k"), File(A, 2, "wrong")),
   Pair(File(A, 0, "k"), File(B, 0, NoPass))}

(* A colon in the name: stoull throws, reads a smaller size, a larger one, *)
(* one no vector can have; a newline in the name, without and with a size  *)
(* before it, so that the rest of the header is taken for payload.         *)
OddNames == {A \o <<Plain("x")>>, A \o <<Numeric(1)>>, A \o <<Numeric(4)>>,
             A \o <<Numeric(9)>>, A \o <<Newline, Plain("x")>>,
             A \o <<Numeric(1), Newline, Plain("x")>>}

OddPairs ==
  {Pair(File(n, 2, NoPass), File(B, 1, NoPass)) : n \in OddNames}
    \cup {Pair(File(A \o <<Numeric(4)>>, 1, "k"), File(B, 9, "k")),
          Pair(File(A \o <<Numeric(4), Newline, Plain("x")>>, 1, "k"), File(B, 1, NoPass))}

(* A name that announces more than is sent, next to a clean one. *)
ColonPairs == {Pair(File(A \o <<Numeric(4)>>, 2, NoPass), File(B, 1, NoPass))}

(* For liveness: one file of each kind, short, to the same name. *)
ShortPairs == {Pair(File(A, 2, NoPass), File(A, 1, "k"))}

AllPairs == CleanPairs \cup OddPairs
=============================================================================
