------------------------------ MODULE Delivery ------------------------------
(***************************************************************************)
(* What sending files promises, without connections, threads or bytes.     *)
(* Every call of send_file ends once: with true, with false, or by an      *)
(* exception or a signal ("aborted").  It ends with true only when the     *)
(* receiver has saved the whole file.  The converse is not promised: a     *)
(* file may be saved although its sender was told of a failure, or was     *)
(* gone.                                                                   *)
(***************************************************************************)
CONSTANT Calls

VARIABLES outcome, saved

vars == <<outcome, saved>>

TypeOK == /\ outcome \in [Calls -> {"pending", "success", "failure", "aborted"}]
          /\ saved \in [Calls -> BOOLEAN]

Init == /\ outcome = [c \in Calls |-> "pending"]
        /\ saved = [c \in Calls |-> FALSE]

Save(c) == /\ ~saved[c]
           /\ saved' = [saved EXCEPT ![c] = TRUE]
           /\ UNCHANGED outcome

End(c, how) == /\ outcome[c] = "pending"
               /\ how = "success" => saved[c]
               /\ outcome' = [outcome EXCEPT ![c] = how]
               /\ UNCHANGED saved

Finish(c) == \E how \in {"success", "failure", "aborted"} : End(c, how)

Next == \E c \in Calls : Save(c) \/ Finish(c)

Safety == Init /\ [][Next]_vars

Returns == \A c \in Calls : <>(outcome[c] # "pending")

Spec == Safety /\ Returns
=============================================================================
