----------------------------- MODULE TurnStore ------------------------------
(***************************************************************************)
(* What the store of /v1/responses promises of each response's record: a     *)
(* background response is queued first, each response is settled at most     *)
(* once, by whichever writer comes first, and a record that is gone does not *)
(* come back.  ResponseLog implements it.                                    *)
(***************************************************************************)
CONSTANTS Ids, Background

VARIABLE status

Final == {"completed", "failed", "cancelled"}

Init == status = [i \in Ids |-> "absent"]

Queue(i) ==
  /\ i \in Background /\ status[i] = "absent"
  /\ status' = [status EXCEPT ![i] = "queued"]

Settle(i, s) ==
  /\ status[i] = IF i \in Background THEN "queued" ELSE "absent"
  /\ status' = [status EXCEPT ![i] = s]

Remove(i) ==
  /\ status[i] \notin {"absent", "gone"}
  /\ status' = [status EXCEPT ![i] = "gone"]

Next == \E i \in Ids : Queue(i) \/ Remove(i) \/ \E s \in Final : Settle(i, s)

Spec == Init /\ [][Next]_status
=============================================================================
