----------------------------- MODULE ToolCalls -----------------------------
(***************************************************************************)
(* What the Turn Broker promises about tool calls, and nothing of how: a   *)
(* call is queued, handed to the owner together with everything queued for *)
(* its turn, and answered by the owner; a compaction answers everything    *)
(* that was not handed out yet; a turn that goes away rejects everything   *)
(* outstanding.  A settled call is never heard of again.                   *)
(***************************************************************************)
CONSTANTS Tokens, Calls

VARIABLE status  \* status[t][x]: call x of turn t

States == {"none", "queued", "delivered", "result", "compacted", "rejected"}

Init == status = [t \in Tokens |-> [x \in Calls |-> "none"]]

\* The calls of turn s that are in state "from" are moved to state "to".
Moved(s, from, to) == [x \in Calls |-> IF s[x] = from THEN to ELSE s[x]]

Rejected(s) == Moved(Moved(s, "queued", "rejected"), "delivered", "rejected")

\* Any set of turns may go away (expire, be revoked) in a step, whatever else it does.
Without(gone) == [t \in Tokens |-> IF t \in gone THEN Rejected(status[t]) ELSE status[t]]

\* Turn t moves to next while the turns of gone go away.
Step(gone, t, next) == status' = [Without(gone) EXCEPT ![t] = next]

Next ==
  \E gone \in SUBSET Tokens :
    \/ status' = Without(gone)
    \/ \E t \in Tokens \ gone :
         \/ Step(gone, t, Moved(status[t], "queued", "delivered"))
         \/ Step(gone, t, Moved(status[t], "queued", "compacted"))
         \/ \E x \in Calls :
              \/ /\ status[t][x] = "none"
                 /\ \E to \in {"queued", "compacted"} :
                      Step(gone, t, [status[t] EXCEPT ![x] = to])
              \/ /\ status[t][x] = "delivered"
                 /\ Step(gone, t, [status[t] EXCEPT ![x] = "result"])

Spec == Init /\ [][Next]_status
=============================================================================
