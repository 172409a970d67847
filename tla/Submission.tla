----------------------------- MODULE Submission -----------------------------
(***************************************************************************)
(* What a caller of submit() may rely on, without providers, sequence      *)
(* numbers or deadlines: a transaction reported as successful has landed.  *)
(* Nothing is promised of one reported as failed: it may land all the      *)
(* same, before the report or after it.                                    *)
(***************************************************************************)
CONSTANT Txs

VARIABLES
  sent,     \* transactions handed to the network
  landed,   \* transactions that took effect on the ledger
  report    \* what the caller was told of each

vars == <<sent, landed, report>>

Init == sent = {} /\ landed = {} /\ report = [t \in Txs |-> "none"]

Send(t)    == sent' = sent \cup {t} /\ UNCHANGED <<landed, report>>
Decline(t) == t \notin sent /\ report' = [report EXCEPT ![t] = "declined"]
                            /\ UNCHANGED <<sent, landed>>
Land(t)    == t \in sent /\ landed' = landed \cup {t} /\ UNCHANGED <<sent, report>>

Report(t, verdict) ==
  /\ t \in sent /\ report[t] = "none"
  /\ verdict = "success" => t \in landed
  /\ report' = [report EXCEPT ![t] = verdict]
  /\ UNCHANGED <<sent, landed>>

Next ==
  \E t \in Txs :
    \/ Send(t) \/ Decline(t) \/ Land(t)
    \/ \E verdict \in {"success", "error"} : Report(t, verdict)

Spec == Init /\ [][Next]_vars
=============================================================================
