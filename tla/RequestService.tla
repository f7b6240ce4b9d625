--------------------------- MODULE RequestService ---------------------------
(***************************************************************************)
(* What a trace replay promises of its requests: each one is sent at most  *)
(* once and recorded at most once, only after it was sent, and the summary *)
(* written at the end counts exactly the recorded ones.                    *)
(***************************************************************************)
EXTENDS Naturals, FiniteSets

CONSTANTS Requests, NoSummary

VARIABLES
    status,             \* per request, how far it is
    summary             \* the total in the summary, once it is written

serviceVars == <<status, summary>>

Init ==
    /\ status = [r \in Requests |-> "new"]
    /\ summary = NoSummary

Submit(r) ==
    /\ status[r] = "new"
    /\ status' = [status EXCEPT ![r] = "submitted"]
    /\ UNCHANGED summary

Record(r) ==
    /\ status[r] = "submitted"
    /\ summary = NoSummary
    /\ status' = [status EXCEPT ![r] = "recorded"]
    /\ UNCHANGED summary

Summarize ==
    /\ summary = NoSummary
    /\ summary' = Cardinality({r \in Requests : status[r] = "recorded"})
    /\ UNCHANGED status

Next == (\E r \in Requests : Submit(r) \/ Record(r)) \/ Summarize

Spec == Init /\ [][Next]_serviceVars
=============================================================================
