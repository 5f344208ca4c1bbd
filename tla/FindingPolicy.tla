---------------------------- MODULE FindingPolicy ----------------------------
(***************************************************************************)
(* What the finding lifecycle promises, without runs, statements or        *)
(* events: the status of a finding follows what is detected, and an        *)
(* analyst's decision stays in force until an analyst changes it           *)
(* (internal/detection/lifecycle.go).  FindingLifecycle implements it.     *)
(***************************************************************************)
CONSTANTS Finding, NONE

OpenStates == {"open", "reopened"}
DecidedStates == {"accepted_risk", "false_positive"}
States == OpenStates \cup DecidedStates \cup {"resolved"}

VARIABLES status,   \* a finding's state; "absent" before its first detection
          decision  \* the last state an analyst gave it, or NONE

Init ==
    /\ status \in [Finding -> States \cup {"absent"}]
    /\ decision = [f \in Finding |-> IF status[f] \in DecidedStates THEN status[f] ELSE NONE]

(* A condition is seen for the first time, or again after it had gone.     *)
Detect(f) ==
    /\ \/ status[f] = "absent" /\ status' = [status EXCEPT ![f] = "open"]
       \/ status[f] = "resolved" /\ status' = [status EXCEPT ![f] = "reopened"]
    /\ UNCHANGED decision

(* Conditions that were open are no longer seen.                           *)
Miss(gone) ==
    /\ gone \subseteq {f \in Finding : status[f] \in OpenStates}
    /\ status' = [f \in Finding |-> IF f \in gone THEN "resolved" ELSE status[f]]
    /\ UNCHANGED decision

(* An analyst gives a known finding a state.                               *)
Decide(f, state) ==
    /\ status[f] # "absent"
    /\ status' = [status EXCEPT ![f] = state]
    /\ decision' = [decision EXCEPT ![f] = state]

Next ==
    \/ \E f \in Finding : Detect(f)
    \/ \E gone \in SUBSET Finding : Miss(gone)
    \/ \E f \in Finding, state \in States : Decide(f, state)

Spec == Init /\ [][Next]_<<status, decision>>
=============================================================================
