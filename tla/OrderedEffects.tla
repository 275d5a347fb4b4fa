--------------------------- MODULE OrderedEffects ---------------------------
(***************************************************************************)
(* What the plan of a change promises its operator, whoever runs it (the   *)
(* docstring of platform_authority_gug365_phase_execution_ledger.py): an   *)
(* operation is sent once, after everything before it was reported a       *)
(* success, and every report is made once and is true.  Nothing is said of *)
(* processes, leases, files, versions or recovery.                         *)
(***************************************************************************)
EXTENDS Naturals

CONSTANTS NPhases,  \* phases of the plan
          OpCount   \* number of operations of each phase

VARIABLES effect,   \* what became of an operation at the provider
          report,   \* what its ledger says of it
          closed    \* the phase's window has passed

effectVars == <<effect, report, closed>>

Phases == 1 .. NPhases
Ops(l) == 1 .. OpCount[l]

Init ==
  /\ effect = [l \in Phases |-> [s \in Ops(l) |-> "unsent"]]
  /\ report = [l \in Phases |-> [s \in Ops(l) |-> "none"]]
  /\ closed = [l \in Phases |-> FALSE]

(* It is the turn of an operation without a report when all operations     *)
(* before it succeeded, those of the phase before in a window that passed. *)
Turn(l, s) ==
  /\ report[l][s] = "none"
  /\ \A t \in Ops(l) : t < s => report[l][t] = "SUCCEEDED"
  /\ \A k \in Phases :
       k + 1 = l => closed[k] /\ \A t \in Ops(k) : report[k][t] = "SUCCEEDED"

Send(l, s) ==
  /\ Turn(l, s)
  /\ effect[l][s] = "unsent"
  /\ effect' = [effect EXCEPT ![l][s] = "open"]
  /\ UNCHANGED <<report, closed>>

(* The provider carries the operation out, maybe too late, or refuses it.  *)
Settle(l, s) ==
  /\ effect[l][s] = "open"
  /\ \E e \in {"refused", IF closed[l] THEN "late" ELSE "done"} :
        effect' = [effect EXCEPT ![l][s] = e]
  /\ UNCHANGED <<report, closed>>

(* A success or a failure is reported when it is one.                      *)
Report(l, s) ==
  /\ Turn(l, s)
  /\ \E r \in {"SUCCEEDED", "FAILED", "AMBIGUOUS"} :
        /\ r = "SUCCEEDED" => effect[l][s] = "done"
        /\ r = "FAILED" => effect[l][s] = "refused"
        /\ report' = [report EXCEPT ![l][s] = r]
  /\ UNCHANGED <<effect, closed>>

Close(l) ==
  /\ ~closed[l]
  /\ closed' = [closed EXCEPT ![l] = TRUE]
  /\ UNCHANGED <<effect, report>>

Next ==
  \E l \in Phases :
    \/ Close(l)
    \/ \E s \in Ops(l) : Send(l, s) \/ Settle(l, s) \/ Report(l, s)

Spec == Init /\ [][Next]_effectVars
=============================================================================
