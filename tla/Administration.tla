--------------------------- MODULE Administration ---------------------------
(***************************************************************************)
(* What an organisation may rely on when its users are administered: every *)
(* version of a membership is one that was asked for, of the version it    *)
(* was asked of, an administrator remains, and an operation is reported as *)
(* completed once, after what it asked for is in the row, in the audit     *)
(* trail and behind the sessions.  Nothing is said of calls, stages,       *)
(* checkpoints, approvals or Cognito.                                      *)
(***************************************************************************)
EXTENDS Naturals, Sequences

CONSTANTS Members, Ops,  \* subjects and idempotency keys
          Admin,         \* the role of an administrator
          Commands,      \* the commands that may be asked for
          Seed           \* the rows at first

VARIABLES asked,         \* the command of each key
          rows,          \* each the sequence of its versions
          sessions,      \* version at the last sign-out of the member
          logged,        \* operations in the audit trail
          done           \* operations reported as completed

administrationVars == <<asked, rows, sessions, logged, done>>

Init ==
  /\ asked \in [Ops -> Commands]
  /\ rows = Seed
  /\ sessions = [m \in Members |-> 0]
  /\ logged = {} /\ done = {}

AdminIn(row) ==
  row # << >> /\ row[Len(row)].state = "active" /\ row[Len(row)].role = Admin

(* The state a kind of operation leads to from a state, where it may.      *)
Change ==
  [invite            |-> [none |-> "invited"],
   resend_invitation |-> [invited |-> "invited"],
   activate          |-> [invited |-> "active"],
   suspend           |-> [active |-> "suspended"],
   reactivate        |-> [suspended |-> "active"],
   revoke            |-> [active |-> "revoked"],
   change_role       |-> [active |-> "active"],
   revoke_sessions   |-> [active |-> "active", suspended |-> "suspended"]]

(* The version x asks for of the first x.version versions of a row.        *)
Wanted(x, row) ==
  LET from == IF x.kind = "invite" THEN "none" ELSE row[x.version].state IN
  [state |-> Change[x.kind][from],
   role  |-> IF x.kind \in {"invite", "change_role"} THEN x.role ELSE row[x.version].role]

Askable(x, row) ==
  /\ Len(row) >= x.version
  /\ x.kind # "invite" =>
       x.version > 0 /\ row[x.version].state \in DOMAIN Change[x.kind]

(* Who changes a membership ends the sessions that rest on the old one.    *)
EndsSessions == {"change_role", "suspend", "reactivate", "revoke", "revoke_sessions"}

Write(o) ==
  LET x == asked[o]
      m == x.target
      new == Wanted(x, rows[m])
  IN /\ Askable(x, rows[m]) /\ Len(rows[m]) = x.version
     /\ rows' = [rows EXCEPT ![m] =
                   Append(@, [state |-> new.state, role |-> new.role, by |-> o])]
     /\ \E a \in Members : AdminIn(rows'[a])
     /\ UNCHANGED <<asked, sessions, logged, done>>

SignOut(m) ==
  /\ sessions' = [sessions EXCEPT ![m] = Len(rows[m])]
  /\ UNCHANGED <<asked, rows, logged, done>>

Log(o) ==
  /\ logged' = logged \cup {o}
  /\ UNCHANGED <<asked, rows, sessions, done>>

(* What o asked for is there, whoever wrote it.                            *)
Granted(o) ==
  LET x == asked[o]
      row == rows[x.target]
      new == Wanted(x, row)
  IN /\ Askable(x, row) /\ Len(row) > x.version
     /\ row[x.version + 1].state = new.state
     /\ row[x.version + 1].role = new.role

Complete(o) ==
  /\ o \notin done
  /\ Granted(o) /\ o \in logged
  /\ asked[o].kind \in EndsSessions => sessions[asked[o].target] > asked[o].version
  /\ done' = done \cup {o}
  /\ UNCHANGED <<asked, rows, sessions, logged>>

Next ==
  \/ \E o \in Ops : Write(o) \/ Log(o) \/ Complete(o)
  \/ \E m \in Members : SignOut(m)

Spec == Init /\ [][Next]_administrationVars
=============================================================================
