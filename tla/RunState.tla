------------------------------- MODULE RunState -------------------------------
(***************************************************************************)
(* The pure part of internal/run/run.go: the statuses of a run, the table  *)
(* of legal transitions, and the two forms of the wait predicate of a      *)
(* suspended run: waitSatisfied (evaluated by the sweep over the persisted *)
(* child statuses) and satisfyChild (evaluated incrementally as one child  *)
(* terminates).                                                            *)
(***************************************************************************)

\* The terminal statuses.  "expired" is in the table but no code writes it.
Terminal == {"succeeded", "failed", "cancelled", "expired"}

\* run.Status.
Status == {"queued", "running", "requires_action", "waiting"} \cup Terminal

\* A run id that has no row.  Not a status of the code.
Absent == "absent"

IsTerminal(s) == s \in Terminal

\* From each status, the statuses it may move to.
transitions ==
    [s \in Status |->
        CASE s = "queued"          -> {"running", "cancelled", "expired"}
          [] s = "running"         -> {"requires_action", "waiting"} \cup Terminal
          [] s = "requires_action" -> {"running", "cancelled", "expired"}
          [] s = "waiting"         -> {"queued", "cancelled", "expired"}
          [] OTHER                 -> {}]

CanTransition(from, to) == to \in transitions[from]

WaitMode == {"all", "any", "all-fail-fast", "any-success"}

\* The empty WaitMode of a run that is not waiting.
NoMode == "none"

\* The status waitMet reads for a child: a missing row counts as cancelled.
PersistedStatus(s) == IF s = Absent THEN "cancelled" ELSE s

(***************************************************************************)
(* Whether a wait in this mode on these children is met, given st, the     *)
(* persisted status of each run.  The last branch is the default of the    *)
(* switch: "all", and any mode string the binary does not know.            *)
(***************************************************************************)
waitSatisfied(mode, children, st) ==
    LET Done(c) == IsTerminal(PersistedStatus(st[c]))
        Won(c)  == st[c] = "succeeded"
        allTerminal == \A c \in children : Done(c)
    IN  CASE mode = "any"           -> \E c \in children : Done(c)
          [] mode = "all-fail-fast" -> \/ \E c \in children : Done(c) /\ ~Won(c)
                                       \/ allTerminal
          [] mode = "any-success"   -> (\E c \in children : Won(c)) \/ allTerminal
          [] OTHER                  -> allTerminal

\* A mutant: fail-fast forgets the non-success branch, so a doomed fan-out
\* keeps waiting.
satisfyChild_NoFailFast(mode, childStatus, rest) ==
    CASE mode = "any"         -> TRUE
      [] mode = "any-success" -> childStatus = "succeeded" \/ rest = {}
      [] OTHER                -> rest = {}

(***************************************************************************)
(* Whether the wait is met by the termination of one child with this       *)
(* status, when rest is what remains of the wait set once it is removed.   *)
(***************************************************************************)
satisfyChild(mode, childStatus, rest) ==
    CASE mode = "any"           -> TRUE
      [] mode = "all-fail-fast" -> childStatus # "succeeded" \/ rest = {}
      [] mode = "any-success"   -> childStatus = "succeeded" \/ rest = {}
      [] OTHER                  -> rest = {}
===============================================================================
