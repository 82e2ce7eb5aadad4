----------------------------- MODULE RunLifecycle -----------------------------
(***************************************************************************)
(* What the run store promises, without leases, workers or wait sets that  *)
(* shrink: every run walks the state machine of run.go, and a run that was *)
(* parked on a set of children in a mode goes back to the queue only when  *)
(* that wait, judged over ALL the children it was parked on, is satisfied, *)
(* and then it does go back.  Until it is claimed again it remembers the   *)
(* children whose outcomes it goes back with.                              *)
(***************************************************************************)
EXTENDS RunState

CONSTANTS
    Runs,       \* the run ids
    ParentOf,   \* the parent of each run (a SpawnRunID is a hash of it)
    NoRun       \* the parent of a root run

VARIABLES
    status,     \* the status of each run, or Absent
    parkedOn,   \* the children a waiting or a woken run was parked on
    parkMode    \* the mode in which it waits

vars == <<status, parkedOn, parkMode>>

Init ==
    /\ status = [r \in Runs |-> Absent]
    /\ parkedOn = [r \in Runs |-> {}]
    /\ parkMode = [r \in Runs |-> NoMode]

\* r remembers no children.
Unpark(r) ==
    /\ parkedOn' = [parkedOn EXCEPT ![r] = {}]
    /\ parkMode' = [parkMode EXCEPT ![r] = NoMode]

Create(r) ==
    /\ status[r] = Absent
    /\ status' = [status EXCEPT ![r] = "queued"]
    /\ UNCHANGED <<parkedOn, parkMode>>

\* A move of the state machine that neither parks nor wakes.
Move(r, to) ==
    /\ status[r] \in Status
    /\ CanTransition(status[r], to)
    /\ to \notin {"waiting", "queued"}
    /\ status' = [status EXCEPT ![r] = to]
    /\ Unpark(r)

\* r is parked on children; those that do not exist yet are created queued.
\* A run that is already waiting may be parked anew.
Park(r, children, mode) ==
    /\ status[r] \in {"running", "waiting"}
    /\ children # {} /\ r \notin children
    /\ status' = [x \in Runs |->
                    CASE x = r -> "waiting"
                      [] x \in children /\ status[x] = Absent -> "queued"
                      [] OTHER -> status[x]]
    /\ parkedOn' = [parkedOn EXCEPT ![r] = children]
    /\ parkMode' = [parkMode EXCEPT ![r] = mode]

\* Parking on children that are all terminal re-queues at once.
ParkMet(r, children) ==
    /\ status[r] \in {"running", "waiting"}
    /\ children # {}
    /\ \A c \in children : status[c] \in Terminal
    /\ status' = [status EXCEPT ![r] = "queued"]
    /\ parkedOn' = [parkedOn EXCEPT ![r] = children]
    /\ parkMode' = [parkMode EXCEPT ![r] = NoMode]

Wake(r) ==
    /\ status[r] = "waiting"
    /\ waitSatisfied(parkMode[r], parkedOn[r], status)
    /\ status' = [status EXCEPT ![r] = "queued"]
    /\ parkMode' = [parkMode EXCEPT ![r] = NoMode]
    /\ UNCHANGED parkedOn

\* A child terminates and the parent whose wait this satisfies is woken in
\* the same step.
FinishAndWake(c, to) ==
    LET p == ParentOf[c]
        st == [status EXCEPT ![c] = to]
    IN  /\ status[c] \in Status /\ to \in Terminal
        /\ CanTransition(status[c], to)
        /\ p \in Runs /\ p # c /\ status[p] = "waiting" /\ c \in parkedOn[p]
        /\ waitSatisfied(parkMode[p], parkedOn[p], st)
        /\ status' = [st EXCEPT ![p] = "queued"]
        /\ parkedOn' = [parkedOn EXCEPT ![c] = {}]
        /\ parkMode' = [parkMode EXCEPT ![c] = NoMode, ![p] = NoMode]

Next ==
    \E r \in Runs :
        \/ Create(r)
        \/ \E to \in Status : Move(r, to) \/ FinishAndWake(r, to)
        \/ \E children \in SUBSET Runs :
               \/ \E mode \in WaitMode : Park(r, children, mode)
               \/ ParkMet(r, children)
        \/ Wake(r)

Spec == Init /\ [][Next]_vars

\* A due wait does not stay due for ever.
FairSpec == Spec /\ \A r \in Runs : WF_vars(Wake(r))
===============================================================================
