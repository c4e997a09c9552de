---------------------------- MODULE ProcessLife ----------------------------
(***************************************************************************)
(* What StageZero promises a client about one set of processes, whatever   *)
(* kind they are: a process is launched once; its start, if it is told, is *)
(* told once and before its stop; its stop is told once, and only when the *)
(* process has exited or is out of StageZero's reach.  Capcom's state      *)
(* machine (Subsystem) relies on exactly this.                             *)
(***************************************************************************)
CONSTANT Process
VARIABLES phase,   \* what the client has been told of each process
          over     \* the processes that have exited or are out of reach

lifeVars == <<phase, over>>

Phase == {"none", "launched", "started", "stopped"}

Init == phase = [p \in Process |-> "none"] /\ over = {}

Launch(p) ==
    /\ phase[p] = "none"
    /\ phase' = [phase EXCEPT ![p] = "launched"]
    /\ UNCHANGED over

TellStart(p) ==
    /\ phase[p] = "launched"
    /\ phase' = [phase EXCEPT ![p] = "started"]
    /\ UNCHANGED over

TellStop(p) ==
    /\ phase[p] \in {"launched", "started"}
    /\ p \in over
    /\ phase' = [phase EXCEPT ![p] = "stopped"]
    /\ UNCHANGED over

\* Exits come at any time, several at once when a client's processes are
\* killed, and never before the launch.
End ==
    /\ \E S \in SUBSET {p \in Process : phase[p] # "none"} : over' = over \cup S
    /\ UNCHANGED phase

Next ==
    \/ \E p \in Process : Launch(p) \/ TellStart(p) \/ TellStop(p)
    \/ End

Spec == Init /\ [][Next]_lifeVars
=============================================================================
