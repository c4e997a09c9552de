---------------------------- MODULE MCSubsystem ----------------------------
(* Instances of Subsystem for TLC.                                         *)
EXTENDS Subsystem, TLC

CONSTANTS s1, s2, s3, p1, p2, p3, c1, c2

\* Dependency graphs: none; s1 on s2; s1 and s2 on s3.
NoChildren == [s \in Subsystem |-> {}]
Chain == (s1 :> {s2}) @@ (s2 :> {})
Vee == (s1 :> {s3}) @@ (s2 :> {s3}) @@ (s3 :> {})

\* Who owns the processes.
AllInS1 == [s \in Subsystem |-> IF s = s1 THEN Process ELSE {}]
TwoAndOne == [s \in Subsystem |-> IF s = s1 THEN {p1, p2} ELSE {p3}]
OneEach == [s \in Subsystem |-> IF s = s1 THEN {p1} ELSE {p2}]
TopAndShared ==
    [s \in Subsystem |-> CASE s = s1 -> {p1} [] s = s2 -> {} [] s = s3 -> {p3}]

\* Which subsystems a client commands: all, or one each.
Anywhere == [c \in Client |-> Subsystem]
Roots == [c \in Client |-> IF c = c1 THEN {s1} ELSE {s2}]

\* What the clients command: in Visitor, all but c1 only start.
StartOnly == [c \in Client |-> {"Start"}]
StartStop == [c \in Client |-> {"Start", "Stop"}]
AllCommands == [c \in Client |-> {"Start", "Stop", "Restart", "RestartProcesses"}]
Visitor ==
    [c \in Client |-> IF c = c1 THEN {"Start", "Stop", "Restart", "RestartProcesses"} ELSE {"Start"}]
\* c1 commands anything, the others start and stop.
Mixed ==
    [c \in Client |->
        IF c = c1 THEN {"Start", "Stop", "Restart", "RestartProcesses"} ELSE {"Start", "Stop"}]

Automatic == [s \in Subsystem |-> "automatic"]
ProcessOnly == [s \in Subsystem |-> "processOnly"]
OnePolicyEach == [s \in Subsystem |-> IF s = s1 THEN "automatic" ELSE "processOnly"]
=============================================================================
