------------------------------ MODULE RollingLog ------------------------------
(***************************************************************************)
(* What the heartbeat file promises: the last N events, oldest first.      *)
(* "any gaps in this will indicate a reboot" (src/heartbeat.c:88).         *)
(***************************************************************************)
EXTENDS Naturals, Sequences

CONSTANTS
    N,
    Stamp, Restart,
    Torn            \* a line that was written in part

VARIABLES
    log,        \* the last N events
    file        \* what of it is on the disk

LastN(s) == SubSeq(s, IF Len(s) > N THEN Len(s) - N + 1 ELSE 1, Len(s))

Line == Stamp \cup {Restart, Torn}

TypeOK == /\ log \in Seq(Line) /\ Len(log) <= N
          /\ file \in Seq(Line) /\ Len(file) <= N

Init == TypeOK /\ log = file

(* A start of the daemon goes on from the file. *)
Start == log' = LastN(Append(file, Restart)) /\ UNCHANGED file

(* A write of the log that failed somewhere: the file is not shortened and does
   not outgrow the log, and each of its lines is torn, or an event of the log that
   belongs there or further on, or what was there before. *)
Damaged ==
    /\ file' \in Seq(Line) /\ Len(file) <= Len(file') /\ Len(file') <= Len(log')
    /\ \A i \in 1 .. Len(file') :
          \/ file'[i] = Torn
          \/ \E j \in i .. Len(log') : file'[i] = log'[j]
          \/ i <= Len(file) /\ file'[i] = file[i]

(* A heartbeat: the file becomes the log, whatever it was, unless that fails. *)
Beat == \E t \in Stamp : log' = LastN(Append(log, t)) /\ (file' = log' \/ Damaged)

(* What is not in the file is lost. *)
Stop == log' = file /\ UNCHANGED file

Next == Start \/ Beat \/ Stop

Spec == Init /\ [][Next]_<<log, file>>
=============================================================================
