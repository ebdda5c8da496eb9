------------------------------ MODULE MCHandover ------------------------------
(* Instances of Handover for TLC. *)
EXTENDS Handover

CONSTANTS p1, p2, p3

Three == {p1, p2, p3}

(* No file, and stale ones that name one process or two: up to a renaming of the
   processes, all that there can be. *)
Stale ==
    LET Files(w, k) == [d \in Daemons |-> IF d = "watchdog" THEN w ELSE k]
    IN  {Files(NoFile, NoFile), Files(p1, NoFile), Files(NoFile, p1), Files(p1, p1), Files(p1, p2)}

(* A program by hand; failures; and what /etc/default/watchdog may say. *)
Chosen == {[enabled |-> Daemons, byHand |-> 1, faults |-> 0],
           [enabled |-> Daemons, byHand |-> 0, faults |-> 1],
           [enabled |-> {"watchdog"}, byHand |-> 0, faults |-> 1],
           [enabled |-> {"wd_keepalive"}, byHand |-> 0, faults |-> 0]}
=============================================================================
