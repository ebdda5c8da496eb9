----------------------------- MODULE MCTestBinary -----------------------------
(* Instances of TestBinary for TLC: two test programs, two or three PIDs,
   and a time-out of one second. *)
EXTENDS TestBinary

Programs == <<"sensor", "disk">>

(* success, a failure, a fatal signal *)
Endings == {Exited(0), Exited(1), Signaled(SIGKILL)}

(* one exit code, where a property does not tell them apart *)
FewEndings == {Exited(1), Signaled(SIGKILL)}

(* When PIDs are reused, entries are left behind on the list and it grows
   without limit; longer lists are not explored. *)
MaxEntries == 3
ListBound  == Len(process_head) <= MaxEntries

(* PIDs are interchangeable. *)
PidSymmetry == Permutations(Pid)
=============================================================================
