------------------------------- MODULE Heartbeat -------------------------------
(***************************************************************************)
(* The heartbeat file (src/heartbeat.c): a ring buffer of time stamps that *)
(* open_heartbeat() fills from the file and write_heartbeat(), called by   *)
(* keep_alive(), writes back over the file's beginning.                    *)
(***************************************************************************)
EXTENDS Integers, Sequences

CONSTANTS
    hbstamps,
    OldStamps,      \* the size of the file that is found, at most
    Stamp,          \* the time stamps
    Restart,        \* the line "--restart--"
    Torn,           \* a line that a failing write left half written
    Blank,          \* what xcalloc() fills the buffer with
    OpenMayFail,    \* may the file fail to open?
    WriteMayFail    \* may writing it fail?

ASSUME SizeAssumption   == hbstamps \in Nat \ {0} /\ OldStamps \in Nat
ASSUME StampAssumption  == {Restart, Torn, Blank} \cap Stamp = {} /\ Blank \notin {Restart, Torn}
ASSUME SwitchAssumption == {OpenMayFail, WriteMayFail} \subseteq BOOLEAN

VARIABLES
    hb,                 \* is the file open?
    lastts, nrts, timestamps,
    file                \* the lines of the file

vars == <<hb, lastts, nrts, timestamps, file>>

Line  == Stamp \cup {Restart, Torn}
Index == 0 .. hbstamps - 1

Init ==
    /\ hb = FALSE /\ lastts = 0 /\ nrts = 0
    /\ timestamps = [i \in Index |-> Blank]
    /\ file \in UNION {[1 .. n -> Line] : n \in 0 .. OldStamps}

(* Faulty variants, marked "Faulty", are for mutation runs only. *)
FaultyNextIndex(i) == (i + 1) % (hbstamps + 1)      \* one place too many

(* next_value() *)
NextCount(n) == IF n < hbstamps THEN n + 1 ELSE n
NextIndex(i) == (i + 1) % hbstamps

(* memcpy() of a line to the place of the next one, and next_value() *)
Put(line) ==
    /\ timestamps' = [timestamps EXCEPT ![lastts] = line]
    /\ nrts' = NextCount(nrts)
    /\ lastts' = NextIndex(lastts)

(* open_heartbeat(): the lines of s are put one after the other, whether they
   fit or not: line k goes to place (k - 1) % hbstamps. *)
LastAt(s, i) == LET K == {k \in 1 .. Len(s) : (k - 1) % hbstamps = i}
                IN  IF K = {} THEN Blank ELSE s[CHOOSE k \in K : \A j \in K : j <= k]

open_heartbeat ==
    /\ ~hb
    /\ LET s == Append(file, Restart)
       IN  /\ timestamps' = [i \in Index |-> LastAt(s, i)]
           /\ lastts' = Len(s) % hbstamps
           /\ nrts' = IF Len(s) > hbstamps THEN hbstamps ELSE Len(s)
    /\ hb' = TRUE
    /\ UNCHANGED file

(* A file that cannot be opened is done without; if there is no memory for the
   stamps, fatal_error() ends the daemon and the file is as it was. *)
open_fails == ~hb /\ OpenMayFail /\ UNCHANGED vars

(* What write_heartbeat() writes, after the new line: from the logical start of
   the buffer to its physical end or, as long as it is not full, all of it ... *)
Oldest ==
    IF nrts' = hbstamps
    THEN [i \in 1 .. hbstamps - lastts' |-> timestamps'[lastts' + i - 1]]
    ELSE [i \in 1 .. nrts' |-> timestamps'[i - 1]]

(* ... and, of a full buffer, from its physical start to the logical end. *)
Newest == IF nrts' = hbstamps THEN [i \in 1 .. lastts' |-> timestamps'[i - 1]] ELSE << >>

FaultyImage == Newest \o Oldest         \* the two halves in the wrong order

Image == Oldest \o Newest

(* The file is written over from its beginning and not cut off. *)
Overwritten(img) == img \o SubSeq(file, Len(img) + 1, Len(file))

(* What a failing fwrite(), or the fflush() nobody looks at, gets out of s: some
   lines, and the next one in part.  A torn line counts as one whole line. *)
PartOf(s) == {SubSeq(s, 1, k) : k \in 0 .. Len(s)}
                \cup {Append(SubSeq(s, 1, k), Torn) : k \in 0 .. Len(s) - 1}

(* Each fwrite() may fail on its own: the second goes on where the first stopped,
   and what they do not reach stays as it was.  The caller never hears of it. *)
write_heartbeat ==
    /\ hb
    /\ \E t \in Stamp : Put(t)
    /\ \/ file' = Overwritten(Image)
       \/ /\ WriteMayFail
          /\ \E a \in PartOf(Oldest), b \in PartOf(Newest) : file' = Overwritten(a \o b)
    /\ UNCHANGED hb

(* close_heartbeat(), or the end of the daemon without it *)
close_heartbeat ==
    /\ hb
    /\ hb' = FALSE
    /\ timestamps' = [i \in Index |-> Blank]
    /\ UNCHANGED <<lastts, nrts, file>>

Next == open_heartbeat \/ open_fails \/ write_heartbeat \/ close_heartbeat

Spec == Init /\ [][Next]_vars

-----------------------------------------------------------------------------
(* Properties. *)

(* Every variable has its type. *)
TypeOK ==
    /\ hb \in BOOLEAN
    /\ lastts \in Index /\ nrts \in 0 .. hbstamps
    /\ timestamps \in [Index -> Line \cup {Blank}]
    /\ file \in Seq(Line)

(* The lines of the ring buffer, oldest first. *)
Contents == [i \in 1 .. nrts |-> timestamps[(lastts + hbstamps - nrts + i - 1) % hbstamps]]

(* open_heartbeat() and write_heartbeat() implement the rolling log, across
   stops, restarts and writes that fail half way: those damage the file, within
   bounds, and never the log that the next write puts there. *)
Rolling == INSTANCE RollingLog WITH N <- hbstamps, log <- IF hb THEN Contents ELSE file
ImplementsRollingLog == Rolling!Spec
=============================================================================
