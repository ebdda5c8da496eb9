------------------------------ MODULE SysChecks ------------------------------
(***************************************************************************)
(* The checks that compare what the kernel reports with a limit: load.c,   *)
(* memory.c, file_table.c, file_stat.c, pidfile.c and iface.c.             *)
(*                                                                         *)
(* A check is an operator that gives the code for what it finds; the       *)
(* actions let the kernel report anything.                                 *)
(***************************************************************************)
EXTENDS Integers, Sequences, FiniteSets, WatchErr

CONSTANTS
    Limits,         \* the values of max-load-1, min-memory, change and the like to look at
    Amounts,        \* what the kernel may report: loads, kilobytes, seconds
    WordSpan,       \* unsigned int has the values 0 .. WordSpan - 1; 2^32 in the code
    PageKb,         \* EXEC_PAGESIZE / 1024
    Suffix,         \* what strtoul() makes of the rest of a longer name
    MaxBytes,       \* an interface counts up to here
    SysErrors       \* errno of the system calls

ASSUME SysAssumption ==
    /\ Limits \subseteq Int /\ Amounts \subseteq Nat /\ Suffix \in Nat
    /\ WordSpan \in Nat \ {0} /\ PageKb \in Nat \ {0} /\ MaxBytes \in Nat
    /\ SysErrors \subseteq Code \ {ENOERR}

ENFILE == 23
ESRCH  == 3

VARIABLES
    sys,            \* the check that is configured
    limit,          \* its parameters
    fd,             \* load_fd or mem_fd: is the file open?
    sys_code,       \* what the last check returned
    bytes,          \* parameter.iface.bytes
    names,          \* the lines of /proc/net/dev that begin with the interface's name
    counter,        \* kernel: bytes the interface has received
    got             \* history: those since it was last looked at, or since the start

sysVars == <<sys, limit, fd, sys_code, bytes, names, counter, got>>

CheckName == {"load", "memory", "alloc", "table", "file", "pid", "iface"}

-----------------------------------------------------------------------------
(* check_load(), for the averages a *)
check_load(a) == IF \E n \in 1 .. 3 : limit[n] > 0 /\ a[n] > limit[n] THEN EMAXLOAD ELSE ENOERR

Word(n) == n % WordSpan

(* check_memory(): unsigned sums and products *)
check_memory(freemem, freeswap) ==
    IF Word(freemem + freeswap) < Word(limit[1] * PageKb) THEN ENOMEM ELSE ENOERR

(* check_allocatable(): does mmap() give the memory? *)
check_allocatable(mapped) == IF limit[1] <= 0 \/ mapped THEN {ENOERR} ELSE SysErrors

(* check_file_table(), when open() or close() sets errno to e, or e is ENOERR *)
check_file_table(e) == IF e = ENFILE THEN EREBOOT ELSE e

(* check_file_stat(): a file last changed twait seconds ago, by the clock *)
check_file_stat(twait) == IF limit[1] # 0 /\ twait > limit[1] THEN ENOCHANGE ELSE ENOERR

(* check_pidfile(): atoi() makes 0 of a file that is empty or holds no number, and
   kill(0, 0) succeeds. *)
check_pidfile(number, runs) == IF number /\ ~runs THEN ESRCH ELSE ENOERR

(* The byte counts that check_iface() reads from the lines, in their order: the
   rest of a longer name is taken for a number. *)
BytesRead == [k \in DOMAIN names |-> IF names[k] = "own" THEN counter ELSE Suffix]

(* What a line's count is compared with: that of the line before. *)
Before(k) == IF k = 1 THEN bytes ELSE BytesRead[k - 1]

(* Those of the first n lines that have not changed. *)
Same(n) == {k \in 1 .. n : BytesRead[k] = Before(k)}

(* Faulty variants, marked "Faulty", are for mutation runs only. *)
FaultyStored(n) == bytes        \* the count is not remembered

(* The count that is left behind: check_iface() stops at the first such line. *)
Stored(n) == IF Same(n) # {} THEN Before(CHOOSE k \in Same(n) : \A j \in Same(n) : k <= j)
             ELSE IF n = 0 THEN bytes ELSE BytesRead[n]

-----------------------------------------------------------------------------
(* The lists and limits of the configuration. *)
SysInit ==
    /\ sys \in CheckName
    /\ limit \in IF sys = "load" THEN [1 .. 3 -> Limits]
                 ELSE IF sys = "iface" THEN {<< >>} ELSE [1 .. 1 -> Limits]
    /\ fd = FALSE /\ sys_code = ENOERR
    /\ bytes = 0
    /\ names \in IF sys = "iface"
                 THEN {<< >>, <<"own">>, <<"own", "longer">>, <<"longer", "own">>}
                 ELSE {<< >>}
    /\ counter \in IF sys = "iface" THEN 0 .. MaxBytes ELSE {0}
    /\ got = counter

(* open_loadcheck() and open_memcheck(): the file is opened if there is a limit. *)
OpenFile ==
    /\ \/ sys = "load" /\ \E n \in 1 .. 3 : limit[n] # 0
       \/ sys = "memory" /\ limit[1] > 0
    /\ fd' \in BOOLEAN
    /\ UNCHANGED <<sys, limit, sys_code, bytes, names, counter, got>>

Found(code) == sys_code' = code /\ UNCHANGED <<sys, limit, fd, bytes, names, counter, got>>

(* One call of the check that is configured, on whatever the kernel reports. *)
SysCheck ==
    \/ sys \in {"load", "memory"} /\ ~fd /\ Found(ENOERR)
    \/ sys = "load" /\ fd /\ \E a \in [1 .. 3 -> Amounts] : Found(check_load(a))
    \/ sys = "load" /\ fd /\ Found(ENOLOAD)
    \/ sys = "memory" /\ fd /\ \E m, s \in Amounts : Found(check_memory(m, s))
    \/ sys = "memory" /\ fd /\ Found(EINVMEM)
    \/ sys = "alloc" /\ \E b \in BOOLEAN : \E c \in check_allocatable(b) : Found(c)
    \/ sys = "table" /\ \E e \in SysErrors \cup {ENFILE, ENOERR} : Found(check_file_table(e))
    \/ sys = "file" /\ \E t \in Amounts : Found(check_file_stat(t))
    \/ sys = "pid" /\ \E n, r \in BOOLEAN : Found(check_pidfile(n, r))
    \/ sys \in {"load", "memory"} /\ fd /\ \E e \in SysErrors : Found(e)
    \/ sys \in {"file", "pid"} /\ \E e \in SysErrors : Found(e)

(* check_iface() reads n lines of /proc/net/dev; fopen(), fgets() or fclose() may
   then fail, and what was stored stays. *)
check_iface(n) ==
    /\ sys = "iface"
    /\ sys_code' \in IF Same(n) # {} THEN {ENETUNREACH}
                     ELSE SysErrors \cup {c \in {ENOERR} : n = Len(names)}
    /\ bytes' = Stored(n)
    /\ got' = IF \E k \in 1 .. n : names[k] = "own" THEN 0 ELSE got
    /\ UNCHANGED <<sys, limit, fd, names, counter>>

(* The interface receives something; its counter wraps around. *)
Traffic ==
    /\ sys = "iface"
    /\ \E n \in 1 .. MaxBytes :
          /\ counter' = (counter + n) % (MaxBytes + 1)
          /\ got' = IF got + n > MaxBytes THEN MaxBytes + 1 ELSE got + n
    /\ UNCHANGED <<sys, limit, fd, sys_code, bytes, names>>

SysNext == OpenFile \/ SysCheck \/ (\E n \in 0 .. Len(names) : check_iface(n)) \/ Traffic

-----------------------------------------------------------------------------
(* Properties. *)

SysTypeOK ==
    /\ sys \in CheckName
    /\ fd \in BOOLEAN
    /\ sys_code \in Code
    /\ {bytes, counter} \subseteq 0 .. MaxBytes \cup {Suffix}
    /\ got \in 0 .. MaxBytes + 1

(* check_iface(): "device %s did not receive anything since last check" (iface.c:52)
   is reported when it is true, and also after any check that failed in between, and
   not when less than a full turn of the counter has been received; provided that no
   other interface has a name that begins with this one's. *)
SilenceNoticed ==
    [][names = <<"own">> /\ counter' = counter /\ sys_code' \in {ENOERR, ENETUNREACH}
          /\ got <= MaxBytes => (sys_code' = ENETUNREACH <=> got = 0)]_sysVars
=============================================================================
