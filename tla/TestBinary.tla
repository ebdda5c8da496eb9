------------------------------ MODULE TestBinary ------------------------------
(***************************************************************************)
(* The asynchronous test-binary runner (src/test_binary.c).                *)
(*                                                                         *)
(* The main loop calls check_bin() once per entry of tr_bin_list and then  *)
(* once with NULL.  Every call reaps the children that have ended, kills   *)
(* those that run for too long, looks up the answer of the previous run of *)
(* the same program and starts the next run.  The answers wait in the      *)
(* linked list process_head, kept by PID but searched by name.             *)
(*                                                                         *)
(* The children run concurrently with the daemon: they end, and time       *)
(* passes, between any two of its system calls.                            *)
(***************************************************************************)
EXTENDS Integers, Sequences, FiniteSets, SequencesExt, WatchErr

CONSTANTS
    tr_bin_list,    \* the configured test programs, in calling order
    test_timeout,   \* seconds; 0 switches the time-out off
    Pid,            \* the process numbers the kernel hands out
    WaitStatus,     \* the ways in which a test program may end
    PidReuse,       \* may fork() return a PID that process_head still holds?
    ForkMayFail,    \* may fork() fail although a PID is left?
    MallocMayFail   \* may malloc() fail in add_process()?

ASSUME ListAssumption    == tr_bin_list \in Seq(Range(tr_bin_list))
ASSUME TimeoutAssumption == test_timeout \in Nat
ASSUME StatusAssumption  == \A s \in WaitStatus : s \in Nat /\ IsWaitStatus(s)
ASSUME KillAssumption    == SIGKILL \in WaitStatus
ASSUME SwitchAssumption  == {PidReuse, ForkMayFail, MallocMayFail} \subseteq BOOLEAN

VARIABLES
    process_head,   \* the list, its first element first
    pstate,         \* kernel: "free", "running" or "zombie", for every PID
    owner,          \* kernel: the program the PID was last started for
    status,         \* kernel: the wait status of the PID's last end
    killed,         \* the PIDs whose current process was sent SIGKILL
    act,            \* position in tr_bin_list; Len + 1 is check_bin(NULL)
    pc,             \* the part of check_bin() to run next
    ecode,          \* the local variable of check_bin()
    ret             \* the last value returned: for which program, which code

kernel == <<pstate, owner, status, killed>>
vars   == <<process_head, pstate, owner, status, killed, act, pc, ecode, ret>>

Name   == Range(tr_bin_list)
NoName == "none"
AgeCap == test_timeout + 1      \* older entries are not told apart

(* struct process, with the age in place of the time stamp. *)
Process == [name : Name, pid : Pid, age : 0 .. AgeCap, ecode : Code, is_done : BOOLEAN]

LastCall == act = Len(tr_bin_list) + 1
tbinary  == IF LastCall THEN NoName ELSE tr_bin_list[act]

(* Faulty variants, marked "Faulty", are for mutation runs only. *)
FaultyDoneOnly(name) ==         \* an entry without an answer is passed over
    SelectInSeq(process_head, LAMBDA n : n.name = name /\ n.is_done)

IndexOfPid(pid)   == SelectInSeq(process_head, LAMBDA n : n.pid = pid)
IndexOfName(name) == SelectInSeq(process_head, LAMBDA n : n.name = name)

-----------------------------------------------------------------------------
Init ==
    /\ process_head = <<>>
    /\ pstate = [p \in Pid |-> "free"]
    /\ owner  = [p \in Pid |-> NoName]
    /\ status = [p \in Pid |-> 0]
    /\ killed = {}
    /\ act = 1
    /\ pc = "gather"
    /\ ecode = EDONTKNOW
    /\ ret = [name |-> NoName, code |-> ENOERR]

-----------------------------------------------------------------------------
(* The list operations.  Each gives the new value of process_head. *)

NewProcess(name, pid) ==
    [name |-> name, pid |-> pid, age |-> 0, ecode |-> 0, is_done |-> FALSE]

FaultyAddForgets(name, pid) == <<NewProcess(name, pid)>>    \* no link to the rest

add_process(name, pid) == Cons(NewProcess(name, pid), process_head)

(* The first entry with the PID goes. *)
remove_process(pid) == RemoveAt(process_head, IndexOfPid(pid))

(* An entry is completed with an answer; its age is of no use any more. *)
Complete(n, code) ==
    [name |-> n.name, pid |-> n.pid, age |-> 0, ecode |-> code, is_done |-> TRUE]

FaultyRawStatus(pid, result) ==         \* WEXITSTATUS is forgotten
    LET i == IndexOfPid(pid)
    IN  IF i # 0 /\ ~process_head[i].is_done
        THEN [process_head EXCEPT ![i] = Complete(@, result)]
        ELSE process_head

FaultyExitsOnly(pid, result) ==         \* WIFSIGNALED is not looked at
    LET i == IndexOfPid(pid)
    IN  IF i # 0 /\ ~process_head[i].is_done /\ WIFEXITED(result)
        THEN [process_head EXCEPT ![i] = Complete(@, WEXITSTATUS(result))]
        ELSE process_head

FaultyOverwrite(pid, result) ==         \* is_done is not looked at
    LET i == IndexOfPid(pid)
        e == IF WIFEXITED(result) THEN WEXITSTATUS(result) ELSE ECHKILL
    IN  IF i # 0 THEN [process_head EXCEPT ![i] = Complete(@, e)] ELSE process_head

(* A result counts only for the first entry with the PID, and only if nothing
   is recorded there yet. *)
update_process(pid, result) ==
    LET i == IndexOfPid(pid)
        e == IF WIFEXITED(result) THEN WEXITSTATUS(result) ELSE ECHKILL
    IN  IF i # 0 /\ ~process_head[i].is_done /\ (WIFEXITED(result) \/ WIFSIGNALED(result))
        THEN [process_head EXCEPT ![i] = Complete(@, e)]
        ELSE process_head

FaultyTimedOut(n) == n.is_done /\ n.age > test_timeout     \* the test is inverted

TimedOut(n) == ~n.is_done /\ n.age > test_timeout

-----------------------------------------------------------------------------
(* The steps of check_bin(). *)

(* check_bin() returns: the loop of main() goes on to the next program. *)
Return(code) ==
    /\ ret' = [name |-> tbinary, code |-> code]
    /\ act' = IF LastCall THEN 1 ELSE act + 1
    /\ pc' = "gather"
    /\ ecode' = EDONTKNOW

(* gather_children(): waitpid(-1, WNOHANG) returned a child. *)
GatherOne ==
    /\ pc = "gather"
    /\ \E p \in Pid :
          /\ pstate[p] = "zombie"
          /\ pstate' = [pstate EXCEPT ![p] = "free"]
          /\ process_head' = update_process(p, status[p])
    /\ UNCHANGED <<owner, status, killed, act, pc, ecode, ret>>

FaultyGatherDone ==             \* the children are not waited for
    /\ pc = "gather" /\ pc' = "timeouts"
    /\ UNCHANGED <<process_head, pstate, owner, status, killed, act, ecode, ret>>

(* gather_children(): no child has ended, or there is none. *)
GatherDone ==
    /\ pc = "gather"
    /\ \A p \in Pid : pstate[p] # "zombie"
    /\ pc' = "timeouts"
    /\ UNCHANGED <<process_head, pstate, owner, status, killed, act, ecode, ret>>

(* check_timeouts(), skipped when the time-out is zero; then the return that
   check_bin(NULL) takes. *)
CheckTimeouts ==
    /\ pc = "timeouts"
    /\ IF test_timeout > 0
       THEN /\ process_head' = [i \in DOMAIN process_head |->
                  IF TimedOut(process_head[i])
                  THEN Complete(process_head[i], ETOOLONG)
                  ELSE process_head[i]]
            /\ killed' = killed \cup {process_head[i].pid :
                  i \in {j \in DOMAIN process_head : TimedOut(process_head[j])}}
       ELSE UNCHANGED <<process_head, killed>>
    /\ IF LastCall THEN Return(ENOERR)
                   ELSE pc' = "lookup" /\ UNCHANGED <<act, ecode, ret>>
    /\ UNCHANGED <<pstate, owner, status>>

(* check_processes(): TEST_RUNNING ends the call, TEST_COMPLETED takes the
   answer off the list, TEST_BLANK finds none. *)
CheckProcesses ==
    /\ pc = "lookup"
    /\ LET i == IndexOfName(tbinary)
       IN  CASE i = 0 ->
                  /\ pc' = "fork"
                  /\ UNCHANGED <<process_head, act, ecode, ret>>
             [] i # 0 /\ ~process_head[i].is_done ->
                  /\ Return(EDONTKNOW)
                  /\ UNCHANGED process_head
             [] i # 0 /\ process_head[i].is_done ->
                  /\ ecode' = process_head[i].ecode
                  /\ process_head' = remove_process(process_head[i].pid)
                  /\ pc' = "fork"
                  /\ UNCHANGED <<act, ret>>
    /\ UNCHANGED kernel

(* The PIDs fork() may return.  A zombie keeps its PID. *)
ForkPids ==
    {p \in Pid : /\ pstate[p] = "free"
                 /\ PidReuse \/ \A i \in DOMAIN process_head : process_head[i].pid # p}

(* The kernel's side of a successful fork(). *)
Spawn(p) ==
    /\ pstate' = [pstate EXCEPT ![p] = "running"]
    /\ owner'  = [owner EXCEPT ![p] = tbinary]
    /\ killed' = killed \ {p}
    /\ UNCHANGED status

(* fork() worked and so does add_process(). *)
ForkAdd ==
    /\ pc = "fork"
    /\ \E p \in ForkPids : Spawn(p) /\ process_head' = add_process(tbinary, p)
    /\ Return(ecode)

(* fork() worked but malloc() fails in add_process(), which drops the whole
   list (free_process()); the child runs all the same. *)
ForkNoMem ==
    /\ pc = "fork"
    /\ MallocMayFail
    /\ \E p \in ForkPids : Spawn(p)
    /\ process_head' = <<>>
    /\ Return(ENOMEM)

(* fork() failed; an answer taken off the list is lost. *)
ForkFail ==
    /\ pc = "fork"
    /\ ForkMayFail \/ ForkPids = {}
    /\ Return(EREBOOT)
    /\ UNCHANGED <<process_head, kernel>>

-----------------------------------------------------------------------------
(* The environment. *)

(* A child ends.  One that was sent SIGKILL can end in no other way. *)
ChildExit ==
    /\ \E p \in Pid, s \in WaitStatus :
          /\ pstate[p] = "running"
          /\ p \in killed => s = SIGKILL
          /\ pstate' = [pstate EXCEPT ![p] = "zombie"]
          /\ status' = [status EXCEPT ![p] = s]
    /\ UNCHANGED <<process_head, owner, killed, act, pc, ecode, ret>>

(* A second passes; the age of an entry that is done is never looked at. *)
Ages(n)  == ~n.is_done /\ n.age < AgeCap
Older(n) == [n EXCEPT !.age = @ + 1]

Tick ==
    /\ \E i \in DOMAIN process_head : Ages(process_head[i])
    /\ process_head' = [i \in DOMAIN process_head |->
          IF Ages(process_head[i]) THEN Older(process_head[i]) ELSE process_head[i]]
    /\ UNCHANGED <<kernel, act, pc, ecode, ret>>

-----------------------------------------------------------------------------
CheckBin == GatherOne \/ GatherDone \/ CheckTimeouts \/ CheckProcesses
            \/ ForkAdd \/ ForkNoMem \/ ForkFail

Next == CheckBin \/ ChildExit \/ Tick

Spec == Init /\ [][Next]_vars

(* The daemon is locked in memory with real-time priority and its loop never
   waits for a test program; the clock advances.  Nothing is assumed of the
   children: they may hang for ever, also after SIGKILL. *)
FairSpec == Spec /\ WF_vars(CheckBin) /\ WF_vars(Tick)

-----------------------------------------------------------------------------
(* Properties. *)

Alive(p) == pstate[p] \in {"running", "zombie"}

(* Every variable has its type. *)
TypeOK ==
    /\ process_head \in Seq(Process)
    /\ pstate \in [Pid -> {"free", "running", "zombie"}]
    /\ owner \in [Pid -> Name \cup {NoName}]
    /\ status \in [Pid -> WaitStatus \cup {0}]
    /\ killed \subseteq Pid
    /\ act \in 1 .. Len(tr_bin_list) + 1
    /\ pc \in {"gather", "timeouts", "lookup", "fork"}
    /\ pc \in {"lookup", "fork"} => ~LastCall
    /\ ecode \in Code
    /\ ret \in [name : Name \cup {NoName}, code : Code]

(* check_timeouts() sends SIGKILL to the PID of any entry that is not done.
   That PID always belongs to an unreaped child of the daemon, started for the
   program the entry names, so the kill can never hit a stranger that was given
   the PID later.  It holds whatever fails and however PIDs are reused. *)
KillTargetsOwnChild ==
    \A i \in DOMAIN process_head : ~process_head[i].is_done =>
        /\ Alive(process_head[i].pid)
        /\ owner[process_head[i].pid] = process_head[i].name

(* The comment of check_processes(): while a program runs, no second instance
   of it is started.  An instance that overran its time and was sent SIGKILL no
   longer counts. *)
OneInstance ==
    \A p, q \in Pid :
        /\ p # q
        /\ pstate[p] = "running" /\ p \notin killed
        /\ pstate[q] = "running" /\ q \notin killed
        => owner[p] # owner[q]

(* A recorded answer is the answer of the program it is filed under: the exit
   code of its last run, ECHKILL for a run ended by a signal, or ETOOLONG for a
   run that was killed. *)
ResultsGenuine ==
    \A i \in DOMAIN process_head :
        LET n == process_head[i]
            s == status[n.pid]
        IN  n.is_done =>
              /\ owner[n.pid] = n.name
              /\ n.ecode = IF n.pid \in killed THEN ETOOLONG
                           ELSE IF WIFEXITED(s) THEN WEXITSTATUS(s) ELSE ECHKILL

(* No answer is lost: a child that still runs, or whose end was not yet
   collected, is on the list and waiting, unless it was killed for its age. *)
ChildrenTracked ==
    \A p \in Pid : Alive(p) /\ p \notin killed =>
        \E i \in DOMAIN process_head :
            process_head[i].pid = p /\ ~process_head[i].is_done

(* With a time-out, a program on the list is answered for in the end, even if
   its process hangs for ever: a value other than "don't know" is returned. *)
TestAnswered ==
    \A nm \in Name :
        (\E i \in DOMAIN process_head : process_head[i].name = nm)
            ~> (ret.name = nm /\ ret.code # EDONTKNOW)

(* A child that has ended does not stay a zombie. *)
ZombiesReaped ==
    \A p \in Pid : pstate[p] = "zombie" ~> pstate[p] # "zombie"
=============================================================================
