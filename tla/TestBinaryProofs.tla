--------------------------- MODULE TestBinaryProofs ---------------------------
(***************************************************************************)
(* Theorems about the test-binary runner, for every list of programs,      *)
(* every time-out and every set of PIDs.                                   *)
(***************************************************************************)
EXTENDS TestBinary, SequenceTheorems, WellFoundedInduction, TLAPS

(* A non-empty set of numbers has a least element. *)
LEMMA LeastElement ==
  ASSUME NEW T, T \subseteq Nat, T # {}
  PROVE  \E x \in T : \A y \in T : x <= y
<1> DEFINE R == OpToRel(<, Nat)
<1>1. IsWellFoundedOn(R, Nat)
  BY NatLessThanWellFounded
<1>2. \A x, y \in Nat : x < y => <<x, y>> \in R
  BY DEF OpToRel
<1> HIDE DEF R
<1>3. PICK x \in T : \A y \in T : ~(<<y, x>> \in R)
  BY <1>1, WFMin, Zenon
<1>4. ASSUME NEW y \in T PROVE x <= y
  <2>1. x \in Nat /\ y \in Nat
    OBVIOUS
  <2>2. ~(y < x)
    BY <1>2, <1>3, <2>1
  <2> QED
    BY <2>1, <2>2
<1> QED
  BY <1>4

(* Min of the community modules is that least element. *)
LEMMA MinProperties ==
  ASSUME NEW T, T \subseteq Nat, T # {}
  PROVE  Min(T) \in T /\ \A y \in T : Min(T) <= y
BY LeastElement DEF Min

(* IndexOfPid finds the first entry with the PID: the while loops of
   remove_process() and update_process() stop there. *)
LEMMA IndexOfPidProperties ==
  ASSUME process_head \in Seq(Process), NEW p
  PROVE  /\ IndexOfPid(p) \in 0 .. Len(process_head)
         /\ IndexOfPid(p) = 0 => \A k \in 1 .. Len(process_head) : process_head[k].pid # p
         /\ IndexOfPid(p) # 0 =>
              /\ process_head[IndexOfPid(p)].pid = p
              /\ \A k \in 1 .. IndexOfPid(p) - 1 : process_head[k].pid # p
<1> DEFINE I == {i \in 1 .. Len(process_head) : process_head[i].pid = p}
<1>1. IndexOfPid(p) = IF I # {} THEN Min(I) ELSE 0
  BY DEF IndexOfPid, SelectInSeq
<1>2. I \subseteq Nat /\ I \subseteq 1 .. Len(process_head) /\ Len(process_head) \in Nat
  OBVIOUS
<1>3. CASE I = {}
  <2>1. IndexOfPid(p) = 0
    BY <1>1, <1>3, Zenon
  <2> QED
    BY <1>2, <1>3, <2>1
<1>4. CASE I # {}
  <2> DEFINE m == Min(I)
  <2>1. IndexOfPid(p) = m
    BY <1>1, <1>4, Zenon
  <2>2. m \in I /\ \A y \in I : m <= y
    BY <1>2, <1>4, MinProperties, Zenon
  <2> HIDE DEF m
  <2>3. m \in 1 .. Len(process_head) /\ process_head[m].pid = p
    BY <2>2
  <2>4. \A k \in 1 .. m - 1 : process_head[k].pid # p
    BY <2>2, <2>3, <1>2
  <2> QED
    BY <2>1, <2>3, <2>4, <1>2
<1> QED
  BY <1>3, <1>4

(* IndexOfName finds the first entry of the program: the loop of
   check_processes() stops there. *)
LEMMA IndexOfNameProperties ==
  ASSUME process_head \in Seq(Process), NEW p
  PROVE  /\ IndexOfName(p) \in 0 .. Len(process_head)
         /\ IndexOfName(p) = 0 => \A k \in 1 .. Len(process_head) : process_head[k].name # p
         /\ IndexOfName(p) # 0 =>
              /\ process_head[IndexOfName(p)].name = p
              /\ \A k \in 1 .. IndexOfName(p) - 1 : process_head[k].name # p
<1> DEFINE I == {i \in 1 .. Len(process_head) : process_head[i].name = p}
<1>1. IndexOfName(p) = IF I # {} THEN Min(I) ELSE 0
  BY DEF IndexOfName, SelectInSeq
<1>2. I \subseteq Nat /\ I \subseteq 1 .. Len(process_head) /\ Len(process_head) \in Nat
  OBVIOUS
<1>3. CASE I = {}
  <2>1. IndexOfName(p) = 0
    BY <1>1, <1>3, Zenon
  <2> QED
    BY <1>2, <1>3, <2>1
<1>4. CASE I # {}
  <2> DEFINE m == Min(I)
  <2>1. IndexOfName(p) = m
    BY <1>1, <1>4, Zenon
  <2>2. m \in I /\ \A y \in I : m <= y
    BY <1>2, <1>4, MinProperties, Zenon
  <2> HIDE DEF m
  <2>3. m \in 1 .. Len(process_head) /\ process_head[m].name = p
    BY <2>2
  <2>4. \A k \in 1 .. m - 1 : process_head[k].name # p
    BY <2>2, <2>3, <1>2
  <2> QED
    BY <2>1, <2>3, <2>4, <1>2
<1> QED
  BY <1>3, <1>4

(* Unlinking the i-th element of a list. *)
LEMMA RemoveAtProperties ==
  ASSUME NEW S, NEW s \in Seq(S), NEW i \in 1 .. Len(s)
  PROVE  /\ RemoveAt(s, i) \in Seq(S)
         /\ Len(RemoveAt(s, i)) = Len(s) - 1
         /\ \A k \in 1 .. Len(s) - 1 :
               RemoveAt(s, i)[k] = IF k < i THEN s[k] ELSE s[k + 1]
<1> DEFINE u == SubSeq(s, 1, i - 1)
           v == SubSeq(s, i + 1, Len(s))
<1>1. /\ u \in Seq(S) /\ Len(u) = i - 1 /\ \A k \in 1 .. i - 1 : u[k] = s[k]
      /\ v \in Seq(S) /\ Len(v) = Len(s) - i /\ \A k \in 1 .. Len(s) - i : v[k] = s[i + k]
  OBVIOUS
<1>2. RemoveAt(s, i) = u \o v
  BY DEF RemoveAt
<1> HIDE DEF u, v
<1>3. /\ u \o v \in Seq(S)
      /\ Len(u \o v) = Len(u) + Len(v)
      /\ \A k \in 1 .. Len(u) + Len(v) :
            (u \o v)[k] = IF k <= Len(u) THEN u[k] ELSE v[k - Len(u)]
  BY <1>1, ConcatProperties
<1>4. ASSUME NEW k \in 1 .. Len(s) - 1
      PROVE  (u \o v)[k] = IF k < i THEN s[k] ELSE s[k + 1]
  <2>1. CASE k < i
    BY <1>1, <1>3, <2>1
  <2>2. CASE ~(k < i)
    <3>1. k - (i - 1) \in 1 .. Len(s) - i /\ i + (k - (i - 1)) = k + 1
      BY <2>2
    <3>2. v[k - (i - 1)] = s[k + 1]
      BY <1>1, <3>1
    <3> QED
      BY <1>1, <1>3, <2>2, <3>2
  <2> QED
    BY <2>1, <2>2
<1> QED
  BY <1>1, <1>2, <1>3, <1>4

(* What the W* macros make of a status waitpid() can deliver. *)
LEMMA StatusProperties ==
  ASSUME NEW s \in WaitStatus \cup {0}
  PROVE  /\ WIFEXITED(s) \/ WIFSIGNALED(s)
         /\ WEXITSTATUS(s) \in Code
<1>1. s \in Nat /\ IsWaitStatus(s)
  BY StatusAssumption DEF IsWaitStatus, Exited, Code
<1>2. WEXITSTATUS(s) \in Code
  BY <1>1 DEF WEXITSTATUS, Code
<1>3. ASSUME NEW c \in Code, s = Exited(c) PROVE WIFEXITED(s)
  BY <1>3 DEF Code, Exited, WIFEXITED
<1>4. ASSUME NEW g \in 1 .. 126, s = Signaled(g) PROVE WIFSIGNALED(s)
  BY <1>4 DEF Signaled, WIFSIGNALED
<1> QED
  BY <1>1, <1>2, <1>3, <1>4 DEF IsWaitStatus

(* The code update_process() files for a status. *)
AnswerOf(s) == IF WIFEXITED(s) THEN WEXITSTATUS(s) ELSE ECHKILL

(* Completing an entry leaves its program and its PID alone. *)
LEMMA CompleteProperties ==
  ASSUME NEW n \in Process, NEW c \in Code
  PROVE  /\ Complete(n, c) \in Process
         /\ Complete(n, c).name = n.name
         /\ Complete(n, c).pid = n.pid
         /\ Complete(n, c).ecode = c
         /\ Complete(n, c).is_done
BY TimeoutAssumption DEF Process, Complete, AgeCap

(* Ageing an entry changes nothing but the age. *)
LEMMA OlderProperties ==
  ASSUME NEW n \in Process, Ages(n)
  PROVE  /\ Older(n) \in Process
         /\ Older(n).name = n.name
         /\ Older(n).pid = n.pid
         /\ Older(n).ecode = n.ecode
         /\ Older(n).is_done = n.is_done
<1>1. n.age \in 0 .. AgeCap /\ n.age < AgeCap
  BY DEF Process, Ages
<1>2. n.age + 1 \in 0 .. AgeCap
  BY <1>1, TimeoutAssumption DEF AgeCap
<1> QED
  BY <1>2, Zenon DEF Process, Older

(* add_process() puts a new entry in front. *)
LEMMA AddEffect ==
  ASSUME process_head \in Seq(Process), NEW nm \in Name, NEW p \in Pid
  PROVE  /\ add_process(nm, p) \in Seq(Process)
         /\ Len(add_process(nm, p)) = Len(process_head) + 1
         /\ \A k \in 1 .. Len(process_head) + 1 :
               add_process(nm, p)[k] =
                 IF k = 1 THEN NewProcess(nm, p) ELSE process_head[k - 1]
<1>1. NewProcess(nm, p) \in Process
  BY TimeoutAssumption DEF NewProcess, Process, AgeCap, Code
<1> QED
  BY <1>1 DEF add_process, Cons

(* The codes the daemon files and returns by itself. *)
LEMMA OwnCodes == {ENOERR, EREBOOT, ENOMEM, ETOOLONG, ECHKILL, EDONTKNOW} \subseteq Code
BY DEF ENOERR, EREBOOT, ENOMEM, ETOOLONG, ECHKILL, EDONTKNOW, Code

(* update_process() completes the first entry with the PID if it is still
   open, and changes nothing else. *)
LEMMA UpdateProperties ==
  ASSUME process_head \in Seq(Process), NEW p \in Pid, NEW s \in WaitStatus \cup {0}
  PROVE  /\ update_process(p, s) \in Seq(Process)
         /\ Len(update_process(p, s)) = Len(process_head)
         /\ \A k \in 1 .. Len(process_head) :
               update_process(p, s)[k] =
                 IF k = IndexOfPid(p) /\ ~process_head[k].is_done
                 THEN Complete(process_head[k], AnswerOf(s))
                 ELSE process_head[k]
<1> DEFINE i == IndexOfPid(p)
<1>1. i \in 0 .. Len(process_head)
  BY IndexOfPidProperties
<1>2. (WIFEXITED(s) \/ WIFSIGNALED(s)) /\ AnswerOf(s) \in Code
  BY StatusProperties DEF AnswerOf, Code, ECHKILL
<1> HIDE DEF i
<1>3. CASE i # 0 /\ ~process_head[i].is_done
  <2> DEFINE e == Complete(process_head[i], AnswerOf(s))
  <2>1. e \in Process
    BY <1>1, <1>2, <1>3, ElementOfSeq, CompleteProperties
  <2>2. update_process(p, s) = [process_head EXCEPT ![i] = e]
    BY <1>2, <1>3 DEF update_process, AnswerOf, i
  <2> HIDE DEF e
  <2>3. /\ update_process(p, s) \in Seq(Process)
        /\ Len(update_process(p, s)) = Len(process_head)
        /\ \A k \in 1 .. Len(process_head) :
              update_process(p, s)[k] = IF k = i THEN e ELSE process_head[k]
    BY <1>1, <1>3, <2>1, <2>2, ExceptSeq
  <2> QED
    BY <1>3, <2>3 DEF i, e
<1>4. CASE ~(i # 0 /\ ~process_head[i].is_done)
  <2>1. update_process(p, s) = process_head
    BY <1>4 DEF update_process, i
  <2>2. ASSUME NEW k \in 1 .. Len(process_head)
        PROVE  ~(k = i /\ ~process_head[k].is_done)
    BY <1>4
  <2> QED
    BY <2>1, <2>2 DEF i
<1> QED
  BY <1>3, <1>4

-----------------------------------------------------------------------------
(* Type correctness. *)

(* Every call of check_bin() but the last names a program of the list. *)
LEMMA NameOfCall ==
  ASSUME act \in 1 .. Len(tr_bin_list) + 1, ~LastCall
  PROVE  tbinary \in Name
<1>1. Len(tr_bin_list) \in Nat
  BY ListAssumption
<1>2. act \in 1 .. Len(tr_bin_list)
  BY <1>1 DEF LastCall
<1> QED
  BY <1>2, ListAssumption, ElementOfSeq DEF tbinary, Name

(* What a return from check_bin() leaves behind has the right type. *)
LEMMA ReturnType ==
  ASSUME TypeOK, NEW c \in Code, Return(c)
  PROVE  /\ act' \in 1 .. Len(tr_bin_list) + 1
         /\ pc' = "gather"
         /\ ecode' \in Code
         /\ ret' \in [name : Name \cup {NoName}, code : Code]
<1>1. Len(tr_bin_list) \in Nat
  BY ListAssumption
<1>2. tbinary \in Name \cup {NoName}
  BY NameOfCall DEF TypeOK, tbinary
<1> QED
  BY <1>1, <1>2 DEF TypeOK, Return, LastCall, Code, EDONTKNOW

(* Rewriting a list entry by entry keeps its length. *)
LEMMA MapType ==
  ASSUME process_head \in Seq(Process), NEW h,
         h = [i \in DOMAIN process_head |-> h[i]],
         \A i \in 1 .. Len(process_head) : h[i] \in Process
  PROVE  h \in Seq(Process) /\ Len(h) = Len(process_head)
<1>1. DOMAIN process_head = 1 .. Len(process_head) /\ Len(process_head) \in Nat
  BY LenProperties
<1>2. h \in [1 .. Len(process_head) -> Process]
  BY <1>1
<1> QED
  BY <1>1, <1>2

(* check_timeouts() completes the overdue entries and keeps the others. *)
LEMMA TimeoutsEffect ==
  ASSUME process_head \in Seq(Process), CheckTimeouts
  PROVE  /\ process_head' \in Seq(Process)
         /\ Len(process_head') = Len(process_head)
         /\ \A k \in 1 .. Len(process_head) :
               process_head'[k] = IF test_timeout > 0 /\ TimedOut(process_head[k])
                                  THEN Complete(process_head[k], ETOOLONG)
                                  ELSE process_head[k]
<1>1. DOMAIN process_head = 1 .. Len(process_head)
  BY LenProperties
<1>2. CASE test_timeout > 0
  <2>1. process_head' = [i \in DOMAIN process_head |->
            IF TimedOut(process_head[i])
            THEN Complete(process_head[i], ETOOLONG) ELSE process_head[i]]
    BY <1>2 DEF CheckTimeouts
  <2>2. ASSUME NEW k \in 1 .. Len(process_head) PROVE process_head'[k] \in Process
    <3>1. process_head[k] \in Process
      BY ElementOfSeq
    <3>2. Complete(process_head[k], ETOOLONG) \in Process
      BY <3>1, CompleteProperties, OwnCodes
    <3> QED
      BY <1>1, <2>1, <3>1, <3>2
  <2> QED
    BY <1>1, <1>2, <2>1, <2>2, MapType
<1>3. CASE ~(test_timeout > 0)
  BY <1>3 DEF CheckTimeouts
<1> QED
  BY <1>2, <1>3

(* A passing second changes nothing but ages. *)
LEMMA TickEffect ==
  ASSUME process_head \in Seq(Process), Tick
  PROVE  /\ process_head' \in Seq(Process)
         /\ Len(process_head') = Len(process_head)
         /\ \A k \in 1 .. Len(process_head) :
               /\ process_head'[k].name = process_head[k].name
               /\ process_head'[k].pid = process_head[k].pid
               /\ process_head'[k].ecode = process_head[k].ecode
               /\ process_head'[k].is_done = process_head[k].is_done
<1>1. DOMAIN process_head = 1 .. Len(process_head)
  BY LenProperties
<1>2. process_head' = [i \in DOMAIN process_head |->
          IF Ages(process_head[i]) THEN Older(process_head[i]) ELSE process_head[i]]
  BY DEF Tick
<1>3. ASSUME NEW k \in 1 .. Len(process_head)
      PROVE  /\ process_head'[k] \in Process
             /\ process_head'[k].name = process_head[k].name
             /\ process_head'[k].pid = process_head[k].pid
             /\ process_head'[k].ecode = process_head[k].ecode
             /\ process_head'[k].is_done = process_head[k].is_done
  <2>1. process_head[k] \in Process
    BY ElementOfSeq
  <2>2. CASE Ages(process_head[k])
    BY <1>1, <1>2, <2>1, <2>2, OlderProperties
  <2>3. CASE ~Ages(process_head[k])
    BY <1>1, <1>2, <2>1, <2>3
  <2> QED
    BY <2>2, <2>3
<1> QED
  BY <1>1, <1>2, <1>3, MapType

(* The initial state is well typed. *)
LEMMA TypeInit == Init => TypeOK
BY ListAssumption DEF Init, TypeOK, Code, EDONTKNOW, ENOERR, LastCall

(* Every step keeps the types. *)
LEMMA TypeNext == TypeOK /\ [Next]_vars => TypeOK'
<1> SUFFICES ASSUME TypeOK, [Next]_vars PROVE TypeOK'
  OBVIOUS
<1> USE DEF TypeOK
<1>1. CASE GatherOne
  BY <1>1, UpdateProperties DEF GatherOne, LastCall
<1>2. CASE GatherDone
  BY <1>2 DEF GatherDone, LastCall
<1>3. CASE CheckTimeouts
  <2>1. process_head' \in Seq(Process)
    BY <1>3, TimeoutsEffect
  <2>2. killed' \subseteq Pid
    <3>1. \A i \in DOMAIN process_head : process_head[i] \in Process
      BY LenProperties, ElementOfSeq
    <3>2. \A i \in DOMAIN process_head : process_head[i].pid \in Pid
      BY <3>1 DEF Process
    <3> QED
      BY <1>3, <3>2 DEF CheckTimeouts
  <2>3. CASE LastCall
    <3>1. Return(ENOERR)
      BY <1>3, <2>3 DEF CheckTimeouts
    <3> QED
      BY <1>3, <2>1, <2>2, <3>1, ReturnType, OwnCodes DEF CheckTimeouts
  <2>4. CASE ~LastCall
    BY <1>3, <2>1, <2>2, <2>4 DEF CheckTimeouts, LastCall
  <2> QED
    BY <2>3, <2>4
<1>4. CASE CheckProcesses
  <2> DEFINE i == IndexOfName(tbinary)
  <2>1. i \in 0 .. Len(process_head)
    BY IndexOfNameProperties
  <2> HIDE DEF i
  <2>2. CASE i = 0
    BY <1>4, <2>2 DEF CheckProcesses, LastCall, kernel, i
  <2>3. CASE i # 0 /\ ~process_head[i].is_done
    <3>1. Return(EDONTKNOW)
      BY <1>4, <2>3 DEF CheckProcesses, i
    <3>2. UNCHANGED <<process_head, pstate, owner, status, killed>>
      BY <1>4, <2>3 DEF CheckProcesses, kernel, i
    <3> QED
      BY <3>1, <3>2, ReturnType, OwnCodes
  <2>4. CASE i # 0 /\ process_head[i].is_done
    <3>1. process_head[i] \in Process
      BY <2>1, <2>4, ElementOfSeq
    <3> DEFINE j == IndexOfPid(process_head[i].pid)
    <3>2. j \in 1 .. Len(process_head)
      BY <2>1, <2>4, IndexOfPidProperties
    <3>3. process_head' = RemoveAt(process_head, j) /\ ecode' = process_head[i].ecode
      BY <1>4, <2>4 DEF CheckProcesses, remove_process, i
    <3> HIDE DEF j
    <3>4. process_head' \in Seq(Process) /\ ecode' \in Code
      BY <3>1, <3>2, <3>3, RemoveAtProperties DEF Process
    <3> QED
      BY <1>4, <2>4, <3>4 DEF CheckProcesses, LastCall, kernel, i
  <2> QED
    BY <2>2, <2>3, <2>4
<1>5. CASE ForkAdd
  <2>1. PICK p \in ForkPids : Spawn(p) /\ process_head' = add_process(tbinary, p)
    BY <1>5 DEF ForkAdd
  <2>2. p \in Pid /\ tbinary \in Name
    BY <1>5, NameOfCall DEF ForkPids, ForkAdd
  <2>4. process_head' \in Seq(Process)
    BY <2>1, <2>2, AddEffect
  <2>5. Return(ecode)
    BY <1>5 DEF ForkAdd
  <2> QED
    BY <2>1, <2>2, <2>4, <2>5, ReturnType DEF Spawn
<1>6. CASE ForkNoMem
  <2>1. PICK p \in ForkPids : Spawn(p)
    BY <1>6 DEF ForkNoMem
  <2>2. p \in Pid /\ tbinary \in Name
    BY <1>6, NameOfCall DEF ForkPids, ForkNoMem
  <2>3. Return(ENOMEM) /\ process_head' = <<>> /\ ENOMEM \in Code
    BY <1>6 DEF ForkNoMem, Code, ENOMEM
  <2> QED
    BY <2>1, <2>2, <2>3, ReturnType DEF Spawn
<1>7. CASE ForkFail
  BY <1>7, ReturnType, OwnCodes DEF ForkFail, kernel
<1>8. CASE ChildExit
  BY <1>8 DEF ChildExit, LastCall
<1>9. CASE Tick
  <2>1. process_head' \in Seq(Process)
    BY <1>9, TickEffect
  <2> QED
    BY <1>9, <2>1 DEF Tick, kernel, LastCall
<1>10. CASE UNCHANGED vars
  BY <1>10 DEF vars, LastCall
<1> QED
  BY <1>1, <1>2, <1>3, <1>4, <1>5, <1>6, <1>7, <1>8, <1>9, <1>10 DEF Next, CheckBin

(* The variables keep their types, whatever the constants. *)
THEOREM TypeCorrect == Spec => []TypeOK
<1>1. Init => TypeOK
  BY TypeInit
<1>2. TypeOK /\ [Next]_vars => TypeOK'
  BY TypeNext
<1> QED
  BY <1>1, <1>2, PTL DEF Spec

-----------------------------------------------------------------------------
(* check_timeouts() only ever kills children of the daemon. *)

(* Two entries can share a PID once PIDs are reused.  Only the first of them
   can be open, and that is the one update_process() completes. *)
DoneBehind ==
    \A i, j \in DOMAIN process_head :
        i < j /\ process_head[i].pid = process_head[j].pid => process_head[j].is_done

KillInv == TypeOK /\ KillTargetsOwnChild /\ DoneBehind

(* check_processes() takes exactly one entry off the list. *)
LEMMA RemoveEffect ==
  ASSUME TypeOK, NEW i \in 1 .. Len(process_head)
  PROVE  LET j == IndexOfPid(process_head[i].pid)
             h == remove_process(process_head[i].pid)
         IN  /\ j \in 1 .. i
             /\ process_head[j].pid = process_head[i].pid
             /\ h \in Seq(Process)
             /\ Len(h) = Len(process_head) - 1
             /\ \A k \in 1 .. Len(process_head) - 1 :
                   h[k] = IF k < j THEN process_head[k] ELSE process_head[k + 1]
<1> DEFINE p == process_head[i].pid
           j == IndexOfPid(p)
<1>1. /\ j \in 0 .. Len(process_head)
      /\ j = 0 => \A k \in 1 .. Len(process_head) : process_head[k].pid # p
      /\ j # 0 => /\ process_head[j].pid = p
                  /\ \A k \in 1 .. j - 1 : process_head[k].pid # p
  BY IndexOfPidProperties DEF TypeOK
<1>2. j \in 1 .. Len(process_head) /\ process_head[j].pid = p /\ j <= i
  <2> HIDE DEF j
  <2>1. j # 0
    BY <1>1
  <2>2. ~(i < j)
    BY <1>1, <2>1
  <2> QED
    BY <1>1, <2>1, <2>2
<1>3. remove_process(p) = RemoveAt(process_head, j)
  BY DEF remove_process
<1> HIDE DEF j
<1>4. /\ remove_process(p) \in Seq(Process)
      /\ Len(remove_process(p)) = Len(process_head) - 1
      /\ \A k \in 1 .. Len(process_head) - 1 :
            remove_process(p)[k] = IF k < j THEN process_head[k] ELSE process_head[k + 1]
  <2>1. process_head \in Seq(Process) /\ j \in 1 .. Len(process_head)
    BY <1>2 DEF TypeOK
  <2>2. /\ RemoveAt(process_head, j) \in Seq(Process)
        /\ Len(RemoveAt(process_head, j)) = Len(process_head) - 1
        /\ \A k \in 1 .. Len(process_head) - 1 :
             RemoveAt(process_head, j)[k] = IF k < j THEN process_head[k] ELSE process_head[k + 1]
    BY <2>1, RemoveAtProperties
  <2> QED
    BY <1>3, <2>2, Zenon
<1> QED
  BY <1>2, <1>4 DEF j

(* KillInv holds at the start. *)
LEMMA KillInit == Init => KillInv
BY TypeInit DEF Init, KillInv, KillTargetsOwnChild, DoneBehind

(* Every step preserves KillInv. *)
LEMMA KillNext == KillInv /\ [Next]_vars => KillInv'
<1> SUFFICES ASSUME KillInv, [Next]_vars PROVE KillInv'
  OBVIOUS
<1> DEFINE n == Len(process_head)
           n1 == Len(process_head')
<1>1. TypeOK /\ TypeOK'
  BY TypeNext DEF KillInv
<1>2. /\ DOMAIN process_head = 1 .. n /\ n \in Nat
      /\ DOMAIN process_head' = 1 .. n1 /\ n1 \in Nat
      /\ \A k \in 1 .. n : process_head[k] \in Process
  BY <1>1, LenProperties, ElementOfSeq DEF TypeOK
<1>3. /\ \A k \in 1 .. n : ~process_head[k].is_done =>
            /\ pstate[process_head[k].pid] \in {"running", "zombie"}
            /\ owner[process_head[k].pid] = process_head[k].name
      /\ \A k, l \in 1 .. n : k < l /\ process_head[k].pid = process_head[l].pid
            => process_head[l].is_done
  BY <1>2 DEF KillInv, KillTargetsOwnChild, DoneBehind, Alive
<1>4. SUFFICES
        /\ \A k \in 1 .. n1 : ~process_head'[k].is_done =>
            /\ pstate'[process_head'[k].pid] \in {"running", "zombie"}
            /\ owner'[process_head'[k].pid] = process_head'[k].name
        /\ \A k, l \in 1 .. n1 : k < l /\ process_head'[k].pid = process_head'[l].pid
            => process_head'[l].is_done
  BY <1>1, <1>2 DEF KillInv, KillTargetsOwnChild, DoneBehind, Alive
<1> HIDE DEF n, n1
<1>5. CASE GatherOne
  <2>1. PICK p \in Pid : /\ pstate' = [pstate EXCEPT ![p] = "free"]
                         /\ process_head' = update_process(p, status[p])
                         /\ owner' = owner
    BY <1>5 DEF GatherOne
  <2>2. /\ n1 = n
        /\ \A k \in 1 .. n :
              process_head'[k] = IF k = IndexOfPid(p) /\ ~process_head[k].is_done
                                 THEN Complete(process_head[k], AnswerOf(status[p]))
                                 ELSE process_head[k]
    BY <1>1, <2>1, UpdateProperties DEF TypeOK, n, n1
  <2>3. AnswerOf(status[p]) \in Code
    BY <1>1, StatusProperties, OwnCodes DEF TypeOK, AnswerOf
  <2>4. \A k \in 1 .. n :
          /\ process_head'[k].name = process_head[k].name
          /\ process_head'[k].pid = process_head[k].pid
          /\ process_head[k].is_done => process_head'[k].is_done
          /\ k = IndexOfPid(p) => process_head'[k].is_done
    BY <1>2, <2>2, <2>3, CompleteProperties
  <2>5. ASSUME NEW k \in 1 .. n, process_head[k].pid = p
        PROVE  process_head'[k].is_done
    <3>1. IndexOfPid(p) \in 1 .. n /\ IndexOfPid(p) <= k /\ process_head[IndexOfPid(p)].pid = p
      <4> DEFINE j == IndexOfPid(p)
      <4>1. /\ j \in 0 .. n
            /\ j = 0 => \A l \in 1 .. n : process_head[l].pid # p
            /\ j # 0 => /\ process_head[j].pid = p
                        /\ \A l \in 1 .. j - 1 : process_head[l].pid # p
        BY <1>1, IndexOfPidProperties DEF TypeOK, n
      <4> HIDE DEF j
      <4>2. j # 0 /\ ~(k < j)
        BY <1>2, <2>5, <4>1
      <4> QED
        BY <1>2, <4>1, <4>2 DEF j
    <3>2. CASE IndexOfPid(p) = k
      BY <2>4, <3>2
    <3>3. CASE IndexOfPid(p) < k
      BY <1>3, <2>4, <2>5, <3>1, <3>3
    <3> QED
      BY <1>2, <3>1, <3>2, <3>3
  <2> QED
    BY <1>1, <1>3, <2>1, <2>2, <2>4, <2>5 DEF TypeOK
<1>6. CASE GatherDone \/ ForkFail \/ UNCHANGED vars
  BY <1>3, <1>6 DEF GatherDone, ForkFail, vars, kernel, n, n1
<1>7. CASE CheckTimeouts
  <2>1. /\ n1 = n
        /\ \A k \in 1 .. n :
              process_head'[k] = IF test_timeout > 0 /\ TimedOut(process_head[k])
                                 THEN Complete(process_head[k], ETOOLONG)
                                 ELSE process_head[k]
    BY <1>1, <1>7, TimeoutsEffect DEF TypeOK, n, n1
  <2>2. \A k \in 1 .. n :
          /\ process_head'[k].name = process_head[k].name
          /\ process_head'[k].pid = process_head[k].pid
          /\ process_head[k].is_done => process_head'[k].is_done
    <3> TAKE k \in 1 .. n
    <3> DEFINE c == Complete(process_head[k], ETOOLONG)
    <3>1. c.name = process_head[k].name /\ c.pid = process_head[k].pid /\ c.is_done
      BY <1>2, CompleteProperties, OwnCodes
    <3>2. process_head'[k] = c \/ process_head'[k] = process_head[k]
      BY <2>1
    <3> HIDE DEF c
    <3> QED
      BY <3>1, <3>2
  <2> QED
    BY <1>3, <1>7, <2>1, <2>2 DEF CheckTimeouts
<1>8. CASE CheckProcesses
  <2> DEFINE i == IndexOfName(tbinary)
  <2>1. i \in 0 .. n
    BY <1>1, IndexOfNameProperties DEF TypeOK, n
  <2> HIDE DEF i
  <2>2. UNCHANGED <<pstate, owner>>
    BY <1>8 DEF CheckProcesses, kernel
  <2>3. CASE i = 0 \/ ~process_head[i].is_done
    <3>1. UNCHANGED process_head
      BY <1>8, <2>3 DEF CheckProcesses, i
    <3> QED
      BY <1>3, <2>2, <3>1 DEF n, n1
  <2>4. CASE i # 0 /\ process_head[i].is_done
    <3>1. process_head' = remove_process(process_head[i].pid)
      BY <1>8, <2>4 DEF CheckProcesses, i
    <3>2. PICK j \in 1 .. n :
            /\ n1 = n - 1
            /\ \A k \in 1 .. n - 1 :
                 process_head'[k] = IF k < j THEN process_head[k] ELSE process_head[k + 1]
      <4> DEFINE j == IndexOfPid(process_head[i].pid)
      <4>1. i \in 1 .. Len(process_head)
        BY <1>2, <2>1, <2>4 DEF n
      <4>2. /\ j \in 1 .. i
            /\ Len(process_head') = Len(process_head) - 1
            /\ \A k \in 1 .. Len(process_head) - 1 :
                 process_head'[k] = IF k < j THEN process_head[k] ELSE process_head[k + 1]
        BY <1>1, <3>1, <4>1, RemoveEffect
      <4> HIDE DEF j
      <4>3. j \in 1 .. n
        BY <1>2, <4>1, <4>2 DEF n
      <4> QED
        BY <4>2, <4>3 DEF n, n1
    <3>3. \A k \in 1 .. n1 : \E l \in 1 .. n :
            process_head'[k] = process_head[l] /\ l = IF k < j THEN k ELSE k + 1
      BY <1>2, <3>2
    <3> QED
      BY <1>2, <1>3, <2>2, <3>3
  <2> QED
    BY <2>3, <2>4
<1>9. CASE ForkAdd
  <2>1. PICK p \in ForkPids : Spawn(p) /\ process_head' = add_process(tbinary, p)
    BY <1>9 DEF ForkAdd
  <2>2. p \in Pid /\ pstate[p] = "free" /\ tbinary \in Name
    BY <1>1, <1>9, NameOfCall DEF ForkPids, ForkAdd, TypeOK
  <2>3. /\ Len(process_head') = Len(process_head) + 1
        /\ \A k \in 1 .. Len(process_head) + 1 :
              process_head'[k] = IF k = 1 THEN NewProcess(tbinary, p) ELSE process_head[k - 1]
    BY <1>1, <2>1, <2>2, AddEffect DEF TypeOK
  <2>4. /\ n1 = n + 1
        /\ process_head'[1] = NewProcess(tbinary, p)
        /\ \A k \in 2 .. n1 : process_head'[k] = process_head[k - 1]
    BY <1>2, <2>3 DEF n, n1
  <2>5. /\ process_head'[1].pid = p /\ process_head'[1].name = tbinary
        /\ pstate' = [pstate EXCEPT ![p] = "running"]
        /\ owner' = [owner EXCEPT ![p] = tbinary]
    BY <2>1, <2>4 DEF NewProcess, Spawn
  <2>6. \A k \in 1 .. n : process_head[k].pid = p => process_head[k].is_done
    BY <1>3, <2>2
  <2>7. ASSUME NEW k \in 2 .. n1
        PROVE  k - 1 \in 1 .. n /\ process_head'[k] = process_head[k - 1]
    BY <1>2, <2>4
  <2>8. ASSUME NEW k \in 1 .. n1, ~process_head'[k].is_done
        PROVE  /\ pstate'[process_head'[k].pid] \in {"running", "zombie"}
               /\ owner'[process_head'[k].pid] = process_head'[k].name
    <3>1. CASE k = 1
      BY <1>1, <2>2, <2>5, <3>1 DEF TypeOK
    <3>2. CASE k # 1
      <4>1. process_head'[k] = process_head[k - 1] /\ k - 1 \in 1 .. n
        BY <1>2, <2>7, <3>2
      <4>2. process_head[k - 1].pid \in Pid \ {p}
        BY <1>2, <2>6, <2>8, <4>1 DEF Process
      <4> QED
        BY <1>1, <1>3, <2>5, <2>8, <4>1, <4>2 DEF TypeOK
    <3> QED
      BY <3>1, <3>2
  <2>9. ASSUME NEW k \in 1 .. n1, NEW l \in 1 .. n1, k < l,
               process_head'[k].pid = process_head'[l].pid
        PROVE  process_head'[l].is_done
    <3>1. process_head'[l] = process_head[l - 1] /\ l - 1 \in 1 .. n
      BY <1>2, <2>7, <2>9
    <3>2. CASE k = 1
      BY <2>5, <2>6, <2>9, <3>1, <3>2
    <3>3. CASE k # 1
      <4>1. process_head'[k] = process_head[k - 1] /\ k - 1 \in 1 .. n /\ k - 1 < l - 1
        BY <1>2, <2>7, <2>9, <3>3
      <4> QED
        BY <1>3, <2>9, <3>1, <4>1
    <3> QED
      BY <3>2, <3>3
  <2> QED
    BY <2>8, <2>9
<1>10. CASE ForkNoMem
  <2>1. n1 = 0
    BY <1>10 DEF ForkNoMem, n1
  <2> QED
    BY <2>1
<1>11. CASE ChildExit
  <2>1. PICK p \in Pid : pstate' = [pstate EXCEPT ![p] = "zombie"]
    BY <1>11 DEF ChildExit
  <2>2. UNCHANGED <<process_head, owner>>
    BY <1>11 DEF ChildExit
  <2>3. \A k \in 1 .. n : process_head[k].pid \in Pid
    BY <1>2 DEF Process
  <2> QED
    BY <1>1, <1>3, <2>1, <2>2, <2>3 DEF TypeOK, n, n1
<1>12. CASE Tick
  <2>1. /\ n1 = n
        /\ \A k \in 1 .. n :
               /\ process_head'[k].name = process_head[k].name
               /\ process_head'[k].pid = process_head[k].pid
               /\ process_head'[k].is_done = process_head[k].is_done
    BY <1>1, <1>12, TickEffect DEF TypeOK, n, n1
  <2> QED
    BY <1>3, <1>12, <2>1 DEF Tick, kernel
<1> QED
  BY <1>5, <1>6, <1>7, <1>8, <1>9, <1>10, <1>11, <1>12 DEF Next, CheckBin

(* SIGKILL reaches only unreaped children of the daemon: for every list of
   programs, every time-out and every set of PIDs, with PID reuse and with
   failing fork() and malloc(). *)
THEOREM KillIsSafe == Spec => []KillTargetsOwnChild
<1>1. Init => KillInv
  BY KillInit
<1>2. KillInv /\ [Next]_vars => KillInv'
  BY KillNext
<1>3. KillInv => KillTargetsOwnChild
  BY DEF KillInv
<1> QED
  BY <1>1, <1>2, <1>3, PTL DEF Spec

-----------------------------------------------------------------------------
(* As long as fork() returns no PID that is still on the list and malloc()
   works, the list is an exact account of the children. *)

(* No PID and no program is on the list twice. *)
Distinct ==
    \A k, l \in 1 .. Len(process_head) : k # l =>
        /\ process_head[k].pid # process_head[l].pid
        /\ process_head[k].name # process_head[l].name

(* A program about to be started is not on the list. *)
NoEntry ==
    pc = "fork" => \A k \in 1 .. Len(process_head) : process_head[k].name # tbinary

(* An entry x agrees with the state of its process: open entries belong to
   unreaped children, completed ones to a child that was killed or reaped. *)
SoundIn(x, ps, ow, st, ki) ==
    /\ ow[x.pid] = x.name
    /\ ~x.is_done => x.pid \notin ki /\ ps[x.pid] # "free"
    /\ x.is_done /\ x.pid \in ki => x.ecode = ETOOLONG
    /\ x.is_done /\ x.pid \notin ki => ps[x.pid] = "free" /\ x.ecode = AnswerOf(st[x.pid])

Sound(x) == SoundIn(x, pstate, owner, status, killed)

(* Every child that counts has an open entry. *)
Tracked ==
    \A p \in Pid : pstate[p] # "free" /\ p \notin killed =>
        \E k \in 1 .. Len(process_head) :
            process_head[k].pid = p /\ ~process_head[k].is_done

AllSound == \A k \in 1 .. Len(process_head) : Sound(process_head[k])

SingleInv == TypeOK /\ Distinct /\ NoEntry /\ AllSound /\ Tracked

(* Soundness looks at four fields and at the state of one process. *)
LEMMA SoundFrame ==
  ASSUME NEW x, NEW ps, NEW ow, NEW st, NEW ki, SoundIn(x, ps, ow, st, ki),
         NEW y, NEW ps1, NEW ow1, NEW st1, NEW ki1,
         y.name = x.name, y.pid = x.pid, y.ecode = x.ecode, y.is_done = x.is_done,
         ps1[x.pid] = ps[x.pid], ow1[x.pid] = ow[x.pid], st1[x.pid] = st[x.pid],
         x.pid \in ki1 <=> x.pid \in ki
  PROVE  SoundIn(y, ps1, ow1, st1, ki1)
BY DEF SoundIn

(* SingleInv holds at the start. *)
LEMMA SingleInit == Init => SingleInv
BY TypeInit DEF Init, SingleInv, Distinct, NoEntry, AllSound, Tracked

(* Reaping a child completes exactly its own entry. *)
LEMMA SingleGather ==
  ASSUME SingleInv, TypeOK', GatherOne
  PROVE  Distinct' /\ NoEntry' /\ AllSound' /\ Tracked'
<1>1. PICK p \in Pid : /\ pstate[p] = "zombie"
                       /\ pstate' = [pstate EXCEPT ![p] = "free"]
                       /\ process_head' = update_process(p, status[p])
                       /\ UNCHANGED <<owner, status, killed>>
                       /\ pc' = "gather"
  BY DEF GatherOne
<1>2. TypeOK /\ process_head \in Seq(Process) /\ status[p] \in WaitStatus \cup {0}
  BY DEF SingleInv, TypeOK
<1>3. AnswerOf(status[p]) \in Code
  BY <1>2, StatusProperties, OwnCodes DEF AnswerOf
<1>4. /\ Len(process_head') = Len(process_head)
      /\ \A k \in 1 .. Len(process_head) :
            process_head'[k] = IF k = IndexOfPid(p) /\ ~process_head[k].is_done
                               THEN Complete(process_head[k], AnswerOf(status[p]))
                               ELSE process_head[k]
  BY <1>1, <1>2, UpdateProperties
<1>5. ASSUME NEW k \in 1 .. Len(process_head)
      PROVE  /\ process_head[k] \in Process
             /\ k = IndexOfPid(p) <=> process_head[k].pid = p
  <2> DEFINE j == IndexOfPid(p)
  <2>1. /\ j \in 0 .. Len(process_head)
        /\ j = 0 => \A l \in 1 .. Len(process_head) : process_head[l].pid # p
        /\ j # 0 => process_head[j].pid = p
    BY <1>2, IndexOfPidProperties
  <2> HIDE DEF j
  <2>2. k = j <=> process_head[k].pid = p
    BY <1>2, <2>1 DEF SingleInv, Distinct
  <2> QED
    BY <1>2, <2>2, ElementOfSeq DEF j
<1>6. ASSUME NEW k \in 1 .. Len(process_head)
      PROVE  /\ process_head'[k].name = process_head[k].name
             /\ process_head'[k].pid = process_head[k].pid
             /\ process_head[k].pid # p \/ process_head[k].is_done
                  => process_head'[k] = process_head[k]
             /\ process_head[k].pid = p /\ ~process_head[k].is_done
                  => /\ process_head'[k].is_done
                     /\ process_head'[k].ecode = AnswerOf(status[p])
  <2> DEFINE c == Complete(process_head[k], AnswerOf(status[p]))
  <2>1. /\ c.name = process_head[k].name /\ c.pid = process_head[k].pid
        /\ c.is_done /\ c.ecode = AnswerOf(status[p])
    BY <1>3, <1>5, CompleteProperties
  <2>2. process_head'[k] = IF process_head[k].pid = p /\ ~process_head[k].is_done
                           THEN c ELSE process_head[k]
    BY <1>4, <1>5
  <2> HIDE DEF c
  <2> QED
    BY <2>1, <2>2
<1>7. Distinct'
  BY <1>4, <1>6 DEF SingleInv, Distinct
<1>8. ASSUME NEW k \in 1 .. Len(process_head) PROVE Sound(process_head[k])'
  <2>1. Sound(process_head[k])
    BY DEF SingleInv, AllSound
  <2>2. process_head[k].pid \in Pid
    BY <1>5 DEF Process
  <2>3. CASE process_head[k].pid # p
    <3>1. process_head'[k] = process_head[k] /\ pstate'[process_head[k].pid] = pstate[process_head[k].pid]
      BY <1>1, <1>2, <1>6, <2>2, <2>3 DEF TypeOK
    <3> QED
      BY <1>1, <2>1, <3>1 DEF Sound, SoundIn
  <2>4. CASE process_head[k].pid = p /\ process_head[k].is_done
    <3>1. process_head'[k] = process_head[k] /\ p \in killed
      BY <1>1, <1>6, <2>1, <2>4 DEF Sound, SoundIn
    <3> QED
      BY <1>1, <2>1, <2>4, <3>1 DEF Sound, SoundIn
  <2>5. CASE process_head[k].pid = p /\ ~process_head[k].is_done
    <3>1. p \notin killed /\ owner[p] = process_head[k].name
      BY <2>1, <2>5 DEF Sound, SoundIn
    <3>2. pstate'[p] = "free"
      BY <1>1, <1>2 DEF TypeOK
    <3> QED
      BY <1>1, <1>6, <2>5, <3>1, <3>2 DEF Sound, SoundIn
  <2> QED
    BY <2>3, <2>4, <2>5
<1>9. ASSUME NEW q \in Pid, pstate'[q] # "free", q \notin killed'
      PROVE  \E k \in 1 .. Len(process_head) :
                process_head'[k].pid = q /\ ~process_head'[k].is_done
  <2>1. q # p /\ pstate[q] # "free" /\ q \notin killed
    BY <1>1, <1>2, <1>9 DEF TypeOK
  <2>2. PICK k \in 1 .. Len(process_head) : process_head[k].pid = q /\ ~process_head[k].is_done
    BY <2>1 DEF SingleInv, Tracked
  <2> QED
    BY <1>6, <2>1, <2>2
<1> QED
  BY <1>1, <1>4, <1>7, <1>8, <1>9 DEF NoEntry, AllSound, Tracked
(* Killing overdue children moves them from the open entries to the killed. *)
LEMMA SingleTimeouts ==
  ASSUME SingleInv, TypeOK', CheckTimeouts
  PROVE  Distinct' /\ NoEntry' /\ AllSound' /\ Tracked'
<1> DEFINE late(k) == test_timeout > 0 /\ TimedOut(process_head[k])
<1>1. TypeOK /\ process_head \in Seq(Process)
  BY DEF SingleInv, TypeOK
<1>2. /\ UNCHANGED <<pstate, owner, status>>
      /\ pc' # "fork"
      /\ killed' = killed \cup {process_head[k].pid : k \in {l \in 1 .. Len(process_head) : late(l)}}
  <2>1. DOMAIN process_head = 1 .. Len(process_head)
    BY <1>1, LenProperties
  <2>2. CASE test_timeout > 0
    BY <2>1, <2>2 DEF CheckTimeouts, Return
  <2>3. CASE ~(test_timeout > 0)
    BY <2>3 DEF CheckTimeouts, Return
  <2> QED
    BY <2>2, <2>3
<1>3. /\ Len(process_head') = Len(process_head)
      /\ \A k \in 1 .. Len(process_head) :
            process_head'[k] = IF late(k) THEN Complete(process_head[k], ETOOLONG)
                                          ELSE process_head[k]
  BY <1>1, TimeoutsEffect
<1>4. \A k \in 1 .. Len(process_head) : late(k) => ~process_head[k].is_done
  BY DEF TimedOut
<1> HIDE DEF late
<1>5. ASSUME NEW k \in 1 .. Len(process_head)
      PROVE  /\ process_head'[k].name = process_head[k].name
             /\ process_head'[k].pid = process_head[k].pid
             /\ ~late(k) => process_head'[k] = process_head[k]
             /\ late(k) => process_head'[k].is_done /\ process_head'[k].ecode = ETOOLONG
  <2> DEFINE c == Complete(process_head[k], ETOOLONG)
  <2>1. process_head[k] \in Process
    BY <1>1, ElementOfSeq
  <2>2. /\ c.name = process_head[k].name /\ c.pid = process_head[k].pid
        /\ c.is_done /\ c.ecode = ETOOLONG
    BY <2>1, CompleteProperties, OwnCodes
  <2>3. process_head'[k] = IF late(k) THEN c ELSE process_head[k]
    BY <1>3
  <2> HIDE DEF c
  <2> QED
    BY <2>2, <2>3
<1>6. ASSUME NEW k \in 1 .. Len(process_head)
      PROVE  process_head[k].pid \in killed' <=> process_head[k].pid \in killed \/ late(k)
  BY <1>2 DEF SingleInv, Distinct
<1>7. Distinct'
  BY <1>3, <1>5 DEF SingleInv, Distinct
<1>8. ASSUME NEW k \in 1 .. Len(process_head) PROVE Sound(process_head[k])'
  <2>1. Sound(process_head[k])
    BY DEF SingleInv, AllSound
  <2>2. CASE ~late(k)
    BY <1>2, <1>5, <1>6, <2>1, <2>2 DEF Sound, SoundIn
  <2>3. CASE late(k)
    BY <1>2, <1>5, <1>6, <2>1, <2>3 DEF Sound, SoundIn
  <2> QED
    BY <2>2, <2>3
<1>9. ASSUME NEW q \in Pid, pstate'[q] # "free", q \notin killed'
      PROVE  \E k \in 1 .. Len(process_head) :
                process_head'[k].pid = q /\ ~process_head'[k].is_done
  <2>1. pstate[q] # "free" /\ q \notin killed
    BY <1>2, <1>9
  <2>2. PICK k \in 1 .. Len(process_head) : process_head[k].pid = q /\ ~process_head[k].is_done
    BY <2>1 DEF SingleInv, Tracked
  <2> QED
    BY <1>5, <1>6, <1>9, <2>2
<1> QED
  BY <1>2, <1>3, <1>7, <1>8, <1>9 DEF NoEntry, AllSound, Tracked

(* With distinct PIDs, the entry taken off is the one whose answer is used. *)
LEMMA SingleLookup ==
  ASSUME SingleInv, TypeOK', CheckProcesses
  PROVE  Distinct' /\ NoEntry' /\ AllSound' /\ Tracked'
<1> DEFINE i == IndexOfName(tbinary)
           n == Len(process_head)
<1>1. TypeOK /\ process_head \in Seq(Process) /\ n \in Nat
  BY DEF SingleInv, TypeOK
<1>2. /\ i \in 0 .. n
      /\ i = 0 => \A k \in 1 .. n : process_head[k].name # tbinary
      /\ i # 0 => process_head[i].name = tbinary
  BY <1>1, IndexOfNameProperties
<1> HIDE DEF i
<1>3. UNCHANGED <<pstate, owner, status, killed>>
  BY DEF CheckProcesses, kernel
<1>4. CASE i = 0
  <2>1. UNCHANGED <<process_head, act>>
    BY <1>4 DEF CheckProcesses, i
  <2> QED
    BY <1>2, <1>3, <1>4, <2>1
    DEF SingleInv, Distinct, NoEntry, AllSound, Tracked, Sound, SoundIn, tbinary, LastCall
<1>5. CASE i # 0 /\ ~process_head[i].is_done
  <2>1. UNCHANGED process_head /\ pc' # "fork"
    BY <1>5 DEF CheckProcesses, Return, i
  <2> QED
    BY <1>3, <2>1 DEF SingleInv, Distinct, NoEntry, AllSound, Tracked, Sound, SoundIn
<1>6. CASE i # 0 /\ process_head[i].is_done
  <2>1. process_head' = remove_process(process_head[i].pid) /\ tbinary' = tbinary
    BY <1>6 DEF CheckProcesses, tbinary, LastCall, i
  <2>2. i \in 1 .. n
    BY <1>1, <1>2, <1>6
  <2>3. /\ Len(process_head') = n - 1
        /\ \A k \in 1 .. n - 1 :
              process_head'[k] = IF k < i THEN process_head[k] ELSE process_head[k + 1]
    <3> DEFINE j == IndexOfPid(process_head[i].pid)
    <3>1. /\ j \in 1 .. i
          /\ process_head[j].pid = process_head[i].pid
          /\ Len(process_head') = n - 1
          /\ \A k \in 1 .. n - 1 :
                process_head'[k] = IF k < j THEN process_head[k] ELSE process_head[k + 1]
      BY <1>1, <2>1, <2>2, RemoveEffect
    <3> HIDE DEF j
    <3>2. j = i
      BY <1>1, <2>2, <3>1 DEF SingleInv, Distinct
    <3> QED
      BY <3>1, <3>2
  <2> DEFINE old(k) == IF k < i THEN k ELSE k + 1
  <2>4. ASSUME NEW k \in 1 .. n - 1
        PROVE  /\ old(k) \in 1 .. n /\ old(k) # i
               /\ process_head'[k] = process_head[old(k)]
    BY <1>1, <2>2, <2>3
  <2>5. ASSUME NEW k \in 1 .. n, k # i
        PROVE  \E l \in 1 .. n - 1 : process_head'[l] = process_head[k]
    <3>1. CASE k < i
      BY <1>1, <2>2, <2>3, <3>1
    <3>2. CASE k > i
      <4>1. k - 1 \in 1 .. n - 1 /\ ~(k - 1 < i) /\ (k - 1) + 1 = k
        BY <1>1, <2>2, <3>2
      <4> QED
        BY <2>3, <4>1
    <3> QED
      BY <1>1, <2>2, <2>5, <3>1, <3>2
  <2>6. \A k, l \in 1 .. n - 1 : k # l => old(k) # old(l)
    BY <1>1, <2>2
  <2> HIDE DEF old
  <2>7. Distinct'
    <3>1. ASSUME NEW k \in 1 .. n - 1, NEW l \in 1 .. n - 1, k # l
          PROVE  /\ process_head'[k].pid # process_head'[l].pid
                 /\ process_head'[k].name # process_head'[l].name
      <4>1. old(k) \in 1 .. n /\ old(l) \in 1 .. n /\ old(k) # old(l)
        BY <2>4, <2>6, <3>1
      <4>2. /\ process_head[old(k)].pid # process_head[old(l)].pid
            /\ process_head[old(k)].name # process_head[old(l)].name
        BY <4>1 DEF SingleInv, Distinct
      <4>3. process_head'[k] = process_head[old(k)] /\ process_head'[l] = process_head[old(l)]
        BY <2>4
      <4> QED
        BY <4>2, <4>3
    <3> QED
      BY <2>3, <3>1 DEF Distinct
  <2>8. NoEntry'
    BY <1>2, <2>1, <2>2, <2>3, <2>4 DEF SingleInv, Distinct, NoEntry
  <2>9. AllSound'
    BY <1>3, <2>3, <2>4 DEF SingleInv, AllSound, Sound, SoundIn
  <2>10. ASSUME NEW q \in Pid, pstate'[q] # "free", q \notin killed'
         PROVE  \E l \in 1 .. n - 1 : process_head'[l].pid = q /\ ~process_head'[l].is_done
    <3>1. PICK k \in 1 .. n : process_head[k].pid = q /\ ~process_head[k].is_done
      BY <1>3, <2>10 DEF SingleInv, Tracked
    <3>2. k # i
      BY <1>6, <3>1
    <3> QED
      BY <2>5, <3>1, <3>2
  <2> QED
    BY <2>3, <2>7, <2>8, <2>9, <2>10 DEF Tracked
<1> QED
  BY <1>4, <1>5, <1>6

(* A new child gets the only open entry with its PID and its program. *)
LEMMA SingleFork ==
  ASSUME ~PidReuse, SingleInv, TypeOK', ForkAdd
  PROVE  Distinct' /\ NoEntry' /\ AllSound' /\ Tracked'
<1> DEFINE n == Len(process_head)
<1>1. TypeOK /\ process_head \in Seq(Process) /\ n \in Nat /\ DOMAIN process_head = 1 .. n
  BY LenProperties DEF SingleInv, TypeOK
<1>2. PICK p \in ForkPids : Spawn(p) /\ process_head' = add_process(tbinary, p)
  BY DEF ForkAdd
<1>3. /\ p \in Pid /\ pstate[p] = "free" /\ tbinary \in Name
      /\ \A k \in 1 .. n : process_head[k].pid # p /\ process_head[k].name # tbinary
  BY <1>1, NameOfCall DEF ForkPids, ForkAdd, TypeOK, SingleInv, NoEntry
<1>4. /\ Len(process_head') = n + 1
      /\ \A k \in 1 .. n + 1 :
            process_head'[k] = IF k = 1 THEN NewProcess(tbinary, p) ELSE process_head[k - 1]
  BY <1>1, <1>2, <1>3, AddEffect
<1>5. /\ process_head'[1].pid = p /\ process_head'[1].name = tbinary
      /\ ~process_head'[1].is_done
  BY <1>1, <1>4 DEF NewProcess
<1>6. ASSUME NEW k \in 2 .. n + 1
      PROVE  k - 1 \in 1 .. n /\ process_head'[k] = process_head[k - 1]
  BY <1>1, <1>4
<1>7. ASSUME NEW k \in 1 .. n
      PROVE  k + 1 \in 1 .. n + 1 /\ process_head'[k + 1] = process_head[k]
  BY <1>1, <1>4
<1>8. /\ pstate' = [pstate EXCEPT ![p] = "running"]
      /\ owner' = [owner EXCEPT ![p] = tbinary]
      /\ status' = status /\ killed' = killed \ {p} /\ pc' # "fork"
  BY <1>2 DEF Spawn, ForkAdd, Return
<1>9. Distinct'
  <2> SUFFICES ASSUME NEW k \in 1 .. n + 1, NEW l \in 1 .. n + 1, k # l
               PROVE  /\ process_head'[k].pid # process_head'[l].pid
                      /\ process_head'[k].name # process_head'[l].name
    BY <1>4 DEF Distinct
  <2>1. CASE k = 1
    <3>1. l - 1 \in 1 .. n /\ process_head'[l] = process_head[l - 1]
      BY <1>1, <1>6, <2>1
    <3> QED
      BY <1>3, <1>5, <2>1, <3>1
  <2>2. CASE l = 1
    <3>1. k - 1 \in 1 .. n /\ process_head'[k] = process_head[k - 1]
      BY <1>1, <1>6, <2>2
    <3> QED
      BY <1>3, <1>5, <2>2, <3>1
  <2>3. CASE k # 1 /\ l # 1
    <3>1. /\ k - 1 \in 1 .. n /\ process_head'[k] = process_head[k - 1]
          /\ l - 1 \in 1 .. n /\ process_head'[l] = process_head[l - 1]
          /\ k - 1 # l - 1
      BY <1>1, <1>6, <2>3
    <3> QED
      BY <3>1 DEF SingleInv, Distinct
  <2> QED
    BY <2>1, <2>2, <2>3
<1>10. ASSUME NEW k \in 1 .. n + 1 PROVE Sound(process_head[k])'
  <2>1. CASE k = 1
    <3>1. pstate'[p] = "running" /\ owner'[p] = tbinary /\ p \notin killed'
      BY <1>1, <1>3, <1>8 DEF TypeOK
    <3> QED
      BY <1>5, <2>1, <3>1 DEF Sound, SoundIn
  <2>2. CASE k # 1
    <3>1. k - 1 \in 1 .. n /\ process_head'[k] = process_head[k - 1]
      BY <1>1, <1>6, <2>2
    <3> DEFINE x == process_head[k - 1]
    <3>2. Sound(x) /\ x \in Process
      BY <1>1, <3>1, ElementOfSeq DEF SingleInv, AllSound
    <3>3. x.pid \in Pid /\ x.pid # p
      BY <1>3, <3>1, <3>2 DEF Process
    <3>4. /\ pstate'[x.pid] = pstate[x.pid] /\ owner'[x.pid] = owner[x.pid]
          /\ x.pid \in killed' <=> x.pid \in killed
      BY <1>1, <1>8, <3>3 DEF TypeOK
    <3> HIDE DEF x
    <3>5. SoundIn(x, pstate', owner', status', killed')
      BY <1>8, <3>2, <3>4 DEF Sound, SoundIn
    <3> QED
      BY <3>1, <3>5 DEF Sound, x
  <2> QED
    BY <2>1, <2>2
<1>11. ASSUME NEW q \in Pid, pstate'[q] # "free", q \notin killed'
       PROVE  \E k \in 1 .. n + 1 : process_head'[k].pid = q /\ ~process_head'[k].is_done
  <2>1. CASE q = p
    BY <1>1, <1>5, <2>1
  <2>2. CASE q # p
    <3>1. pstate[q] # "free" /\ q \notin killed
      BY <1>1, <1>8, <1>11, <2>2 DEF TypeOK
    <3>2. PICK k \in 1 .. n : process_head[k].pid = q /\ ~process_head[k].is_done
      BY <3>1 DEF SingleInv, Tracked
    <3> QED
      BY <1>7, <3>2
  <2> QED
    BY <2>1, <2>2
<1> QED
  BY <1>4, <1>8, <1>9, <1>10, <1>11 DEF NoEntry, AllSound, Tracked

(* A child that ends keeps its entry open until it is reaped. *)
LEMMA SingleExit ==
  ASSUME SingleInv, TypeOK', ChildExit
  PROVE  Distinct' /\ NoEntry' /\ AllSound' /\ Tracked'
<1>1. TypeOK /\ process_head \in Seq(Process)
  BY DEF SingleInv, TypeOK
<1>2. PICK p \in Pid, s \in WaitStatus :
         /\ pstate[p] = "running"
         /\ pstate' = [pstate EXCEPT ![p] = "zombie"]
         /\ status' = [status EXCEPT ![p] = s]
  BY DEF ChildExit
<1>3. UNCHANGED <<process_head, owner, killed, act, pc>>
  BY DEF ChildExit
<1>4. ASSUME NEW k \in 1 .. Len(process_head) PROVE Sound(process_head[k])'
  <2> DEFINE x == process_head[k]
  <2>1. Sound(x) /\ x.pid \in Pid
    <3>1. x \in Process
      BY <1>1, ElementOfSeq
    <3> QED
      BY <3>1 DEF SingleInv, AllSound, Process
  <2> HIDE DEF x
  <2>2. CASE x.pid = p
    <3>1. ~x.is_done \/ x.pid \in killed
      BY <1>2, <2>1, <2>2 DEF Sound, SoundIn
    <3>2. pstate'[x.pid] # "free"
      BY <1>1, <1>2, <2>2 DEF TypeOK
    <3> QED
      BY <1>3, <2>1, <3>1, <3>2 DEF Sound, SoundIn, x
  <2>3. CASE x.pid # p
    <3>1. pstate'[x.pid] = pstate[x.pid] /\ status'[x.pid] = status[x.pid]
      BY <1>1, <1>2, <2>1, <2>3 DEF TypeOK
    <3> QED
      BY <1>3, <2>1, <3>1 DEF Sound, SoundIn, x
  <2> QED
    BY <2>2, <2>3
<1>5. \A q \in Pid : pstate'[q] # "free" => pstate[q] # "free"
  BY <1>1, <1>2 DEF TypeOK
<1>6. Distinct' /\ NoEntry'
  BY <1>3 DEF SingleInv, Distinct, NoEntry, tbinary, LastCall
<1> QED
  BY <1>3, <1>4, <1>5, <1>6 DEF SingleInv, AllSound, Tracked

(* Time alone changes none of this. *)
LEMMA SingleTick ==
  ASSUME SingleInv, TypeOK', Tick
  PROVE  Distinct' /\ NoEntry' /\ AllSound' /\ Tracked'
<1>1. TypeOK /\ process_head \in Seq(Process)
  BY DEF SingleInv, TypeOK
<1>2. UNCHANGED <<pstate, owner, status, killed, act, pc>>
  BY DEF Tick, kernel
<1>3. /\ Len(process_head') = Len(process_head)
      /\ \A k \in 1 .. Len(process_head) :
            /\ process_head'[k].name = process_head[k].name
            /\ process_head'[k].pid = process_head[k].pid
            /\ process_head'[k].ecode = process_head[k].ecode
            /\ process_head'[k].is_done = process_head[k].is_done
  BY <1>1, TickEffect
<1>4. Distinct' /\ NoEntry'
  BY <1>2, <1>3 DEF SingleInv, Distinct, NoEntry, tbinary, LastCall
<1>5. AllSound'
  BY <1>2, <1>3, SoundFrame DEF SingleInv, AllSound, Sound
<1>6. Tracked'
  BY <1>2, <1>3 DEF SingleInv, Tracked
<1> QED
  BY <1>4, <1>5, <1>6

(* Every step preserves SingleInv, if PIDs on the list are not reused and
   malloc() works. *)
LEMMA SingleNext ==
  ASSUME ~PidReuse, ~MallocMayFail
  PROVE  SingleInv /\ [Next]_vars => SingleInv'
<1> SUFFICES ASSUME SingleInv, [Next]_vars PROVE SingleInv'
  OBVIOUS
<1>1. TypeOK /\ TypeOK'
  BY TypeNext DEF SingleInv
<1> SUFFICES Distinct' /\ NoEntry' /\ AllSound' /\ Tracked'
  BY <1>1 DEF SingleInv
<1>2. CASE GatherOne
  BY <1>1, <1>2, SingleGather
<1>3. CASE CheckTimeouts
  BY <1>1, <1>3, SingleTimeouts
<1>4. CASE CheckProcesses
  BY <1>1, <1>4, SingleLookup
<1>5. CASE ForkAdd
  BY <1>1, <1>5, SingleFork
<1>6. CASE ChildExit
  BY <1>1, <1>6, SingleExit
<1>7. CASE Tick
  BY <1>1, <1>7, SingleTick
<1>8. CASE ForkNoMem
  BY <1>8 DEF ForkNoMem
<1>9. CASE GatherDone \/ ForkFail \/ UNCHANGED vars
  <2>1. UNCHANGED <<process_head, pstate, owner, status, killed>>
    BY <1>9 DEF GatherDone, ForkFail, vars, kernel
  <2>2. pc' = "fork" => pc = "fork" /\ act' = act
    BY <1>9 DEF GatherDone, ForkFail, Return, vars
  <2> QED
    BY <2>1, <2>2 DEF SingleInv, Distinct, NoEntry, AllSound, Tracked, Sound, SoundIn,
       tbinary, LastCall
<1> QED
  BY <1>2, <1>3, <1>4, <1>5, <1>6, <1>7, <1>8, <1>9 DEF Next, CheckBin

(* SingleInv is strong enough for the three properties. *)
LEMMA SingleImplies == SingleInv => OneInstance /\ ResultsGenuine /\ ChildrenTracked
<1> SUFFICES ASSUME SingleInv PROVE OneInstance /\ ResultsGenuine /\ ChildrenTracked
  OBVIOUS
<1>1. DOMAIN process_head = 1 .. Len(process_head) /\ TypeOK
  BY LenProperties DEF SingleInv, TypeOK
<1>2. ChildrenTracked
  BY <1>1 DEF SingleInv, Tracked, ChildrenTracked, Alive
<1>3. ResultsGenuine
  BY <1>1 DEF SingleInv, AllSound, Sound, SoundIn, AnswerOf, ResultsGenuine
<1>4. ASSUME NEW p \in Pid, NEW q \in Pid, p # q,
             pstate[p] = "running", p \notin killed,
             pstate[q] = "running", q \notin killed
      PROVE  owner[p] # owner[q]
  <2>1. PICK k \in 1 .. Len(process_head) : process_head[k].pid = p
    BY <1>4 DEF SingleInv, Tracked
  <2>2. PICK l \in 1 .. Len(process_head) : process_head[l].pid = q
    BY <1>4 DEF SingleInv, Tracked
  <2>3. owner[p] = process_head[k].name /\ owner[q] = process_head[l].name
    BY <2>1, <2>2 DEF SingleInv, AllSound, Sound, SoundIn
  <2>4. process_head[k].name # process_head[l].name
    BY <1>4, <2>1, <2>2 DEF SingleInv, Distinct
  <2> QED
    BY <2>3, <2>4
<1> QED
  BY <1>2, <1>3, <1>4 DEF OneInstance

(* If fork() returns no PID that is still listed and malloc() does not fail,
   no program ever runs twice at a time, for any list and any time-out. *)
THEOREM NoSecondInstance ==
  ASSUME ~PidReuse, ~MallocMayFail
  PROVE  Spec => []OneInstance
<1>1. Init => SingleInv
  BY SingleInit
<1>2. SingleInv /\ [Next]_vars => SingleInv'
  BY SingleNext
<1>3. SingleInv => OneInstance
  BY SingleImplies
<1> QED
  BY <1>1, <1>2, <1>3, PTL DEF Spec

(* Under the same conditions every recorded answer is the answer of the run it
   is filed for, and no child that counts is missing from the list. *)
THEOREM AnswersKept ==
  ASSUME ~PidReuse, ~MallocMayFail
  PROVE  Spec => [](ResultsGenuine /\ ChildrenTracked)
<1>1. Init => SingleInv
  BY SingleInit
<1>2. SingleInv /\ [Next]_vars => SingleInv'
  BY SingleNext
<1>3. SingleInv => ResultsGenuine /\ ChildrenTracked
  BY SingleImplies
<1> QED
  BY <1>1, <1>2, <1>3, PTL DEF Spec

=============================================================================
