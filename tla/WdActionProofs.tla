---------------------------- MODULE WdActionProofs ----------------------------
(***************************************************************************)
(* Theorems about wd_action() and repair(), for every set of list entries, *)
(* every order of the checks and every setting of the time-outs.           *)
(***************************************************************************)
EXTENDS WdAction, TLAPS

(* The parameters the proofs compute with. *)
LEMMA Numbers ==
  /\ retry_timeout \in Nat /\ AgeCap \in Nat /\ AgeCap = retry_timeout + 1
  /\ repair_max \in Nat /\ CountCap \in Nat /\ CountCap = repair_max + 1
  /\ repair_timeout \in Nat /\ tint \in Nat /\ CheckTime \subseteq Nat
  /\ Len(loop) \in Nat /\ Len(loop) > 0
<1>1. retry_timeout \in Nat
  BY ParamAssumption DEF retry_timeout
<1>2. Len(loop) \in Nat /\ Len(loop) > 0
  BY LoopAssumption
<1> QED
  BY <1>1, <1>2, ParamAssumption DEF AgeCap, CountCap

(* A saturating age stays in its range and never goes down; adding the same
   time to two ages keeps their order. *)
LEMMA LaterProperties ==
  ASSUME NEW t \in 0 .. AgeCap, NEW d \in Nat
  PROVE  /\ Later(t, d) \in 0 .. AgeCap
         /\ Later(t, d) >= t
         /\ \A u \in 0 .. AgeCap : t <= u => Later(t, d) <= Later(u, d)
BY Numbers DEF Later

(* A saturating count stays in its range. *)
LEMMA CountProperties ==
  ASSUME NEW c \in 0 .. CountCap
  PROVE  /\ Count(c) \in 0 .. CountCap
         /\ Count(c) <= c + 1 /\ c <= Count(c)
         /\ c < CountCap => Count(c) = c + 1
BY Numbers DEF Count

(* The check at hand, and its list entry if it has one. *)
LEMMA SiteProperties ==
  ASSUME TypeOK
  PROVE  /\ site \in Site
         /\ act \in Act \cup {NULL}
         /\ act # NULL <=> Listed(site)
         /\ act # NULL => act = loop[site] /\ act \in Act
<1>1. CASE alive
  BY <1>1, Numbers DEF site, act, Site, Listed
<1>2. CASE ~alive
  <2>1. pos \in 1 .. Len(loop)
    BY <1>2, Numbers DEF TypeOK
  <2>2. loop[pos] \in Act \cup {NULL}
    BY <2>1, LoopAssumption
  <2> QED
    BY <1>2, <2>1, <2>2, Numbers DEF site, act, Site, Listed
<1> QED
  BY <1>1, <1>2 DEF TypeOK

(* Entries of different checks are different. *)
LEMMA EntryOfSite ==
  ASSUME NEW s \in Site, Listed(s)
  PROVE  /\ loop[s] \in Act
         /\ \A r \in Site : Listed(r) /\ loop[r] = loop[s] => r = s
<1>1. s \in 1 .. Len(loop) /\ loop[s] \in Act
  BY Numbers, LoopAssumption DEF Site, Listed
<1>2. ASSUME NEW r \in Site, Listed(r), loop[r] = loop[s] PROVE r = s
  <2>1. r \in DOMAIN loop /\ s \in DOMAIN loop
    BY <1>1, <1>2, Numbers, LoopAssumption DEF Site, Listed
  <2> QED
    BY <1>2, <2>1, LoopAssumption DEF Listed
<1> QED
  BY <1>1, <1>2

-----------------------------------------------------------------------------
(* Type correctness. *)

(* Elapsing time keeps the ages in range and lets none go down. *)
LEMMA ElapseEffect ==
  ASSUME TypeOK, NEW d \in Nat, Elapse(d)
  PROVE  /\ timer' \in [Act -> {Off} \cup 0 .. AgeCap]
         /\ okAge' \in [Site -> 0 .. AgeCap]
         /\ repAge' \in [Site -> 0 .. AgeCap]
         /\ \A s \in Site : okAge'[s] >= okAge[s] /\ repAge'[s] >= repAge[s]
         /\ \A a \in Act : timer'[a] = Off <=> timer[a] = Off
         /\ \A a \in Act, s \in Site : timer[a] # Off =>
               /\ timer[a] <= okAge[s] => timer'[a] <= okAge'[s]
               /\ timer[a] <= repAge[s] => timer'[a] <= repAge'[s]
<1>1. \A a \in Act : timer[a] # Off => timer[a] \in 0 .. AgeCap
  BY DEF TypeOK
<1>2. \A s \in Site : okAge[s] \in 0 .. AgeCap /\ repAge[s] \in 0 .. AgeCap
  BY DEF TypeOK
<1>3. \A a \in Act : timer'[a] = IF timer[a] = Off THEN Off ELSE Later(timer[a], d)
  BY DEF Elapse
<1>4. \A s \in Site : okAge'[s] = Later(okAge[s], d) /\ repAge'[s] = Later(repAge[s], d)
  BY DEF Elapse
<1>5. \A a \in Act : timer[a] # Off => timer'[a] \in 0 .. AgeCap /\ timer'[a] # Off
  <2>1. \A a \in Act : timer[a] # Off => timer'[a] \in 0 .. AgeCap
    BY <1>1, <1>3, LaterProperties
  <2> QED
    BY <2>1, Numbers DEF Off
<1>6. /\ timer' \in [Act -> {Off} \cup 0 .. AgeCap]
      /\ \A a \in Act : timer'[a] = Off <=> timer[a] = Off
  BY <1>3, <1>5 DEF Elapse
<1>7. \A s \in Site : /\ okAge'[s] \in 0 .. AgeCap /\ okAge'[s] >= okAge[s]
                      /\ repAge'[s] \in 0 .. AgeCap /\ repAge'[s] >= repAge[s]
  BY <1>2, <1>4, LaterProperties
<1>8. okAge' \in [Site -> 0 .. AgeCap] /\ repAge' \in [Site -> 0 .. AgeCap]
  BY <1>7 DEF Elapse
<1>9. ASSUME NEW a \in Act, NEW s \in Site, timer[a] # Off
      PROVE  /\ timer[a] <= okAge[s] => timer'[a] <= okAge'[s]
             /\ timer[a] <= repAge[s] => timer'[a] <= repAge'[s]
  BY <1>1, <1>2, <1>3, <1>4, <1>9, LaterProperties
<1> QED
  BY <1>6, <1>7, <1>8, <1>9

(* Where wd_action() returns to. *)
LEMMA AdvanceEffect ==
  ASSUME TypeOK, Advance
  PROVE  /\ pc' \in {"check", "sleep"}
         /\ pos' \in 0 .. Len(loop) /\ alive' \in BOOLEAN /\ (~alive' => pos' > 0)
<1>1. CASE ~alive /\ alive' = TRUE /\ pc' = "check" /\ UNCHANGED pos
  BY <1>1 DEF TypeOK
<1>2. CASE alive /\ pos < Len(loop) /\ pos' = pos + 1 /\ alive' = FALSE /\ pc' = "check"
  <2>1. pos' \in 0 .. Len(loop) /\ pos' > 0
    BY <1>2, Numbers DEF TypeOK
  <2> QED
    BY <1>2, <2>1
<1>3. CASE alive /\ pos = Len(loop) /\ pc' = "sleep" /\ UNCHANGED <<pos, alive>>
  BY <1>3 DEF TypeOK
<1> QED
  BY <1>1, <1>2, <1>3 DEF Advance

(* repair() and keep_alive() return codes. *)
LEMMA Codes ==
  /\ ENOERR \in Code /\ EREBOOT \in Code /\ ECHILD \in Code
  /\ CheckResult \subseteq Code /\ AliveResult \subseteq Code
  /\ \A n \in Nat : WEXITSTATUS(n) \in Code
  /\ \A c \in Code : c \in Nat
  /\ \A s \in RepairStatus \cup {0} : s \in Nat
<1>1. \A n \in Nat : WEXITSTATUS(n) \in Code
  BY DEF WEXITSTATUS, Code
<1>2. CheckResult \subseteq Code /\ AliveResult \subseteq Code
  BY ResultAssumption
<1> QED
  BY <1>1, <1>2, RepairAssumption DEF ENOERR, EREBOOT, ECHILD, Code

(* The initial state has the types. *)
LEMMA TypeInit == Init => TypeOK
<1> SUFFICES ASSUME Init PROVE TypeOK
  OBVIOUS
<1>1. pos \in 0 .. Len(loop) /\ left \in 0 .. repair_timeout
  BY Numbers DEF Init
<1>2. result \in Code /\ fault \in Code /\ last \in [Site -> Code]
  BY Codes DEF Init
<1>3. /\ timer \in [Act -> {Off} \cup 0 .. AgeCap]
      /\ repair_count \in [Act -> 0 .. CountCap]
  BY Numbers DEF Init
<1>4. /\ okAge \in [Site -> 0 .. AgeCap] /\ repAge \in [Site -> 0 .. AgeCap]
      /\ tries \in [Site -> 0 .. CountCap]
  BY Numbers DEF Init
<1> QED
  BY <1>1, <1>2, <1>3, <1>4 DEF Init, TypeOK

(* Every step keeps the types. *)
LEMMA TypeStep == TypeOK /\ [Next]_vars => TypeOK'
<1> SUFFICES ASSUME TypeOK, [Next]_vars PROVE TypeOK'
  OBVIOUS
<1> USE DEF daemon, proc, entries, history
<1>a. site \in Site /\ (act # NULL => act \in Act)
  BY SiteProperties
<1>b. 0 \in 0 .. AgeCap /\ 0 \in 0 .. CountCap
  BY Numbers
<1>1. CASE Check
  <2>1. PICK d \in CheckTime : Elapse(IF alive THEN 0 ELSE d)
    BY <1>1 DEF Check
  <2>2. (IF alive THEN 0 ELSE d) \in Nat
    BY Numbers
  <2>3. /\ timer' \in [Act -> {Off} \cup 0 .. AgeCap]
        /\ okAge' \in [Site -> 0 .. AgeCap] /\ repAge' \in [Site -> 0 .. AgeCap]
    BY <2>1, <2>2, ElapseEffect
  <2>4. result' \in Code
    BY <1>1, Codes DEF Check
  <2>5. last' \in [Site -> Code]
    BY <1>1, <2>4, <1>a DEF Check, TypeOK
  <2> QED
    BY <1>1, <2>3, <2>4, <2>5 DEF Check, TypeOK
<1>2. CASE Pass
  <2>1. /\ timer' \in [Act -> {Off} \cup 0 .. AgeCap]
        /\ repair_count' \in [Act -> 0 .. CountCap]
    <3>1. CASE act # NULL /\ result = ENOERR
      BY <1>2, <1>a, <1>b, <3>1 DEF Pass, TypeOK
    <3>2. CASE ~(act # NULL /\ result = ENOERR)
      BY <1>2, <3>2 DEF Pass, TypeOK
    <3> QED
      BY <3>1, <3>2
  <2>2. okAge' \in [Site -> 0 .. AgeCap] /\ tries' \in [Site -> 0 .. CountCap]
    <3>1. CASE result = ENOERR
      BY <1>2, <1>a, <1>b, <3>1 DEF Pass, TypeOK
    <3>2. CASE result # ENOERR
      BY <1>2, <3>2 DEF Pass, TypeOK
    <3> QED
      BY <3>1, <3>2
  <2>3. /\ pc' \in {"check", "sleep"}
        /\ pos' \in 0 .. Len(loop) /\ alive' \in BOOLEAN /\ (~alive' => pos' > 0)
    BY <1>2, AdvanceEffect DEF Pass
  <2> QED
    BY <1>2, <2>1, <2>2, <2>3 DEF Pass, TypeOK
<1>3. CASE NotRepairable
  BY <1>3 DEF NotRepairable, TypeOK
<1>4. CASE Defer
  <2>1. timer' \in [Act -> {Off} \cup 0 .. AgeCap]
    <3>1. CASE timer[act] = Off
      BY <1>4, <1>a, <1>b, <3>1 DEF Defer, Expired, Timed, TypeOK
    <3>2. CASE timer[act] # Off
      BY <1>4, <3>2 DEF Defer, TypeOK
    <3> QED
      BY <3>1, <3>2
  <2>3. /\ pc' \in {"check", "sleep"}
        /\ pos' \in 0 .. Len(loop) /\ alive' \in BOOLEAN /\ (~alive' => pos' > 0)
    BY <1>4, AdvanceEffect DEF Defer
  <2> QED
    BY <1>4, <2>1, <2>3 DEF Defer, TypeOK
<1>5. CASE GiveUp
  <2>1. act \in Act
    BY <1>5, <1>a DEF GiveUp, Exceeded, Counted
  <2>2. Count(repair_count[act]) \in 0 .. CountCap
    BY <2>1, CountProperties DEF TypeOK
  <2>3. repair_count' \in [Act -> 0 .. CountCap]
    BY <1>5, <2>1, <2>2 DEF GiveUp, TypeOK
  <2> QED
    BY <1>5, <2>3 DEF GiveUp, TypeOK
<1>6. CASE TryRepair
  <2>1. /\ timer' \in [Act -> {Off} \cup 0 .. AgeCap]
        /\ repair_count' \in [Act -> 0 .. CountCap]
    <3>1. CASE Counted
      <4>1. act \in Act
        BY <3>1, <1>a DEF Counted
      <4>2. Count(repair_count[act]) \in 0 .. CountCap
        BY <4>1, CountProperties DEF TypeOK
      <4> QED
        BY <1>6, <3>1, <4>1, <4>2 DEF TryRepair, TypeOK
    <3>2. CASE ~Counted
      BY <1>6, <3>2 DEF TryRepair, TypeOK
    <3> QED
      BY <3>1, <3>2
  <2> QED
    BY <1>6, <2>1 DEF TryRepair, TypeOK
<1>7. CASE NoRepairBinary
  BY <1>7 DEF NoRepairBinary, RepairReturns, TypeOK
<1>8. CASE RepairForkFails
  BY <1>8, Codes DEF RepairForkFails, RepairReturns, TypeOK
<1>9. CASE RepairFork
  <2>1. Count(tries[site]) \in 0 .. CountCap
    BY <1>a, CountProperties DEF TypeOK
  <2>2. tries' \in [Site -> 0 .. CountCap]
    BY <1>9, <1>a, <2>1 DEF RepairFork, TypeOK
  <2>3. repAge' \in [Site -> 0 .. AgeCap]
    BY <1>9, <1>a, Numbers DEF RepairFork, TypeOK
  <2>4. left' \in 0 .. repair_timeout /\ (repair_timeout > 0 => left' > 0)
    BY <1>9, Numbers DEF RepairFork
  <2> QED
    BY <1>9, <2>2, <2>3, <2>4 DEF RepairFork, TypeOK
<1>10. CASE RepairPoll
  <2>1. /\ timer' \in [Act -> {Off} \cup 0 .. AgeCap]
        /\ okAge' \in [Site -> 0 .. AgeCap] /\ repAge' \in [Site -> 0 .. AgeCap]
    BY <1>10, ElapseEffect DEF RepairPoll
  <2>2. left' \in 0 .. repair_timeout
    BY <1>10, Numbers DEF RepairPoll, TypeOK
  <2>3. CASE left' > 0
    BY <1>10, <2>1, <2>2, <2>3 DEF RepairPoll, TypeOK
  <2>4. CASE ~(left' > 0)
    BY <1>10, <2>1, <2>2, <2>4, Codes DEF RepairPoll, RepairReturns, TypeOK
  <2> QED
    BY <2>3, <2>4
<1>11. CASE RepairReap
  <2>1. /\ timer' \in [Act -> {Off} \cup 0 .. AgeCap]
        /\ okAge' \in [Site -> 0 .. AgeCap] /\ repAge' \in [Site -> 0 .. AgeCap]
    BY <1>11, ElapseEffect DEF RepairReap
  <2>2. WEXITSTATUS(status) \in Code
    BY Codes DEF TypeOK
  <2> QED
    BY <1>11, <2>1, <2>2 DEF RepairReap, RepairReturns, TypeOK
<1>12. CASE RepairWaitFails
  <2>1. /\ timer' \in [Act -> {Off} \cup 0 .. AgeCap]
        /\ okAge' \in [Site -> 0 .. AgeCap] /\ repAge' \in [Site -> 0 .. AgeCap]
    BY <1>12, ElapseEffect DEF RepairWaitFails
  <2>2. WEXITSTATUS(result) \in Code /\ ECHILD \in Code
    BY Codes DEF TypeOK
  <2> QED
    BY <1>12, <2>1, <2>2 DEF RepairWaitFails, RepairReturns, TypeOK
<1>13. CASE Cleared
  <2>1. /\ pc' \in {"check", "sleep"}
        /\ pos' \in 0 .. Len(loop) /\ alive' \in BOOLEAN /\ (~alive' => pos' > 0)
    BY <1>13, AdvanceEffect DEF Cleared
  <2> QED
    BY <1>13, <2>1 DEF Cleared, TypeOK
<1>14. CASE Shutdown
  BY <1>14 DEF Shutdown, TypeOK
<1>15. CASE Sleep
  <2>1. /\ timer' \in [Act -> {Off} \cup 0 .. AgeCap]
        /\ okAge' \in [Site -> 0 .. AgeCap] /\ repAge' \in [Site -> 0 .. AgeCap]
    BY <1>15, ElapseEffect, Numbers DEF Sleep
  <2> QED
    BY <1>15, <2>1, Numbers DEF Sleep, TypeOK
<1>16. CASE ChildEnds
  BY <1>16 DEF ChildEnds, TypeOK
<1>17. CASE ChildEscapes
  BY <1>17 DEF ChildEscapes, TypeOK
<1>18. CASE EscapedShutdown
  BY <1>18 DEF EscapedShutdown, TypeOK
<1>19. CASE UNCHANGED vars
  BY <1>19 DEF vars, TypeOK
<1> QED
  BY <1>1, <1>2, <1>3, <1>4, <1>5, <1>6, <1>7, <1>8, <1>9, <1>10, <1>11, <1>12,
     <1>13, <1>14, <1>15, <1>16, <1>17, <1>18, <1>19 DEF Next, Daemon, Halted

(* wd_action(), repair() and the main loop keep every variable in its type,
   whatever fails. *)
THEOREM TypeCorrect == Spec => []TypeOK
BY TypeInit, TypeStep, PTL DEF Spec

-----------------------------------------------------------------------------
(* The inductive invariant of the three properties of the repair policy. *)

(* wd_action() acts on the code that the check returned. *)
FaultKnown == pc = "action" => fault = result

(* A retry timer was started after the last good answer and, when repairs are
   counted, after the last repair. *)
TimerSound ==
    \A s \in Site : Listed(s) /\ timer[loop[s]] # Off =>
        /\ timer[loop[s]] <= okAge[s]
        /\ repair_max > 0 => timer[loop[s]] <= repAge[s]

(* Past the timer, the fault has lasted; also while a repair takes its time. *)
Waited ==
    /\ pc \in {"repair", "wait", "after", "down"}
    /\ Timed
    /\ fault \notin Unrepairable
    => okAge[site] > retry_timeout

(* A repair whose program could not be executed ends in a shutdown, so that the
   escaped child cannot shut down while another check is being judged. *)
EscapeStops ==
    child = "escaped" /\ ~no_act =>
        pc \in {"wait", "after", "down"} /\ (pc = "after" => result # ENOERR)

(* Every repair was counted. *)
Charged ==
    repair_max > 0 => \A s \in Site : Listed(s) =>
        tries[s] <= repair_count[loop[s]] /\ tries[s] <= repair_max

(* The repair about to begin is counted already, is within the limit, and comes
   after a full retry period. *)
Ready ==
    pc = "repair" /\ Counted =>
        /\ timer[act] = Off
        /\ tries[site] < repair_count[act] /\ repair_count[act] <= repair_max
        /\ retry_timeout > 0 => repAge[site] > retry_timeout

PolicyInv == TypeOK /\ FaultKnown /\ TimerSound /\ Waited /\ EscapeStops /\ Charged /\ Ready

(* It holds initially: no timer runs and nothing was repaired. *)
LEMMA PolicyInit == Init => PolicyInv
<1> SUFFICES ASSUME Init PROVE PolicyInv
  OBVIOUS
<1>1. TypeOK
  BY TypeInit
<1>2. \A s \in Site : Listed(s) => loop[s] \in Act
  BY EntryOfSite
<1>3. TimerSound
  BY <1>2 DEF Init, TimerSound
<1>4. Charged
  BY <1>2, Numbers DEF Init, Charged
<1>5. FaultKnown /\ Waited /\ EscapeStops /\ Ready
  BY DEF Init, FaultKnown, Waited, EscapeStops, Ready
<1> QED
  BY <1>1, <1>3, <1>4, <1>5 DEF PolicyInv

(* Passing time disturbs no timer. *)
LEMMA TimerSoundElapse ==
  ASSUME TypeOK, TimerSound, NEW d \in Nat, Elapse(d)
  PROVE  TimerSound'
<1> SUFFICES ASSUME NEW s \in Site, Listed(s), timer'[loop[s]] # Off
             PROVE  /\ timer'[loop[s]] <= okAge'[s]
                    /\ repair_max > 0 => timer'[loop[s]] <= repAge'[s]
  BY DEF TimerSound, Listed
<1>1. loop[s] \in Act
  BY EntryOfSite
<1>2. timer[loop[s]] # Off
  BY <1>1, ElapseEffect
<1>3. /\ timer[loop[s]] <= okAge[s]
      /\ repair_max > 0 => timer[loop[s]] <= repAge[s]
  BY <1>2 DEF TimerSound
<1> QED
  BY <1>1, <1>2, <1>3, ElapseEffect

(* No step starts a timer in the past. *)
LEMMA TimerSoundStep ==
  ASSUME PolicyInv, [Next]_vars
  PROVE  TimerSound'
<1> USE DEF daemon, proc, entries, history, PolicyInv
<1>a. /\ site \in Site
      /\ act # NULL <=> Listed(site)
      /\ act # NULL => act = loop[site] /\ act \in Act
  BY SiteProperties
<1>b. \A s \in Site : Listed(s) => loop[s] \in Act /\ (loop[s] = loop[site] /\ Listed(site) => s = site)
  BY <1>a, EntryOfSite
<1>c. \A s \in Site : okAge[s] \in 0 .. AgeCap /\ repAge[s] \in 0 .. AgeCap
  BY DEF TypeOK
<1>d. \A a \in Act : timer[a] # Off => timer[a] \in 0 .. AgeCap
  BY DEF TypeOK
<1>1. CASE Check
  <2>1. PICK d \in CheckTime : Elapse(IF alive THEN 0 ELSE d)
    BY <1>1 DEF Check
  <2>2. (IF alive THEN 0 ELSE d) \in Nat
    BY Numbers
  <2> QED
    BY <2>1, <2>2, TimerSoundElapse
<1>2. CASE Pass
  <2>1. CASE result = ENOERR
    <3> SUFFICES ASSUME NEW s \in Site, Listed(s), timer'[loop[s]] # Off
                 PROVE  /\ timer'[loop[s]] <= okAge'[s]
                        /\ repair_max > 0 => timer'[loop[s]] <= repAge'[s]
      BY DEF TimerSound, Listed
    <3>1. s # site
      BY <1>2, <2>1, <1>a DEF Pass, TypeOK
    <3>2. timer'[loop[s]] = timer[loop[s]]
      BY <1>2, <2>1, <3>1, <1>a, <1>b DEF Pass, TypeOK
    <3>3. okAge'[s] = okAge[s] /\ repAge' = repAge
      BY <1>2, <2>1, <3>1, <1>a DEF Pass, TypeOK
    <3> QED
      BY <3>2, <3>3 DEF TimerSound
  <2>2. CASE result # ENOERR
    BY <1>2, <2>2 DEF Pass, TimerSound, Listed
  <2> QED
    BY <2>1, <2>2
<1>3. CASE Defer
  <2>1. CASE timer[act] = Off
    <3> SUFFICES ASSUME NEW s \in Site, Listed(s), timer'[loop[s]] # Off
                 PROVE  /\ timer'[loop[s]] <= okAge'[s]
                        /\ repair_max > 0 => timer'[loop[s]] <= repAge'[s]
      BY DEF TimerSound, Listed
    <3>1. act = loop[site] /\ act \in Act /\ Listed(site)
      BY <1>3, <1>a DEF Defer, Expired, Timed
    <3>2. CASE s = site
      <4>1. timer'[loop[s]] = 0
        BY <1>3, <2>1, <3>1, <3>2 DEF Defer, TypeOK
      <4> QED
        BY <1>3, <4>1, <1>c, Numbers DEF Defer
    <3>3. CASE s # site
      <4>1. timer'[loop[s]] = timer[loop[s]]
        BY <1>3, <2>1, <3>1, <3>3, <1>b DEF Defer, TypeOK
      <4> QED
        BY <1>3, <4>1 DEF Defer, TimerSound
    <3> QED
      BY <3>2, <3>3
  <2>2. CASE timer[act] # Off
    BY <1>3, <2>2 DEF Defer, TimerSound, Listed
  <2> QED
    BY <2>1, <2>2
<1>4. CASE TryRepair
  <2>1. CASE Counted
    <3>1. \A s \in Site : Listed(s) =>
              timer'[loop[s]] = IF s = site THEN Off ELSE timer[loop[s]]
      BY <1>4, <2>1, <1>a, <1>b DEF TryRepair, Counted, TypeOK
    <3> QED
      BY <1>4, <3>1 DEF TryRepair, TimerSound, Listed
  <2>2. CASE ~Counted
    BY <1>4, <2>2 DEF TryRepair, TimerSound, Listed
  <2> QED
    BY <2>1, <2>2
<1>5. CASE RepairFork
  <2> SUFFICES ASSUME NEW s \in Site, Listed(s), timer'[loop[s]] # Off
               PROVE  /\ timer'[loop[s]] <= okAge'[s]
                      /\ repair_max > 0 => timer'[loop[s]] <= repAge'[s]
    BY DEF TimerSound, Listed
  <2>1. timer' = timer /\ okAge' = okAge
    BY <1>5 DEF RepairFork
  <2>2. repair_max > 0 => s # site
    BY <1>5, <2>1, <1>a DEF RepairFork, Ready, Counted
  <2>3. repair_max > 0 => repAge'[s] = repAge[s]
    BY <1>5, <2>2, <1>a DEF RepairFork, TypeOK
  <2> QED
    BY <2>1, <2>3 DEF TimerSound
<1>6. CASE RepairPoll
  BY <1>6, TimerSoundElapse DEF RepairPoll
<1>7. CASE RepairReap
  <2>1. (IF repair_timeout > 0 THEN 1 ELSE 0) \in Nat
    OBVIOUS
  <2> QED
    BY <1>7, <2>1, TimerSoundElapse DEF RepairReap
<1>8. CASE RepairWaitFails
  <2>1. (IF repair_timeout > 0 THEN 1 ELSE 0) \in Nat
    OBVIOUS
  <2> QED
    BY <1>8, <2>1, TimerSoundElapse DEF RepairWaitFails
<1>9. CASE Sleep
  BY <1>9, TimerSoundElapse, Numbers DEF Sleep
<1>10. CASE \/ NotRepairable \/ GiveUp \/ NoRepairBinary \/ RepairForkFails \/ Cleared
            \/ Shutdown \/ ChildEnds \/ ChildEscapes \/ EscapedShutdown \/ UNCHANGED vars
  <2>1. UNCHANGED <<timer, okAge, repAge>>
    BY <1>10 DEF NotRepairable, GiveUp, NoRepairBinary, RepairForkFails, Cleared,
         Shutdown, ChildEnds, ChildEscapes, EscapedShutdown, vars
  <2> QED
    BY <2>1 DEF TimerSound, Listed
<1> QED
  BY <1>1, <1>2, <1>3, <1>4, <1>5, <1>6, <1>7, <1>8, <1>9, <1>10 DEF Next, Daemon, Halted

(* Acting on a fault comes after the wait, and the wait never gets shorter. *)
LEMMA WaitedStep ==
  ASSUME PolicyInv, [Next]_vars
  PROVE  Waited'
<1> USE DEF daemon, proc, entries, history, PolicyInv
<1>a. /\ site \in Site
      /\ act # NULL <=> Listed(site)
      /\ act # NULL => act = loop[site] /\ act \in Act
  BY SiteProperties
<1>b. okAge[site] \in Nat
  BY <1>a, Numbers DEF TypeOK
<1>c. UNCHANGED <<pos, alive>> => site' = site /\ act' = act /\ (Timed' <=> Timed)
  BY DEF site, act, Timed
<1>d. ASSUME Timed, timer[act] > retry_timeout PROVE okAge[site] > retry_timeout
  <2>1. act \in Act /\ act = loop[site] /\ Listed(site)
    BY <1>a, <1>d DEF Timed
  <2>2. timer[act] # Off
    BY <1>d, Numbers DEF Off
  <2>3. timer[act] <= okAge[site] /\ timer[act] \in Nat
    BY <2>1, <2>2, <1>a, Numbers DEF TimerSound, TypeOK
  <2> QED
    BY <1>b, <1>d, <2>3, Numbers
<1>1. CASE \/ Check \/ Pass \/ Defer \/ Cleared \/ Sleep
  <2>1. pc' \in {"check", "action", "sleep"}
    BY <1>1, AdvanceEffect DEF Check, Pass, Defer, Cleared, Sleep
  <2> QED
    BY <2>1 DEF Waited
<1>2. CASE NotRepairable
  BY <1>2 DEF NotRepairable, Waited, FaultKnown
<1>3. CASE GiveUp \/ TryRepair
  <2>1. UNCHANGED <<pos, alive, okAge, fault>> /\ Expired
    BY <1>3 DEF GiveUp, TryRepair
  <2>2. Timed => okAge[site] > retry_timeout
    BY <2>1, <1>d DEF Expired
  <2> QED
    BY <2>1, <2>2, <1>c DEF Waited
<1>4. CASE NoRepairBinary \/ RepairForkFails \/ RepairFork
  <2>1. pc = "repair" /\ UNCHANGED <<pos, alive, okAge, fault>>
    BY <1>4 DEF NoRepairBinary, RepairForkFails, RepairFork, RepairReturns
  <2> QED
    BY <2>1, <1>c DEF Waited
<1>5. CASE RepairPoll \/ RepairReap \/ RepairWaitFails
  <2>1. pc = "wait" /\ UNCHANGED <<pos, alive, fault>>
    BY <1>5 DEF RepairPoll, RepairReap, RepairWaitFails, RepairReturns
  <2>2. PICK d \in {0, 1} : Elapse(d)
    BY <1>5 DEF RepairPoll, RepairReap, RepairWaitFails
  <2>3. okAge'[site] >= okAge[site] /\ okAge'[site] \in Nat
    BY <2>2, <1>a, ElapseEffect, Numbers
  <2> QED
    BY <2>1, <2>3, <1>b, <1>c, Numbers DEF Waited
<1>6. CASE Shutdown
  BY <1>6, <1>c DEF Shutdown, Waited
<1>7. CASE ChildEnds \/ ChildEscapes
  BY <1>7, <1>c DEF ChildEnds, ChildEscapes, Waited
<1>8. CASE EscapedShutdown
  <2>1. pc \in {"wait", "after"}
    BY <1>8 DEF EscapedShutdown, EscapeStops
  <2> QED
    BY <1>8, <2>1, <1>c DEF EscapedShutdown, Waited
<1>9. CASE UNCHANGED vars
  BY <1>9, <1>c DEF vars, Waited
<1> QED
  BY <1>1, <1>2, <1>3, <1>4, <1>5, <1>6, <1>7, <1>8, <1>9 DEF Next, Daemon, Halted

(* The steps around an escaped child, and the code wd_action() starts from. *)
LEMMA EscapeStep ==
  ASSUME PolicyInv, [Next]_vars
  PROVE  FaultKnown' /\ EscapeStops'
<1> USE DEF daemon, proc, entries, history, PolicyInv
<1>1. CASE \/ Check \/ Pass \/ Defer \/ Sleep \/ NotRepairable \/ GiveUp \/ TryRepair
           \/ NoRepairBinary \/ RepairForkFails
  <2>1. pc \in {"check", "action", "sleep", "repair"} /\ child' = child
    BY <1>1 DEF Check, Pass, Defer, Sleep, NotRepairable, GiveUp, TryRepair,
         NoRepairBinary, RepairForkFails
  <2>2. pc' = "action" => fault' = result'
    BY <1>1, AdvanceEffect DEF Check, Pass, Defer, Sleep, NotRepairable, GiveUp,
         TryRepair, NoRepairBinary, RepairForkFails, RepairReturns
  <2> QED
    BY <2>1, <2>2 DEF FaultKnown, EscapeStops
<1>2. CASE RepairFork \/ RepairReap \/ RepairWaitFails
  <2>1. pc' # "action" /\ child' # "escaped"
    BY <1>2 DEF RepairFork, RepairReap, RepairWaitFails, RepairReturns
  <2> QED
    BY <2>1 DEF FaultKnown, EscapeStops
<1>3. CASE RepairPoll
  <2>1. pc' = "wait" \/ (pc' = "after" /\ result' = EREBOOT)
    BY <1>3 DEF RepairPoll, RepairReturns
  <2> QED
    BY <2>1 DEF FaultKnown, EscapeStops, EREBOOT, ENOERR
<1>4. CASE Cleared
  <2>1. pc' # "action" /\ (result = ENOERR \/ no_act) /\ pc = "after" /\ child' = child
    BY <1>4, AdvanceEffect DEF Cleared
  <2> QED
    BY <2>1 DEF FaultKnown, EscapeStops
<1>5. CASE Shutdown \/ EscapedShutdown
  BY <1>5 DEF Shutdown, EscapedShutdown, FaultKnown, EscapeStops
<1>6. CASE ChildEnds \/ ChildEscapes
  BY <1>6 DEF ChildEnds, ChildEscapes, FaultKnown, EscapeStops
<1>7. CASE UNCHANGED vars
  BY <1>7 DEF vars, FaultKnown, EscapeStops
<1> QED
  BY <1>1, <1>2, <1>3, <1>4, <1>5, <1>6, <1>7 DEF Next, Daemon, Halted

(* Every repair is counted before it begins. *)
LEMMA ChargedStep ==
  ASSUME PolicyInv, [Next]_vars
  PROVE  Charged'
<1> USE DEF daemon, proc, entries, history, PolicyInv
<1> SUFFICES ASSUME repair_max > 0, NEW s \in Site, Listed(s)
             PROVE  tries'[s] <= repair_count'[loop[s]] /\ tries'[s] <= repair_max
  BY DEF Charged, Listed
<1>a. /\ site \in Site
      /\ act # NULL <=> Listed(site)
      /\ act # NULL => act = loop[site] /\ act \in Act
  BY SiteProperties
<1>b. loop[s] \in Act /\ (loop[s] = loop[site] /\ Listed(site) => s = site)
  BY <1>a, EntryOfSite
<1>c. /\ tries[s] \in 0 .. CountCap /\ repair_count[loop[s]] \in 0 .. CountCap
      /\ tries[s] <= repair_count[loop[s]] /\ tries[s] <= repair_max
  BY <1>b DEF TypeOK, Charged
<1>1. CASE Pass
  <2>1. CASE result = ENOERR
    <3>1. CASE s = site
      BY <1>1, <2>1, <3>1, <1>a, <1>b, Numbers DEF Pass, TypeOK
    <3>2. CASE s # site
      <4>1. repair_count'[loop[s]] = repair_count[loop[s]] /\ tries'[s] = tries[s]
        BY <1>1, <2>1, <3>2, <1>a, <1>b DEF Pass, TypeOK
      <4> QED
        BY <4>1, <1>c
    <3> QED
      BY <3>1, <3>2
  <2>2. CASE result # ENOERR
    BY <1>1, <2>2, <1>c DEF Pass
  <2> QED
    BY <2>1, <2>2
<1>2. CASE GiveUp \/ TryRepair
  <2>1. tries' = tries
    BY <1>2 DEF GiveUp, TryRepair
  <2>2. repair_count'[loop[s]] \in {repair_count[loop[s]], Count(repair_count[loop[s]])}
    BY <1>2, <1>a, <1>b DEF GiveUp, TryRepair, Exceeded, Counted, TypeOK
  <2>3. Count(repair_count[loop[s]]) \in Nat /\ repair_count[loop[s]] <= Count(repair_count[loop[s]])
    <3> DEFINE c == repair_count[loop[s]]
    <3>1. c \in 0 .. CountCap
      BY <1>c
    <3> HIDE DEF c
    <3>2. Count(c) \in 0 .. CountCap /\ c <= Count(c)
      BY <3>1, CountProperties
    <3>3. Count(c) \in Nat
      BY <3>2, Numbers
    <3> QED
      BY <3>2, <3>3 DEF c
  <2> QED
    BY <2>1, <2>2, <2>3, <1>c, Numbers
<1>3. CASE RepairFork
  <2>1. repair_count' = repair_count
    BY <1>3 DEF RepairFork
  <2>2. CASE s = site
    <3>1. Listed(site) /\ act = loop[s] /\ Counted
      BY <2>2, <1>a DEF Counted
    <3>2. tries[s] < repair_count[loop[s]] /\ repair_count[loop[s]] <= repair_max
      BY <1>3, <3>1, <2>2 DEF RepairFork, Ready
    <3>3. tries'[s] = Count(tries[s])
      BY <1>3, <2>2, <1>a DEF RepairFork, TypeOK
    <3>4. Count(tries[s]) \in Nat /\ Count(tries[s]) <= tries[s] + 1
      BY <1>c, CountProperties, Numbers
    <3> QED
      BY <2>1, <3>2, <3>3, <3>4, <1>c, Numbers
  <2>3. CASE s # site
    <3>1. tries'[s] = tries[s]
      BY <1>3, <2>3, <1>a DEF RepairFork, TypeOK
    <3> QED
      BY <2>1, <3>1, <1>c
  <2> QED
    BY <2>2, <2>3
<1>4. CASE \/ Check \/ NotRepairable \/ Defer \/ NoRepairBinary \/ RepairForkFails
           \/ RepairPoll \/ RepairReap \/ RepairWaitFails \/ Cleared \/ Shutdown \/ Sleep
           \/ ChildEnds \/ ChildEscapes \/ EscapedShutdown \/ UNCHANGED vars
  <2>1. UNCHANGED <<repair_count, tries>>
    BY <1>4 DEF Check, NotRepairable, Defer, NoRepairBinary, RepairForkFails, RepairPoll,
         RepairReap, RepairWaitFails, Cleared, Shutdown, Sleep, ChildEnds, ChildEscapes,
         EscapedShutdown, vars
  <2> QED
    BY <2>1, <1>c
<1> QED
  BY <1>1, <1>2, <1>3, <1>4 DEF Next, Daemon, Halted

(* A counted repair begins with the timer stopped, one more on the counter and a
   full period behind it. *)
LEMMA ReadyStep ==
  ASSUME PolicyInv, [Next]_vars
  PROVE  Ready'
<1> USE DEF daemon, proc, entries, history, PolicyInv
<1>a. /\ site \in Site
      /\ act # NULL <=> Listed(site)
      /\ act # NULL => act = loop[site] /\ act \in Act
  BY SiteProperties
<1>c. UNCHANGED <<pos, alive>> => site' = site /\ act' = act /\ (Counted' <=> Counted)
  BY DEF site, act, Counted
<1>1. CASE TryRepair
  <2> SUFFICES ASSUME Counted
               PROVE  /\ timer'[act] = Off
                      /\ tries'[site] < repair_count'[act] /\ repair_count'[act] <= repair_max
                      /\ retry_timeout > 0 => repAge'[site] > retry_timeout
    BY <1>1, <1>c DEF TryRepair, Ready
  <2>1. act \in Act /\ act = loop[site] /\ Listed(site) /\ repair_max > 0
    BY <1>a DEF Counted
  <2>2. /\ timer'[act] = Off /\ repair_count'[act] = Count(repair_count[act])
        /\ tries' = tries /\ repAge' = repAge
    BY <1>1, <2>1 DEF TryRepair, TypeOK
  <2>3. repair_count[act] \in 0 .. CountCap /\ tries[site] \in 0 .. CountCap
    BY <2>1, <1>a DEF TypeOK
  <2>4. repair_count[act] + 1 <= repair_max
    BY <1>1, <2>3, Numbers DEF TryRepair, Exceeded
  <2>5. Count(repair_count[act]) = repair_count[act] + 1
    BY <2>3, <2>4, CountProperties, Numbers
  <2>6. tries[site] <= repair_count[act]
    BY <2>1, <1>a DEF Charged
  <2>7. ASSUME retry_timeout > 0 PROVE repAge[site] > retry_timeout
    <3>1. timer[act] > retry_timeout
      BY <1>1, <2>1, <2>7, <1>a DEF TryRepair, Expired, Timed
    <3>2. timer[act] # Off
      BY <3>1, Numbers DEF Off
    <3>3. timer[act] <= repAge[site]
      BY <2>1, <3>2, <1>a DEF TimerSound
    <3>4. timer[act] \in Nat /\ repAge[site] \in Nat
      BY <2>1, <3>2, <1>a, Numbers DEF TypeOK
    <3> QED
      BY <3>1, <3>3, <3>4, Numbers
  <2> QED
    BY <2>2, <2>3, <2>4, <2>5, <2>6, <2>7, Numbers
<1>2. CASE ChildEnds \/ ChildEscapes
  BY <1>2, <1>c DEF ChildEnds, ChildEscapes, Ready
<1>3. CASE UNCHANGED vars
  BY <1>3, <1>c DEF vars, Ready
<1>4. CASE \/ Check \/ Pass \/ NotRepairable \/ Defer \/ GiveUp \/ NoRepairBinary
           \/ RepairForkFails \/ RepairFork \/ RepairPoll \/ RepairReap
           \/ RepairWaitFails \/ Cleared \/ Shutdown \/ Sleep \/ EscapedShutdown
  <2>1. pc' # "repair"
    BY <1>4, AdvanceEffect DEF Check, Pass, NotRepairable, Defer, GiveUp, NoRepairBinary,
         RepairForkFails, RepairFork, RepairPoll, RepairReap, RepairWaitFails, Cleared,
         Shutdown, Sleep, EscapedShutdown, RepairReturns
  <2> QED
    BY <2>1 DEF Ready
<1> QED
  BY <1>1, <1>2, <1>3, <1>4 DEF Next, Daemon, Halted

(* The invariant is inductive. *)
LEMMA PolicyAlways == Spec => []PolicyInv
<1>1. PolicyInv /\ [Next]_vars => PolicyInv'
  <2> SUFFICES ASSUME PolicyInv, [Next]_vars PROVE PolicyInv'
    OBVIOUS
  <2>1. TypeOK'
    BY TypeStep DEF PolicyInv
  <2> QED
    BY <2>1, TimerSoundStep, WaitedStep, EscapeStep, ChargedStep, ReadyStep DEF PolicyInv
<1> QED
  BY PolicyInit, <1>1, PTL DEF Spec

(* wd_action() neither repairs a fault of a listed check nor shuts down for it
   before it has lasted longer than retry_timeout: every failure of fork(),
   execl() and waitpid() included. *)
THEOREM PatienceHolds == Spec => []Patience
<1>1. PolicyInv => Patience
  BY DEF PolicyInv, Waited, Patience
<1> QED
  BY <1>1, PolicyAlways, PTL

(* wd_action() never begins more than repair_max repairs of a listed check
   between two good answers of it. *)
THEOREM BudgetHolds == Spec => []RepairBudget
<1>1. PolicyInv => RepairBudget
  BY DEF PolicyInv, Charged, RepairBudget
<1> QED
  BY <1>1, PolicyAlways, PTL

(* With counted repairs, wd_action() leaves more than retry_timeout seconds
   between two repairs of a listed check. *)
THEOREM SpacingHolds == Spec => []RepairSpacing
<1>1. PolicyInv => RepairSpacing
  BY DEF PolicyInv, Ready, RepairSpacing, Timed
<1> QED
  BY <1>1, PolicyAlways, PTL
=============================================================================
