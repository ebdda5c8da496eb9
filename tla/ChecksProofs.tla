----------------------------- MODULE ChecksProofs -----------------------------
(***************************************************************************)
(* Theorems about the checks: the warnings of check_temp(), the answers    *)
(* that check_net() takes, and the silence that check_iface() reports.     *)
(***************************************************************************)
EXTENDS Checks, TLAPS

-----------------------------------------------------------------------------
(* The temperature. *)

(* open_tempcheck(): the levels are integers in order below any limit. *)
LEMMA Levels ==
    ASSUME maxtemp \in Int
    PROVE  /\ templevel1 \in Int /\ templevel2 \in Int /\ templevel3 \in Int
           /\ LevelsOrdered
<1>1. \A a \in Int : Quot(a, 100) \in Int
  BY DEF Quot
<1>2. \A x, y \in Int : Lower(x, y) \in Int /\ Lower(x, y) < y
  BY DEF Lower
<1>3. templevel3 \in Int /\ templevel3 < maxtemp
  <2>1. maxtemp * 98 \in Int
    OBVIOUS
  <2>. QED  BY <1>1, <1>2, <2>1 DEF templevel3
<1>4. templevel2 \in Int /\ templevel2 < templevel3
  <2>1. maxtemp * 95 \in Int
    OBVIOUS
  <2>. QED  BY <1>1, <1>2, <1>3, <2>1 DEF templevel2
<1>5. templevel1 \in Int /\ templevel1 < templevel2
  <2>1. maxtemp * 90 \in Int
    OBVIOUS
  <2>. QED  BY <1>1, <1>2, <1>4, <2>1 DEF templevel1
<1>. QED  BY <1>3, <1>4, <1>5 DEF LevelsOrdered

(* The flags remember the last reading and nothing else. *)
TempInv ==
    /\ maxtemp \in Int
    /\ level \in 0 .. 3
    /\ ~temp_fd => level = 0
    /\ have = 1 .. level

(* check_temp() for n levels: the flags and the message. *)
LEMMA WarnIs ==
    ASSUME TempInv, NEW n \in 0 .. 3
    PROVE  /\ Warn(n)[1] = 1 .. n
           /\ Warn(n)[2] = IF n > level THEN n ELSE IF n = 0 /\ level > 0 THEN Clear ELSE Nothing
<1>1. n \in have <=> n > 0 /\ n <= level
  BY DEF TempInv
<1>2. have = {} <=> level = 0
  BY DEF TempInv
<1>3. n \in have => have \cap (1 .. n) = 1 .. n
  BY <1>1 DEF TempInv
<1>4. CASE n = 0
  <2>1. Warn(n) = <<{}, IF have = {} THEN Nothing ELSE Clear>>
    BY <1>4 DEF Warn
  <2>2. 1 .. n = {}
    BY <1>4
  <2>. QED  BY <1>2, <1>4, <2>1, <2>2 DEF TempInv
<1>5. CASE n > 0
  <2>1. Warn(n) = <<IF n \in have THEN have \cap (1 .. n) ELSE 1 .. n,
                    IF n \in have THEN Nothing ELSE n>>
    BY <1>5 DEF Warn
  <2>2. CASE n \in have
    <3>1. Warn(n)[1] = 1 .. n /\ Warn(n)[2] = Nothing
      BY <1>3, <2>1, <2>2
    <3>2. ~(n > level) /\ n # 0
      BY <1>1, <2>2 DEF TempInv
    <3>. QED  BY <3>1, <3>2
  <2>3. CASE n \notin have
    <3>1. Warn(n)[1] = 1 .. n /\ Warn(n)[2] = n
      BY <2>1, <2>3
    <3>2. n > level
      BY <1>1, <1>5, <2>3 DEF TempInv
    <3>. QED  BY <3>1, <3>2
  <2>. QED  BY <2>2, <2>3
<1>. QED  BY <1>4, <1>5

(* What a step of the temperature check may log. *)
Said == IF level' > level THEN level' ELSE IF level' = 0 /\ level > 0 THEN Clear ELSE Nothing

LEMMA TempStep ==
    ASSUME TempInv, TempNext
    PROVE  TempInv' /\ (temp_fd => said' = Said)
<1>1. ASSUME NEW l \in BOOLEAN, NEW r \in BOOLEAN, ~temp_fd, open_tempcheck(l, r)
      PROVE  TempInv'
  <2>1. 1 .. 0 = {}
    OBVIOUS
  <2>2. level = 0 /\ have = {}
    BY <1>1, <2>1 DEF TempInv
  <2>. QED  BY <1>1, <2>1, <2>2 DEF open_tempcheck, TempInv
<1>2. ASSUME NEW m, check_temp(m)
      PROVE  TempInv' /\ said' = Said
  <2>1. level' \in 0 .. 3
    BY <1>2 DEF check_temp, LevelOf
  <2>2. /\ Warn(level')[1] = 1 .. level'
        /\ Warn(level')[2] = Said
    BY <2>1, WarnIs DEF Said
  <2>. QED  BY <1>2, <2>1, <2>2 DEF check_temp, TempInv
<1>3. ASSUME NEW c, check_temp_skips(c)
      PROVE  TempInv' /\ said' = Said
  BY <1>3 DEF check_temp_skips, TempInv, Said
<1>. QED  BY <1>1, <1>2, <1>3 DEF TempNext

(* The invariant holds, whatever is configured. *)
LEMMA TempInvariant == Spec => []TempInv
<1>1. Init => TempInv
  <2>1. 1 .. 0 = {}
    OBVIOUS
  <2>2. TempInit => TempInv
    BY <2>1, TemperatureAssumption DEF TempInit, TempInv
  <2>3. TempOff => TempInv
    BY <2>1 DEF TempOff, TempInv
  <2>. QED  BY <2>2, <2>3 DEF Init
<1>2. ASSUME TempInv, [Next]_vars
      PROVE  TempInv'
  <2>1. CASE TempNext
    BY <1>2, <2>1, TempStep
  <2>2. CASE UNCHANGED tempVars
    BY <1>2, <2>2 DEF tempVars, TempInv
  <2>. QED  BY <1>2, <2>1, <2>2 DEF Next, vars
<1>. QED  BY <1>1, <1>2, PTL DEF Spec

(* open_tempcheck(): whatever max-temperature is, the warning levels are distinct and
   in order below it. *)
THEOREM LevelsApart == Spec => []LevelsOrdered
<1>1. TempInv => LevelsOrdered
  BY Levels DEF TempInv
<1>. QED  BY <1>1, TempInvariant, PTL

(* check_temp(): over every sequence of readings a warning is logged once when a level
   is crossed, and the all-clear once. *)
THEOREM WarnsOnce == Spec => WarnOnce
<1>1. ASSUME TempInv, [Next]_vars
      PROVE  [temp_fd => said' = Said]_tempVars
  <2>1. CASE TempNext
    BY <1>1, <2>1, TempStep
  <2>2. CASE UNCHANGED tempVars
    BY <2>2
  <2>. QED  BY <1>1, <2>1, <2>2 DEF Next, vars
<1>2. TempInv /\ [Next]_vars => [temp_fd => said' = Said]_tempVars
  BY <1>1
<1>. QED  BY <1>2, TempInvariant, PTL DEF Spec, WarnOnce, Said

-----------------------------------------------------------------------------
(* The ping. *)

(* A number below the modulus is its own remainder. *)
LEMMA SmallRemainder ==
    ASSUME NEW a \in Nat, NEW b \in Nat \ {0}, a < b
    PROVE  a % b = a
OBVIOUS

(* Answers to this daemon come from the target and have its id.  During a call, every
   answer of the target with this id was under way when the call began, or was sent
   since.  When the id fits, no answer that was read is passed over. *)
PingInv ==
    /\ daemon_pid \in Nat
    /\ \A a \in wire : /\ a.id \in 0 .. IdSpan - 1
                       /\ a.ours => a.from = Target /\ a.id = Id
    /\ ping_pc \in {"send", "wait"} => \A a \in wire : FromTarget(a) => spoke
    /\ daemon_pid < IdSpan /\ heard => ping_pc = "idle" /\ ping_code = ENOERR

(* check_net(): an answer that is taken is the target's, with this daemon's id, and, if
   the id fits, the expected one is taken. *)
LEMMA MatchIs ==
    ASSUME PingInv, NEW a \in wire
    PROVE  /\ Matches(a) => FromTarget(a)
           /\ daemon_pid < IdSpan /\ Expected(a) => Matches(a)
<1>1. daemon_pid < IdSpan => Id = daemon_pid
  BY PingAssumption, SmallRemainder DEF PingInv, Id
<1>2. ASSUME Matches(a)
      PROVE  FromTarget(a)
  <2>1. daemon_pid < IdSpan
    BY <1>2, PingAssumption DEF PingInv, Matches
  <2>. QED  BY <1>1, <1>2, <2>1 DEF FromTarget, Matches
<1>3. ASSUME daemon_pid < IdSpan, Expected(a)
      PROVE  Matches(a)
  BY <1>1, <1>3 DEF PingInv, Matches, Expected
<1>. QED  BY <1>2, <1>3

(* Id is a 16-bit number, so to speak. *)
LEMMA IdInRange ==
    ASSUME PingInv
    PROVE  Id \in 0 .. IdSpan - 1
BY PingAssumption DEF PingInv, Id

(* One step of the ping check. *)
LEMMA PingStep ==
    ASSUME PingInv, PingNext
    PROVE  /\ PingInv'
           /\ ping_pc = "wait" /\ ping_pc' = "idle" /\ ping_code' = ENOERR => spoke
<1>. USE DEF PingReturns, FromTarget
<1>1. CASE open_netcheck
  BY <1>1 DEF open_netcheck, PingInv, Id
<1>2. CASE PingCall
  BY <1>2 DEF PingCall, PingInv, Id
<1>3. CASE PingSend
  <2>1. UNCHANGED <<daemon_pid, heard>> /\ ping_pc = "send"
    BY <1>3 DEF PingSend
  <2>2. daemon_pid < IdSpan => ~heard'
    BY <2>1 DEF PingInv
  <2>3. ASSUME NEW a \in wire'
        PROVE  /\ a.id \in 0 .. IdSpan - 1
               /\ a.ours => a.from = Target /\ a.id = Id'
               /\ ping_pc' \in {"send", "wait"} /\ FromTarget(a)' => spoke'
    <3>1. Id' = Id
      BY <2>1 DEF Id
    <3>2. CASE a \in wire
      BY <1>3, <2>1, <3>1, <3>2 DEF PingInv, PingSend
    <3>3. CASE a \notin wire
      <4>1. a = [id |-> Id, seq |-> i + 1, from |-> Target, ours |-> TRUE, pass |-> pass]
        BY <1>3, <2>3, <3>3 DEF PingSend
      <4>2. spoke'
        BY <1>3, <2>3, <3>3 DEF PingSend
      <4>. QED  BY <3>1, <4>1, <4>2, IdInRange
    <3>. QED  BY <3>2, <3>3
  <2>. QED  BY <2>1, <2>2, <2>3 DEF PingInv
<1>4. CASE PingReceive
  <2>1. PICK a \in wire :
          /\ wire' \in {wire, wire \ {a}}
          /\ heard' = (heard \/ Expected(a))
          /\ IF Matches(a) THEN PingReturns(ENOERR) ELSE UNCHANGED <<ping_pc, ping_code>>
    BY <1>4 DEF PingReceive
  <2>2. UNCHANGED <<daemon_pid, spoke>> /\ ping_pc = "wait"
    BY <1>4 DEF PingReceive
  <2>3. daemon_pid < IdSpan => ~heard
    BY <2>2 DEF PingInv
  <2>4. daemon_pid < IdSpan /\ heard' => ping_pc' = "idle" /\ ping_code' = ENOERR
    BY <2>1, <2>3, MatchIs
  <2>5. ping_pc' = "idle" => spoke
    BY <2>1, <2>2, MatchIs DEF PingInv
  <2>6. PingInv'
    BY <2>1, <2>2, <2>4 DEF PingInv, Id
  <2>. QED  BY <2>5, <2>6
<1>5. CASE PingReceiveFails
  BY <1>5, PingAssumption DEF PingReceiveFails, PingInv, Id
<1>6. CASE PingTimeout
  BY <1>6 DEF PingTimeout, PingInv, Id, ENOERR, ENETUNREACH
<1>7. CASE PingForeign
  <2>1. PICK f \in {Target, Other}, n \in 0 .. IdSpan - 1, q \in 1 .. 2 :
          /\ spoke' = (spoke \/ (f = Target /\ n = Id))
          /\ wire' = wire \cup {[id |-> n, seq |-> q, from |-> f, ours |-> FALSE, pass |-> 0]}
    BY <1>7 DEF PingForeign
  <2>2. UNCHANGED <<daemon_pid, ping_pc, ping_code, heard>>
    BY <1>7 DEF PingForeign
  <2>3. Id' = Id
    BY <2>2 DEF Id
  <2>4. ASSUME NEW a \in wire'
        PROVE  /\ a.id \in 0 .. IdSpan - 1
               /\ a.ours => a.from = Target /\ a.id = Id'
               /\ ping_pc' \in {"send", "wait"} /\ FromTarget(a)' => spoke'
    <3>1. CASE a \in wire
      BY <2>1, <2>2, <2>3, <3>1 DEF PingInv
    <3>2. CASE a = [id |-> n, seq |-> q, from |-> f, ours |-> FALSE, pass |-> 0]
      BY <2>1, <2>3, <3>2
    <3>. QED  BY <2>1, <2>4, <3>1, <3>2
  <2>. QED  BY <2>2, <2>4 DEF PingInv
<1>8. CASE PingLoss
  BY <1>8 DEF PingLoss, PingInv, Id
<1>. QED  BY <1>1, <1>2, <1>3, <1>4, <1>5, <1>6, <1>7, <1>8 DEF PingNext, check_net

(* The invariant holds, whatever is configured. *)
LEMMA PingInvariant == Spec => []PingInv
<1>1. Init => PingInv
  <2>1. PingInit => PingInv
    BY PingAssumption DEF PingInit, PingInv
  <2>2. PingOff => PingInv
    BY DEF PingOff, PingInv
  <2>. QED  BY <2>1, <2>2 DEF Init
<1>2. ASSUME PingInv, [Next]_vars
      PROVE  PingInv'
  <2>1. CASE PingNext
    BY <1>2, <2>1, PingStep
  <2>2. CASE UNCHANGED pingVars
    BY <1>2, <2>2 DEF pingVars, PingInv, FromTarget, Id
  <2>. QED  BY <1>2, <2>1, <2>2 DEF Next, vars
<1>. QED  BY <1>1, <1>2, PTL DEF Spec

(* check_net(): for every PID, number of tries and width of the id, and whatever other
   programs of the machine ping, the target counts as reachable only when it has sent
   an answer with this daemon's id, during the call or still under way at its start. *)
THEOREM TargetHasSpoken == Spec => TargetSpoke
<1>1. ASSUME PingInv, [Next]_vars
      PROVE  [ping_pc = "wait" /\ ping_pc' = "idle" /\ ping_code' = ENOERR => spoke]_pingVars
  <2>1. CASE PingNext
    BY <1>1, <2>1, PingStep
  <2>2. CASE UNCHANGED pingVars
    BY <2>2
  <2>. QED  BY <1>1, <2>1, <2>2 DEF Next, vars
<1>2. PingInv /\ [Next]_vars =>
        [ping_pc = "wait" /\ ping_pc' = "idle" /\ ping_code' = ENOERR => spoke]_pingVars
  BY <1>1
<1>. QED  BY <1>2, PingInvariant, PTL DEF Spec, TargetSpoke

(* check_net(): if daemon_pid fits into the id, a target whose answer was read in time is
   not called unreachable. *)
THEOREM NeverFalseAlarm == Spec => []NoFalseAlarm
<1>1. PingInv => NoFalseAlarm
  BY DEF PingInv, NoFalseAlarm, ENOERR, ENETUNREACH
<1>. QED  BY <1>1, PingInvariant, PTL

-----------------------------------------------------------------------------
(* The checks of what the kernel reports. *)

(* The lines of /proc/net/dev that check_iface() may take for the interface's. *)
NameLists == {<< >>, <<"own">>, <<"own", "longer">>, <<"longer", "own">>}

(* The byte count that is remembered is the one at which the interface was last looked
   at: what came in since brings it to the counter, modulo the counter's range. *)
SysInv ==
    /\ SysTypeOK
    /\ counter \in 0 .. MaxBytes
    /\ names \in NameLists
    /\ names # << >> => sys = "iface"
    /\ names = <<"own">> =>
          bytes \in 0 .. MaxBytes /\ (got <= MaxBytes => counter = (bytes + got) % (MaxBytes + 1))

(* The remainder of what is less than two turns of a counter of k values. *)
LEMMA Turn ==
    ASSUME NEW k \in Nat \ {0}, NEW x \in 0 .. 2 * k - 1
    PROVE  x % k = IF x < k THEN x ELSE x - k
<1>1. CASE x < k
  BY <1>1, SmallRemainder
<1>2. CASE x >= k
  OBVIOUS
<1>. QED  BY <1>1, <1>2

(* A counter of k values comes back to where it was only after a full turn. *)
LEMMA FullTurn ==
    ASSUME NEW k \in Nat \ {0}, NEW a \in 0 .. k - 1, NEW g \in 0 .. k - 1
    PROVE  (a + g) % k = a <=> g = 0
OBVIOUS

(* Every result of a check is a code. *)
LEMMA SysCodes ==
    /\ \A a : check_load(a) \in Code
    /\ \A m, s : check_memory(m, s) \in Code
    /\ \A b : check_allocatable(b) \subseteq Code
    /\ \A e \in SysErrors \cup {ENFILE, ENOERR} : check_file_table(e) \in Code
    /\ \A t : check_file_stat(t) \in Code
    /\ \A n, r : check_pidfile(n, r) \in Code
BY SysAssumption
   DEF check_load, check_memory, check_allocatable, check_file_table, check_file_stat,
       check_pidfile, Code, ENOERR, EMAXLOAD, ENOMEM, ENFILE, EREBOOT, ENOCHANGE, ESRCH

(* check_iface(): what is remembered is a count of one of the lines, or the old one. *)
LEMMA StoredIs ==
    ASSUME SysInv, NEW n \in 0 .. Len(names)
    PROVE  /\ Stored(n) \in (0 .. MaxBytes) \cup {Suffix}
           /\ names = <<"own">> /\ n = 0 => Same(n) = {} /\ Stored(n) = bytes
           /\ names = <<"own">> /\ n = 1 => /\ Same(n) # {} <=> counter = bytes
                                            /\ Stored(n) = counter
<1>. DEFINE Readings == (0 .. MaxBytes) \cup {Suffix}
<1>1. \A k \in 1 .. Len(names) : BytesRead[k] \in Readings
  BY DEF SysInv, BytesRead, NameLists
<1>2. \A k \in 1 .. Len(names) : Before(k) \in Readings
  <2>1. bytes \in Readings
    BY DEF SysInv, SysTypeOK
  <2>2. ASSUME NEW k \in 1 .. Len(names), k # 1
        PROVE  k - 1 \in 1 .. Len(names)
    BY <2>2 DEF SysInv, NameLists
  <2>. QED  BY <1>1, <2>1, <2>2 DEF Before
<1>3. \A k \in 1 .. n : k \in 1 .. Len(names)
  BY DEF SysInv, NameLists
<1>4. Stored(n) \in Readings
  <2>1. CASE Same(n) # {}
    <3>. DEFINE first == CHOOSE k \in Same(n) : \A j \in Same(n) : k <= j
    <3>1. \E k \in Same(n) : \A j \in Same(n) : k <= j
      <4>1. n \in 0 .. 2
        <5>1. PICK m \in 0 .. 2 : Len(names) = m
          BY DEF SysInv, NameLists
        <5>2. n \in 0 .. m
          BY <5>1
        <5>. QED  BY <5>2
      <4>2. Same(n) \subseteq {1, 2}
        BY <4>1 DEF Same
      <4>. QED  BY <2>1, <4>2
    <3>2. first \in Same(n)
      BY <3>1
    <3>3. first \in 1 .. Len(names)
      BY <1>3, <3>2 DEF Same
    <3>. QED  BY <1>2, <2>1, <3>3 DEF Stored
  <2>2. CASE Same(n) = {} /\ n = 0
    BY <2>2 DEF Stored, SysInv, SysTypeOK
  <2>3. CASE Same(n) = {} /\ n # 0
    <3>1. n \in 1 .. Len(names)
      BY <2>3 DEF SysInv, NameLists
    <3>. QED  BY <1>1, <2>3, <3>1 DEF Stored
  <2>. QED  BY <2>1, <2>2, <2>3
<1>5. ASSUME n = 0
      PROVE  Same(n) = {} /\ Stored(n) = bytes
  <2>1. Same(n) = {}
    BY <1>5 DEF Same
  <2>. QED  BY <1>5, <2>1 DEF Stored
<1>6. ASSUME names = <<"own">>, n = 1
      PROVE  (Same(n) # {} <=> counter = bytes) /\ Stored(n) = counter
  <2>1. BytesRead[1] = counter /\ Before(1) = bytes
    BY <1>6 DEF BytesRead, Before
  <2>2. Same(n) = {k \in {1} : counter = bytes}
    <3>1. 1 .. n = {1}
      BY <1>6
    <3>. QED  BY <2>1, <3>1 DEF Same
  <2>3. CASE counter = bytes
    <3>1. Same(n) = {1}
      BY <2>2, <2>3
    <3>2. (CHOOSE k \in Same(n) : \A j \in Same(n) : k <= j) = 1
      BY <3>1
    <3>. QED  BY <2>1, <2>3, <3>1, <3>2 DEF Stored
  <2>4. CASE counter # bytes
    <3>1. Same(n) = {}
      BY <2>2, <2>4
    <3>. QED  BY <1>6, <2>1, <2>4, <3>1 DEF Stored
  <2>. QED  BY <2>3, <2>4
<1>. QED  BY <1>4, <1>5, <1>6

(* check_iface() on n lines. *)
LEMMA IfaceStep ==
    ASSUME SysInv, NEW n \in 0 .. Len(names), check_iface(n)
    PROVE  SysInv'
<1>1. sys_code' \in Code
  BY SysAssumption DEF check_iface, Code, ENOERR, ENETUNREACH
<1>2. bytes' \in (0 .. MaxBytes) \cup {Suffix}
  BY StoredIs DEF check_iface
<1>3. got' = 0 \/ got' = got
  BY DEF check_iface
<1>4. UNCHANGED <<sys, limit, fd, names, counter>>
  BY DEF check_iface
<1>5. ASSUME names = <<"own">>
      PROVE  bytes' \in 0 .. MaxBytes
             /\ (got' <= MaxBytes => counter' = (bytes' + got') % (MaxBytes + 1))
  <2>1. CASE n = 0
    <3>1. bytes' = bytes
      BY <1>5, <2>1, StoredIs DEF check_iface
    <3>2. got' = got
      BY <2>1 DEF check_iface
    <3>. QED  BY <1>4, <1>5, <3>1, <3>2 DEF SysInv
  <2>2. CASE n = 1
    <3>1. bytes' = counter
      BY <1>5, <2>2, StoredIs DEF check_iface
    <3>2. got' = 0
      BY <1>5, <2>2 DEF check_iface
    <3>3. counter \in 0 .. MaxBytes /\ MaxBytes \in Nat
      BY SysAssumption DEF SysInv
    <3>. QED  BY <1>4, <3>1, <3>2, <3>3
  <2>3. n = 0 \/ n = 1
    BY <1>5
  <2>. QED  BY <2>1, <2>2, <2>3
<1>6. /\ sys' \in CheckName /\ fd' \in BOOLEAN
      /\ got' \in 0 .. MaxBytes + 1
      /\ counter' \in 0 .. MaxBytes
  BY <1>3, <1>4, SysAssumption DEF SysInv, SysTypeOK
<1>. QED  BY <1>1, <1>2, <1>4, <1>5, <1>6 DEF SysInv, SysTypeOK

(* The counter goes up, and round. *)
LEMMA TrafficStep ==
    ASSUME SysInv, Traffic
    PROVE  SysInv' /\ counter' # counter
<1>0. PICK k \in Nat \ {0} : k = MaxBytes + 1
  BY SysAssumption
<1>1. PICK n \in 1 .. MaxBytes :
        /\ counter' = (counter + n) % k
        /\ got' = IF got + n > MaxBytes THEN MaxBytes + 1 ELSE got + n
  BY <1>0 DEF Traffic
<1>2. /\ UNCHANGED <<sys, limit, fd, sys_code, bytes, names>>
      /\ MaxBytes \in Nat /\ counter \in 0 .. MaxBytes /\ got \in 0 .. MaxBytes + 1
  BY SysAssumption DEF Traffic, SysInv, SysTypeOK
<1>3. counter' = IF counter + n < k THEN counter + n ELSE counter + n - k
  <2>1. PICK x \in 0 .. 2 * k - 1 : x = counter + n
    BY <1>0, <1>2
  <2>2. x % k = IF x < k THEN x ELSE x - k
    BY Turn
  <2>3. counter' = x % k
    BY <1>1, <2>1
  <2>. QED  BY <1>2, <2>1, <2>2, <2>3
<1>4. counter' \in 0 .. MaxBytes /\ counter' # counter
  BY <1>0, <1>2, <1>3
<1>5. got' \in 0 .. MaxBytes + 1
  BY <1>1, <1>2
<1>6. ASSUME names = <<"own">>, got' <= MaxBytes
      PROVE  counter' = (bytes + got') % k
  <2>1. got' = got + n /\ got + n <= MaxBytes
    BY <1>1, <1>2, <1>6
  <2>2. bytes \in 0 .. MaxBytes /\ got \in 0 .. MaxBytes
    BY <1>2, <1>6, <2>1 DEF SysInv
  <2>3. counter = (bytes + got) % k
    BY <1>0, <1>6, <2>2 DEF SysInv
  <2>4. PICK x \in 0 .. 2 * k - 1 : x = bytes + got
    BY <1>0, <1>2, <2>2
  <2>5. PICK y \in 0 .. 2 * k - 1 : y = bytes + got'
    BY <1>0, <1>2, <2>1, <2>2
  <2>6. /\ x % k = IF x < k THEN x ELSE x - k
        /\ y % k = IF y < k THEN y ELSE y - k
    BY Turn
  <2>7. counter = (IF x < k THEN x ELSE x - k) /\ y = x + n
    BY <1>2, <2>1, <2>2, <2>3, <2>4, <2>5, <2>6
  <2>8. counter' = IF y < k THEN y ELSE y - k
    BY <1>0, <1>2, <1>3, <1>4, <2>1, <2>2, <2>7
  <2>. QED  BY <2>5, <2>6, <2>8
<1>7. SysInv'
  BY <1>0, <1>2, <1>4, <1>5, <1>6 DEF SysInv, SysTypeOK
<1>. QED  BY <1>4, <1>7

(* The other checks leave the interface alone, and have no name to look for. *)
LEMMA OtherStep ==
    ASSUME SysInv, OpenFile \/ SysCheck
    PROVE  SysInv' /\ names # <<"own">>
<1>1. UNCHANGED <<sys, limit, bytes, names, counter, got>>
  BY DEF OpenFile, SysCheck, Found
<1>2. fd' \in BOOLEAN
  BY DEF OpenFile, SysCheck, Found, SysInv, SysTypeOK
<1>3. sys_code' \in Code
  <2>1. CASE OpenFile
    BY <2>1 DEF OpenFile, SysInv, SysTypeOK
  <2>2. CASE SysCheck
    <3>1. SysErrors \subseteq Code /\ {ENOERR, ENOLOAD, EINVMEM} \subseteq Code
      BY SysAssumption DEF Code, ENOERR, ENOLOAD, EINVMEM
    <3>. QED  BY <2>2, <3>1, SysCodes DEF SysCheck, Found
  <2>. QED  BY <2>1, <2>2
<1>4. sys # "iface"
  BY DEF OpenFile, SysCheck
<1>5. names # <<"own">>
  BY <1>4 DEF SysInv
<1>. QED  BY <1>1, <1>2, <1>3, <1>5 DEF SysInv, SysTypeOK

LEMMA SysStep ==
    ASSUME SysInv, SysNext
    PROVE  SysInv'
BY IfaceStep, TrafficStep, OtherStep DEF SysNext

(* The first state. *)
LEMMA SysStart == Init => SysInv
<1>1. SysInit => SysInv
  <2>. SUFFICES ASSUME SysInit PROVE SysInv
    OBVIOUS
  <2>1. /\ counter \in 0 .. MaxBytes /\ got = counter /\ bytes = 0 /\ MaxBytes \in Nat
        /\ sys \in CheckName /\ fd = FALSE /\ sys_code = ENOERR
    BY SysAssumption DEF SysInit
  <2>2. names \in NameLists /\ (names # << >> => sys = "iface")
    BY DEF SysInit, NameLists
  <2>3. counter = (0 + counter) % (MaxBytes + 1)
    BY <2>1
  <2>4. SysTypeOK
    <3>1. sys_code \in Code
      BY <2>1 DEF Code, ENOERR
    <3>2. bytes \in 0 .. MaxBytes /\ got \in 0 .. MaxBytes + 1
      BY <2>1
    <3>3. fd \in BOOLEAN
      BY <2>1
    <3>. QED  BY <2>1, <3>1, <3>2, <3>3 DEF SysTypeOK
  <2>. QED  BY <2>1, <2>2, <2>3, <2>4 DEF SysInv
<1>2. SysOff => SysInv
  <2>. SUFFICES ASSUME SysOff PROVE SysInv
    OBVIOUS
  <2>1. names \in NameLists /\ names # <<"own">> /\ sys = "iface"
    BY DEF SysOff, NameLists
  <2>2. /\ counter \in 0 .. MaxBytes /\ bytes \in 0 .. MaxBytes
        /\ got \in 0 .. MaxBytes + 1
    BY SysAssumption DEF SysOff
  <2>3. sys_code \in Code
    BY DEF SysOff, Code, ENOERR
  <2>4. sys \in CheckName /\ fd \in BOOLEAN
    BY DEF SysOff, CheckName
  <2>5. SysTypeOK
    BY <2>2, <2>3, <2>4 DEF SysTypeOK
  <2>. QED  BY <2>1, <2>2, <2>5 DEF SysInv
<1>. QED  BY <1>1, <1>2 DEF Init

(* The invariant holds, whatever is configured. *)
LEMMA SysInvariant == Spec => []SysInv
<1>1. Init => SysInv
  BY SysStart
<1>2. ASSUME SysInv, [Next]_vars
      PROVE  SysInv'
  <2>1. CASE SysNext
    BY <1>2, <2>1, SysStep
  <2>2. CASE UNCHANGED sysVars
    BY <1>2, <2>2 DEF sysVars, SysInv, SysTypeOK
  <2>. QED  BY <1>2, <2>1, <2>2 DEF Next, vars
<1>. QED  BY <1>1, <1>2, PTL DEF Spec

(* check_iface(): for every width of the counter and any traffic and failures in between,
   silence since the last look is reported, and only silence or a full turn; reading
   /proc/net/dev never fails with "network unreachable". *)
THEOREM NoticesSilence ==
    ASSUME ENETUNREACH \notin SysErrors
    PROVE  Spec => SilenceNoticed
<1>. DEFINE Noticed == names = <<"own">> /\ counter' = counter /\ got <= MaxBytes
                       /\ sys_code' \in {ENOERR, ENETUNREACH} =>
                          (sys_code' = ENETUNREACH <=> got = 0)
<1>1. ASSUME SysInv, [Next]_vars
      PROVE  [Noticed]_sysVars
  <2>1. ASSUME NEW n \in 0 .. Len(names), check_iface(n), names = <<"own">>, got <= MaxBytes,
               sys_code' \in {ENOERR, ENETUNREACH}
        PROVE  sys_code' = ENETUNREACH <=> got = 0
    <3>1. n = 1
      <4>1. n = 0 \/ n = 1
        BY <2>1
      <4>2. ASSUME n = 0
            PROVE  FALSE
        <5>1. Same(n) = {} /\ n # Len(names)
          BY <1>1, <2>1, <4>2, StoredIs
        <5>2. sys_code' \in SysErrors
          BY <2>1, <5>1 DEF check_iface
        <5>. QED  BY <2>1, <5>2, SysAssumption
      <4>. QED  BY <4>1, <4>2
    <3>2. sys_code' = ENETUNREACH <=> Same(n) # {}
      BY <2>1, SysAssumption DEF check_iface, ENOERR, ENETUNREACH
    <3>3. Same(n) # {} <=> counter = bytes
      BY <1>1, <2>1, <3>1, StoredIs
    <3>4. /\ MaxBytes \in Nat /\ bytes \in 0 .. MaxBytes /\ got \in 0 .. MaxBytes
          /\ counter = (bytes + got) % (MaxBytes + 1)
      BY <1>1, <2>1, SysAssumption DEF SysInv, SysTypeOK
    <3>5. counter = bytes <=> got = 0
      <4>1. MaxBytes + 1 \in Nat \ {0} /\ MaxBytes = (MaxBytes + 1) - 1
        BY <3>4
      <4>. QED  BY <3>4, <4>1, FullTurn
    <3>. QED  BY <3>2, <3>3, <3>5
  <2>2. CASE SysNext
    BY <1>1, <2>1, <2>2, TrafficStep, OtherStep DEF SysNext
  <2>3. CASE UNCHANGED sysVars
    BY <2>3
  <2>. QED  BY <1>1, <2>2, <2>3 DEF Next, vars
<1>2. SysInv /\ [Next]_vars => [Noticed]_sysVars
  BY <1>1
<1>. QED  BY <1>2, SysInvariant, PTL DEF Spec, SilenceNoticed

-----------------------------------------------------------------------------
(* Types. *)

(* One step of the temperature check. *)
LEMMA TempTypes ==
    ASSUME TempInv, TempTypeOK, TempNext
    PROVE  TempTypeOK'
<1>1. TempInv'
  BY TempStep
<1>2. have' \subseteq 1 .. 3 /\ level' \in 0 .. 3
  BY <1>1 DEF TempInv
<1>3. maxtemp' \in MaxTemps
  BY DEF TempNext, TempTypeOK, open_tempcheck, check_temp, check_temp_skips
<1>4. temp_fd' \in BOOLEAN /\ in_use' \in BOOLEAN
  BY DEF TempNext, TempTypeOK, open_tempcheck, check_temp, check_temp_skips
<1>5. said' \in -1 .. 3
  <2>1. ASSUME NEW m, check_temp(m)
        PROVE  said' \in -1 .. 3
    <3>1. level' \in 0 .. 3 /\ said' = Warn(level')[2]
      BY <1>2, <2>1 DEF check_temp
    <3>2. said' = IF level' > level THEN level'
                  ELSE IF level' = 0 /\ level > 0 THEN Clear ELSE Nothing
      BY <3>1, WarnIs
    <3>. QED  BY <3>1, <3>2 DEF Clear, Nothing
  <2>. QED  BY <2>1 DEF TempNext, open_tempcheck, check_temp_skips, Nothing
<1>6. temp_code' \in Code
  BY TemperatureAssumption DEF TempNext, TempTypeOK, open_tempcheck, check_temp,
     check_temp_skips, Code, ENOERR, ETOOHOT
<1>. QED  BY <1>2, <1>3, <1>4, <1>5, <1>6 DEF TempTypeOK

(* One step of the ping check: the tries stay below the number that is configured. *)
LEMMA PingTypes ==
    ASSUME PingInv, PingTypeOK, PingNext
    PROVE  PingTypeOK'
<1>. USE DEF PingReturns
<1>1. UNCHANGED <<daemon_pid, pingcount>> /\ pingcount \in Int
  BY PingAssumption DEF PingNext, check_net, open_netcheck, PingCall, PingSend, PingReceive,
     PingReceiveFails, PingTimeout, PingForeign, PingLoss, PingTypeOK
<1>2. i' \in Nat /\ (ping_pc' \in {"send", "wait"} => i' < pingcount)
  <2>1. CASE PingCall
    BY <1>1, <2>1 DEF PingCall, PingTypeOK
  <2>2. CASE PingTimeout
    BY <1>1, <2>2 DEF PingTimeout, PingTypeOK
  <2>3. CASE PingSend
    BY <1>1, <2>3 DEF PingSend, PingTypeOK
  <2>4. CASE PingReceive \/ PingReceiveFails
    BY <1>1, <2>4 DEF PingReceive, PingReceiveFails, PingTypeOK
  <2>5. CASE open_netcheck \/ PingForeign \/ PingLoss
    BY <1>1, <2>5 DEF open_netcheck, PingForeign, PingLoss, PingTypeOK
  <2>. QED  BY <2>1, <2>2, <2>3, <2>4, <2>5 DEF PingNext, check_net
<1>3. ping_pc' \in {"closed", "exited", "idle", "send", "wait"}
  BY DEF PingNext, check_net, open_netcheck, PingCall, PingSend, PingReceive,
     PingReceiveFails, PingTimeout, PingForeign, PingLoss, PingTypeOK
<1>4. ping_code' \in Code
  <2>1. NetErrors \subseteq Code /\ {ENOERR, EINVAL, ENETUNREACH} \subseteq Code
    BY PingAssumption DEF Code, ENOERR, EINVAL, ENETUNREACH
  <2>. QED  BY <2>1 DEF PingNext, check_net, open_netcheck, PingCall, PingSend, PingReceive,
     PingReceiveFails, PingTimeout, PingForeign, PingLoss, PingTypeOK
<1>5. pass' \in Nat
  <2>1. pass' \in {pass, pass + 1}
    BY Zenon DEF PingNext, check_net, open_netcheck, PingCall, PingSend, PingReceive,
       PingReceiveFails, PingTimeout, PingForeign, PingLoss
  <2>. QED  BY <2>1 DEF PingTypeOK
<1>6. heard' \in BOOLEAN
  BY DEF PingNext, check_net, open_netcheck, PingCall, PingSend, PingReceive,
     PingReceiveFails, PingTimeout, PingForeign, PingLoss, PingTypeOK, Expected
<1>7. wire' \subseteq Answer
  <2>1. CASE PingSend
    <3>1. [id |-> Id, seq |-> i + 1, from |-> Target, ours |-> TRUE, pass |-> pass] \in Answer
      BY IdInRange DEF Answer, PingTypeOK
    <3>. QED  BY <2>1, <3>1 DEF PingSend, PingTypeOK
  <2>2. CASE PingForeign
    <3>1. \A f \in {Target, Other}, n \in 0 .. IdSpan - 1, q \in 1 .. 2 :
            [id |-> n, seq |-> q, from |-> f, ours |-> FALSE, pass |-> 0] \in Answer
      BY DEF Answer
    <3>. QED  BY <2>2, <3>1 DEF PingForeign, PingTypeOK
  <2>. QED  BY <2>1, <2>2 DEF PingNext, check_net, open_netcheck, PingCall, PingReceive,
     PingReceiveFails, PingTimeout, PingLoss, PingTypeOK
<1>8. spoke' \in BOOLEAN
  BY DEF PingNext, check_net, open_netcheck, PingCall, PingSend, PingReceive,
     PingReceiveFails, PingTimeout, PingForeign, PingLoss, PingTypeOK
<1>. QED  BY <1>1, <1>2, <1>3, <1>4, <1>5, <1>6, <1>7, <1>8 DEF PingTypeOK

(* Every variable of the check that is configured has its type; in particular every result
   is an 8-bit code, and check_net() makes at most ping-count tries. *)
THEOREM TypeCorrect == Spec => []TypeOK
<1>1. Init => TypeOK
  <2>1. TempInit => TempTypeOK
    <3>. SUFFICES ASSUME TempInit PROVE TempTypeOK
      OBVIOUS
    <3>1. temp_code \in Code /\ said \in -1 .. 3 /\ level \in 0 .. 3
      BY DEF TempInit, Code, ENOERR, Nothing
    <3>. QED  BY <3>1 DEF TempInit, TempTypeOK
  <2>2. PingInit => PingTypeOK
    <3>. SUFFICES ASSUME PingInit PROVE PingTypeOK
      OBVIOUS
    <3>1. ping_code \in Code /\ i \in Nat /\ pass \in Nat
      BY DEF PingInit, Code, ENOERR
    <3>. QED  BY <3>1 DEF PingInit, PingTypeOK
  <2>. QED  BY <2>1, <2>2, SysStart DEF Init, TypeOK, SysInv
<1>2. ASSUME TypeOK, TempInv, PingInv, SysInv, [Next]_vars
      PROVE  TypeOK'
  <2>1. CASE UNCHANGED vars
    BY <1>2, <2>1 DEF vars, tempVars, pingVars, sysVars, TypeOK, TempTypeOK, PingTypeOK,
       SysTypeOK
  <2>2. CASE configured = "temperature" /\ TempNext /\ UNCHANGED <<configured, pingVars, sysVars>>
    BY <1>2, <2>2, TempTypes DEF TypeOK
  <2>3. CASE configured = "ping" /\ PingNext /\ UNCHANGED <<configured, tempVars, sysVars>>
    BY <1>2, <2>3, PingTypes DEF TypeOK
  <2>4. CASE configured = "system" /\ SysNext /\ UNCHANGED <<configured, tempVars, pingVars>>
    BY <1>2, <2>4, SysStep DEF TypeOK, SysInv
  <2>. QED  BY <1>2, <2>1, <2>2, <2>3, <2>4 DEF Next
<1>. QED  BY <1>1, <1>2, TempInvariant, PingInvariant, SysInvariant, PTL DEF Spec
=============================================================================
