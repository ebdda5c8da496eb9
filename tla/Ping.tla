--------------------------------- MODULE Ping ---------------------------------
(***************************************************************************)
(* The ping check (src/net.c): check_net() sends up to ping-count echo     *)
(* requests and takes the first answer that is the one it asked for.       *)
(*                                                                         *)
(* The raw socket gets every echo reply that reaches the machine: answers  *)
(* to earlier requests, duplicates, and those meant for other programs.    *)
(* The network may lose, delay and duplicate.                              *)
(***************************************************************************)
EXTENDS Integers, FiniteSets, WatchErr

CONSTANTS
    Pids,           \* the values of daemon_pid to look at
    IdSpan,         \* the number of ids; 2^16 in the packet
    Counts,         \* the values of ping-count to look at
    Target, Other,  \* the host that is checked, and another one
    MaxPass,        \* calls of check_net(), at most
    MaxWire,        \* answers under way, at most
    NetErrors       \* errno of sendto() and recvfrom()

ASSUME PingAssumption ==
    /\ Pids \subseteq Nat /\ Counts \subseteq Int
    /\ IdSpan \in Nat \ {0} /\ MaxPass \in Nat /\ MaxWire \in Nat
    /\ Target # Other
    /\ NetErrors \subseteq Code \ {ENOERR}

EINVAL == 22

VARIABLES
    daemon_pid, pingcount,
    ping_pc,        \* "closed", "exited", "idle", "send" or "wait"
    i,              \* the try
    ping_code,      \* what the last call returned
    wire,           \* the answers under way or in the socket's buffer
    pass,           \* history: the number of the call
    heard,          \* history: was the answer to the try at hand read in its time?
    spoke           \* history: was an answer of the target with this daemon's id under way
                    \* when the call began, or sent since?

pingVars == <<daemon_pid, pingcount, ping_pc, i, ping_code, wire, pass, heard, spoke>>

(* An answer; "pass" and "ours" say what it answers and are not in the packet. *)
Answer == [id : 0 .. IdSpan - 1, seq : Nat, from : {Target, Other}, ours : BOOLEAN, pass : Nat]

(* htons(daemon_pid) *)
Id == daemon_pid % IdSpan

PingInit ==
    /\ daemon_pid \in Pids /\ pingcount \in Counts
    /\ ping_pc = "closed" /\ i = 0 /\ ping_code = ENOERR
    /\ wire = {} /\ pass = 0 /\ heard = FALSE /\ spoke = FALSE

(* The target's answer to somebody with this daemon's id. *)
FromTarget(a) == a.from = Target /\ a.id = Id

PingReturns(code) == ping_pc' = "idle" /\ ping_code' = code

-----------------------------------------------------------------------------
(* open_netcheck(): a raw socket, or fatal_error() without an address or a socket;
   the options of the socket may fail to be set. *)
open_netcheck ==
    /\ ping_pc = "closed"
    /\ ping_pc' \in {"idle", "exited"}
    /\ UNCHANGED <<daemon_pid, pingcount, i, ping_code, wire, pass, heard, spoke>>

(* check_net() is called. *)
PingCall ==
    /\ ping_pc = "idle" /\ pass < MaxPass
    /\ i' = 0 /\ pass' = pass + 1 /\ heard' = FALSE /\ spoke' = (\E a \in wire : FromTarget(a))
    /\ IF pingcount < 1 THEN PingReturns(EINVAL) ELSE ping_pc' = "send" /\ UNCHANGED ping_code
    /\ UNCHANGED <<daemon_pid, pingcount, wire>>

(* The request for try i + 1 goes out, and may be answered or not. *)
PingSend ==
    /\ ping_pc = "send"
    /\ \/ /\ ping_pc' = "wait"
          /\ \/ wire' = wire \cup {[id |-> Id, seq |-> i + 1, from |-> Target, ours |-> TRUE,
                                    pass |-> pass]} /\ spoke' = TRUE
             \/ UNCHANGED <<wire, spoke>>
          /\ UNCHANGED ping_code
       \/ \E e \in NetErrors : PingReturns(e) /\ UNCHANGED <<wire, spoke>>
    /\ UNCHANGED <<daemon_pid, pingcount, i, pass, heard>>

(* Faulty variants, marked "Faulty", are for mutation runs only. *)
FaultyMatchesAny(a) == a.seq = i + 1 /\ a.from = Target         \* anybody's request
FaultyMatchesLast(a) == a.id = daemon_pid /\ a.seq = i /\ a.from = Target   \* off by one

(* The answer is taken for the one that was just asked for. *)
Matches(a) == a.id = daemon_pid /\ a.seq = i + 1 /\ a.from = Target

(* The one that was: the target's, to this try of this call. *)
Expected(a) == a.ours /\ a.pass = pass /\ a.seq = i + 1

(* An answer is read; it may have been sent twice. *)
PingReceive ==
    /\ ping_pc = "wait"
    /\ \E a \in wire :
          /\ wire' \in {wire, wire \ {a}}
          /\ heard' = (heard \/ Expected(a))
          /\ IF Matches(a) THEN PingReturns(ENOERR) ELSE UNCHANGED <<ping_pc, ping_code>>
    /\ UNCHANGED <<daemon_pid, pingcount, i, pass, spoke>>

PingReceiveFails ==
    /\ ping_pc = "wait"
    /\ \E e \in NetErrors : PingReturns(e)
    /\ UNCHANGED <<daemon_pid, pingcount, i, wire, pass, heard, spoke>>

FaultyPingTimeout ==            \* one try too many
    /\ ping_pc = "wait"
    /\ IF i < pingcount THEN i' = i + 1 /\ ping_pc' = "send" /\ UNCHANGED ping_code
       ELSE i' = i /\ PingReturns(ENETUNREACH)
    /\ UNCHANGED <<daemon_pid, pingcount, wire, pass, heard, spoke>>

(* The time for this try is over: the next one, or none. *)
PingTimeout ==
    /\ ping_pc = "wait"
    /\ IF i + 1 < pingcount THEN i' = i + 1 /\ ping_pc' = "send" /\ UNCHANGED ping_code
       ELSE i' = i /\ PingReturns(ENETUNREACH)
    /\ UNCHANGED <<daemon_pid, pingcount, wire, pass, heard, spoke>>

(* Somebody else of the machine pings, whom and with what id he likes. *)
PingForeign ==
    /\ Cardinality(wire) < MaxWire
    /\ \E f \in {Target, Other}, n \in 0 .. IdSpan - 1, q \in 1 .. 2 :
          /\ wire' = wire \cup {[id |-> n, seq |-> q, from |-> f, ours |-> FALSE, pass |-> 0]}
          /\ spoke' = (spoke \/ (f = Target /\ n = Id))
    /\ UNCHANGED <<daemon_pid, pingcount, ping_pc, i, ping_code, pass, heard>>

(* An answer is lost. *)
PingLoss ==
    /\ \E a \in wire : wire' = wire \ {a}
    /\ UNCHANGED <<daemon_pid, pingcount, ping_pc, i, ping_code, pass, heard, spoke>>

check_net == PingCall \/ PingSend \/ PingReceive \/ PingReceiveFails \/ PingTimeout

PingNext == open_netcheck \/ check_net \/ PingForeign \/ PingLoss

-----------------------------------------------------------------------------
(* Properties. *)

PingTypeOK ==
    /\ daemon_pid \in Pids /\ pingcount \in Counts
    /\ ping_pc \in {"closed", "exited", "idle", "send", "wait"}
    /\ i \in Nat /\ (ping_pc \in {"send", "wait"} => i < pingcount)
    /\ ping_code \in Code /\ pass \in Nat /\ heard \in BOOLEAN /\ spoke \in BOOLEAN
    /\ wire \subseteq Answer

(* check_net(): the target counts as reachable only when it has sent an answer with
   this daemon's id, and the answer came during the call or was still under way when
   the call began; answers of other hosts, and those of the target to other ids,
   never count.  The code cannot tell the answer it "just sent" for (net.c:161) from
   one to the same try of an earlier call, or to another program with the same id
   (net.c:162-164): the property allows for both. *)
TargetSpoke ==
    [][ping_pc = "wait" /\ ping_pc' = "idle" /\ ping_code' = ENOERR => spoke]_pingVars

(* check_net(): "is it the one we just sent?" (net.c:161).  As long as daemon_pid
   fits into the id of a packet, an answer that is read in time is recognised
   among all others, and the network is not called unreachable. *)
NoFalseAlarm ==
    daemon_pid < IdSpan /\ ping_code = ENETUNREACH /\ ping_pc = "idle" => ~heard
=============================================================================
