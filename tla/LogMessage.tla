------------------------------ MODULE LogMessage ------------------------------
(***************************************************************************)
(* Logging: src/logmessage.c.  A message goes to syslog, to the terminal   *)
(* or to both.  While syslog is suspended (killall5() has stopped the      *)
(* processes, syslogd among them) the messages are counted and the last is *)
(* kept.  Each function is an operator over the primed variables.          *)
(***************************************************************************)
EXTENDS Integers, Sequences

CONSTANTS Message, MaxMessages      \* messages, and how many are counted at most

VARIABLES
    using_syslog, using_terminal,
    err_count, err_buf

(* History variables, for the properties. *)
VARIABLES
    out,            \* what the last call sent to syslog: how many messages, and the last
    shown,          \* did it reach the terminal?
    suspended,      \* between suspend_logging() and resume_logging()?
    held            \* the messages since suspend_logging()

logVars == <<using_syslog, using_terminal, err_count, err_buf, out, shown, suspended, held>>

Silence      == [n |-> 0, last |-> ""]
Report(n, m) == [n |-> n, last |-> m]

LogInit ==
    /\ using_syslog = FALSE /\ using_terminal = FALSE /\ err_count = 0 /\ err_buf = ""
    /\ out = Silence /\ shown = FALSE /\ suspended = FALSE /\ held = << >>

(* flags is a subset of {"MSG_TO_STDERR", "MSG_TO_SYSLOG"}. *)
open_logging(flags) ==
    /\ err_count' = 0
    /\ using_terminal' = ("MSG_TO_STDERR" \in flags)
    /\ using_syslog' = ("MSG_TO_SYSLOG" \in flags)
    /\ out' = Silence /\ shown' = FALSE
    /\ UNCHANGED <<err_buf, suspended, held>>

(* log_message(), through output_message(): a terminal that fails is not tried again. *)
log_message(m) ==
    /\ IF using_syslog /\ err_count = 0
       THEN out' = Report(1, m) /\ UNCHANGED <<err_count, err_buf>>
       ELSE out' = Silence /\ err_count' = err_count + 1 /\ err_buf' = m
    /\ using_terminal' \in IF using_terminal THEN BOOLEAN ELSE {FALSE}
    /\ shown' = using_terminal'
    /\ held' = IF suspended THEN Append(held, m) ELSE held
    /\ UNCHANGED <<using_syslog, suspended>>

close_logging ==
    /\ using_syslog' = FALSE
    /\ out' = Silence /\ shown' = FALSE
    /\ UNCHANGED <<using_terminal, err_count, err_buf, suspended, held>>

(* fatal_error(): the message, and the end of logging and of the process. *)
fatal_error(m) ==
    /\ out' = IF using_syslog /\ err_count = 0 THEN Report(1, m) ELSE Silence
    /\ using_terminal' \in IF using_terminal THEN BOOLEAN ELSE {FALSE}
    /\ shown' = using_terminal' /\ using_syslog' = FALSE
    /\ UNCHANGED <<err_count, err_buf, suspended, held>>

(* Faulty variants, marked "Faulty", are for mutation runs only. *)
FaultySuspend ==                \* err_count is not raised
    /\ out' = Silence /\ shown' = FALSE
    /\ suspended' = TRUE /\ held' = << >>
    /\ UNCHANGED <<using_syslog, using_terminal, err_count, err_buf>>

suspend_logging ==
    /\ err_count' = IF err_count = 0 THEN 1 ELSE err_count
    /\ out' = Silence /\ shown' = FALSE
    /\ suspended' = TRUE /\ held' = << >>
    /\ UNCHANGED <<using_syslog, using_terminal, err_buf>>

(* One message as it was, several as their number and the last. *)
resume_logging ==
    /\ out' = IF using_syslog /\ err_count > 1 THEN Report(err_count - 1, err_buf) ELSE Silence
    /\ err_count' = 0
    /\ shown' = FALSE /\ suspended' = FALSE /\ held' = << >>
    /\ UNCHANGED <<using_syslog, using_terminal, err_buf>>

(* The calls, in any order that keeps opening and closing out of a suspension, as
   killall5() does. *)
LogNext ==
    \/ \E flags \in SUBSET {"MSG_TO_STDERR", "MSG_TO_SYSLOG"} : ~suspended /\ open_logging(flags)
    \/ \E m \in Message : err_count < MaxMessages /\ log_message(m)
    \/ ~suspended /\ close_logging
    \/ ~suspended /\ suspend_logging
    \/ suspended /\ resume_logging

(* Types of the variables. *)
LogTypeOK ==
    /\ {using_syslog, using_terminal, shown, suspended} \subseteq BOOLEAN
    /\ err_count \in 0 .. MaxMessages /\ err_buf \in Message \cup {""}
    /\ out.n \in 0 .. MaxMessages /\ out.last \in Message \cup {""}
    /\ held \in Seq(Message)

(* suspend_logging() and resume_logging(): nothing is sent to syslog while it is
   suspended, which would wait for a stopped syslogd, and afterwards the messages of
   that time are accounted for: their number, and the last of them ("had %d messages
   in log suspend", logmessage.c:226). *)
SuspensionAccounted ==
    [][ /\ suspended /\ suspended' => out' = Silence
        /\ suspended /\ ~suspended' /\ using_syslog =>
              out' = IF held = << >> THEN Silence ELSE Report(Len(held), held[Len(held)])
      ]_logVars
=============================================================================
