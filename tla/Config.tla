-------------------------------- MODULE Config --------------------------------
(***************************************************************************)
(* Starting up: main() of src/watchdog.c up to the opening of the device,  *)
(* with the reader of the configuration file (src/configfile.c and         *)
(* src/read-conf.c) and the logging of LogMessage.                         *)
(*                                                                         *)
(* A line of the file is blank or a comment, or without "=", or has an     *)
(* option and a value.  A value is blank, a number or a text; white space  *)
(* around the two is taken off.  What verbose adds to the log is left out. *)
(***************************************************************************)
EXTENDS LogMessage, FiniteSets

CONSTANTS
    Lines,              \* the lines "arg = val" of the files that are tried
    MaxLines,           \* lines of a file, at most
    MaxTests            \* files of the test directory, at most

Texts == {"", "number", "default", "other"} \cup {line.val.s : line \in Lines}
Value == [s : Texts, i : Int]           \* see Text and Number

ASSUME ConfigAssumption == /\ {MaxLines, MaxTests} \subseteq Nat /\ MaxMessages \in Nat \ {0}
                           /\ {"fatal", "warning", "info"} \subseteq Message /\ "" \notin Message
ASSUME LinesAssumption  == \A line \in Lines :
                              /\ line \in [arg : STRING, val : Value]
                              /\ line.val.s # "number" => line.val.i = 0

VARIABLES
    pc,
    force, foreground,  \* command line options
    setting,            \* the value of every option but the lists
    list,               \* the lists that options add to
    lines               \* history: the lines read

vars == <<logVars, pc, force, foreground, setting, list, lines>>

-----------------------------------------------------------------------------
(* The options; "ticker" is the counter that "logtick" sets. *)

IntOption == {"ping-count", "priority", "repair-timeout", "test-timeout", "heartbeat-stamps",
              "interval", "logtick", "ticker", "watchdog-timeout", "max-temperature", "max-load-1",
              "max-load-5", "max-load-15", "min-memory", "allocatable-memory", "sigterm-delay",
              "retry-timeout", "repair-maximum"}
YesNoOption  == {"realtime", "softboot-option", "temp-power-off", "verbose"}
YNAutoOption == {"watchdog-refresh-use-settimeout"}
StringOption == {"repair-binary", "heartbeat-file", "admin", "watchdog-device", "log-dir",
                 "test-directory"}
ListOption   == {"file", "pidfile", "ping", "interface", "test-binary", "temperature-sensor"}

Text(t)   == [s |-> t, i |-> 0]
Number(n) == [s |-> "number", i |-> n]      \* a text that starts like one; i is what atoi() makes of it
NULL      == Text("")

Default == [o \in IntOption \cup YesNoOption \cup YNAutoOption \cup StringOption |->
    CASE o \in {"interval", "logtick", "ticker", "priority", "repair-maximum", "temp-power-off"} -> 1
      [] o \in {"test-timeout", "repair-timeout", "watchdog-timeout", "retry-timeout"} -> 60
      [] o = "max-temperature" -> 90
      [] o = "ping-count" -> 3
      [] o = "sigterm-delay" -> 5
      [] o = "heartbeat-stamps" -> 300
      [] o \in YNAutoOption -> 2
      [] o \in {"admin", "log-dir", "test-directory"} -> Text("default")
      [] o \in {"repair-binary", "heartbeat-file", "watchdog-device"} -> NULL
      [] OTHER -> 0]

MINLOAD == 2

Entry(name, version) == [name |-> name, version |-> version, mtime |-> 0]

Init ==
    /\ LogInit
    /\ pc \in {"main", "library"}       \* "library": LogMessage on its own
    /\ force = FALSE /\ foreground = FALSE
    /\ setting = Default
    /\ list = [o \in ListOption |-> << >>]
    /\ lines = << >>

-----------------------------------------------------------------------------
(* read-conf.c: the effect of a line "arg = val". *)

Say(ok) == IF ok THEN UNCHANGED logVars ELSE log_message("warning")

(* read_int_func(): only what looks like a number changes the variable. *)
read_int_func(arg, val) ==
    /\ setting' = IF val.s # "number" THEN setting
                  ELSE [setting EXCEPT ![arg] = val.i]
    /\ Say(val.s = "number")
    /\ UNCHANGED list

(* read_string_func(), always with Read_allow_blank *)
read_string_func(arg, val) ==
    setting' = [setting EXCEPT ![arg] = val] /\ UNCHANGED <<list, logVars>>

(* read_enumerated_func(): a text that is not in the table changes nothing. *)
read_enumerated_func(arg, val, table) ==
    /\ setting' = IF val.s \in DOMAIN table THEN [setting EXCEPT ![arg] = table[val.s]] ELSE setting
    /\ UNCHANGED <<list, logVars>>

YN_Auto_list == [no |-> 0, yes |-> 1, auto |-> 2]
FaultyYes_No_list == YN_Auto_list       \* the wrong table
Yes_No_list  == [no |-> 0, yes |-> 1]

(* add_list(): a new entry, all zero, at the end *)
add_list(o, val, version) == list' = [list EXCEPT ![o] = Append(@, Entry(val, version))]

read_list_func(arg, val) ==
    /\ IF val = NULL THEN UNCHANGED list ELSE add_list(arg, val, 0)
    /\ Say(val # NULL)
    /\ UNCHANGED setting

FaultyChange(val) ==                    \* the first file is meant
    /\ IF list["file"] = << >> THEN UNCHANGED list
       ELSE list' = [list EXCEPT !["file"][1].mtime = val.i]
    /\ UNCHANGED <<setting, logVars>>

(* "change": for the last file so far.  What is not a number counts as zero. *)
read_change(val) ==
    LET n == Len(list["file"])
        i == IF val.s = "number" THEN val.i ELSE 0
    IN  /\ IF n = 0 THEN UNCHANGED list ELSE list' = [list EXCEPT !["file"][n].mtime = i]
        /\ Say(n > 0 /\ val.s = "number" /\ list["file"][n].mtime = 0)
        /\ UNCHANGED setting

-----------------------------------------------------------------------------
(* main(), the options that matter here; usage() ends the program. *)
Options ==
    /\ pc = "main"
    /\ open_logging({"MSG_TO_STDERR", "MSG_TO_SYSLOG"})
    /\ \/ /\ pc' = "read"
          /\ \E b \in {0, 1} : setting' = [setting EXCEPT !["softboot-option"] = b]
       \/ pc' = "usage" /\ UNCHANGED setting
    /\ UNCHANGED <<force, foreground, list, lines>>

fixed == <<force, foreground>>

(* fatal_error(): no file, no memory, no directory, ... *)
Fails(l) ==
    /\ pc = l
    /\ fatal_error("fatal")
    /\ pc' = "failed"
    /\ UNCHANGED <<fixed, setting, list, lines>>

(* read_config(), for a line "arg = val" *)
ReadLine(line) ==
    LET arg == line.arg  val == line.val
    IN
    /\ pc = "read" /\ Len(lines) < MaxLines
    /\ lines' = Append(lines, line)
    /\ \/ arg = "change" /\ read_change(val)
       \/ arg \in IntOption \ {"logtick", "ticker"} /\ read_int_func(arg, val)
       \/ /\ arg = "logtick" /\ UNCHANGED list /\ Say(val.s = "number")
          /\ LET n == IF val.s = "number" THEN val.i ELSE setting["logtick"]
             IN  setting' = [setting EXCEPT !["logtick"] = n, !["ticker"] = n]
       \/ arg \in StringOption /\ read_string_func(arg, val)
       \/ arg \in YesNoOption /\ read_enumerated_func(arg, val, Yes_No_list)
       \/ arg \in YNAutoOption /\ read_enumerated_func(arg, val, YN_Auto_list)
       \/ arg \in ListOption /\ read_list_func(arg, val)
    /\ UNCHANGED <<pc, fixed>>

(* ... and for the other lines: an unknown option, no "=", a comment *)
ReadOther ==
    /\ pc = "read"
    /\ UNCHANGED logVars \/ log_message("warning")
    /\ UNCHANGED <<pc, fixed, setting, list, lines>>

ReadEnd ==
    /\ pc = "read"
    /\ pc' = "tests" /\ lines' = << >>
    /\ UNCHANGED <<logVars, fixed, setting, list>>

(* add_test_binaries(): one file of the directory.  Only regular ones that are not
   hidden and that the owner may read and execute are added. *)
AddTestBinary ==
    /\ pc = "tests" /\ setting["test-directory"] # NULL /\ Len(list["test-binary"]) < MaxTests
    /\ \/ add_list("test-binary", Text("other"), 1) /\ UNCHANGED logVars
       \/ UNCHANGED list /\ (UNCHANGED logVars \/ log_message("warning"))
    /\ UNCHANGED <<pc, fixed, setting, lines>>

(* The interval; the limits that follow from max-load-1, in C's division. *)
Quotient(a, b) == IF a >= 0 THEN a \div b ELSE -((-a) \div b)

FaultyDerived(s) ==                     \* the division comes first
    LET m == s["max-load-1"]
    IN  [s EXCEPT !["max-load-5"]  = IF m # 0 /\ @ = 0 THEN Quotient(m, 4) * 3 ELSE @,
                  !["max-load-15"] = IF m # 0 /\ @ = 0 THEN Quotient(m, 2) ELSE @,
                  !["retry-timeout"] = IF s["softboot-option"] # 0 THEN 0 ELSE @]

Derived(s) ==
    LET m == s["max-load-1"]
        d == [m5 |-> Quotient(m * 3, 4), m15 |-> Quotient(m, 2)]
    IN  [s EXCEPT !["max-load-5"]  = IF m # 0 /\ @ = 0 THEN d.m5 ELSE @,
                  !["max-load-15"] = IF m # 0 /\ @ = 0 THEN d.m15 ELSE @,
                  !["retry-timeout"] = IF s["softboot-option"] # 0 THEN 0 ELSE @]

(* (The options force and foreground are chosen here, where they begin to count.) *)
ConfigDone ==
    /\ pc = "tests" /\ setting["interval"] > 0
    /\ setting' = Derived(setting)
    /\ pc' = "parameters" /\ force' \in BOOLEAN /\ foreground' \in BOOLEAN
    /\ UNCHANGED <<logVars, list, lines>>

BadInterval == setting["interval"] <= 0 /\ Fails("tests")

(* check_parameters() *)
BadParameters ==
    \/ setting["interval"] >= setting["watchdog-timeout"] - 1
    \/ setting["max-load-1"] > 0 /\ setting["max-load-1"] < MINLOAD

CheckParameters ==
    /\ pc = "parameters" /\ (force \/ ~BadParameters)
    /\ pc' = "logdir"
    /\ UNCHANGED <<logVars, fixed, setting, list, lines>>

(* Its messages, and the end. *)
RefuseParameters == ~force /\ BadParameters /\ Fails("parameters")

(* The log directory, open_netcheck(), memory for a file name *)
Prepare ==
    /\ pc = "logdir" /\ setting["log-dir"] # NULL
    /\ pc' = IF foreground THEN "pidfile" ELSE "daemon"
    /\ UNCHANGED <<logVars, fixed, setting, list, lines>>

FaultyDaemonise ==                      \* without MSG_TO_SYSLOG
    /\ pc = "daemon"
    /\ open_logging({})
    /\ pc' = "pidfile"
    /\ UNCHANGED <<fixed, setting, list, lines>>

(* wd_daemon() has no terminal any more. *)
Daemonise ==
    /\ pc = "daemon"
    /\ open_logging({"MSG_TO_SYSLOG"})
    /\ pc' = "pidfile"
    /\ UNCHANGED <<fixed, setting, list, lines>>

(* write_pid_file(), unless forced, and the messages of print_info() *)
StartDaemon ==
    /\ pc = "pidfile"
    /\ log_message("info")
    /\ pc' = "running"
    /\ UNCHANGED <<fixed, setting, list, lines>>

NoPidFile == ~force /\ Fails("pidfile")

(* The program as a user of LogMessage; see the calls in killall5(), terminate() and panic(). *)
Library == pc = "library" /\ LogNext /\ UNCHANGED <<pc, fixed, setting, list, lines>>

Next ==
    \/ Options \/ ReadOther \/ ReadEnd \/ AddTestBinary \/ ConfigDone \/ BadInterval
    \/ \E line \in Lines : ReadLine(line)
    \/ CheckParameters \/ RefuseParameters \/ Prepare \/ Daemonise \/ StartDaemon \/ NoPidFile
    \/ \E l \in {"read", "tests", "logdir", "daemon"} : Fails(l)
    \/ Library

Spec == Init /\ [][Next]_vars

-----------------------------------------------------------------------------
(* Properties. *)

(* Every variable has its type. *)
TypeOK ==
    /\ LogTypeOK
    /\ pc \in {"main", "usage", "read", "tests", "parameters", "logdir", "daemon", "pidfile",
               "running", "failed", "library"}
    /\ \A o \in IntOption : setting[o] \in Int
    /\ \A o \in YesNoOption \cup YNAutoOption : setting[o] \in 0 .. 2
    /\ \A o \in YesNoOption : setting[o] # 2
    /\ \A o \in StringOption : setting[o] \in Value
    /\ \A o \in ListOption : \A k \in 1 .. Len(list[o]) :
          list[o][k].name # NULL /\ list[o][k].version \in {0, 1} /\ list[o][k].mtime \in Int

(* The number of the last line that gives option o one of the values V; zero if none
   does. *)
LastLine(o, V) ==
    LET K == {k \in 1 .. Len(lines) : lines[k].arg = o /\ lines[k].val.s \in V}
    IN  IF K = {} THEN 0 ELSE CHOOSE k \in K : \A j \in K : j <= k

(* The lines that add to list o. *)
Adding(o) == {k \in 1 .. Len(lines) : lines[k].arg = o /\ lines[k].val # NULL}

(* read_config(): the meaning of a file, whatever the order of its lines.  The last
   number given to an option counts, and lines that are not numbers do not; a list has
   its entries in the order of the file; the change time of a file is given by the last
   "change" between its line and that of the next file ("always belongs to the active
   filename", watchdog.conf.5:101). *)
FileMeans ==
    pc = "read" =>
    /\ \A o \in IntOption \ {"ticker"} :
          LET k == LastLine(o, {"number"})
          IN  setting[o] = IF k = 0 THEN Default[o] ELSE lines[k].val.i
    /\ setting["ticker"] = setting["logtick"]
    /\ \A o \in ListOption :
          /\ Len(list[o]) = Cardinality(Adding(o))
          /\ \A k \in Adding(o) :
                LET e == list[o][Cardinality({j \in Adding(o) : j <= k})]
                    C == {j \in 1 .. Len(lines) : /\ j > k /\ lines[j].arg = "change" /\ o = "file"
                                                  /\ \A h \in Adding(o) : h <= k \/ j < h}
                IN  /\ e.name = lines[k].val
                    /\ e.mtime = IF C = {} THEN 0
                                 ELSE lines[CHOOSE j \in C : \A h \in C : h <= j].val.i

(* read_config() and check_parameters(): "Default value is 3/4*max-load-1" and "1/2"
   (watchdog.conf.5:39, 45).  When max-load-1 is on and --force is not given, C's
   division does not make zeros of the other two limits, which would switch them off.
   Not more than that: the manual asks for --force when max-load-5 or max-load-15 is
   below MINLOAD, too, but only max-load-1 is tested, and max-load-1 = 2 itself makes
   max-load-15 = 1. *)
LoadLimitsStand ==
    pc = "running" /\ ~force /\ setting["max-load-1"] > 0 =>
        setting["max-load-5"] # 0 /\ setting["max-load-15"] # 0

(* fatal_error(): a daemon that does not come up has said so, in the log or on the
   terminal, before or after it became a daemon. *)
FailureIsLoud == pc = "failed" => out.n = 1 \/ shown
=============================================================================
