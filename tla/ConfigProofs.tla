----------------------------- MODULE ConfigProofs -----------------------------
(***************************************************************************)
(* Theorems about the start-up and the logging, for any file.              *)
(***************************************************************************)
EXTENDS Config, FiniteSetTheorems, SequenceTheorems, WellFoundedInduction, TLAPS

Option  == IntOption \cup YesNoOption \cup YNAutoOption \cup StringOption
Element == [name : Value \ {NULL}, version : {0, 1}, mtime : Int]

(* The types, with the shape of the functions and sequences, and what the logging
   promises main(): it is open until fatal_error(), and never suspended. *)
SettingOK ==
    /\ setting = [o \in Option |-> setting[o]]
    /\ \A o \in IntOption : setting[o] \in Int
    /\ \A o \in YesNoOption : setting[o] \in {0, 1}
    /\ \A o \in YNAutoOption : setting[o] \in 0 .. 2
    /\ \A o \in StringOption : setting[o] \in Value

LogOpen ==
    /\ pc \notin {"main", "library", "failed"} => using_syslog /\ err_count = 0
    /\ pc # "library" => ~suspended

TypeInv ==
    /\ LogTypeOK
    /\ pc \in {"main", "usage", "read", "tests", "parameters", "logdir", "daemon", "pidfile",
               "running", "failed", "library"}
    /\ SettingOK
    /\ list \in [ListOption -> Seq(Element)]
    /\ lines \in Seq(Lines)
    /\ LogOpen

(* With syslog open, messages are counted only while it is suspended. *)
Counted ==
    using_syslog => IF suspended THEN /\ err_count = Len(held) + 1
                                      /\ held # << >> => err_buf = held[Len(held)]
                                 ELSE err_count = 0

(* What ConfigDone and CheckParameters have made sure of. *)
Configured ==
    pc \in {"parameters", "logdir", "daemon", "pidfile", "running"} =>
        /\ setting["interval"] > 0
        /\ setting["max-load-1"] >= MINLOAD =>
              setting["max-load-5"] # 0 /\ setting["max-load-15"] # 0
Checked == pc \in {"logdir", "daemon", "pidfile", "running"} /\ ~force => ~BadParameters
-----------------------------------------------------------------------------
(* The logging: the calls keep the types. *)

LEMMA Bound == MaxMessages \in Nat /\ 1 <= MaxMessages
<1>1. MaxMessages \in Nat \ {0}
  BY ConfigAssumption
<1> QED
  BY <1>1

LEMMA ReportType ==
    ASSUME NEW n \in 0 .. MaxMessages, NEW m \in Message \cup {""}
    PROVE  Report(n, m).n \in 0 .. MaxMessages /\ Report(n, m).last \in Message \cup {""}
BY DEF Report

LEMMA SilenceType == Silence.n \in 0 .. MaxMessages /\ Silence.last \in Message \cup {""}
BY Bound DEF Silence

LEMMA LogParts ==
    ASSUME LogTypeOK
    PROVE  /\ using_syslog \in BOOLEAN /\ using_terminal \in BOOLEAN
           /\ shown \in BOOLEAN /\ suspended \in BOOLEAN
           /\ err_count \in 0 .. MaxMessages /\ err_buf \in Message \cup {""}
           /\ out.n \in 0 .. MaxMessages /\ out.last \in Message \cup {""}
           /\ held \in Seq(Message)
BY DEF LogTypeOK

LEMMA CountType ==
    ASSUME LogTypeOK
    PROVE  err_count \in Nat /\ err_count <= MaxMessages /\ MaxMessages \in Nat /\ 1 <= MaxMessages
<1>1. err_count \in 0 .. MaxMessages
  BY LogParts
<1> QED
  BY <1>1, Bound

LEMMA OpenType ==
    ASSUME LogTypeOK, NEW flags, open_logging(flags)
    PROVE  LogTypeOK'
<1>1. using_terminal' \in BOOLEAN /\ using_syslog' \in BOOLEAN /\ shown' \in BOOLEAN
  <2>1. /\ using_terminal' = ("MSG_TO_STDERR" \in flags)
        /\ using_syslog' = ("MSG_TO_SYSLOG" \in flags) /\ shown' = FALSE
    BY DEF open_logging
  <2>2. using_terminal' \in BOOLEAN
    BY <2>1
  <2>3. using_syslog' \in BOOLEAN
    BY <2>1
  <2> QED
    BY <2>1, <2>2, <2>3
<1>2. UNCHANGED <<err_buf, suspended, held>> /\ err_count' = 0 /\ out' = Silence
  BY DEF open_logging
<1>3. err_count' \in 0 .. MaxMessages
  BY <1>2, Bound
<1> QED
  BY <1>1, <1>2, <1>3, SilenceType, LogParts DEF LogTypeOK

LEMMA MessageType ==
    ASSUME LogTypeOK, NEW m \in Message, log_message(m),
           (using_syslog /\ err_count = 0) \/ err_count < MaxMessages
    PROVE  LogTypeOK'
<1>1. using_terminal' \in BOOLEAN /\ shown' \in BOOLEAN
  BY DEF log_message
<1>2. UNCHANGED <<using_syslog, suspended>>
  BY DEF log_message
<1>3. held' \in Seq(Message)
  BY LogParts, AppendProperties DEF log_message
<1>4. /\ err_count' \in 0 .. MaxMessages /\ err_buf' \in Message \cup {""}
      /\ out'.n \in 0 .. MaxMessages /\ out'.last \in Message \cup {""}
  <2>1. CASE using_syslog /\ err_count = 0
    <3>1. out' = Report(1, m) /\ UNCHANGED <<err_count, err_buf>>
      BY <2>1 DEF log_message
    <3>2. 1 \in 0 .. MaxMessages
      BY Bound
    <3> QED
      BY <3>1, <3>2, ReportType, LogParts
  <2>2. CASE ~(using_syslog /\ err_count = 0)
    <3>1. out' = Silence /\ err_count' = err_count + 1 /\ err_buf' = m
      BY <2>2 DEF log_message
    <3>2. err_count' \in 0 .. MaxMessages
      BY <2>2, <3>1, CountType
    <3> QED
      BY <3>1, <3>2, SilenceType
  <2> QED
    BY <2>1, <2>2
<1> QED
  BY <1>1, <1>2, <1>3, <1>4, LogParts DEF LogTypeOK

LEMMA FatalType ==
    ASSUME LogTypeOK, NEW m \in Message, fatal_error(m)
    PROVE  LogTypeOK'
<1>1. using_terminal' \in BOOLEAN /\ shown' \in BOOLEAN /\ using_syslog' \in BOOLEAN
  BY DEF fatal_error
<1>2. UNCHANGED <<err_count, err_buf, suspended, held>>
  BY DEF fatal_error
<1>3. out' = Report(1, m) \/ out' = Silence
  BY DEF fatal_error
<1>4. 1 \in 0 .. MaxMessages
  BY Bound
<1>5. out'.n \in 0 .. MaxMessages /\ out'.last \in Message \cup {""}
  BY <1>3, <1>4, ReportType, SilenceType
<1> QED
  BY <1>1, <1>2, <1>5, LogParts DEF LogTypeOK

LEMMA LogNextType == ASSUME LogTypeOK, LogNext PROVE LogTypeOK'
<1>1. ASSUME NEW flags, open_logging(flags) PROVE LogTypeOK'
  BY <1>1, OpenType
<1>2. ASSUME NEW m \in Message, err_count < MaxMessages, log_message(m) PROVE LogTypeOK'
  BY <1>2, MessageType
<1>3. ASSUME close_logging PROVE LogTypeOK'
  <2>1. /\ using_syslog' = FALSE /\ out' = Silence /\ shown' = FALSE
        /\ UNCHANGED <<using_terminal, err_count, err_buf, suspended, held>>
    BY <1>3 DEF close_logging
  <2> QED
    BY <2>1, SilenceType, LogParts DEF LogTypeOK
<1>4. ASSUME suspend_logging PROVE LogTypeOK'
  <2>1. /\ suspended' = TRUE /\ out' = Silence /\ shown' = FALSE /\ held' = << >>
        /\ UNCHANGED <<using_syslog, using_terminal, err_buf>>
    BY <1>4 DEF suspend_logging
  <2>2. err_count' \in 0 .. MaxMessages
    BY <1>4, CountType DEF suspend_logging
  <2>3. held' \in Seq(Message)
    BY <2>1
  <2> QED
    BY <2>1, <2>2, <2>3, SilenceType, LogParts DEF LogTypeOK
<1>5. ASSUME resume_logging PROVE LogTypeOK'
  <2>1. /\ suspended' = FALSE /\ shown' = FALSE /\ held' = << >> /\ err_count' = 0
        /\ UNCHANGED <<using_syslog, using_terminal, err_buf>>
    BY <1>5 DEF resume_logging
  <2>2. err_count' \in 0 .. MaxMessages /\ held' \in Seq(Message)
    BY <2>1, Bound
  <2>3. out' = Silence \/ (err_count > 1 /\ out' = Report(err_count - 1, err_buf))
    BY <1>5 DEF resume_logging
  <2>4. err_count > 1 => err_count - 1 \in 0 .. MaxMessages
    BY CountType
  <2>5. out'.n \in 0 .. MaxMessages /\ out'.last \in Message \cup {""}
    BY <2>3, <2>4, SilenceType, ReportType, LogParts
  <2> QED
    BY <2>1, <2>2, <2>5, LogParts DEF LogTypeOK
<1> QED
  BY <1>1, <1>2, <1>3, <1>4, <1>5 DEF LogNext
-----------------------------------------------------------------------------
(* The settings *)

LEMMA Disjoint ==
    /\ \A o \in IntOption : o \notin YesNoOption /\ o \notin YNAutoOption /\ o \notin StringOption
    /\ \A o \in YesNoOption : o \notin YNAutoOption /\ o \notin StringOption
    /\ \A o \in YNAutoOption : o \notin StringOption
BY DEF IntOption, YesNoOption, YNAutoOption, StringOption

LEMMA Names ==
    /\ {"interval", "logtick", "ticker", "watchdog-timeout", "max-load-1", "max-load-5",
        "max-load-15", "retry-timeout"} \subseteq IntOption
    /\ "softboot-option" \in YesNoOption
    /\ {"log-dir", "test-directory"} \subseteq StringOption
    /\ {"file", "test-binary"} \subseteq ListOption
BY DEF IntOption, YesNoOption, StringOption, ListOption

LEMMA TextType == ASSUME NEW t \in Texts PROVE Text(t) \in Value
BY DEF Text, Value

LEMMA DefaultType ==
    /\ Default = [o \in Option |-> Default[o]]
    /\ \A o \in IntOption : Default[o] \in Int
    /\ \A o \in YesNoOption : Default[o] \in {0, 1}
    /\ \A o \in YNAutoOption : Default[o] \in 0 .. 2
    /\ \A o \in StringOption : Default[o] \in Value
<1>1. Default = [o \in Option |-> Default[o]]
  BY DEF Default, Option
<1>2. ASSUME NEW o \in IntOption PROVE Default[o] \in Int
  BY DEF Default, IntOption, YNAutoOption
<1>3. ASSUME NEW o \in YesNoOption PROVE Default[o] \in {0, 1}
  BY DEF Default, YesNoOption, YNAutoOption
<1>4. ASSUME NEW o \in YNAutoOption PROVE Default[o] \in 0 .. 2
  BY DEF Default, YNAutoOption
<1>5. ASSUME NEW o \in StringOption PROVE Default[o] \in Value
  <2>1. Default[o] \in {Text("default"), NULL}
    BY DEF Default, StringOption, YNAutoOption
  <2>2. "default" \in Texts /\ "" \in Texts
    BY DEF Texts
  <2> QED
    BY <2>1, <2>2, TextType DEF NULL
<1> QED
  BY <1>1, <1>2, <1>3, <1>4, <1>5

LEMMA SettingIsOK ==
    ASSUME NEW x, setting' = [o \in Option |-> x[o]],
           \A o \in IntOption : x[o] \in Int, \A o \in YesNoOption : x[o] \in {0, 1},
           \A o \in YNAutoOption : x[o] \in 0 .. 2, \A o \in StringOption : x[o] \in Value
    PROVE  SettingOK'
BY DEF SettingOK, Option

(* A value of the right type *)
LEMMA SettingUpdate ==
    ASSUME SettingOK, NEW arg \in Option, NEW v, setting' = [setting EXCEPT ![arg] = v],
           arg \in IntOption => v \in Int, arg \in YesNoOption => v \in {0, 1},
           arg \in YNAutoOption => v \in 0 .. 2, arg \in StringOption => v \in Value
    PROVE  SettingOK'
<1> DEFINE x == [o \in Option |-> IF o = arg THEN v ELSE setting[o]]
<1>1. setting = [o \in Option |-> setting[o]]
  BY DEF SettingOK
<1>2. setting' = x
  BY <1>1
<1>3. \A o \in Option : x[o] = IF o = arg THEN v ELSE setting[o]
  OBVIOUS
<1>4. setting' = [o \in Option |-> x[o]]
  BY <1>2
<1> HIDE DEF x
<1> QED
  BY <1>3, <1>4, SettingIsOK DEF SettingOK, Option
LEMMA QuotientProperties ==
    ASSUME NEW a \in Int, NEW b \in Nat \ {0}
    PROVE  /\ Quotient(a, b) \in Int
           /\ a >= b => Quotient(a, b) # 0
BY DEF Quotient

(* What ConfigDone makes of the settings *)
LEMMA DerivedProperties ==
    ASSUME SettingOK, setting' = Derived(setting)
    PROVE  /\ SettingOK'
           /\ \A o \in {"interval", "watchdog-timeout", "max-load-1"} : setting'[o] = setting[o]
           /\ setting["max-load-1"] >= MINLOAD =>
                 setting'["max-load-5"] # 0 /\ setting'["max-load-15"] # 0
<1> DEFINE m   == setting["max-load-1"]
           m5  == IF m # 0 /\ setting["max-load-5"] = 0 THEN Quotient(m * 3, 4)
                  ELSE setting["max-load-5"]
           m15 == IF m # 0 /\ setting["max-load-15"] = 0 THEN Quotient(m, 2)
                  ELSE setting["max-load-15"]
           rt  == IF setting["softboot-option"] # 0 THEN 0 ELSE setting["retry-timeout"]
           x   == [o \in Option |-> IF o = "max-load-5" THEN m5
                                    ELSE IF o = "max-load-15" THEN m15
                                    ELSE IF o = "retry-timeout" THEN rt ELSE setting[o]]
<1>1. setting = [o \in Option |-> setting[o]]
  BY DEF SettingOK
<1>2. {"max-load-1", "max-load-5", "max-load-15", "retry-timeout", "interval", "watchdog-timeout"}
         \subseteq IntOption
  BY Names
<1>3. {"max-load-1", "max-load-5", "max-load-15", "retry-timeout", "interval", "watchdog-timeout"}
         \subseteq Option
  BY <1>2 DEF Option
<1>4. setting' = x
  BY <1>1, <1>3 DEF Derived
<1>5. m \in Int /\ setting["max-load-5"] \in Int /\ setting["max-load-15"] \in Int
      /\ setting["retry-timeout"] \in Int
  BY <1>2 DEF SettingOK
<1>6. m5 \in Int /\ (m >= 2 => m5 # 0)
  <2>1. m * 3 \in Int /\ (m >= 2 => m * 3 >= 4)
    BY <1>5
  <2>2. Quotient(m * 3, 4) \in Int /\ (m * 3 >= 4 => Quotient(m * 3, 4) # 0)
    BY <2>1, QuotientProperties
  <2> QED
    BY <1>5, <2>1, <2>2
<1>7. m15 \in Int /\ (m >= 2 => m15 # 0)
  <2>1. Quotient(m, 2) \in Int /\ (m >= 2 => Quotient(m, 2) # 0)
    BY <1>5, QuotientProperties
  <2> QED
    BY <1>5, <2>1
<1>8. rt \in Int
  BY <1>5
<1> HIDE DEF m5, m15, rt
<1>9. /\ x["max-load-5"] = m5 /\ x["max-load-15"] = m15 /\ x["retry-timeout"] = rt
      /\ \A o \in Option : o \notin {"max-load-5", "max-load-15", "retry-timeout"} => x[o] = setting[o]
  BY <1>3
<1>10. SettingOK'
  <2>1. setting' = [o \in Option |-> x[o]]
    BY <1>4
  <2> HIDE DEF x
  <2>2. \A o \in IntOption : x[o] \in Int
    BY <1>6, <1>7, <1>8, <1>9 DEF SettingOK, Option
  <2>3. \A o \in Option \ IntOption : x[o] = setting[o]
    BY <1>2, <1>9
  <2> QED
    BY <2>1, <2>2, <2>3, Disjoint, SettingIsOK DEF SettingOK, Option
<1> HIDE DEF x
<1> QED
  BY <1>3, <1>4, <1>6, <1>7, <1>9, <1>10 DEF MINLOAD

-----------------------------------------------------------------------------
(* read-conf.c *)

LEMMA SayProperties ==
    ASSUME LogTypeOK, using_syslog, err_count = 0, ~suspended, NEW ok, Say(ok)
    PROVE  LogTypeOK' /\ UNCHANGED <<using_syslog, err_count, suspended>>
<1>1. CASE UNCHANGED logVars
  BY <1>1 DEF logVars, LogTypeOK
<1>2. CASE log_message("warning")
  <2>1. "warning" \in Message
    BY ConfigAssumption
  <2> QED
    BY <1>2, <2>1, MessageType DEF log_message
<1> QED
  BY <1>1, <1>2 DEF Say

LEMMA EntryType ==
    ASSUME NEW v \in Value, v # NULL, NEW n \in {0, 1}
    PROVE  Entry(v, n) \in Element
BY DEF Entry, Element

LEMMA AddType ==
    ASSUME list \in [ListOption -> Seq(Element)], NEW o \in ListOption,
           NEW v \in Value, v # NULL, NEW n \in {0, 1}, add_list(o, v, n)
    PROVE  list' \in [ListOption -> Seq(Element)]
<1>1. Append(list[o], Entry(v, n)) \in Seq(Element)
  BY EntryType, AppendProperties
<1> QED
  BY <1>1 DEF add_list

LEMMA ChangeType ==
    ASSUME list \in [ListOption -> Seq(Element)], Len(list["file"]) # 0, NEW i \in Int,
           list' = [list EXCEPT !["file"][Len(list["file"])].mtime = i]
    PROVE  list' \in [ListOption -> Seq(Element)]
<1>1. PICK s \in Seq(Element) : s = list["file"]
  BY Names
<1>2. Len(s) \in 1 .. Len(s)
  BY <1>1, LenProperties
<1>3. PICK e \in Element : e = s[Len(s)]
  BY <1>2, ElementOfSeq
<1>4. [e EXCEPT !.mtime = i] \in Element
  BY DEF Element
<1>5. [s EXCEPT ![Len(s)] = [e EXCEPT !.mtime = i]] \in Seq(Element)
  BY <1>2, <1>4, ExceptSeq
<1>6. list' = [list EXCEPT !["file"] = [s EXCEPT ![Len(s)] = [e EXCEPT !.mtime = i]]]
  BY <1>1, <1>3
<1> QED
  BY <1>5, <1>6
(* The value of a line, and what it can be *)
LEMMA LineValue ==
    ASSUME NEW line \in Lines
    PROVE  line.val \in Value /\ line.val.i \in Int /\ (line.val.s # "number" => line.val.i = 0)
BY LinesAssumption DEF Value

(* The cases of ReadLine *)
LEMMA LineCases ==
    ASSUME NEW line \in Lines, ReadLine(line)
    PROVE  /\ pc = "read" /\ UNCHANGED <<pc, force, foreground>> /\ lines' = Append(lines, line)
           /\ \/ line.arg = "change" /\ read_change(line.val)
              \/ line.arg \in IntOption \ {"logtick", "ticker"} /\ read_int_func(line.arg, line.val)
              \/ /\ line.arg = "logtick" /\ UNCHANGED list /\ Say(line.val.s = "number")
                 /\ \E n : /\ n = IF line.val.s = "number" THEN line.val.i ELSE setting["logtick"]
                           /\ setting' = [setting EXCEPT !["logtick"] = n, !["ticker"] = n]
              \/ line.arg \in StringOption /\ read_string_func(line.arg, line.val)
              \/ line.arg \in YesNoOption /\ read_enumerated_func(line.arg, line.val, Yes_No_list)
              \/ line.arg \in YNAutoOption /\ read_enumerated_func(line.arg, line.val, YN_Auto_list)
              \/ line.arg \in ListOption /\ read_list_func(line.arg, line.val)
BY DEF ReadLine, fixed

LEMMA ReadLineType ==
    ASSUME TypeInv, NEW line \in Lines, ReadLine(line)
    PROVE  TypeInv'
<1> DEFINE arg == line.arg
           val == line.val
           Rest == /\ SettingOK' /\ list' \in [ListOption -> Seq(Element)] /\ LogTypeOK'
                   /\ UNCHANGED <<using_syslog, err_count, suspended>>
<1>1. pc = "read" /\ UNCHANGED <<pc, force, foreground>> /\ lines' = Append(lines, line)
  BY LineCases
<1>2. val \in Value /\ val.i \in Int
  BY LineValue
<1>3. LogTypeOK /\ using_syslog /\ err_count = 0 /\ ~suspended /\ SettingOK
      /\ list \in [ListOption -> Seq(Element)]
  BY <1>1 DEF TypeInv, LogOpen
<1>u. ASSUME UNCHANGED setting PROVE SettingOK'
  BY <1>3, <1>u DEF SettingOK
<1>l. ASSUME UNCHANGED logVars PROVE LogTypeOK' /\ UNCHANGED <<using_syslog, err_count, suspended>>
  BY <1>3, <1>l DEF LogTypeOK, logVars
<1>s. ASSUME NEW ok, Say(ok) PROVE LogTypeOK' /\ UNCHANGED <<using_syslog, err_count, suspended>>
  BY <1>3, <1>s, SayProperties
<1>q. Rest => TypeInv'
  <2>1. lines' \in Seq(Lines)
    BY <1>1, AppendProperties DEF TypeInv
  <2> QED
    BY <1>1, <1>3, <2>1 DEF TypeInv, LogOpen
<1> SUFFICES Rest
  BY <1>q
<1>4. CASE arg = "change" /\ read_change(val)
  <2>1. SettingOK'
    BY <1>4, <1>u DEF read_change
  <2>2. LogTypeOK' /\ UNCHANGED <<using_syslog, err_count, suspended>>
    BY <1>4, <1>s DEF read_change
  <2>3. CASE Len(list["file"]) = 0
    BY <1>3, <1>4, <2>1, <2>2, <2>3 DEF read_change
  <2>4. CASE Len(list["file"]) # 0
    <3>1. PICK i : i = IF val.s = "number" THEN val.i ELSE 0
      OBVIOUS
    <3>2. i \in Int
      BY <1>2, <3>1
    <3>3. list' = [list EXCEPT !["file"][Len(list["file"])].mtime = i]
      BY <1>4, <2>4, <3>1 DEF read_change
    <3>4. list' \in [ListOption -> Seq(Element)]
      BY <1>3, <2>4, <3>2, <3>3, ChangeType
    <3> QED
      BY <2>1, <2>2, <3>4
  <2> QED
    BY <2>3, <2>4
<1>5. CASE arg \in IntOption \ {"logtick", "ticker"} /\ read_int_func(arg, val)
  <2>1. SettingOK'
    <3>1. CASE UNCHANGED setting
      BY <1>u, <3>1
    <3>2. CASE setting' = [setting EXCEPT ![arg] = val.i]
      BY <1>2, <1>3, <1>5, <3>2, Disjoint, SettingUpdate DEF Option
    <3> QED
      BY <1>5, <3>1, <3>2 DEF read_int_func
  <2> QED
    BY <1>3, <1>5, <1>s, <2>1 DEF read_int_func
<1>6. CASE /\ arg = "logtick" /\ UNCHANGED list /\ Say(val.s = "number")
           /\ \E n : /\ n = IF val.s = "number" THEN val.i ELSE setting["logtick"]
                     /\ setting' = [setting EXCEPT !["logtick"] = n, !["ticker"] = n]
  <2>1. PICK n : /\ n = IF val.s = "number" THEN val.i ELSE setting["logtick"]
                 /\ setting' = [setting EXCEPT !["logtick"] = n, !["ticker"] = n]
    BY <1>6
  <2>2. n \in Int
    BY <1>2, <1>3, <2>1, Names DEF SettingOK
  <2> DEFINE x == [o \in Option |-> IF o \in {"logtick", "ticker"} THEN n ELSE setting[o]]
  <2>3. setting = [o \in Option |-> setting[o]] /\ "logtick" \in Option /\ "ticker" \in Option
    BY <1>3, Names DEF SettingOK, Option
  <2>4. setting' = x
    BY <2>1, <2>3
  <2>5. \A o \in Option : x[o] = IF o \in {"logtick", "ticker"} THEN n ELSE setting[o]
    OBVIOUS
  <2>6. setting' = [o \in Option |-> x[o]]
    BY <2>4
  <2> HIDE DEF x
  <2>7. SettingOK'
    BY <1>3, <2>2, <2>5, <2>6, Names, Disjoint, SettingIsOK DEF SettingOK, Option
  <2> QED
    BY <1>3, <1>6, <1>s, <2>7
<1>7. CASE arg \in StringOption /\ read_string_func(arg, val)
  <2>1. setting' = [setting EXCEPT ![arg] = val] /\ UNCHANGED <<list, logVars>>
    BY <1>7 DEF read_string_func
  <2>2. SettingOK'
    BY <1>2, <1>3, <1>7, <2>1, Disjoint, SettingUpdate DEF Option
  <2> QED
    BY <1>3, <1>l, <2>1, <2>2
<1>8. CASE \/ arg \in YesNoOption /\ read_enumerated_func(arg, val, Yes_No_list)
           \/ arg \in YNAutoOption /\ read_enumerated_func(arg, val, YN_Auto_list)
  <2>1. UNCHANGED <<list, logVars>>
    BY <1>8 DEF read_enumerated_func
  <2>2. PICK n : /\ UNCHANGED setting \/ setting' = [setting EXCEPT ![arg] = n]
                 /\ \/ arg \in YesNoOption /\ n \in {0, 1}
                    \/ arg \in YNAutoOption /\ n \in 0 .. 2
    <3>1. CASE arg \in YesNoOption /\ read_enumerated_func(arg, val, Yes_No_list)
      <4>1. CASE val.s \in DOMAIN Yes_No_list
        <5>1. setting' = [setting EXCEPT ![arg] = Yes_No_list[val.s]]
          BY <3>1, <4>1 DEF read_enumerated_func
        <5>2. Yes_No_list[val.s] \in {0, 1}
          BY <4>1 DEF Yes_No_list
        <5> QED
          BY <3>1, <5>1, <5>2
      <4>2. CASE val.s \notin DOMAIN Yes_No_list
        BY <3>1, <4>2 DEF read_enumerated_func
      <4> QED
        BY <4>1, <4>2
    <3>2. CASE arg \in YNAutoOption /\ read_enumerated_func(arg, val, YN_Auto_list)
      <4>1. CASE val.s \in DOMAIN YN_Auto_list
        <5>1. setting' = [setting EXCEPT ![arg] = YN_Auto_list[val.s]]
          BY <3>2, <4>1 DEF read_enumerated_func
        <5>2. YN_Auto_list[val.s] \in 0 .. 2
          BY <4>1 DEF YN_Auto_list
        <5> QED
          BY <3>2, <5>1, <5>2
      <4>2. CASE val.s \notin DOMAIN YN_Auto_list
        BY <3>2, <4>2 DEF read_enumerated_func
      <4> QED
        BY <4>1, <4>2
    <3> QED
      BY <1>8, <3>1, <3>2
  <2>3. SettingOK'
    <3>1. CASE UNCHANGED setting
      BY <1>u, <3>1
    <3>2. CASE setting' = [setting EXCEPT ![arg] = n]
      BY <1>3, <2>2, <3>2, Disjoint, SettingUpdate DEF Option
    <3> QED
      BY <2>2, <3>1, <3>2
  <2> QED
    BY <1>3, <1>l, <2>1, <2>3
<1>9. CASE arg \in ListOption /\ read_list_func(arg, val)
  <2>1. UNCHANGED setting /\ Say(val # NULL)
    BY <1>9 DEF read_list_func
  <2>2. list' \in [ListOption -> Seq(Element)]
    <3>1. CASE val = NULL
      BY <1>3, <1>9, <3>1 DEF read_list_func
    <3>2. CASE val # NULL
      BY <1>2, <1>3, <1>9, <3>2, AddType DEF read_list_func
    <3> QED
      BY <3>1, <3>2
  <2> QED
    BY <1>s, <1>u, <2>1, <2>2
<1> QED
  BY <1>4, <1>5, <1>6, <1>7, <1>8, <1>9, LineCases
-----------------------------------------------------------------------------
(* The steps of main() *)

LEMMA Fatal == "fatal" \in Message /\ "warning" \in Message /\ "info" \in Message
BY ConfigAssumption

LEMMA TypeInit == Init => TypeInv
<1> SUFFICES ASSUME Init PROVE TypeInv
  OBVIOUS
<1>1. LogTypeOK
  <2>1. /\ using_syslog = FALSE /\ using_terminal = FALSE /\ err_count = 0 /\ err_buf = ""
        /\ out = Silence /\ shown = FALSE /\ suspended = FALSE /\ held = << >>
    BY DEF Init, LogInit
  <2>2. err_count \in 0 .. MaxMessages
    <3>1. err_count = 0
      BY <2>1
    <3> QED
      BY <3>1, Bound
  <2>3. held \in Seq(Message)
    <3>1. held = << >>
      BY <2>1
    <3> QED
      BY <3>1
  <2> QED
    BY <2>1, <2>2, <2>3, SilenceType DEF LogTypeOK
<1>2. SettingOK
  BY DefaultType DEF Init, SettingOK
<1>3. list \in [ListOption -> Seq(Element)] /\ lines \in Seq(Lines)
  BY DEF Init
<1>4. LogOpen
  BY DEF Init, LogInit, LogOpen
<1> QED
  BY <1>1, <1>2, <1>3, <1>4 DEF Init, TypeInv

LEMMA FailsType ==
    ASSUME TypeInv, NEW l, l # "library", Fails(l)
    PROVE  TypeInv'
<1>1. fatal_error("fatal") /\ pc' = "failed" /\ pc = l /\ UNCHANGED <<setting, list, lines>>
  BY DEF Fails
<1>2. LogTypeOK'
  BY <1>1, Fatal, FatalType DEF TypeInv
<1>3. ~suspended'
  BY <1>1 DEF TypeInv, LogOpen, fatal_error
<1>4. SettingOK'
  BY <1>1 DEF TypeInv, SettingOK
<1> QED
  BY <1>1, <1>2, <1>3, <1>4 DEF TypeInv, LogOpen

LEMMA TypeStep == TypeInv /\ [Next]_vars => TypeInv'
<1> SUFFICES ASSUME TypeInv, [Next]_vars PROVE TypeInv'
  OBVIOUS
<1>a. /\ LogTypeOK /\ SettingOK /\ list \in [ListOption -> Seq(Element)] /\ lines \in Seq(Lines)
      /\ LogOpen
  BY DEF TypeInv
<1>u. ASSUME UNCHANGED setting PROVE SettingOK'
  BY <1>a, <1>u DEF SettingOK
<1>l. ASSUME UNCHANGED logVars
      PROVE  LogTypeOK' /\ UNCHANGED <<using_syslog, err_count, suspended>>
  BY <1>a, <1>l DEF LogTypeOK, logVars
<1>m. ASSUME NEW m \in Message, log_message(m), using_syslog, err_count = 0
      PROVE  LogTypeOK' /\ UNCHANGED <<using_syslog, err_count, suspended>>
  BY <1>a, <1>m, MessageType DEF log_message
<1>1. CASE Options
  <2>1. open_logging({"MSG_TO_STDERR", "MSG_TO_SYSLOG"}) /\ pc = "main" /\ pc' \in {"read", "usage"}
        /\ UNCHANGED <<list, lines>>
    BY <1>1 DEF Options
  <2>2. LogTypeOK' /\ using_syslog' /\ err_count' = 0 /\ ~suspended'
    BY <1>a, <2>1, OpenType DEF open_logging, LogOpen
  <2>3. SettingOK'
    <3>1. CASE UNCHANGED setting
      BY <1>u, <3>1
    <3>2. CASE \E b \in {0, 1} : setting' = [setting EXCEPT !["softboot-option"] = b]
      <4>1. PICK b \in {0, 1} : setting' = [setting EXCEPT !["softboot-option"] = b]
        BY <3>2
      <4>2. "softboot-option" \in YesNoOption /\ "softboot-option" \in Option
        BY Names DEF Option
      <4> QED
        BY <1>a, <4>1, <4>2, Disjoint, SettingUpdate
    <3> QED
      BY <1>1, <3>1, <3>2 DEF Options
  <2> QED
    BY <1>a, <2>1, <2>2, <2>3 DEF TypeInv, LogOpen
<1>2. CASE ReadOther
  <2>1. LogTypeOK' /\ UNCHANGED <<using_syslog, err_count, suspended>>
    BY <1>2, <1>a, <1>l, <1>m, Fatal DEF ReadOther, LogOpen
  <2>2. UNCHANGED <<pc, setting, list, lines>>
    BY <1>2 DEF ReadOther
  <2> QED
    BY <1>a, <1>u, <2>1, <2>2 DEF TypeInv, LogOpen
<1>3. CASE ReadEnd
  <2>1. pc = "read" /\ pc' = "tests" /\ lines' = << >> /\ UNCHANGED <<logVars, setting, list>>
    BY <1>3 DEF ReadEnd
  <2>2. lines' \in Seq(Lines)
    BY <2>1
  <2> QED
    BY <1>a, <1>u, <1>l, <2>1, <2>2 DEF TypeInv, LogOpen
<1>4. CASE AddTestBinary
  <2>1. pc = "tests" /\ UNCHANGED <<pc, setting, lines>>
    BY <1>4 DEF AddTestBinary
  <2>2. LogTypeOK' /\ UNCHANGED <<using_syslog, err_count, suspended>>
    BY <1>4, <1>a, <1>l, <1>m, <2>1, Fatal DEF AddTestBinary, LogOpen
  <2>3. list' \in [ListOption -> Seq(Element)]
    <3>1. CASE UNCHANGED list
      BY <1>a, <3>1
    <3>2. CASE add_list("test-binary", Text("other"), 1)
      <4>1. Text("other") \in Value /\ Text("other") # NULL
        BY TextType DEF Texts, Text, NULL
      <4> QED
        BY <1>a, <3>2, <4>1, Names, AddType
    <3> QED
      BY <1>4, <3>1, <3>2 DEF AddTestBinary
  <2> QED
    BY <1>a, <1>u, <2>1, <2>2, <2>3 DEF TypeInv, LogOpen
<1>5. CASE ConfigDone
  <2>1. setting' = Derived(setting) /\ pc = "tests" /\ pc' = "parameters"
        /\ UNCHANGED <<logVars, list, lines>>
    BY <1>5 DEF ConfigDone
  <2>2. SettingOK'
    BY <1>a, <2>1, DerivedProperties
  <2> QED
    BY <1>a, <1>l, <2>1, <2>2 DEF TypeInv, LogOpen
<1>6. CASE CheckParameters \/ Prepare
  <2>1. /\ pc \in {"parameters", "logdir"} /\ pc' \in {"logdir", "pidfile", "daemon"}
        /\ UNCHANGED <<logVars, setting, list, lines>>
    BY <1>6 DEF CheckParameters, Prepare
  <2> QED
    BY <1>a, <1>u, <1>l, <2>1 DEF TypeInv, LogOpen
<1>7. CASE Daemonise
  <2>1. open_logging({"MSG_TO_SYSLOG"}) /\ pc = "daemon" /\ pc' = "pidfile"
        /\ UNCHANGED <<setting, list, lines>>
    BY <1>7 DEF Daemonise
  <2>2. LogTypeOK' /\ using_syslog' /\ err_count' = 0 /\ ~suspended'
    BY <1>a, <2>1, OpenType DEF open_logging, LogOpen
  <2> QED
    BY <1>a, <1>u, <2>1, <2>2 DEF TypeInv, LogOpen
<1>8. CASE StartDaemon
  <2>1. log_message("info") /\ pc = "pidfile" /\ pc' = "running" /\ UNCHANGED <<setting, list, lines>>
    BY <1>8 DEF StartDaemon
  <2>2. LogTypeOK' /\ UNCHANGED <<using_syslog, err_count, suspended>>
    BY <1>a, <1>m, <2>1, Fatal DEF LogOpen
  <2> QED
    BY <1>a, <1>u, <2>1, <2>2 DEF TypeInv, LogOpen
<1>9. CASE Library
  <2>1. pc = "library" /\ LogNext /\ UNCHANGED <<pc, setting, list, lines>>
    BY <1>9 DEF Library
  <2> QED
    BY <1>a, <1>u, <2>1, LogNextType DEF TypeInv, LogOpen
<1>10. CASE UNCHANGED vars
  BY <1>10, <1>a, <1>u, <1>l DEF TypeInv, vars, LogOpen
<1> QED
  BY <1>1, <1>2, <1>3, <1>4, <1>5, <1>6, <1>7, <1>8, <1>9, <1>10, FailsType, ReadLineType
     DEF Next, BadInterval, RefuseParameters, NoPidFile

(* main() and LogMessage: the options keep their types, whatever lines the file has. *)
THEOREM TypeCorrect == Spec => []TypeOK
<1>1. TypeInv => TypeOK
  <2> SUFFICES ASSUME TypeInv PROVE TypeOK
    OBVIOUS
  <2>1. /\ \A o \in YesNoOption \cup YNAutoOption : setting[o] \in 0 .. 2
        /\ \A o \in YesNoOption : setting[o] # 2
    <3>1. ASSUME NEW o \in YesNoOption PROVE setting[o] \in 0 .. 2 /\ setting[o] # 2
      <4>1. setting[o] \in {0, 1}
        BY DEF TypeInv, SettingOK
      <4> QED
        BY <4>1
    <3>2. ASSUME NEW o \in YNAutoOption PROVE setting[o] \in 0 .. 2
      BY DEF TypeInv, SettingOK
    <3> QED
      BY <3>1, <3>2
  <2>2. ASSUME NEW o \in ListOption, NEW k \in 1 .. Len(list[o])
        PROVE  list[o][k].name # NULL /\ list[o][k].version \in {0, 1} /\ list[o][k].mtime \in Int
    <3>1. list[o][k] \in Element
      BY ElementOfSeq DEF TypeInv
    <3> QED
      BY <3>1 DEF Element
  <2> QED
    BY <2>1, <2>2 DEF TypeInv, TypeOK, SettingOK
<1> QED
  BY <1>1, TypeInit, TypeStep, PTL DEF Spec
-----------------------------------------------------------------------------
(* A failure is loud. *)

(* fatal_error(), wherever main() calls it and whatever the file holds: what goes wrong
   before the daemon is up has been said in the log or on the terminal. *)
THEOREM FailuresAreLoud == Spec => []FailureIsLoud
<1>1. Init => FailureIsLoud
  BY DEF Init, FailureIsLoud
<1>2. TypeInv /\ FailureIsLoud /\ [Next]_vars => FailureIsLoud'
  <2> SUFFICES ASSUME TypeInv, FailureIsLoud, [Next]_vars, pc' = "failed"
               PROVE  out'.n = 1 \/ shown'
    BY DEF FailureIsLoud
  <2>1. ASSUME NEW l \in {"read", "tests", "parameters", "logdir", "daemon", "pidfile"}, Fails(l)
        PROVE  out'.n = 1
    <3>1. using_syslog /\ err_count = 0
      BY <2>1 DEF Fails, TypeInv, LogOpen
    <3>2. out' = Report(1, "fatal")
      BY <2>1, <3>1 DEF Fails, fatal_error
    <3> QED
      BY <3>2 DEF Report
  <2>2. ASSUME pc = "failed" PROVE UNCHANGED <<out, shown>>
    <3>1. ~Next
      BY <2>2 DEF Next, Options, ReadOther, ReadEnd, AddTestBinary, ConfigDone, BadInterval,
         ReadLine, CheckParameters, RefuseParameters, Prepare, Daemonise, StartDaemon,
         NoPidFile, Fails, Library
    <3> QED
      BY <3>1 DEF vars, logVars
  <2>3. \/ pc = "failed"
        \/ \E l \in {"read", "tests", "parameters", "logdir", "daemon", "pidfile"} : Fails(l)
    BY DEF Next, Options, ReadOther, ReadEnd, AddTestBinary, ConfigDone, BadInterval, ReadLine,
       Library, CheckParameters, RefuseParameters, Prepare, Daemonise, StartDaemon, NoPidFile,
       vars
  <2> QED
    BY <2>1, <2>2, <2>3 DEF FailureIsLoud
<1> QED
  BY <1>1, <1>2, TypeInit, TypeStep, PTL DEF Spec

-----------------------------------------------------------------------------
(* The parameters of a daemon that runs *)

LEMMA IntSettings ==
    ASSUME TypeInv
    PROVE  /\ setting["interval"] \in Int /\ setting["watchdog-timeout"] \in Int
           /\ setting["max-load-1"] \in Int /\ setting["max-load-5"] \in Int
           /\ setting["max-load-15"] \in Int
BY Names DEF TypeInv, SettingOK

LEMMA ParametersStep ==
    TypeInv /\ Configured /\ Checked /\ [Next]_vars => (Configured /\ Checked)'
<1> SUFFICES ASSUME TypeInv, Configured, Checked, [Next]_vars PROVE (Configured /\ Checked)'
  OBVIOUS
<1> DEFINE Late == {"parameters", "logdir", "daemon", "pidfile", "running"}
<1>1. CASE ConfigDone
  <2>1. pc' = "parameters" /\ setting' = Derived(setting) /\ setting["interval"] > 0
    BY <1>1 DEF ConfigDone
  <2>2. /\ setting'["interval"] = setting["interval"] /\ setting'["max-load-1"] = setting["max-load-1"]
        /\ setting["max-load-1"] >= MINLOAD =>
              setting'["max-load-5"] # 0 /\ setting'["max-load-15"] # 0
    BY <2>1, DerivedProperties DEF TypeInv
  <2> QED
    BY <2>1, <2>2 DEF Configured, Checked
<1>2. CASE CheckParameters
  <2>1. /\ pc = "parameters" /\ pc' = "logdir" /\ (force \/ ~BadParameters)
        /\ UNCHANGED <<force, setting>>
    BY <1>2 DEF CheckParameters, fixed
  <2>2. BadParameters' <=> BadParameters
    BY <2>1 DEF BadParameters
  <2>3. Configured'
    BY <2>1 DEF Configured
  <2> QED
    BY <2>1, <2>2, <2>3 DEF Checked
<1>3. CASE /\ UNCHANGED <<force, setting>>
           /\ pc' = pc \/ pc' \notin Late \/ pc \in Late \ {"parameters"}
  <2>1. BadParameters' <=> BadParameters
    BY <1>3 DEF BadParameters
  <2>2. Configured'
    BY <1>3 DEF Configured
  <2>3. Checked'
    BY <1>3, <2>1 DEF Checked
  <2> QED
    BY <2>2, <2>3
<1>4. CASE pc' \notin Late
  BY <1>4 DEF Configured, Checked
<1> QED
  BY <1>1, <1>2, <1>3, <1>4 DEF Next, Options, ReadOther, ReadEnd, AddTestBinary, BadInterval,
     ReadLine, RefuseParameters, Prepare, Daemonise, StartDaemon, NoPidFile, Fails, Library,
     fixed, vars

(* read_config() and check_parameters(): whatever the file says, and for every value of
   max-load-1, a daemon that runs without --force with max-load-1 on has not lost its
   other two limits by the division. *)
THEOREM LimitsStand == Spec => []LoadLimitsStand
<1>1. Init => Configured /\ Checked
  BY DEF Init, Configured, Checked
<1>2. TypeInv /\ Configured /\ Checked => LoadLimitsStand
  <2> SUFFICES ASSUME TypeInv, Configured, Checked, pc = "running", ~force,
                      setting["max-load-1"] > 0
               PROVE  setting["max-load-5"] # 0 /\ setting["max-load-15"] # 0
    BY DEF LoadLimitsStand
  <2>1. ~BadParameters
    BY DEF Checked
  <2>2. setting["max-load-1"] >= MINLOAD
    BY <2>1, IntSettings DEF BadParameters, MINLOAD
  <2> QED
    BY <2>2 DEF Configured
<1> QED
  BY <1>1, <1>2, TypeInit, TypeStep, ParametersStep, PTL DEF Spec

-----------------------------------------------------------------------------
(* What is said while syslog is suspended *)

LEMMA HeldLength == ASSUME TypeInv PROVE held \in Seq(Message) /\ Len(held) \in Nat
BY LogParts, LenProperties DEF TypeInv

LEMMA CountedStep == TypeInv /\ Counted /\ [Next]_vars => Counted'
<1> SUFFICES ASSUME TypeInv, Counted, [Next]_vars PROVE Counted'
  OBVIOUS
<1>1. CASE pc' \notin {"main", "library", "failed"}
  <2>1. TypeInv'
    BY TypeStep
  <2>2. err_count' = 0 /\ ~suspended'
    BY <1>1, <2>1 DEF TypeInv, LogOpen
  <2> QED
    BY <2>2 DEF Counted
<1>2. CASE UNCHANGED logVars
  BY <1>2 DEF Counted, logVars
<1>3. CASE \E l \in {"read", "tests", "parameters", "logdir", "daemon", "pidfile"} : Fails(l)
  <2>1. using_syslog' = FALSE
    BY <1>3 DEF Fails, fatal_error
  <2> QED
    BY <2>1 DEF Counted
<1>4. CASE LogNext
  <2>1. CASE \E flags : ~suspended /\ open_logging(flags)
    <3>1. err_count' = 0 /\ ~suspended'
      BY <2>1 DEF open_logging
    <3> QED
      BY <3>1 DEF Counted
  <2>2. CASE close_logging
    <3>1. using_syslog' = FALSE
      BY <2>2 DEF close_logging
    <3> QED
      BY <3>1 DEF Counted
  <2>3. CASE ~suspended /\ suspend_logging
    <3> SUFFICES ASSUME using_syslog' PROVE suspended' /\ err_count' = 1 /\ held' = << >>
      BY DEF Counted
    <3>1. using_syslog /\ suspended' /\ held' = << >>
      BY <2>3 DEF suspend_logging
    <3>2. err_count = 0
      BY <2>3, <3>1 DEF Counted
    <3> QED
      BY <2>3, <3>1, <3>2 DEF suspend_logging
  <2>4. CASE resume_logging
    <3>1. err_count' = 0 /\ ~suspended'
      BY <2>4 DEF resume_logging
    <3> QED
      BY <3>1 DEF Counted
  <2>5. ASSUME NEW m \in Message, log_message(m) PROVE Counted'
    <3> SUFFICES ASSUME using_syslog'
                 PROVE  IF suspended' THEN /\ err_count' = Len(held') + 1
                                           /\ held' # << >> => err_buf' = held'[Len(held')]
                                      ELSE err_count' = 0
      BY DEF Counted
    <3>1. using_syslog /\ UNCHANGED suspended
      BY <2>5 DEF log_message
    <3>2. CASE suspended
      <4>1. err_count = Len(held) + 1 /\ err_count # 0
        BY <3>1, <3>2, HeldLength DEF Counted
      <4>2. err_count' = err_count + 1 /\ err_buf' = m /\ held' = Append(held, m)
        BY <2>5, <3>2, <4>1 DEF log_message
      <4>3. Len(Append(held, m)) = Len(held) + 1 /\ Append(held, m)[Len(held) + 1] = m
        BY <2>5, HeldLength, AppendProperties
      <4>4. err_count' = Len(held') + 1 /\ err_buf' = held'[Len(held')]
        BY <4>1, <4>2, <4>3
      <4> QED
        BY <3>1, <3>2, <4>4
    <3>3. CASE ~suspended
      <4>1. err_count = 0
        BY <3>1, <3>3 DEF Counted
      <4>2. err_count' = 0
        BY <2>5, <3>1, <4>1 DEF log_message
      <4> QED
        BY <3>1, <3>3, <4>2
    <3> QED
      BY <3>2, <3>3
  <2> QED
    BY <1>4, <2>1, <2>2, <2>3, <2>4, <2>5 DEF LogNext
<1> QED
  BY <1>1, <1>2, <1>3, <1>4 DEF Next, Options, ReadOther, ReadEnd, AddTestBinary, ConfigDone,
     BadInterval, ReadLine, CheckParameters, RefuseParameters, Prepare, Daemonise, StartDaemon,
     NoPidFile, Library, vars

LEMMA AccountedStep ==
    ASSUME TypeInv, Counted, [Next]_vars
    PROVE  [ /\ suspended /\ suspended' => out' = Silence
             /\ suspended /\ ~suspended' /\ using_syslog =>
                   out' = IF held = << >> THEN Silence ELSE Report(Len(held), held[Len(held)])
           ]_logVars
<1> SUFFICES ASSUME suspended, ~UNCHANGED logVars
             PROVE  /\ suspended' => out' = Silence
                    /\ ~suspended' /\ using_syslog =>
                          out' = IF held = << >> THEN Silence ELSE Report(Len(held), held[Len(held)])
  OBVIOUS
<1>1. pc = "library"
  BY DEF TypeInv, LogOpen
<1>2. LogNext
  BY <1>1 DEF Next, Options, ReadOther, ReadEnd, AddTestBinary, ConfigDone, BadInterval,
     ReadLine, Fails, CheckParameters, RefuseParameters, Prepare, Daemonise, StartDaemon,
     NoPidFile, Library, vars
<1>3. CASE resume_logging
  <2>1. ~suspended' /\ out' = IF using_syslog /\ err_count > 1 THEN Report(err_count - 1, err_buf)
                              ELSE Silence
    BY <1>3 DEF resume_logging
  <2>2. ASSUME using_syslog
        PROVE  out' = IF held = << >> THEN Silence ELSE Report(Len(held), held[Len(held)])
    <3>1. err_count = Len(held) + 1 /\ (held # << >> => err_buf = held[Len(held)])
      BY <2>2 DEF Counted
    <3>2. CASE held = << >>
      <4>1. Len(held) = 0
        BY <3>2
      <4> QED
        BY <2>1, <3>1, <3>2, <4>1
    <3>3. CASE held # << >>
      <4>1. Len(held) \in Nat \ {0}
        BY <3>3, HeldLength, EmptySeq
      <4>2. err_count > 1 /\ err_count - 1 = Len(held)
        BY <3>1, <4>1
      <4> QED
        BY <2>1, <2>2, <3>1, <3>3, <4>2
    <3> QED
      BY <3>2, <3>3
  <2> QED
    BY <2>1, <2>2
<1>4. ASSUME NEW m \in Message, log_message(m) PROVE suspended' /\ out' = Silence
  <2>1. using_syslog => err_count # 0
    BY HeldLength DEF Counted
  <2> QED
    BY <1>4, <2>1 DEF log_message
<1> QED
  BY <1>2, <1>3, <1>4 DEF LogNext

(* suspend_logging() and resume_logging(), in any use that keeps opening and closing out
   of a suspension: nothing goes to syslog while it is suspended, and afterwards the
   messages of that time are accounted for. *)
THEOREM SuspensionsAccounted == Spec => SuspensionAccounted
<1>1. Init => Counted
  BY DEF Init, LogInit, Counted
<1>2. TypeInv /\ Counted /\ [Next]_vars =>
         [ /\ suspended /\ suspended' => out' = Silence
           /\ suspended /\ ~suspended' /\ using_syslog =>
                 out' = IF held = << >> THEN Silence ELSE Report(Len(held), held[Len(held)])
         ]_logVars
  BY AccountedStep
<1> QED
  BY <1>1, <1>2, TypeInit, TypeStep, CountedStep, PTL DEF Spec, SuspensionAccounted

-----------------------------------------------------------------------------
(* The meaning of a file.  The operators of FileMeans, for a sequence of lines s *)

GreatestOf(K)    == CHOOSE k \in K : \A j \in K : j <= k
Giving(s, o, V)  == {k \in 1 .. Len(s) : s[k].arg = o /\ s[k].val.s \in V}
LastOf(s, o, V)  == IF Giving(s, o, V) = {} THEN 0 ELSE GreatestOf(Giving(s, o, V))

AddingOf(s, o)   == {k \in 1 .. Len(s) : s[k].arg = o /\ s[k].val # NULL}
UpTo(s, o, k)    == {j \in AddingOf(s, o) : j <= k}
Changes(s, o, k) == {j \in 1 .. Len(s) : /\ j > k /\ s[j].arg = "change" /\ o = "file"
                                         /\ \A h \in AddingOf(s, o) : h <= k \/ j < h}
ChangeTime(s, C) == IF C = {} THEN 0 ELSE s[GreatestOf(C)].val.i

(* List l is what the lines s say of list option o. *)
ListMeans(s, l, o) ==
    /\ Len(l) = Cardinality(AddingOf(s, o))
    /\ \A k \in AddingOf(s, o) :
          /\ l[Cardinality(UpTo(s, o, k))].name = s[k].val
          /\ l[Cardinality(UpTo(s, o, k))].mtime = ChangeTime(s, Changes(s, o, k))

(* A set of numbers with a bound has a greatest element. *)
LEMMA Greatest ==
    ASSUME NEW n \in Nat, NEW K \in SUBSET (1 .. n), K # {}
    PROVE  \E k \in K : \A j \in K : j <= k
<1> DEFINE T == {n - k : k \in K}
<1>1. T \subseteq Nat /\ T # {}
  <2>1. \A k \in K : k \in 1 .. n /\ n - k \in Nat
    OBVIOUS
  <2>2. T \subseteq Nat
    BY <2>1
  <2>3. PICK k : k \in K
    OBVIOUS
  <2>4. n - k \in T
    BY <2>3
  <2> QED
    BY <2>2, <2>4
<1>2. PICK x \in T : \A y \in T : ~(<<y, x>> \in OpToRel(<, Nat))
  BY <1>1, NatLessThanWellFounded, WFMin
<1>3. PICK k \in K : x = n - k
  OBVIOUS
<1>4. ASSUME NEW j \in K PROVE j <= k
  <2>1. n - j \in T /\ ~(<<n - j, x>> \in OpToRel(<, Nat))
    BY <1>2
  <2>2. ~(n - j < x)
    BY <1>1, <2>1 DEF OpToRel
  <2> QED
    BY <1>3, <2>2
<1> QED
  BY <1>4

LEMMA GreatestChosen ==
    ASSUME NEW n \in Nat, NEW K \in SUBSET (1 .. n), K # {}
    PROVE  /\ GreatestOf(K) \in K
           /\ n \in K => GreatestOf(K) = n
<1>1. GreatestOf(K) \in K /\ \A j \in K : j <= GreatestOf(K)
  BY Greatest DEF GreatestOf
<1>2. PICK g : g = GreatestOf(K)
  OBVIOUS
<1>3. g \in 1 .. n /\ (n \in K => n <= g)
  BY <1>1, <1>2
<1>4. n \in K => g = n
  BY <1>3
<1> QED
  BY <1>1, <1>2, <1>4

LEMMA BoundedIsFinite ==
    ASSUME NEW n \in Nat, NEW K \in SUBSET (1 .. n)
    PROVE  IsFiniteSet(K)
<1>1. IsFiniteSet(1 .. n)
  BY FS_Interval
<1> QED
  BY <1>1, FS_Subset

(* One more line *)
LEMMA AppendLine ==
    ASSUME NEW s \in Seq(Lines), NEW line \in Lines
    PROVE  /\ Append(s, line) \in Seq(Lines) /\ Len(Append(s, line)) = Len(s) + 1 /\ Len(s) \in Nat
           /\ \A k \in 1 .. Len(s) : Append(s, line)[k] = s[k]
           /\ Append(s, line)[Len(s) + 1] = line
BY AppendProperties, LenProperties

LEMMA LastOfAppend ==
    ASSUME NEW s \in Seq(Lines), NEW line \in Lines, NEW o, NEW V
    PROVE  /\ LastOf(s, o, V) \in 0 .. Len(s)
           /\ LastOf(Append(s, line), o, V) = IF line.arg = o /\ line.val.s \in V THEN Len(s) + 1
                                              ELSE LastOf(s, o, V)
<1> DEFINE t == Append(s, line)
           n == Len(s)
           K == Giving(s, o, V)
           L == Giving(t, o, V)
<1>1. /\ Len(t) = n + 1 /\ n \in Nat /\ n + 1 \in Nat /\ t[n + 1] = line
      /\ \A k \in 1 .. n : t[k] = s[k]
  BY AppendLine
<1>2. LastOf(s, o, V) \in 0 .. n
  <2>1. K \in SUBSET (1 .. n)
    BY DEF Giving
  <2>2. CASE K = {}
    BY <1>1, <2>2 DEF LastOf
  <2>3. CASE K # {}
    <3>1. GreatestOf(K) \in K
      BY <1>1, <2>1, <2>3, GreatestChosen
    <3> QED
      BY <2>1, <2>3, <3>1 DEF LastOf
  <2> QED
    BY <2>2, <2>3
<1> HIDE DEF t
<1>3. CASE line.arg = o /\ line.val.s \in V
  <2>1. n + 1 \in L /\ L \in SUBSET (1 .. n + 1)
    BY <1>1, <1>3 DEF Giving
  <2>2. GreatestOf(L) = n + 1
    BY <1>1, <2>1, GreatestChosen
  <2>3. LastOf(t, o, V) = n + 1
    BY <2>1, <2>2 DEF LastOf
  <2> QED
    BY <1>2, <1>3, <2>3 DEF t
<1>4. CASE ~(line.arg = o /\ line.val.s \in V)
  <2>1. L = K
    BY <1>1, <1>4 DEF Giving
  <2>2. LastOf(t, o, V) = LastOf(s, o, V)
    BY <2>1 DEF LastOf
  <2> QED
    BY <1>2, <1>4, <2>2 DEF t
<1> QED
  BY <1>3, <1>4

LEMMA AddingAppend ==
    ASSUME NEW s \in Seq(Lines), NEW line \in Lines, NEW o
    PROVE  /\ AddingOf(s, o) \in SUBSET (1 .. Len(s)) /\ IsFiniteSet(AddingOf(s, o))
           /\ AddingOf(Append(s, line), o) =
                 IF line.arg = o /\ line.val # NULL THEN AddingOf(s, o) \cup {Len(s) + 1}
                 ELSE AddingOf(s, o)
<1>1. /\ Len(Append(s, line)) = Len(s) + 1 /\ Len(s) \in Nat /\ Append(s, line)[Len(s) + 1] = line
      /\ \A k \in 1 .. Len(s) : Append(s, line)[k] = s[k]
  BY AppendLine
<1>2. AddingOf(s, o) \in SUBSET (1 .. Len(s))
  BY DEF AddingOf
<1>3. IsFiniteSet(AddingOf(s, o))
  BY <1>1, <1>2, BoundedIsFinite
<1>4. ASSUME line.arg = o, line.val # NULL
      PROVE  AddingOf(Append(s, line), o) = AddingOf(s, o) \cup {Len(s) + 1}
  BY <1>1, <1>4 DEF AddingOf
<1>5. ASSUME ~(line.arg = o /\ line.val # NULL)
      PROVE  AddingOf(Append(s, line), o) = AddingOf(s, o)
  BY <1>1, <1>5 DEF AddingOf
<1> QED
  BY <1>2, <1>3, <1>4, <1>5

(* The place of a line's entry in its list *)
LEMMA Place ==
    ASSUME NEW s \in Seq(Lines), NEW o, NEW k \in AddingOf(s, o)
    PROVE  /\ Cardinality(UpTo(s, o, k)) \in 1 .. Cardinality(AddingOf(s, o))
           /\ Cardinality(UpTo(s, o, k)) = Cardinality(AddingOf(s, o)) =>
                 \A h \in AddingOf(s, o) : h <= k
           /\ Cardinality(UpTo(s, o, k)) # Cardinality(AddingOf(s, o)) =>
                 \E h \in AddingOf(s, o) : ~(h <= k)
<1> DEFINE A == AddingOf(s, o)
           U == UpTo(s, o, k)
<1>1. A \in SUBSET (1 .. Len(s)) /\ IsFiniteSet(A)
  <2>1. A \in SUBSET (1 .. Len(s)) /\ Len(s) \in Nat
    BY LenProperties DEF AddingOf
  <2> QED
    BY <2>1, BoundedIsFinite
<1>2. U \in SUBSET A /\ k \in U
  BY <1>1 DEF UpTo
<1>3. /\ IsFiniteSet(U) /\ Cardinality(U) <= Cardinality(A)
      /\ Cardinality(A) = Cardinality(U) => A = U
  BY <1>1, <1>2, FS_Subset
<1>4. Cardinality(U) \in Nat /\ Cardinality(A) \in Nat /\ Cardinality(U) # 0
  BY <1>1, <1>2, <1>3, FS_CardinalityType, FS_EmptySet
<1>5. Cardinality(U) = Cardinality(A) => \A h \in A : h <= k
  BY <1>3 DEF UpTo
<1>6. (\A h \in A : h <= k) => U = A
  BY DEF UpTo
<1> QED
  BY <1>3, <1>4, <1>5, <1>6
(* The change time depends only on the lines that are there. *)
LEMMA ChangeTimeSame ==
    ASSUME NEW s \in Seq(Lines), NEW line \in Lines, NEW C \in SUBSET (1 .. Len(s))
    PROVE  ChangeTime(Append(s, line), C) = ChangeTime(s, C)
<1>1. Len(s) \in Nat /\ \A k \in 1 .. Len(s) : Append(s, line)[k] = s[k]
  BY AppendLine
<1>2. C # {} => GreatestOf(C) \in C
  BY <1>1, GreatestChosen
<1> QED
  BY <1>1, <1>2 DEF ChangeTime

LEMMA ChangesType ==
    ASSUME NEW s, NEW o, NEW k
    PROVE  Changes(s, o, k) \in SUBSET (1 .. Len(s))
BY DEF Changes

(* A line that adds nothing to the list, nor changes a time in it *)
LEMMA OtherLine ==
    ASSUME NEW s \in Seq(Lines), NEW line \in Lines, NEW o, NEW l, ListMeans(s, l, o),
           ~(line.arg = o /\ line.val # NULL), ~(line.arg = "change" /\ o = "file")
    PROVE  ListMeans(Append(s, line), l, o)
<1> DEFINE t == Append(s, line)
           n == Len(s)
<1>1. /\ Len(t) = n + 1 /\ n \in Nat /\ t[n + 1] = line /\ \A k \in 1 .. n : t[k] = s[k]
  BY AppendLine
<1>2. AddingOf(t, o) = AddingOf(s, o) /\ AddingOf(s, o) \in SUBSET (1 .. n)
  BY AddingAppend
<1>3. ASSUME NEW k \in AddingOf(s, o)
      PROVE  /\ UpTo(t, o, k) = UpTo(s, o, k) /\ t[k] = s[k]
             /\ ChangeTime(t, Changes(t, o, k)) = ChangeTime(s, Changes(s, o, k))
  <2>1. UpTo(t, o, k) = UpTo(s, o, k) /\ t[k] = s[k]
    BY <1>1, <1>2 DEF UpTo
  <2>2. Changes(t, o, k) = Changes(s, o, k)
    <3> HIDE DEF t
    <3> QED
      BY <1>1, <1>2 DEF Changes
  <2> QED
    BY <2>1, <2>2, ChangesType, ChangeTimeSame
<1> HIDE DEF t
<1> QED
  BY <1>2, <1>3 DEF ListMeans, t

(* A line that adds to the list *)
LEMMA AddingLine ==
    ASSUME NEW s \in Seq(Lines), NEW line \in Lines, NEW o, NEW l \in Seq(Element),
           ListMeans(s, l, o), line.arg = o, line.val # NULL, o # "change"
    PROVE  ListMeans(Append(s, line), Append(l, Entry(line.val, 0)), o)
<1> DEFINE t == Append(s, line)
           n == Len(s)
           e == Entry(line.val, 0)
           m == Append(l, e)
           A == AddingOf(s, o)
<1>1. /\ Len(t) = n + 1 /\ n \in Nat /\ t[n + 1] = line /\ \A k \in 1 .. n : t[k] = s[k]
  BY AppendLine
<1>2. AddingOf(t, o) = A \cup {n + 1} /\ A \in SUBSET (1 .. n) /\ IsFiniteSet(A)
  BY AddingAppend
<1>3. Cardinality(A \cup {n + 1}) = Cardinality(A) + 1 /\ Cardinality(A) \in Nat
  <2>1. n + 1 \notin A
    BY <1>1, <1>2
  <2> QED
    BY <1>2, <2>1, FS_AddElement, FS_CardinalityType
<1>4. Len(l) = Cardinality(A)
  BY DEF ListMeans
<1>5. e.name = line.val /\ e.mtime = 0 /\ e \in Element
  <2>1. e.name = line.val /\ e.mtime = 0
    BY DEF Entry
  <2> QED
    BY <2>1, LineValue, EntryType
<1>6. Len(m) = Len(l) + 1 /\ m[Len(l) + 1] = e /\ \A i \in 1 .. Len(l) : m[i] = l[i]
  BY <1>5, AppendProperties
<1> HIDE DEF t, e, m, A
<1>7. ASSUME NEW k \in A
      PROVE  /\ m[Cardinality(UpTo(t, o, k))].name = t[k].val
             /\ m[Cardinality(UpTo(t, o, k))].mtime = ChangeTime(t, Changes(t, o, k))
  <2>1. k \in 1 .. n /\ t[k] = s[k] /\ k < n + 1
    BY <1>1, <1>2
  <2>2. UpTo(t, o, k) = UpTo(s, o, k)
    BY <1>1, <1>2, <2>1 DEF UpTo, A
  <2>3. Changes(t, o, k) = Changes(s, o, k)
    <3>1. \A j \in 1 .. n : j < n + 1
      BY <1>1
    <3> QED
      BY <1>1, <1>2, <2>1, <3>1 DEF Changes, A
  <2>4. ChangeTime(t, Changes(t, o, k)) = ChangeTime(s, Changes(s, o, k))
    BY <2>3, ChangesType, ChangeTimeSame DEF t
  <2>5. Cardinality(UpTo(s, o, k)) \in 1 .. Cardinality(A)
    BY Place DEF A
  <2>6. m[Cardinality(UpTo(t, o, k))] = l[Cardinality(UpTo(s, o, k))]
    BY <1>4, <1>6, <2>2, <2>5
  <2> QED
    BY <2>1, <2>4, <2>6 DEF ListMeans, A
<1>8. /\ m[Cardinality(UpTo(t, o, n + 1))].name = t[n + 1].val
      /\ m[Cardinality(UpTo(t, o, n + 1))].mtime = ChangeTime(t, Changes(t, o, n + 1))
  <2>1. UpTo(t, o, n + 1) = A \cup {n + 1}
    <3>1. \A j \in A \cup {n + 1} : j <= n + 1
      BY <1>1, <1>2
    <3> QED
      BY <1>2, <3>1 DEF UpTo
  <2>2. m[Cardinality(UpTo(t, o, n + 1))] = e
    BY <1>3, <1>4, <1>6, <2>1
  <2>3. Changes(t, o, n + 1) = {}
    BY <1>1 DEF Changes
  <2>4. ChangeTime(t, Changes(t, o, n + 1)) = 0
    BY <2>3 DEF ChangeTime
  <2> QED
    BY <1>1, <1>5, <2>2, <2>4
<1>9. Len(m) = Cardinality(AddingOf(t, o))
  BY <1>2, <1>3, <1>4, <1>6
<1>10. ListMeans(t, m, o)
  BY <1>2, <1>7, <1>8, <1>9 DEF ListMeans
<1> QED
  BY <1>10 DEF t, m, e
(* A line "change", with a file before it *)
LEMMA ChangeLine ==
    ASSUME NEW s \in Seq(Lines), NEW line \in Lines, NEW l \in Seq(Element),
           ListMeans(s, l, "file"), line.arg = "change", Len(l) # 0
    PROVE  ListMeans(Append(s, line), [l EXCEPT ![Len(l)] = [l[Len(l)] EXCEPT !.mtime = line.val.i]],
                     "file")
<1> DEFINE t == Append(s, line)
           n == Len(s)
           e == [l[Len(l)] EXCEPT !.mtime = line.val.i]
           m == [l EXCEPT ![Len(l)] = e]
           A == AddingOf(s, "file")
<1>1. /\ Len(t) = n + 1 /\ n \in Nat /\ n + 1 \in Nat /\ t[n + 1] = line
      /\ \A k \in 1 .. n : t[k] = s[k]
  BY AppendLine
<1>2. AddingOf(t, "file") = A /\ A \in SUBSET (1 .. n)
  BY AddingAppend
<1>3. Len(l) = Cardinality(A) /\ Len(l) \in 1 .. Len(l)
  BY LenProperties DEF ListMeans
<1>4. l[Len(l)] \in Element
  BY <1>3, ElementOfSeq
<1>5. e \in Element /\ e.name = l[Len(l)].name /\ e.mtime = line.val.i
  BY <1>4, LineValue DEF Element
<1>6. Len(m) = Len(l) /\ \A i \in 1 .. Len(l) : m[i] = IF i = Len(l) THEN e ELSE l[i]
  BY <1>3, <1>5, ExceptSeq
<1> HIDE DEF t, e, m, A
<1>7. ASSUME NEW k \in A
      PROVE  /\ m[Cardinality(UpTo(t, "file", k))].name = t[k].val
             /\ m[Cardinality(UpTo(t, "file", k))].mtime = ChangeTime(t, Changes(t, "file", k))
  <2>1. k \in 1 .. n /\ t[k] = s[k] /\ k < n + 1
    BY <1>1, <1>2
  <2>2. UpTo(t, "file", k) = UpTo(s, "file", k)
    BY <1>2 DEF UpTo, A
  <2>3. PICK r : r = Cardinality(UpTo(s, "file", k))
    OBVIOUS
  <2>4. /\ r \in 1 .. Len(l)
        /\ r = Len(l) => \A h \in A : h <= k
        /\ r # Len(l) => \E h \in A : ~(h <= k)
    BY <1>3, <2>3, Place DEF A
  <2>5. l[r].name = s[k].val /\ l[r].mtime = ChangeTime(s, Changes(s, "file", k))
    BY <2>3 DEF ListMeans, A
  <2>6. CASE r = Len(l)
    <3>1. n + 1 \in Changes(t, "file", k)
      <4>1. \A h \in AddingOf(t, "file") : h <= k
        BY <1>2, <2>4, <2>6
      <4>2. n + 1 \in 1 .. Len(t) /\ n + 1 > k /\ t[n + 1].arg = "change"
        BY <1>1, <2>1
      <4> QED
        BY <4>1, <4>2 DEF Changes
    <3>2. Changes(t, "file", k) \in SUBSET (1 .. n + 1)
      BY <1>1 DEF Changes
    <3>3. GreatestOf(Changes(t, "file", k)) = n + 1
      BY <1>1, <3>1, <3>2, GreatestChosen
    <3>4. ChangeTime(t, Changes(t, "file", k)) = line.val.i
      BY <1>1, <3>1, <3>3 DEF ChangeTime
    <3>5. m[r] = e
      BY <1>6, <2>4, <2>6
    <3> QED
      BY <1>5, <2>1, <2>2, <2>3, <2>5, <2>6, <3>4, <3>5
  <2>7. CASE r # Len(l)
    <3>1. PICK h \in A : ~(h <= k)
      BY <2>4, <2>7
    <3>2. ~(n + 1 < h)
      BY <1>1, <1>2
    <3>3. n + 1 \notin Changes(t, "file", k)
      BY <1>2, <3>1, <3>2 DEF Changes
    <3>4. Changes(t, "file", k) = Changes(s, "file", k)
      BY <1>1, <1>2, <3>3 DEF Changes, A
    <3>5. ChangeTime(t, Changes(t, "file", k)) = ChangeTime(s, Changes(s, "file", k))
      BY <3>4, ChangesType, ChangeTimeSame DEF t
    <3>6. m[r] = l[r]
      BY <1>6, <2>4, <2>7
    <3> QED
      BY <2>1, <2>2, <2>3, <2>5, <3>5, <3>6
  <2> QED
    BY <2>6, <2>7
<1>8. ListMeans(t, m, "file")
  BY <1>2, <1>3, <1>6, <1>7 DEF ListMeans
<1> QED
  BY <1>8 DEF t, m, e

(* A line "change" without one *)
LEMMA LostChange ==
    ASSUME NEW s \in Seq(Lines), NEW line \in Lines, NEW l \in Seq(Element),
           ListMeans(s, l, "file"), line.arg = "change", Len(l) = 0
    PROVE  ListMeans(Append(s, line), l, "file")
<1>1. AddingOf(Append(s, line), "file") = AddingOf(s, "file") /\ IsFiniteSet(AddingOf(s, "file"))
  BY AddingAppend
<1>2. AddingOf(s, "file") = {}
  BY <1>1, FS_EmptySet DEF ListMeans
<1> QED
  BY <1>1, <1>2 DEF ListMeans

(* The invariant behind FileMeans: nothing was read before main() opens the log. *)
Meaning ==
    /\ pc = "main" => setting = Default /\ list = [o \in ListOption |-> << >>] /\ lines = << >>
    /\ pc = "read" =>
          /\ \A o \in IntOption \ {"ticker"} :
                setting[o] = IF LastOf(lines, o, {"number"}) = 0 THEN Default[o]
                             ELSE lines[LastOf(lines, o, {"number"})].val.i
          /\ setting["ticker"] = setting["logtick"]
          /\ \A o \in ListOption : ListMeans(lines, list[o], o)

LEMMA MeaningIsFileMeans == Meaning => FileMeans
<1>1. ASSUME NEW o, NEW V PROVE LastLine(o, V) = LastOf(lines, o, V)
  BY DEF LastLine, LastOf, Giving, GreatestOf
<1>2. ASSUME NEW o PROVE Adding(o) = AddingOf(lines, o)
  BY DEF Adding, AddingOf
<1> SUFFICES ASSUME Meaning, pc = "read" PROVE FileMeans
  BY DEF FileMeans
<1>3. \A o \in IntOption \ {"ticker"} :
          LET k == LastLine(o, {"number"})
          IN  setting[o] = IF k = 0 THEN Default[o] ELSE lines[k].val.i
  BY <1>1 DEF Meaning
<1>4. ASSUME NEW o \in ListOption
      PROVE  /\ Len(list[o]) = Cardinality(Adding(o))
             /\ \A k \in Adding(o) :
                   LET e == list[o][Cardinality({j \in Adding(o) : j <= k})]
                       C == {j \in 1 .. Len(lines) : /\ j > k /\ lines[j].arg = "change" /\ o = "file"
                                                     /\ \A h \in Adding(o) : h <= k \/ j < h}
                   IN  /\ e.name = lines[k].val
                       /\ e.mtime = IF C = {} THEN 0
                                    ELSE lines[CHOOSE j \in C : \A h \in C : h <= j].val.i
  <2>1. ListMeans(lines, list[o], o)
    BY DEF Meaning
  <2>2. Adding(o) = AddingOf(lines, o)
    BY <1>2
  <2> DEFINE e(k) == list[o][Cardinality({j \in Adding(o) : j <= k})]
             C(k) == {j \in 1 .. Len(lines) : /\ j > k /\ lines[j].arg = "change" /\ o = "file"
                                              /\ \A h \in Adding(o) : h <= k \/ j < h}
  <2>3. ASSUME NEW k \in Adding(o)
        PROVE  /\ e(k).name = lines[k].val
               /\ e(k).mtime = IF C(k) = {} THEN 0
                               ELSE lines[CHOOSE j \in C(k) : \A h \in C(k) : h <= j].val.i
    <3>1. e(k) = list[o][Cardinality(UpTo(lines, o, k))]
      BY <2>2 DEF UpTo
    <3>2. C(k) = Changes(lines, o, k)
      BY <2>2 DEF Changes
    <3> HIDE DEF e, C
    <3>3. e(k).name = lines[k].val /\ e(k).mtime = ChangeTime(lines, C(k))
      BY <2>1, <2>2, <3>1, <3>2 DEF ListMeans
    <3> QED
      BY <3>3 DEF ChangeTime, GreatestOf
  <2>4. Len(list[o]) = Cardinality(Adding(o))
    BY <2>1, <2>2 DEF ListMeans
  <2> QED
    BY <2>3, <2>4
<1> QED
  BY <1>3, <1>4 DEF Meaning, FileMeans
LEMMA MeaningStart ==
    ASSUME lines = << >>, list = [o \in ListOption |-> << >>]
    PROVE  /\ \A o : LastOf(lines, o, {"number"}) = 0
           /\ \A o \in ListOption : ListMeans(lines, list[o], o)
<1>1. Len(lines) = 0
  OBVIOUS
<1>2. \A o : Giving(lines, o, {"number"}) = {} /\ AddingOf(lines, o) = {}
  BY <1>1 DEF Giving, AddingOf
<1>3. \A o \in ListOption : Len(list[o]) = 0
  OBVIOUS
<1> QED
  BY <1>2, <1>3, FS_EmptySet DEF LastOf, ListMeans

(* A line of the file, for the numbers *)
LEMMA NumberLine ==
    ASSUME TypeInv, Meaning, NEW line \in Lines, ReadLine(line)
    PROVE  /\ \A o \in IntOption \ {"ticker"} :
                 setting'[o] = IF LastOf(lines', o, {"number"}) = 0 THEN Default[o]
                               ELSE lines'[LastOf(lines', o, {"number"})].val.i
           /\ setting'["ticker"] = setting'["logtick"]
<1> DEFINE arg == line.arg
           val == line.val
<1>1. pc = "read" /\ lines' = Append(lines, line) /\ lines \in Seq(Lines)
  BY LineCases DEF TypeInv
<1>2. /\ \A o \in IntOption \ {"ticker"} :
            setting[o] = IF LastOf(lines, o, {"number"}) = 0 THEN Default[o]
                         ELSE lines[LastOf(lines, o, {"number"})].val.i
      /\ setting["ticker"] = setting["logtick"]
  BY <1>1 DEF Meaning
<1>3. setting = [o \in Option |-> setting[o]] /\ "logtick" \in Option /\ "ticker" \in Option
      /\ IntOption \subseteq Option /\ "logtick" \in IntOption /\ "ticker" \in IntOption
  BY Names DEF TypeInv, SettingOK, Option
(* the effect on the numbers *)
<1>4. /\ \A o \in IntOption \ {"ticker"} :
            setting'[o] = IF o = arg /\ val.s = "number" THEN val.i ELSE setting[o]
      /\ setting'["ticker"] = setting'["logtick"]
  <2>1. CASE UNCHANGED setting /\ (arg \notin IntOption \/ val.s # "number")
    BY <1>2, <2>1
  <2>2. CASE arg \in IntOption \ {"logtick", "ticker"} /\ read_int_func(arg, val)
    <3>1. CASE val.s # "number"
      BY <1>2, <2>2, <3>1 DEF read_int_func
    <3>2. CASE val.s = "number"
      <4>1. setting' = [setting EXCEPT ![arg] = val.i] /\ arg \in Option
        BY <1>3, <2>2, <3>2 DEF read_int_func
      <4>2. \A o \in Option : setting'[o] = IF o = arg THEN val.i ELSE setting[o]
        BY <1>3, <4>1
      <4> QED
        BY <1>2, <1>3, <2>2, <3>2, <4>2
    <3> QED
      BY <3>1, <3>2
  <2>3. CASE /\ arg = "logtick"
             /\ \E n : /\ n = IF val.s = "number" THEN val.i ELSE setting["logtick"]
                       /\ setting' = [setting EXCEPT !["logtick"] = n, !["ticker"] = n]
    <3>1. PICK n : /\ n = IF val.s = "number" THEN val.i ELSE setting["logtick"]
                   /\ setting' = [setting EXCEPT !["logtick"] = n, !["ticker"] = n]
      BY <2>3
    <3>2. \A o \in Option : setting'[o] = IF o \in {"logtick", "ticker"} THEN n ELSE setting[o]
      BY <1>3, <3>1
    <3> QED
      BY <1>3, <2>3, <3>1, <3>2
  <2>4. ASSUME NEW v, setting' = [setting EXCEPT ![arg] = v], arg \in Option \ IntOption
        PROVE  /\ \A o \in IntOption \ {"ticker"} :
                     setting'[o] = IF o = arg /\ val.s = "number" THEN val.i ELSE setting[o]
               /\ setting'["ticker"] = setting'["logtick"]
    <3>1. \A o \in Option : o # arg => setting'[o] = setting[o]
      BY <1>3, <2>4
    <3> QED
      BY <1>2, <1>3, <2>4, <3>1
  <2>5. CASE arg \in StringOption /\ read_string_func(arg, val)
    BY <2>4, <2>5, Disjoint DEF read_string_func, Option
  <2>6. CASE \/ arg \in YesNoOption /\ read_enumerated_func(arg, val, Yes_No_list)
             \/ arg \in YNAutoOption /\ read_enumerated_func(arg, val, YN_Auto_list)
    <3>1. arg \in Option \ IntOption
      BY <2>6, Disjoint DEF Option
    <3>2. UNCHANGED setting \/ \E v : setting' = [setting EXCEPT ![arg] = v]
      BY <2>6 DEF read_enumerated_func
    <3> QED
      BY <2>1, <2>4, <3>1, <3>2
  <2>7. CASE arg = "change" /\ read_change(val)
    <3>1. arg \notin IntOption
      BY <2>7 DEF IntOption
    <3> QED
      BY <2>1, <2>7, <3>1 DEF read_change
  <2>8. CASE arg \in ListOption /\ read_list_func(arg, val)
    <3>1. arg \notin IntOption
      BY <2>8 DEF IntOption, ListOption
    <3> QED
      BY <2>1, <2>8, <3>1 DEF read_list_func
  <2> QED
    BY <2>2, <2>3, <2>5, <2>6, <2>7, <2>8, LineCases
<1>5. ASSUME NEW o \in IntOption \ {"ticker"}
      PROVE  setting'[o] = IF LastOf(lines', o, {"number"}) = 0 THEN Default[o]
                           ELSE lines'[LastOf(lines', o, {"number"})].val.i
  <2>1. PICK a, b : a = LastOf(lines, o, {"number"}) /\ b = LastOf(lines', o, {"number"})
    OBVIOUS
  <2>2. /\ a \in 0 .. Len(lines) /\ Len(lines) \in Nat
        /\ b = IF arg = o /\ val.s \in {"number"} THEN Len(lines) + 1 ELSE a
    BY <1>1, <2>1, LastOfAppend, LenProperties
  <2>3. lines'[Len(lines) + 1] = line /\ \A k \in 1 .. Len(lines) : lines'[k] = lines[k]
    BY <1>1, AppendLine
  <2>4. CASE arg = o /\ val.s = "number"
    BY <1>4, <2>1, <2>2, <2>3, <2>4
  <2>5. CASE ~(arg = o /\ val.s = "number")
    <3>1. b = a /\ setting'[o] = setting[o]
      BY <1>4, <2>2, <2>5
    <3>2. a # 0 => lines'[a] = lines[a]
      BY <2>2, <2>3
    <3> QED
      BY <1>2, <2>1, <3>1, <3>2
  <2> QED
    BY <2>4, <2>5
<1> QED
  BY <1>4, <1>5

(* ... and for the lists *)
LEMMA ListLine ==
    ASSUME TypeInv, Meaning, NEW line \in Lines, ReadLine(line), NEW o \in ListOption
    PROVE  ListMeans(lines', list'[o], o)
<1> DEFINE arg == line.arg
           val == line.val
<1>1. pc = "read" /\ lines' = Append(lines, line) /\ lines \in Seq(Lines)
  BY LineCases DEF TypeInv
<1>2. ListMeans(lines, list[o], o) /\ list[o] \in Seq(Element) /\ "change" # o
      /\ list \in [ListOption -> Seq(Element)]
  <2>1. "change" # o
    BY DEF ListOption
  <2> QED
    BY <1>1, <2>1 DEF Meaning, TypeInv
<1>3. ASSUME list'[o] = list[o], ~(arg = o /\ val # NULL), ~(arg = "change" /\ o = "file")
      PROVE  ListMeans(lines', list'[o], o)
  BY <1>1, <1>2, <1>3, OtherLine
<1>4. CASE arg \in ListOption /\ read_list_func(arg, val)
  <2>1. arg # "change"
    BY <1>4 DEF ListOption
  <2>2. CASE arg = o /\ val # NULL
    <3>1. list'[o] = Append(list[o], Entry(val, 0))
      BY <1>2, <1>4, <2>2 DEF read_list_func, add_list
    <3> QED
      BY <1>1, <1>2, <2>1, <2>2, <3>1, AddingLine
  <2>3. CASE ~(arg = o /\ val # NULL)
    <3>1. list'[o] = list[o]
      BY <1>2, <1>4, <2>3 DEF read_list_func, add_list
    <3> QED
      BY <1>3, <2>1, <2>3, <3>1
  <2> QED
    BY <2>2, <2>3
<1>5. CASE arg = "change" /\ read_change(val)
  <2>1. "file" \in ListOption
    BY Names
  <2>2. CASE o # "file"
    <3>1. list'[o] = list[o]
      BY <1>2, <1>5, <2>1, <2>2 DEF read_change
    <3> QED
      BY <1>2, <1>3, <1>5, <2>2, <3>1
  <2>3. CASE o = "file" /\ Len(list["file"]) = 0
    <3>1. list'[o] = list[o]
      BY <1>5, <2>3 DEF read_change
    <3> QED
      BY <1>1, <1>2, <1>5, <2>3, <3>1, LostChange
  <2>4. CASE o = "file" /\ Len(list["file"]) # 0
    <3>1. PICK l \in Seq(Element) : l = list["file"]
      BY <1>2, <2>4
    <3>2. (IF val.s = "number" THEN val.i ELSE 0) = val.i
      BY LineValue
    <3>3. PICK i : i = IF val.s = "number" THEN val.i ELSE 0
      OBVIOUS
    <3>4. list' = [list EXCEPT !["file"] = [l EXCEPT ![Len(l)] = [l[Len(l)] EXCEPT !.mtime = i]]]
      BY <1>5, <2>4, <3>1, <3>3 DEF read_change
    <3>5. list'["file"] = [l EXCEPT ![Len(l)] = [l[Len(l)] EXCEPT !.mtime = i]]
      BY <1>2, <2>1, <3>4
    <3>6. i = line.val.i
      BY <3>2, <3>3
    <3>7. ListMeans(Append(lines, line),
                    [l EXCEPT ![Len(l)] = [l[Len(l)] EXCEPT !.mtime = line.val.i]], "file")
      BY <1>1, <1>2, <1>5, <2>4, <3>1, ChangeLine
    <3> QED
      BY <1>1, <2>4, <3>5, <3>6, <3>7
  <2> QED
    BY <2>2, <2>3, <2>4
<1>6. CASE arg \in Option /\ UNCHANGED list
  <2>1. arg # o /\ arg # "change"
    BY <1>6 DEF Option, IntOption, YesNoOption, YNAutoOption, StringOption, ListOption
  <2> QED
    BY <1>3, <1>6, <2>1
<1> QED
  BY <1>4, <1>5, <1>6, LineCases, Names DEF read_int_func, read_string_func,
     read_enumerated_func, Option

LEMMA MeaningStep == TypeInv /\ Meaning /\ [Next]_vars => Meaning'
<1> SUFFICES ASSUME TypeInv, Meaning, [Next]_vars PROVE Meaning'
  OBVIOUS
<1>1. CASE Options
  <2>1. pc = "main" /\ pc' \in {"read", "usage"} /\ UNCHANGED <<list, lines>>
    BY <1>1 DEF Options
  <2>2. setting = Default /\ list' = [o \in ListOption |-> << >>] /\ lines' = << >>
    BY <2>1 DEF Meaning
  <2>3. \A o \in IntOption : setting'[o] = Default[o]
    <3>1. UNCHANGED setting \/ \E b : setting' = [setting EXCEPT !["softboot-option"] = b]
      BY <1>1 DEF Options
    <3>2. \A o \in IntOption : o # "softboot-option"
      BY Names, Disjoint
    <3>3. setting = [o \in Option |-> setting[o]] /\ IntOption \subseteq Option
      BY DEF TypeInv, SettingOK, Option
    <3> QED
      BY <2>2, <3>1, <3>2, <3>3
  <2>4. Default["ticker"] = Default["logtick"]
    <3>1. \A o \in {"ticker", "logtick"} : Default[o] = 1
      BY DEF Default, IntOption, YNAutoOption
    <3> QED
      BY <3>1
  <2>5. /\ \A o : LastOf(lines, o, {"number"}) = 0
        /\ \A o \in ListOption : ListMeans(lines, list[o], o)
    BY <2>1, <2>2, MeaningStart
  <2>6. /\ \A o : LastOf(lines', o, {"number"}) = 0
        /\ \A o \in ListOption : ListMeans(lines', list'[o], o)
    BY <2>1, <2>5
  <2> QED
    BY <2>1, <2>3, <2>4, <2>6, Names DEF Meaning
<1>2. CASE \E line \in Lines : ReadLine(line)
  <2>1. PICK line \in Lines : ReadLine(line)
    BY <1>2
  <2>2. pc' = "read"
    BY <2>1, LineCases
  <2> QED
    BY <2>1, <2>2, NumberLine, ListLine DEF Meaning
<1>3. CASE ReadOther \/ UNCHANGED vars
  <2>1. UNCHANGED <<pc, setting, list, lines>>
    BY <1>3 DEF ReadOther, vars
  <2> QED
    BY <2>1 DEF Meaning
<1>4. CASE pc' \notin {"main", "read"}
  BY <1>4 DEF Meaning
<1> QED
  BY <1>1, <1>2, <1>3, <1>4 DEF Next, ReadEnd, AddTestBinary, ConfigDone, BadInterval, Library,
     Fails, CheckParameters, RefuseParameters, Prepare, Daemonise, StartDaemon, NoPidFile

(* read_config() and read-conf.c: for every file, whatever its lines and their order,
   the last number given to an option counts, the lists have the order of the file, and
   a "change" belongs to the file before it. *)
THEOREM FilesMean == Spec => []FileMeans
<1>1. Init => Meaning
  BY DEF Init, Meaning
<1> QED
  BY <1>1, MeaningIsFileMeans, TypeInit, TypeStep, MeaningStep, PTL DEF Spec
=============================================================================
