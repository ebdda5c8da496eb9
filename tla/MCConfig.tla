------------------------------- MODULE MCConfig -------------------------------
(* Instances of Config for TLC. *)
EXTENDS Config

Line(o, v) == [arg |-> o, val |-> v]

(* around the limits of check_parameters(); files and their change times; one option of
   every other kind *)
FileLines ==
    {Line("interval", Number(n)) : n \in {0, 58, 59}}
    \cup {Line("max-load-1", v) : v \in {Number(1), Number(2), Number(3), Text("other")}}
    \cup {Line("max-load-5", Number(1))}
    \cup {Line("file", v) : v \in {Text("other"), Text("")}}
    \cup {Line("change", v) : v \in {Number(5), Text("other")}}
    \cup {Line("logtick", Number(3)), Line("log-dir", Text("")), Line("softboot-option", Text("auto")),
          Line("watchdog-refresh-use-settimeout", Text("yes"))}
=============================================================================
