------------------------------ MODULE MCWdAction ------------------------------
(* Instances of WdAction for TLC. *)
EXTENDS WdAction

(* A pass: the load average (no list entry), a V1 test program, a pinged host. *)
Names == {"test", "ping"}
Tests == {"test"}
Pass3 == <<NULL, "test", "ping">>
Pass2 == <<"test", "ping">>

(* good, unknown, a reboot request, an ordinary error *)
AllCodes == {ENOERR, EDONTKNOW, ETOOHOT, EMAXLOAD}

ExitsOnly == {Exited(0), Exited(1)}
AnyEnd    == {Exited(0), Exited(1), Signaled(SIGKILL)}
=============================================================================
