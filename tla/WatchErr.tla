------------------------------- MODULE WatchErr -------------------------------
(***************************************************************************)
(* The error codes every check returns (include/watch_err.h) and the       *)
(* encoding of a child's wait status that repair() and update_process()    *)
(* take apart with the W* macros of the C library.                         *)
(***************************************************************************)
EXTENDS Integers

(* include/watch_err.h: codes are unsigned 8 bit, so that a test binary can
   hand one over as its exit status. *)
ENOERR    == 0
EREBOOT   == 255
ERESET    == 254
EMAXLOAD  == 253
ETOOHOT   == 252
ENOLOAD   == 251
ENOCHANGE == 250
EINVMEM   == 249
ECHKILL   == 248
ETOOLONG  == 247
EUSERVALUE == 246
EDONTKNOW == 245

(* The errno values the code itself returns as a check result. *)
ENOMEM == 12
ENETUNREACH == 101

Code == 0 .. 255

(* wd_strerror(): the codes with a text of their own; the C library words the rest. *)
Worded == {ENOERR, EREBOOT, ERESET, EMAXLOAD, ETOOHOT, ENOLOAD, ENOCHANGE, EINVMEM, ECHKILL,
           ETOOLONG, EUSERVALUE, EDONTKNOW}

-----------------------------------------------------------------------------
(* <sys/wait.h> on Linux: the exit code sits in bits 8..15, the number of the
   terminating signal in bits 0..6. *)
WEXITSTATUS(s) == (s \div 256) % 256
WIFEXITED(s)   == s % 128 = 0
WIFSIGNALED(s) == s % 128 \in 1 .. 126

SIGKILL == 9

Exited(code)  == code * 256
Signaled(sig) == sig

(* What waitpid() without WUNTRACED can store. *)
IsWaitStatus(s) == \/ \E c \in Code : s = Exited(c)
                   \/ \E g \in 1 .. 126 : s = Signaled(g)
=============================================================================
