------------------------------ MODULE MCShutdown ------------------------------
(* Instances of Shutdown for TLC. *)
EXTENDS Shutdown, TLC

(* a reboot request, a hard reset, too hot *)
Reasons == {EREBOOT, ERESET, ETOOHOT}

(* /usr on /, /usr/spool on /usr by NFS *)
MountOrder == <<"/", "/usr", "/usr/spool">>
MountedOn  == ("/" :> "/") @@ ("/usr" :> "/") @@ ("/usr/spool" :> "/usr")
=============================================================================
