-------------------------------- MODULE Umount --------------------------------
(***************************************************************************)
(* Unmounting everything: umount_all() of src/umount.c with the mount      *)
(* table of src/fstab.c and src/mntent.c, and ifdown() of src/ifdown.c,    *)
(* as the shutdown calls them.                                             *)
(*                                                                         *)
(* A file system is its mount point.  The text of /etc/mtab is not         *)
(* modelled: once it is read nobody looks at it again.  What counts is     *)
(* whether it can be written, since the code that does so may end the      *)
(* daemon.  Each step is an operator over the primed variables.            *)
(***************************************************************************)
EXTENDS Integers, Sequences

CONSTANTS
    Mounts,         \* the file systems in the order they were mounted, "/" first
    Under,          \* the one that each is mounted on
    Loops,          \* those on a loop device
    Ifaces, lo,     \* the network interfaces (no aliases), and the loopback
    MountFaults     \* may the calls fail for other reasons than the order?

Fs   == {Mounts[k] : k \in DOMAIN Mounts}
root == Mounts[1]

ASSUME MountAssumption ==
    /\ Mounts \in Seq(Fs) /\ Len(Mounts) > 0 /\ Loops \subseteq Fs /\ lo \in Ifaces
    /\ Under \in [Fs -> Fs] /\ Under[root] = root
    /\ \A j, k \in DOMAIN Mounts : j # k => Mounts[j] # Mounts[k]
    /\ \A k \in 2 .. Len(Mounts) : \E j \in 1 .. k - 1 : Under[Mounts[k]] = Mounts[j]
    /\ MountFaults \in BOOLEAN

VARIABLES
    mtab,           \* /etc/mtab: a "file", one on a "readonly" disk, a "link", or "none"
    table,          \* mounttable, from the first to the last
    walk,           \* how many of its entries are left
    umount_nomtab,
    lock,           \* has lock_mtab() been called?
    alarm,          \* is its alarm() still to come?
    mounted,        \* kernel: what is mounted (the root is not, once it is read-only)
    up              \* kernel: the interfaces that are up

(* History variable: what the kernel refused to unmount for a reason of its own. *)
VARIABLE refused

umountVars == <<mtab, table, walk, umount_nomtab, lock, alarm, mounted, up, refused>>

UmountInit ==
    /\ mtab \in {"file", "readonly", "link", "none"}
    /\ table = << >> /\ walk = 0 /\ umount_nomtab = FALSE /\ lock = FALSE /\ alarm = FALSE
    /\ mounted = Fs /\ up = Ifaces /\ refused = {}

-----------------------------------------------------------------------------
(* The selections of n lines of the mount table, in its order. *)
Picks(n) == {e \in [1 .. n -> DOMAIN Mounts] : \A i, j \in 1 .. n : i < j => e[i] < e[j]}

(* my_getmntent(): the entries it finds.  It skips bad lines, and ignores the rest of
   the file after a line that is too long, or five bad ones. *)
my_getmntent ==
    IF MountFaults
    THEN UNION {{[k \in 1 .. n |-> Mounts[e[k]]] : e \in Picks(n)} : n \in 0 .. Len(Mounts)}
    ELSE {Mounts}

(* mtab_head(): /etc/mtab, or else /proc/mounts *)
read_mounttable ==
    /\ table' \in my_getmntent /\ walk' = Len(table')
    /\ UNCHANGED <<mtab, umount_nomtab, lock, alarm, mounted, up, refused>>

(* Faulty variants, marked "Faulty", are for mutation runs only. *)
FaultyEntry == table[Len(table) - walk + 1]     \* from the first to the last

(* umount_all(): the entries from the last to the first. *)
CurrentEntry == table[walk]

(* umount(2) *)
Occupied(n) == \E m \in mounted \ {n} : Under[m] = n

(* What umount(node) and, unless that is EBUSY, umount(spec) come to; whether
   umount_one() then calls update_mtab(). *)
UmountSucceeds(n) ==
    /\ n \in mounted /\ ~Occupied(n)
    /\ mounted' = mounted \ {n} /\ UNCHANGED refused

UmountFails(n) ==
    /\ Occupied(n) \/ MountFaults
    /\ refused' = IF Occupied(n) THEN refused ELSE refused \cup {n}
    /\ UNCHANGED mounted

mtab_is_writable == mtab \in {"file", "none"}

(* umount_one(); update is TRUE if the entry is to be removed from /etc/mtab.  A
   failing del_loop() prevents it; the error codes EINVAL and ENOENT ask for it. *)
umount_one(update) ==
    LET n == CurrentEntry
    IN  /\ walk > 0
        /\ umount_nomtab' = (umount_nomtab \/ n = root)
        /\ \/ /\ UmountSucceeds(n)
              /\ update \in IF ~umount_nomtab' /\ mtab_is_writable
                            THEN {TRUE} \cup IF n \in Loops /\ MountFaults THEN {FALSE} ELSE {}
                            ELSE {FALSE}
           \/ /\ UmountFails(n)
              /\ update \in {FALSE} \cup IF ~umount_nomtab' /\ ~Occupied(n) THEN {TRUE} ELSE {}
        /\ walk' = walk - 1
        /\ UNCHANGED <<mtab, table, lock, alarm, up>>

(* lock_mtab(), the first time: the lock file cannot be made on a read-only disk. *)
MayLock == lock \/ mtab # "readonly"

(* update_mtab().  unlock_mtab() leaves the alarm behind, and lock as it is. *)
update_mtab ==
    /\ IF mtab \in {"none", "link"} THEN UNCHANGED <<lock, alarm>>
       ELSE /\ MayLock
            /\ lock' = TRUE /\ alarm' = (alarm \/ ~lock)
    /\ UNCHANGED <<mtab, table, walk, umount_nomtab, mounted, up, refused>>

(* die(), in update_mtab(): the lock, or writing the new table *)
update_mtab_dies == mtab \in {"file", "readonly"} /\ (~MayLock \/ MountFaults)

(* ifdown(): all but the loopback, unless the calls fail. *)
ifdown ==
    /\ up' \in {{lo}} \cup IF MountFaults THEN {up} ELSE {}
    /\ UNCHANGED <<mtab, table, walk, umount_nomtab, lock, alarm, mounted, refused>>

(* SIGALRM interrupts a sleep(n): how long it may last. *)
Slept(n) == IF alarm THEN 0 .. n ELSE {n}

(* Types of the variables. *)
UmountTypeOK ==
    /\ mtab \in {"file", "readonly", "link", "none"}
    /\ table \in Seq(Fs) /\ walk \in 0 .. Len(table)
    /\ {umount_nomtab, lock, alarm} \subseteq BOOLEAN
    /\ mounted \subseteq Fs /\ refused \subseteq Fs /\ up \subseteq Ifaces /\ lo \in up

(* umount_all(): "important to umount mtab entries in reverse order to mount"
   (umount.c:294).  Of the entries passed so far only those are still mounted that the
   kernel refused, or that have another one below them, which was refused or is not in
   the table. *)
OnlyRefusedLeft ==
    \A k \in walk + 1 .. Len(table) :
        LET n == table[k] IN n \in mounted => n \in refused \/ Occupied(n)
=============================================================================
