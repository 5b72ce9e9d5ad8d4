------------------------------ MODULE Pidfile ------------------------------
(***************************************************************************)
(* The life of an instance of xltop-master or xltop-servd as far as others *)
(* can see it: its listening socket (the master only, evx_listen.c), the   *)
(* fork of daemon() and the file it is given with --pidfile, which         *)
(* pidfile_create opens, locks, truncates and writes and main unlinks when *)
(* the event loop is left.  Each is a system call of its own, so the       *)
(* starts and the ends of several instances interleave.  All instances     *)
(* are started with the same arguments, on the same host, and the name the *)
(* master binds has one address: evx_listen_add_name takes the first of    *)
(* several that is free.                                                   *)
(***************************************************************************)
EXTENDS Integers, FiniteSets

CONSTANTS
  Procs,   \* the instances; a process that has ended may be started again
  Inodes,  \* files that may be made
  NoFile, NoProc

ASSUME FilesAssumption == NoFile \notin Inodes /\ NoProc \notin Procs

VARIABLES
  prog,  \* which program it is
  pc,    \* how far each instance is
  fd,    \* the file it has open
  path,  \* the file its argument names
  lock,  \* who holds the F_WRLCK of each file
  text   \* whose pid each file contains

vars == <<prog, pc, fd, path, lock, text>>

(* Whose socket listens on the port of the master: the kernel lets only    *)
(* one do so, from listen() until the process ends.                        *)
Listening == {p \in Procs : prog = "master" /\ pc[p] \notin {"off", "bound"}}

Fresh == Inodes \ ({path} \cup {fd[p] : p \in Procs})

OpenTruncated(p) ==
  /\ pc[p] = "started"
  /\ \E f \in IF path = NoFile THEN Fresh ELSE {path} :
       /\ path' = f
       /\ fd' = [fd EXCEPT ![p] = f]
       /\ text' = [text EXCEPT ![f] = NoProc]
  /\ pc' = [pc EXCEPT ![p] = "opened"]
  /\ UNCHANGED <<prog, lock>>

(* open(path, O_RDWR|O_CREAT). *)
Open(p) ==
  /\ pc[p] = "started"
  /\ \E f \in IF path = NoFile THEN Fresh ELSE {path} :
       /\ path' = f
       /\ fd' = [fd EXCEPT ![p] = f]
       /\ text' = IF path = NoFile THEN [text EXCEPT ![f] = NoProc] ELSE text
  /\ pc' = [pc EXCEPT ![p] = "opened"]
  /\ UNCHANGED <<prog, lock>>

(* The kernel closes what the process has open and drops its lock. *)
Ends(p) ==
  /\ pc' = [pc EXCEPT ![p] = "off"]
  /\ fd' = [fd EXCEPT ![p] = NoFile]
  /\ lock' = [f \in Inodes |-> IF lock[f] = p THEN NoProc ELSE lock[f]]

(* bind() of evx_listen_add_addr.  With SO_REUSEADDR it succeeds as long   *)
(* as nobody listens.                                                      *)
Bind(p) ==
  /\ prog = "master" /\ pc[p] = "off"
  /\ Listening = {}
  /\ pc' = [pc EXCEPT ![p] = "bound"]
  /\ UNCHANGED <<prog, fd, path, lock, text>>

ListenUnchecked(p) ==
  /\ pc[p] = "bound"
  /\ pc' = [pc EXCEPT ![p] = "listening"]
  /\ UNCHANGED <<prog, fd, path, lock, text>>

(* listen() of evx_listen_add_addr; if it fails bind_cfg does, and main    *)
(* gives up.                                                               *)
Listen(p) ==
  /\ pc[p] = "bound"
  /\ pc' = [pc EXCEPT ![p] = IF Listening = {} THEN "listening" ELSE "off"]
  /\ UNCHANGED <<prog, fd, path, lock, text>>

(* daemon(): the fork inherits the socket, but no lock, and has a pid of   *)
(* its own.  Without --daemon the same instance goes on.                   *)
Daemon(p) ==
  /\ pc[p] = IF prog = "master" THEN "listening" ELSE "off"
  /\ pc' = [pc EXCEPT ![p] = "started"]
  /\ lock' = [f \in Inodes |-> IF lock[f] = p THEN NoProc ELSE lock[f]]
  /\ UNCHANGED <<prog, fd, path, text>>

(* fcntl(fd, F_SETLK): it fails if another instance holds the lock, and    *)
(* the caller gives up.                                                    *)
Lock(p) ==
  /\ pc[p] = "opened"
  /\ IF lock[fd[p]] = NoProc
     THEN /\ pc' = [pc EXCEPT ![p] = "locked"]
          /\ lock' = [lock EXCEPT ![fd[p]] = p]
          /\ UNCHANGED fd
     ELSE Ends(p)
  /\ UNCHANGED <<prog, path, text>>

Truncate(p) ==
  /\ pc[p] = "locked"
  /\ pc' = [pc EXCEPT ![p] = "truncated"]
  /\ text' = [text EXCEPT ![fd[p]] = NoProc]
  /\ UNCHANGED <<prog, fd, path, lock>>

Write(p) ==
  /\ pc[p] = "truncated"
  /\ pc' = [pc EXCEPT ![p] = "running"]
  /\ text' = [text EXCEPT ![fd[p]] = p]
  /\ UNCHANGED <<prog, fd, path, lock>>

(* SIGTERM: ev_run returns and main unlinks the path. *)
Unlink(p) ==
  /\ pc[p] = "running"
  /\ pc' = [pc EXCEPT ![p] = "leaving"]
  /\ path' = NoFile
  /\ UNCHANGED <<prog, fd, lock, text>>

Exit(p) == pc[p] = "leaving" /\ Ends(p) /\ UNCHANGED <<prog, path, text>>

(* The process is killed, or a call of pidfile_create fails. *)
Crash(p) == pc[p] # "off" /\ Ends(p) /\ UNCHANGED <<prog, path, text>>

Init ==
  /\ prog \in {"master", "servd"}
  /\ pc = [p \in Procs |-> "off"]
  /\ fd = [p \in Procs |-> NoFile]
  /\ path = NoFile
  /\ lock = [f \in Inodes |-> NoProc]
  /\ text = [f \in Inodes |-> NoProc]

Next ==
  \E p \in Procs :
    \/ Bind(p) \/ Listen(p) \/ Daemon(p)
    \/ Open(p) \/ Lock(p) \/ Truncate(p) \/ Write(p) \/ Unlink(p)
    \/ Exit(p) \/ Crash(p)

Spec == Init /\ [][Next]_vars

-----------------------------------------------------------------------------
(* An instance has the file open exactly from open() to its end.           *)
TypeOK ==
  /\ prog \in {"master", "servd"}
  /\ pc \in [Procs -> {"off", "bound", "listening", "started", "opened",
                       "locked", "truncated", "running", "leaving"}]
  /\ fd \in [Procs -> Inodes \cup {NoFile}]
  /\ \A p \in Procs : pc[p] \in {"off", "bound", "listening", "started"} <=> fd[p] = NoFile
  /\ path \in Inodes \cup {NoFile}
  /\ lock \in [Inodes -> Procs \cup {NoProc}]
  /\ text \in [Inodes -> Procs \cup {NoProc}]

(* An instance that runs and whose file is still at the path is the one    *)
(* the file names: no instance that starts, fails to start, is killed or   *)
(* ends takes that away (the order of lock and truncate in pidfile_create).*)
FileNamesHolder ==
  \A p \in Procs : pc[p] = "running" /\ fd[p] = path => text[path] = p

(* The pid of a running master is in the file at the path, whatever starts *)
(* beside it and whatever the ones before it left: the lock alone does not *)
(* see to that, since the file may be unlinked after it was opened, but    *)
(* main listens on the port before pidfile_create and until it ends.       *)
PidAtPath ==
  \A p \in Procs :
    prog = "master" /\ pc[p] = "running" => fd[p] = path /\ text[path] = p
=============================================================================
