--------------------------- MODULE PidfileProofs ---------------------------
(***************************************************************************)
(* Theorems about the pid files and the socket of xltop-master and         *)
(* xltop-servd, for any number of instances and files.                     *)
(***************************************************************************)
EXTENDS Pidfile, TLAPS

Unopened == {"off", "bound", "listening", "started"}
Opened == {"opened", "locked", "truncated", "running", "leaving"}
HoldsLock == Opened \ {"opened"}
AtPath == Opened \ {"leaving"}

(* From F_SETLK to its end an instance holds the lock of the file it has   *)
(* open, so no two of them have the same.                                  *)
LockHeld == \A p \in Procs : pc[p] \in HoldsLock => lock[fd[p]] = p

(* The file an instance has written to names it, at the path or not.       *)
FileKept == \A p \in Procs : pc[p] \in {"running", "leaving"} => text[fd[p]] = p

(* One master at most is beyond listen(). *)
OneListens == prog = "master" => \A p, q \in Listening : p = q

(* The file a master has opened stays at the path until it unlinks it.     *)
PathKept == prog = "master" => \A p \in Procs : pc[p] \in AtPath => fd[p] = path

FileInv == TypeOK /\ LockHeld /\ FileKept /\ OneListens /\ PathKept

(* What all proofs below need of the types: the file an instance has open. *)
LEMMA OpenedHasFile ==
  ASSUME TypeOK, NEW p \in Procs, pc[p] \in Opened
  PROVE  fd[p] \in Inodes
BY FilesAssumption DEF TypeOK, Opened

-----------------------------------------------------------------------------
LEMMA InitFile == Init => FileInv
BY FilesAssumption
DEF Init, FileInv, TypeOK, LockHeld, FileKept, OneListens, PathKept, Listening,
    HoldsLock, Opened, AtPath

(* Nothing is opened, locked or written before daemon() has returned. *)
LEMMA SocketKeepsFile ==
  ASSUME FileInv, NEW p \in Procs, Bind(p) \/ Listen(p) \/ Daemon(p)
  PROVE  FileInv'
<1> USE DEF FileInv
<1>1. /\ pc[p] \in Unopened /\ pc'[p] \in Unopened
      /\ pc' = [pc EXCEPT ![p] = pc'[p]]
      /\ UNCHANGED <<prog, fd, path, text>>
  BY DEF Bind, Listen, Daemon, Unopened, TypeOK
<1>2. \/ UNCHANGED lock
      \/ lock' = [f \in Inodes |-> IF lock[f] = p THEN NoProc ELSE lock[f]]
  BY DEF Bind, Listen, Daemon
<1>3. TypeOK'
  BY <1>1, <1>2 DEF TypeOK, Unopened
<1>4. LockHeld'
  BY <1>1, <1>2, OpenedHasFile DEF LockHeld, HoldsLock, Opened, Unopened, TypeOK
<1>5. FileKept'
  BY <1>1 DEF FileKept, Unopened, TypeOK
<1>6. OneListens'
  <2>1. CASE Bind(p) \/ Daemon(p)
    <3>1. prog = "master" => Listening' \subseteq Listening
      BY <2>1 DEF Bind, Daemon, Listening, TypeOK
    <3>2. QED
      BY <1>1, <3>1 DEF OneListens
  <2>2. CASE Listen(p)
    <3>1. Listening' \subseteq Listening \/ Listening' \subseteq {p}
      BY <2>2 DEF Listen, Listening, TypeOK
    <3>2. QED
      BY <1>1, <3>1 DEF OneListens
  <2>3. QED
    BY <2>1, <2>2
<1>7. PathKept'
  BY <1>1 DEF PathKept, AtPath, Opened, Unopened, TypeOK
<1>8. QED
  BY <1>3, <1>4, <1>5, <1>6, <1>7

(* A file that open() makes is nobody's yet; a master that opens one is    *)
(* the only one to have one open.                                          *)
LEMMA OpenKeepsFile ==
  ASSUME FileInv, NEW p \in Procs, Open(p)
  PROVE  FileInv'
<1> USE DEF FileInv
<1>1. PICK f \in IF path = NoFile THEN Fresh ELSE {path} :
        /\ path' = f
        /\ fd' = [fd EXCEPT ![p] = f]
        /\ text' = IF path = NoFile THEN [text EXCEPT ![f] = NoProc] ELSE text
  BY DEF Open
<1>2. /\ pc[p] = "started" /\ pc' = [pc EXCEPT ![p] = "opened"]
      /\ UNCHANGED <<prog, lock>>
  BY DEF Open
<1>3. f \in Inodes /\ f # NoFile
  BY FilesAssumption DEF Fresh, TypeOK
<1>4. TypeOK'
  BY <1>1, <1>2, <1>3 DEF TypeOK
<1>5. LockHeld'
  BY <1>1, <1>2, <1>3 DEF LockHeld, HoldsLock, Opened, TypeOK
<1>6. FileKept'
  <2>1. SUFFICES ASSUME NEW q \in Procs, pc'[q] \in {"running", "leaving"}
                 PROVE  text'[fd'[q]] = q
    BY DEF FileKept
  <2>2. q # p /\ pc[q] = pc'[q] /\ fd'[q] = fd[q]
    BY <1>1, <1>2, <2>1 DEF TypeOK
  <2>3. text[fd[q]] = q /\ fd[q] \in Inodes
    BY <2>1, <2>2, OpenedHasFile DEF FileKept, Opened
  <2>4. CASE path = NoFile
    BY <1>1, <2>2, <2>3, <2>4 DEF Fresh, TypeOK
  <2>5. CASE path # NoFile
    BY <1>1, <2>2, <2>3, <2>5
  <2>6. QED
    BY <2>4, <2>5
<1>7. OneListens'
  BY <1>2 DEF OneListens, Listening, TypeOK
<1>8. PathKept'
  <2>1. SUFFICES ASSUME prog = "master", NEW q \in Procs, pc'[q] \in AtPath
                 PROVE  fd'[q] = path'
    BY <1>2 DEF PathKept
  <2>2. p \in Listening
    BY <1>2, <2>1 DEF Listening, TypeOK
  <2>3. CASE q # p
    <3>1. q \in Listening
      BY <1>2, <2>1, <2>3 DEF Listening, AtPath, Opened, TypeOK
    <3>2. QED
      BY <2>1, <2>2, <2>3, <3>1 DEF OneListens
  <2>4. CASE q = p
    BY <1>1, <2>4 DEF TypeOK
  <2>5. QED
    BY <2>3, <2>4
<1>9. QED
  BY <1>4, <1>5, <1>6, <1>7, <1>8

(* An instance that ends takes nothing but its own with it. *)
LEMMA EndsKeepsFile ==
  ASSUME FileInv, NEW p \in Procs, Ends(p), UNCHANGED <<prog, path, text>>
  PROVE  FileInv'
<1> USE DEF FileInv
<1>1. TypeOK'
  BY DEF Ends, TypeOK
<1>2. LockHeld'
  <2>1. SUFFICES ASSUME NEW q \in Procs, pc'[q] \in HoldsLock
                 PROVE  lock'[fd'[q]] = q
    BY DEF LockHeld
  <2>2. q # p /\ pc[q] = pc'[q] /\ fd'[q] = fd[q]
    BY <2>1 DEF Ends, HoldsLock, Opened, TypeOK
  <2>3. lock[fd[q]] = q /\ fd[q] \in Inodes
    BY <2>1, <2>2, OpenedHasFile DEF LockHeld, HoldsLock
  <2>4. QED
    BY <2>2, <2>3 DEF Ends
<1>3. FileKept'
  BY DEF Ends, FileKept, TypeOK
<1>4. OneListens'
  BY DEF Ends, OneListens, Listening, TypeOK
<1>5. PathKept'
  BY DEF Ends, PathKept, AtPath, Opened, TypeOK
<1>6. QED
  BY <1>1, <1>2, <1>3, <1>4, <1>5

(* F_SETLK succeeds only if nobody else is between it and the end. *)
LEMMA LockKeepsFile ==
  ASSUME FileInv, NEW p \in Procs, Lock(p)
  PROVE  FileInv'
<1> USE DEF FileInv
<1>1. CASE lock[fd[p]] # NoProc
  BY <1>1, EndsKeepsFile DEF Lock
<1>2. CASE lock[fd[p]] = NoProc
  <2>1. /\ pc[p] = "opened" /\ pc' = [pc EXCEPT ![p] = "locked"]
        /\ lock' = [lock EXCEPT ![fd[p]] = p]
        /\ UNCHANGED <<prog, fd, path, text>>
    BY <1>2 DEF Lock
  <2>2. fd[p] \in Inodes
    BY <2>1, OpenedHasFile DEF Opened
  <2>3. TypeOK'
    BY <2>1, <2>2 DEF TypeOK
  <2>4. LockHeld'
    <3>1. SUFFICES ASSUME NEW q \in Procs, pc'[q] \in HoldsLock
                   PROVE  lock'[fd[q]] = q
      BY <2>1 DEF LockHeld
    <3>2. CASE q = p
      BY <2>1, <2>2, <3>2 DEF TypeOK
    <3>3. CASE q # p
      <4>1. lock[fd[q]] = q /\ q # NoProc
        BY <2>1, <3>1, <3>3, FilesAssumption DEF LockHeld, TypeOK
      <4>2. fd[q] # fd[p]
        BY <1>2, <4>1
      <4>3. QED
        BY <2>1, <4>1, <4>2, <2>2, <3>1, <3>3, OpenedHasFile
        DEF TypeOK, HoldsLock
    <3>4. QED
      BY <3>2, <3>3
  <2>5. FileKept' /\ OneListens' /\ PathKept'
    BY <2>1 DEF FileKept, OneListens, PathKept, Listening, AtPath, Opened, TypeOK
  <2>6. QED
    BY <2>3, <2>4, <2>5
<1>3. QED
  BY <1>1, <1>2

(* Only the holder of its lock writes to a file. *)
LEMMA TextKeepsFile ==
  ASSUME FileInv, NEW p \in Procs, Truncate(p) \/ Write(p)
  PROVE  FileInv'
<1> USE DEF FileInv
<1>1. /\ pc[p] \in {"locked", "truncated"}
      /\ \/ /\ pc' = [pc EXCEPT ![p] = "truncated"]
            /\ text' = [text EXCEPT ![fd[p]] = NoProc]
         \/ /\ pc' = [pc EXCEPT ![p] = "running"]
            /\ text' = [text EXCEPT ![fd[p]] = p]
      /\ UNCHANGED <<prog, fd, path, lock>>
  BY DEF Truncate, Write
<1>2. fd[p] \in Inodes /\ lock[fd[p]] = p
  BY <1>1, OpenedHasFile DEF LockHeld, HoldsLock, Opened
<1>3. TypeOK'
  BY <1>1, <1>2 DEF TypeOK
<1>4. LockHeld' /\ OneListens' /\ PathKept'
  BY <1>1 DEF LockHeld, OneListens, PathKept, Listening, HoldsLock, AtPath, Opened, TypeOK
<1>5. FileKept'
  <2>1. SUFFICES ASSUME NEW q \in Procs, pc'[q] \in {"running", "leaving"}
                 PROVE  text'[fd[q]] = q
    BY <1>1 DEF FileKept
  <2>2. CASE q = p
    BY <1>1, <1>2, <2>1, <2>2 DEF TypeOK
  <2>3. CASE q # p
    <3>1. pc[q] = pc'[q] /\ fd[q] \in Inodes
      BY <1>1, <2>1, <2>3, OpenedHasFile DEF TypeOK, Opened
    <3>2. lock[fd[q]] = q /\ text[fd[q]] = q
      BY <2>1, <3>1 DEF LockHeld, FileKept, HoldsLock, Opened
    <3>3. fd[q] # fd[p]
      BY <1>2, <2>3, <3>2
    <3>4. QED
      BY <1>1, <3>1, <3>2, <3>3, <1>2 DEF TypeOK
  <2>4. QED
    BY <2>2, <2>3
<1>6. QED
  BY <1>3, <1>4, <1>5

(* The master that unlinks the path is the only one with a file open. *)
LEMMA UnlinkKeepsFile ==
  ASSUME FileInv, NEW p \in Procs, Unlink(p)
  PROVE  FileInv'
<1> USE DEF FileInv
<1>1. TypeOK' /\ LockHeld' /\ FileKept' /\ OneListens'
  BY DEF Unlink, TypeOK, LockHeld, FileKept, OneListens, Listening, HoldsLock, Opened
<1>2. PathKept'
  <2>1. SUFFICES ASSUME prog = "master", NEW q \in Procs, pc'[q] \in AtPath
                 PROVE  FALSE
    BY DEF PathKept, Unlink
  <2>2. q # p /\ pc[q] \in AtPath
    BY <2>1 DEF Unlink, AtPath, Opened, TypeOK
  <2>3. p \in Listening /\ q \in Listening
    BY <2>1, <2>2 DEF Unlink, Listening, AtPath, Opened
  <2>4. QED
    BY <2>1, <2>2, <2>3 DEF OneListens
<1>3. QED
  BY <1>1, <1>2

LEMMA NextFile == FileInv /\ [Next]_vars => FileInv'
<1>1. SUFFICES ASSUME FileInv, [Next]_vars
               PROVE  FileInv'
  OBVIOUS
<1>2. ASSUME NEW p \in Procs, Bind(p) \/ Listen(p) \/ Daemon(p)
      PROVE  FileInv'
  BY <1>1, <1>2, SocketKeepsFile
<1>3. ASSUME NEW p \in Procs, Open(p)
      PROVE  FileInv'
  BY <1>1, <1>3, OpenKeepsFile
<1>4. ASSUME NEW p \in Procs, Lock(p)
      PROVE  FileInv'
  BY <1>1, <1>4, LockKeepsFile
<1>5. ASSUME NEW p \in Procs, Truncate(p) \/ Write(p)
      PROVE  FileInv'
  BY <1>1, <1>5, TextKeepsFile
<1>6. ASSUME NEW p \in Procs, Unlink(p)
      PROVE  FileInv'
  BY <1>1, <1>6, UnlinkKeepsFile
<1>7. ASSUME NEW p \in Procs, Exit(p) \/ Crash(p)
      PROVE  FileInv'
  BY <1>1, <1>7, EndsKeepsFile DEF Exit, Crash
<1>8. CASE UNCHANGED vars
  BY <1>1, <1>8
  DEF vars, FileInv, TypeOK, LockHeld, FileKept, OneListens, PathKept, Listening
<1>9. QED
  BY <1>1, <1>2, <1>3, <1>4, <1>5, <1>6, <1>7, <1>8 DEF Next

(* FileInv holds at every step of any number of starts, ends and crashes.  *)
LEMMA FileInvAlways == Spec => []FileInv
BY InitFile, NextFile, PTL DEF Spec

-----------------------------------------------------------------------------
(* The file at the path names the instance that runs with it open, however *)
(* starts, failed starts, ends and crashes of others interleave with the   *)
(* system calls of pidfile_create.                                         *)
THEOREM FileAlwaysNamesHolder == Spec => []FileNamesHolder
<1>1. FileInv => FileNamesHolder
  BY DEF FileInv, FileNamesHolder, FileKept
<1>2. QED
  BY <1>1, FileInvAlways, PTL

(* The pid of a running master is at the path, because main listens before *)
(* pidfile_create and the kernel lets one socket listen on a port.         *)
THEOREM PidAlwaysAtPath == Spec => []PidAtPath
<1>1. FileInv => PidAtPath
  BY DEF FileInv, PidAtPath, PathKept, FileKept, AtPath, Opened
<1>2. QED
  BY <1>1, FileInvAlways, PTL
=============================================================================
