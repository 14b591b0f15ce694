-------------------------------- MODULE PidFile --------------------------------
(***************************************************************************)
(* The pid file (collector/PidFile.cpp) of instances of the collector that *)
(* are given the same path.  fs is what the kernel keeps: the file that    *)
(* the path leads to, the pid in it, the file each instance has open, and  *)
(* who holds the lock on each file.  An instance that makes itself a       *)
(* daemon goes on under another pid; locks of lockf() belong to a pid and  *)
(* are not handed down.                                                    *)
(***************************************************************************)
EXTENDS Naturals

CONSTANTS
    Proc,       \* the instances
    NoProc,     \* nobody
    Inode,      \* files, in the order the kernel takes them
    NoInode     \* no file: the path leads nowhere, or m_fd is -1

\* There is always a file that no instance has open.
ASSUME PidFileAssumption ==
    /\ NoProc \notin Proc
    /\ NoInode \notin Inode
    /\ \A f \in [Proc -> Inode \cup {NoInode}] : \E i \in Inode : \A q \in Proc : f[q] # i

Pid == Proc \X {"launcher", "daemon"}
NoPid == <<NoProc, "none">>

FsType ==
    [path : Inode \cup {NoInode},
     text : Pid \cup {NoPid},
     fd   : [Proc -> Inode \cup {NoInode}],
     lock : [Inode -> Proc \cup {NoProc}]]

EmptyFs ==
    [path |-> NoInode, text |-> NoPid,
     fd |-> [p \in Proc |-> NoInode], lock |-> [i \in Inode |-> NoProc]]

\* The file behind the path, made if there is none (O_CREAT).
FileAt(fs) ==
    IF fs.path # NoInode THEN fs.path
    ELSE CHOOSE i \in Inode : \A q \in Proc : fs.fd[q] # i

unlink(fs) == [fs EXCEPT !.path = NoInode, !.text = NoPid]

\* The locks of p are gone: its process has ended, or has become another one.
unlocked(fs, p) ==
    [fs EXCEPT !.lock = [i \in Inode |-> IF fs.lock[i] = p THEN NoProc ELSE fs.lock[i]]]

\* aquire(), in two steps: open() and lockf(F_TLOCK).
opened(fs, p) == [fs EXCEPT !.path = FileAt(fs), !.fd[p] = FileAt(fs)]

CanLock(fs, p) == fs.lock[fs.fd[p]] = NoProc
locked(fs, p) == [fs EXCEPT !.lock[fs.fd[p]] = p]

\* write(): m_fd is truncated, and the file behind the path gets the pid.
written(fs, pid) == [fs EXCEPT !.path = FileAt(fs), !.text = pid]

\* The kernel closes the file of a process that has ended.
closed(fs, p) == [unlocked(fs, p) EXCEPT !.fd[p] = NoInode]

\* The destructor: unlocks, closes and removes, lock or no lock.
destroyed(fs, p) == IF fs.fd[p] = NoInode THEN fs ELSE unlink(closed(fs, p))
=============================================================================
