------------------------------- MODULE Fs -------------------------------
(***************************************************************************)
(* Names, inodes and open files: the inode layer and path lookup of        *)
(* kernel/fs.c, the system calls of kernel/sysfile.c that change the tree, *)
(* and the file table of kernel/file.c, called by processes that fork()    *)
(* and exit() and share open files and directories.                        *)
(*                                                                         *)
(* A step goes from one inode lock to the next: what a process does while  *)
(* it has an inode locked and meets no other lock is one step.  Steps      *)
(* under itable.lock or ftable.lock are steps of their own.  A call is one *)
(* transaction of module Log, so that a crash brings back the disk as it   *)
(* was at a moment when no call was open.                                  *)
(*                                                                         *)
(* Faulty variants of a definition stand right before it (such as          *)
(* lastUseAny); they only serve to show that a property can fail.          *)
(***************************************************************************)
EXTENDS Integers, Sequences, FiniteSets, SequencesExt, TLC

CONSTANTS
    Proc, InitProc,  \* processes, and the one that runs from the start
    Inum, Root,      \* inode numbers, no more than the NINODE table entries
    Name,            \* names of directory entries other than "." and ".."
    Args,            \* paths that each process gives each call: sequences over Name \cup {".", ".."}
    Type,            \* what mkdir() and mknod() make: {"dir", "dev"}
    File,            \* the NFILE entries of the file table
    NOFILE,          \* open files of a process
    MaxStray,        \* bound on the inodes adrift or lost when a call begins
    None

ASSUME FsAssumption ==
    /\ InitProc \in Proc /\ Root \in Inum
    /\ None \notin Proc \cup Inum \cup File \cup Name
    /\ NOFILE \in Nat /\ MaxStray \in Nat

VARIABLES
    disk,    \* type and nlink of each dinode
    dir,     \* entries of each directory, ".." among them
    mem,     \* the inode table: ref, valid, lock and the copies of type and nlink
    ftable,  \* each struct file: ref and ip
    cwd, fd, \* of each process; None is the cwd of an unused one
    pr,      \* each process's place in its call, and the locals it has there
    adrift,  \* inodes reached through a directory that was already removed
    lost     \* inodes that lost their last reference without being freed

vars == <<disk, dir, mem, ftable, cwd, fd, pr, adrift, lost>>
fsVars == <<disk, dir, adrift>>
fileVars == <<ftable, cwd, fd>>

NoEntries == [n \in Name \cup {".."} |-> None]
Idle == [pc |-> "user", then |-> "", path |-> << >>, op |-> "", par |-> FALSE,
         cur |-> None, ip |-> None, dp |-> None, name |-> None, new |-> << >>, puts |-> << >>]
Unused == [ref |-> 0, valid |-> FALSE, lock |-> None, type |-> "free", nlink |-> 0]

\* The file system that mkfs makes, and the process that userinit() makes.
Init ==
    /\ disk = [i \in Inum |-> IF i = Root THEN [type |-> "dir", nlink |-> 1]
                                          ELSE [type |-> "free", nlink |-> 0]]
    /\ dir = [i \in Inum |-> IF i = Root THEN [NoEntries EXCEPT ![".."] = Root] ELSE NoEntries]
    /\ mem = [i \in Inum |-> IF i = Root THEN [Unused EXCEPT !.ref = 1] ELSE Unused]
    /\ ftable = [f \in File |-> [ref |-> 0, ip |-> None]]
    /\ cwd = [p \in Proc |-> IF p = InitProc THEN Root ELSE None]
    /\ fd = [p \in Proc |-> [k \in 1 .. NOFILE |-> None]]
    /\ pr = [p \in Proc |-> Idle]
    /\ adrift = {} /\ lost = {}

\* p goes on with the locals of r changed.
Set(p, r) == pr' = [pr EXCEPT ![p] = r @@ @]

\* end_op() and the return to user space.
Return(p) == pr' = [pr EXCEPT ![p] = Idle]

At(p, l) == pr[p].pc = l
User(p) == At(p, "user") /\ cwd[p] # None

\* iput() of the inodes in s one after the other, and then on at l, with
\* the locals of r changed.
Put(p, s, l, r) == Set(p, [pc |-> "iput", puts |-> s, then |-> l] @@ r)
------------------------------------------------------------------------
\* Inodes in memory.  These take the table m and return the changed one.
iget(m, i) ==
    [m EXCEPT ![i] = IF @.ref > 0 THEN [@ EXCEPT !.ref = @ + 1]
                                  ELSE [@ EXCEPT !.ref = 1, !.valid = FALSE]]
idup(m, i) == [m EXCEPT ![i].ref = @ + 1]

ilock(m, i, p) ==
    [m EXCEPT ![i] = IF @.valid THEN [@ EXCEPT !.lock = p]
                     ELSE [ref |-> @.ref, valid |-> TRUE, lock |-> p,
                           type |-> disk[i].type, nlink |-> disk[i].nlink]]
iunlock(m, i) == [m EXCEPT ![i].lock = None]

\* iupdate(): the dinode gets what the inode has.
iupdate(d, m, i) == [d EXCEPT ![i] = [type |-> m[i].type, nlink |-> m[i].nlink]]

\* The inode that p asks for with its next ilock().
Wants(p) ==
    LET r == pr[p] IN
    CASE r.pc \in {"open", "chdir", "link", "link bad", "unlink ip", "create old", "create new"} -> r.ip
      [] r.pc \in {"link dir", "unlink", "create"} -> r.dp
      [] r.pc = "namex" /\ r.path # << >> -> r.cur
      [] OTHER -> None

NoType(i) == ~mem[i].valid /\ disk[i].type = "free"

\* p is at l, and the inode it wants is free to lock and has a type.
Locks(p, l) ==
    At(p, l) /\ Wants(p) # None /\ mem[Wants(p)].lock = None /\ ~NoType(Wants(p))

\* ilock() of an inode without a type: panic() loops for ever.
ilock_panic(p) ==
    /\ Wants(p) # None /\ mem[Wants(p)].lock = None /\ NoType(Wants(p))
    /\ UNCHANGED vars
------------------------------------------------------------------------
\* iput() without the last link gone, or with other references: drop one.
\* When it was the last call of iput(), p goes on.
putDone(p) ==
    LET s == Tail(pr[p].puts) IN
    IF s # << >> THEN Set(p, [pc |-> "iput", puts |-> s])
    ELSE IF pr[p].then = "end" THEN Return(p)
    ELSE Set(p, [pc |-> pr[p].then, puts |-> s, then |-> ""])

lastUseAny(i) == mem[i].valid /\ mem[i].nlink = 0
lastUse(i) == mem[i].ref = 1 /\ mem[i].valid /\ mem[i].nlink = 0

iput_drop(p) ==
    LET i == Head(pr[p].puts) IN
    /\ At(p, "iput") /\ ~lastUse(i)
    /\ mem' = [mem EXCEPT ![i].ref = @ - 1]
    /\ putDone(p)
    /\ UNCHANGED <<fsVars, fileVars, lost>>

iput_lock(p) ==
    LET i == Head(pr[p].puts) IN
    /\ At(p, "iput") /\ lastUse(i) /\ mem[i].lock = None
    /\ mem' = [mem EXCEPT ![i].lock = p]
    /\ Set(p, [pc |-> "itrunc"])
    /\ UNCHANGED <<fsVars, fileVars, lost>>

\* itrunc(), ip->type = 0 and iupdate(); the dinode is free from here on.
iput_free(p) ==
    LET i == Head(pr[p].puts) IN
    /\ At(p, "itrunc")
    /\ mem' = [mem EXCEPT ![i].type = "free"]
    /\ disk' = iupdate(disk, mem', i)
    /\ dir' = [dir EXCEPT ![i] = NoEntries]
    /\ Set(p, [pc |-> "freed"])
    /\ UNCHANGED <<adrift, fileVars, lost>>

iput_unlock(m, i) == [m EXCEPT ![i].lock = None, ![i].valid = FALSE]

iput_freed(p) ==
    /\ At(p, "freed")
    /\ mem' = iput_unlock(mem, Head(pr[p].puts))
    /\ Set(p, [pc |-> "unref"])
    /\ UNCHANGED <<fsVars, fileVars, lost>>

\* The last reference is dropped without a second look at the inode: if it
\* was allocated again and unlinked since iput_freed(), it is lost.
iput_unref(p) ==
    LET i == Head(pr[p].puts) IN
    /\ At(p, "unref")
    /\ mem' = [mem EXCEPT ![i].ref = @ - 1]
    /\ lost' = IF lastUse(i) THEN lost \cup {i} ELSE lost
    /\ putDone(p)
    /\ UNCHANGED <<fsVars, fileVars>>

iput(p) == iput_drop(p) \/ iput_lock(p) \/ iput_free(p) \/ iput_freed(p) \/ iput_unref(p)
------------------------------------------------------------------------
\* dirlookup(): the inode number, or None.
dirlookup(i, n) == IF n = "." THEN i ELSE dir[i][n]

\* Begin system call op: namei() of path, or nameiparent(), comes first.
Begin(p, op, path, parent, new) ==
    /\ User(p) /\ Cardinality(adrift \cup lost) <= MaxStray
    /\ mem' = idup(mem, cwd[p])
    /\ Set(p, [pc |-> "namex", op |-> op, path |-> path, par |-> parent, new |-> new, cur |-> cwd[p]])
    /\ UNCHANGED <<fsVars, fileVars, lost>>

\* Where p goes on when namex() finds nothing.
Fails(p) == IF pr[p].op = "link dir" THEN "link bad" ELSE "end"

\* No path element left.
namex_end(p) ==
    LET r == pr[p] IN
    /\ At(p, "namex") /\ r.path = << >>
    /\ IF r.par THEN Put(p, <<r.cur>>, Fails(p), [cur |-> None, op |-> "", par |-> FALSE])
                ELSE Set(p, [pc |-> r.op, ip |-> r.cur, cur |-> None, op |-> ""])
    /\ UNCHANGED <<fsVars, mem, fileVars, lost>>

\* One turn of the loop: lock, look up, unlock; the iput() comes after it.
namex_turn(p) ==
    LET r == pr[p]  i == r.cur  m == ilock(mem, i, p)
        n == Head(r.path)  rest == Tail(r.path)  next == dirlookup(i, n)
        stop == r.par /\ rest = << >> IN
    /\ Locks(p, "namex")
    /\ \/ /\ m[i].type # "dir" \/ (next = None /\ ~stop)
          /\ mem' = iunlock(m, i)
          /\ Put(p, <<i>>, Fails(p), [cur |-> None, path |-> << >>, op |-> "", par |-> FALSE])
          /\ UNCHANGED adrift
       \/ /\ m[i].type = "dir" /\ stop
          /\ mem' = iunlock(m, i)
          /\ Set(p, [pc |-> r.op, dp |-> i, name |-> n,
                      cur |-> None, path |-> << >>, op |-> "", par |-> FALSE])
          /\ UNCHANGED adrift
       \/ /\ m[i].type = "dir" /\ ~stop /\ next # None
          /\ mem' = iunlock(iget(m, next), i)
          /\ Put(p, <<i>>, "namex", [cur |-> next, path |-> rest])
          /\ adrift' = IF m[i].nlink = 0 /\ disk[next].nlink = 0 THEN adrift \cup {next} ELSE adrift
    /\ UNCHANGED <<disk, dir, fileVars, lost>>

namex(p) == namex_end(p) \/ namex_turn(p)
------------------------------------------------------------------------
\* What is put into a directory that is already removed is not found again.
Adrift(d, s) == adrift' = IF mem[d].valid /\ mem[d].nlink = 0 THEN adrift \cup s ELSE adrift

\* create(), at ilock(dp).
create_old(p) ==
    LET r == pr[p]  m == ilock(mem, r.dp, p)  i == dirlookup(r.dp, r.name) IN
    /\ Locks(p, "create") /\ i # None
    /\ mem' = iunlock(iget(m, i), r.dp)
    /\ Put(p, <<r.dp>>, "create old", [ip |-> i, dp |-> None, name |-> None])
    /\ UNCHANGED <<fsVars, fileVars, lost>>

create_found(p) ==
    LET r == pr[p]  i == r.ip  m == ilock(mem, i, p) IN
    /\ Locks(p, "create old")
    /\ IF r.new = "file" /\ m[i].type \in {"file", "dev"}
         THEN /\ mem' = m
              /\ Set(p, [pc |-> "opened"])
         ELSE /\ mem' = iunlock(m, i)
              /\ Put(p, <<i>>, "end", [ip |-> None])
    /\ UNCHANGED <<fsVars, fileVars, lost>>

\* ialloc(): any free inode, for others may take and give back inodes
\* during the scan; or none.
create_ialloc(p) ==
    LET r == pr[p]  m == ilock(mem, r.dp, p) IN
    /\ Locks(p, "create") /\ dirlookup(r.dp, r.name) = None
    /\ \/ \E i \in Inum :
             /\ disk[i].type = "free"
             /\ disk' = [disk EXCEPT ![i] = [type |-> r.new, nlink |-> 0]]
             /\ mem' = iget(m, i)
             /\ Set(p, [pc |-> "create new", ip |-> i])
       \/ /\ \A i \in Inum : disk[i].type # "free"
          /\ mem' = iunlock(m, r.dp)
          /\ Put(p, <<r.dp>>, "end", [dp |-> None])
          /\ UNCHANGED disk
    /\ UNCHANGED <<dir, adrift, fileVars, lost>>

\* ilock(ip) with dp locked, and the rest of create().
create_new(p) ==
    LET r == pr[p]  i == r.ip  d == r.dp  isdir == r.new = "dir"
        m == [ilock(mem, i, p) EXCEPT ![i].nlink = 1, ![d].nlink = @ + (IF isdir THEN 1 ELSE 0)] IN
    /\ Locks(p, "create new")
    /\ mem' = iunlock(m, d)
    /\ disk' = iupdate(iupdate(disk, m, i), m, d)
    /\ dir' = [dir EXCEPT ![d][r.name] = i, ![i][".."] = IF isdir THEN d ELSE None]
    /\ Adrift(d, IF isdir THEN {i, d} ELSE {i})
    /\ Put(p, <<d>>, "opened", [dp |-> None, name |-> None])
    /\ UNCHANGED <<fileVars, lost>>

\* A dirlink() fails because the disk is full.
create_fail(p) ==
    LET r == pr[p]  i == r.ip  m == [ilock(mem, i, p) EXCEPT ![i].nlink = 0] IN
    /\ Locks(p, "create new")
    /\ mem' = iunlock(m, i)
    /\ disk' = iupdate(disk, m, i)
    /\ Put(p, <<i>>, "bad", [ip |-> None, name |-> None])
    /\ UNCHANGED <<dir, adrift, fileVars, lost>>

\* iunlockput(dp) on an error path, with nothing but dp in hand.
bad(p) ==
    /\ At(p, "bad")
    /\ mem' = iunlock(mem, pr[p].dp)
    /\ Put(p, <<pr[p].dp>>, "end", [dp |-> None])
    /\ UNCHANGED <<fsVars, fileVars, lost>>

create(p) == create_old(p) \/ create_found(p) \/ create_ialloc(p) \/ create_new(p) \/ create_fail(p)

\* sys_mkdir() and sys_mknod() after create().
sys_mknod_end(p) ==
    /\ At(p, "opened") /\ pr[p].new # "file"
    /\ mem' = iunlock(mem, pr[p].ip)
    /\ Put(p, <<pr[p].ip>>, "end", [ip |-> None])
    /\ UNCHANGED <<fsVars, fileVars, lost>>
------------------------------------------------------------------------
\* sys_open() without O_CREATE: omode is O_RDONLY or not.
sys_open(p, rdonly) ==
    LET i == pr[p].ip  m == ilock(mem, i, p) IN
    /\ Locks(p, "open")
    /\ IF m[i].type = "dir" /\ ~rdonly
         THEN /\ mem' = iunlock(m, i)
              /\ Put(p, <<i>>, "end", [ip |-> None])
         ELSE /\ mem' = m
              /\ Set(p, [pc |-> "opened", new |-> "file"])
    /\ UNCHANGED <<fsVars, fileVars, lost>>

FreeFd(p) == {k \in 1 .. NOFILE : fd[p][k] = None}

\* The rest of sys_open(), with ip locked: filealloc() and fdalloc().
sys_open_file(p) ==
    LET i == pr[p].ip  free == {f \in File : ftable[f].ref = 0} IN
    /\ At(p, "opened") /\ pr[p].new = "file"
    /\ mem' = iunlock(mem, i)
    /\ \/ /\ free # {} /\ FreeFd(p) # {}
          /\ LET f == CHOOSE f \in free : TRUE
                 k == CHOOSE k \in FreeFd(p) : \A l \in FreeFd(p) : k <= l IN
             /\ ftable' = [ftable EXCEPT ![f] = [ref |-> 1, ip |-> i]]
             /\ fd' = [fd EXCEPT ![p][k] = f]
          /\ Return(p)
       \* no file, no descriptor, or a device of no driver
       \/ /\ free = {} \/ FreeFd(p) = {} \/ mem[i].type = "dev"
          /\ Put(p, <<i>>, "end", [ip |-> None])
          /\ UNCHANGED <<ftable, fd>>
    /\ UNCHANGED <<fsVars, cwd, lost>>

sys_chdir(p) ==
    LET i == pr[p].ip  m == ilock(mem, i, p) IN
    /\ Locks(p, "chdir")
    /\ mem' = iunlock(m, i)
    /\ IF m[i].type # "dir"
         THEN Put(p, <<i>>, "end", [ip |-> None]) /\ UNCHANGED cwd
         ELSE Put(p, <<cwd[p]>>, "end", [ip |-> None]) /\ cwd' = [cwd EXCEPT ![p] = i]
    /\ UNCHANGED <<fsVars, ftable, fd, lost>>
------------------------------------------------------------------------
\* sys_link() counts the link first, and looks for the new name after it
\* has unlocked the inode.
sys_link_oldLocked(m, i) == m
sys_link_old(m, i) == iunlock(m, i)

sys_link(p) ==
    LET r == pr[p]  i == r.ip  m == ilock(mem, i, p)
        m1 == [m EXCEPT ![i].nlink = @ + 1] IN
    /\ Locks(p, "link")
    /\ IF m[i].type = "dir"
         THEN /\ mem' = iunlock(m, i)
              /\ Put(p, <<i>>, "end", [ip |-> None])
              /\ UNCHANGED disk
         ELSE /\ disk' = iupdate(disk, m1, i)
              /\ mem' = idup(sys_link_old(m1, i), cwd[p])
              /\ Set(p, [pc |-> "namex", op |-> "link dir", path |-> r.new, par |-> TRUE,
                         cur |-> cwd[p], new |-> << >>])
    /\ UNCHANGED <<dir, adrift, fileVars, lost>>

\* dirlink() of the new name; it fails when the name is there, or the disk
\* is full.
sys_link_dir(p) ==
    LET r == pr[p]  i == r.ip  d == r.dp  m == ilock(mem, d, p) IN
    /\ Locks(p, "link dir")
    /\ mem' = iunlock(m, d)
    /\ \/ /\ dirlookup(d, r.name) = None
          /\ dir' = [dir EXCEPT ![d][r.name] = i]
          /\ adrift' = IF m[d].nlink = 0 THEN adrift \cup {i} ELSE adrift
          /\ Put(p, <<d, i>>, "end", [dp |-> None, ip |-> None])
       \/ /\ Put(p, <<d>>, "link bad", [dp |-> None, name |-> None])
          /\ UNCHANGED <<dir, adrift>>
    /\ UNCHANGED <<disk, fileVars, lost>>

sys_link_bad(p) ==
    LET i == pr[p].ip  m == [ilock(mem, i, p) EXCEPT ![i].nlink = @ - 1] IN
    /\ Locks(p, "link bad")
    /\ disk' = iupdate(disk, m, i)
    /\ mem' = iunlock(m, i)
    /\ Put(p, <<i>>, "end", [ip |-> None])
    /\ UNCHANGED <<dir, adrift, fileVars, lost>>
------------------------------------------------------------------------
\* sys_unlink(), at ilock(dp).
sys_unlink(p) ==
    LET r == pr[p]  d == r.dp  m == ilock(mem, d, p)
        i == IF r.name \in {".", ".."} THEN None ELSE dirlookup(d, r.name) IN
    /\ Locks(p, "unlink")
    /\ mem' = IF i = None THEN m ELSE iget(m, i)
    /\ Set(p, IF i = None THEN [pc |-> "bad"] ELSE [pc |-> "unlink ip", ip |-> i])
    /\ UNCHANGED <<fsVars, fileVars, lost>>

isdirempty(i) == \A n \in Name : dir[i][n] = None

\* At ilock(ip), with dp locked: clear the entry, and give dp back.
sys_unlink_ip(p) ==
    LET r == pr[p]  i == r.ip  d == r.dp  m == ilock(mem, i, p)
        m1 == [m EXCEPT ![d].nlink = @ - (IF m[i].type = "dir" THEN 1 ELSE 0)] IN
    /\ Locks(p, "unlink ip") /\ m[i].nlink >= 1
    /\ IF m[i].type = "dir" /\ ~isdirempty(i)
         THEN /\ mem' = iunlock(m, i)
              /\ Put(p, <<i>>, "bad", [ip |-> None, name |-> None])
              /\ UNCHANGED <<disk, dir>>
         ELSE /\ dir' = [dir EXCEPT ![d][r.name] = None]
              /\ disk' = iupdate(disk, m1, d)
              /\ mem' = iunlock(m1, d)
              /\ Put(p, <<d>>, "unlink drop", [dp |-> None, name |-> None])
    /\ UNCHANGED <<adrift, fileVars, lost>>

\* ip->nlink-- comes after iunlockput(dp).
sys_unlink_dropNoUpdate(p) ==
    LET i == pr[p].ip  m == [mem EXCEPT ![i].nlink = @ - 1] IN
    /\ At(p, "unlink drop")
    /\ mem' = iunlock(m, i)
    /\ Put(p, <<i>>, "end", [ip |-> None])
    /\ UNCHANGED <<disk, dir, adrift, fileVars, lost>>

sys_unlink_drop(p) ==
    LET i == pr[p].ip  m == [mem EXCEPT ![i].nlink = @ - 1] IN
    /\ At(p, "unlink drop")
    /\ disk' = iupdate(disk, m, i)
    /\ mem' = iunlock(m, i)
    /\ Put(p, <<i>>, "end", [ip |-> None])
    /\ UNCHANGED <<dir, adrift, fileVars, lost>>
------------------------------------------------------------------------
\* sys_dup(): fdalloc(), filedup().
sys_dup(p, k) ==
    /\ User(p) /\ fd[p][k] # None /\ FreeFd(p) # {}
    /\ LET l == CHOOSE l \in FreeFd(p) : \A j \in FreeFd(p) : l <= j IN
       fd' = [fd EXCEPT ![p][l] = fd[p][k]]
    /\ ftable' = [ftable EXCEPT ![fd[p][k]].ref = @ + 1]
    /\ UNCHANGED <<fsVars, mem, cwd, pr, lost>>

\* fileclose(f), after which p goes on at l.
fileclose(p, f, l) ==
    /\ ftable' = [ftable EXCEPT ![f] = IF @.ref > 1 THEN [@ EXCEPT !.ref = @ - 1]
                                                    ELSE [ref |-> 0, ip |-> None]]
    /\ IF ftable[f].ref > 1
         THEN Set(p, [pc |-> IF l = "end" THEN "user" ELSE l])
         ELSE Put(p, <<ftable[f].ip>>, l, Idle)

sys_close(p, k) ==
    /\ User(p) /\ fd[p][k] # None
    /\ fd' = [fd EXCEPT ![p][k] = None]
    /\ fileclose(p, fd[p][k], "end")
    /\ UNCHANGED <<fsVars, mem, cwd, lost>>

\* fileread(), filewrite() and filestat() lock the inode of an open file.
fileuse(p, k) ==
    LET i == ftable[fd[p][k]].ip IN
    /\ User(p) /\ fd[p][k] # None
    /\ mem[i].lock = None /\ ~NoType(i)
    /\ mem' = iunlock(ilock(mem, i, p), i)
    /\ UNCHANGED <<fsVars, fileVars, pr, lost>>

\* The part of fork() that shares files and the current directory.
forkNoDup(p, q) ==
    /\ User(p) /\ cwd[q] = None /\ pr[q].pc = "user"
    /\ fd' = [fd EXCEPT ![q] = fd[p]]
    /\ ftable' = [f \in File |-> [ftable[f] EXCEPT !.ref = @ + Cardinality({k \in 1 .. NOFILE : fd[p][k] = f})]]
    /\ cwd' = [cwd EXCEPT ![q] = cwd[p]]
    /\ UNCHANGED <<fsVars, mem, pr, lost>>
fork(p, q) ==
    /\ User(p) /\ cwd[q] = None /\ pr[q].pc = "user"
    /\ fd' = [fd EXCEPT ![q] = fd[p]]
    /\ ftable' = [f \in File |-> [ftable[f] EXCEPT !.ref = @ + Cardinality({k \in 1 .. NOFILE : fd[p][k] = f})]]
    /\ mem' = idup(mem, cwd[p])
    /\ cwd' = [cwd EXCEPT ![q] = cwd[p]]
    /\ UNCHANGED <<fsVars, pr, lost>>

\* exit() closes what is open, one descriptor at a time, and gives its
\* directory back; init does not exit.
exit(p) ==
    LET used == (1 .. NOFILE) \ FreeFd(p) IN
    /\ p # InitProc /\ (User(p) \/ At(p, "exit"))
    /\ IF used # {}
         THEN LET k == CHOOSE k \in used : \A l \in used : k <= l IN
              /\ fd' = [fd EXCEPT ![p][k] = None]
              /\ fileclose(p, fd[p][k], "exit")
              /\ UNCHANGED cwd
         ELSE /\ Put(p, <<cwd[p]>>, "end", Idle)
              /\ cwd' = [cwd EXCEPT ![p] = None]
              /\ UNCHANGED <<fd, ftable>>
    /\ UNCHANGED <<fsVars, mem, lost>>

\* Power is lost while no call is open; then the kernel boots.
Quiet == \A p \in Proc : pr[p].pc \in {"user", "exit"}
Crash ==
    /\ Quiet
    /\ mem' = [i \in Inum |-> IF i = Root THEN [Unused EXCEPT !.ref = 1] ELSE Unused]
    /\ ftable' = [f \in File |-> [ref |-> 0, ip |-> None]]
    /\ cwd' = [p \in Proc |-> IF p = InitProc THEN Root ELSE None]
    /\ fd' = [p \in Proc |-> [k \in 1 .. NOFILE |-> None]]
    /\ pr' = [p \in Proc |-> Idle]
    /\ lost' = lost \cup {i \in Inum : disk[i].type # "free" /\ disk[i].nlink = 0}
    /\ UNCHANGED <<fsVars>>

Call(p) ==
    \/ \E s \in Args[p].open : Begin(p, "open", s, FALSE, << >>)
    \/ \E s \in Args[p].create : Begin(p, "create", s, TRUE, "file")
    \/ \E s \in Args[p].mknod, t \in Type : Begin(p, "create", s, TRUE, t)
    \/ \E s \in Args[p].chdir : Begin(p, "chdir", s, FALSE, << >>)
    \/ \E s \in Args[p].old, t \in Args[p].new : Begin(p, "link", s, FALSE, t)
    \/ \E s \in Args[p].unlink : Begin(p, "unlink", s, TRUE, << >>)

Step(p) ==
    \/ ilock_panic(p) \/ iput(p) \/ namex(p) \/ create(p) \/ bad(p) \/ sys_mknod_end(p)
    \/ (\E b \in BOOLEAN : sys_open(p, b)) \/ sys_open_file(p) \/ sys_chdir(p)
    \/ sys_link(p) \/ sys_link_dir(p) \/ sys_link_bad(p)
    \/ sys_unlink(p) \/ sys_unlink_ip(p) \/ sys_unlink_drop(p)

Next ==
    \/ \E p \in Proc :
          \/ Call(p) \/ Step(p) \/ exit(p)
          \/ \E k \in 1 .. NOFILE : sys_dup(p, k) \/ sys_close(p, k) \/ fileuse(p, k)
          \/ \E q \in Proc : fork(p, q)
    \/ Crash

Spec == Init /\ [][Next]_vars
------------------------------------------------------------------------
\* The local variables of running calls that point to inode i, each of
\* them a reference to give back.
Pointers(i) ==
    Cardinality({e \in Proc \X {"cur", "ip", "dp"} : pr[e[1]][e[2]] = i})
        + Cardinality({e \in Proc \X (1 .. 2) : e[2] <= Len(pr[e[1]].puts) /\ pr[e[1]].puts[e[2]] = i})

\* The reference count of an inode is the number of open files, current
\* directories and running calls that use it: iput() frees an inode under
\* nobody, and frees it when the last user is gone.
RefsCounted ==
    /\ \A i \in Inum :
         mem[i].ref = Pointers(i)
                        + Cardinality({p \in Proc : cwd[p] = i})
                        + Cardinality({f \in File : ftable[f].ref > 0 /\ ftable[f].ip = i})
    /\ \A f \in File :
         ftable[f].ref = Cardinality({e \in Proc \X (1 .. NOFILE) : fd[e[1]][e[2]] = f})

\* What a transaction leaves on the disk: every name leads to an inode in
\* use, link counts are exact ("." is not counted, ".." is), and an inode
\* without links is in use by somebody.  Excepted are inodes that a call
\* put into a directory that was removed under it, and inodes that were
\* open without a name at a crash: the code has no means to find them.
Links(i) ==
    Cardinality({e \in Inum \X Name : disk[e[1]].type = "dir" /\ dir[e[1]][e[2]] = i})
        + Cardinality({j \in Inum \ {i} : 
                           disk[j].type = "dir" /\ dir[j][".."] = i /\ \E n \in Name : dir[i][n] = j})
        + (IF i = Root THEN 1 ELSE 0)
TreeConsistent ==
    Quiet => \A i \in Inum \ adrift :
        /\ disk[i].type = "free" => Links(i) = 0 /\ mem[i].ref = 0
        /\ disk[i].type # "free" => disk[i].nlink = Links(i)
        /\ disk[i].type # "free" /\ disk[i].nlink = 0 => mem[i].ref > 0 \/ i \in lost

\* None of the panics of the inode layer is met: ilock() finds a type on
\* the disk, sys_unlink() a link, and iput() a free lock ("this
\* acquiresleep() won't block"; to sleep under itable.lock is a panic).
\* Excepted is a path that goes on with ".." from a directory that was
\* removed under it, when its parent is removed too.
NoPanic ==
    \A p \in Proc :
        LET i == Wants(p)  r == pr[p] IN
        /\ i # None /\ mem[i].lock = None /\ NoType(i) => i \in adrift
        /\ r.pc = "unlink ip" /\ mem[i].lock = None => ilock(mem, i, p)[i].nlink >= 1
        /\ r.pc = "iput" /\ lastUse(Head(r.puts)) => mem[Head(r.puts)].lock = None
        /\ \A k \in 1 .. NOFILE : fd[p][k] # None => ~NoType(ftable[fd[p][k]].ip)

\* No process waits, through the inodes that others have locked, for itself.
WaitsFor == {<<p, q>> \in Proc \X Proc : Wants(p) # None /\ mem[Wants(p)].lock = q}
NoDeadlock ==
    ~ \E S \in SUBSET Proc : S # {} /\ \A p \in S : \E q \in S : <<p, q>> \in WaitsFor
=========================================================================
