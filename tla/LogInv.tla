----------------------------- MODULE LogInv -----------------------------
(***************************************************************************)
(* The inductive invariant of Log, from which its safety properties and    *)
(* its refinement of TxnDisk are proved in LogProofs.                      *)
(***************************************************************************)
EXTENDS Log

\* The headers name each block once and fit in the on-disk log.
HeaderShape(h) ==
    /\ Len(h) <= NLOG - 1
    /\ \A i, j \in 1 .. Len(h) : h[i] = h[j] => i = j

\* How the on-disk header follows the in-memory one.
HeaderInv ==
    /\ HeaderShape(lh)
    /\ HeaderShape(header)
    /\ phase \in {"none", "write_log", "write_head", "done"} => header = << >>
    /\ phase \in {"install", "erase", "rinstall", "rerase"} => header = lh
    /\ phase \in {"done", "read_head"} => lh = << >>
    /\ phase \in {"write_log", "write_head", "install", "rinstall"} => tail <= Len(lh)
    /\ phase \notin {"write_log", "install", "rinstall"} => tail = 1

\* Nothing else runs during recovery.
RecoverInv ==
    phase \in RecoverPhase =>
        /\ outstanding = 0 /\ ~committing /\ dirty = {} /\ panic = "none"
        /\ \A p \in Proc : pc[p] = "idle"
        /\ \A b \in Block : lock[b] = NoProc
        /\ phase = "read_head" => \A b \in Block : buf[b] = NoBuf

\* One committer, and no open call while it works.
CommitInv ==
    /\ committing <=> phase \in CommitPhase
    /\ \A p \in Proc : pc[p] = "commit" => committing
    /\ \A p, q \in Proc : pc[p] = "commit" /\ pc[q] = "commit" => p = q
    /\ committing => Active = {}
    /\ outstanding = Cardinality(Active)
    /\ phase = "none" /\ Active = {} => lh = << >>
    /\ panic \in {"none", "too big a transaction"}

\* The positions of lh whose blocks are pinned.
PinnedSlots ==
    IF phase \in {"none", "write_log", "write_head"} THEN 1 .. Len(lh)
    ELSE IF phase = "install" THEN tail .. Len(lh)
    ELSE {}

\* A locked buffer is cached and its holder is not in the log code; only open
\* calls hold modified buffers.
LockInv ==
    /\ \A b \in Block : lock[b] # NoProc => buf[b] # NoBuf /\ pc[lock[b]] \in {"op", "idle"}
    /\ \A b \in dirty : lock[b] # NoProc /\ pc[lock[b]] = "op"

\* A logged block is pinned, once, until it is installed, and so stays cached.
PinInv ==
    /\ \A b \in Block : pins[b] = IF \E i \in PinnedSlots : lh[i] = b THEN 1 ELSE 0
    /\ \A b \in Block : pins[b] # 0 => buf[b] # NoBuf

\* The positions of lh already copied to the log, and already copied home.
WrittenSlots ==
    IF phase = "write_log" THEN 1 .. (tail - 1)
    ELSE IF phase = "write_head" THEN 1 .. Len(lh)
    ELSE IF phase = "install" THEN tail .. Len(lh)
    ELSE {}
InstalledSlots ==
    IF phase \in {"install", "rinstall"} THEN 1 .. (tail - 1)
    ELSE IF phase \in {"erase", "rerase"} THEN 1 .. Len(lh)
    ELSE {}

\* The log blocks, the buffers and the home blocks agree where they must.
CopyInv ==
    /\ \A i \in WrittenSlots : logdata[i] = buf[lh[i]]
    /\ \A i \in InstalledSlots :
         disk[lh[i]] = logdata[i] /\ buf[lh[i]] \in {NoBuf, logdata[i]}
    /\ phase = "rinstall" => \A i \in tail .. Len(lh) : buf[lh[i]] = NoBuf

Inv ==
    /\ TypeOK /\ HeaderInv /\ RecoverInv /\ CommitInv
    /\ LockInv /\ CacheIsCopy /\ PinInv /\ CopyInv

(***************************************************************************)
(* Log space.  A call may still claim the tokens above the number of       *)
(* blocks it has logged; log entries and unclaimed tokens never exceed     *)
(* LOGSIZE.                                                                *)
(***************************************************************************)
Unclaimed ==
    {t \in Active \X (1 .. MAXOPBLOCKS) : t[2] > Cardinality(touched[t[1]])}

RoomInv ==
    /\ \A p \in Proc : Cardinality(touched[p] \cup Dirty(p)) <= OPBLOCKS
    /\ \A p \in Active : touched[p] \subseteq Logged(lh)
    /\ Len(lh) + Cardinality(Unclaimed) <= LOGSIZE
    /\ Len(header) <= LOGSIZE

\* The kernel's constants: a call writes fewer blocks than begin_op()
\* reserves, by enough to make up for the log blocks that NLOG lacks.
LogRoom ==
    /\ OPBLOCKS < MAXOPBLOCKS
    /\ LOGSIZE + OPBLOCKS + 1 < NLOG + MAXOPBLOCKS
=========================================================================
