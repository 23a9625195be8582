---------------------------- MODULE FileData ----------------------------
(***************************************************************************)
(* The contents of files: the bitmap and block allocation of kernel/fs.c,  *)
(* bmap() with its indirect block, readi(), writei() and itrunc(), the     *)
(* loop of filewrite() that splits a write into transactions, and the disk *)
(* image that mkfs/mkfs.c lays out.                                        *)
(*                                                                         *)
(* A block is BSIZE words; a word is a byte of a file or, in an indirect   *)
(* block, a block number.  One call of balloc() or bfree(), or the copy    *)
(* into one block, is one step; all of them are done with the inode        *)
(* locked.  Each chunk of a write is one transaction of module Log, so     *)
(* that a crash brings back a moment at which none was open.               *)
(*                                                                         *)
(* Faulty variants of a definition stand right before it (such as          *)
(* maxTight); they only serve to show that a property can fail.            *)
(***************************************************************************)
EXTENDS Integers, Sequences, FiniteSets, FiniteSetsExt

CONSTANTS
    Proc, Inode,
    Opens,       \* the inodes that each process may open
    Reader,      \* processes that also read, and whose memory may be unmapped
    Byte,        \* what is written: numbers other than 0
    Torn,        \* a byte of a write that failed: the old or the new one
    None,
    BSIZE,       \* words in a block, hence also NINDIRECT
    NDIRECT,
    NMETA,       \* blocks 0 .. NMETA - 1 hold no file data
    SIZE,        \* sb.size, the number of blocks
    BPB,         \* bits, hence blocks, per bitmap block
    MAXOPBLOCKS,
    Lens,        \* how many bytes each process writes at once; reads are of one
    MaxTorn,     \* bound on the torn bytes at one time
    MaxImage     \* bound on the bytes of the first file in the disk image

ASSUME FileAssumption ==
    /\ Reader \subseteq Proc /\ Opens \in [Proc -> (SUBSET Inode) \ {{}}]
    /\ {BSIZE, NDIRECT, NMETA, SIZE, BPB} \subseteq Nat \ {0}
    /\ NMETA < SIZE /\ MAXOPBLOCKS \in Nat /\ MAXOPBLOCKS >= 6
    /\ 0 \notin Byte /\ MaxImage \in Nat /\ MaxTorn \in Nat

Block == 0 .. (SIZE - 1)
MAXFILE == NDIRECT + BSIZE

VARIABLES
    bitmap,    \* the blocks in use
    block,     \* contents of the blocks
    dinode,    \* size and addrs of each inode on the disk
    inode,     \* and in memory
    lock,      \* holder of ip->lock
    ip, off,   \* each process's open file: the inode, and f->off
    pr,        \* each process's place in its call, and the locals it has there
    touched,   \* blocks that its transaction has given to log_write()
    content    \* the bytes that each file should hold

vars == <<bitmap, block, dinode, inode, lock, ip, off, pr, touched, content>>
diskVars == <<bitmap, block, dinode>>

Zeroes == [k \in 0 .. (BSIZE - 1) |-> 0]
Idle == [pc |-> "user", left |-> 0, n1 |-> 0, tot |-> 0, c |-> 0]
------------------------------------------------------------------------
\* mkfs: iappend() of one byte after the other.  img.next is freeblock.
Mapped(img, fbn) ==
    IF fbn < NDIRECT THEN img.ino.addrs[fbn]
    ELSE IF img.ino.addrs[NDIRECT] = 0 THEN 0
    ELSE img.block[img.ino.addrs[NDIRECT]][fbn - NDIRECT]

\* The block for fbn, and before it the indirect block, from freeblock++.
mkfs_map(img, fbn) ==
    IF Mapped(img, fbn) # 0 THEN img
    ELSE IF fbn < NDIRECT
    THEN [img EXCEPT !.ino.addrs[fbn] = img.next, !.next = @ + 1]
    ELSE LET new == img.ino.addrs[NDIRECT] = 0
             ind == IF new THEN img.next ELSE img.ino.addrs[NDIRECT]
             x == IF new THEN img.next + 1 ELSE img.next IN
         [img EXCEPT !.ino.addrs[NDIRECT] = ind, !.block[ind][fbn - NDIRECT] = x, !.next = x + 1]

iappend(img, byte) ==
    LET at == img.ino.size
        m == mkfs_map(img, at \div BSIZE) IN
    [m EXCEPT !.block[Mapped(m, at \div BSIZE)][at % BSIZE] = byte, !.ino.size = at + 1]

\* The image after a file of n bytes; mkfs's balloc() marks all blocks
\* below freeblock.
EmptyInode == [size |-> 0, addrs |-> [k \in 0 .. NDIRECT |-> 0]]
mkfs(n, byte) ==
    LET img[k \in 0 .. n] ==
          IF k = 0 THEN [next |-> NMETA, ino |-> EmptyInode, block |-> [b \in Block |-> Zeroes]]
          ELSE iappend(img[k - 1], byte) IN
    img[n]

Init ==
    \E n \in 0 .. MaxImage, byte \in Byte :
        LET img == mkfs(n, byte)  i == Min(Inode) IN
        /\ bitmap = {b \in Block : b < img.next}
        /\ block = img.block
        /\ dinode = [j \in Inode |-> IF j = i THEN img.ino ELSE EmptyInode]
        /\ inode = dinode
        /\ lock = [j \in Inode |-> None]
        /\ ip = [p \in Proc |-> Min(Opens[p])]
        /\ off = [p \in Proc |-> 0]
        /\ pr = [p \in Proc |-> Idle]
        /\ touched = [p \in Proc |-> {}]
        /\ content = [j \in Inode |-> [k \in 1 .. (IF j = i THEN n ELSE 0) |-> byte]]
------------------------------------------------------------------------
At(p, l) == pr[p].pc = l
Set(p, r) == pr' = [pr EXCEPT ![p] = r]
Goto(p, l) == pr' = [pr EXCEPT ![p].pc = l]

\* log_write() of each kind of block, for the size of the transaction.
Bitmap(b) == <<"bitmap", b \div BPB>>
Dinode(i) == <<"inode", i>>
Data(b) == <<"block", b>>
Logs(p, s) == touched' = [touched EXCEPT ![p] = @ \cup s]

\* What bmap() finds without allocating: 0 when a block is missing.
addrOf(i, bn) ==
    IF bn < NDIRECT THEN inode[i].addrs[bn]
    ELSE IF inode[i].addrs[NDIRECT] = 0 THEN 0
    ELSE block[inode[i].addrs[NDIRECT]][bn - NDIRECT]

\* filewrite() of n bytes.
maxTight == ((MAXOPBLOCKS - 1 - 1) \div 2) * BSIZE
max == ((MAXOPBLOCKS - 1 - 1 - 2) \div 2) * BSIZE
chunk(n) == IF n > max THEN max ELSE n

filewrite(p, n, c) ==
    /\ At(p, "user")
    /\ Set(p, [pc |-> "chunk", left |-> n, n1 |-> 0, tot |-> 0, c |-> c])
    /\ UNCHANGED <<diskVars, inode, lock, ip, off, touched, content>>

\* One chunk: begin_op(), ilock(), and writei()'s checks.
tooFarOnly(i, at, n) == at + n > MAXFILE * BSIZE
tooFar(i, at, n) == at > inode[i].size \/ at + n > MAXFILE * BSIZE
writei(p) ==
    LET i == ip[p]  n1 == chunk(pr[p].left) IN
    /\ At(p, "chunk") /\ lock[i] = None
    /\ IF tooFar(i, off[p], n1)
         THEN Set(p, Idle) /\ UNCHANGED lock
         ELSE /\ pr' = [pr EXCEPT ![p].pc = "turn", ![p].n1 = n1, ![p].tot = 0]
              /\ lock' = [lock EXCEPT ![i] = p]
    /\ UNCHANGED <<diskVars, inode, ip, off, touched, content>>

Bn(p) == (off[p] + pr[p].tot) \div BSIZE
InTurn(p) == At(p, "turn") /\ pr[p].tot < pr[p].n1

Free == Block \ bitmap

\* balloc() with bzero(): the lowest free block.
balloc(b) ==
    /\ bitmap' = bitmap \cup {b}
    /\ block' = [block EXCEPT ![b] = Zeroes]

\* bmap() allocates what is missing, one block per step: a direct block,
\* the indirect block, or a block in it.
bmap(p) ==
    LET i == ip[p]  bn == Bn(p)  b == Min(Free)  ind == inode[i].addrs[NDIRECT] IN
    /\ InTurn(p) /\ addrOf(i, bn) = 0 /\ Free # {}
    /\ IF bn < NDIRECT \/ ind = 0
         THEN /\ inode' = [inode EXCEPT ![i].addrs[IF bn < NDIRECT THEN bn ELSE NDIRECT] = b]
              /\ balloc(b)
              /\ Logs(p, {Bitmap(b), Data(b)})
         ELSE /\ bitmap' = bitmap \cup {b}
              /\ block' = [block EXCEPT ![b] = Zeroes, ![ind][bn - NDIRECT] = b]
              /\ Logs(p, {Bitmap(b), Data(b), Data(ind)})
              /\ UNCHANGED inode
    /\ UNCHANGED <<dinode, lock, ip, off, pr, content>>

\* The disk is full: bmap() returns 0 and the loop ends.
bmap_full(p) ==
    /\ InTurn(p) /\ addrOf(ip[p], Bn(p)) = 0 /\ Free = {}
    /\ Goto(p, "update")
    /\ UNCHANGED <<diskVars, inode, lock, ip, off, touched, content>>

\* The bytes that one turn copies: from pos on, m of them.
Pos(p) == off[p] + pr[p].tot
MWhole(p) == Min({pr[p].n1 - pr[p].tot, BSIZE})
M(p) == Min({pr[p].n1 - pr[p].tot, BSIZE - (Pos(p) % BSIZE)})
Overwrite(s, at, k, c) ==
    [j \in 1 .. Max({at + k, Len(s)}) |->
        IF at < j /\ j <= at + k THEN c ELSE IF j <= Len(s) THEN s[j] ELSE 0]
Put(a, at, k, c) ==
    block' = [block EXCEPT ![a] = [j \in DOMAIN @ |->
                 IF at % BSIZE <= j /\ j < (at % BSIZE) + k THEN c ELSE @[j]]]

writei_copy(p) ==
    LET a == addrOf(ip[p], Bn(p)) IN
    /\ InTurn(p) /\ a # 0
    /\ Put(a, Pos(p), M(p), pr[p].c)
    /\ Logs(p, {Data(a)})
    /\ content' = [content EXCEPT ![ip[p]] = Overwrite(@, Pos(p), M(p), pr[p].c)]
    /\ pr' = [pr EXCEPT ![p].tot = @ + M(p)]
    /\ UNCHANGED <<bitmap, dinode, inode, lock, ip, off>>

\* either_copyin() fails after k bytes.  They are in the cached block, which
\* is not given to log_write(), and so are there or not from now on.
writei_fault(p, k) ==
    LET a == addrOf(ip[p], Bn(p))  i == ip[p]
        seen == Min({k, Max({0, inode[i].size - Pos(p)})}) IN
    /\ p \in Reader /\ InTurn(p) /\ a # 0 /\ k < M(p)
    /\ k + Cardinality({w \in bitmap \X (0 .. (BSIZE - 1)) : block[w[1]][w[2]] = Torn}) <= MaxTorn
    /\ Put(a, Pos(p), k, Torn)
    /\ content' = [content EXCEPT ![i] = Overwrite(@, Pos(p), seen, Torn)]
    /\ Goto(p, "update")
    /\ UNCHANGED <<bitmap, dinode, inode, lock, ip, off, touched>>

\* The end of writei() with its iupdate(), f->off, iunlock() and end_op().
iupdate(i) == dinode' = [dinode EXCEPT ![i] = inode'[i]]

writei_end(p) ==
    LET i == ip[p]  r == pr[p]  end == Pos(p) IN
    /\ At(p, "update") \/ (At(p, "turn") /\ r.tot = r.n1)
    /\ inode' = [inode EXCEPT ![i].size = IF end > @ THEN end ELSE @]
    /\ iupdate(i)
    /\ touched' = [touched EXCEPT ![p] = {}]
    /\ off' = [off EXCEPT ![p] = end]
    /\ lock' = [lock EXCEPT ![i] = None]
    /\ IF r.tot # r.n1 \/ r.left = r.n1
         THEN Set(p, Idle)
         ELSE pr' = [pr EXCEPT ![p].pc = "chunk", ![p].left = @ - r.n1]
    /\ UNCHANGED <<bitmap, block, ip, content>>
------------------------------------------------------------------------
\* fileread(): bmap() finds every block, which NoPanic states.
fileread(p, n) ==
    LET i == ip[p] IN
    /\ p \in Reader /\ At(p, "user") /\ lock[i] = None /\ off[p] <= inode[i].size
    /\ off' = [off EXCEPT ![p] = Min({@ + n, inode[i].size})]
    /\ UNCHANGED <<diskVars, inode, lock, ip, pr, touched, content>>

\* sys_open() of another inode, with or without O_TRUNC.
sys_open(p, i, trunc) ==
    /\ At(p, "user") /\ lock[i] = None
    /\ ip' = [ip EXCEPT ![p] = i]
    /\ off' = [off EXCEPT ![p] = 0]
    /\ IF trunc THEN lock' = [lock EXCEPT ![i] = p] /\ Goto(p, "trunc")
                ELSE UNCHANGED <<lock, pr>>
    /\ UNCHANGED <<diskVars, inode, touched, content>>

\* itrunc() frees one block per step, in its order.
bfree(p, b) ==
    /\ bitmap' = bitmap \ {b}
    /\ Logs(p, {Bitmap(b)})

itrunc_direct(p) ==
    LET i == ip[p]  used == {k \in 0 .. (NDIRECT - 1) : inode[i].addrs[k] # 0} IN
    /\ At(p, "trunc")
    /\ IF used = {} THEN Goto(p, "trunc indirect") /\ UNCHANGED <<bitmap, inode, touched>>
       ELSE /\ bfree(p, inode[i].addrs[Min(used)])
            /\ inode' = [inode EXCEPT ![i].addrs[Min(used)] = 0]
            /\ UNCHANGED pr
    /\ UNCHANGED <<block, dinode, lock, ip, off, content>>

\* The j-th entry of the indirect block; pr.tot is j.
itrunc_entry(p) ==
    LET i == ip[p]  a == inode[i].addrs[NDIRECT]  j == pr[p].tot IN
    /\ At(p, "trunc indirect") /\ a # 0 /\ j < BSIZE
    /\ IF block[a][j] # 0 THEN bfree(p, block[a][j]) ELSE UNCHANGED <<bitmap, touched>>
    /\ pr' = [pr EXCEPT ![p].tot = j + 1]
    /\ UNCHANGED <<block, dinode, inode, lock, ip, off, content>>

itrunc_indirectKept(p) ==
    LET i == ip[p]  a == inode[i].addrs[NDIRECT] IN
    /\ At(p, "trunc indirect") /\ a # 0 /\ pr[p].tot = BSIZE
    /\ inode' = [inode EXCEPT ![i].addrs[NDIRECT] = 0]
    /\ UNCHANGED <<diskVars, lock, ip, off, pr, touched, content>>
itrunc_indirect(p) ==
    LET i == ip[p]  a == inode[i].addrs[NDIRECT] IN
    /\ At(p, "trunc indirect") /\ a # 0 /\ pr[p].tot = BSIZE
    /\ bfree(p, a)
    /\ inode' = [inode EXCEPT ![i].addrs[NDIRECT] = 0]
    /\ UNCHANGED <<block, dinode, lock, ip, off, pr, content>>

itrunc_end(p) ==
    LET i == ip[p] IN
    /\ At(p, "trunc indirect") /\ inode[i].addrs[NDIRECT] = 0
    /\ inode' = [inode EXCEPT ![i].size = 0]
    /\ iupdate(i)
    /\ touched' = [touched EXCEPT ![p] = {}]
    /\ lock' = [lock EXCEPT ![i] = None]
    /\ content' = [content EXCEPT ![i] = << >>]
    /\ Set(p, Idle)
    /\ UNCHANGED <<bitmap, block, ip, off>>

itrunc(p) == itrunc_direct(p) \/ itrunc_entry(p) \/ itrunc_indirect(p) \/ itrunc_end(p)

\* Power is lost while no transaction is open; inodes are read again.
Quiet == \A p \in Proc : pr[p].pc \in {"user", "chunk"}
Crash ==
    /\ Quiet
    /\ inode' = dinode
    /\ lock' = [i \in Inode |-> None]
    /\ off' = [p \in Proc |-> 0]
    /\ pr' = [p \in Proc |-> Idle]
    /\ UNCHANGED <<diskVars, ip, touched, content>>

Next ==
    \/ \E p \in Proc :
          \/ \E n \in Lens[p], c \in Byte : filewrite(p, n, c)
          \/ writei(p) \/ bmap(p) \/ bmap_full(p) \/ writei_copy(p) \/ writei_end(p)
          \/ \E k \in 0 .. (BSIZE - 1) : writei_fault(p, k)
          \/ fileread(p, 1)
          \/ \E i \in Opens[p], t \in BOOLEAN : sys_open(p, i, t)
          \/ itrunc(p)
    \/ Crash

Spec == Init /\ [][Next]_vars
------------------------------------------------------------------------
\* Who points to block b: an inode, or an entry of its indirect block.
Owners(b) ==
    {<<i, k>> \in Inode \X (0 .. NDIRECT) : dinode[i].addrs[k] = b}
        \cup {<<i, k>> \in Inode \X (NDIRECT + 1 .. NDIRECT + BSIZE) :
                 /\ dinode[i].addrs[NDIRECT] # 0
                 /\ block[dinode[i].addrs[NDIRECT]][k - NDIRECT - 1] = b}

\* After every transaction the bitmap tells the truth: a data block in use
\* belongs to exactly one place of one file and a free one to none, and the
\* inodes in memory are those on the disk.
BlocksOwned ==
    Quiet => /\ inode = dinode
             /\ \A b \in Block : IF b < NMETA THEN b \in bitmap ELSE
                   Cardinality(Owners(b)) = (IF b \in bitmap THEN 1 ELSE 0)

\* bfree() finds its block in use, and bmap() allocates only in writei():
\* readi(), which runs without a transaction, finds every block of the file.
NoPanic ==
    /\ \A p \in Proc : At(p, "trunc") =>
          \A k \in 0 .. (NDIRECT - 1) : inode[ip[p]].addrs[k] # 0 => inode[ip[p]].addrs[k] \in bitmap
    /\ \A p \in Proc : At(p, "trunc indirect") /\ inode[ip[p]].addrs[NDIRECT] # 0 =>
          LET a == inode[ip[p]].addrs[NDIRECT] IN
          /\ a \in bitmap
          /\ \A k \in pr[p].tot .. (BSIZE - 1) : block[a][k] # 0 => block[a][k] \in bitmap
    /\ \A i \in Inode : lock[i] = None =>
          \A bn \in 0 .. (MAXFILE - 1) : bn * BSIZE < inode[i].size => addrOf(i, bn) # 0

\* A file reads as it was written: each byte is the last one written there,
\* and bytes of a failed write are the only ones in doubt.
ContentsKept ==
    \A i \in Inode : lock[i] = None =>
        /\ Len(content[i]) = inode[i].size
        /\ \A j \in 1 .. inode[i].size :
              content[i][j] # Torn => block[addrOf(i, (j - 1) \div BSIZE)][(j - 1) % BSIZE] = content[i][j]

\* "write a few blocks at a time to avoid exceeding the maximum log
\* transaction size": a chunk gives log_write() no more than MAXOPBLOCKS
\* blocks, even if each allocation is in another bitmap block.
ChunkFits ==
    \A p \in Proc : pr[p].pc \in {"turn", "update"} =>
        Cardinality(touched[p] \cup {Dinode(ip[p])}) <= MAXOPBLOCKS

\* Blocks that are free may hold anything: balloc() clears them.
View == <<bitmap, [b \in bitmap |-> block[b]], dinode, inode, lock, ip, off, pr, touched, content>>
=========================================================================
