--------------------------------- MODULE Fs ----------------------------------
(***************************************************************************)
(* The name space of the file system: inodes and their table (fs.c), path  *)
(* walks, and the calls of sysfile.c that create, link, unlink, open and   *)
(* close.                                                                  *)
(*                                                                         *)
(* A step runs while one set of sleep-locks is held: it waits until the    *)
(* inode it locks first is free.  What a caller holds over several steps   *)
(* is in inode[i].lock.  itable.lock, and the buffer lock under which      *)
(* ialloc() claims an inode, are held inside a step.  iput() is a step of  *)
(* its own, three when it frees the inode.  begin_op() and end_op() group  *)
(* the writes (Log) and exclude nobody.                                    *)
(*                                                                         *)
(* A path is a sequence of names from the root.                            *)
(***************************************************************************)
EXTENDS Integers, FiniteSets, FiniteSetsExt, Sequences

CONSTANTS Proc, NINODES, Name, None,
          Path,         \* bound: of every kind of call, the paths processes pass it
          MaxLink,      \* bound: links of one file, with those being made
          NINODE        \* entries of the inode table

FsAssumption ==
  /\ NINODES \in Nat /\ NINODES >= 1
  /\ NINODE >= NINODES      \* bound: iget() finds an entry, its panic is left out
  /\ ".." \notin Name
  /\ \A path \in UNION {Path[kind] : kind \in DOMAIN Path} :
        path \in Seq(Name \cup {".."}) /\ path # << >>

Inum == 1..NINODES
ROOTINO == 1
Entry == Name \cup {".."}

VARIABLES dinode,     \* on disk: [type, nlink] of every inode
          dir,        \* on disk: the entries of every directory, 0 for none
          inode,      \* struct inode in the table: [ref, valid, lock, type, nlink]
          pc, call,   \* of every process: its place, the call it is in
          rest,       \* of every process: what namex() has not consumed of its path
          up,         \* of every process: whether ".." led namex() to cur (history)
          cur, ip,    \* of every process: the inodes it works on
          puts,       \* of every process: inodes it will iput() before it goes on
          stage,      \* of every process: its place in iput()
          file,       \* of every process: the inode of its open file, or None
          panicked    \* what the kernel has panicked of, or None

disk == <<dinode, dir>>
way == <<rest, up>>
vars == <<disk, inode, pc, call, way, cur, ip, puts, stage, file, panicked>>

NoEntries == [e \in Entry |-> 0]

\* The empty file system that mkfs makes, and an empty inode table.
Init ==
  /\ dinode = [i \in Inum |-> IF i = ROOTINO THEN [type |-> "DIR", nlink |-> 1]
                              ELSE [type |-> "none", nlink |-> 0]]
  /\ dir = [i \in Inum |-> IF i = ROOTINO THEN [NoEntries EXCEPT ![".."] = ROOTINO]
                           ELSE NoEntries]
  /\ inode = [i \in Inum |-> [ref |-> 0, valid |-> FALSE, lock |-> None,
                              type |-> "none", nlink |-> 0]]
  /\ pc = [p \in Proc |-> "idle"]
  /\ call = [p \in Proc |-> None]
  /\ rest = [p \in Proc |-> << >>] /\ up = [p \in Proc |-> FALSE]
  /\ cur = [p \in Proc |-> None] /\ ip = [p \in Proc |-> None]
  /\ puts = [p \in Proc |-> << >>]
  /\ stage = [p \in Proc |-> "test"]
  /\ file = [p \in Proc |-> None]
  /\ panicked = None
-----------------------------------------------------------------------------
(* The inode table *)

\* iget(): a new entry of the table has to be read from the disk
iget(t, i) == [t EXCEPT ![i].ref = @ + 1, ![i].valid = @ /\ t[i].ref > 0]

\* ilock() by p: the lock, and what it reads from the disk if it has to
ilock(t, i, p) ==
  [t EXCEPT ![i].lock = p, ![i].valid = TRUE,
            ![i].type = IF t[i].valid THEN @ ELSE dinode[i].type,
            ![i].nlink = IF t[i].valid THEN @ ELSE dinode[i].nlink]

iunlock(t, i) == [t EXCEPT ![i].lock = None]

\* iupdate() of the inodes of s: dinode as the table t has them
iupdate(t, s) ==
  [i \in Inum |-> IF i \in s THEN [type |-> t[i].type, nlink |-> t[i].nlink] ELSE dinode[i]]

Free(i) == inode[i].lock = None

\* panic("ilock: no type")
NoType(i) == ~inode[i].valid /\ dinode[i].type = "none"

\* p can lock i, and sees it like this; ilock() may panic
CanLock(p, i) ==
  /\ Free(i)
  /\ panicked' = IF ~NoType(i) THEN None ELSE IF i = cur[p] /\ up[p] THEN "no type .." ELSE "no type"
Locked(i, p) == ilock(inode, i, p)
Type(i, p) == Locked(i, p)[i].type
Nlink(i, p) == Locked(i, p)[i].nlink

Set(v, p, x) == v' = [v EXCEPT ![p] = x]

\* p goes to the given place after iput() of the inodes of s.
Then(p, place, s) ==
  /\ Set(pc, p, place)
  /\ Set(puts, p, s)

Ready(p, place) == pc[p] = place /\ puts[p] = << >> /\ panicked = None

\* The first inode that p will iput().
Dropped(p) == Head(puts[p])

LastAnyRef(i) == inode[i].valid /\ inode[i].nlink = 0

Last(i) == inode[i].ref = 1 /\ inode[i].valid /\ inode[i].nlink = 0

\* iput(): ref--
PutRef(p) ==
  /\ puts[p] # << >> /\ panicked = None
  /\ stage[p] = "drop" \/ (stage[p] = "test" /\ ~Last(Dropped(p)))
  /\ inode' = [inode EXCEPT ![Dropped(p)].ref = @ - 1]
  /\ Set(puts, p, Tail(puts[p]))
  /\ Set(stage, p, "test")
  /\ UNCHANGED <<disk, pc, call, way, cur, ip, file, panicked>>

\* iput(): the last reference to an inode without links; acquiresleep(),
\* then itable.lock is released
PutLast(p) ==
  /\ puts[p] # << >> /\ panicked = None
  /\ stage[p] = "test" /\ Last(Dropped(p)) /\ Free(Dropped(p))
  /\ inode' = [inode EXCEPT ![Dropped(p)].lock = p]
  /\ Set(stage, p, "free")
  /\ UNCHANGED <<disk, pc, call, way, cur, ip, puts, file, panicked>>

\* iput(): itrunc(), type = 0, iupdate()
PutFree(p) ==
  LET i == Dropped(p)
      t == [inode EXCEPT ![i].type = "none"]
  IN  /\ puts[p] # << >> /\ stage[p] = "free" /\ panicked = None
      /\ dir' = [dir EXCEPT ![i] = NoEntries]
      /\ inode' = t
      /\ dinode' = iupdate(t, {i})
      /\ Set(stage, p, "unlock")
      /\ UNCHANGED <<pc, call, way, cur, ip, puts, file, panicked>>

PutUnlockValid(p) ==
  /\ puts[p] # << >> /\ stage[p] = "unlock" /\ panicked = None
  /\ inode' = iunlock(inode, Dropped(p))
  /\ Set(stage, p, "drop")
  /\ UNCHANGED <<disk, pc, call, way, cur, ip, puts, file, panicked>>

\* iput(): valid = 0, releasesleep()
PutUnlock(p) ==
  /\ puts[p] # << >> /\ stage[p] = "unlock" /\ panicked = None
  /\ inode' = [inode EXCEPT ![Dropped(p)].lock = None, ![Dropped(p)].valid = FALSE]
  /\ Set(stage, p, "drop")
  /\ UNCHANGED <<disk, pc, call, way, cur, ip, puts, file, panicked>>

-----------------------------------------------------------------------------
(* Path names *)

\* The calls that look for the parent of their path's last name.
ByParent(kind) == kind \in {"create", "mkdir", "unlink", "newlink"}

\* The call fails: namex() returned 0.  link() takes its new link back.
Failed(p, s) ==
  /\ Then(p, IF call[p] = "newlink" THEN "unlink back" ELSE "idle", s)
  /\ Set(cur, p, None)

InWalk(p) == Ready(p, "walk") /\ CanLock(p, cur[p])

\* nameiparent() stops one level early.
Stops(p) == ByParent(call[p]) /\ Len(rest[p]) = 1

\* dirlookup() of the next path element
Found(p) == dir[cur[p]][Head(rest[p])]

\* One turn of the loop of namex() is ilock(), dirlookup() and iunlock() of
\* the current inode.  It is not a directory, or lacks the name ...
WalkFails(p) ==
  /\ InWalk(p)
  /\ Type(cur[p], p) # "DIR" \/ (~Stops(p) /\ Found(p) = 0)
  /\ inode' = iunlock(Locked(cur[p], p), cur[p])
  /\ Failed(p, <<cur[p]>>)
  /\ UNCHANGED <<disk, call, way, ip, stage, file>>

\* ... or is the parent that is looked for, and stays referenced ...
WalkStops(p) ==
  /\ InWalk(p)
  /\ Type(cur[p], p) = "DIR" /\ Stops(p)
  /\ inode' = iunlock(Locked(cur[p], p), cur[p])
  /\ Set(pc, p, call[p])
  /\ UNCHANGED <<disk, call, way, cur, ip, puts, stage, file>>

WalkOnNoRef(p) ==
  /\ InWalk(p)
  /\ Type(cur[p], p) = "DIR" /\ ~Stops(p) /\ Found(p) # 0
  /\ inode' = iunlock(Locked(cur[p], p), cur[p])
  /\ Set(cur, p, Found(p))
  /\ Set(rest, p, Tail(rest[p])) /\ Set(up, p, Head(rest[p]) = "..")
  /\ Then(p, IF Len(rest[p]) = 1 THEN call[p] ELSE "walk", <<cur[p]>>)
  /\ UNCHANGED <<disk, call, ip, stage, file>>

\* ... or has the name: on to that inode, which is referenced before the
\* directory is unlocked.
WalkOn(p) ==
  /\ InWalk(p)
  /\ Type(cur[p], p) = "DIR" /\ ~Stops(p) /\ Found(p) # 0
  /\ inode' = iget(iunlock(Locked(cur[p], p), cur[p]), Found(p))
  /\ Set(cur, p, Found(p))
  /\ Set(rest, p, Tail(rest[p])) /\ Set(up, p, Head(rest[p]) = "..")
  /\ Then(p, IF Len(rest[p]) = 1 THEN call[p] ELSE "walk", <<cur[p]>>)
  /\ UNCHANGED <<disk, call, ip, stage, file>>

-----------------------------------------------------------------------------
(* The system calls *)

Allocated == {i \in Inum : dinode[i].type # "none"}

\* The creations in progress that may still call ialloc().
Creating == {p \in Proc : pc[p] # "idle" /\ call[p] \in {"create", "mkdir"}}

Linking == {p \in Proc : pc[p] # "idle" /\ call[p] \in {"link", "newlink"}}

Kinds == {"create", "mkdir", "unlink", "open"}

\* A process starts a call on a path, from the root.
StartWalk(p, kind, path) ==
  /\ Set(call, p, kind)
  /\ Set(rest, p, path) /\ Set(up, p, FALSE)
  /\ Set(cur, p, ROOTINO)
  /\ Set(pc, p, "walk")
  /\ inode' = iget(inode, ROOTINO)

\* ialloc() panics when it finds no inode: creations start only while there
\* is one for each.
Start(p, kind, path) ==
  /\ Ready(p, "idle")
  /\ kind \in {"create", "mkdir"} => Cardinality(Allocated) + Cardinality(Creating) < NINODES
  /\ StartWalk(p, kind, path)
  /\ UNCHANGED <<disk, ip, puts, stage, file, panicked>>

\* sys_link(): namei(old)
StartLink(p, old) ==
  /\ Ready(p, "idle")
  /\ \A i \in Inum : dinode[i].type = "FILE" =>
        dinode[i].nlink + Cardinality(Linking) < MaxLink
  /\ StartWalk(p, "link", old)
  /\ UNCHANGED <<disk, ip, puts, stage, file, panicked>>

\* The last name of the path, looked for in the parent cur[p].
There(p) == Found(p) # 0

Empty(i) == \A e \in Name : dir[i][e] = 0

\* create(): the name exists; dp is unlocked before ip is locked
CreateExists(p) ==
  /\ Ready(p, "create") \/ Ready(p, "mkdir")
  /\ CanLock(p, cur[p]) /\ There(p)
  /\ inode' = iget(iunlock(Locked(cur[p], p), cur[p]), Found(p))
  /\ Set(ip, p, Found(p)) /\ Set(cur, p, None)
  /\ Then(p, "exists", <<cur[p]>>)
  /\ UNCHANGED <<disk, call, way, stage, file>>

\* create(): only open(O_CREATE) accepts what exists, if it is a file
Exists(p) ==
  /\ Ready(p, "exists") /\ CanLock(p, ip[p])
  /\ IF call[p] = "create" /\ Type(ip[p], p) = "FILE"
       THEN /\ inode' = Locked(ip[p], p)
            /\ Set(pc, p, "opened")
            /\ UNCHANGED <<ip, puts>>
       ELSE /\ inode' = iunlock(Locked(ip[p], p), ip[p])
            /\ Then(p, "idle", <<ip[p]>>) /\ Set(ip, p, None)
  /\ UNCHANGED <<disk, call, way, cur, stage, file>>

\* create(): ialloc() while dp is locked
CreateNew(p) ==
  LET i == Min(Inum \ Allocated)
  IN  /\ Ready(p, "create") \/ Ready(p, "mkdir")
      /\ CanLock(p, cur[p]) /\ ~There(p)
      /\ dinode' = [dinode EXCEPT
           ![i] = [type |-> IF call[p] = "mkdir" THEN "DIR" ELSE "FILE", nlink |-> 0]]
      /\ inode' = iget(Locked(cur[p], p), i)
      /\ Set(ip, p, i)
      /\ Set(pc, p, "new")
      /\ UNCHANGED <<dir, call, way, cur, puts, stage, file>>

\* create(): ilock(ip), nlink = 1, the entries, and iunlockput(dp)
CreateFill(p) ==
  LET i == ip[p]
      dp == cur[p]
      more == IF call[p] = "mkdir" THEN 1 ELSE 0
      t == [Locked(i, p) EXCEPT ![i].nlink = 1, ![dp].nlink = @ + more]
  IN  /\ Ready(p, "new") /\ CanLock(p, i)
      /\ inode' = iunlock(t, dp)
      /\ dinode' = iupdate(t, {i, dp})
      /\ dir' = [dir EXCEPT ![dp][Head(rest[p])] = i, ![i][".."] = IF more = 1 THEN dp ELSE 0]
      /\ Then(p, IF more = 1 THEN "made" ELSE "opened", <<dp>>)
      /\ Set(cur, p, None)
      /\ UNCHANGED <<call, way, ip, stage, file>>

\* sys_mkdir(): iunlockput(ip)
Made(p) ==
  /\ Ready(p, "made")
  /\ inode' = iunlock(inode, ip[p])
  /\ Then(p, "idle", <<ip[p]>>) /\ Set(ip, p, None)
  /\ UNCHANGED <<disk, call, way, cur, stage, file, panicked>>

\* sys_open(): filealloc() and fdalloc(), or iunlockput(ip) when one fails
Opened(p) ==
  /\ Ready(p, "opened")
  /\ inode' = iunlock(inode, ip[p])
  /\ IF file[p] = None THEN Set(file, p, ip[p]) /\ Then(p, "idle", << >>)
                       ELSE Then(p, "idle", <<ip[p]>>) /\ UNCHANGED file
  /\ Set(ip, p, None)
  /\ UNCHANGED <<disk, call, way, cur, stage, panicked>>

\* sys_open() without O_CREATE: ilock() of what namei() found
Open(p) ==
  /\ Ready(p, "open") /\ CanLock(p, cur[p])
  /\ inode' = Locked(cur[p], p)
  /\ Set(ip, p, cur[p]) /\ Set(cur, p, None)
  /\ Set(pc, p, "opened")
  /\ UNCHANGED <<disk, call, way, puts, stage, file>>

\* sys_open() without O_CREATE: a directory, and not O_RDONLY
OpenFails(p) ==
  /\ Ready(p, "open") /\ CanLock(p, cur[p])
  /\ Type(cur[p], p) = "DIR"
  /\ inode' = iunlock(Locked(cur[p], p), cur[p])
  /\ Then(p, "idle", <<cur[p]>>) /\ Set(cur, p, None)
  /\ UNCHANGED <<disk, call, way, ip, stage, file>>

\* sys_close(): fileclose() of the last reference calls iput()
Close(p) ==
  /\ Ready(p, "idle") /\ file[p] # None
  /\ Set(puts, p, <<file[p]>>) /\ Set(file, p, None)
  /\ UNCHANGED <<disk, inode, pc, call, way, cur, ip, stage, panicked>>

\* sys_unlink(): no such name, or ".."
UnlinkFails(p) ==
  /\ Ready(p, "unlink") /\ CanLock(p, cur[p])
  /\ ~There(p) \/ Head(rest[p]) = ".."
  /\ inode' = iunlock(Locked(cur[p], p), cur[p])
  /\ Then(p, "idle", <<cur[p]>>) /\ Set(cur, p, None)
  /\ UNCHANGED <<disk, call, way, ip, stage, file>>

\* sys_unlink(): dirlookup() with dp locked
Unlink(p) ==
  /\ Ready(p, "unlink") /\ CanLock(p, cur[p])
  /\ There(p) /\ Head(rest[p]) # ".."
  /\ inode' = iget(Locked(cur[p], p), Found(p))
  /\ Set(ip, p, Found(p))
  /\ Set(pc, p, "victim")
  /\ UNCHANGED <<disk, call, way, cur, puts, stage, file>>

\* sys_unlink(): ilock(ip), panic("unlink: nlink < 1")
SeesVictim(p) ==
  /\ Ready(p, "victim") /\ Free(ip[p])
  /\ panicked' = IF NoType(ip[p]) THEN "no type"
                 ELSE IF Nlink(ip[p], p) < 1 THEN "nlink < 1" ELSE None

\* sys_unlink(): a directory that is not empty
VictimBusy(p) ==
  /\ SeesVictim(p)
  /\ Type(ip[p], p) = "DIR" /\ ~Empty(ip[p])
  /\ inode' = iunlock(Locked(ip[p], p), ip[p])
  /\ Then(p, "busy", <<ip[p]>>) /\ Set(ip, p, None)
  /\ UNCHANGED <<disk, call, way, cur, stage, file>>

Busy(p) ==
  /\ Ready(p, "busy")
  /\ inode' = iunlock(inode, cur[p])
  /\ Then(p, "idle", <<cur[p]>>) /\ Set(cur, p, None)
  /\ UNCHANGED <<disk, call, way, ip, stage, file, panicked>>

\* sys_unlink(): the entry is cleared, dp loses the link of "..", and is
\* unlocked and put while ip stays locked
Victim(p) ==
  LET i == ip[p]
      dp == cur[p]
      less == IF Type(i, p) = "DIR" THEN 1 ELSE 0
      t == [Locked(i, p) EXCEPT ![dp].nlink = @ - less]
  IN  /\ SeesVictim(p)
      /\ less = 1 => Empty(i)
      /\ dir' = [dir EXCEPT ![dp][Head(rest[p])] = 0]
      /\ inode' = iunlock(t, dp)
      /\ dinode' = iupdate(t, {dp})
      /\ Then(p, "drop", <<dp>>) /\ Set(cur, p, None)
      /\ UNCHANGED <<call, way, ip, stage, file>>

\* ip->nlink -= n, iupdate(), iunlockput(), when the table is t
LoseLinks(p, i, t, n) ==
  LET u == [t EXCEPT ![i].nlink = @ - n]
  IN  /\ inode' = iunlock(u, i)
      /\ dinode' = iupdate(u, {i})
      /\ Then(p, "idle", <<i>>) /\ Set(ip, p, None)
      /\ UNCHANGED <<dir, call, way, cur, stage, file>>

\* sys_unlink(): the last lines, with ip still locked
Drop(p) ==
  /\ Ready(p, "drop")
  /\ LoseLinks(p, ip[p], inode, 1)
  /\ UNCHANGED panicked

\* sys_link(): not of a directory
LinkDir(p) ==
  /\ Ready(p, "link") /\ CanLock(p, cur[p])
  /\ Type(cur[p], p) = "DIR"
  /\ inode' = iunlock(Locked(cur[p], p), cur[p])
  /\ Then(p, "idle", <<cur[p]>>) /\ Set(cur, p, None)
  /\ UNCHANGED <<disk, call, way, ip, stage, file>>

\* sys_link(): nlink++ first, then nameiparent(new)
Link(p, new) ==
  LET i == cur[p]
      t == [Locked(i, p) EXCEPT ![i].nlink = @ + 1]
  IN  /\ Ready(p, "link") /\ CanLock(p, i)
      /\ Type(i, p) # "DIR"
      /\ inode' = iget(iunlock(t, i), ROOTINO)
      /\ dinode' = iupdate(t, {i})
      /\ Set(ip, p, i) /\ Set(cur, p, ROOTINO)
      /\ Set(call, p, "newlink") /\ Set(rest, p, new) /\ Set(up, p, FALSE)
      /\ Set(pc, p, "walk")
      /\ UNCHANGED <<dir, puts, stage, file>>

\* dirlink(dp, name, i) of a name that is not there ends in iupdate(dp)
dirlink(t, dp, name, i) ==
  /\ dir' = [dir EXCEPT ![dp][name] = i]
  /\ dinode' = iupdate(t, {dp})

\* sys_link(): dirlink() fails if the name exists (the reference it takes to
\* what has the name is dropped at once)
NewLink(p) ==
  LET dp == cur[p]
      t == Locked(dp, p)
  IN  /\ Ready(p, "newlink") /\ CanLock(p, dp)
      /\ inode' = iunlock(t, dp)
      /\ Set(cur, p, None)
      /\ IF There(p)
           THEN Then(p, "unlink back", <<dp>>) /\ UNCHANGED <<disk, ip>>
           ELSE /\ dirlink(t, dp, Head(rest[p]), ip[p])
                /\ Then(p, "idle", <<dp, ip[p]>>) /\ Set(ip, p, None)
      /\ UNCHANGED <<call, way, stage, file>>

\* sys_link(): bad, nlink--
UnlinkBack(p) ==
  /\ Ready(p, "unlink back") /\ CanLock(p, ip[p])
  /\ LoseLinks(p, ip[p], Locked(ip[p], p), 1)

\* panic() stops the kernel.
Halted == panicked # None /\ UNCHANGED vars

Next ==
  \/ Halted
  \/ \E p \in Proc :
     \/ PutRef(p) \/ PutLast(p) \/ PutFree(p) \/ PutUnlock(p)
     \/ WalkFails(p) \/ WalkStops(p) \/ WalkOn(p)
     \/ \E kind \in Kinds : \E path \in Path[kind] : Start(p, kind, path)
     \/ \E old \in Path["link"] : StartLink(p, old)
     \/ CreateExists(p) \/ Exists(p) \/ CreateNew(p) \/ CreateFill(p) \/ Made(p)
     \/ Open(p) \/ OpenFails(p) \/ Opened(p) \/ Close(p)
     \/ UnlinkFails(p) \/ Unlink(p) \/ VictimBusy(p) \/ Busy(p) \/ Victim(p) \/ Drop(p)
     \/ LinkDir(p) \/ (\E new \in Path["newlink"] : Link(p, new)) \/ NewLink(p) \/ UnlinkBack(p)

Spec == Init /\ [][Next]_vars
-----------------------------------------------------------------------------
Places == {"idle", "walk", "create", "mkdir", "exists", "new", "made", "open", "opened",
           "unlink", "victim", "busy", "drop", "link", "newlink", "unlink back"}

TypeOK ==
  /\ dinode \in [Inum -> [type : {"none", "DIR", "FILE"}, nlink : Nat]]
  /\ dir \in [Inum -> [Entry -> Inum \cup {0}]]
  /\ inode \in [Inum -> [ref : Nat, valid : BOOLEAN, lock : Proc \cup {None},
                         type : {"none", "DIR", "FILE"}, nlink : Nat]]
  /\ pc \in [Proc -> Places]
  /\ \A p \in Proc : puts[p] \in Seq(Inum) /\ rest[p] \in Seq(Entry)
  /\ cur \in [Proc -> Inum \cup {None}] /\ ip \in [Proc -> Inum \cup {None}]
  /\ stage \in [Proc -> {"test", "free", "unlock", "drop"}]
  /\ file \in [Proc -> Inum \cup {None}]
  /\ up \in [Proc -> BOOLEAN]

\* The pointers to inode i: of calls in progress, of calls that still have to
\* iput() it, and of open files.
Pointers(i) ==
  LET of(p) == Cardinality({k \in 1..Len(puts[p]) : puts[p][k] = i})
               + Cardinality({x \in {<<1, cur[p]>>, <<2, ip[p]>>, <<3, file[p]>>} : x[2] = i})
  IN  MapThenSumSet(of, Proc)

\* ip->ref "tracks the number of in-memory pointers to the entry": no call
\* keeps a pointer that iput() does not know of, or leaks one when it fails.  So
\* ilock() never finds an inode that is free on the disk, unless ".." of a removed
\* directory led to it (see DotDotLives), and sys_unlink() never a name of an inode
\* without links, however other calls fall between the steps of one.  Every
\* variable has its type.
RefsExact ==
  /\ TypeOK /\ panicked \in {None, "no type .."}
  /\ \A i \in Inum : inode[i].ref = Pointers(i)

\* panic("ilock: no type"): what dirlookup() returns is an inode that exists, the
\* parent that ".." names too.
DotDotLives == panicked # "no type .."

\* "ip->ref == 1 means no other process can have ip locked": iput() does not
\* sleep while it holds itable.lock.
PutNeverBlocks ==
  \A p \in Proc :
     puts[p] # << >> /\ stage[p] = "test" /\ Last(Dropped(p)) => Free(Dropped(p))

Names(i) == {<<d, e>> \in Allocated \X Name : dir[d][e] = i}

\* An inode with an entry in a directory is allocated and has a link for each
\* of its entries, at every step of every call: what can be reached by a name
\* is never freed.
LinksCover ==
  \A i \in Inum : Names(i) # {} =>
     /\ dinode[i].type # "none"
     /\ dinode[i].nlink >= Cardinality(Names(i))

\* The directories whose ".." is a link to i: those that have a link.
Below(i) == {d \in Allocated : dinode[d].nlink > 0 /\ dir[d][".."] = i}

\* "Number of links to inode in file system": when no call is in progress,
\* nlink counts the entries for the inode in the directories that exist.
LinksExact ==
  (\A p \in Proc : pc[p] = "idle" /\ puts[p] = << >>) =>
     \A i \in Allocated : dinode[i].nlink = Cardinality(Names(i)) + Cardinality(Below(i))
=============================================================================
