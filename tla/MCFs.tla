-------------------------------- MODULE MCFs ---------------------------------
(***************************************************************************)
(* Fs for TLC: processes and None are model values of the .cfg files.  The *)
(* view leaves out what is never read before it is written again: the      *)
(* arguments of finished calls, and what an entry of the inode table holds *)
(* that is free or not valid.  Nor does it tell whether an entry is valid  *)
(* that is not locked, has links and agrees with the disk: ilock() would   *)
(* read the same, and iput() looks only for entries without links.         *)
(*                                                                         *)
(* MCBcache has this as one of its parts.                                  *)
(***************************************************************************)
EXTENDS Fs, FsPaths, TLC

VARIABLE part

Symmetric == Permutations(Proc)

NeedsName == {"walk", "create", "mkdir", "new", "unlink", "victim", "newlink"}

AsOnDisk(i) ==
  /\ inode[i].lock = None /\ inode[i].nlink > 0
  /\ dinode[i] = [type |-> inode[i].type, nlink |-> inode[i].nlink]

Relevant ==
  <<part, disk, pc, cur, ip, puts, stage, file, panicked,
    [p \in {q \in Proc : pc[q] # "idle"} |-> call[p]],
    [p \in {q \in Proc : pc[q] \in NeedsName} |-> rest[p]],
    {p \in Proc : pc[p] \in {"walk", "open"} /\ up[p]},
    [i \in Inum |-> <<inode[i].ref, inode[i].lock>>],
    [i \in {j \in Inum : inode[j].ref > 0 /\ inode[j].valid /\ ~AsOnDisk(j)} |-> inode[i]]>>

MCSpec == Init /\ part = "names" /\ [][Next /\ UNCHANGED part]_<<part, vars>>
=============================================================================
