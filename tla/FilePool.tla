----------------------------- MODULE FilePool ------------------------------
(***************************************************************************)
(* The pool of pre-cloned root filesystems (internal/runtime/pool.go): its *)
(* background fills, the channel of ready clones and Acquire.  A file is   *)
(* an inode: cp writes into the inode a path already names, rename moves   *)
(* it.  main.go builds the backend twice (runtime.New, then                *)
(* NewFirecrackerWithConfig), and with WARDEN_ROOTFS_POOL set both builds  *)
(* start a pool over the same directory; only the last one serves.         *)
(***************************************************************************)
EXTENDS Naturals, Sequences, FiniteSets

CONSTANTS Pools,    \* the FilePools of the process that share Dir
          Serving,  \* the one that Boot uses
          Size,     \* clones a pool keeps
          Boots,    \* calls of Acquire, one for each microVM
          CanFail,  \* cloneFile may fail (no space left)
          None      \* no file

ASSUME PoolConfig ==
  /\ Serving \in Pools
  /\ Size \in Nat \ {0}
  /\ IsFiniteSet(Boots)
  /\ CanFail \in BOOLEAN

VARIABLES pending,  \* fill goroutines that were started and have not run yet
          seq,      \* FilePool.seq
          active,   \* fills that are cloning: the pool, the n of ready-n.ext4, the inode
          ready,    \* the channel of ready paths of each pool
          path,     \* the inode that ready-n.ext4 names
          content,  \* what is in an inode
          disk,     \* the inode that is the disk of a microVM, or Failed
          lost      \* history: fills of each pool that failed

fillVars == <<pending, seq, active>>
poolVars == <<fillVars, ready, path, content, disk, lost>>

\* A fill per initial clone and per clone taken.
Seqs   == 1..(Size + Cardinality(Boots))
Inodes == ((Pools \cup {"old"}) \X Seqs) \cup ({"own"} \X Boots)

\* What Acquire left a boot that failed.
Failed == <<"failed">>

ASSUME PoolNames ==
  Pools \cap {"old", "own"} = {} /\ {None, Failed} \cap Inodes = {} /\ None # Failed

\* NewFilePool: the directory may hold the clones of an earlier process.
PoolInit ==
  /\ pending = [p \in Pools |-> Size]
  /\ seq = [p \in Pools |-> 0]
  /\ active = {}
  /\ ready = [p \in Pools |-> <<>>]
  /\ \E left \in SUBSET (1..Size) :
       /\ path = [n \in Seqs |-> IF n \in left THEN <<"old", n>> ELSE None]
       /\ content = [i \in Inodes |-> IF i \in {"old"} \X left THEN "partial" ELSE "absent"]
  /\ disk = [b \in Boots |-> None]
  /\ lost = [p \in Pools |-> 0]

-----------------------------------------------------------------------------
\* [mutant] clones are numbered by the length of the channel.
FillStartByLength(p) ==
  LET n == Len(ready[p]) + 1
      i == IF path[n] = None THEN <<p, n>> ELSE path[n]
  IN /\ pending[p] > 0
     /\ pending' = [pending EXCEPT ![p] = @ - 1]
     /\ active' = active \cup {[pool |-> p, n |-> n, inode |-> i]}
     /\ path' = [path EXCEPT ![n] = i]
     /\ content' = [content EXCEPT ![i] = "partial"]
     /\ UNCHANGED <<seq, ready, disk, lost>>

\* fill takes a number and cp opens the target: an existing file is truncated.
FillStart(p) ==
  LET n == seq[p] + 1
      i == IF path[n] = None THEN <<p, n>> ELSE path[n]
  IN /\ pending[p] > 0
     /\ pending' = [pending EXCEPT ![p] = @ - 1]
     /\ seq' = [seq EXCEPT ![p] = @ + 1]
     /\ active' = active \cup {[pool |-> p, n |-> n, inode |-> i]}
     /\ path' = [path EXCEPT ![n] = i]
     /\ content' = [content EXCEPT ![i] = "partial"]
     /\ UNCHANGED <<ready, disk, lost>>

\* The clone is complete; the path goes to the channel, or is removed when the
\* channel is full.
FillDone(f) ==
  /\ active' = active \ {f}
  /\ content' = [content EXCEPT ![f.inode] = "golden"]
  /\ IF Len(ready[f.pool]) < Size
     THEN ready' = [ready EXCEPT ![f.pool] = Append(@, f.n)] /\ UNCHANGED path
     ELSE path' = [path EXCEPT ![f.n] = None] /\ UNCHANGED ready
  /\ UNCHANGED <<pending, seq, disk, lost>>

\* [mutant] the path of a failed clone is handed out too.
FillFailsReady(f) ==
  /\ CanFail
  /\ active' = active \ {f}
  /\ ready' = [ready EXCEPT ![f.pool] = Append(@, f.n)]
  /\ UNCHANGED <<pending, seq, path, content, disk, lost>>

\* cloneFile failed: fill returns and leaves what it wrote.
FillFails(f) ==
  /\ CanFail
  /\ active' = active \ {f}
  /\ lost' = [lost EXCEPT ![f.pool] = @ + 1]
  /\ UNCHANGED <<pending, seq, ready, path, content, disk>>

\* dst gets a fresh clone of Golden.
Cloned(b) ==
  /\ disk' = [disk EXCEPT ![b] = <<"own", b>>]
  /\ content' = [content EXCEPT ![<<"own", b>>] = "golden"]
  /\ UNCHANGED path

\* cloneFile to dst failed, and Acquire with it.
CloneFailed(b) ==
  /\ CanFail
  /\ disk' = [disk EXCEPT ![b] = Failed]
  /\ UNCHANGED <<content, path>>

\* os.Rename of ready-n.ext4 to dst.
Renamed(b, n) ==
  /\ path[n] # None
  /\ disk' = [disk EXCEPT ![b] = path[n]]
  /\ path' = [path EXCEPT ![n] = None]
  /\ UNCHANGED content

\* The default branch of the select: no clone is ready.
AcquireMiss(b) ==
  /\ disk[b] = None
  /\ ready[Serving] = <<>>
  /\ Cloned(b) \/ CloneFailed(b)
  /\ UNCHANGED <<fillVars, ready, lost>>

\* [mutant] the clone taken is replaced by two.
AcquireHitFillsTwo(b) ==
  /\ disk[b] = None
  /\ ready[Serving] # <<>>
  /\ ready' = [ready EXCEPT ![Serving] = Tail(@)]
  /\ pending' = [pending EXCEPT ![Serving] = @ + 2]
  /\ Renamed(b, Head(ready[Serving]))
  /\ UNCHANGED <<seq, active, lost>>

\* [mutant] the fills are not started again.
AcquireHitNoFill(b) ==
  /\ disk[b] = None
  /\ ready[Serving] # <<>>
  /\ ready' = [ready EXCEPT ![Serving] = Tail(@)]
  /\ Renamed(b, Head(ready[Serving]))
  /\ UNCHANGED <<fillVars, lost>>

\* A clone is taken and a fill started; the rename may fail (the file is gone, dst
\* is on another file system) and leave the file where it is.
AcquireHit(b) ==
  /\ disk[b] = None
  /\ ready[Serving] # <<>>
  /\ ready' = [ready EXCEPT ![Serving] = Tail(@)]
  /\ pending' = [pending EXCEPT ![Serving] = @ + 1]
  /\ Renamed(b, Head(ready[Serving])) \/ Cloned(b) \/ CloneFailed(b)
  /\ UNCHANGED <<seq, active, lost>>

\* The guest writes its disk.
GuestWrites(b) ==
  /\ disk[b] \in Inodes
  /\ content' = [content EXCEPT ![disk[b]] = "dirty"]
  /\ UNCHANGED <<fillVars, ready, path, disk, lost>>

Fill == \E f \in active : FillDone(f)

PoolNext ==
  \/ \E p \in Pools : FillStart(p)
  \/ Fill
  \/ \E f \in active : FillFails(f)
  \/ \E b \in Boots : AcquireMiss(b) \/ AcquireHit(b) \/ GuestWrites(b)

PoolSpec == PoolInit /\ [][PoolNext]_poolVars

\* The Go scheduler runs every goroutine, and cp ends.
PoolFairSpec ==
  /\ PoolSpec
  /\ \A p \in Pools : WF_poolVars(FillStart(p))
  /\ WF_poolVars(Fill)

-----------------------------------------------------------------------------
(* Properties.                                                             *)

\* Every variable has its type; the channels hold at most Size paths.
PoolTypeOK ==
  /\ pending \in [Pools -> 0..Size]
  /\ seq \in [Pools -> {0} \cup Seqs]
  /\ active \subseteq [pool : Pools, n : Seqs, inode : Inodes]
  /\ ready \in [Pools -> Seq(Seqs)] /\ \A p \in Pools : Len(ready[p]) <= Size
  /\ path \in [Seqs -> Inodes \cup {None}]
  /\ content \in [Inodes -> {"absent", "partial", "golden", "dirty"}]
  /\ disk \in [Boots -> Inodes \cup {None, Failed}]
  /\ lost \in [Pools -> 0..Size]

\* "DiskPool places a clean golden rootfs at dst" (pool.go): the disk of a
\* microVM is whole, no fill is still writing it, the pool's directory no longer
\* names it and no other microVM has it.
PrivateDisk ==
  \A b \in Boots : disk[b] \in Inodes =>
    /\ content[disk[b]] \in {"golden", "dirty"}
    /\ \A f \in active : f.inode # disk[b]
    /\ \A n \in Seqs : path[n] # disk[b]
    /\ \A c \in Boots \ {b} : disk[c] # disk[b]

\* "Dirty disks are never returned to the pool": what the channel offers is a
\* finished clone, whatever fills failed before, and no path is offered twice.
ReadyIsGolden ==
  \A p \in Pools : \A k \in DOMAIN ready[p] :
    /\ path[ready[p][k]] # None => content[path[ready[p][k]]] = "golden"
    /\ \A m \in DOMAIN ready[p] \ {k} : ready[p][m] # ready[p][k]

\* Every clone taken starts one fill: the fills under way never exceed the free
\* places of the channel, so the branch of fill that removes its clone is dead.
RoomForEveryFill ==
  \A p \in Pools :
    pending[p] + Cardinality({f \in active : f.pool = p}) + Len(ready[p]) <= Size

\* No fill is forgotten: when none is to come and none is under way, the channel
\* lacks exactly the clones of the fills that failed.
QuietIsFull ==
  \A p \in Pools :
    pending[p] = 0 /\ {f \in active : f.pool = p} = {} => Len(ready[p]) + lost[p] = Size

\* What the client of the pool sees: the contents of the disk of each microVM.
Rootfs ==
  [b \in Boots |-> CASE disk[b] = None -> "none" [] disk[b] = Failed -> "failed"
                      [] OTHER -> content[disk[b]]]

\* "Dirty disks are never returned to the pool" (pool.go): the pool implements the
\* interface, every disk is golden when Acquire returns it, and no fill, no
\* other Acquire and no other guest ever changes it afterwards.
Contract == INSTANCE DiskPool WITH rootfs <- Rootfs
DiskPoolSpec == Contract!Spec

\* "FilePool keeps Size pre-cloned copies of Golden under Dir" (pool.go): after
\* the last Acquire the serving pool fills up again, to Size less one place for
\* every fill that failed in the life of the process (fill does not try again).
Refills == <>[](Len(ready[Serving]) + lost[Serving] = Size)
=============================================================================
