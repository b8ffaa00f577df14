------------------------------- MODULE Cgroup -------------------------------
(***************************************************************************)
(* The cgroup of a microVM: CgroupV2.Attach and its cleanup                *)
(* (internal/resources/cgroup.go), as launch, the error path of bootOne    *)
(* and Destroy (internal/runtime/firecracker.go) use them, while the       *)
(* processes they are about (sudo, jailer, firecracker) fork and exit.     *)
(* Attach reads /proc entry by entry and moves process by process.  The    *)
(* ids of the microVMs, and with them the directories, start again when    *)
(* warden is restarted; the processes of the microVMs survive it.  A pid   *)
(* names one process: the kernel's reuse of pids is not modelled.          *)
(***************************************************************************)
EXTENDS Naturals, FiniteSets

CONSTANTS MaxBoots,  \* microVMs of a behaviour
          Tree,      \* how many processes the microVMs may have
          MaxVMs,    \* slots of the gate
          MaxLives   \* starts of warden

Boots  == 1 .. MaxBoots

ASSUME CgroupConfig ==
  {MaxBoots, MaxVMs, MaxLives} \subseteq Nat \ {0} /\ Tree \in [Boots -> Nat \ {0}]

Own    == 0             \* warden's cgroup, in which everything is started
Dirs   == 1 .. MaxBoots \* warden-fc-N
Nobody == <<0, 0>>      \* init or warden, as a parent
Of(b)  == {b} \X (1 .. Tree[b])
Procs  == UNION {Of(b) : b \in Boots}
leader(b) == <<b, 1>>   \* cmd.Process.Pid, leader of the process group too

VARIABLES mode,      \* what warden may do to cgroups, and WARDEN_CGROUP_REQUIRED
          lives,     \* how often warden has been started
          seq,       \* Firecracker.seq
          pc,        \* where the boot or the destruction of a microVM is
          id,        \* N of fc-N
          attached,  \* inst.cgroupCleanup removes the directory
          err,       \* Destroy has returned an error of the cleanup
          listed,    \* the processes that Attach found in /proc
          ppid,      \* ppid of descendantPIDs, as pairs of pid and parent
          todo,      \* processes to read, then to move
          moved,     \* moveProcs has moved one
          run,       \* state of a process; doomed: SIGKILL is pending
          parent, cg, \* parent and cgroup of a process
          dirs       \* absent, bare or with its limits

attachVars == <<listed, ppid, todo, moved>>
procVars   == <<run, parent, cg>>
vars == <<mode, lives, seq, pc, id, attached, err, attachVars, procVars, dirs>>

Modes == [cgroup : {"none", "dir", "all"}, require : BOOLEAN]

Init ==
  /\ mode \in Modes
  /\ lives = 1 /\ seq = 0
  /\ pc = [b \in Boots |-> "none"] /\ id = [b \in Boots |-> 0]
  /\ attached = [b \in Boots |-> FALSE] /\ err = [b \in Boots |-> FALSE]
  /\ listed = [b \in Boots |-> {}] /\ ppid = [b \in Boots |-> {}]
  /\ todo = [b \in Boots |-> {}] /\ moved = [b \in Boots |-> FALSE]
  /\ run = [p \in Procs |-> "unborn"]
  /\ parent = [p \in Procs |-> Nobody] /\ cg = [p \in Procs |-> Own]
  /\ dirs = [d \in Dirs |-> "absent"]

Goto(b, label) == pc' = [pc EXCEPT ![b] = label]
Alive(p) == run[p] \in {"live", "doomed"}
\* Start, Attach and the rest of launch, the job, Destroy: the gate's slot is taken.
Held == {"mkdir", "limits", "list", "stat", "move", "boot", "up", "stop", "reap"}

-----------------------------------------------------------------------------
(* The kernel.                                                             *)

\* A child is in the cgroup of its parent.
Fork(p) ==
  LET b == p[1] IN
  /\ run[p] = "live"
  /\ \E c \in Of(b) :
       /\ run[c] = "unborn" /\ \A d \in Of(b) : run[d] = "unborn" => c[2] <= d[2]
       /\ run' = [run EXCEPT ![c] = "live"]
       /\ parent' = [parent EXCEPT ![c] = p]
       /\ cg' = [cg EXCEPT ![c] = cg[p]]
  /\ UNCHANGED <<mode, lives, seq, pc, id, attached, err, attachVars, dirs>>

\* A process ends and is reaped, the leader by inst.reap; its children go to init.
Exit(p) ==
  /\ Alive(p)
  /\ run' = [run EXCEPT ![p] = "dead"]
  /\ parent' = [q \in Procs |-> IF q = p \/ parent[q] = p THEN Nobody ELSE parent[q]]
  /\ cg' = [cg EXCEPT ![p] = Own]
  /\ UNCHANGED <<mode, lives, seq, pc, id, attached, err, attachVars, dirs>>

\* kill: SIGKILL to the process group.
Kill(b) == run' = [p \in Procs |-> IF p \in Of(b) /\ run[p] = "live" THEN "doomed" ELSE run[p]]

-----------------------------------------------------------------------------
(* descendantPIDs and the cleanup.                                         *)

\* [mutant] one pass over the map, without the loop until nothing changes.
DescendantsOnce(b, pairs) == {leader(b)} \cup {p \in Of(b) : <<p, leader(b)>> \in pairs}

\* The loop of descendantPIDs, with the root: the least set that holds the root and
\* every process whose parent it holds.
Descendants(b, pairs) ==
  {p \in Of(b) : \A S \in SUBSET Of(b) :
     leader(b) \in S /\ (\A e \in pairs : e[2] \in S => e[1] \in S) => p \in S}

Kin(b) == {<<p, parent[p]>> : p \in {q \in Of(b) : Alive(q)}}

\* Attach's closure: what is left of the tree goes back to warden's cgroup; rmdir
\* works when nobody is inside, and RemoveAll cannot do better.
Cleanup(b) ==
  /\ cg' = [p \in Procs |-> IF p \in Descendants(b, Kin(b)) THEN Own ELSE cg[p]]
  /\ dirs' = [dirs EXCEPT ![id[b]] = IF \E p \in Procs : cg'[p] = id[b] THEN @ ELSE "absent"]

-----------------------------------------------------------------------------
(* bootOne and Attach.                                                     *)

\* The locals of Attach, dropped when the boot has failed or the microVM is gone.
\* (listed is kept as long as the microVM is up: SeenIsInside refers to it.)
Drop(b) == /\ listed' = [listed EXCEPT ![b] = {}] /\ ppid' = [ppid EXCEPT ![b] = {}]
           /\ todo' = [todo EXCEPT ![b] = {}] /\ moved' = [moved EXCEPT ![b] = FALSE]

\* bootOne takes an id; cmd.Start.
Boot(b) ==
  /\ pc[b] = "none" /\ (b > 1 => pc[b - 1] # "none")
  /\ Cardinality({c \in Boots : pc[c] \in Held}) < MaxVMs
  /\ seq' = seq + 1 /\ id' = [id EXCEPT ![b] = seq + 1]
  /\ run' = [run EXCEPT ![leader(b)] = "live"]
  /\ Goto(b, "mkdir")
  /\ UNCHANGED <<mode, lives, attached, err, attachVars, parent, cg, dirs>>

\* missing, and launch: without a cgroup the boot goes on unless it is required.
Missing(b) ==
  IF mode.require THEN Kill(b) /\ Goto(b, "failed") ELSE Goto(b, "boot") /\ UNCHANGED run

others == <<mode, lives, seq, id, attached, err, parent>>

\* os.Mkdir; a directory that exists is as good.
Mkdir(b) ==
  /\ pc[b] = "mkdir"
  /\ IF mode.cgroup = "none"
     THEN Missing(b) /\ UNCHANGED dirs
     ELSE /\ dirs' = [dirs EXCEPT ![id[b]] = IF @ = "absent" THEN "bare" ELSE @]
          /\ Goto(b, "limits") /\ UNCHANGED run
  /\ UNCHANGED <<others, attachVars, cg>>

\* [mutant] a limit that cannot be written is ignored.
LimitsLenient(b) ==
  /\ pc[b] = "limits"
  /\ dirs' = [dirs EXCEPT ![id[b]] = IF mode.cgroup = "all" THEN "limited" ELSE @]
  /\ Goto(b, "list")
  /\ UNCHANGED <<others, attachVars, run, cg>>

\* memory.max, cpu.max and pids.max.  The optional files change nothing.
Limits(b) ==
  /\ pc[b] = "limits"
  /\ IF mode.cgroup = "all"
     THEN /\ dirs' = [dirs EXCEPT ![id[b]] = "limited"]
          /\ Goto(b, "list") /\ UNCHANGED <<run, cg>>
     ELSE Cleanup(b) /\ Missing(b)
  /\ UNCHANGED <<others, attachVars>>

\* ReadDir of /proc.  The processes of other trees are read too, to no effect.
List(b) ==
  /\ pc[b] = "list"
  /\ LET found == {p \in Of(b) : Alive(p)} IN
       listed' = [listed EXCEPT ![b] = found] /\ todo' = [todo EXCEPT ![b] = found]
  /\ Goto(b, "stat")
  /\ UNCHANGED <<others, ppid, moved, run, cg, dirs>>

\* procPPid of one entry; who is gone is skipped.
Stat(b) ==
  /\ pc[b] = "stat"
  /\ \E p \in todo[b] :
       /\ todo' = [todo EXCEPT ![b] = @ \ {p}]
       /\ ppid' = [ppid EXCEPT ![b] = IF Alive(p) THEN @ \cup {<<p, parent[p]>>} ELSE @]
  /\ UNCHANGED <<others, pc, listed, moved, run, cg, dirs>>

\* All are read: the root and its descendants are to be moved.
Select(b) ==
  /\ pc[b] = "stat" /\ todo[b] = {}
  /\ todo' = [todo EXCEPT ![b] = Descendants(b, ppid[b])]
  /\ Goto(b, "move")
  /\ UNCHANGED <<others, listed, ppid, moved, run, cg, dirs>>

\* One write to cgroup.procs, the root first and parents before their children.
MoveProc(b) ==
  /\ pc[b] = "move"
  /\ \E p \in todo[b] :
       /\ \A q \in todo[b] \ {p} : q # leader(b) /\ <<p, q>> \notin ppid[b]
       /\ todo' = [todo EXCEPT ![b] = @ \ {p}]
       /\ cg' = [cg EXCEPT ![p] = IF Alive(p) THEN id[b] ELSE @]
       /\ moved' = [moved EXCEPT ![b] = @ \/ Alive(p)]
  /\ UNCHANGED <<others, pc, listed, ppid, run, dirs>>

\* moveProcs returns: an error only if not one could be moved.
MoveReturns(b) ==
  /\ pc[b] = "move" /\ todo[b] = {}
  /\ IF moved[b]
     THEN /\ attached' = [attached EXCEPT ![b] = TRUE]
          /\ ppid' = [ppid EXCEPT ![b] = {}] /\ moved' = [moved EXCEPT ![b] = FALSE]
          /\ Goto(b, "boot") /\ UNCHANGED <<listed, todo, run, cg, dirs>>
     ELSE Cleanup(b) /\ Missing(b) /\ Drop(b) /\ UNCHANGED attached
  /\ UNCHANGED <<mode, lives, seq, id, err, parent>>

\* The rest of launch.  When it fails it kills, and bootOne leaves the cgroup alone.
LaunchReturns(b) ==
  /\ pc[b] = "boot"
  /\ \/ Goto(b, "up") /\ UNCHANGED <<run, attachVars>>
     \/ Kill(b) /\ Goto(b, "failed") /\ Drop(b)
  /\ UNCHANGED <<others, cg, dirs>>

-----------------------------------------------------------------------------
(* Destroy.                                                                *)

\* Ctrl-Alt-Del, then up to two seconds for the leader to end.
Destroy(b) ==
  /\ pc[b] = "up"
  /\ Goto(b, "stop")
  /\ UNCHANGED <<others, attachVars, run, cg, dirs>>

\* The two seconds are over.
DestroyKills(b) ==
  /\ pc[b] = "stop" /\ Alive(leader(b))
  /\ Kill(b)
  /\ Goto(b, "reap")
  /\ UNCHANGED <<others, attachVars, cg, dirs>>

\* [mutant] the cleanup does not wait for the leader.
DestroyHasty(b) ==
  /\ pc[b] \in {"stop", "reap"}
  /\ Cleanup(b) /\ err' = [err EXCEPT ![b] = attached[b] /\ dirs'[id[b]] # "absent"]
  /\ Goto(b, "down") /\ Drop(b)
  /\ UNCHANGED <<mode, lives, seq, id, attached, parent, run>>

\* [mutant] nothing is cleaned up after a leader that ended by itself.
DestroySkips(b) ==
  /\ pc[b] \in {"stop", "reap"} /\ ~Alive(leader(b))
  /\ IF attached[b] /\ pc[b] = "reap"
     THEN Cleanup(b) /\ err' = [err EXCEPT ![b] = dirs'[id[b]] # "absent"]
     ELSE UNCHANGED <<cg, dirs, err>>
  /\ Goto(b, "down") /\ Drop(b)
  /\ UNCHANGED <<mode, lives, seq, id, attached, parent, run>>

\* [mutant] the error of the cleanup is dropped.
DestroyDeaf(b) ==
  /\ pc[b] \in {"stop", "reap"} /\ ~Alive(leader(b))
  /\ IF attached[b] THEN Cleanup(b) ELSE UNCHANGED <<cg, dirs>>
  /\ Goto(b, "down") /\ Drop(b)
  /\ UNCHANGED <<mode, lives, seq, id, attached, err, parent, run>>

\* The leader is reaped: the cleanup, whose error Destroy reports.
DestroyCleans(b) ==
  /\ pc[b] \in {"stop", "reap"} /\ ~Alive(leader(b))
  /\ IF attached[b]
     THEN Cleanup(b) /\ err' = [err EXCEPT ![b] = dirs'[id[b]] # "absent"]
     ELSE UNCHANGED <<cg, dirs, err>>
  /\ Goto(b, "down") /\ Drop(b)
  /\ UNCHANGED <<mode, lives, seq, id, attached, parent, run>>

-----------------------------------------------------------------------------

\* warden dies and is started again: ids start from 1, nobody looks for leftovers.
Restart ==
  /\ lives < MaxLives
  /\ lives' = lives + 1 /\ seq' = 0
  /\ pc' = [b \in Boots |-> IF pc[b] \in Held THEN "orphan" ELSE pc[b]]
  /\ listed' = [b \in Boots |-> {}] /\ ppid' = [b \in Boots |-> {}]
  /\ todo' = [b \in Boots |-> {}] /\ moved' = [b \in Boots |-> FALSE]
  /\ UNCHANGED <<mode, id, attached, err, procVars, dirs>>

Attach(b) == Mkdir(b) \/ Limits(b) \/ List(b) \/ Stat(b) \/ Select(b) \/ MoveProc(b) \/ MoveReturns(b)

Next ==
  \/ \E p \in Procs : Fork(p) \/ Exit(p)
  \/ \E b \in Boots : \/ Boot(b) \/ Attach(b) \/ LaunchReturns(b)
                      \/ Destroy(b) \/ DestroyKills(b) \/ DestroyCleans(b)
  \/ Restart

Spec == Init /\ [][Next]_vars

-----------------------------------------------------------------------------
(* Properties.                                                             *)

\* Every variable has its type; only processes that exist have a parent or are in
\* a cgroup of their own.
TypeOK ==
  /\ mode \in Modes /\ lives \in 1 .. MaxLives /\ seq \in 0 .. MaxBoots
  /\ pc \in [Boots -> Held \cup {"none", "failed", "down", "orphan"}]
  /\ id \in [Boots -> 0 .. MaxBoots]
  /\ attached \in [Boots -> BOOLEAN] /\ err \in [Boots -> BOOLEAN] /\ moved \in [Boots -> BOOLEAN]
  /\ listed \in [Boots -> SUBSET Procs] /\ todo \in [Boots -> SUBSET Procs]
  /\ ppid \in [Boots -> SUBSET (Procs \X (Procs \cup {Nobody}))]
  /\ run \in [Procs -> {"unborn", "live", "doomed", "dead"}]
  /\ parent \in [Procs -> Procs \cup {Nobody}]
  /\ cg \in [Procs -> {Own} \cup Dirs]
  /\ dirs \in [Dirs -> {"absent", "bare", "limited"}]
  /\ \A p \in Procs : ~Alive(p) => parent[p] = Nobody /\ cg[p] = Own

\* A line of living parents leads from the leader to p.
Lineage(b, p) ==
  \E n \in 1 .. Tree[b] : \E line \in [1 .. n -> Of(b)] :
    /\ line[1] = leader(b) /\ line[n] = p
    /\ \A k \in 1 .. n - 1 : parent[line[k + 1]] = line[k]

\* "moves pid (plus descendants, so sudo+jailer children are included) into it"
\* (cgroup.go), and with WARDEN_CGROUP_REQUIRED there is no microVM without: after
\* Attach every process of the tree that was there when /proc was read, and whose
\* ancestors live, is inside, whatever forked and exited meanwhile.  Who is forked
\* after the reading by a parent that is not moved yet may stay outside.
SeenIsInside ==
  \A b \in Boots : pc[b] \in {"boot", "up", "stop", "reap"} =>
    /\ mode.require => attached[b]
    /\ attached[b] => \A p \in listed[b] : Alive(p) /\ Lineage(b, p) => cg[p] = id[b]

\* The limits are written before anybody is moved, also into a directory that an
\* earlier life of warden has left: nobody is ever in a cgroup without limits.
LimitsBeforeMembers ==
  \A p \in Procs : cg[p] # Own => dirs[cg[p]] = "limited"

\* The cleanup returns processes to warden's cgroup.  Destroy runs it when there is
\* no tree left, so a process that is inside stays inside as long as it lives.
NeverReleased ==
  [][\A p \in Procs : cg[p] # Own /\ Alive(p)' => cg'[p] = cg[p]]_vars

\* A Destroy without an error leaves no process of its microVM in the cgroup, also
\* if the leader ended before its children.
DestroyIsHonest ==
  \A b \in Boots : pc[b] = "down" /\ ~err[b] => \A p \in Of(b) : cg[p] = Own

\* A directory is that of a microVM in operation, or was left by a failed launch
\* (bootOne does not call cgroupCleanup), by the end of warden, or by a Destroy
\* that said so.
LeftoversExplained ==
  \A d \in Dirs : dirs[d] # "absent" =>
    \E b \in Boots : /\ id[b] = d
                     /\ \/ pc[b] \in Held \cup {"orphan"}
                        \/ pc[b] = "failed" /\ attached[b]
                        \/ pc[b] = "down" /\ err[b]
=============================================================================
