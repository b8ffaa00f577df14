---------------------------- MODULE CgroupProofs ----------------------------
(***************************************************************************)
(* Proofs about module Cgroup, for any number of microVMs, processes,      *)
(* slots and restarts.  The properties are not inductive: that a directory *)
(* is limited when Attach moves a process into it rests on the ids of the  *)
(* microVMs in operation being distinct, and that the cleanup releases     *)
(* nobody rests on where the processes of a microVM can be at every stage. *)
(***************************************************************************)
EXTENDS Cgroup, TLAPS

\* The ids in use are distinct and fit the directories, although the counter starts
\* again with warden.
Ids ==
  \A b \in Boots :
    /\ pc[b] \in Held => id[b] \in 1 .. seq
    /\ pc[b] # "none" => id[b] \in Dirs
    /\ pc[b] = "none" => seq < b /\ \A c \in Boots : b <= c => pc[c] = "none"
    /\ \A c \in Boots : pc[b] \in Held /\ pc[c] \in Held /\ id[b] = id[c] => b = c

\* Who has a parent has a living one.
Kinship ==
  /\ \A p \in Procs : parent[p] # Nobody => Alive(parent[p])
  /\ \A b \in Boots : todo[b] \subseteq Of(b)

\* Where a process that is inside a cgroup can be.
Accounted(b) ==
  /\ mode.cgroup = "all"
  /\ pc[b] \notin {"none", "mkdir", "limits", "list", "stat"}
  /\ pc[b] = "move" => moved[b]
  /\ pc[b] \in {"boot", "up", "stop", "reap", "failed"} => attached[b]
  /\ pc[b] = "down" => err[b]

Members ==
  \A b \in Boots : \A p \in Of(b) :
    cg[p] \in {Own, id[b]} /\ (cg[p] # Own => Accounted(b))

\* A microVM that is gone has left its directory behind.
Leaves(b) ==
  pc[b] = "orphan" \/ (pc[b] = "failed" /\ attached[b]) \/ (pc[b] = "down" /\ err[b])

\* What Attach has done to the directory.  If it has given up, what is still there
\* is of an earlier life.
Prepared ==
  /\ mode.cgroup = "none" => \A d \in Dirs : dirs[d] = "absent"
  /\ \A d \in Dirs : dirs[d] = "limited" => mode.cgroup = "all"
  /\ \A b \in Boots : pc[b] \in {"list", "stat", "move"} => dirs[id[b]] = "limited"
  /\ \A b \in Boots :
       pc[b] \in {"boot", "up", "stop", "reap"} /\ ~attached[b] /\ dirs[id[b]] # "absent" =>
         \E c \in Boots : c # b /\ id[c] = id[b] /\ Leaves(c)

IInv ==
  TypeOK /\ Ids /\ Kinship /\ Members /\ Prepared /\ LimitsBeforeMembers /\ LeftoversExplained

-----------------------------------------------------------------------------
\* The names of the processes: every one belongs to one microVM.
LEMMA ProcFacts ==
  /\ \A b \in Boots : leader(b) \in Of(b) /\ Of(b) \subseteq Procs
  /\ \A p \in Procs : p[1] \in Boots /\ p \in Of(p[1])
  /\ \A b, c \in Boots : \A p \in Of(b) : p \in Of(c) => b = c
  /\ Nobody \notin Procs
BY CgroupConfig DEF Boots, Of, Procs, leader, Nobody

\* No directory is warden's own cgroup.
LEMMA OwnIsNoDir == \A d \in Dirs : d # Own
BY CgroupConfig DEF Dirs, Own

\* descendantPIDs returns processes of the tree, the root among them.
LEMMA DescendantsInTree ==
  ASSUME NEW b, NEW pairs PROVE Descendants(b, pairs) \subseteq Of(b)
BY DEF Descendants

\* When the leader is reaped nobody is its child: the cleanup finds an empty tree.
LEMMA NoTreeLeft ==
  ASSUME IInv, NEW b \in Boots, ~Alive(leader(b))
  PROVE  Descendants(b, Kin(b)) \subseteq {leader(b)}
<1>1. \A e \in Kin(b) : e[2] # leader(b)
  BY ProcFacts DEF Kin, IInv, Kinship, Nobody
<1>2. {leader(b)} \in SUBSET Of(b)
  BY ProcFacts
<1>q. QED
  BY <1>1, <1>2 DEF Descendants

\* Before the first start nothing exists.
LEMMA InitIInv == Init => IInv
<1> SUFFICES ASSUME Init PROVE IInv
  OBVIOUS
<1>1. TypeOK
  BY CgroupConfig DEF Init, TypeOK, Alive, Boots, Dirs, Own
<1>2. Ids /\ Kinship
  BY CgroupConfig DEF Init, Ids, Kinship, Held, Boots
<1>3. Members /\ Prepared /\ LimitsBeforeMembers /\ LeftoversExplained
  BY ProcFacts DEF Init, Members, Prepared, LimitsBeforeMembers, LeftoversExplained
<1>q. QED
  BY <1>1, <1>2, <1>3 DEF IInv

\* A fork: the child is where the parent is.
LEMMA ForkStep ==
  ASSUME IInv, NEW p \in Procs, Fork(p) PROVE IInv'
<1> DEFINE b == p[1]
<1>1. b \in Boots /\ p \in Of(b) /\ run[p] = "live"
  BY ProcFacts DEF Fork
<1>2. PICK c \in Of(b) : /\ run[c] = "unborn"
                         /\ run' = [run EXCEPT ![c] = "live"]
                         /\ parent' = [parent EXCEPT ![c] = p]
                         /\ cg' = [cg EXCEPT ![c] = cg[p]]
  BY DEF Fork
<1>3. UNCHANGED <<mode, lives, seq, pc, id, attached, err, listed, ppid, todo, moved, dirs>>
  BY DEF Fork, attachVars
<1>4. c \in Procs /\ c # p
  BY <1>1, <1>2, ProcFacts
<1>5. TypeOK'
  BY <1>1, <1>2, <1>3, <1>4 DEF IInv, TypeOK, Alive
<1>6. Ids' /\ Prepared' /\ LeftoversExplained'
  BY <1>3 DEF IInv, Ids, Prepared, LeftoversExplained, Leaves
<1>7. Kinship'
  BY <1>1, <1>2, <1>3, <1>4 DEF IInv, Kinship, TypeOK, Alive
<1>8. Members'
  BY <1>1, <1>2, <1>3, <1>4, ProcFacts DEF IInv, Members, TypeOK, Accounted
<1>9. LimitsBeforeMembers'
  BY <1>1, <1>2, <1>3, <1>4 DEF IInv, LimitsBeforeMembers, TypeOK
<1>q. QED
  BY <1>5, <1>6, <1>7, <1>8, <1>9 DEF IInv

\* An exit: nobody is left as a child of the dead.
LEMMA ExitStep ==
  ASSUME IInv, NEW p \in Procs, Exit(p) PROVE IInv'
<1>1. /\ run' = [run EXCEPT ![p] = "dead"]
      /\ parent' = [q \in Procs |-> IF q = p \/ parent[q] = p THEN Nobody ELSE parent[q]]
      /\ cg' = [cg EXCEPT ![p] = Own]
  BY DEF Exit
<1>2. UNCHANGED <<mode, lives, seq, pc, id, attached, err, listed, ppid, todo, moved, dirs>>
  BY DEF Exit, attachVars
<1>3. TypeOK'
  BY <1>1, <1>2 DEF IInv, TypeOK, Alive
<1>4. Ids' /\ Prepared' /\ LeftoversExplained'
  BY <1>2 DEF IInv, Ids, Prepared, LeftoversExplained, Leaves
<1>5. Kinship'
  BY <1>1, <1>2 DEF IInv, Kinship, TypeOK, Alive
<1>6. Members' /\ LimitsBeforeMembers'
  BY <1>1, <1>2, ProcFacts DEF IInv, Members, TypeOK, Accounted, LimitsBeforeMembers
<1>q. QED
  BY <1>3, <1>4, <1>5, <1>6 DEF IInv

\* A boot takes an id that no microVM in operation has.
LEMMA BootStep ==
  ASSUME IInv, NEW b \in Boots, Boot(b) PROVE IInv'
<1>1. /\ pc[b] = "none" /\ pc' = [pc EXCEPT ![b] = "mkdir"]
      /\ b > 1 => pc[b - 1] # "none"
      /\ seq' = seq + 1 /\ id' = [id EXCEPT ![b] = seq + 1]
      /\ run' = [run EXCEPT ![leader(b)] = "live"]
  BY DEF Boot, Goto
<1>2. UNCHANGED <<mode, lives, attached, err, listed, ppid, todo, moved, parent, cg, dirs>>
  BY DEF Boot, attachVars
<1>3. seq < b /\ seq \in Nat /\ b \in Nat /\ b <= MaxBoots
  BY <1>1, CgroupConfig DEF IInv, Ids, TypeOK, Boots
<1>4. TypeOK'
  BY <1>1, <1>2, <1>3, ProcFacts, CgroupConfig DEF IInv, TypeOK, Alive, Held
<1>5. Ids'
  <2> SUFFICES ASSUME NEW c \in Boots
               PROVE  /\ pc'[c] \in Held => id'[c] \in 1 .. seq'
                      /\ pc'[c] # "none" => id'[c] \in Dirs
                      /\ pc'[c] = "none" => seq' < c /\ \A d \in Boots : c <= d => pc'[d] = "none"
                      /\ \A d \in Boots : pc'[c] \in Held /\ pc'[d] \in Held /\ id'[c] = id'[d] => c = d
    BY DEF Ids
  <2>1. \A d \in Boots : pc[d] \in Held => id[d] \in 1 .. seq
    BY DEF IInv, Ids
  <2>2. \A d \in Boots : d # b => pc'[d] = pc[d] /\ id'[d] = id[d]
    BY <1>1 DEF IInv, TypeOK
  <2>3. pc'[b] = "mkdir" /\ id'[b] = seq + 1 /\ seq + 1 \in Dirs
    BY <1>1, <1>3, CgroupConfig DEF IInv, TypeOK, Dirs
  <2>4. (pc'[c] \in Held => id'[c] \in 1 .. seq') /\ (pc'[c] # "none" => id'[c] \in Dirs)
    BY <1>1, <1>3, <2>1, <2>2, <2>3 DEF IInv, Ids, Held
  <2>5. ASSUME pc'[c] = "none" PROVE seq' < c /\ \A d \in Boots : c <= d => pc'[d] = "none"
    <3>1. c # b /\ pc[c] = "none"
      BY <2>2, <2>3, <2>5
    <3>2. ~(c <= b - 1)
      <4>1. CASE b > 1
        <5>1. b - 1 \in Boots /\ pc[b - 1] # "none" /\ c \in Nat
          BY <1>1, <1>3, <4>1, CgroupConfig DEF Boots
        <5>q. QED
          BY <3>1, <5>1 DEF IInv, Ids
      <4>2. CASE ~(b > 1)
        BY <1>3, <4>2 DEF Boots
      <4>q. QED
        BY <4>1, <4>2
    <3>3. b < c
      BY <1>3, <3>1, <3>2 DEF Boots
    <3>4. \A d \in Boots : c <= d => pc[d] = "none" /\ d # b
      BY <1>3, <3>1, <3>3 DEF IInv, Ids, Boots
    <3>q. QED
      BY <1>1, <1>3, <2>2, <3>3, <3>4 DEF Boots
  <2>6. \A d \in Boots : pc'[c] \in Held /\ pc'[d] \in Held /\ id'[c] = id'[d] => c = d
    BY <1>3, <2>1, <2>2, <2>3 DEF IInv, Ids
  <2>q. QED
    BY <2>4, <2>5, <2>6
<1>6. Kinship'
  BY <1>1, <1>2, ProcFacts DEF IInv, Kinship, TypeOK, Alive
<1>7. Members' /\ LimitsBeforeMembers'
  BY <1>1, <1>2 DEF IInv, Members, TypeOK, Accounted, LimitsBeforeMembers
<1>8. Prepared' /\ LeftoversExplained'
  BY <1>1, <1>2 DEF IInv, Prepared, LeftoversExplained, Leaves, TypeOK, Held
<1>q. QED
  BY <1>4, <1>5, <1>6, <1>7, <1>8 DEF IInv

-----------------------------------------------------------------------------
(* What the steps of a microVM in operation have in common.                *)

\* The invariant but for the directories, when one microVM moves on and no process
\* is touched but by SIGKILL.
Moves(b, s) ==
  /\ pc' = [pc EXCEPT ![b] = s]
  /\ \/ run' = run
     \/ run' = [p \in Procs |-> IF p \in Of(b) /\ run[p] = "live" THEN "doomed" ELSE run[p]]
  /\ UNCHANGED <<mode, lives, seq, id, parent>>

\* The ids stay distinct when a microVM moves on or is done.
LEMMA MovesIds ==
  ASSUME IInv, NEW b \in Boots, pc[b] \in Held,
         NEW s \in Held \cup {"failed", "down"}, Moves(b, s)
  PROVE  Ids'
<1>1. \A c \in Boots : c # b => pc'[c] = pc[c]
  BY DEF Moves, IInv, TypeOK
<1>2. pc'[b] = s /\ s # "none" /\ pc[b] # "none" /\ UNCHANGED <<id, seq>>
  BY DEF Moves, IInv, TypeOK, Held
<1>3. \A c \in Boots : /\ pc'[c] \in Held => pc[c] \in Held
                       /\ pc'[c] # "none" <=> pc[c] # "none"
  BY <1>1, <1>2
<1>q. QED
  BY <1>2, <1>3 DEF IInv, Ids

\* SIGKILL leaves a process alive until it exits.
LEMMA MovesAlive ==
  ASSUME IInv, NEW b, NEW s, Moves(b, s)
  PROVE  /\ run' \in [Procs -> {"unborn", "live", "doomed", "dead"}]
         /\ \A p \in Procs : Alive(p)' <=> Alive(p)
BY DEF Moves, IInv, TypeOK, Alive

\* Everything but where processes and directories are.
LEMMA MovesFrame ==
  ASSUME IInv, NEW b \in Boots, pc[b] \in Held, NEW s \in Held \cup {"failed", "down"}, Moves(b, s),
         attached' \in [Boots -> BOOLEAN], err' \in [Boots -> BOOLEAN], moved' \in [Boots -> BOOLEAN],
         listed' \in [Boots -> SUBSET Procs],
         ppid' \in [Boots -> SUBSET (Procs \X (Procs \cup {Nobody}))],
         \A c \in Boots : todo'[c] \subseteq Of(c), todo' \in [Boots -> SUBSET Procs],
         cg' \in [Procs -> {Own} \cup Dirs], \A p \in Procs : ~Alive(p) => cg'[p] = Own,
         dirs' \in [Dirs -> {"absent", "bare", "limited"}]
  PROVE  TypeOK' /\ Ids' /\ Kinship'
<1>1. pc' \in [Boots -> Held \cup {"none", "failed", "down", "orphan"}]
  BY DEF Moves, IInv, TypeOK
<1>2. TypeOK'
  BY <1>1, MovesAlive DEF Moves, IInv, TypeOK
<1>3. Kinship'
  BY MovesAlive DEF Moves, IInv, Kinship, TypeOK
<1>q. QED
  BY <1>2, <1>3, MovesIds

\* A microVM that moves on leaves what is said of the others.
LEMMA MovesOthers ==
  ASSUME IInv, NEW b \in Boots, NEW s, Moves(b, s),
         \A c \in Boots : c # b => UNCHANGED <<attached[c], err[c], moved[c]>>
  PROVE  \A c \in Boots : c # b => (Accounted(c)' <=> Accounted(c)) /\ pc'[c] = pc[c]
BY DEF Moves, IInv, TypeOK, Accounted

\* The locals of Attach that Drop clears have their types.
LEMMA DropTypes ==
  ASSUME IInv, NEW b \in Boots, Drop(b)
  PROVE  /\ listed' \in [Boots -> SUBSET Procs] /\ todo' \in [Boots -> SUBSET Procs]
         /\ ppid' \in [Boots -> SUBSET (Procs \X (Procs \cup {Nobody}))]
         /\ moved' \in [Boots -> BOOLEAN]
         /\ \A c \in Boots : todo'[c] \subseteq Of(c)
         /\ \A c \in Boots : c # b => UNCHANGED moved[c]
<1>1. moved' = [moved EXCEPT ![b] = FALSE] /\ moved \in [Boots -> BOOLEAN]
  BY DEF Drop, IInv, TypeOK
<1>2. moved' \in [Boots -> BOOLEAN] /\ \A c \in Boots : c # b => UNCHANGED moved[c]
  BY <1>1
<1>q. QED
  BY <1>2 DEF Drop, IInv, TypeOK, Kinship

\* Attach's cleanup when none of its processes is inside: nobody moves, and the
\* directory goes unless processes of an earlier life are in it.
LEMMA CleanupFrame ==
  ASSUME IInv, NEW b \in Boots, pc[b] \in Held, Cleanup(b),
         \A p \in Descendants(b, Kin(b)) : cg[p] = Own
  PROVE  /\ cg' = cg
         /\ dirs' \in [Dirs -> {"absent", "bare", "limited"}]
         /\ \A d \in Dirs : d # id[b] => dirs'[d] = dirs[d]
         /\ (\E p \in Procs : cg[p] = id[b]) => dirs' = dirs
         /\ (\A p \in Procs : cg[p] # id[b]) => dirs'[id[b]] = "absent"
         /\ id[b] \in Dirs
<1>1. cg' = cg
  BY DEF Cleanup, IInv, TypeOK
<1>2. id[b] \in Dirs
  BY DEF IInv, Ids, Held
<1>q. QED
  BY <1>1, <1>2 DEF Cleanup, IInv, TypeOK

\* What a step of one microVM owes to the others.
Careful(b, s) ==
  /\ \A c \in Boots : c # b => UNCHANGED <<attached[c], err[c], moved[c]>>
  /\ \A p \in Procs \ Of(b) : cg'[p] = cg[p]
  /\ \A p \in Of(b) : /\ cg'[p] \in {Own, id[b]}
                      /\ cg'[p] # Own => Accounted(b)' /\ dirs'[id[b]] = "limited"
  /\ \A d \in Dirs : d # id[b] => dirs'[d] = dirs[d]
  /\ (\E p \in Procs \ Of(b) : cg[p] = id[b]) => dirs'[id[b]] = "limited"
  /\ mode.cgroup = "none" => \A d \in Dirs : dirs'[d] = dirs[d]
  /\ dirs'[id[b]] = "limited" => mode.cgroup = "all"
  /\ s \in {"list", "stat", "move"} => dirs'[id[b]] = "limited"
  /\ dirs'[id[b]] # "absent" =>
       \/ s \in {"mkdir", "limits", "list", "stat", "move"}
       \/ s \in Held /\ attached'[b]
       \/ Leaves(b)'
       \/ \E c \in Boots : c # b /\ id[c] = id[b] /\ Leaves(c)

\* A careful step keeps the invariant.
LEMMA CarefulStep ==
  ASSUME IInv, NEW b \in Boots, pc[b] \in Held, NEW s \in Held \cup {"failed", "down"},
         Moves(b, s), Careful(b, s)
  PROVE  Members' /\ Prepared' /\ LimitsBeforeMembers' /\ LeftoversExplained'
<1>1. \A c \in Boots : c # b => (Accounted(c)' <=> Accounted(c)) /\ pc'[c] = pc[c]
                                /\ (Leaves(c)' <=> Leaves(c))
  <2>1. \A c \in Boots : c # b => UNCHANGED <<attached[c], err[c], moved[c]>>
    BY DEF Careful
  <2>2. \A c \in Boots : c # b => (Accounted(c)' <=> Accounted(c)) /\ pc'[c] = pc[c]
    BY <2>1, MovesOthers
  <2>q. QED
    BY <2>1, <2>2 DEF Leaves
<1>2. UNCHANGED <<mode, id>> /\ pc'[b] = s
  BY DEF Moves, IInv, TypeOK
<1>3. \A c \in Boots : c # b /\ pc[c] \in Held => id[c] # id[b] /\ id[c] \in Dirs
  BY DEF IInv, Ids, Held
<1>4. ~Leaves(b) /\ id[b] \in Dirs
  BY DEF Leaves, Held, IInv, Ids
<1>5. Members'
  <2>1. ASSUME NEW c \in Boots, NEW p \in Of(c), c # b
        PROVE  cg'[p] \in {Own, id[c]} /\ (cg'[p] # Own => Accounted(c)')
    BY <1>1, <2>1, ProcFacts DEF Careful, IInv, Members
  <2>2. \A p \in Of(b) : cg'[p] \in {Own, id[b]} /\ (cg'[p] # Own => Accounted(b)')
    BY DEF Careful
  <2>q. QED
    BY <1>2, <2>1, <2>2 DEF Members
<1>6. LimitsBeforeMembers'
  <2>1. ASSUME NEW p \in Procs, p \notin Of(b), cg[p] # Own PROVE dirs'[cg[p]] = "limited"
    BY <2>1 DEF Careful, IInv, LimitsBeforeMembers, TypeOK
  <2>q. QED
    BY <2>1 DEF Careful, LimitsBeforeMembers
<1>7. Prepared'
  <2>1. mode'.cgroup = "none" => \A d \in Dirs : dirs'[d] = "absent"
    BY <1>2 DEF Careful, IInv, Prepared
  <2>2. \A c \in Boots : pc'[c] \in {"list", "stat", "move"} => dirs'[id'[c]] = "limited"
    BY <1>1, <1>2, <1>3 DEF Careful, IInv, Prepared, Held
  <2>3. ASSUME NEW c \in Boots, c # b, pc'[c] \in {"boot", "up", "stop", "reap"}, ~attached'[c],
               dirs'[id'[c]] # "absent"
        PROVE  \E d \in Boots : d # c /\ id'[d] = id'[c] /\ Leaves(d)'
    <3>1. pc[c] \in {"boot", "up", "stop", "reap"} /\ ~attached[c] /\ dirs[id[c]] # "absent"
      BY <1>1, <1>2, <1>3, <2>3 DEF Careful, Held
    <3>2. PICK d \in Boots : d # c /\ id[d] = id[c] /\ Leaves(d)
      BY <3>1 DEF IInv, Prepared
    <3>q. QED
      BY <1>1, <1>2, <1>4, <3>2
  <2>4. ASSUME pc'[b] \in {"boot", "up", "stop", "reap"}, ~attached'[b], dirs'[id'[b]] # "absent"
        PROVE  \E d \in Boots : d # b /\ id'[d] = id'[b] /\ Leaves(d)'
    <3>1. ~Leaves(b)'
      BY <2>4 DEF Leaves
    <3>q. QED
      BY <1>1, <1>2, <2>4, <3>1 DEF Careful
  <2>5. \A d \in Dirs : dirs'[d] = "limited" => mode'.cgroup = "all"
    <3>1. \A d \in Dirs : dirs[d] = "limited" => mode.cgroup = "all"
      BY DEF IInv, Prepared
    <3>2. /\ \A d \in Dirs : d # id[b] => dirs'[d] = dirs[d]
          /\ dirs'[id[b]] = "limited" => mode.cgroup = "all"
      BY DEF Careful
    <3>q. QED
      BY <1>2, <3>1, <3>2
  <2>q. QED
    BY <2>1, <2>2, <2>3, <2>4, <2>5 DEF Prepared
<1>8. LeftoversExplained'
  <2> SUFFICES ASSUME NEW d \in Dirs, dirs'[d] # "absent"
               PROVE  \E c \in Boots : id[c] = d /\ (pc'[c] \in Held \/ Leaves(c)')
    BY <1>2 DEF LeftoversExplained, Leaves
  <2>1. CASE d # id[b]
    <3>1. PICK c \in Boots : id[c] = d /\ (pc[c] \in Held \/ Leaves(c))
      <4>1. dirs[d] # "absent"
        BY <2>1 DEF Careful
      <4>q. QED
        BY <4>1 DEF IInv, LeftoversExplained, Leaves
    <3>q. QED
      BY <1>1, <2>1, <3>1
  <2>2. CASE d = id[b]
    BY <1>1, <1>2, <2>2 DEF Careful, Held
  <2>q. QED
    BY <2>1, <2>2
<1>q. QED
  BY <1>5, <1>6, <1>7, <1>8

\* Steps that touch neither a cgroup nor a directory.
LEMMA QuietStep ==
  ASSUME IInv, NEW b \in Boots, pc[b] \in Held, NEW s \in Held \cup {"failed", "down"}, Moves(b, s),
         UNCHANGED <<attached, err, cg, dirs>>,
         listed' \in [Boots -> SUBSET Procs],
         ppid' \in [Boots -> SUBSET (Procs \X (Procs \cup {Nobody}))],
         todo' \in [Boots -> SUBSET Procs], \A c \in Boots : todo'[c] \subseteq Of(c),
         moved' \in [Boots -> BOOLEAN], \A c \in Boots : c # b => UNCHANGED moved[c],
         (\E p \in Of(b) : cg[p] # Own) => Accounted(b)',
         s \in {"list", "stat", "move"} => dirs[id[b]] = "limited",
         dirs[id[b]] # "absent" =>
           \/ s \in {"mkdir", "limits", "list", "stat", "move"}
           \/ s \in Held /\ attached[b]
           \/ Leaves(b)'
           \/ \E c \in Boots : c # b /\ id[c] = id[b] /\ Leaves(c)
  PROVE  IInv'
<1>1. TypeOK' /\ Ids' /\ Kinship'
  <2>1. attached' \in [Boots -> BOOLEAN] /\ err' \in [Boots -> BOOLEAN]
    BY Zenon DEF IInv, TypeOK
  <2>2. /\ cg' \in [Procs -> {Own} \cup Dirs] /\ dirs' \in [Dirs -> {"absent", "bare", "limited"}]
        /\ \A p \in Procs : ~Alive(p) => cg'[p] = Own
    BY DEF IInv, TypeOK
  <2>q. QED
    BY <2>1, <2>2, MovesFrame
<1>2. Careful(b, s)
  <2>1. \A p \in Of(b) : /\ cg'[p] \in {Own, id[b]}
                         /\ cg'[p] # Own => Accounted(b)' /\ dirs'[id[b]] = "limited"
    BY ProcFacts DEF IInv, Members, LimitsBeforeMembers
  <2>2. (\E p \in Procs \ Of(b) : cg[p] = id[b]) => dirs'[id[b]] = "limited"
    BY DEF IInv, LimitsBeforeMembers, Ids, Held, Dirs, Own
  <2>3. dirs'[id[b]] = "limited" => mode.cgroup = "all"
    BY DEF IInv, Prepared, Ids, Held
  <2>q. QED
    BY <2>1, <2>2, <2>3 DEF Careful
<1>q. QED
  BY <1>1, <1>2, CarefulStep DEF IInv

\* The types of the locals when they do not change.
LEMMA LocalTypes ==
  IInv => /\ listed \in [Boots -> SUBSET Procs]
          /\ ppid \in [Boots -> SUBSET (Procs \X (Procs \cup {Nobody}))]
          /\ todo \in [Boots -> SUBSET Procs] /\ \A c \in Boots : todo[c] \subseteq Of(c)
          /\ moved \in [Boots -> BOOLEAN]
          /\ attached \in [Boots -> BOOLEAN] /\ err \in [Boots -> BOOLEAN]
BY DEF IInv, TypeOK, Kinship

\* os.Mkdir.
LEMMA MkdirStep ==
  ASSUME IInv, NEW b \in Boots, Mkdir(b) PROVE IInv'
<1>0. pc[b] = "mkdir" /\ pc[b] \in Held /\ id[b] \in Dirs
  BY DEF Mkdir, Held, IInv, Ids
<1>1. UNCHANGED <<mode, lives, seq, id, attached, err, parent, listed, ppid, todo, moved, cg>>
  BY DEF Mkdir, others, attachVars
<1>2. \A p \in Of(b) : cg[p] = Own
  BY <1>0 DEF IInv, Members, Accounted
<1>3. CASE mode.cgroup = "none"
  <2>1. dirs' = dirs /\ dirs[id[b]] = "absent"
    BY <1>0, <1>3 DEF Mkdir, IInv, Prepared
  <2>2. \E s \in {"failed", "boot"} : Moves(b, s)
    BY <1>1, <1>3 DEF Mkdir, Missing, Kill, Goto, Moves
  <2>q. QED
    BY <1>0, <1>1, <1>2, <2>1, <2>2, LocalTypes, QuietStep DEF Held
<1>4. CASE mode.cgroup # "none"
  <2>1. Moves(b, "limits") /\ dirs' = [dirs EXCEPT ![id[b]] = IF @ = "absent" THEN "bare" ELSE @]
    BY <1>1, <1>4 DEF Mkdir, Goto, Moves
  <2>2. dirs' \in [Dirs -> {"absent", "bare", "limited"}]
    BY <1>0, <2>1 DEF IInv, TypeOK
  <2>3. TypeOK' /\ Ids' /\ Kinship'
    <3>1. cg' \in [Procs -> {Own} \cup Dirs] /\ \A p \in Procs : ~Alive(p) => cg'[p] = Own
      BY <1>1 DEF IInv, TypeOK
    <3>q. QED
      BY <1>0, <1>1, <2>1, <2>2, <3>1, LocalTypes, MovesFrame DEF Held
  <2>4. Careful(b, "limits")
    <3>1. \A p \in Procs : cg[p] = id[b] => dirs[id[b]] = "limited"
      BY <1>0, CgroupConfig DEF IInv, LimitsBeforeMembers, Dirs, Own
    <3>2. dirs'[id[b]] = "limited" => mode.cgroup = "all"
      BY <1>0, <2>1 DEF IInv, Prepared, TypeOK
    <3>q. QED
      BY <1>0, <1>1, <1>2, <1>4, <2>1, <3>1, <3>2 DEF Careful, IInv, TypeOK
  <2>q. QED
    BY <1>0, <2>1, <2>3, <2>4, CarefulStep DEF IInv, Held
<1>q. QED
  BY <1>3, <1>4

\* A cleanup in Attach: none of its processes has been moved.
LEMMA CleanupCareful ==
  ASSUME IInv, NEW b \in Boots, pc[b] \in Held, NEW s \in {"failed", "boot", "down"}, Moves(b, s), Cleanup(b),
         \A p \in Descendants(b, Kin(b)) : cg[p] = Own,
         \A c \in Boots : c # b => UNCHANGED <<attached[c], err[c], moved[c]>>,
         \A p \in Of(b) : cg[p] # Own => Accounted(b)',
         dirs'[id[b]] # "absent" /\ (\E p \in Of(b) : cg[p] # Own) => Leaves(b)'
  PROVE  Careful(b, s)
<1>1. /\ cg' = cg /\ id[b] \in Dirs
      /\ \A d \in Dirs : d # id[b] => dirs'[d] = dirs[d]
      /\ (\E p \in Procs : cg[p] = id[b]) => dirs' = dirs
      /\ (\A p \in Procs : cg[p] # id[b]) => dirs'[id[b]] = "absent"
  BY CleanupFrame
<1>2. \A p \in Procs : cg[p] = id[b] => dirs'[id[b]] = "limited" /\ cg[p] # Own
  <2>1. id[b] # Own
    BY <1>1, OwnIsNoDir
  <2>2. \A p \in Procs : cg[p] # Own => dirs[cg[p]] = "limited"
    BY DEF IInv, LimitsBeforeMembers
  <2>q. QED
    BY <1>1, <2>1, <2>2
<1>3. \A p \in Of(b) : cg[p] \in {Own, id[b]} /\ p \in Procs
  BY ProcFacts DEF IInv, Members
<1>4. ASSUME dirs'[id[b]] # "absent"
      PROVE  Leaves(b)' \/ \E c \in Boots : c # b /\ id[c] = id[b] /\ Leaves(c)
  <2>1. PICK p \in Procs : cg[p] = id[b]
    BY <1>1, <1>4
  <2>2. CASE p \in Of(b)
    BY <1>2, <1>4, <2>1, <2>2
  <2>3. CASE p \notin Of(b)
    <3>1. PICK c \in Boots : p \in Of(c)
      BY ProcFacts
    <3>2. c # b /\ id[c] = id[b] /\ Accounted(c)
      BY <1>2, <2>1, <2>3, <3>1 DEF IInv, Members
    <3>3. pc[c] \notin Held
      BY <3>2 DEF IInv, Ids
    <3>4. Leaves(c)
      <4>1. pc[c] \in Held \cup {"none", "failed", "down", "orphan"}
        BY DEF IInv, TypeOK
      <4>q. QED
        BY <3>2, <3>3, <4>1 DEF Accounted, Leaves
    <3>q. QED
      BY <3>2, <3>4
  <2>q. QED
    BY <2>2, <2>3
<1>5. mode.cgroup = "none" => \A d \in Dirs : dirs'[d] = dirs[d]
  <2>1. mode.cgroup = "none" => \A d \in Dirs : dirs[d] = "absent"
    BY DEF IInv, Prepared
  <2>q. QED
    BY <1>1, <2>1
<1>6. dirs'[id[b]] = "limited" => mode.cgroup = "all"
  <2>1. \A d \in Dirs : dirs[d] = "limited" => mode.cgroup = "all"
    BY DEF IInv, Prepared
  <2>q. QED
    BY <1>1, <2>1
<1>q. QED
  BY <1>1, <1>2, <1>3, <1>4, <1>5, <1>6 DEF Careful

\* The three limits, or the end of Attach.
LEMMA LimitsStep ==
  ASSUME IInv, NEW b \in Boots, Limits(b) PROVE IInv'
<1>0. pc[b] = "limits" /\ pc[b] \in Held /\ id[b] \in Dirs
  BY DEF Limits, Held, IInv, Ids
<1>1. UNCHANGED <<mode, lives, seq, id, attached, err, parent, listed, ppid, todo, moved>>
  BY DEF Limits, others, attachVars
<1>2. \A p \in Of(b) : cg[p] = Own
  BY <1>0 DEF IInv, Members, Accounted
<1>3. CASE mode.cgroup = "all"
  <2>1. Moves(b, "list") /\ cg' = cg /\ dirs' = [dirs EXCEPT ![id[b]] = "limited"]
    BY <1>1, <1>3 DEF Limits, Goto, Moves
  <2>2. dirs' \in [Dirs -> {"absent", "bare", "limited"}] /\ dirs'[id[b]] = "limited"
        /\ \A d \in Dirs : d # id[b] => dirs'[d] = dirs[d]
    BY <1>0, <2>1 DEF IInv, TypeOK
  <2>3. TypeOK' /\ Ids' /\ Kinship'
    <3>1. cg' \in [Procs -> {Own} \cup Dirs] /\ \A p \in Procs : ~Alive(p) => cg'[p] = Own
      BY <2>1 DEF IInv, TypeOK
    <3>q. QED
      BY <1>0, <1>1, <2>1, <2>2, <3>1, LocalTypes, MovesFrame DEF Held
  <2>4. Careful(b, "list")
    BY <1>1, <1>2, <1>3, <2>1, <2>2 DEF Careful
  <2>q. QED
    BY <1>0, <2>1, <2>3, <2>4, CarefulStep DEF IInv, Held
<1>4. CASE mode.cgroup # "all"
  <2>1. Cleanup(b) /\ \E s \in {"failed", "boot"} : Moves(b, s)
    BY <1>1, <1>4 DEF Limits, Missing, Kill, Goto, Moves
  <2>2. PICK s \in {"failed", "boot"} : Moves(b, s)
    BY <2>1
  <2>3. \A p \in Procs : cg[p] = Own
    <3>1. \A c \in Boots : ~Accounted(c)
      BY <1>4 DEF Accounted
    <3>q. QED
      BY <3>1, ProcFacts DEF IInv, Members
  <2>4. \A p \in Descendants(b, Kin(b)) : cg[p] = Own
    BY <1>2, DescendantsInTree
  <2>5. /\ cg' = cg /\ dirs' \in [Dirs -> {"absent", "bare", "limited"}]
        /\ \A d \in Dirs : d # id[b] => dirs'[d] = dirs[d]
        /\ dirs'[id[b]] = "absent"
    <3>1. id[b] # Own
      BY <1>0, OwnIsNoDir
    <3>q. QED
      BY <1>0, <2>1, <2>3, <2>4, <3>1, CleanupFrame
  <2>6. TypeOK' /\ Ids' /\ Kinship'
    <3>1. cg' \in [Procs -> {Own} \cup Dirs] /\ \A p \in Procs : ~Alive(p) => cg'[p] = Own
      BY <2>5 DEF IInv, TypeOK
    <3>q. QED
      BY <1>0, <1>1, <2>2, <2>5, <3>1, LocalTypes, MovesFrame DEF Held
  <2>7. mode.cgroup = "none" => \A d \in Dirs : dirs'[d] = dirs[d]
    BY <2>5 DEF IInv, Prepared
  <2>8. Careful(b, s)
    <3>1. id[b] # Own
      BY <1>0, OwnIsNoDir
    <3>2. /\ \A p \in Procs \ Of(b) : cg'[p] = cg[p] /\ cg[p] # id[b]
          /\ \A p \in Of(b) : cg'[p] = Own
          /\ s \notin {"list", "stat", "move"} /\ dirs'[id[b]] = "absent"
      BY <1>2, <2>3, <2>5, <3>1
    <3>q. QED
      BY <1>1, <2>5, <2>7, <3>2 DEF Careful
  <2>q. QED
    BY <1>0, <2>2, <2>6, <2>8, CarefulStep DEF IInv, Held
<1>q. QED
  BY <1>3, <1>4

\* Until the processes are moved the directory has its limits and nobody is inside.
LEMMA Reading ==
  ASSUME IInv, NEW b \in Boots, pc[b] \in {"list", "stat"}
  PROVE  pc[b] \in Held /\ dirs[id[b]] = "limited" /\ \A p \in Of(b) : cg[p] = Own
<1>1. pc[b] \in Held
  BY DEF Held
<1>2. dirs[id[b]] = "limited"
  BY DEF IInv, Prepared
<1>3. ~Accounted(b)
  BY DEF Accounted
<1>q. QED
  BY <1>1, <1>2, <1>3 DEF IInv, Members

\* The reading of /proc.
LEMMA ListStep ==
  ASSUME IInv, NEW b \in Boots, List(b) PROVE IInv'
<1>0. pc[b] = "list" /\ pc[b] \in Held /\ dirs[id[b]] = "limited" /\ \A p \in Of(b) : cg[p] = Own
  BY Reading DEF List
<1>1. /\ Moves(b, "stat") /\ UNCHANGED <<attached, err, cg, dirs, ppid, moved>>
      /\ listed' = [listed EXCEPT ![b] = {p \in Of(b) : Alive(p)}]
      /\ todo' = [todo EXCEPT ![b] = {p \in Of(b) : Alive(p)}]
  BY DEF List, Moves, Goto, others
<1>2. /\ listed' \in [Boots -> SUBSET Procs] /\ todo' \in [Boots -> SUBSET Procs]
      /\ \A c \in Boots : todo'[c] \subseteq Of(c)
  BY <1>1, ProcFacts, LocalTypes
<1>q. QED
  BY <1>0, <1>1, <1>2, LocalTypes, QuietStep DEF Held

\* One entry of /proc.
LEMMA StatStep ==
  ASSUME IInv, NEW b \in Boots, Stat(b) PROVE IInv'
<1>0. pc[b] = "stat" /\ pc[b] \in Held /\ dirs[id[b]] = "limited" /\ \A p \in Of(b) : cg[p] = Own
  BY Reading DEF Stat
<1>1. PICK p \in todo[b] :
        /\ todo' = [todo EXCEPT ![b] = @ \ {p}]
        /\ ppid' = [ppid EXCEPT ![b] = IF Alive(p) THEN @ \cup {<<p, parent[p]>>} ELSE @]
  BY DEF Stat
<1>2. UNCHANGED <<attached, err, cg, dirs, listed, moved>> /\ Moves(b, "stat")
  BY <1>0 DEF Stat, others, Moves, IInv, TypeOK
<1>3. /\ todo' \in [Boots -> SUBSET Procs] /\ \A c \in Boots : todo'[c] \subseteq Of(c)
  BY <1>1, LocalTypes
<1>4. p \in Procs /\ parent[p] \in Procs \cup {Nobody}
  BY <1>1, LocalTypes DEF IInv, TypeOK
<1>5. ppid' \in [Boots -> SUBSET (Procs \X (Procs \cup {Nobody}))]
  BY <1>1, <1>4, LocalTypes
<1>q. QED
  BY <1>0, <1>2, <1>3, <1>5, LocalTypes, QuietStep DEF Held

\* The choice of the processes to move.
LEMMA SelectStep ==
  ASSUME IInv, NEW b \in Boots, Select(b) PROVE IInv'
<1>0. pc[b] = "stat" /\ pc[b] \in Held /\ dirs[id[b]] = "limited" /\ \A p \in Of(b) : cg[p] = Own
  BY Reading DEF Select
<1>1. /\ Moves(b, "move") /\ UNCHANGED <<attached, err, cg, dirs, listed, ppid, moved>>
      /\ todo' = [todo EXCEPT ![b] = Descendants(b, ppid[b])]
  BY DEF Select, Moves, Goto, others
<1>2. todo' \in [Boots -> SUBSET Procs] /\ \A c \in Boots : todo'[c] \subseteq Of(c)
  BY <1>1, ProcFacts, LocalTypes, DescendantsInTree
<1>q. QED
  BY <1>0, <1>1, <1>2, LocalTypes, QuietStep DEF Held

\* One write to cgroup.procs: the directory has its limits.
LEMMA MoveProcStep ==
  ASSUME IInv, NEW b \in Boots, MoveProc(b) PROVE IInv'
<1>0. pc[b] = "move" /\ pc[b] \in Held /\ dirs[id[b]] = "limited" /\ id[b] \in Dirs
  BY DEF MoveProc, Held, IInv, Prepared, Ids
<1>1. PICK p \in todo[b] :
        /\ todo' = [todo EXCEPT ![b] = @ \ {p}]
        /\ cg' = [cg EXCEPT ![p] = IF Alive(p) THEN id[b] ELSE @]
        /\ moved' = [moved EXCEPT ![b] = @ \/ Alive(p)]
  BY DEF MoveProc
<1>2. UNCHANGED <<attached, err, dirs, listed, ppid>> /\ Moves(b, "move")
  BY <1>0 DEF MoveProc, others, Moves, IInv, TypeOK
<1>3. p \in Of(b) /\ p \in Procs
  BY <1>1, LocalTypes
<1>4. /\ todo' \in [Boots -> SUBSET Procs] /\ \A c \in Boots : todo'[c] \subseteq Of(c)
  BY <1>1, LocalTypes
<1>5. moved' \in [Boots -> BOOLEAN] /\ \A c \in Boots : c # b => UNCHANGED moved[c]
  BY <1>1, LocalTypes
<1>6. moved'[b] = (moved[b] \/ Alive(p))
  BY <1>1, LocalTypes
<1>7. /\ cg' \in [Procs -> {Own} \cup Dirs]
      /\ \A q \in Procs : ~Alive(q) => cg'[q] = Own
      /\ \A q \in Procs : q # p => cg'[q] = cg[q]
      /\ cg'[p] = IF Alive(p) THEN id[b] ELSE cg[p]
  BY <1>0, <1>1, <1>3 DEF IInv, TypeOK
<1>8. mode.cgroup = "all"
  BY <1>0 DEF IInv, Prepared
<1>9. Careful(b, "move")
  <2>1. \A q \in Of(b) : cg'[q] \in {Own, id[b]}
    BY <1>3, <1>7, ProcFacts DEF IInv, Members
  <2>2. ASSUME NEW q \in Of(b), cg'[q] # Own PROVE moved'[b]
    <3>1. CASE q = p
      BY <1>3, <1>6, <1>7, <2>2, <3>1 DEF IInv, TypeOK
    <3>2. CASE q # p
      BY <1>0, <1>6, <1>7, <2>2, <3>2, ProcFacts DEF IInv, Members, Accounted
    <3>q. QED
      BY <3>1, <3>2
  <2>3. ASSUME NEW q \in Of(b), cg'[q] # Own PROVE Accounted(b)'
    BY <1>2, <1>8, <2>2, <2>3 DEF Accounted, Moves, IInv, TypeOK
  <2>4. \A q \in Procs \ Of(b) : cg'[q] = cg[q]
    BY <1>3, <1>7
  <2>q. QED
    BY <1>0, <1>2, <1>5, <1>8, <2>1, <2>3, <2>4 DEF Careful
<1>10. TypeOK' /\ Ids' /\ Kinship'
  <2>1. dirs' \in [Dirs -> {"absent", "bare", "limited"}]
    BY <1>2 DEF IInv, TypeOK
  <2>q. QED
    BY <1>0, <1>2, <1>4, <1>5, <1>7, <2>1, LocalTypes, MovesFrame DEF Held
<1>q. QED
  BY <1>0, <1>2, <1>9, <1>10, CarefulStep DEF IInv, Held

\* moveProcs returns.  Without one process moved, Attach undoes the directory.
LEMMA MoveReturnsStep ==
  ASSUME IInv, NEW b \in Boots, MoveReturns(b) PROVE IInv'
<1>0. /\ pc[b] = "move" /\ pc[b] \in Held /\ dirs[id[b]] = "limited" /\ id[b] \in Dirs
      /\ mode.cgroup = "all" /\ UNCHANGED <<mode, lives, seq, id, err, parent>>
  BY DEF MoveReturns, Held, IInv, Prepared, Ids
<1>1. CASE moved[b]
  <2>1. /\ attached' = [attached EXCEPT ![b] = TRUE]
        /\ ppid' = [ppid EXCEPT ![b] = {}] /\ moved' = [moved EXCEPT ![b] = FALSE]
        /\ Moves(b, "boot") /\ UNCHANGED <<listed, todo, cg, dirs>>
    BY <1>0, <1>1 DEF MoveReturns, Goto, Moves
  <2>2. /\ attached' \in [Boots -> BOOLEAN] /\ moved' \in [Boots -> BOOLEAN] /\ attached'[b]
        /\ \A c \in Boots : c # b => UNCHANGED <<attached[c], moved[c]>>
    BY <2>1, LocalTypes
  <2>3. ppid' \in [Boots -> SUBSET (Procs \X (Procs \cup {Nobody}))]
    BY <2>1, LocalTypes
  <2>4. TypeOK' /\ Ids' /\ Kinship'
    <3>1. /\ cg' \in [Procs -> {Own} \cup Dirs] /\ dirs' \in [Dirs -> {"absent", "bare", "limited"}]
          /\ \A p \in Procs : ~Alive(p) => cg'[p] = Own
      BY <2>1 DEF IInv, TypeOK
    <3>2. err' \in [Boots -> BOOLEAN]
      BY <1>0, LocalTypes
    <3>q. QED
      BY <1>0, <2>1, <2>2, <2>3, <3>1, <3>2, LocalTypes, MovesFrame DEF Held
  <2>5. Careful(b, "boot")
    <3>1. Accounted(b)'
      BY <1>0, <2>1, <2>2 DEF Accounted, Moves, IInv, TypeOK
    <3>2. \A p \in Of(b) : cg[p] \in {Own, id[b]}
      BY DEF IInv, Members
    <3>q. QED
      BY <1>0, <2>1, <2>2, <3>1, <3>2 DEF Careful, Held
  <2>q. QED
    BY <1>0, <2>1, <2>4, <2>5, CarefulStep DEF IInv, Held
<1>2. CASE ~moved[b]
  <2>1. /\ Cleanup(b) /\ Drop(b) /\ UNCHANGED attached
        /\ \E s \in {"failed", "boot"} : Moves(b, s)
    BY <1>0, <1>2 DEF MoveReturns, Missing, Kill, Goto, Moves
  <2>2. PICK s \in {"failed", "boot"} : Moves(b, s)
    BY <2>1
  <2>3. \A p \in Of(b) : cg[p] = Own
    BY <1>0, <1>2 DEF IInv, Members, Accounted
  <2>4. \A p \in Descendants(b, Kin(b)) : cg[p] = Own
    BY <2>3, DescendantsInTree
  <2>5. Careful(b, s)
    BY <1>0, <2>1, <2>2, <2>3, <2>4, CleanupCareful, DropTypes
  <2>6. TypeOK' /\ Ids' /\ Kinship'
    <3>1. cg' = cg /\ dirs' \in [Dirs -> {"absent", "bare", "limited"}]
      BY <1>0, <2>1, <2>4, CleanupFrame
    <3>2. cg' \in [Procs -> {Own} \cup Dirs] /\ \A p \in Procs : ~Alive(p) => cg'[p] = Own
      BY <3>1 DEF IInv, TypeOK
    <3>3. attached' \in [Boots -> BOOLEAN] /\ err' \in [Boots -> BOOLEAN]
      BY <1>0, <2>1, LocalTypes
    <3>q. QED
      BY <1>0, <2>1, <2>2, <3>1, <3>2, <3>3, DropTypes, MovesFrame DEF Held
  <2>q. QED
    BY <1>0, <2>2, <2>5, <2>6, CarefulStep DEF IInv, Held
<1>q. QED
  BY <1>1, <1>2

\* A microVM that is not attached left its own processes outside; one that is
\* attached may leave its directory to the next life.
LEMMA AfterAttach ==
  ASSUME IInv, NEW b \in Boots, pc[b] \in {"boot", "up", "stop", "reap"}
  PROVE  /\ pc[b] \in Held /\ id[b] \in Dirs
         /\ \A p \in Of(b) : cg[p] # Own => attached[b] /\ mode.cgroup = "all"
         /\ dirs[id[b]] # "absent" /\ ~attached[b] =>
              \E c \in Boots : c # b /\ id[c] = id[b] /\ Leaves(c)
BY DEF IInv, Members, Accounted, Prepared, Held, Ids

\* The rest of launch.
LEMMA LaunchReturnsStep ==
  ASSUME IInv, NEW b \in Boots, LaunchReturns(b) PROVE IInv'
<1>0. pc[b] = "boot" /\ UNCHANGED <<attached, err, cg, dirs>> /\ UNCHANGED mode
  BY DEF LaunchReturns, others
<1>1. CASE Goto(b, "up") /\ UNCHANGED <<run, attachVars>>
  <2>1. Moves(b, "up") /\ UNCHANGED <<listed, ppid, todo, moved>> /\ pc'[b] = "up"
    BY <1>1 DEF LaunchReturns, Moves, Goto, others, attachVars, IInv, TypeOK
  <2>2. (\E p \in Of(b) : cg[p] # Own) => Accounted(b)'
    BY <1>0, <2>1, AfterAttach DEF Accounted
  <2>q. QED
    BY <1>0, <2>1, <2>2, AfterAttach, LocalTypes, QuietStep DEF Held
<1>2. CASE Kill(b) /\ Goto(b, "failed") /\ Drop(b)
  <2>1. Moves(b, "failed") /\ pc'[b] = "failed"
    BY <1>2 DEF LaunchReturns, Moves, Goto, Kill, others, IInv, TypeOK
  <2>2. (\E p \in Of(b) : cg[p] # Own) => Accounted(b)'
    BY <1>0, <2>1, AfterAttach DEF Accounted
  <2>3. attached[b] => Leaves(b)'
    BY <1>0, <2>1 DEF Leaves
  <2>q. QED
    BY <1>0, <1>2, <2>1, <2>2, <2>3, AfterAttach, DropTypes, QuietStep DEF Held
<1>q. QED
  BY <1>1, <1>2 DEF LaunchReturns

\* Destroy begins, and kills.
LEMMA DestroyStep ==
  ASSUME IInv, NEW b \in Boots, Destroy(b) \/ DestroyKills(b) PROVE IInv'
<1>0. /\ pc[b] \in {"up", "stop"} /\ UNCHANGED <<attached, err, cg, dirs>>
      /\ UNCHANGED <<mode, listed, ppid, todo, moved>>
  BY DEF Destroy, DestroyKills, others, attachVars
<1>1. \E s \in {"stop", "reap"} : Moves(b, s) /\ pc'[b] = s
  BY DEF Destroy, DestroyKills, Moves, Goto, Kill, others, IInv, TypeOK
<1>2. PICK s \in {"stop", "reap"} : Moves(b, s) /\ pc'[b] = s
  BY <1>1
<1>3. (\E p \in Of(b) : cg[p] # Own) => Accounted(b)'
  BY <1>0, <1>2, AfterAttach DEF Accounted
<1>q. QED
  BY <1>0, <1>2, <1>3, AfterAttach, LocalTypes, QuietStep DEF Held

\* Destroy cleans up when the leader is reaped: nobody is moved out, and a process
\* that is still inside shows in the error.
LEMMA DestroyCleansStep ==
  ASSUME IInv, NEW b \in Boots, DestroyCleans(b) PROVE IInv' /\ cg' = cg
<1>0. /\ pc[b] \in {"stop", "reap"} /\ ~Alive(leader(b)) /\ Moves(b, "down") /\ pc'[b] = "down"
      /\ Drop(b) /\ UNCHANGED <<mode, attached>> /\ pc[b] \in Held
  BY DEF DestroyCleans, Moves, Goto, IInv, TypeOK, Held
<1>1. CASE ~attached[b]
  <2>1. UNCHANGED <<cg, dirs, err>>
    BY <1>1 DEF DestroyCleans
  <2>2. /\ \A p \in Of(b) : cg[p] = Own
        /\ dirs[id[b]] # "absent" => \E c \in Boots : c # b /\ id[c] = id[b] /\ Leaves(c)
    BY <1>0, <1>1, AfterAttach
  <2>3. /\ listed' \in [Boots -> SUBSET Procs]
        /\ ppid' \in [Boots -> SUBSET (Procs \X (Procs \cup {Nobody}))]
        /\ todo' \in [Boots -> SUBSET Procs] /\ \A c \in Boots : todo'[c] \subseteq Of(c)
        /\ moved' \in [Boots -> BOOLEAN] /\ \A c \in Boots : c # b => UNCHANGED moved[c]
    BY <1>0, DropTypes
  <2>q. QED
    BY <1>0, <2>1, <2>2, <2>3, QuietStep
<1>2. CASE attached[b]
  <2>1. Cleanup(b) /\ err' = [err EXCEPT ![b] = dirs'[id[b]] # "absent"]
    BY <1>2 DEF DestroyCleans
  <2>2. \A p \in Descendants(b, Kin(b)) : cg[p] = Own
    <3>1. cg[leader(b)] = Own
      BY <1>0, ProcFacts DEF IInv, TypeOK
    <3>q. QED
      BY <1>0, <3>1, NoTreeLeft
  <2>3. /\ cg' = cg /\ dirs' \in [Dirs -> {"absent", "bare", "limited"}]
        /\ (\E p \in Procs : cg[p] = id[b]) => dirs' = dirs
        /\ id[b] \in Dirs
    BY <1>0, <2>1, <2>2, CleanupFrame
  <2>4. err \in [Boots -> BOOLEAN] /\ (dirs'[id[b]] # "absent") \in BOOLEAN
    BY LocalTypes
  <2>5. /\ err' \in [Boots -> BOOLEAN] /\ err'[b] = (dirs'[id[b]] # "absent")
        /\ \A c \in Boots : c # b => UNCHANGED err[c]
    BY <2>1, <2>4
  <2>6. \A p \in Of(b) : cg[p] # Own => cg[p] = id[b] /\ p \in Procs /\ dirs[id[b]] = "limited"
    <3>1. \A p \in Of(b) : p \in Procs /\ cg[p] \in {Own, id[b]}
      BY ProcFacts DEF IInv, Members
    <3>2. \A p \in Procs : cg[p] # Own => dirs[cg[p]] = "limited"
      BY DEF IInv, LimitsBeforeMembers
    <3>q. QED
      BY <3>1, <3>2
  <2>7. \A p \in Of(b) : cg[p] # Own => Accounted(b)'
    BY <1>0, <2>3, <2>5, <2>6, AfterAttach DEF Accounted
  <2>8. dirs'[id[b]] # "absent" => Leaves(b)'
    BY <1>0, <2>5 DEF Leaves
  <2>9. \A c \in Boots : c # b => UNCHANGED <<attached[c], err[c], moved[c]>>
    BY <1>0, <2>5, DropTypes
  <2>10. Careful(b, "down")
    BY <1>0, <2>1, <2>2, <2>7, <2>8, <2>9, CleanupCareful
  <2>11. TypeOK' /\ Ids' /\ Kinship'
    <3>1. cg' \in [Procs -> {Own} \cup Dirs] /\ \A p \in Procs : ~Alive(p) => cg'[p] = Own
      BY <2>3 DEF IInv, TypeOK
    <3>2. attached' \in [Boots -> BOOLEAN]
      BY <1>0, LocalTypes
    <3>q. QED
      BY <1>0, <2>3, <2>5, <3>1, <3>2, DropTypes, MovesFrame DEF Held
  <2>q. QED
    BY <1>0, <2>3, <2>10, <2>11, CarefulStep DEF IInv, Held
<1>q. QED
  BY <1>1, <1>2

\* The end of warden: what was in operation is left, with its id.
LEMMA RestartStep ==
  ASSUME IInv, Restart PROVE IInv'
<1>1. /\ lives < MaxLives /\ lives' = lives + 1 /\ seq' = 0
      /\ pc' = [b \in Boots |-> IF pc[b] \in Held THEN "orphan" ELSE pc[b]]
      /\ listed' = [b \in Boots |-> {}] /\ ppid' = [b \in Boots |-> {}]
      /\ todo' = [b \in Boots |-> {}] /\ moved' = [b \in Boots |-> FALSE]
      /\ UNCHANGED <<mode, id, attached, err, run, parent, cg, dirs>>
  BY DEF Restart, procVars
<1>2. \A b \in Boots : pc'[b] = IF pc[b] \in Held THEN "orphan" ELSE pc[b]
  BY <1>1
<1>3. TypeOK'
  <2>1. moved' \in [Boots -> BOOLEAN]
    BY <1>1
  <2>2. pc' \in [Boots -> Held \cup {"none", "failed", "down", "orphan"}]
    BY <1>1 DEF IInv, TypeOK
  <2>3. lives' \in 1 .. MaxLives /\ seq' \in 0 .. MaxBoots
    BY <1>1, CgroupConfig DEF IInv, TypeOK
  <2>q. QED
    BY <1>1, <2>1, <2>2, <2>3 DEF IInv, TypeOK, Alive
<1>4. Ids'
  <2>1. \A b \in Boots : /\ pc'[b] \notin Held /\ (pc'[b] = "none" <=> pc[b] = "none")
    BY <1>2 DEF Held
  <2>2. \A b \in Boots : seq' < b
    BY <1>1, CgroupConfig DEF Boots
  <2>q. QED
    BY <1>1, <2>1, <2>2 DEF IInv, Ids
<1>5. Kinship'
  BY <1>1 DEF IInv, Kinship, Alive
<1>6. \A b \in Boots : (Accounted(b) => Accounted(b)') /\ (Leaves(b) => Leaves(b)')
  BY <1>1, <1>2 DEF Accounted, Leaves, Held
<1>7. Members' /\ LimitsBeforeMembers'
  BY <1>1, <1>6 DEF IInv, Members, LimitsBeforeMembers
<1>8. Prepared'
  BY <1>1, <1>2 DEF IInv, Prepared, Held
<1>9. LeftoversExplained'
  BY <1>1, <1>2 DEF IInv, LeftoversExplained, Held
<1>q. QED
  BY <1>3, <1>4, <1>5, <1>7, <1>8, <1>9 DEF IInv

\* Every step keeps the invariant.
LEMMA NextIInv == IInv /\ [Next]_vars => IInv'
<1> SUFFICES ASSUME IInv, [Next]_vars PROVE IInv'
  OBVIOUS
<1>1. CASE UNCHANGED vars
  <2>1. UNCHANGED <<mode, lives, seq, pc, id, attached, err, run, parent, cg, listed, ppid, todo, moved, dirs>>
    BY <1>1 DEF vars, attachVars, procVars
  <2>2. TypeOK'
    BY <2>1 DEF IInv, TypeOK, Alive
  <2>3. Ids' /\ Kinship'
    BY <2>1 DEF IInv, Ids, Kinship, Alive
  <2>4. Members' /\ LimitsBeforeMembers'
    BY <2>1 DEF IInv, Members, Accounted, LimitsBeforeMembers
  <2>5. Prepared'
    BY <2>1 DEF IInv, Prepared, Leaves
  <2>6. LeftoversExplained'
    BY <2>1 DEF IInv, LeftoversExplained
  <2>q. QED
    BY <2>2, <2>3, <2>4, <2>5, <2>6 DEF IInv
<1>2. CASE \E p \in Procs : Fork(p) \/ Exit(p)
  BY <1>2, ForkStep, ExitStep
<1>3. ASSUME NEW b \in Boots, Boot(b) \/ Attach(b) \/ LaunchReturns(b) PROVE IInv'
  BY <1>3, BootStep, MkdirStep, LimitsStep, ListStep, StatStep, SelectStep, MoveProcStep,
     MoveReturnsStep, LaunchReturnsStep DEF Attach
<1>4. ASSUME NEW b \in Boots, Destroy(b) \/ DestroyKills(b) \/ DestroyCleans(b) PROVE IInv'
  BY <1>4, DestroyStep, DestroyCleansStep
<1>5. CASE Restart
  BY <1>5, RestartStep
<1>q. QED
  BY <1>1, <1>2, <1>3, <1>4, <1>5 DEF Next

\* A step that changes the cgroup of a process that is inside is its exit.
LEMMA NextHolds ==
  ASSUME IInv, Next, NEW p \in Procs, cg[p] # Own, Alive(p)' PROVE cg'[p] = cg[p]
<1>1. ASSUME NEW q \in Procs, Fork(q) PROVE cg'[p] = cg[p]
  BY <1>1 DEF Fork, IInv, TypeOK, Alive
<1>2. ASSUME NEW q \in Procs, Exit(q) PROVE cg'[p] = cg[p]
  BY <1>2 DEF Exit, IInv, TypeOK, Alive
<1>3. ASSUME NEW b \in Boots, Limits(b) \/ MoveReturns(b) PROVE cg'[p] = cg[p]
  <2>1. CASE UNCHANGED cg
    BY <2>1
  <2>2. CASE Cleanup(b)
    <3>1. \A q \in Of(b) : ~(mode.cgroup = "all" /\ pc[b] = "move" /\ moved[b]) => cg[q] = Own
      BY <1>3 DEF Limits, MoveReturns, IInv, Members, Accounted
    <3>2. CASE \A q \in Of(b) : cg[q] = Own
      <4>1. pc[b] \in Held /\ \A q \in Descendants(b, Kin(b)) : cg[q] = Own
        BY <1>3, <3>2, DescendantsInTree DEF Limits, MoveReturns, Held
      <4>q. QED
        BY <2>2, <4>1, CleanupFrame
    <3>3. CASE moved[b] /\ pc[b] = "move"
      BY <1>3, <3>3 DEF Limits, MoveReturns
    <3>q. QED
      BY <3>1, <3>2, <3>3
  <2>q. QED
    BY <1>3, <2>1, <2>2 DEF Limits, MoveReturns
<1>4. ASSUME NEW b \in Boots, MoveProc(b) PROVE cg'[p] = cg[p]
  <2>1. PICK q \in todo[b] : cg' = [cg EXCEPT ![q] = IF Alive(q) THEN id[b] ELSE @]
    BY <1>4 DEF MoveProc
  <2>2. q \in Of(b) /\ cg[q] \in {Own, id[b]}
    BY <2>1, LocalTypes DEF IInv, Members
  <2>q. QED
    BY <2>1, <2>2 DEF IInv, TypeOK
<1>5. ASSUME NEW b \in Boots, DestroyCleans(b) PROVE cg'[p] = cg[p]
  BY <1>5, DestroyCleansStep
<1>6. ASSUME NEW b \in Boots, \/ Boot(b) \/ Mkdir(b) \/ List(b) \/ Stat(b) \/ Select(b)
                              \/ LaunchReturns(b) \/ Destroy(b) \/ DestroyKills(b)
      PROVE  cg' = cg
  BY <1>6 DEF Boot, Mkdir, List, Stat, Select, LaunchReturns, Destroy, DestroyKills
<1>7. CASE Restart
  BY <1>7 DEF Restart, procVars
<1>q. QED
  BY <1>1, <1>2, <1>3, <1>4, <1>5, <1>6, <1>7 DEF Next, Attach

-----------------------------------------------------------------------------
(* The theorems.                                                           *)

\* The inductive invariant holds in every behaviour of Attach, Destroy, the kernel
\* and the restarts.
THEOREM Invariance == Spec => []IInv
<1>1. Init => IInv
  BY InitIInv
<1>2. IInv /\ [Next]_vars => IInv'
  BY NextIInv
<1>q. QED
  BY <1>1, <1>2, PTL DEF Spec

\* Every variable has its type, and only processes that exist are in a cgroup.
THEOREM TypeCorrect == Spec => []TypeOK
<1>1. IInv => TypeOK
  BY DEF IInv
<1>q. QED
  BY <1>1, Invariance, PTL

\* cgroup.go writes the limits before cgroup.procs: nobody is ever in a cgroup
\* without them, also when the directory is of an earlier life of warden.
THEOREM LimitsFirst == Spec => []LimitsBeforeMembers
<1>1. IInv => LimitsBeforeMembers
  BY DEF IInv
<1>q. QED
  BY <1>1, Invariance, PTL

\* The cleanup in cgroup.go, written to move processes out, never releases a living
\* one: Destroy calls it after the leader is reaped, Attach when nobody is inside.
THEOREM Confinement == Spec => NeverReleased
<1>1. IInv /\ [Next]_vars => [\A p \in Procs : cg[p] # Own /\ Alive(p)' => cg'[p] = cg[p]]_vars
  BY NextHolds
<1>q. QED
  BY <1>1, Invariance, PTL DEF Spec, NeverReleased

\* A Destroy that returns no error of the cleanup leaves no process in the cgroup.
THEOREM HonestDestroy == Spec => []DestroyIsHonest
<1>1. IInv => DestroyIsHonest
  BY DEF IInv, Members, Accounted, DestroyIsHonest
<1>q. QED
  BY <1>1, Invariance, PTL

\* Every directory under the cgroup root has one of the four reasons to be there.
THEOREM Leftovers == Spec => []LeftoversExplained
<1>1. IInv => LeftoversExplained
  BY DEF IInv
<1>q. QED
  BY <1>1, Invariance, PTL
=============================================================================
