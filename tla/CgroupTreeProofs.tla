-------------------------- MODULE CgroupTreeProofs --------------------------
(***************************************************************************)
(* That Attach moves the whole tree it has seen, for any number of         *)
(* microVMs, processes, slots and restarts.  The process tree keeps        *)
(* changing while Attach reads /proc and moves one process after another,  *)
(* so the invariant relates what was listed, what was read and what was    *)
(* moved at every stage.  descendantPIDs is a closure: that it finds       *)
(* whoever has a line of parents to the leader is an induction along that  *)
(* line, in the form "the least counterexample".                           *)
(***************************************************************************)
EXTENDS CgroupProofs, WellFoundedInduction

\* A process that was started stays so, and its parent is of its tree.
Born(b) ==
  /\ pc[b] # "none" => run[leader(b)] # "unborn"
  /\ pc[b] = "none" => \A p \in Of(b) : run[p] = "unborn"
  /\ \A p \in Of(b) : parent[p] # Nobody => parent[p] \in Of(b)

\* What Attach has found: a process with its living ancestors, each with the entry
\* of /proc that says whose child it is, and inside once it was moved.
Seen(b) ==
  /\ \A p \in listed[b] : /\ p \in Of(b) /\ run[p] # "unborn"
                          /\ parent[p] # Nobody => parent[p] \in listed[b]
  /\ \A e \in ppid[b] : e[1] \in listed[b]
  /\ pc[b] \in {"none", "mkdir", "limits", "list"} => listed[b] = {}
  /\ pc[b] = "stat" =>
       /\ todo[b] \subseteq listed[b]
       /\ \A p \in listed[b] \ todo[b] : parent[p] # Nobody => <<p, parent[p]>> \in ppid[b]
  /\ pc[b] = "move" =>
       /\ \A p \in listed[b] : parent[p] # Nobody => <<p, parent[p]>> \in ppid[b]
       /\ \A p \in Descendants(b, ppid[b]) \ todo[b] : Alive(p) => cg[p] = id[b]

\* SeenIsInside for one microVM.
Inside(b) ==
  pc[b] \in {"boot", "up", "stop", "reap"} =>
    /\ mode.require => attached[b]
    /\ attached[b] => \A p \in listed[b] : Alive(p) /\ Lineage(b, p) => cg[p] = id[b]

\* The inductive invariant, beside that of CgroupProofs.
Tracked == \A b \in Boots : Born(b) /\ Seen(b) /\ Inside(b)

\* A set of naturals has a least element: induction, in a form that needs no
\* predicate.
LEMMA LeastNat ==
  ASSUME NEW T \in SUBSET Nat, T # {}
  PROVE  \E x \in T : \A y \in T : x <= y
<1> DEFINE R == OpToRel(<, Nat)
<1>1. IsWellFoundedOn(R, Nat)
  BY NatLessThanWellFounded
<1>2. R = {ss \in Nat \X Nat : ss[1] < ss[2]}
  BY DEF OpToRel
<1> HIDE DEF R
<1>3. \A x, y \in Nat : <<y, x>> \notin R => x <= y
  BY <1>2
<1>4. \E x \in T : \A y \in T : <<y, x>> \notin R
  BY <1>1, WFMin
<1>q. QED
  BY <1>3, <1>4

\* descendantPIDs finds whoever has a line of parents to the root, if the entries it
\* has read name the parents of all of them.
LEMMA LineFound ==
  ASSUME NEW b \in Boots, NEW p \in listed[b], Lineage(b, p), listed[b] \subseteq Of(b),
         \A q \in listed[b] : parent[q] # Nobody => parent[q] \in listed[b] /\ <<q, parent[q]>> \in ppid[b]
  PROVE  p \in Descendants(b, ppid[b])
<1>0. Tree[b] \in Nat
  BY CgroupConfig
<1>a. PICK n \in 1 .. Tree[b] :
        \E line \in [1 .. n -> Of(b)] :
          /\ line[1] = leader(b) /\ line[n] = p
          /\ \A k \in 1 .. n - 1 : parent[line[k + 1]] = line[k]
  BY DEF Lineage
<1>1. PICK line \in [1 .. n -> Of(b)] :
        /\ line[1] = leader(b) /\ line[n] = p
        /\ \A k \in 1 .. n - 1 : parent[line[k + 1]] = line[k]
  BY <1>a
<1>2. n \in Nat /\ 1 <= n
  BY <1>0, <1>1
<1>3. \A k \in 1 .. n - 1 : line[k] # Nobody /\ line[k] \in Of(b) /\ line[k + 1] \in Of(b)
  BY <1>1, <1>2, ProcFacts
<1>4. ASSUME NEW k \in 1 .. n PROVE line[k] \in listed[b]
  <2> DEFINE T == {j \in Nat : j < n /\ line[n - j] \notin listed[b]}
  <2>1. SUFFICES T = {}
    <3>1. n - k \in Nat /\ n - k < n /\ n - (n - k) = k
      BY <1>2, <1>4
    <3>q. QED
      BY <2>1, <3>1
  <2>2. SUFFICES ASSUME NEW j \in T, \A i \in T : j <= i PROVE FALSE
    BY LeastNat
  <2>3. j # 0
    BY <1>1, <1>2, <2>2
  <2>4. j - 1 \in Nat /\ j - 1 \notin T /\ n - j \in 1 .. n - 1 /\ n - (j - 1) = (n - j) + 1
    BY <1>2, <2>2, <2>3
  <2>5. line[(n - j) + 1] \in listed[b]
    BY <1>2, <2>4
  <2>6. parent[line[(n - j) + 1]] = line[n - j] /\ line[n - j] # Nobody
    BY <1>1, <1>3, <2>4
  <2>q. QED
    BY <2>2, <2>5, <2>6
<1>5. SUFFICES ASSUME NEW S \in SUBSET Of(b), leader(b) \in S,
                      \A e \in ppid[b] : e[2] \in S => e[1] \in S
               PROVE  p \in S
  BY DEF Descendants
<1> DEFINE U == {k \in 1 .. n : line[k] \notin S}
<1>6. SUFFICES U = {}
  BY <1>1, <1>2, <1>6
<1>u. U \in SUBSET Nat
  BY <1>2
<1>7. SUFFICES ASSUME NEW k \in U, \A i \in U : k <= i PROVE FALSE
  BY <1>u, LeastNat
<1>8. k # 1
  BY <1>1, <1>5, <1>7
<1>9. k - 1 \in 1 .. n - 1 /\ k - 1 \in 1 .. n /\ (k - 1) + 1 = k /\ k - 1 \notin U
  BY <1>2, <1>7, <1>8
<1>10. line[k - 1] \in S /\ parent[line[k]] = line[k - 1] /\ line[k - 1] # Nobody /\ line[k] \in listed[b]
  BY <1>1, <1>3, <1>4, <1>7, <1>9
<1>11. <<line[k], line[k - 1]>> \in ppid[b]
  BY <1>10
<1>q. QED
  BY <1>5, <1>7, <1>10, <1>11

\* Only the kernel changes parents; processes come by Fork and Boot and are killed.
LEMMA KernelSteps ==
  ASSUME Next
  PROVE  \/ \E q \in Procs : Fork(q) \/ Exit(q)
         \/ parent' = parent /\ (run' = run \/ \E b \in Boots : Boot(b) \/ Kill(b))
<1>1. ASSUME NEW b \in Boots, Attach(b) \/ LaunchReturns(b) \/ Destroy(b) \/ DestroyKills(b) \/ DestroyCleans(b)
      PROVE  parent' = parent /\ (run' = run \/ Kill(b))
  BY <1>1 DEF Attach, Mkdir, Limits, List, Stat, Select, MoveProc, MoveReturns, LaunchReturns, Destroy,
     DestroyKills, DestroyCleans, Missing, others
<1>2. ASSUME NEW b \in Boots, Boot(b) PROVE parent' = parent
  BY <1>2 DEF Boot
<1>3. CASE Restart
  BY <1>3 DEF Restart, procVars
<1>q. QED
  BY <1>1, <1>2, <1>3 DEF Next

\* What a step may do to a process that was started: end it, take its parent away.
LEMMA Ages ==
  ASSUME IInv, Tracked, Next, NEW p \in Procs, run[p] # "unborn"
  PROVE  /\ run'[p] # "unborn" /\ (Alive(p)' => Alive(p))
         /\ parent'[p] \in {parent[p], Nobody}
<1>1. ASSUME NEW q \in Procs, Fork(q)
      PROVE  run'[p] = run[p] /\ parent'[p] = parent[p]
  BY <1>1 DEF Fork, IInv, TypeOK
<1>2. ASSUME NEW q \in Procs, Exit(q)
      PROVE  run'[p] \in {run[p], "dead"} /\ parent'[p] \in {parent[p], Nobody}
  BY <1>2 DEF Exit, IInv, TypeOK
<1>3. ASSUME NEW b \in Boots, Boot(b)
      PROVE  run'[p] = run[p]
  <2>1. run[leader(b)] = "unborn" /\ leader(b) \in Procs
    BY <1>3, ProcFacts DEF Boot, Tracked, Born
  <2>q. QED
    BY <1>3, <2>1 DEF Boot, IInv, TypeOK
<1>4. ASSUME NEW b \in Boots, Kill(b) PROVE run'[p] = run[p] \/ (run[p] = "live" /\ run'[p] = "doomed")
  BY <1>4 DEF Kill, IInv, TypeOK
<1>q. QED
  BY <1>1, <1>2, <1>3, <1>4, KernelSteps DEF Alive

\* Who is somebody's parent after a step was alive before it.
LEMMA ParentsLive ==
  ASSUME IInv, Tracked, Next, NEW p \in Procs, parent'[p] # Nobody
  PROVE  Alive(parent'[p])
<1>1. CASE parent'[p] = parent[p]
  BY <1>1 DEF IInv, Kinship
<1>2. CASE parent'[p] # parent[p]
  <2>1. PICK q \in Procs : Fork(q)
    <3>1. \A q \in Procs : ~Exit(q)
      BY <1>2 DEF Exit, IInv, TypeOK
    <3>q. QED
      BY <1>2, <3>1, KernelSteps
  <2>q. QED
    BY <1>2, <2>1 DEF Fork, IInv, TypeOK, Alive
<1>q. QED
  BY <1>1, <1>2

\* A line of living parents is not new, but for its last process.
LEMMA LineageBack ==
  ASSUME IInv, Tracked, Next, NEW b \in Boots, NEW p \in Of(b), run[p] # "unborn", Lineage(b, p)'
  PROVE  Lineage(b, p)
<1>0. Tree[b] \in Nat
  BY CgroupConfig
<1>1. PICK n \in 1 .. Tree[b] :
        \E line \in [1 .. n -> Of(b)] :
          /\ line[1] = leader(b) /\ line[n] = p
          /\ \A k \in 1 .. n - 1 : parent'[line[k + 1]] = line[k]
  BY DEF Lineage
<1>2. PICK line \in [1 .. n -> Of(b)] :
        /\ line[1] = leader(b) /\ line[n] = p
        /\ \A k \in 1 .. n - 1 : parent'[line[k + 1]] = line[k]
  BY <1>1
<1>3. ASSUME NEW k \in 1 .. n PROVE line[k] \in Procs /\ run[line[k]] # "unborn"
  <2>1. CASE k = n
    BY <1>2, <2>1, ProcFacts
  <2>2. CASE k # n
    <3>1. k \in 1 .. n - 1 /\ k + 1 \in 1 .. n
      BY <1>0, <1>1, <1>3, <2>2
    <3>2. parent'[line[k + 1]] = line[k] /\ line[k] \in Procs /\ line[k + 1] \in Procs
      BY <1>2, <3>1, ProcFacts
    <3>3. Alive(line[k])
      BY <3>2, ParentsLive, ProcFacts
    <3>q. QED
      BY <3>2, <3>3 DEF Alive
  <2>q. QED
    BY <2>1, <2>2
<1>4. ASSUME NEW k \in 1 .. n - 1 PROVE parent[line[k + 1]] = line[k]
  <2>1. k \in 1 .. n /\ k + 1 \in 1 .. n
    BY <1>0, <1>1, <1>4
  <2>2. parent'[line[k + 1]] \in {parent[line[k + 1]], Nobody}
    BY <1>3, <2>1, Ages
  <2>q. QED
    BY <1>2, <1>3, <1>4, <2>1, <2>2, ProcFacts
<1>q. QED
  BY <1>1, <1>2, <1>4 DEF Lineage

\* The state of a boot and what its Attach has found.
Idle(b) == UNCHANGED <<pc[b], id[b], attached[b], listed[b], ppid[b], todo[b]>>

\* The steps of one microVM.
Acts(b) ==
  Boot(b) \/ Attach(b) \/ LaunchReturns(b) \/ Destroy(b) \/ DestroyKills(b) \/ DestroyCleans(b)

\* A step is of one microVM, or of none.
LEMMA OneActs ==
  ASSUME IInv, Next, NEW b \in Boots
  PROVE  mode' = mode /\ (Idle(b) \/ Acts(b) \/ Restart)
<1>1. ASSUME NEW p \in Procs, Fork(p) \/ Exit(p) PROVE mode' = mode /\ Idle(b)
  BY <1>1 DEF Fork, Exit, Idle, attachVars
<1>2. ASSUME NEW c \in Boots, Acts(c) PROVE mode' = mode
  BY <1>2 DEF Acts, Boot, Attach, Mkdir, Limits, List, Stat, Select, MoveProc, MoveReturns, LaunchReturns,
     Destroy, DestroyKills, DestroyCleans, others
<1>3. ASSUME NEW c \in Boots, Acts(c), c # b PROVE pc'[b] = pc[b]
  BY <1>3 DEF IInv, TypeOK, Acts, Boot, Attach, Mkdir, Limits, List, Stat, Select, MoveProc, MoveReturns,
     LaunchReturns, Destroy, DestroyKills, DestroyCleans, Missing, Goto
<1>4. ASSUME NEW c \in Boots, Acts(c), c # b PROVE UNCHANGED <<id[b], attached[b], listed[b], ppid[b], todo[b]>>
  BY <1>4 DEF IInv, TypeOK, Acts, Boot, Attach, Mkdir, Limits, List, Stat, Select, MoveProc, MoveReturns,
     LaunchReturns, Destroy, DestroyKills, DestroyCleans, Drop, others, attachVars
<1>5. CASE Restart
  BY <1>5 DEF Restart
<1>q. QED
  BY <1>1, <1>2, <1>3, <1>4, <1>5 DEF Next, Acts, Idle

\* Processes are started by their microVM and stay in their tree.
LEMMA BornStep ==
  ASSUME IInv, Tracked, Next, NEW b \in Boots
  PROVE  Born(b)'
<1>0. Born(b) /\ leader(b) \in Of(b) /\ Of(b) \subseteq Procs
  BY ProcFacts DEF Tracked
<1>1. /\ pc'[b] = "none" => pc[b] = "none"
      /\ pc'[b] # "none" => pc[b] # "none" \/ Boot(b)
  <2>1. CASE Idle(b)
    BY <2>1 DEF Idle
  <2>2. CASE Acts(b)
    BY <2>2 DEF IInv, TypeOK, Acts, Boot, Attach, Mkdir, Limits, List, Stat, Select, MoveProc, MoveReturns,
       LaunchReturns, Destroy, DestroyKills, DestroyCleans, Missing, Goto
  <2>3. CASE Restart
    BY <2>3 DEF Restart, Held
  <2>q. QED
    BY <2>1, <2>2, <2>3, OneActs
<1>2. pc'[b] # "none" => run'[leader(b)] # "unborn"
  <2>1. CASE Boot(b)
    BY <1>0, <2>1 DEF Boot, IInv, TypeOK
  <2>2. CASE pc[b] # "none"
    BY <1>0, <2>2, Ages DEF Born
  <2>q. QED
    BY <1>1, <2>1, <2>2
<1>3. ASSUME pc'[b] = "none", NEW p \in Of(b) PROVE run'[p] = "unborn"
  <2>1. \A q \in Of(b) : run[q] = "unborn"
    BY <1>0, <1>1, <1>3 DEF Born
  <2>2. ASSUME NEW q \in Procs, Fork(q) PROVE run'[p] = run[p]
    <3>1. q \in Of(q[1]) /\ q[1] \in Boots /\ run[q] = "live"
      BY <2>2, ProcFacts DEF Fork
    <3>2. q[1] # b
      BY <2>1, <3>1
    <3>3. \A c \in Of(q[1]) : c # p
      BY <3>1, <3>2, <1>3, ProcFacts
    <3>q. QED
      BY <1>0, <1>3, <2>2, <3>3 DEF Fork, IInv, TypeOK
  <2>3. ASSUME NEW q \in Procs, Exit(q) PROVE run'[p] = run[p]
    BY <1>0, <1>3, <2>1, <2>3 DEF Exit, Alive, IInv, TypeOK
  <2>4. ASSUME NEW c \in Boots, Boot(c) PROVE run'[p] = run[p]
    <3>1. c # b
      BY <1>3, <2>4 DEF Boot, Goto, IInv, TypeOK
    <3>2. leader(c) # p
      BY <1>3, <3>1, ProcFacts
    <3>q. QED
      BY <1>0, <1>3, <2>4, <3>2 DEF Boot, IInv, TypeOK
  <2>5. ASSUME NEW c \in Boots, Kill(c) PROVE run'[p] = run[p]
    BY <1>0, <1>3, <2>1, <2>5 DEF Kill
  <2>q. QED
    BY <1>3, <2>1, <2>2, <2>3, <2>4, <2>5, KernelSteps
<1>4. ASSUME NEW p \in Of(b), parent'[p] # Nobody PROVE parent'[p] \in Of(b)
  <2>1. CASE parent'[p] = parent[p]
    BY <1>0, <1>4, <2>1 DEF Born
  <2>2. CASE parent'[p] # parent[p]
    <3>1. PICK q \in Procs : Fork(q)
      <4>1. \A q \in Procs : ~Exit(q)
        BY <1>0, <1>4, <2>2 DEF Exit, IInv, TypeOK
      <4>q. QED
        BY <2>2, <4>1, KernelSteps
    <3>2. parent'[p] = q /\ p \in Of(q[1])
      BY <1>0, <1>4, <2>2, <3>1 DEF Fork, IInv, TypeOK
    <3>q. QED
      BY <1>4, <3>2, ProcFacts
  <2>q. QED
    BY <2>1, <2>2
<1>q. QED
  BY <1>2, <1>3, <1>4 DEF Born

\* What Attach has found stays found.
LEMMA KeptFound ==
  ASSUME IInv, Tracked, Next, NEW b \in Boots, listed'[b] = listed[b], ppid'[b] \subseteq ppid[b]
  PROVE  /\ \A p \in listed'[b] : /\ p \in Of(b) /\ run'[p] # "unborn"
                                  /\ parent'[p] \in {parent[p], Nobody}
                                  /\ parent'[p] # Nobody => parent'[p] \in listed'[b]
         /\ \A e \in ppid'[b] : e[1] \in listed'[b]
<1>1. \A p \in listed[b] : p \in Procs /\ p \in Of(b) /\ run[p] # "unborn"
  BY ProcFacts DEF Tracked, Seen
<1>2. \A p \in listed[b] : run'[p] # "unborn" /\ parent'[p] \in {parent[p], Nobody}
  BY <1>1, Ages
<1>q. QED
  BY <1>1, <1>2 DEF Tracked, Seen

\* A process in the cgroup of its microVM stays there while it lives.
LEMMA KeptInside ==
  ASSUME IInv, Tracked, Next, NEW b \in Boots, NEW p \in Of(b), run[p] # "unborn", pc[b] # "none",
         Alive(p) => cg[p] = id[b], id'[b] = id[b], Alive(p)'
  PROVE  cg'[p] = id'[b]
<1>1. p \in Procs /\ id[b] \in Dirs /\ Alive(p)
  BY ProcFacts, Ages DEF IInv, Ids
<1>2. cg[p] # Own
  BY <1>1, OwnIsNoDir
<1>q. QED
  BY <1>1, <1>2, NextHolds

\* The processes descendantPIDs returns are the leader and some that were listed.
LEMMA FoundBorn ==
  ASSUME Tracked, NEW b \in Boots, pc[b] # "none", NEW p \in Descendants(b, ppid[b])
  PROVE  p \in Of(b) /\ run[p] # "unborn"
<1> DEFINE S == {leader(b)} \cup (listed[b] \cap Of(b))
<1>1. S \in SUBSET Of(b) /\ leader(b) \in S /\ \A e \in ppid[b] : e[1] \in S
  <2>1. leader(b) \in Of(b)
    BY ProcFacts
  <2>2. \A e \in ppid[b] : e[1] \in listed[b]
    BY DEF Tracked, Seen
  <2>3. listed[b] \subseteq Of(b)
    BY DEF Tracked, Seen
  <2>q. QED
    BY <2>1, <2>2, <2>3
<1>2. p \in S /\ p \in Of(b)
  BY <1>1 DEF Descendants
<1>q. QED
  BY <1>2 DEF Tracked, Seen, Born

\* A step that is not the microVM's own leaves what its Attach has found and done.
LEMMA IdleStep ==
  ASSUME IInv, Tracked, Next, NEW b \in Boots, Idle(b), mode' = mode
  PROVE  Seen(b)' /\ Inside(b)'
<1>1. /\ UNCHANGED <<pc[b], id[b], attached[b], listed[b], ppid[b], todo[b]>>
      /\ Seen(b) /\ Inside(b)
  BY DEF Idle, Tracked
<1>2. /\ \A p \in listed'[b] : /\ p \in Of(b) /\ run'[p] # "unborn"
                               /\ parent'[p] \in {parent[p], Nobody}
                               /\ parent'[p] # Nobody => parent'[p] \in listed'[b]
      /\ \A e \in ppid'[b] : e[1] \in listed'[b]
  BY <1>1, KeptFound
<1>3. ASSUME pc[b] = "move", NEW p \in Descendants(b, ppid[b]), p \notin todo[b], Alive(p)'
      PROVE  cg'[p] = id'[b]
  BY <1>1, <1>3, FoundBorn, KeptInside DEF Seen
<1>4. Seen(b)'
  BY <1>1, <1>2, <1>3 DEF Seen
<1>5. ASSUME pc[b] \in {"boot", "up", "stop", "reap"}, attached[b], NEW p \in listed[b],
             Alive(p)', Lineage(b, p)'
      PROVE  cg'[p] = id'[b]
  <2>1. p \in Of(b) /\ run[p] # "unborn"
    BY <1>1 DEF Seen
  <2>2. Lineage(b, p)
    BY <1>5, <2>1, LineageBack
  <2>3. Alive(p) => cg[p] = id[b]
    BY <1>1, <1>5, <2>2 DEF Inside
  <2>q. QED
    BY <1>1, <1>5, <2>1, <2>3, KeptInside
<1>6. Inside(b)'
  BY <1>1, <1>5 DEF Inside
<1>q. QED
  BY <1>4, <1>6

\* Before the reading, and after Attach has given up, nothing is listed.
LEMMA NothingSeen ==
  ASSUME NEW b \in Boots, listed'[b] = {}, ppid'[b] = {}, pc'[b] \notin {"stat", "move"},
         pc'[b] \in {"boot", "up", "stop", "reap"} => ~mode'.require \/ attached'[b]
  PROVE  Seen(b)' /\ Inside(b)'
BY DEF Seen, Inside

\* From the end of Attach to the end of the microVM nothing is forgotten.
LEMMA StageStep ==
  ASSUME IInv, Tracked, Next, NEW b \in Boots, mode' = mode,
         UNCHANGED <<id[b], attached[b], listed[b], ppid[b]>>,
         pc[b] \in {"boot", "up", "stop", "reap"}, pc'[b] \in {"boot", "up", "stop", "reap"}
  PROVE  Seen(b)' /\ Inside(b)'
<1>1. Seen(b) /\ Inside(b)
  BY DEF Tracked
<1>2. Seen(b)'
  BY KeptFound DEF Seen
<1>3. ASSUME attached[b], NEW p \in listed[b], Alive(p)', Lineage(b, p)'
      PROVE  cg'[p] = id'[b]
  <2>1. p \in Of(b) /\ run[p] # "unborn"
    BY <1>1 DEF Seen
  <2>2. Lineage(b, p)
    BY <1>3, <2>1, LineageBack
  <2>3. Alive(p) => cg[p] = id[b]
    BY <1>1, <1>3, <2>2 DEF Inside
  <2>q. QED
    BY <1>3, <2>1, <2>3, KeptInside
<1>q. QED
  BY <1>1, <1>2, <1>3 DEF Inside

\* The reading of /proc finds every living process of the tree, so with each its parent.
LEMMA ListSeen ==
  ASSUME IInv, Tracked, NEW b \in Boots, List(b)
  PROVE  Seen(b)' /\ Inside(b)'
<1> DEFINE found == {p \in Of(b) : Alive(p)}
<1>1. /\ listed'[b] = found /\ todo'[b] = found /\ ppid'[b] = ppid[b] /\ pc'[b] = "stat"
      /\ run' = run /\ parent' = parent
  BY ProcFacts DEF List, Goto, others, IInv, TypeOK
<1>2. \A p \in found : parent[p] # Nobody => parent[p] \in found
  BY ProcFacts DEF Tracked, Born, IInv, Kinship
<1>3. \A p \in found : p \in Of(b) /\ run[p] # "unborn"
  BY DEF Alive
<1>4. \A e \in ppid[b] : FALSE
  BY DEF List, Tracked, Seen
<1> HIDE DEF found
<1>q. QED
  BY <1>1, <1>2, <1>3, <1>4 DEF Seen, Inside

\* procPPid of a living process is its parent; who is gone has none.
LEMMA StatSeen ==
  ASSUME IInv, Tracked, NEW b \in Boots, Stat(b)
  PROVE  Seen(b)' /\ Inside(b)'
<1>1. PICK p \in todo[b] :
        /\ todo' = [todo EXCEPT ![b] = @ \ {p}]
        /\ ppid' = [ppid EXCEPT ![b] = IF Alive(p) THEN @ \cup {<<p, parent[p]>>} ELSE @]
  BY DEF Stat
<1>2. /\ pc[b] = "stat" /\ pc'[b] = "stat" /\ listed'[b] = listed[b] /\ todo'[b] = todo[b] \ {p}
      /\ ppid'[b] = IF Alive(p) THEN ppid[b] \cup {<<p, parent[p]>>} ELSE ppid[b]
      /\ run' = run /\ parent' = parent
  BY <1>1 DEF Stat, others, IInv, TypeOK
<1>3. Seen(b) /\ p \in listed[b] /\ p \in Procs
  BY <1>1, <1>2, ProcFacts DEF Tracked, Seen
<1>4. parent[p] # Nobody => Alive(p)
  BY <1>3 DEF IInv, TypeOK
<1>5. \A e \in ppid'[b] : e[1] \in listed[b]
  <2>1. \A e \in ppid[b] : e[1] \in listed[b]
    BY <1>3 DEF Seen
  <2>2. ppid'[b] \subseteq ppid[b] \cup {<<p, parent[p]>>}
    BY <1>2
  <2>q. QED
    BY <1>3, <2>1, <2>2
<1>6. \A q \in listed[b] \ todo'[b] : parent[q] # Nobody => <<q, parent[q]>> \in ppid'[b]
  BY <1>2, <1>3, <1>4 DEF Seen
<1>q. QED
  BY <1>2, <1>3, <1>5, <1>6 DEF Seen, Inside

\* All are read: what is to be moved is what descendantPIDs returns.
LEMMA SelectSeen ==
  ASSUME IInv, Tracked, NEW b \in Boots, Select(b)
  PROVE  Seen(b)' /\ Inside(b)'
<1>1. /\ pc[b] = "stat" /\ todo[b] = {} /\ pc'[b] = "move"
      /\ listed'[b] = listed[b] /\ ppid'[b] = ppid[b] /\ todo'[b] = Descendants(b, ppid[b])
      /\ run' = run /\ parent' = parent
  BY DEF Select, Goto, others, IInv, TypeOK
<1>2. Seen(b)
  BY DEF Tracked
<1>q. QED
  BY <1>1, <1>2 DEF Seen, Inside

\* A living process that is written to cgroup.procs is inside, and nobody is moved out.
LEMMA MoveProcSeen ==
  ASSUME IInv, Tracked, NEW b \in Boots, MoveProc(b)
  PROVE  Seen(b)' /\ Inside(b)'
<1>1. PICK p \in todo[b] :
        /\ todo' = [todo EXCEPT ![b] = @ \ {p}]
        /\ cg' = [cg EXCEPT ![p] = IF Alive(p) THEN id[b] ELSE @]
  BY DEF MoveProc
<1>2. /\ pc[b] = "move" /\ pc'[b] = "move" /\ listed'[b] = listed[b] /\ ppid'[b] = ppid[b]
      /\ todo'[b] = todo[b] \ {p} /\ run' = run /\ parent' = parent /\ id' = id
  BY <1>1 DEF MoveProc, others, IInv, TypeOK
<1>3. Seen(b)
  BY DEF Tracked
<1>4. ASSUME NEW q \in Descendants(b, ppid[b]), q \notin todo'[b], Alive(q) PROVE cg'[q] = id[b]
  <2>1. q \in Procs
    BY <1>4, DescendantsInTree, ProcFacts
  <2>2. q # p => cg[q] = id[b]
    BY <1>2, <1>3, <1>4 DEF Seen
  <2>q. QED
    BY <1>1, <1>4, <2>1, <2>2 DEF IInv, TypeOK
<1>5. \A q : Alive(q)' <=> Alive(q)
  BY <1>2 DEF Alive
<1>q. QED
  BY <1>2, <1>3, <1>4, <1>5 DEF Seen, Inside

\* moveProcs returns: with a process moved every one that has its line is inside, and
\* without one the microVM has no cgroup and the boot goes on only if it needs none.
LEMMA MoveReturnsSeen ==
  ASSUME IInv, Tracked, NEW b \in Boots, MoveReturns(b)
  PROVE  Seen(b)' /\ Inside(b)'
<1>0. Seen(b) /\ pc[b] = "move" /\ todo[b] = {} /\ mode' = mode /\ parent' = parent /\ id' = id
  BY DEF Tracked, MoveReturns
<1>1. CASE moved[b]
  <2>1. /\ pc'[b] = "boot" /\ attached'[b] = TRUE /\ ppid'[b] = {} /\ listed' = listed
        /\ run' = run /\ cg' = cg
    BY <1>1 DEF MoveReturns, Goto, IInv, TypeOK
  <2>2. ASSUME NEW p \in listed[b], Alive(p)', Lineage(b, p)' PROVE cg'[p] = id'[b]
    <3>1. Lineage(b, p) /\ Alive(p)
      BY <1>0, <2>1, <2>2 DEF Lineage, Alive
    <3>2. p \in Descendants(b, ppid[b])
      BY <1>0, <3>1, LineFound DEF Seen
    <3>q. QED
      BY <1>0, <2>1, <3>1, <3>2 DEF Seen
  <2>q. QED
    BY <1>0, <2>1, <2>2 DEF Seen, Inside
<1>2. CASE ~moved[b]
  <2>1. listed'[b] = {} /\ ppid'[b] = {} /\ pc'[b] \in {"boot", "failed"} /\ (pc'[b] = "boot" => ~mode.require)
    BY <1>2 DEF MoveReturns, Drop, Missing, Goto, IInv, TypeOK
  <2>q. QED
    BY <1>0, <2>1, NothingSeen
<1>q. QED
  BY <1>1, <1>2

\* The steps of the microVM itself.
LEMMA ActsSeen ==
  ASSUME IInv, Tracked, Next, NEW b \in Boots, Acts(b), mode' = mode
  PROVE  Seen(b)' /\ Inside(b)'
<1>0. Seen(b)
  BY DEF Tracked
<1>1. CASE Boot(b) \/ Mkdir(b) \/ Limits(b)
  <2>1. /\ pc[b] \in {"none", "mkdir", "limits"} /\ listed' = listed /\ ppid' = ppid
        /\ pc'[b] \in {"mkdir", "limits", "list", "boot", "failed"} /\ (pc'[b] = "boot" => ~mode.require)
    BY <1>1 DEF Boot, Mkdir, Limits, Missing, Goto, attachVars, IInv, TypeOK
  <2>2. listed'[b] = {} /\ ppid'[b] = {}
    BY <1>0, <2>1 DEF Seen
  <2>q. QED
    BY <2>1, <2>2, NothingSeen
<1>2. CASE Destroy(b) \/ DestroyKills(b)
  <2>1. /\ pc[b] \in {"up", "stop"} /\ pc'[b] \in {"stop", "reap"}
        /\ UNCHANGED <<id[b], attached[b], listed[b], ppid[b]>>
    BY <1>2 DEF Destroy, DestroyKills, Goto, others, attachVars, IInv, TypeOK
  <2>q. QED
    BY <2>1, StageStep
<1>3. CASE LaunchReturns(b)
  <2>1. CASE Goto(b, "up") /\ UNCHANGED attachVars
    <3>1. /\ pc[b] = "boot" /\ pc'[b] = "up" /\ UNCHANGED <<id[b], attached[b], listed[b], ppid[b]>>
      BY <1>3, <2>1 DEF LaunchReturns, Goto, others, attachVars, IInv, TypeOK
    <3>q. QED
      BY <3>1, StageStep
  <2>2. CASE Goto(b, "failed") /\ Drop(b)
    <3>1. pc'[b] = "failed" /\ listed'[b] = {} /\ ppid'[b] = {}
      BY <2>2 DEF Goto, Drop, IInv, TypeOK
    <3>q. QED
      BY <3>1, NothingSeen
  <2>q. QED
    BY <1>3, <2>1, <2>2 DEF LaunchReturns
<1>4. CASE DestroyCleans(b)
  <2>1. pc'[b] = "down" /\ listed'[b] = {} /\ ppid'[b] = {}
    BY <1>4 DEF DestroyCleans, Goto, Drop, IInv, TypeOK
  <2>q. QED
    BY <2>1, NothingSeen
<1>q. QED
  BY <1>1, <1>2, <1>3, <1>4, ListSeen, StatSeen, SelectSeen, MoveProcSeen, MoveReturnsSeen DEF Acts, Attach

\* Tracked is inductive, given IInv.
LEMMA InitTracked == Init => Tracked
BY ProcFacts DEF Init, Tracked, Born, Seen, Inside

\* Every step of a boot, of a process and of warden keeps what was seen.
LEMMA NextTracked == IInv /\ Tracked /\ [Next]_vars => Tracked'
<1>1. ASSUME IInv, Tracked, Next, NEW b \in Boots PROVE (Born(b) /\ Seen(b) /\ Inside(b))'
  <2>1. Born(b)'
    BY <1>1, BornStep
  <2>2. CASE Idle(b)
    BY <1>1, <2>1, <2>2, OneActs, IdleStep
  <2>3. CASE Acts(b)
    BY <1>1, <2>1, <2>3, OneActs, ActsSeen
  <2>4. CASE Restart
    <3>1. listed'[b] = {} /\ ppid'[b] = {} /\ pc'[b] \notin Held
      BY <1>1, <2>4 DEF Restart, Held
    <3>2. pc'[b] \notin {"stat", "move", "boot", "up", "stop", "reap"}
      BY <3>1 DEF Held
    <3>q. QED
      BY <2>1, <3>1, <3>2, NothingSeen
  <2>q. QED
    BY <1>1, <2>2, <2>3, <2>4, OneActs
<1>2. ASSUME Tracked, UNCHANGED vars PROVE Tracked'
  <2>1. UNCHANGED <<mode, pc, id, attached, listed, ppid, todo, run, parent, cg>>
    BY <1>2 DEF vars, attachVars, procVars
  <2>2. ASSUME NEW b \in Boots PROVE Born(b)'
    BY <1>2, <2>1 DEF Tracked, Born
  <2>3. ASSUME NEW b \in Boots PROVE Seen(b)'
    BY <1>2, <2>1 DEF Tracked, Seen, Alive
  <2>4. ASSUME NEW b \in Boots PROVE Inside(b)'
    <3>1. Inside(b)
      BY <1>2 DEF Tracked
    <3>2. \A p : Alive(p)' = Alive(p)
      BY <2>1 DEF Alive
    <3>3. \A p : Lineage(b, p)' = Lineage(b, p)
      BY <2>1 DEF Lineage
    <3>q. QED
      BY <2>1, <3>1, <3>2, <3>3 DEF Inside
  <2>q. QED
    BY <2>2, <2>3, <2>4 DEF Tracked
<1>q. QED
  BY <1>1, <1>2 DEF Tracked

\* What Attach has found and moved, at every stage of every boot.
THEOREM SeenInvariance == Spec => []Tracked
<1>1. Init => Tracked
  BY InitTracked
<1>2. IInv /\ Tracked /\ [Next]_vars => Tracked'
  BY NextTracked
<1>q. QED
  BY <1>1, <1>2, Invariance, PTL DEF Spec

\* Whoever was there when Attach read /proc, and has living ancestors up to the
\* leader, is in the cgroup when the microVM runs, whatever forked and ended during
\* the reading and the moving; and with WARDEN_CGROUP_REQUIRED no microVM runs without.
THEOREM AttachMovesTheTree == Spec => []SeenIsInside
<1>1. Tracked => SeenIsInside
  BY DEF Tracked, Inside, SeenIsInside
<1>q. QED
  BY <1>1, SeenInvariance, PTL
=============================================================================
