-------------------------- MODULE LifecycleProofs --------------------------
(***************************************************************************)
(* What Lifecycle guarantees for every number of requests and every        *)
(* configuration: the slots of the gate are accounted for, a VMM runs only *)
(* under its request's slot, the gate's promise VMLease is kept, and an    *)
(* answer tells the truth about what ran and what is left on the host.     *)
(***************************************************************************)
EXTENDS Lifecycle, FiniteSetTheorems, TLAPS

-----------------------------------------------------------------------------
(* What is left on the host when a request is answered.  The invariant is  *)
(* a statement about one request: what each of its attempts still holds,   *)
(* and what its outcome and status tell of them.                           *)

Booted == {"exec", "snap", "destroy", "reap"}
Over   == {"release", "respond", "done"}

\* No attempt of r has reached the host.
Untouched(r) == \A k \in Kinds : proc[<<r, k>>] = "none" /\ <<r, k>> \notin workDirs

\* Only the current attempt has a link, only until Destroy; an instance is the
\* current attempt too, and after Destroy nothing is left of it.
Left(r) ==
  \A k \in Kinds :
    /\ <<r, k>> \in links => kind[r] = k /\ pc[r] \in Stages \cup Booted
    /\ <<r, k>> \in ready =>
         /\ kind[r] = k /\ pc[r] \in Booted \cup Over
         /\ pc[r] \in Over => proc[<<r, k>>] = "exited" /\ <<r, k>> \notin workDirs \cup cgroups

\* What outcome and status say about the attempts: a microVM was ready ...
Delivered(r) ==
  /\ pc[r] \in Booted => VM(r) \in ready
  /\ outcome[r] \in {"result", "timedout"} =>
       VM(r) \in ready /\ pc[r] \in {"snap", "destroy", "reap", "release", "respond"}
  /\ status[r] # 0 => pc[r] = "done"
  /\ status[r] = 200 => VM(r) \in ready
\* ... or nothing was touched.
TurnedAway(r) ==
  /\ outcome[r] = "busy" => pc[r] = "respond" /\ Untouched(r)
  /\ pc[r] \in {"idle", "queued"} => Untouched(r)
  /\ status[r] = 429 => Untouched(r)
Told(r) == Delivered(r) /\ TurnedAway(r)

LInv == \A r \in Requests : Left(r) /\ Told(r)

\* Nothing of r changes.
Same(r) ==
  /\ pc'[r] = pc[r] /\ kind'[r] = kind[r] /\ outcome'[r] = outcome[r] /\ status'[r] = status[r]
  /\ \A k \in Kinds :
       /\ proc'[<<r, k>>] = proc[<<r, k>>]
       /\ <<r, k>> \in links' <=> <<r, k>> \in links
       /\ <<r, k>> \in ready' <=> <<r, k>> \in ready
       /\ <<r, k>> \in workDirs' <=> <<r, k>> \in workDirs
       /\ <<r, k>> \in cgroups' <=> <<r, k>> \in cgroups

\* A request whose part of the state is unchanged keeps its invariant.
LEMMA SameKeeps ==
  ASSUME TypeOK, NEW r \in Requests, Left(r), Told(r), Same(r)
  PROVE  Left(r)' /\ Told(r)'
<1>1. kind[r] \in Kinds
  BY DEF TypeOK
<1>2. Untouched(r) => Untouched(r)'
  BY DEF Same, Untouched
<1>3. VM(r) \in ready => (VM(r) \in ready)'
  BY <1>1 DEF Same, VM
<1>4. Left(r)'
  BY DEF Same, Left
<1>5. Told(r)'
  <2>1. Delivered(r)'
    BY <1>2, <1>3 DEF Told, Delivered, Same
  <2>2. TurnedAway(r)'
    BY <1>2, <1>3 DEF Told, TurnedAway, Same
  <2>q. QED
    BY <2>1, <2>2 DEF Told
<1>q. QED
  BY <1>4, <1>5

\* A step of one request changes nothing of another.
LEMMA OthersSame ==
  ASSUME TypeOK, NEW r \in Requests, Arrive(r) \/ Step(r), NEW q \in Requests, q # r
  PROVE  Same(q)
<1>0. kind[r] \in Kinds /\ \A k \in Kinds : <<q, k>> # VM(r) /\ <<q, k>> \in VMs
  BY DEF TypeOK, VM, VMs
<1>1. /\ pc' = [pc EXCEPT ![r] = pc'[r]]
      /\ kind' = [kind EXCEPT ![r] = kind'[r]]
      /\ outcome' = [outcome EXCEPT ![r] = outcome'[r]]
  <2>1. CASE Arrive(r) \/ GateAcquire(r) \/ GateRefuse(r) \/ GateRelease(r) \/ MaybeSnapshot(r) \/ LaunchStage(r)
             \/ DestroyStops(r) \/ DestroyCleans(r)
    <3>1. kind' = kind /\ outcome' = outcome /\ \E l : pc' = [pc EXCEPT ![r] = l]
      BY <2>1 DEF Arrive, GateAcquire, GateRefuse, GateRelease, MaybeSnapshot, LaunchStage, DestroyStops,
                  DestroyCleans, Goto
    <3>q. QED
      BY <3>1 DEF TypeOK
  <2>2. CASE GateGiveUp(r) \/ ExecReplies(r) \/ ExecTimesOut(r) \/ ExecFails(r) \/ Respond(r)
    <3>1. kind' = kind /\ \E o, l : Finish(r, o, l)
      BY <2>2 DEF GateGiveUp, ExecReplies, ExecTimesOut, ExecFails, Respond
    <3>q. QED
      BY <3>1 DEF TypeOK, Finish, Goto
  <2>3. CASE BootChooses(r) \/ Fallback(r)
    <3>1. CASE \E k : Attempt(r, k) /\ outcome' = outcome
      BY <3>1 DEF TypeOK, Attempt, Goto
    <3>2. CASE \E o : Finish(r, o, "refused") /\ kind' = kind
      BY <3>2 DEF TypeOK, Finish, Goto
    <3>q. QED
      BY <2>3, <3>1, <3>2 DEF BootChooses, Fallback
  <2>4. CASE BootDirs(r) \/ LaunchFails(r)
    <3>1. CASE AttemptFails(r) /\ kind' = kind
      BY <3>1 DEF TypeOK, AttemptFails, Finish, Goto
    <3>2. CASE kind' = kind /\ outcome' = outcome /\ \E l : Goto(r, l)
      BY <3>2 DEF TypeOK, Goto
    <3>q. QED
      BY <2>4, <3>1, <3>2 DEF BootDirs, LaunchFails
  <2>q. QED
    BY <2>1, <2>2, <2>3, <2>4 DEF Step
<1>2. pc'[q] = pc[q] /\ kind'[q] = kind[q] /\ outcome'[q] = outcome[q]
  BY <1>1 DEF TypeOK
<1>4. status'[q] = status[q]
  <2>1. CASE Respond(r)
    BY <2>1 DEF Respond, TypeOK
  <2>2. CASE Arrive(r) \/ GateAcquire(r) \/ GateGiveUp(r) \/ GateRefuse(r) \/ GateRelease(r)
    BY <2>2 DEF Arrive, GateAcquire, GateGiveUp, GateRefuse, GateRelease
  <2>3. CASE BootChooses(r) \/ Fallback(r) \/ BootDirs(r)
    BY <2>3 DEF BootChooses, Fallback, BootDirs
  <2>4. CASE LaunchStage(r) \/ LaunchFails(r)
    BY <2>4 DEF LaunchStage, LaunchFails
  <2>5. CASE ExecReplies(r) \/ ExecTimesOut(r) \/ ExecFails(r)
    BY <2>5 DEF ExecReplies, ExecTimesOut, ExecFails
  <2>6. CASE MaybeSnapshot(r) \/ DestroyStops(r) \/ DestroyCleans(r)
    BY <2>6 DEF MaybeSnapshot, DestroyStops, DestroyCleans
  <2>q. QED
    BY <2>1, <2>2, <2>3, <2>4, <2>5, <2>6 DEF Step
<1>5. ASSUME NEW k \in Kinds
      PROVE  /\ proc'[<<q, k>>] = proc[<<q, k>>]
             /\ <<q, k>> \in links' <=> <<q, k>> \in links
             /\ <<q, k>> \in ready' <=> <<q, k>> \in ready
             /\ <<q, k>> \in workDirs' <=> <<q, k>> \in workDirs
             /\ <<q, k>> \in cgroups' <=> <<q, k>> \in cgroups
  <2>1. CASE UNCHANGED hostVars
    BY <2>1 DEF hostVars
  <2>2. CASE BootDirs(r)
    BY <1>0, <2>2 DEF BootDirs
  <2>3. CASE LaunchStage(r)
    <3>1. proc'[<<q, k>>] = proc[<<q, k>>]
      BY <1>0, <2>3 DEF LaunchStage, Spawned, TypeOK
    <3>2. <<q, k>> \in cgroups' <=> <<q, k>> \in cgroups
      BY <1>0, <2>3 DEF LaunchStage, Attached
    <3>3. /\ <<q, k>> \in links' <=> <<q, k>> \in links
          /\ <<q, k>> \in ready' <=> <<q, k>> \in ready
          /\ <<q, k>> \in workDirs' <=> <<q, k>> \in workDirs
      BY <1>0, <2>3 DEF LaunchStage
    <3>q. QED
      BY <3>1, <3>2, <3>3
  <2>4. CASE LaunchFails(r)
    BY <1>0, <2>4 DEF LaunchFails, Killed, WorkDirsAfterFailure, TypeOK
  <2>5. CASE DestroyStops(r)
    BY <1>0, <2>5 DEF DestroyStops, Killed, TypeOK
  <2>6. CASE DestroyCleans(r)
    BY <1>0, <2>6 DEF DestroyCleans
  <2>q. QED
    BY <2>1, <2>2, <2>3, <2>4, <2>5, <2>6 DEF Arrive, Step, GateAcquire, GateGiveUp, GateRefuse, GateRelease,
       BootChooses, Fallback, ExecReplies, ExecTimesOut, ExecFails, MaybeSnapshot, Respond
<1>q. QED
  BY <1>2, <1>4, <1>5 DEF Same

\* The labels of the three ends of a request, for the provers.
LEMMA Ends ==
  /\ Stages \cap (Booted \cup Over \cup {"idle", "queued", "boot", "dirs", "fallback", "refused"}) = {}
  /\ Over \cap (Booted \cup {"idle", "queued", "boot", "dirs", "fallback", "refused"}) = {}
  /\ Booted \cap {"idle", "queued", "boot", "dirs", "fallback", "refused"} = {}
  /\ \A k \in Kinds : FirstStage(k) \in Stages
  /\ \A k \in Kinds, l \in Stages : StageAfter(k, l) \in IF l = "agent" THEN {"exec"} ELSE Stages
BY DEF Stages, Booted, Over, Kinds, FirstStage, StageAfter

\* Before a boot has succeeded and outside the stages nothing is linked or ready.
LEMMA Nothing ==
  ASSUME NEW r \in Requests, Left(r), Told(r),
         pc[r] \in {"idle", "queued", "boot", "dirs", "fallback", "refused"}
  PROVE  \A k \in Kinds : <<r, k>> \notin links /\ <<r, k>> \notin ready
BY Ends DEF Left

\* A request that moves on before a boot or after a failed one.
LEMMA EarlyKeeps ==
  ASSUME TypeOK, NEW r \in Requests, Left(r), Told(r), NEW l,
         pc[r] \in {"idle", "queued", "boot", "dirs", "fallback", "refused"}, Goto(r, l),
         l \notin {"idle"} \cup Booted, l = "queued" => pc[r] = "idle",
         pc[r] \in {"idle", "queued"} => l = "queued" \/ UNCHANGED <<proc, workDirs>>,
         l = "queued" => UNCHANGED <<proc, workDirs>>,
         UNCHANGED <<status, links, ready>>,
         outcome'[r] \notin {"result", "timedout"},
         outcome'[r] = "busy" => l = "respond" /\ pc[r] = "queued" /\ UNCHANGED <<proc, workDirs>>
  PROVE  Left(r)' /\ Told(r)'
<1>1. pc'[r] = l
  BY DEF TypeOK, Goto
<1>2. \A k \in Kinds : <<r, k>> \notin links' /\ <<r, k>> \notin ready'
  BY Nothing
<1>3. Left(r)'
  BY <1>2 DEF Left
<1>4. status[r] = 0
  BY DEF Told, Delivered
<1>5. UNCHANGED <<proc, workDirs>> => (Untouched(r) => Untouched(r)')
  BY DEF Untouched
<1>6. Told(r)'
  <2>1. Delivered(r)'
    BY <1>1, <1>4, <1>5 DEF Told, Delivered
  <2>2. TurnedAway(r)'
    BY <1>1, <1>4, <1>5 DEF Told, TurnedAway
  <2>q. QED
    BY <2>1, <2>2 DEF Told
<1>q. QED
  BY <1>3, <1>6

\* A request whose microVM is ready moves on towards its answer.
LEMMA LateKeeps ==
  ASSUME TypeOK, NEW r \in Requests, Left(r), Told(r), NEW l \in {"snap", "destroy", "reap"},
         pc[r] \in {"exec", "snap", "destroy"}, Goto(r, l),
         UNCHANGED <<status, kind, links, ready, workDirs, cgroups>>,
         outcome'[r] # "busy"
  PROVE  Left(r)' /\ Told(r)'
<1>1. pc'[r] = l
  BY DEF TypeOK, Goto
<1>2. pc[r] \in Booted /\ l \in Booted /\ VM(r) \in ready /\ VM(r)' = VM(r) /\ status[r] = 0
  BY DEF Told, Delivered, Booted, VM
<1>3. Left(r)'
  BY <1>1, <1>2, Ends DEF Left
<1>4. Told(r)'
  <2>1. Delivered(r)'
    BY <1>1, <1>2, Ends DEF Told, Delivered, Booted
  <2>2. TurnedAway(r)'
    BY <1>1, <1>2, Ends DEF Told, TurnedAway, Booted
  <2>q. QED
    BY <2>1, <2>2 DEF Told
<1>q. QED
  BY <1>3, <1>4

\* A stage of launch: the current attempt gets its link; the last one makes it ready.
LEMMA StageKeeps ==
  ASSUME TypeOK, NEW r \in Requests, Left(r), Told(r), LaunchStage(r)
  PROVE  Left(r)' /\ Told(r)'
<1>1. pc[r] \in Stages /\ kind[r] \in Kinds /\ UNCHANGED <<kind, outcome, status>>
  BY DEF LaunchStage, AtStage, TypeOK
<1>2. pc'[r] = StageAfter(kind[r], pc[r]) /\ VM(r)' = VM(r) /\ VM(r) = <<r, kind[r]>>
  BY <1>1 DEF LaunchStage, Goto, TypeOK, VM
<1>3. /\ \A v \in links' : v \in links \/ v = VM(r)
      /\ ready' = IF pc[r] = "agent" THEN ready \cup {VM(r)} ELSE ready
  BY DEF LaunchStage
<1>4. /\ \A k \in Kinds : <<r, k>> \notin ready
      /\ outcome[r] \notin {"result", "timedout", "busy"} /\ status[r] = 0
  BY <1>1, Ends DEF Left, Told, Delivered, TurnedAway, Stages
<1>5. CASE pc[r] = "agent"
  <2>1. pc'[r] = "exec" /\ "exec" \in Booted
    BY <1>1, <1>2, <1>5, Ends DEF Booted
  <2>2. Left(r)'
    <3>1. \A k \in Kinds : <<r, k>> \in links' \cup ready' => k = kind[r]
      BY <1>2, <1>3, <1>4 DEF Left
    <3>q. QED
      BY <1>1, <2>1, <3>1, Ends DEF Left
  <2>3. Told(r)'
    <3>1. Delivered(r)'
      BY <1>1, <1>2, <1>3, <1>4, <1>5, <2>1 DEF Told, Delivered
    <3>2. TurnedAway(r)'
      BY <1>1, <1>2, <1>3, <1>4, <1>5, <2>1 DEF Told, TurnedAway
    <3>q. QED
      BY <3>1, <3>2 DEF Told
  <2>q. QED
    BY <2>2, <2>3
<1>6. CASE pc[r] # "agent"
  <2>1. pc'[r] \in Stages
    BY <1>1, <1>2, <1>6, Ends
  <2>2. Left(r)'
    <3>1. \A k \in Kinds : <<r, k>> \notin ready' /\ (<<r, k>> \in links' => k = kind[r])
      BY <1>2, <1>3, <1>4, <1>6 DEF Left
    <3>q. QED
      BY <1>1, <2>1, <3>1 DEF Left
  <2>3. Told(r)'
    <3>0. pc'[r] \notin Booted /\ pc'[r] \notin {"idle", "queued"}
      BY <2>1, Ends
    <3>1. Delivered(r)'
      BY <1>1, <1>4, <3>0 DEF Delivered
    <3>2. TurnedAway(r)'
      BY <1>1, <1>4, <3>0 DEF TurnedAway
    <3>q. QED
      BY <3>1, <3>2 DEF Told
  <2>q. QED
    BY <2>2, <2>3
<1>q. QED
  BY <1>5, <1>6

\* A failed stage: bootOne tears the link down.
LEMMA FailKeeps ==
  ASSUME TypeOK, NEW r \in Requests, Left(r), Told(r), LaunchFails(r)
  PROVE  Left(r)' /\ Told(r)'
<1>1. pc[r] \in Stages /\ links' = links \ {VM(r)} /\ UNCHANGED <<kind, ready, status>>
  BY DEF LaunchFails, AtStage
<1>2. \A k \in Kinds : <<r, k>> \notin ready' /\ <<r, k>> \notin links'
  BY <1>1, Ends DEF Left, VM
<1>3. outcome[r] \notin {"result", "timedout", "busy"} /\ status[r] = 0
  BY <1>1, Ends DEF Told, Delivered, TurnedAway, Stages
<1>4. pc'[r] \in {"fallback", "refused"} /\ outcome'[r] \notin {"result", "timedout", "busy"}
  <2>1. AttemptFails(r)
    BY DEF LaunchFails
  <2>q. QED
    BY <1>3, <2>1 DEF AttemptFails, Finish, Goto, TypeOK
<1>5. Left(r)'
  BY <1>2 DEF Left
<1>6. Told(r)'
  <2>1. Delivered(r)'
    BY <1>1, <1>3, <1>4 DEF Told, Delivered, Booted
  <2>2. TurnedAway(r)'
    BY <1>1, <1>3, <1>4 DEF Told, TurnedAway, Booted
  <2>q. QED
    BY <2>1, <2>2 DEF Told
<1>q. QED
  BY <1>5, <1>6

\* Destroy: the VMM has exited, its cgroup, link and files are gone.
LEMMA CleanKeeps ==
  ASSUME TypeOK, NEW r \in Requests, Left(r), Told(r), DestroyCleans(r)
  PROVE  Left(r)' /\ Told(r)'
<1>1. /\ pc[r] = "reap" /\ pc'[r] = "release" /\ proc[VM(r)] = "exited"
      /\ cgroups' = cgroups \ {VM(r)} /\ links' = links \ {VM(r)} /\ workDirs' = workDirs \ {VM(r)}
      /\ UNCHANGED <<kind, proc, ready, outcome, status>>
  BY DEF DestroyCleans, At, Goto, TypeOK
<1>2. VM(r) = <<r, kind[r]>> /\ VM(r)' = VM(r) /\ kind[r] \in Kinds
  BY <1>1 DEF VM, TypeOK
<1>3. VM(r) \in ready /\ status[r] = 0 /\ outcome[r] # "busy"
  BY <1>1 DEF Told, Delivered, TurnedAway, Booted
<1>4. Left(r)'
  BY <1>1, <1>2, Ends DEF Left, Over
<1>5. Told(r)'
  <2>1. Delivered(r)'
    BY <1>1, <1>2, <1>3, Ends DEF Told, Delivered, Over
  <2>2. TurnedAway(r)'
    BY <1>1, <1>2, <1>3, Ends DEF Told, TurnedAway, Over
  <2>q. QED
    BY <2>1, <2>2 DEF Told
<1>q. QED
  BY <1>4, <1>5

\* The slot goes back and the handler answers.
LEMMA AnswerKeeps ==
  ASSUME TypeOK, NEW r \in Requests, Left(r), Told(r), GateRelease(r) \/ Respond(r)
  PROVE  Left(r)' /\ Told(r)'
<1>1. UNCHANGED <<kind, proc, workDirs, links, cgroups, ready>>
  BY DEF GateRelease, Respond, hostVars
<1>2. Untouched(r)' = Untouched(r) /\ VM(r)' = VM(r)
  BY <1>1 DEF Untouched, VM
<1>3. CASE GateRelease(r)
  <2>1. pc[r] = "release" /\ pc'[r] = "respond" /\ UNCHANGED <<outcome, status>>
    BY <1>3 DEF GateRelease, At, Goto, TypeOK
  <2>2. Left(r)'
    BY <1>1, <2>1, Ends DEF Left, Over
  <2>3. Told(r)'
    <3>1. Delivered(r)'
      BY <1>1, <1>2, <2>1 DEF Told, Delivered, Booted
    <3>2. TurnedAway(r)'
      BY <1>1, <1>2, <2>1 DEF Told, TurnedAway, Booted
    <3>q. QED
      BY <3>1, <3>2 DEF Told
  <2>q. QED
    BY <2>2, <2>3
<1>4. CASE Respond(r)
  <2>1. pc[r] = "respond" /\ pc'[r] = "done" /\ outcome'[r] = "none"
    BY <1>4 DEF Respond, At, Goto, Finish, TypeOK
  <2>2. /\ status'[r] = 200 => outcome[r] \in {"result", "timedout"}
        /\ status'[r] = 429 => outcome[r] = "busy"
    BY <1>4 DEF Respond, StatusOf, TypeOK, Outcomes
  <2>3. Left(r)'
    BY <1>1, <2>1, Ends DEF Left, Over
  <2>4. Told(r)'
    <3>1. Delivered(r)'
      BY <1>1, <1>2, <2>1, <2>2 DEF Told, Delivered, Booted
    <3>2. TurnedAway(r)'
      BY <1>1, <1>2, <2>1, <2>2 DEF Told, TurnedAway, Booted
    <3>q. QED
      BY <3>1, <3>2 DEF Told
  <2>q. QED
    BY <2>3, <2>4
<1>q. QED
  BY <1>3, <1>4

\* Every step of a request keeps what its attempts hold and what it tells of them.
LEMMA OwnKeeps ==
  ASSUME TypeOK, NEW r \in Requests, Left(r), Told(r), Arrive(r) \/ Step(r)
  PROVE  Left(r)' /\ Told(r)'
<1>1. CASE Arrive(r) \/ GateAcquire(r)
  <2>1. /\ UNCHANGED <<outcome, status, proc, workDirs, links, ready>>
        /\ \/ pc[r] = "idle" /\ Goto(r, "queued")
           \/ pc[r] = "queued" /\ Goto(r, "boot")
    BY <1>1 DEF Arrive, GateAcquire, At, hostVars
  <2>2. outcome'[r] \notin {"result", "timedout", "busy"}
    BY <2>1 DEF Told, Delivered, TurnedAway
  <2>q. QED
    BY <2>1, <2>2, EarlyKeeps DEF Booted
<1>2. CASE GateGiveUp(r)
  <2>1. /\ UNCHANGED <<status, proc, workDirs, links, ready>>
        /\ pc[r] = "queued" /\ Goto(r, "respond") /\ outcome'[r] \in {"busy", "canceled"}
    BY <1>2 DEF GateGiveUp, At, hostVars, Finish, TypeOK
  <2>2. "respond" \notin {"idle"} \cup Booted /\ outcome'[r] \notin {"result", "timedout"}
    BY <2>1 DEF Booted
  <2>q. QED
    BY <2>1, <2>2, EarlyKeeps
<1>3. CASE GateRefuse(r) \/ Fallback(r) \/ BootChooses(r) \/ BootDirs(r)
  <2>1. pc[r] \in {"boot", "dirs", "fallback", "refused"} /\ UNCHANGED <<status, links, ready>>
    BY <1>3 DEF GateRefuse, Fallback, BootChooses, BootDirs, At, hostVars
  <2>2. outcome[r] \notin {"result", "timedout", "busy"} /\ kind[r] \in Kinds
    BY <2>1 DEF Told, Delivered, TurnedAway, TypeOK
  <2>3. \E l \in {"respond", "dirs", "refused", "fallback"} \cup Stages :
          Goto(r, l) /\ outcome'[r] \notin {"result", "timedout", "busy"}
    <3>1. CASE GateRefuse(r) \/ Fallback(r)
      BY <2>2, <3>1 DEF GateRefuse, Fallback, Attempt
    <3>2. CASE BootChooses(r)
      BY <2>2, <3>2 DEF BootChooses, Attempt, Finish, TypeOK
    <3>3. CASE BootDirs(r)
      <4>1. CASE AttemptFails(r)
        BY <2>2, <4>1 DEF AttemptFails, Finish, TypeOK
      <4>2. CASE Goto(r, FirstStage(kind[r])) /\ UNCHANGED outcome
        BY <2>2, <4>2, Ends
      <4>q. QED
        BY <3>3, <4>1, <4>2 DEF BootDirs
    <3>q. QED
      BY <1>3, <3>1, <3>2, <3>3
  <2>4. PICK l \in {"respond", "dirs", "refused", "fallback"} \cup Stages :
          Goto(r, l) /\ outcome'[r] \notin {"result", "timedout", "busy"}
    BY <2>3
  <2>5. l \notin {"idle"} \cup Booted /\ l # "queued"
    BY Ends DEF Booted
  <2>6. /\ pc[r] \in {"idle", "queued", "boot", "dirs", "fallback", "refused"}
        /\ pc[r] \notin {"idle", "queued"} /\ outcome'[r] # "busy"
    BY <2>1, <2>4
  <2>q. QED
    BY <2>1, <2>4, <2>5, <2>6, EarlyKeeps
<1>4. CASE ExecReplies(r) \/ ExecTimesOut(r) \/ ExecFails(r)
  <2>1. /\ UNCHANGED <<status, kind, links, ready, workDirs, cgroups>>
        /\ pc[r] = "exec" /\ outcome'[r] # "busy"
        /\ \E l \in {"snap", "destroy"} : Goto(r, l)
    BY <1>4 DEF ExecReplies, ExecTimesOut, ExecFails, Finish, At, hostVars, TypeOK
  <2>q. QED
    BY <2>1, LateKeeps
<1>5. CASE MaybeSnapshot(r) \/ DestroyStops(r)
  <2>1. /\ UNCHANGED <<status, kind, links, ready, workDirs, cgroups, outcome>>
        /\ pc[r] \in {"snap", "destroy"}
        /\ \E l \in {"destroy", "reap"} : Goto(r, l)
    BY <1>5 DEF MaybeSnapshot, DestroyStops, At, hostVars
  <2>2. outcome'[r] # "busy"
    BY <2>1 DEF Told, Delivered, TurnedAway
  <2>q. QED
    BY <2>1, <2>2, LateKeeps
<1>q. QED
  BY <1>1, <1>2, <1>3, <1>4, <1>5, StageKeeps, FailKeeps, CleanKeeps, AnswerKeeps DEF Step

\* A VMM that exits had a process, so its request was not untouched.
LEMMA DeathKeeps ==
  ASSUME TypeOK, NEW v \in VMs, VMMDies(v), NEW r \in Requests, Left(r), Told(r)
  PROVE  Left(r)' /\ Told(r)'
<1>1. /\ proc[v] \in {"running", "killed"} /\ proc' = [proc EXCEPT ![v] = "exited"]
      /\ UNCHANGED <<pc, kind, workDirs, links, cgroups, ready, outcome, status>>
  BY DEF VMMDies
<1>2. \A k \in Kinds : <<r, k>> \in VMs
  BY DEF VMs
<1>3. \A k \in Kinds : proc'[<<r, k>>] \in {proc[<<r, k>>], "exited"}
  BY <1>1, <1>2 DEF TypeOK
<1>4. Untouched(r) => Untouched(r)'
  BY <1>1, <1>2 DEF Untouched, TypeOK
<1>5. Left(r)'
  BY <1>1, <1>3 DEF Left
<1>6. Told(r)'
  <2>1. Delivered(r)'
    BY <1>1, <1>4 DEF Told, Delivered, VM
  <2>2. TurnedAway(r)'
    BY <1>1, <1>4 DEF Told, TurnedAway, VM
  <2>q. QED
    BY <2>1, <2>2 DEF Told
<1>q. QED
  BY <1>5, <1>6

\* No request has anything when the server starts.
LEMMA LInvInit == Init => LInv
BY DEF Init, LInv, Left, Told, Delivered, TurnedAway, Untouched, Booted, VMs

\* Every step of the specification keeps the invariant of the requests.
LEMMA LInvStep ==
  ASSUME TypeOK, LInv, [Next]_vars
  PROVE  LInv'
<1> SUFFICES ASSUME NEW q \in Requests PROVE Left(q)' /\ Told(q)'
  BY DEF LInv
<1>0. TypeOK /\ Left(q) /\ Told(q)
  BY DEF LInv
<1>1. CASE \E r \in Requests : Arrive(r) \/ Step(r)
  <2>1. PICK r \in Requests : Arrive(r) \/ Step(r)
    BY <1>1
  <2>2. CASE q = r
    BY <1>0, <2>1, <2>2, OwnKeeps
  <2>3. CASE q # r
    BY <1>0, <2>1, <2>3, OthersSame, SameKeeps
  <2>q. QED
    BY <2>2, <2>3
<1>2. CASE \E v \in VMs : VMMDies(v)
  BY <1>0, <1>2, DeathKeeps
<1>3. CASE ShutdownStarts \/ WardenExits \/ UNCHANGED vars
  <2>1. Same(q)
    BY <1>3 DEF ShutdownStarts, WardenExits, vars, hostVars, Same
  <2>q. QED
    BY <1>0, <2>1, SameKeeps
<1>q. QED
  BY <1>1, <1>2, <1>3 DEF Next

-----------------------------------------------------------------------------
(* The gate.                                                               *)

\* On which side of the gate, and of a VMM, a label is.
LEMMA Sides ==
  /\ Holding \subseteq PCs /\ WithVMM \subseteq Holding
  /\ {"idle", "queued", "respond", "done"} \subseteq PCs \ Holding
  /\ {"boot", "dirs", "fallback", "refused", "reap", "release"} \subseteq Holding \ WithVMM
  /\ {"exec", "snap", "destroy"} \subseteq WithVMM
BY DEF Holding, PCs, WithVMM, Stages, InVM

\* The sets of labels, written out for the provers.
LEMMA Labels ==
  /\ Holding \subseteq PCs
  /\ WithVMM \subseteq Holding
  /\ Stages \subseteq Holding
  /\ {"idle", "queued", "respond", "done"} \cap Holding = {}
  /\ \A k \in Kinds : FirstStage(k) \in Stages \ WithVMM
  /\ \A k \in Kinds, s \in Stages :
       /\ StageAfter(k, s) \in Stages \cup {"exec"}
       /\ s \in WithVMM \cup {"spawn"} => StageAfter(k, s) \in WithVMM
  /\ {"idle", "queued", "respond", "done"} \subseteq PCs
  /\ {"boot", "dirs", "fallback", "refused", "exec", "snap", "destroy", "reap", "release"} \subseteq Holding
  /\ {"exec", "snap", "destroy"} \subseteq WithVMM
  /\ {"boot", "dirs", "fallback", "refused", "reap", "release"} \cap WithVMM = {}
BY DEF Holding, PCs, WithVMM, Stages, InVM, Kinds, FirstStage, StageAfter

\* The channel of the gate has room for at least one token.
LEMMA Capacity == SemCap \in Nat \ {0}
BY ConfigTypes DEF SemCap

-----------------------------------------------------------------------------
(* The inductive invariant.  SlotAccounting is what keeps sem in range when *)
(* a token is taken back; RunningHasOwner is about processes only.          *)
IInv == TypeOK /\ SlotAccounting /\ RunningHasOwner

\* A request that moves between labels of the same side keeps the holders.
LEMMA HoldersSame ==
  ASSUME TypeOK, NEW r \in Requests, NEW l \in PCs, Goto(r, l),
         pc[r] \in Holding <=> l \in Holding
  PROVE  Holders' = Holders
BY DEF TypeOK, Goto, Holders

\* A request that enters Holding adds itself to the holders ...
LEMMA HolderJoins ==
  ASSUME TypeOK, NEW r \in Requests, NEW l \in Holding, Goto(r, l), pc[r] \notin Holding
  PROVE  Holders' = Holders \cup {r} /\ r \notin Holders
<1>1. \A q \in Requests : pc'[q] = IF q = r THEN l ELSE pc[q]
  BY DEF TypeOK, Goto
<1>2. \A q \in Requests : q \in Holders' <=> q \in Holders \/ q = r
  BY <1>1 DEF Holders
<1>3. r \notin Holders /\ Holders \subseteq Requests /\ Holders' \subseteq Requests
  BY DEF Holders
<1> QED BY <1>2, <1>3

\* ... and counts as one.
LEMMA HoldersGrow ==
  ASSUME TypeOK, NEW r \in Requests, NEW l \in Holding, Goto(r, l), pc[r] \notin Holding
  PROVE  Cardinality(Holders') = Cardinality(Holders) + 1
<1>1. Holders' = Holders \cup {r} /\ r \notin Holders
  BY HolderJoins
<1>2. IsFiniteSet(Holders)
  BY RequestsFinite, FS_Subset DEF Holders
<1> QED BY <1>1, <1>2, FS_AddElement

\* A request that leaves Holding takes itself away ...
LEMMA HolderLeaves ==
  ASSUME TypeOK, NEW r \in Requests, NEW l \in PCs \ Holding, Goto(r, l), pc[r] \in Holding
  PROVE  Holders' = Holders \ {r} /\ r \in Holders
<1>1. \A q \in Requests : pc'[q] = IF q = r THEN l ELSE pc[q]
  BY DEF TypeOK, Goto
<1>2. \A q \in Requests : q \in Holders' <=> q \in Holders /\ q # r
  BY <1>1 DEF Holders
<1>3. r \in Holders /\ Holders \subseteq Requests /\ Holders' \subseteq Requests
  BY DEF Holders
<1> QED BY <1>2, <1>3

\* ... and its count.
LEMMA HoldersShrink ==
  ASSUME TypeOK, NEW r \in Requests, NEW l \in PCs \ Holding, Goto(r, l), pc[r] \in Holding
  PROVE  /\ Cardinality(Holders') = Cardinality(Holders) - 1
         /\ Cardinality(Holders) \in Nat \ {0}
<1>1. Holders' = Holders \ {r} /\ r \in Holders
  BY HolderLeaves
<1>2. IsFiniteSet(Holders)
  BY RequestsFinite, FS_Subset DEF Holders
<1>3. Cardinality(Holders) \in Nat /\ Cardinality(Holders) # 0
  BY <1>1, <1>2, FS_CardinalityType, FS_EmptySet
<1> QED BY <1>1, <1>2, <1>3, FS_RemoveElement

\* No request holds a slot in the initial state.
LEMMA InitIInv == Init => IInv
<1> SUFFICES ASSUME Init PROVE IInv
  OBVIOUS
<1>1. TypeOK
  BY Capacity DEF Init, TypeOK, PCs, Kinds, VMs, Outcomes
<1>2. Holders = {}
  BY Labels DEF Init, Holders
<1>3. SlotAccounting
  BY <1>2, FS_EmptySet DEF Init, SlotAccounting
<1>4. RunningHasOwner
  BY DEF Init, RunningHasOwner, VMs
<1> QED BY <1>1, <1>3, <1>4 DEF IInv

\* A request inside the gate accounts for a token.
LEMMA TokenInChannel ==
  ASSUME IInv, NEW r \in Requests, pc[r] \in Holding
  PROVE  sem \in 1..SemCap
<1>1. IsFiniteSet(Holders) /\ Holders # {}
  BY RequestsFinite, FS_Subset DEF Holders
<1>2. Cardinality(Holders) \in Nat \ {0}
  BY <1>1, FS_CardinalityType, FS_EmptySet
<1> QED BY <1>2, Capacity DEF IInv, SlotAccounting, TypeOK

\* No process changes: a request may not leave WithVMM while its VMM runs.
LEMMA OwnerMoves ==
  ASSUME TypeOK, RunningHasOwner, NEW r \in Requests, NEW l \in PCs,
         Goto(r, l), proc' = proc, kind' = kind, pc[r] \in WithVMM => l \in WithVMM
  PROVE  RunningHasOwner'
BY DEF TypeOK, RunningHasOwner, Goto

\* A new attempt begins outside WithVMM.
LEMMA OwnerRetries ==
  ASSUME TypeOK, RunningHasOwner, NEW r \in Requests, NEW k \in Kinds,
         Attempt(r, k), proc' = proc, pc[r] \notin WithVMM
  PROVE  RunningHasOwner'
BY DEF TypeOK, RunningHasOwner, Attempt, Goto

\* After kill the attempt of the request does not run.
LEMMA OwnerKills ==
  ASSUME TypeOK, RunningHasOwner, NEW r \in Requests, NEW l \in PCs,
         Goto(r, l), proc' = Killed(VM(r)), kind' = kind
  PROVE  RunningHasOwner'
BY DEF TypeOK, RunningHasOwner, Goto, Killed, VM, VMs

\* The VMM of the current attempt starts.
LEMMA OwnerSpawns ==
  ASSUME TypeOK, RunningHasOwner, NEW r \in Requests, NEW l \in WithVMM,
         Goto(r, l), proc' = [proc EXCEPT ![VM(r)] = "running"], kind' = kind
  PROVE  RunningHasOwner'
BY DEF TypeOK, RunningHasOwner, Goto, VM, VMs

\* Types: the two receives on g.sem need SlotAccounting.
LEMMA TypeStep == IInv /\ [Next]_vars => TypeOK'
<1> SUFFICES ASSUME IInv, [Next]_vars PROVE TypeOK'
  OBVIOUS
<1> USE DEF IInv, TypeOK, PCs, Holding, Stages, InVM, Kinds, Outcomes, At, AtStage, Goto, gateVars, hostVars
<1>1. ASSUME NEW r \in Requests, Arrive(r) PROVE TypeOK'
  BY <1>1, Labels DEF Arrive
<1>2. ASSUME NEW r \in Requests, GateAcquire(r) PROVE TypeOK'
  BY <1>2, Labels, Capacity DEF GateAcquire
<1>3. ASSUME NEW r \in Requests, GateGiveUp(r) PROVE TypeOK'
  BY <1>3, Labels DEF GateGiveUp, Finish
<1>4. ASSUME NEW r \in Requests, GateRefuse(r) PROVE TypeOK'
  <2>1. sem \in 1..SemCap
    BY <1>4, TokenInChannel DEF GateRefuse
  <2> QED BY <1>4, <2>1, Capacity DEF GateRefuse, Freed
<1>5. ASSUME NEW r \in Requests, GateRelease(r) PROVE TypeOK'
  <2>1. sem \in 1..SemCap
    BY <1>5, TokenInChannel DEF GateRelease
  <2> QED BY <1>5, <2>1, Capacity DEF GateRelease, Freed
<1>6. ASSUME NEW r \in Requests, BootChooses(r) PROVE TypeOK'
  BY <1>6, Labels DEF BootChooses, Attempt, Finish
<1>7. ASSUME NEW r \in Requests, Fallback(r) PROVE TypeOK'
  BY <1>7, Labels DEF Fallback, Attempt
<1>8. ASSUME NEW r \in Requests, BootDirs(r) PROVE TypeOK'
  <2>1. workDirs' \subseteq VMs
    BY <1>8 DEF BootDirs, VM, VMs
  <2>2. pc' \in [Requests -> PCs] /\ outcome' \in [Requests -> Outcomes]
    BY <1>8, Labels DEF BootDirs, AttemptFails, Finish
  <2> QED BY <1>8, <2>1, <2>2 DEF BootDirs
<1>9. ASSUME NEW r \in Requests, LaunchStage(r) PROVE TypeOK'
  BY <1>9, Labels, SMTT(20) DEF LaunchStage, Spawned, Attached, VM, VMs
<1>10. ASSUME NEW r \in Requests, LaunchFails(r) PROVE TypeOK'
  <2>1. VM(r) \in VMs /\ proc' \in [VMs -> {"none", "running", "killed", "exited"}]
    BY <1>10 DEF LaunchFails, Killed, VM, VMs
  <2>2. workDirs' \subseteq VMs /\ links' \subseteq VMs
    BY <1>10, <2>1 DEF LaunchFails, WorkDirsAfterFailure
  <2>3. pc' \in [Requests -> PCs] /\ outcome' \in [Requests -> Outcomes]
    BY <1>10, Labels DEF LaunchFails, AttemptFails, Finish
  <2> QED BY <1>10, <2>1, <2>2, <2>3 DEF LaunchFails
<1>11. ASSUME NEW r \in Requests, ExecReplies(r) PROVE TypeOK'
  BY <1>11, Labels DEF ExecReplies, Finish
<1>12. ASSUME NEW r \in Requests, ExecTimesOut(r) PROVE TypeOK'
  BY <1>12, Labels DEF ExecTimesOut, Finish
<1>13. ASSUME NEW r \in Requests, ExecFails(r) PROVE TypeOK'
  BY <1>13, Labels DEF ExecFails, Finish
<1>14. ASSUME NEW r \in Requests, MaybeSnapshot(r) PROVE TypeOK'
  BY <1>14, Labels DEF MaybeSnapshot
<1>15. ASSUME NEW r \in Requests, DestroyStops(r) PROVE TypeOK'
  BY <1>15, Labels, SMTT(20) DEF DestroyStops, Killed, VM, VMs
<1>16. ASSUME NEW r \in Requests, DestroyCleans(r) PROVE TypeOK'
  BY <1>16, Labels, SMTT(20) DEF DestroyCleans, VM
<1>17. ASSUME NEW r \in Requests, Respond(r) PROVE TypeOK'
  BY <1>17, Labels DEF Respond, Finish, StatusOf
<1>18. ASSUME NEW v \in VMs, VMMDies(v) PROVE TypeOK'
  BY <1>18, Labels DEF VMMDies
<1>19. CASE ShutdownStarts
  BY <1>19, Labels DEF ShutdownStarts
<1>20. CASE WardenExits
  BY <1>20, Labels DEF WardenExits
<1>21. CASE UNCHANGED vars
  BY <1>21 DEF vars
<1> HIDE DEF IInv, TypeOK, PCs, Holding, Stages, InVM, Kinds, Outcomes, At, AtStage, Goto, gateVars, hostVars
<1> QED
  BY <1>1, <1>2, <1>3, <1>4, <1>5, <1>6, <1>7, <1>8, <1>9, <1>10, <1>11, <1>12, <1>13, <1>14, <1>15, <1>16, <1>17, <1>18, <1>19, <1>20, <1>21 DEF Next, Step

\* Slots: sem and the holders change together, on GateAcquire, GateRefuse and
\* GateRelease only.
LEMMA SlotStep == IInv /\ [Next]_vars => SlotAccounting'
<1> SUFFICES ASSUME IInv, [Next]_vars PROVE SlotAccounting'
  OBVIOUS
<1> USE DEF IInv, SlotAccounting
<1>1. ASSUME NEW r \in Requests, Arrive(r) PROVE SlotAccounting'
  <2>1. PICK l \in PCs : Goto(r, l) /\ (pc[r] \in Holding <=> l \in Holding)
    BY <1>1, Sides DEF Arrive, At
  <2>2. sem' = sem
    BY <1>1 DEF Arrive, gateVars
  <2> QED BY <2>1, <2>2, HoldersSame
<1>2. ASSUME NEW r \in Requests, GateAcquire(r) PROVE SlotAccounting'
  <2>1. pc[r] \notin Holding /\ Goto(r, "boot") /\ "boot" \in Holding
    BY <1>2, Labels DEF GateAcquire, At, Holding
  <2> QED BY <1>2, <2>1, HoldersGrow DEF GateAcquire
<1>3. ASSUME NEW r \in Requests, GateGiveUp(r) PROVE SlotAccounting'
  <2>1. PICK l \in PCs : Goto(r, l) /\ (pc[r] \in Holding <=> l \in Holding)
    BY <1>3, Sides DEF GateGiveUp, Finish, At
  <2>2. sem' = sem
    BY <1>3 DEF GateGiveUp, gateVars
  <2> QED BY <2>1, <2>2, HoldersSame
<1>4. ASSUME NEW r \in Requests, GateRefuse(r) PROVE SlotAccounting'
  <2>1. pc[r] \in Holding /\ Goto(r, "respond") /\ "respond" \in PCs \ Holding
    BY <1>4, Labels DEF GateRefuse, At, PCs, Holding, InVM
  <2> QED BY <1>4, <2>1, HoldersShrink DEF GateRefuse, Freed
<1>5. ASSUME NEW r \in Requests, GateRelease(r) PROVE SlotAccounting'
  <2>1. pc[r] \in Holding /\ Goto(r, "respond") /\ "respond" \in PCs \ Holding
    BY <1>5, Labels DEF GateRelease, At, PCs, Holding, InVM
  <2> QED BY <1>5, <2>1, HoldersShrink DEF GateRelease, Freed
<1>6. ASSUME NEW r \in Requests, BootChooses(r) PROVE SlotAccounting'
  <2>1. PICK l \in PCs : Goto(r, l) /\ (pc[r] \in Holding <=> l \in Holding)
    BY <1>6, Sides DEF BootChooses, Attempt, Finish, At
  <2>2. sem' = sem
    BY <1>6 DEF BootChooses, gateVars
  <2> QED BY <2>1, <2>2, HoldersSame
<1>7. ASSUME NEW r \in Requests, Fallback(r) PROVE SlotAccounting'
  <2>1. PICK l \in PCs : Goto(r, l) /\ (pc[r] \in Holding <=> l \in Holding)
    BY <1>7, Sides DEF Fallback, Attempt, At
  <2>2. sem' = sem
    BY <1>7 DEF Fallback, gateVars
  <2> QED BY <2>1, <2>2, HoldersSame
<1>8. ASSUME NEW r \in Requests, BootDirs(r) PROVE SlotAccounting'
  <2>1. PICK l \in PCs : Goto(r, l) /\ (pc[r] \in Holding <=> l \in Holding)
    BY <1>8, Labels DEF BootDirs, AttemptFails, Finish, VM, At, AtStage, TypeOK
  <2>2. sem' = sem
    BY <1>8 DEF BootDirs, gateVars
  <2> QED BY <2>1, <2>2, HoldersSame
<1>9. ASSUME NEW r \in Requests, LaunchStage(r) PROVE SlotAccounting'
  <2>1. PICK l \in PCs : Goto(r, l) /\ (pc[r] \in Holding <=> l \in Holding)
    BY <1>9, Labels DEF LaunchStage, Spawned, Attached, VM, At, AtStage, TypeOK
  <2>2. sem' = sem
    BY <1>9 DEF LaunchStage, Spawned, Attached, gateVars
  <2> QED BY <2>1, <2>2, HoldersSame
<1>10. ASSUME NEW r \in Requests, LaunchFails(r) PROVE SlotAccounting'
  <2>1. PICK l \in PCs : Goto(r, l) /\ (pc[r] \in Holding <=> l \in Holding)
    BY <1>10, Labels DEF LaunchFails, AttemptFails, Finish, Killed, WorkDirsAfterFailure, VM, At, AtStage, TypeOK
  <2>2. sem' = sem
    BY <1>10 DEF LaunchFails, gateVars
  <2> QED BY <2>1, <2>2, HoldersSame
<1>11. ASSUME NEW r \in Requests, ExecReplies(r) PROVE SlotAccounting'
  <2>1. PICK l \in PCs : Goto(r, l) /\ (pc[r] \in Holding <=> l \in Holding)
    BY <1>11, Sides DEF ExecReplies, Finish, At
  <2>2. sem' = sem
    BY <1>11 DEF ExecReplies, gateVars
  <2> QED BY <2>1, <2>2, HoldersSame
<1>12. ASSUME NEW r \in Requests, ExecTimesOut(r) PROVE SlotAccounting'
  <2>1. PICK l \in PCs : Goto(r, l) /\ (pc[r] \in Holding <=> l \in Holding)
    BY <1>12, Sides DEF ExecTimesOut, Finish, At
  <2>2. sem' = sem
    BY <1>12 DEF ExecTimesOut, gateVars
  <2> QED BY <2>1, <2>2, HoldersSame
<1>13. ASSUME NEW r \in Requests, ExecFails(r) PROVE SlotAccounting'
  <2>1. PICK l \in PCs : Goto(r, l) /\ (pc[r] \in Holding <=> l \in Holding)
    BY <1>13, Sides DEF ExecFails, Finish, At
  <2>2. sem' = sem
    BY <1>13 DEF ExecFails, gateVars
  <2> QED BY <2>1, <2>2, HoldersSame
<1>14. ASSUME NEW r \in Requests, MaybeSnapshot(r) PROVE SlotAccounting'
  <2>1. PICK l \in PCs : Goto(r, l) /\ (pc[r] \in Holding <=> l \in Holding)
    BY <1>14, Sides DEF MaybeSnapshot, At
  <2>2. sem' = sem
    BY <1>14 DEF MaybeSnapshot, gateVars
  <2> QED BY <2>1, <2>2, HoldersSame
<1>15. ASSUME NEW r \in Requests, DestroyStops(r) PROVE SlotAccounting'
  <2>1. PICK l \in PCs : Goto(r, l) /\ (pc[r] \in Holding <=> l \in Holding)
    BY <1>15, Sides DEF DestroyStops, Killed, VM, At
  <2>2. sem' = sem
    BY <1>15 DEF DestroyStops, gateVars
  <2> QED BY <2>1, <2>2, HoldersSame
<1>16. ASSUME NEW r \in Requests, DestroyCleans(r) PROVE SlotAccounting'
  <2>1. PICK l \in PCs : Goto(r, l) /\ (pc[r] \in Holding <=> l \in Holding)
    BY <1>16, Sides DEF DestroyCleans, VM, At
  <2>2. sem' = sem
    BY <1>16 DEF DestroyCleans, gateVars
  <2> QED BY <2>1, <2>2, HoldersSame
<1>17. ASSUME NEW r \in Requests, Respond(r) PROVE SlotAccounting'
  <2>1. PICK l \in PCs : Goto(r, l) /\ (pc[r] \in Holding <=> l \in Holding)
    BY <1>17, Sides DEF Respond, Finish, At
  <2>2. sem' = sem
    BY <1>17 DEF Respond, gateVars
  <2> QED BY <2>1, <2>2, HoldersSame
<1>18. ASSUME NEW v \in VMs, VMMDies(v) PROVE SlotAccounting'
  BY <1>18 DEF VMMDies, Holders, gateVars
<1>19. CASE ShutdownStarts
  BY <1>19 DEF ShutdownStarts, Holders, gateVars
<1>20. CASE WardenExits
  BY <1>20 DEF WardenExits, Holders, gateVars
<1>21. CASE UNCHANGED vars
  BY <1>21 DEF vars, Holders, gateVars
<1> QED
  BY <1>1, <1>2, <1>3, <1>4, <1>5, <1>6, <1>7, <1>8, <1>9, <1>10, <1>11, <1>12, <1>13, <1>14, <1>15, <1>16, <1>17, <1>18, <1>19, <1>20, <1>21 DEF Next, Step

\* Processes: a VMM starts running in the stage spawn of the current attempt, and
\* every way out of WithVMM goes through kill.
LEMMA OwnerStep == IInv /\ [Next]_vars => RunningHasOwner'
<1> SUFFICES ASSUME IInv, [Next]_vars PROVE RunningHasOwner'
  OBVIOUS
<1> USE DEF IInv
<1>1. ASSUME NEW r \in Requests, Arrive(r) PROVE RunningHasOwner'
  <2>1. PICK l \in PCs : Goto(r, l) /\ (pc[r] \in WithVMM => l \in WithVMM)
    <3>1. pc[r] = "idle" /\ Goto(r, "queued")
      BY <1>1 DEF Arrive
    <3>2. "idle" \notin WithVMM /\ "queued" \in PCs
      BY Labels DEF PCs
    <3> QED BY <3>1, <3>2
  <2> QED BY <1>1, <2>1, OwnerMoves DEF Arrive, hostVars
<1>2. ASSUME NEW r \in Requests, GateAcquire(r) PROVE RunningHasOwner'
  <2>1. PICK l \in PCs : Goto(r, l) /\ (pc[r] \in WithVMM => l \in WithVMM)
    BY <1>2, Sides DEF GateAcquire, At
  <2> QED BY <1>2, <2>1, OwnerMoves DEF GateAcquire, hostVars
<1>3. ASSUME NEW r \in Requests, GateGiveUp(r) PROVE RunningHasOwner'
  <2>1. PICK l \in PCs : Goto(r, l) /\ (pc[r] \in WithVMM => l \in WithVMM)
    BY <1>3, Sides DEF GateGiveUp, Finish, At
  <2> QED BY <1>3, <2>1, OwnerMoves DEF GateGiveUp, hostVars
<1>4. ASSUME NEW r \in Requests, GateRefuse(r) PROVE RunningHasOwner'
  <2>1. PICK l \in PCs : Goto(r, l) /\ (pc[r] \in WithVMM => l \in WithVMM)
    BY <1>4, Sides DEF GateRefuse, Freed, At
  <2> QED BY <1>4, <2>1, OwnerMoves DEF GateRefuse, hostVars
<1>5. ASSUME NEW r \in Requests, GateRelease(r) PROVE RunningHasOwner'
  <2>1. PICK l \in PCs : Goto(r, l) /\ (pc[r] \in WithVMM => l \in WithVMM)
    BY <1>5, Sides DEF GateRelease, Freed, At
  <2> QED BY <1>5, <2>1, OwnerMoves DEF GateRelease, hostVars
<1>6. ASSUME NEW r \in Requests, BootChooses(r) PROVE RunningHasOwner'
  <2>1. proc' = proc /\ pc[r] \notin WithVMM
    BY <1>6 DEF BootChooses, At, AtStage, PCs, Holding, InVM, Stages, WithVMM, hostVars
  <2>2. CASE \E k \in Kinds : Attempt(r, k)
    BY <2>1, <2>2, OwnerRetries
  <2>3. CASE kind' = kind /\ Goto(r, "refused")
    BY <2>1, <2>3, Labels, OwnerMoves DEF Holding
  <2> QED BY <1>6, <2>2, <2>3 DEF BootChooses, Finish, Kinds
<1>7. ASSUME NEW r \in Requests, Fallback(r) PROVE RunningHasOwner'
  BY <1>7, Labels, OwnerRetries DEF Fallback, At, AtStage, PCs, Holding, InVM, Stages, WithVMM, hostVars, Kinds
<1>8. ASSUME NEW r \in Requests, BootDirs(r) PROVE RunningHasOwner'
  <2>1. PICK l \in PCs : Goto(r, l) /\ (pc[r] \in WithVMM => l \in WithVMM)
    BY <1>8, Labels DEF BootDirs, AttemptFails, Finish, VM, At, AtStage, TypeOK
  <2> QED BY <1>8, <2>1, OwnerMoves DEF BootDirs, hostVars
<1>9. ASSUME NEW r \in Requests, LaunchStage(r) PROVE RunningHasOwner'
  <2> DEFINE l == StageAfter(kind[r], pc[r])
  <2>1. Goto(r, l) /\ kind' = kind /\ pc[r] \in Stages /\ kind[r] \in Kinds
    BY <1>9 DEF LaunchStage, Spawned, Attached, AtStage, TypeOK
  <2>2. l \in PCs /\ (pc[r] \in WithVMM \cup {"spawn"} => l \in WithVMM)
    BY <2>1, Labels DEF PCs, Holding, InVM
  <2>3. CASE pc[r] = "spawn"
    BY <1>9, <2>1, <2>2, <2>3, OwnerSpawns DEF LaunchStage, Spawned, Attached
  <2>4. CASE pc[r] # "spawn"
    BY <1>9, <2>1, <2>2, <2>4, OwnerMoves DEF LaunchStage, Spawned, Attached
  <2> QED BY <2>3, <2>4
<1>10. ASSUME NEW r \in Requests, LaunchFails(r) PROVE RunningHasOwner'
  <2>1. PICK l \in PCs : Goto(r, l)
    BY <1>10, Labels DEF LaunchFails, AttemptFails, Finish, Holding
  <2> QED BY <1>10, <2>1, OwnerKills DEF LaunchFails
<1>11. ASSUME NEW r \in Requests, ExecReplies(r) PROVE RunningHasOwner'
  <2>1. PICK l \in PCs : Goto(r, l) /\ (pc[r] \in WithVMM => l \in WithVMM)
    BY <1>11, Sides DEF ExecReplies, Finish, At
  <2> QED BY <1>11, <2>1, OwnerMoves DEF ExecReplies, hostVars
<1>12. ASSUME NEW r \in Requests, ExecTimesOut(r) PROVE RunningHasOwner'
  <2>1. PICK l \in PCs : Goto(r, l) /\ (pc[r] \in WithVMM => l \in WithVMM)
    BY <1>12, Sides DEF ExecTimesOut, Finish, At
  <2> QED BY <1>12, <2>1, OwnerMoves DEF ExecTimesOut, hostVars
<1>13. ASSUME NEW r \in Requests, ExecFails(r) PROVE RunningHasOwner'
  <2>1. PICK l \in PCs : Goto(r, l) /\ (pc[r] \in WithVMM => l \in WithVMM)
    BY <1>13, Sides DEF ExecFails, Finish, At
  <2> QED BY <1>13, <2>1, OwnerMoves DEF ExecFails, hostVars
<1>14. ASSUME NEW r \in Requests, MaybeSnapshot(r) PROVE RunningHasOwner'
  <2>1. PICK l \in PCs : Goto(r, l) /\ (pc[r] \in WithVMM => l \in WithVMM)
    BY <1>14, Sides DEF MaybeSnapshot, At
  <2> QED BY <1>14, <2>1, OwnerMoves DEF MaybeSnapshot, hostVars
<1>15. ASSUME NEW r \in Requests, DestroyStops(r) PROVE RunningHasOwner'
  <2>1. "reap" \in PCs
    BY DEF PCs, Holding, InVM
  <2> QED BY <1>15, <2>1, OwnerKills DEF DestroyStops
<1>16. ASSUME NEW r \in Requests, DestroyCleans(r) PROVE RunningHasOwner'
  <2>1. PICK l \in PCs : Goto(r, l) /\ (pc[r] \in WithVMM => l \in WithVMM)
    BY <1>16, Sides DEF DestroyCleans, VM, At
  <2> QED BY <1>16, <2>1, OwnerMoves DEF DestroyCleans, hostVars
<1>17. ASSUME NEW r \in Requests, Respond(r) PROVE RunningHasOwner'
  <2>1. PICK l \in PCs : Goto(r, l) /\ (pc[r] \in WithVMM => l \in WithVMM)
    BY <1>17, Sides DEF Respond, Finish, At
  <2> QED BY <1>17, <2>1, OwnerMoves DEF Respond, hostVars
<1>18. ASSUME NEW v \in VMs, VMMDies(v) PROVE RunningHasOwner'
  <2>1. UNCHANGED <<pc, kind>> /\ proc' = [proc EXCEPT ![v] = "exited"]
    BY <1>18 DEF VMMDies
  <2> QED BY <2>1 DEF RunningHasOwner, TypeOK, VMs
<1>19. CASE ShutdownStarts
  <2>1. UNCHANGED <<pc, kind, proc>>
    BY <1>19 DEF ShutdownStarts, hostVars
  <2> QED BY <2>1 DEF RunningHasOwner
<1>20. CASE WardenExits
  <2>1. UNCHANGED <<pc, kind, proc>>
    BY <1>20 DEF WardenExits, hostVars
  <2> QED BY <2>1 DEF RunningHasOwner
<1>21. CASE UNCHANGED vars
  <2>1. UNCHANGED <<pc, kind, proc>>
    BY <1>21 DEF vars, hostVars
  <2> QED BY <2>1 DEF RunningHasOwner
<1> QED
  BY <1>1, <1>2, <1>3, <1>4, <1>5, <1>6, <1>7, <1>8, <1>9, <1>10, <1>11, <1>12, <1>13, <1>14, <1>15, <1>16, <1>17, <1>18, <1>19, <1>20, <1>21 DEF Next, Step

\* IInv holds in every state of every behaviour of Lifecycle.
THEOREM Invariance == Spec => []IInv
<1>1. IInv /\ [Next]_vars => IInv'
  BY TypeStep, SlotStep, OwnerStep DEF IInv
<1> QED BY InitIInv, <1>1, PTL DEF Spec

\* Type correctness, the range of the channel's token count included.
THEOREM TypeCorrect == Spec => []TypeOK
<1>1. IInv => TypeOK
  BY DEF IInv
<1> QED BY Invariance, <1>1, PTL

\* Gate.Boot and leasedInstance.Destroy: one token per request in the gate.
THEOREM SlotsExact == Spec => []SlotAccounting
<1>1. IInv => SlotAccounting
  BY DEF IInv
<1> QED BY Invariance, <1>1, PTL

\* kill and Destroy: no VMM runs without the slot of its request.
THEOREM OwnersKept == Spec => []RunningHasOwner
<1>1. IInv => RunningHasOwner
  BY DEF IInv
<1> QED BY Invariance, <1>1, PTL

\* Running VMMs inject into the holders of slots.
LEMMA LiveInjects == IInv => LiveVMsBounded
<1> SUFFICES ASSUME IInv PROVE LiveVMsBounded
  OBVIOUS
<1> DEFINE f == [v \in LiveVMs |-> v[1]]
<1>1. f \in [LiveVMs -> Holders]
  BY Labels DEF IInv, RunningHasOwner, LiveVMs, VMs, Holders
<1>2. \A v, w \in LiveVMs : f[v] = f[w] => v = w
  BY DEF IInv, RunningHasOwner, LiveVMs, VMs
<1>3. f \in Injection(LiveVMs, Holders)
  BY <1>1, <1>2 DEF Injection, IsInjective
<1>4. IsFiniteSet(Holders)
  BY RequestsFinite, FS_Subset DEF Holders
<1>5. /\ IsFiniteSet(LiveVMs)
      /\ Cardinality(LiveVMs) <= Cardinality(Holders)
  BY <1>3, <1>4, FS_Injection
<1>6. Cardinality(Holders) \in 0..SemCap /\ Cardinality(LiveVMs) \in Nat
  BY <1>5, FS_CardinalityType DEF IInv, TypeOK, SlotAccounting
<1> QED BY <1>5, <1>6, Capacity DEF LiveVMsBounded

\* The bound on live instances that the gate is there for.
THEOREM BoundedVMs == Spec => []LiveVMsBounded
BY Invariance, LiveInjects, PTL

-----------------------------------------------------------------------------
(* Lifecycle implements VMLease.                                           *)

\* The request whose VMM stops leaves LiveRequests, since no other attempt of it
\* runs.
LEMMA LiveShrinks ==
  ASSUME IInv, NEW r \in Requests, NEW k \in Kinds, proc[<<r, k>>] = "running",
         NEW s \in {"killed", "exited"}, proc' = [proc EXCEPT ![<<r, k>>] = s]
  PROVE  LiveRequests' = LiveRequests \ {r} /\ r \in LiveRequests
<1>1. \A q \in Requests, j \in Kinds :
        proc'[<<q, j>>] = IF q = r /\ j = k THEN s ELSE proc[<<q, j>>]
  BY DEF IInv, TypeOK, VMs
<1>2. \A j \in Kinds : proc[<<r, j>>] = "running" => j = k
  BY DEF IInv, RunningHasOwner
<1>3. \A q \in Requests : q \in LiveRequests' <=> q \in LiveRequests /\ q # r
  <2> TAKE q \in Requests
  <2>1. CASE q = r
    <3>1. \A j \in Kinds : proc'[<<r, j>>] # "running"
      BY <1>1, <1>2
    <3> QED BY <2>1, <3>1 DEF LiveRequests
  <2>2. CASE q # r
    <3>1. \A j \in Kinds : proc'[<<q, j>>] = proc[<<q, j>>]
      BY <1>1, <2>2
    <3> QED BY <2>2, <3>1 DEF LiveRequests
  <2> QED BY <2>1, <2>2
<1>4. r \in LiveRequests
  BY DEF LiveRequests
<1> QED BY <1>3, <1>4 DEF LiveRequests

\* kill either stops the VMM of the current attempt or changes nothing.
LEMMA KillStops ==
  ASSUME IInv, NEW r \in Requests, proc' = Killed(VM(r)), Holders' = Holders
  PROVE  Lease!Stop(r) \/ UNCHANGED Lease!vars
<1>1. kind[r] \in Kinds /\ VM(r) \in VMs
  BY DEF IInv, TypeOK, VM, VMs
<1>2. CASE proc[VM(r)] = "running"
  <2>1. proc' = [proc EXCEPT ![<<r, kind[r]>>] = "killed"]
    BY <1>1, <1>2 DEF Killed, VM
  <2> QED BY <1>1, <1>2, <2>1, LiveShrinks DEF Lease!Stop, VM
<1>3. CASE proc[VM(r)] # "running"
  <2>1. proc' = proc
    BY <1>1, <1>3 DEF Killed, IInv, TypeOK
  <2> QED BY <2>1 DEF LiveRequests, Lease!vars
<1> QED BY <1>2, <1>3

\* A token goes back only after the VMM of the request stopped.
LEMMA TokenGoesBack ==
  ASSUME IInv, NEW r \in Requests, pc[r] \in Holding \ WithVMM, Goto(r, "respond"), proc' = proc
  PROVE  Lease!Release(r)
<1>1. Holders' = Holders \ {r} /\ r \in Holders
  BY Sides, HolderLeaves DEF IInv
<1>2. r \notin LiveRequests
  BY DEF IInv, RunningHasOwner, LiveRequests
<1>3. LiveRequests' = LiveRequests
  BY DEF LiveRequests
<1> QED BY <1>1, <1>2, <1>3 DEF Lease!Release

\* A request that stays on its side of the gate, with no VMM started or stopped,
\* changes nothing of VMLease.
LEMMA LeaseSame ==
  ASSUME TypeOK, NEW r \in Requests, NEW l \in PCs, Goto(r, l), pc[r] \in Holding <=> l \in Holding,
         proc' = proc
  PROVE  UNCHANGED Lease!vars
<1>1. Holders' = Holders
  BY HoldersSame
<1>2. LiveRequests' = LiveRequests
  BY DEF LiveRequests
<1> QED BY <1>1, <1>2 DEF Lease!vars

\* Every step of Lifecycle is a step of VMLease or changes nothing there.
LEMMA LeaseStep == IInv /\ [Next]_vars => [Lease!Next]_(Lease!vars)
<1> SUFFICES ASSUME IInv, [Next]_vars PROVE Lease!Next \/ UNCHANGED Lease!vars
  OBVIOUS
<1> USE DEF IInv
<1>1. ASSUME NEW r \in Requests, Arrive(r) PROVE Lease!Next \/ UNCHANGED Lease!vars
  <2>1. PICK l \in PCs : Goto(r, l) /\ (pc[r] \in Holding <=> l \in Holding)
    BY <1>1, Sides DEF Arrive, At
  <2> QED BY <1>1, <2>1, LeaseSame DEF Arrive, hostVars
<1>2. ASSUME NEW r \in Requests, GateGiveUp(r) PROVE Lease!Next \/ UNCHANGED Lease!vars
  <2>1. PICK l \in PCs : Goto(r, l) /\ (pc[r] \in Holding <=> l \in Holding)
    BY <1>2, Sides DEF GateGiveUp, Finish, At
  <2> QED BY <1>2, <2>1, LeaseSame DEF GateGiveUp, hostVars
<1>3. ASSUME NEW r \in Requests, BootChooses(r) PROVE Lease!Next \/ UNCHANGED Lease!vars
  <2>1. PICK l \in PCs : Goto(r, l) /\ (pc[r] \in Holding <=> l \in Holding)
    BY <1>3, Sides DEF BootChooses, Attempt, Finish, At
  <2> QED BY <1>3, <2>1, LeaseSame DEF BootChooses, hostVars
<1>4. ASSUME NEW r \in Requests, Fallback(r) PROVE Lease!Next \/ UNCHANGED Lease!vars
  <2>1. PICK l \in PCs : Goto(r, l) /\ (pc[r] \in Holding <=> l \in Holding)
    BY <1>4, Sides DEF Fallback, Attempt, At
  <2> QED BY <1>4, <2>1, LeaseSame DEF Fallback, hostVars
<1>5. ASSUME NEW r \in Requests, BootDirs(r) PROVE Lease!Next \/ UNCHANGED Lease!vars
  <2>1. PICK l \in PCs : Goto(r, l) /\ (pc[r] \in Holding <=> l \in Holding)
    BY <1>5, Labels DEF BootDirs, AttemptFails, Finish, VM, At, AtStage, TypeOK
  <2> QED BY <1>5, <2>1, LeaseSame DEF BootDirs, hostVars
<1>6. ASSUME NEW r \in Requests, ExecReplies(r) PROVE Lease!Next \/ UNCHANGED Lease!vars
  <2>1. PICK l \in PCs : Goto(r, l) /\ (pc[r] \in Holding <=> l \in Holding)
    <3>1. pc[r] = "exec" /\ Goto(r, IF sess[r] THEN "snap" ELSE "destroy")
      BY <1>6 DEF ExecReplies, Finish, At
    <3>2. {"exec", "snap", "destroy"} \subseteq Holding /\ Holding \subseteq PCs
      BY Labels
    <3>q. QED
      BY <3>1, <3>2
  <2> QED BY <1>6, <2>1, LeaseSame DEF ExecReplies, hostVars
<1>7. ASSUME NEW r \in Requests, ExecTimesOut(r) PROVE Lease!Next \/ UNCHANGED Lease!vars
  <2>1. PICK l \in PCs : Goto(r, l) /\ (pc[r] \in Holding <=> l \in Holding)
    BY <1>7, Sides DEF ExecTimesOut, Finish, At
  <2> QED BY <1>7, <2>1, LeaseSame DEF ExecTimesOut, hostVars
<1>8. ASSUME NEW r \in Requests, ExecFails(r) PROVE Lease!Next \/ UNCHANGED Lease!vars
  <2>1. PICK l \in PCs : Goto(r, l) /\ (pc[r] \in Holding <=> l \in Holding)
    BY <1>8, Sides DEF ExecFails, Finish, At
  <2> QED BY <1>8, <2>1, LeaseSame DEF ExecFails, hostVars
<1>9. ASSUME NEW r \in Requests, MaybeSnapshot(r) PROVE Lease!Next \/ UNCHANGED Lease!vars
  <2>1. PICK l \in PCs : Goto(r, l) /\ (pc[r] \in Holding <=> l \in Holding)
    BY <1>9, Sides DEF MaybeSnapshot, At
  <2> QED BY <1>9, <2>1, LeaseSame DEF MaybeSnapshot, hostVars
<1>10. ASSUME NEW r \in Requests, DestroyCleans(r) PROVE Lease!Next \/ UNCHANGED Lease!vars
  <2>1. PICK l \in PCs : Goto(r, l) /\ (pc[r] \in Holding <=> l \in Holding)
    BY <1>10, Sides DEF DestroyCleans, VM, At
  <2> QED BY <1>10, <2>1, LeaseSame DEF DestroyCleans, hostVars
<1>11. ASSUME NEW r \in Requests, Respond(r) PROVE Lease!Next \/ UNCHANGED Lease!vars
  <2>1. PICK l \in PCs : Goto(r, l) /\ (pc[r] \in Holding <=> l \in Holding)
    BY <1>11, Sides DEF Respond, Finish, At
  <2> QED BY <1>11, <2>1, LeaseSame DEF Respond, hostVars
<1>12. ASSUME NEW r \in Requests, GateAcquire(r) PROVE Lease!Next \/ UNCHANGED Lease!vars
  <2>1. pc[r] \notin Holding /\ Goto(r, "boot") /\ "boot" \in Holding
    BY <1>12, Labels DEF GateAcquire, At, Holding
  <2>2. Holders' = Holders \cup {r} /\ r \notin Holders
    BY <2>1, HolderJoins
  <2>3. LiveRequests' = LiveRequests
    BY <1>12 DEF GateAcquire, hostVars, LiveRequests
  <2>4. Cardinality(Holders) < SemCap
    BY <1>12 DEF GateAcquire, SlotAccounting
  <2>5. Lease!Acquire(r)
    BY <2>2, <2>3, <2>4 DEF Lease!Acquire, Lease!Cardinality, Cardinality
  <2> QED BY <2>5 DEF Lease!Next
<1>13. ASSUME NEW r \in Requests, GateRefuse(r) PROVE Lease!Next \/ UNCHANGED Lease!vars
  <2>1. Lease!Release(r)
    BY <1>13, TokenGoesBack DEF GateRefuse, At, hostVars, Holding, InVM, WithVMM, Stages
  <2> QED BY <2>1 DEF Lease!Next
<1>14. ASSUME NEW r \in Requests, GateRelease(r) PROVE Lease!Next \/ UNCHANGED Lease!vars
  <2>1. Lease!Release(r)
    BY <1>14, TokenGoesBack DEF GateRelease, At, hostVars, Holding, InVM, WithVMM, Stages
  <2> QED BY <2>1 DEF Lease!Next
<1>15. ASSUME NEW r \in Requests, LaunchStage(r) PROVE Lease!Next \/ UNCHANGED Lease!vars
  <2>1. pc[r] \in Stages /\ kind[r] \in Kinds /\ Goto(r, StageAfter(kind[r], pc[r]))
    BY <1>15 DEF LaunchStage, Spawned, Attached, AtStage, TypeOK
  <2>2. pc[r] \in Holding /\ StageAfter(kind[r], pc[r]) \in Holding
    BY <2>1, Labels DEF Holding, InVM
  <2>3. Holders' = Holders /\ r \in Holders
    BY <2>1, <2>2, HoldersSame, Labels DEF Holders
  <2>4. CASE pc[r] = "spawn"
    <3>1. r \notin LiveRequests
      BY <2>4 DEF RunningHasOwner, LiveRequests, WithVMM, Stages
    <3>2. proc' = [proc EXCEPT ![<<r, kind[r]>>] = "running"]
      BY <1>15, <2>4 DEF LaunchStage, Spawned, Attached, VM
    <3>3. \A q \in Requests, j \in Kinds :
            proc'[<<q, j>>] = IF q = r /\ j = kind[r] THEN "running" ELSE proc[<<q, j>>]
      BY <2>1, <3>2 DEF TypeOK, VMs
    <3>4. \A q \in Requests : q \in LiveRequests' <=> q \in LiveRequests \/ q = r
      BY <2>1, <3>3 DEF LiveRequests
    <3>5. LiveRequests' = LiveRequests \cup {r}
      BY <3>4 DEF LiveRequests
    <3>6. Lease!Start(r)
      BY <2>3, <3>1, <3>5 DEF Lease!Start
    <3> QED BY <3>6 DEF Lease!Next
  <2>5. CASE pc[r] # "spawn"
    BY <1>15, <2>3, <2>5 DEF LaunchStage, Spawned, Attached, LiveRequests, Lease!vars
  <2> QED BY <2>4, <2>5
<1>16. ASSUME NEW r \in Requests, LaunchFails(r) PROVE Lease!Next \/ UNCHANGED Lease!vars
  <2>1. PICK l \in PCs : Goto(r, l) /\ (pc[r] \in Holding <=> l \in Holding)
    BY <1>16, Labels DEF LaunchFails, AtStage, AttemptFails, Finish, Holding
  <2> QED BY <1>16, <2>1, HoldersSame, KillStops DEF LaunchFails, Lease!Next
<1>17. ASSUME NEW r \in Requests, DestroyStops(r) PROVE Lease!Next \/ UNCHANGED Lease!vars
  <2>1. pc[r] \in Holding /\ "reap" \in Holding /\ Goto(r, "reap")
    BY <1>17 DEF DestroyStops, At, Holding, InVM
  <2> QED BY <1>17, <2>1, Labels, HoldersSame, KillStops DEF DestroyStops, Lease!Next
<1>18. ASSUME NEW v \in VMs, VMMDies(v) PROVE Lease!Next \/ UNCHANGED Lease!vars
  <2>1. PICK r \in Requests, k \in Kinds : v = <<r, k>>
    BY DEF VMs
  <2>2. Holders' = Holders /\ proc' = [proc EXCEPT ![<<r, k>>] = "exited"]
    BY <1>18, <2>1 DEF VMMDies, Holders
  <2>3. CASE proc[v] = "running"
    <3>1. Lease!Stop(r)
      BY <2>1, <2>2, <2>3, LiveShrinks DEF Lease!Stop
    <3> QED BY <3>1 DEF Lease!Next
  <2>4. CASE proc[v] # "running"
    <3>1. \A q \in Requests, j \in Kinds : proc'[<<q, j>>] = "running" <=> proc[<<q, j>>] = "running"
      BY <2>1, <2>2, <2>4 DEF TypeOK, VMs
    <3> QED BY <2>2, <3>1 DEF LiveRequests, Lease!vars
  <2> QED BY <2>3, <2>4
<1>19. CASE ShutdownStarts \/ WardenExits \/ UNCHANGED vars
  BY <1>19 DEF ShutdownStarts, WardenExits, vars, hostVars, Holders, LiveRequests, Lease!vars
<1> QED
  BY <1>1, <1>2, <1>3, <1>4, <1>5, <1>6, <1>7, <1>8, <1>9, <1>10, <1>11, <1>12, <1>13, <1>14, <1>15, <1>16, <1>17, <1>18, <1>19 DEF Next, Step

\* The gate keeps its promise: at most SemCap leases, a VMM runs only under a
\* lease, and a lease comes back only after its VMM was stopped.
THEOREM GateImplementsLease == Spec => LeaseSpec
<1>1. Init => Lease!Init
  <2> SUFFICES ASSUME Init PROVE Holders = {} /\ LiveRequests = {}
    BY DEF Lease!Init
  <2>1. Holders = {}
    BY Labels DEF Init, Holders
  <2>2. LiveRequests = {}
    BY DEF Init, LiveRequests, VMs
  <2> QED BY <2>1, <2>2
<1> QED BY <1>1, LeaseStep, Invariance, PTL DEF Spec, LeaseSpec, Lease!Spec

\* The invariant of the requests holds with IInv in every reachable state.
THEOREM Accounts == Spec => [](IInv /\ LInv)
<1>1. IInv /\ LInv /\ [Next]_vars => LInv'
  BY LInvStep DEF IInv
<1>q. QED
  BY <1>1, LInvInit, Invariance, PTL DEF Spec

\* When the client gets its answer no attempt has a running VMM or a link, and an
\* instance that Boot returned has exited and left neither directory nor cgroup.
THEOREM TeardownComesFirst == Spec => []AnsweredAfterTeardown
<1>1. IInv /\ LInv => AnsweredAfterTeardown
  <2> SUFFICES ASSUME IInv, LInv, NEW r \in Requests, pc[r] \in {"respond", "done"}, NEW k \in Kinds
               PROVE  /\ proc[<<r, k>>] # "running" /\ <<r, k>> \notin links
                      /\ <<r, k>> \in ready =>
                           proc[<<r, k>>] = "exited" /\ <<r, k>> \notin workDirs \cup cgroups
    BY DEF AnsweredAfterTeardown
  <2>1. proc[<<r, k>>] # "running"
    BY Labels DEF IInv, RunningHasOwner
  <2>2. Left(r) /\ pc[r] \in Over
    BY DEF LInv, Over
  <2>q. QED
    BY <2>1, <2>2, Ends DEF Left
<1>q. QED
  BY <1>1, Accounts, PTL

\* mapExecError: 429 means that the host was never touched, 200 that a microVM was ready.
THEOREM StatusIsTrue == Spec => []StatusTellsWhatRan
<1>1. LInv => StatusTellsWhatRan
  BY DEF LInv, Told, Delivered, TurnedAway, Untouched, StatusTellsWhatRan
<1>q. QED
  BY <1>1, Accounts, PTL
-----------------------------------------------------------------------------
(* Progress: what the liveness of Lifecycle rests on beside the fairness of *)
(* the goroutines.                                                          *)

\* The labels that follow one another whatever the kind of the attempt.
Forward ==
  {<<"idle", "queued">>, <<"queued", "boot">>, <<"queued", "respond">>, <<"boot", "refused">>,
   <<"refused", "respond">>, <<"exec", "snap">>, <<"exec", "destroy">>, <<"snap", "destroy">>,
   <<"destroy", "reap">>, <<"reap", "release">>, <<"release", "respond">>, <<"respond", "done">>}

\* The ways a request moves.
Moved(r) ==
  \/ kind'[r] = kind[r] /\ <<pc[r], pc'[r]>> \in Forward
  \/ /\ kind'[r] = kind[r] /\ pc[r] \in Stages /\ pc'[r] = StageAfter(kind[r], pc[r])
     /\ pc[r] = "spawn" => proc'[VM(r)] = "running"
  \/ kind'[r] = kind[r] /\ pc[r] = "dirs" /\ pc'[r] = FirstStage(kind[r])
  \/ /\ kind'[r] = kind[r] /\ pc[r] \in Stages \cup {"dirs"}
     /\ pc'[r] = IF kind[r] = "restore" THEN "fallback" ELSE "refused"
  \/ pc[r] = "boot" /\ pc'[r] = "dirs" /\ kind'[r] \in Kinds
  \/ pc[r] = "fallback" /\ pc'[r] = "dirs" /\ kind'[r] = "cold"

\* Every step of a request moves it in one of them.
LEMMA Moves ==
  ASSUME TypeOK, NEW r \in Requests, Arrive(r) \/ Step(r)
  PROVE  Moved(r)
<1>0. /\ r \in DOMAIN pc /\ r \in DOMAIN kind /\ kind[r] \in Kinds
      /\ \A l : Goto(r, l) => pc'[r] = l
  BY DEF TypeOK, Goto
<1>1. CASE Arrive(r) \/ GateAcquire(r) \/ GateRefuse(r) \/ GateRelease(r) \/ MaybeSnapshot(r)
           \/ DestroyStops(r) \/ DestroyCleans(r)
  <2>1. kind' = kind
    BY <1>1 DEF Arrive, GateAcquire, GateRefuse, GateRelease, MaybeSnapshot, DestroyStops, DestroyCleans
  <2>2. \E e \in Forward : pc[r] = e[1] /\ Goto(r, e[2])
    BY <1>1 DEF Arrive, GateAcquire, GateRefuse, GateRelease, MaybeSnapshot, DestroyStops, DestroyCleans,
                At, Forward
  <2>3. <<pc[r], pc'[r]>> \in Forward
    BY <1>0, <2>2 DEF Forward
  <2>q. QED
    BY <2>1, <2>3 DEF Moved
<1>2. CASE GateGiveUp(r) \/ ExecReplies(r) \/ ExecTimesOut(r) \/ ExecFails(r) \/ Respond(r)
  <2>1. kind' = kind
    BY <1>2 DEF GateGiveUp, ExecReplies, ExecTimesOut, ExecFails, Respond
  <2>2. \E e \in Forward : pc[r] = e[1] /\ Goto(r, e[2])
    BY <1>2 DEF GateGiveUp, ExecReplies, ExecTimesOut, ExecFails, Respond, Finish, At, Forward
  <2>3. <<pc[r], pc'[r]>> \in Forward
    BY <1>0, <2>2 DEF Forward
  <2>q. QED
    BY <2>1, <2>3 DEF Moved
<1>3. CASE BootChooses(r)
  <2>1. pc[r] = "boot"
    BY <1>3 DEF BootChooses, At
  <2>2. CASE Goto(r, "refused") /\ kind' = kind
    BY <1>0, <2>1, <2>2 DEF Moved, Forward
  <2>3. CASE \E k \in Kinds : Attempt(r, k)
    BY <1>0, <2>1, <2>3 DEF Moved, Attempt
  <2>q. QED
    BY <1>3, <2>2, <2>3 DEF BootChooses, Finish, Kinds
<1>4. CASE Fallback(r)
  BY <1>0, <1>4 DEF Fallback, Attempt, At, Moved
<1>5. CASE (BootDirs(r) \/ LaunchFails(r)) /\ AttemptFails(r)
  <2>1. kind' = kind /\ pc[r] \in Stages \cup {"dirs"}
    BY <1>5 DEF BootDirs, LaunchFails, At, AtStage
  <2>2. pc'[r] = IF kind[r] = "restore" THEN "fallback" ELSE "refused"
    BY <1>0, <1>5 DEF AttemptFails, Finish
  <2>q. QED
    BY <2>1, <2>2 DEF Moved
<1>6. CASE BootDirs(r) /\ ~AttemptFails(r)
  <2>1. kind' = kind /\ pc[r] = "dirs" /\ Goto(r, FirstStage(kind[r]))
    BY <1>6 DEF BootDirs, At
  <2>q. QED
    BY <1>0, <2>1 DEF Moved
<1>7. CASE LaunchStage(r)
  <2>1. kind' = kind /\ pc[r] \in Stages /\ Goto(r, StageAfter(kind[r], pc[r]))
    BY <1>7 DEF LaunchStage, AtStage
  <2>2. ASSUME pc[r] = "spawn" PROVE proc'[VM(r)] = "running"
    <3>1. proc' = [proc EXCEPT ![VM(r)] = "running"] /\ VM(r) \in VMs
      BY <1>0, <1>7, <2>2 DEF LaunchStage, Spawned, VM, VMs
    <3>q. QED
      BY <3>1 DEF TypeOK
  <2>q. QED
    BY <1>0, <2>1, <2>2 DEF Moved
<1>8. LaunchFails(r) => AttemptFails(r)
  BY DEF LaunchFails
<1>q. QED
  BY <1>1, <1>2, <1>3, <1>4, <1>5, <1>6, <1>7, <1>8 DEF Step

\* The label after is nearer to the answer, whichever way the request moves.
LEMMA Nearer ==
  ASSUME TypeOK, NEW r \in Requests, Moved(r)
  PROVE  StepsLeft(pc'[r], kind'[r]) < StepsLeft(pc[r], kind[r])
<1>0. kind[r] \in Kinds
  BY DEF TypeOK
<1>1. CASE kind'[r] = kind[r] /\ <<pc[r], pc'[r]>> \in Forward
  <2>1. \A k \in Kinds : \A e \in Forward : StepsLeft(e[2], k) < StepsLeft(e[1], k)
    BY DEF Kinds, Forward, StepsLeft
  <2>2. /\ <<pc[r], pc'[r]>>[1] = pc[r]
        /\ <<pc[r], pc'[r]>>[2] = pc'[r]
    OBVIOUS
  <2>q. QED
    BY <1>0, <1>1, <2>1, <2>2
<1>2. CASE kind'[r] = kind[r] /\ pc[r] \in Stages /\ pc'[r] = StageAfter(kind[r], pc[r])
  <2>1. \A k \in Kinds, s \in Stages : StepsLeft(StageAfter(k, s), k) < StepsLeft(s, k)
    BY SMTT(20) DEF Kinds, Stages, StageAfter, FirstStage, StepsLeft
  <2>q. QED
    BY <1>0, <1>2, <2>1
<1>3. CASE kind'[r] = kind[r] /\ pc[r] = "dirs" /\ pc'[r] = FirstStage(kind[r])
  BY <1>0, <1>3 DEF Kinds, FirstStage, StepsLeft
<1>4. CASE kind'[r] = kind[r] /\ pc[r] \in Stages \cup {"dirs"}
           /\ pc'[r] = IF kind[r] = "restore" THEN "fallback" ELSE "refused"
  <2>1. \A s \in Stages \cup {"dirs"} : StepsLeft(s, "restore") > 17 /\ StepsLeft(s, "cold") > 2
    <3>1. \A s \in Stages : StepsLeft(s, "restore") > 17
      BY DEF Stages, FirstStage, StepsLeft
    <3>2. \A s \in Stages : StepsLeft(s, "cold") > 2
      BY DEF Stages, FirstStage, StepsLeft
    <3>3. StepsLeft("dirs", "restore") > 17 /\ StepsLeft("dirs", "cold") > 2
      BY DEF StepsLeft
    <3>q. QED
      BY <3>1, <3>2, <3>3
  <2>2. /\ StepsLeft("fallback", "restore") = 17
        /\ StepsLeft("refused", "cold") = 2
    BY DEF StepsLeft
  <2>3. CASE kind[r] = "restore"
    BY <1>4, <2>1, <2>2, <2>3
  <2>4. CASE kind[r] = "cold"
    BY <1>4, <2>1, <2>2, <2>4
  <2>q. QED
    BY <1>0, <2>3, <2>4 DEF Kinds
<1>5. CASE pc[r] = "boot" /\ pc'[r] = "dirs" /\ kind'[r] \in Kinds
  BY <1>5 DEF Kinds, StepsLeft
<1>6. CASE pc[r] = "fallback" /\ pc'[r] = "dirs" /\ kind'[r] = "cold"
  BY <1>6 DEF StepsLeft
<1>q. QED
  BY <1>1, <1>2, <1>3, <1>4, <1>5, <1>6 DEF Moved

\* A failed restore is followed by one cold boot and never by another restore: every
\* step of a request goroutine leaves fewer steps to the answer, and a step of
\* another request, a dying VMM or a shutdown leaves as many.
THEOREM NoRequestCircles == Spec => StepsDescend
<1>1. ASSUME TypeOK, [Next]_vars, NEW q \in Requests
      PROVE  \/ StepsLeft(pc'[q], kind'[q]) < StepsLeft(pc[q], kind[q])
             \/ UNCHANGED <<pc[q], kind[q]>>
  <2>1. ASSUME NEW r \in Requests, Arrive(r) \/ Step(r), q = r
        PROVE  StepsLeft(pc'[q], kind'[q]) < StepsLeft(pc[q], kind[q])
    BY <1>1, <2>1, Moves, Nearer
  <2>2. ASSUME NEW r \in Requests, Arrive(r) \/ Step(r), q # r
        PROVE  UNCHANGED <<pc[q], kind[q]>>
    BY <1>1, <2>2, OthersSame DEF Same
  <2>3. CASE (\E v \in VMs : VMMDies(v)) \/ ShutdownStarts \/ WardenExits \/ UNCHANGED vars
    <3>1. pc' = pc /\ kind' = kind
      BY <2>3 DEF VMMDies, ShutdownStarts, WardenExits, vars
    <3>q. QED
      BY <3>1
  <2>q. QED
    BY <1>1, <2>1, <2>2, <2>3 DEF Next
<1>2. TypeOK /\ [Next]_vars =>
        [\A r \in Requests :
           \/ StepsLeft(pc'[r], kind'[r]) < StepsLeft(pc[r], kind[r])
           \/ UNCHANGED <<pc[r], kind[r]>>]_vars
  BY <1>1
<1>q. QED
  BY <1>2, TypeCorrect, PTL DEF Spec, StepsDescend

\* From spawn to the end of Destroy the current attempt has a process.
Started == \A r \in Requests : pc[r] \in WithVMM \cup {"reap"} => proc[VM(r)] # "none"

\* A process, once started, is never again one that was not.
LEMMA NeverUnstarted ==
  ASSUME TypeOK, [Next]_vars, NEW v \in VMs, proc[v] # "none"
  PROVE  proc'[v] # "none"
<1>1. \/ proc' = proc
      \/ \E w : proc' \in {Spawned(w), Killed(w), [proc EXCEPT ![w] = "exited"]}
  BY ZenonT(40) DEF Next, Step, vars, hostVars, Arrive, GateAcquire, GateGiveUp, GateRefuse, GateRelease, BootChooses,
         Fallback, BootDirs, LaunchStage, LaunchFails, ExecReplies, ExecTimesOut, ExecFails, MaybeSnapshot,
         DestroyStops, DestroyCleans, Respond, VMMDies, ShutdownStarts, WardenExits
<1>q. QED
  BY <1>1 DEF TypeOK, Spawned, Killed

\* Every step keeps it: LaunchStage is the only way into WithVMM, from spawn.
LEMMA StartedStep ==
  ASSUME TypeOK, Started, [Next]_vars
  PROVE  Started'
<1> SUFFICES ASSUME NEW q \in Requests, pc'[q] \in WithVMM \cup {"reap"} PROVE proc'[VM(q)'] # "none"
  BY DEF Started
<1>0. VM(q) \in VMs
  BY DEF TypeOK, VM, VMs
<1>1. CASE UNCHANGED <<pc[q], kind[q]>>
  BY <1>0, <1>1, NeverUnstarted DEF Started, VM
<1>2. ASSUME Moved(q) PROVE proc'[VM(q)'] # "none"
  <2>1. kind'[q] = kind[q] /\ (pc[q] \in WithVMM \cup {"reap"} \/ proc'[VM(q)] = "running")
    <3>1. \A e \in Forward : e[2] \in WithVMM \cup {"reap"} => e[1] \in WithVMM \cup {"reap"}
      BY DEF Forward, WithVMM, Stages
    <3>2. \A k \in Kinds, s \in Stages : s # "spawn" /\ StageAfter(k, s) \in WithVMM \cup {"reap"} => s \in WithVMM
      BY DEF Kinds, Stages, StageAfter, WithVMM
    <3>3. \A k \in Kinds : FirstStage(k) \notin WithVMM \cup {"reap"}
      BY DEF FirstStage, WithVMM, Stages
    <3>4. {"dirs", "fallback", "refused"} \cap (WithVMM \cup {"reap"}) = {}
      BY DEF WithVMM, Stages
    <3>5. kind[q] \in Kinds /\ <<pc[q], pc'[q]>>[1] = pc[q] /\ <<pc[q], pc'[q]>>[2] = pc'[q]
      BY DEF TypeOK
    <3>q. QED
      BY <1>2, <3>1, <3>2, <3>3, <3>4, <3>5 DEF Moved
  <2>2. VM(q)' = VM(q)
    BY <2>1 DEF VM
  <2>q. QED
    BY <1>0, <2>1, <2>2, NeverUnstarted DEF Started
<1>3. ASSUME NEW r \in Requests, Arrive(r) \/ Step(r) PROVE UNCHANGED <<pc[q], kind[q]>> \/ Moved(q)
  BY <1>3, Moves, OthersSame DEF Same
<1>4. ASSUME (\E v \in VMs : VMMDies(v)) \/ ShutdownStarts \/ WardenExits \/ UNCHANGED vars
      PROVE  UNCHANGED <<pc[q], kind[q]>>
  <2>1. pc' = pc /\ kind' = kind
    BY <1>4 DEF VMMDies, ShutdownStarts, WardenExits, vars
  <2>q. QED
    BY <2>1
<1>q. QED
  BY <1>1, <1>2, <1>3, <1>4 DEF Next

\* Destroy's wait without a deadline is for a VMM that was started and that has
\* exited or was sent SIGKILL.
THEOREM DestroyWaitEnds == Spec => []ReapEnds
<1>1. Init => Started
  BY Labels DEF Init, Started
<1>2. IInv /\ Started /\ [Next]_vars => Started'
  BY StartedStep DEF IInv
<1>3. IInv /\ Started => ReapEnds
  <2> SUFFICES ASSUME IInv, Started, NEW r \in Requests, pc[r] = "reap"
               PROVE  proc[VM(r)] \in {"killed", "exited"}
    BY DEF ReapEnds
  <2>1. VM(r) \in VMs /\ kind[r] \in Kinds
    BY DEF IInv, TypeOK, VM, VMs
  <2>2. proc[VM(r)] \in {"none", "running", "killed", "exited"} /\ proc[VM(r)] # "none"
    BY <2>1 DEF IInv, TypeOK, Started
  <2>3. proc[VM(r)] # "running"
    BY <2>1, Labels DEF IInv, RunningHasOwner, VM
  <2>q. QED
    BY <2>2, <2>3
<1>q. QED
  BY <1>1, <1>2, <1>3, Invariance, PTL DEF Spec
=============================================================================
