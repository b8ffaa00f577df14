----------------------------- MODULE Lifecycle -----------------------------
(***************************************************************************)
(* The life of POST /execute requests from the VM queue to the answer:     *)
(* Server.run (internal/api/execute.go) over Gate (internal/runtime/       *)
(* gate.go) over Firecracker.Boot, Execute and Destroy (internal/runtime/  *)
(* firecracker.go, fcsnap.go).  Every request is a goroutine; a VMM is a   *)
(* process that may exit at any time.  The state is what the host holds    *)
(* for each microVM: a slot, a process, a work directory, a network link   *)
(* and a cgroup.  What a snapshot stores is the subject of module Session. *)
(***************************************************************************)
EXTENDS Integers, FiniteSets

CONSTANTS Requests,        \* requests that passed authentication and validation
          MaxVMs,          \* WARDEN_MAX_VMS, as configured
          Jailed,          \* a jailer is configured
          HasNetwork,      \* the egress allowlist is not empty
          CgroupRequired,  \* Cgroup.Require: Boot fails when the cgroup cannot be set up
          AuditStrict      \* WARDEN_AUDIT_STRICT

ASSUME RequestsFinite == IsFiniteSet(Requests)
ASSUME ConfigTypes ==
  /\ MaxVMs \in Int
  /\ {Jailed, HasNetwork, CgroupRequired, AuditStrict} \subseteq BOOLEAN

VARIABLES phase,     \* of the warden process: serving, draining, exited
          pc,        \* where each request is
          sess,      \* the request names a session and a store is configured
          kind,      \* the boot attempt of a request: from a record or cold
          sem,       \* tokens in the channel Gate.sem
          proc,      \* the VMM process of each boot attempt
          workDirs,  \* work (or jail) directories that exist
          links,     \* TAP links that are set up
          cgroups,   \* cgroup directories that exist
          ready,     \* boot attempts whose bootOne returned an instance
          outcome,   \* what Server.run returned
          status     \* the HTTP status written, 0 before

gateVars  == <<sem>>
hostVars  == <<proc, workDirs, links, cgroups, ready>>
vars == <<phase, pc, sess, kind, gateVars, hostVars, outcome, status>>

Kinds == {"restore", "cold"}
VMs   == Requests \X Kinds

\* bootOne numbers its instances; a request makes at most one attempt of each kind.
VM(r) == <<r, kind[r]>>

\* make(chan struct{}, max) with max < 1 read as 1.
SemCap == IF MaxVMs < 1 THEN 1 ELSE MaxVMs

Stages   == {"paths", "tap", "spawn", "attach", "apisock", "configure", "start",
             "load", "vsock", "agent"}
InVM     == {"exec", "snap", "destroy", "reap", "release"}
Holding  == {"boot", "dirs", "fallback", "refused"} \cup Stages \cup InVM
PCs      == {"idle", "queued", "respond", "done"} \cup Holding
Outcomes == {"none", "result", "timedout", "iotimeout", "busy", "canceled",
             "deadline", "missing", "error"}

Init ==
  /\ phase = "serving"
  /\ pc = [r \in Requests |-> "idle"]
  /\ sess = [r \in Requests |-> FALSE]
  /\ kind = [r \in Requests |-> "cold"]
  /\ sem = 0
  /\ proc = [v \in VMs |-> "none"]
  /\ workDirs = {} /\ links = {} /\ cgroups = {} /\ ready = {}
  /\ outcome = [r \in Requests |-> "none"]
  /\ status = [r \in Requests |-> 0]

\* A goroutine runs as long as the process does.
At(r, label) == phase # "exited" /\ pc[r] = label
AtStage(r)   == phase # "exited" /\ pc[r] \in Stages
Goto(r, label) == pc' = [pc EXCEPT ![r] = label]
Finish(r, o, label) == outcome' = [outcome EXCEPT ![r] = o] /\ Goto(r, label)

-----------------------------------------------------------------------------
(* The queue of the gate.                                                  *)

\* handleExecute reaches run: the limits are valid, Boot enters the gate.
Arrive(r) ==
  /\ phase = "serving"
  /\ pc[r] = "idle"
  /\ \E s \in BOOLEAN : sess' = [sess EXCEPT ![r] = s]
  /\ Goto(r, "queued")
  /\ UNCHANGED <<phase, kind, gateVars, hostVars, outcome, status>>

\* select: the send on g.sem.
GateAcquire(r) ==
  /\ At(r, "queued")
  /\ sem < SemCap
  /\ sem' = sem + 1
  /\ Goto(r, "boot")
  /\ UNCHANGED <<phase, sess, kind, hostVars, outcome, status>>

\* select: the timer (ErrBusy), or ctx.Done (the client left; the deadline of
\* bootCtx lies behind the timer).
GateGiveUp(r) ==
  /\ At(r, "queued")
  /\ \E o \in {"busy", "canceled"} : Finish(r, o, "respond")
  /\ UNCHANGED <<phase, sess, kind, gateVars, hostVars, status>>

\* [mutant] a path that forgets <-g.sem.
FreedNever == sem

\* <-g.sem, after a failed Boot or from leasedInstance.release.
Freed == sem - 1

\* Gate.Boot got an error from Inner.Boot.
GateRefuse(r) ==
  /\ At(r, "refused")
  /\ sem' = Freed
  /\ Goto(r, "respond")
  /\ UNCHANGED <<phase, sess, kind, hostVars, outcome, status>>

\* The deferred release of leasedInstance.Destroy.
GateRelease(r) ==
  /\ At(r, "release")
  /\ sem' = Freed
  /\ Goto(r, "respond")
  /\ UNCHANGED <<phase, sess, kind, hostVars, outcome, status>>

-----------------------------------------------------------------------------
(* Firecracker.Boot.                                                       *)

Attempt(r, k) == kind' = [kind EXCEPT ![r] = k] /\ Goto(r, "dirs")

\* The checks of Boot and the switch on Snapshots.Restore.  A record whose
\* network does not match is deleted and the boot is cold.
BootChooses(r) ==
  /\ At(r, "boot")
  /\ \/ \E o \in {"missing", "error"} : Finish(r, o, "refused") /\ UNCHANGED kind
     \/ sess[r] /\ Attempt(r, "restore") /\ UNCHANGED outcome
     \/ Attempt(r, "cold") /\ UNCHANGED outcome
  /\ UNCHANGED <<phase, sess, gateVars, hostVars, status>>

\* bootOne returned an error: a restore falls back to a cold boot, a cold boot
\* fails Boot.
AttemptFails(r) ==
  IF kind[r] = "restore"
  THEN Goto(r, "fallback") /\ UNCHANGED outcome
  ELSE \E o \in {"error", "deadline"} : Finish(r, o, "refused")

\* Snapshots.Delete, then bootOne without a record.
Fallback(r) ==
  /\ At(r, "fallback")
  /\ Attempt(r, "cold")
  /\ UNCHANGED <<phase, sess, gateVars, hostVars, outcome, status>>

\* launch places the rootfs before the TAP, launchRestore after it.
FirstStage(k) == IF k = "cold" THEN "paths" ELSE "tap"

StageAfter(k, s) ==
  CASE s = "paths"            -> IF k = "cold" THEN "tap" ELSE "spawn"
    [] s = "tap"              -> IF k = "cold" THEN "spawn" ELSE "paths"
    [] s = "spawn"            -> "attach"
    [] s = "attach"           -> "apisock"
    [] s = "apisock"          -> IF k = "cold" THEN "configure" ELSE "load"
    [] s = "configure"        -> "start"
    [] s \in {"start", "load"} -> "vsock"
    [] s = "vsock"            -> "agent"
    [] OTHER                  -> "exec"

\* The head of bootOne: the work directory (the jail makes its own later) and,
\* for a cold session boot, Snapshots.Prepare, whose error returns as it is.
BootDirs(r) ==
  LET made == IF Jailed THEN workDirs ELSE workDirs \cup {VM(r)}
  IN /\ At(r, "dirs")
     /\ \/ workDirs' = made /\ Goto(r, FirstStage(kind[r])) /\ UNCHANGED outcome
        \/ ~Jailed /\ AttemptFails(r) /\ UNCHANGED workDirs
        \/ sess[r] /\ kind[r] = "cold" /\ AttemptFails(r) /\ workDirs' = made
     /\ UNCHANGED <<phase, sess, kind, gateVars, proc, links, cgroups, ready, status>>

\* whileAlive and waitForGuestAgent: a call the VMM must answer.  waitForSocket
\* only looks for the file.
NeedsVMM == {"configure", "start", "load", "agent"}

\* The command of spawnCmd is started, in a process group of its own.
Spawned(v) == [proc EXCEPT ![v] = "running"]

\* attachCgroup: without Cgroup.Require a cgroup that cannot be set up is skipped.
Attached(r) ==
  \/ cgroups' = cgroups \cup {VM(r)}
  \/ ~CgroupRequired /\ UNCHANGED cgroups

\* A stage of launch or launchRestore succeeds.
LaunchStage(r) ==
  LET s == pc[r]
  IN /\ AtStage(r)
     /\ s \in NeedsVMM => proc[VM(r)] = "running"
     /\ workDirs' = IF s = "paths" THEN workDirs \cup {VM(r)} ELSE workDirs
     /\ links' = IF s = "tap" /\ HasNetwork THEN links \cup {VM(r)} ELSE links
     /\ proc' = IF s = "spawn" THEN Spawned(VM(r)) ELSE proc
     /\ IF s = "attach" THEN Attached(r) ELSE UNCHANGED cgroups
     /\ ready' = IF s = "agent" THEN ready \cup {VM(r)} ELSE ready
     /\ Goto(r, StageAfter(kind[r], s))
     /\ UNCHANGED <<phase, sess, kind, gateVars, outcome, status>>

\* [mutant] the signal is never sent.
KilledNever(v) == proc

\* SIGKILL to the process group; it takes effect later (VMMDies).
Killed(v) == [proc EXCEPT ![v] = IF @ = "running" THEN "killed" ELSE @]

\* cleanupFiles after a failed launch.  A jail that fails half way is not yet
\* in inst.workDir and stays behind.
WorkDirsAfterFailure(r) ==
  IF Jailed /\ pc[r] = "paths" THEN {workDirs, workDirs \cup {VM(r)}}
                               ELSE {workDirs \ {VM(r)}}

\* The stages with nothing to do cannot fail.
MayFail(s) == (s = "tap" => HasNetwork) /\ (s = "attach" => CgroupRequired)

\* [mutant] bootOne returns the error without tapTeardown.
LaunchFailsKeepingTap(r) ==
  /\ AtStage(r)
  /\ MayFail(pc[r])
  /\ proc' = Killed(VM(r))
  /\ workDirs' \in WorkDirsAfterFailure(r)
  /\ AttemptFails(r)
  /\ UNCHANGED <<phase, sess, kind, gateVars, links, cgroups, ready, status>>

\* A stage fails: kill once there is a process, then bootOne's error path, which
\* tears the link down and removes the files but leaves the cgroup.
LaunchFails(r) ==
  /\ AtStage(r)
  /\ MayFail(pc[r])
  /\ proc' = Killed(VM(r))
  /\ links' = links \ {VM(r)}
  /\ workDirs' \in WorkDirsAfterFailure(r)
  /\ AttemptFails(r)
  /\ UNCHANGED <<phase, sess, kind, gateVars, cgroups, ready, status>>

-----------------------------------------------------------------------------
(* Execute and Destroy.                                                    *)

\* The guest answered; maybeSnapshot runs before Execute returns.
ExecReplies(r) ==
  /\ At(r, "exec")
  /\ proc[VM(r)] = "running"
  /\ Finish(r, "result", IF sess[r] THEN "snap" ELSE "destroy")
  /\ UNCHANGED <<phase, sess, kind, gateVars, hostVars, status>>

\* ReadResponse hits the deadline of the connection, which is the deadline of
\* ctx: whether ctx.Err() is already set when it is looked at is a race.
ExecTimesOut(r) ==
  /\ At(r, "exec")
  /\ \E o \in {"timedout", "iotimeout"} : Finish(r, o, "destroy")
  /\ UNCHANGED <<phase, sess, kind, gateVars, hostVars, status>>

\* Dialling, writing or reading fails.
ExecFails(r) ==
  /\ At(r, "exec")
  /\ \E o \in {"error", "deadline"} : Finish(r, o, "destroy")
  /\ UNCHANGED <<phase, sess, kind, gateVars, hostVars, status>>

\* maybeSnapshot, best effort and within its own budget.
MaybeSnapshot(r) ==
  /\ At(r, "snap")
  /\ Goto(r, "destroy")
  /\ UNCHANGED <<phase, sess, kind, gateVars, hostVars, outcome, status>>

\* [mutant] Destroy skips the process when the grace period is over.
DestroyStopsNothing(r) ==
  /\ At(r, "destroy")
  /\ Goto(r, "release")
  /\ UNCHANGED <<phase, sess, kind, gateVars, hostVars, outcome, status>>

\* SendCtrlAltDel: the VMM has exited by itself within two seconds (VMMDies), or
\* it is killed.
DestroyStops(r) ==
  /\ At(r, "destroy")
  /\ proc' = Killed(VM(r))
  /\ Goto(r, "reap")
  /\ UNCHANGED <<phase, sess, kind, gateVars, workDirs, links, cgroups, ready, outcome, status>>

\* [mutant] the work directory survives Destroy.
DestroyKeepsFiles(r) ==
  /\ At(r, "reap")
  /\ proc[VM(r)] = "exited"
  /\ cgroups' = cgroups \ {VM(r)}
  /\ links' = links \ {VM(r)}
  /\ Goto(r, "release")
  /\ UNCHANGED <<phase, sess, kind, gateVars, proc, workDirs, ready, outcome, status>>

\* i.wait() has no deadline; then cgroup, link and files go (an error of one
\* removal does not stop the next; here they succeed).
DestroyCleans(r) ==
  /\ At(r, "reap")
  /\ proc[VM(r)] = "exited"
  /\ cgroups' = cgroups \ {VM(r)}
  /\ links' = links \ {VM(r)}
  /\ workDirs' = workDirs \ {VM(r)}
  /\ Goto(r, "release")
  /\ UNCHANGED <<phase, sess, kind, gateVars, proc, ready, outcome, status>>

-----------------------------------------------------------------------------
(* The answer.                                                             *)

\* [mutant] an unknown error is reported as a full queue.
StatusOfBusyDefault(o) ==
  CASE o \in {"result", "timedout"} -> 200
    [] o = "missing"                -> 503
    [] o = "deadline"               -> 504
    [] OTHER                        -> 429

\* mapExecError.
StatusOf(o) ==
  CASE o \in {"result", "timedout"} -> 200
    [] o = "missing"                -> 503
    [] o = "busy"                   -> 429
    [] o = "deadline"               -> 504
    [] OTHER                        -> 500

\* recordAudit, then the response; a failed audit turns a result into 500 only
\* in strict mode.  The outcome is a local of the handler and ends with it.
Respond(r) ==
  /\ At(r, "respond")
  /\ \E audited \in BOOLEAN :
       status' = [status EXCEPT ![r] =
                    IF StatusOf(outcome[r]) = 200 /\ ~audited /\ AuditStrict
                    THEN 500 ELSE StatusOf(outcome[r])]
  /\ Finish(r, "none", "done")
  /\ UNCHANGED <<phase, sess, kind, gateVars, hostVars>>

-----------------------------------------------------------------------------
(* The VMM processes and the warden process.                               *)

\* A VMM exits by itself or under SIGKILL; the reap goroutine collects it.
VMMDies(v) ==
  /\ proc[v] \in {"running", "killed"}
  /\ proc' = [proc EXCEPT ![v] = "exited"]
  /\ UNCHANGED <<phase, pc, sess, kind, gateVars, workDirs, links, cgroups, ready, outcome, status>>

\* SIGTERM: http.Server.Shutdown stops accepting requests.
ShutdownStarts ==
  /\ phase = "serving"
  /\ phase' = "draining"
  /\ UNCHANGED <<pc, sess, kind, gateVars, hostVars, outcome, status>>

\* Shutdown returns when no request is in flight, or after ten seconds.  Then
\* main returns; the VMMs have process groups of their own.
WardenExits ==
  /\ phase = "draining"
  /\ phase' = "exited"
  /\ UNCHANGED <<pc, sess, kind, gateVars, hostVars, outcome, status>>

Step(r) ==
  \/ GateAcquire(r) \/ GateGiveUp(r) \/ GateRefuse(r) \/ GateRelease(r)
  \/ BootChooses(r) \/ Fallback(r) \/ BootDirs(r) \/ LaunchStage(r) \/ LaunchFails(r)
  \/ ExecReplies(r) \/ ExecTimesOut(r) \/ ExecFails(r) \/ MaybeSnapshot(r)
  \/ DestroyStops(r) \/ DestroyCleans(r) \/ Respond(r)

Next ==
  \/ \E r \in Requests : Arrive(r) \/ Step(r)
  \/ \E v \in VMs : VMMDies(v)
  \/ ShutdownStarts
  \/ WardenExits

Spec == Init /\ [][Next]_vars

\* Every wait of a request goroutine has a timeout except Destroy's wait for a
\* killed VMM, and the kernel delivers SIGKILL.
Fairness ==
  /\ \A r \in Requests : WF_vars(Step(r))
  /\ \A v \in VMs : WF_vars(proc[v] = "killed" /\ VMMDies(v))

FairSpec == Spec /\ Fairness

-----------------------------------------------------------------------------
(* Properties.                                                             *)

\* Every variable has its type; sem never exceeds the capacity of the channel.
TypeOK ==
  /\ phase \in {"serving", "draining", "exited"}
  /\ pc \in [Requests -> PCs]
  /\ sess \in [Requests -> BOOLEAN]
  /\ kind \in [Requests -> Kinds]
  /\ sem \in 0..SemCap
  /\ proc \in [VMs -> {"none", "running", "killed", "exited"}]
  /\ workDirs \subseteq VMs
  /\ links \subseteq VMs
  /\ cgroups \subseteq VMs
  /\ ready \subseteq VMs
  /\ outcome \in [Requests -> Outcomes]
  /\ status \in [Requests -> {0, 200, 429, 500, 503, 504}]

\* After spawn and before Destroy has stopped the VMM.
WithVMM == (Stages \ {"paths", "tap", "spawn"}) \cup {"exec", "snap", "destroy"}
Holders == {r \in Requests : pc[r] \in Holding}
LiveVMs == {v \in VMs : proc[v] = "running"}
LiveRequests == {r \in Requests : \E k \in Kinds : proc[<<r, k>>] = "running"}

\* Gate.Boot and leasedInstance.Destroy pair every send on g.sem with one
\* receive on every path (refused boot, fallback, timeout, error, destroy): the
\* tokens in the channel are exactly the requests between acquire and release.
SlotAccounting == sem = Cardinality(Holders)

\* The processes behind a failed boot, its fallback and Destroy: a VMM that was
\* not sent SIGKILL belongs to the current attempt of a request that is between
\* spawn and the end of Destroy, so it never outlives the slot.
RunningHasOwner ==
  \A r \in Requests, k \in Kinds :
    proc[<<r, k>>] = "running" => kind[r] = k /\ pc[r] \in WithVMM

\* "a bounded number of live instances" (gate.go): at most SemCap VMMs run, the
\* ones of failed restores and failed boots included.
LiveVMsBounded == Cardinality(LiveVMs) <= SemCap

\* When the client gets its answer the host has let go: no attempt of the
\* request has a running VMM or a link, and an instance that Boot returned has
\* exited and left neither a work directory nor a cgroup.  (A failed attempt may
\* leave both; see the README.)
AnsweredAfterTeardown ==
  \A r \in Requests : pc[r] \in {"respond", "done"} =>
    \A k \in Kinds :
      /\ proc[<<r, k>>] # "running" /\ <<r, k>> \notin links
      /\ <<r, k>> \in ready =>
           proc[<<r, k>>] = "exited" /\ <<r, k>> \notin workDirs \cup cgroups

\* 429 busy means the request never touched the host, and 200 that a microVM
\* was ready: mapExecError tells the errors of the queue, of Boot and of Execute
\* apart.
StatusTellsWhatRan ==
  \A r \in Requests :
    /\ status[r] = 429 => \A k \in Kinds : proc[<<r, k>>] = "none" /\ <<r, k>> \notin workDirs
    /\ status[r] = 200 => VM(r) \in ready

\* The gate's promise: Lifecycle implements VMLease.
Lease == INSTANCE VMLease WITH
           Clients <- Requests, Max <- SemCap,
           leases <- Holders, live <- LiveRequests
LeaseSpec == Lease!Spec

\* i.wait() in Destroy is the one wait without a deadline: it waits for a VMM that
\* was started, and that has exited or was sent SIGKILL.
ReapEnds == \A r \in Requests : pc[r] = "reap" => proc[VM(r)] \in {"killed", "exited"}

\* What is ahead of a request at label l, at most, in an attempt of kind k.  The
\* cold boot that follows a failed restore counts too.
StepsLeft(l, k) ==
  LET later == IF k = "restore" THEN 11 ELSE 0
  IN CASE l = "respond"               -> 1
       [] l \in {"release", "refused"} -> 2
       [] l = "reap"                  -> 3
       [] l = "destroy"               -> 4
       [] l = "snap"                  -> 5
       [] l = "exec"                  -> 6
       [] l = "agent"                 -> 7 + later
       [] l = "vsock"                 -> 8 + later
       [] l \in {"start", "load"}     -> 9 + later
       [] l = "configure"             -> 10 + later
       [] l = "apisock"               -> 11 + later
       [] l = "attach"                -> 12 + later
       [] l = "spawn"                 -> 13 + later
       [] l \in {"paths", "tap"}      -> (IF l = FirstStage(k) THEN 15 ELSE 14) + later
       [] l = "dirs"                  -> 16 + later
       [] l = "fallback"              -> 17
       [] l = "boot"                  -> 28
       [] l = "queued"                -> 29
       [] l = "idle"                  -> 30
       [] OTHER                       -> 0

\* "snapshot restore failed; cold boot" (firecracker.go) happens once: no request
\* goes in circles, whatever fails, and none is moved by the steps of another.  Every step
\* of its goroutine brings the answer nearer, which is at most 29 steps away when
\* the request enters the queue.
StepsDescend ==
  [][\A r \in Requests :
       \/ StepsLeft(pc'[r], kind'[r]) < StepsLeft(pc[r], kind[r])
       \/ UNCHANGED <<pc[r], kind[r]>>]_vars

\* Every request that entered the queue is answered, through whatever mix of
\* failed restores, failed boots and timeouts, unless warden exits first.  With
\* AnsweredAfterTeardown: no VMM is left behind and every slot comes back.
EveryRequestAnswered ==
  \A r \in Requests : pc[r] = "queued" ~> (pc[r] = "done" \/ phase = "exited")

\* "A completed guest run - including non-zero exit and timeout - is HTTP 200."
\* (internal/api/types.go): a job whose deadline passed while Execute waited for
\* the guest is answered 200 (unless a strict audit failed).  It fails: the
\* connection and ctx have the same deadline, and Execute may look at ctx too early.
JobTimeoutIsOK ==
  [][\A r \in Requests :
       ~AuditStrict /\ pc[r] = "respond" /\ pc'[r] = "done" /\ outcome[r] \in {"timedout", "iotimeout"}
         => status'[r] = 200]_vars
=============================================================================
