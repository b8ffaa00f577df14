------------------------------ MODULE Session ------------------------------
(***************************************************************************)
(* One session of the snapshot store (internal/snapshot/store.go) and the  *)
(* requests that boot from it and save to it (Firecracker.Boot, launch and *)
(* launchRestore, maybeSnapshot and saveSnapshot).  A job stands for its   *)
(* effects: the content of a file, of a guest's memory or of its disk is   *)
(* the set of jobs whose effects it holds.  Slots, processes and links are *)
(* the subject of module Lifecycle.                                        *)
(***************************************************************************)
EXTENDS Naturals, FiniteSets

CONSTANTS Requests,  \* requests that name the session; each is a job
          Deployments, \* installations, each with the faults to expect
          Slots,     \* requests of the session in flight at once (WARDEN_MAX_VMS)
          None,      \* no such record or socket, the mark of a file that is not there
          Torn       \* the mark of a file of which only a part was written

ASSUME SessionConfig ==
  /\ IsFiniteSet(Requests)
  /\ Slots \in Nat \ {0}
  /\ \A d \in Deployments : /\ d.jailed \in BOOLEAN
                            /\ d.faults \subseteq {"timeout", "api", "export", "delete", "crash"}
ASSUME Marks ==
  None # Torn /\ {None, Torn} \cap Requests = {} /\ None \notin [gen : Nat, net : BOOLEAN]

VARIABLES deployment, \* a member of Deployments
          meta,      \* meta.json: the generation and network of the record, or None
          files,     \* the files of the session directory
          attached,  \* the microVMs whose disk is the store's rootfs.ext4
          sock,      \* v.sock of the session: the microVM that bound it, or None
          pc,        \* where each request is
          rec,       \* the Generation of the record the request holds
          ram,       \* content of the guest's memory
          disk,      \* content of the private disk of a jailed guest
          ran,       \* the jobs that ran in the request's microVM
          net,       \* the allowlist of this warden process is not empty
          committed  \* history: the jobs committed since the session was last reset

vmVars == <<ram, disk, ran>>
vars == <<deployment, meta, files, attached, sock, pc, rec, vmVars, net, committed>>

\* A jailer is configured: the VMM sees private copies.
Jailed == deployment.jailed
\* What may go wrong besides a failed boot.
Faults == deployment.faults

Files     == {"snap", "mem", "diff", "root"}
Absent    == {None}
Partial   == {Torn}
Contents  == (SUBSET Requests) \cup {Absent, Partial}
SaveSteps == {"pause", "create", "xsnap", "xmem", "rebase", "xroot", "commit"}
InFlight  == {"restore", "load", "discard", "cold", "exec", "destroy"} \cup SaveSteps
PCs       == {"idle", "done", "failed", "orphan", "lost"} \cup InFlight

Init ==
  /\ deployment \in Deployments
  /\ meta = None
  /\ files = [f \in Files |-> Absent]
  /\ attached = {} /\ sock = None
  /\ pc = [r \in Requests |-> "idle"]
  /\ rec = [r \in Requests |-> 0]
  /\ ram = [r \in Requests |-> {}]
  /\ disk = [r \in Requests |-> {}]
  /\ ran = [r \in Requests |-> {}]
  /\ net \in BOOLEAN
  /\ committed = {}

Goto(r, label) == pc' = [pc EXCEPT ![r] = label]

\* The job leaves its effects in a content.
Write(content, job) == IF content \in {Absent, Partial} THEN content ELSE content \cup {job}

-----------------------------------------------------------------------------
(* Boot.                                                                   *)

\* The gate lets a request of the session in.
Start(r) ==
  /\ pc[r] = "idle"
  /\ Cardinality({q \in Requests : pc[q] \in InFlight}) < Slots
  /\ Goto(r, "restore")
  /\ UNCHANGED <<deployment, meta, files, attached, sock, rec, vmVars, net, committed>>

\* Store.Restore and the switch of Boot: no record, a record with its files and
\* the same network, one with another network, one whose files are missing.
Restore(r) ==
  /\ pc[r] = "restore"
  /\ \/ meta = None /\ Goto(r, "cold") /\ UNCHANGED rec
     \/ /\ meta # None /\ files["snap"] # Absent /\ files["mem"] # Absent
        /\ Goto(r, IF meta.net = net THEN "load" ELSE "discard")
        /\ rec' = [rec EXCEPT ![r] = meta.gen]
     \/ /\ meta # None /\ (files["snap"] = Absent \/ files["mem"] = Absent)
        /\ Goto(r, "failed")
        /\ UNCHANGED rec
  /\ UNCHANGED <<deployment, meta, files, attached, sock, vmVars, net, committed>>

\* [mutant] the stale v.sock is not removed before the restore.
BoundIfFree(r) == IF Jailed \/ sock # None THEN UNCHANGED sock ELSE sock' = r

\* The path of the session socket is this microVM's.
Bound(r) == IF Jailed THEN UNCHANGED sock ELSE sock' = r

\* launchRestore: a jail gets copies of the three files; without one the guest
\* goes on with rootfs.ext4 of the store, and v.sock is removed before it is bound.
Load(r) ==
  /\ pc[r] = "load"
  /\ \A f \in {"snap", "mem", "root"} : files[f] # Absent
  /\ ram' = [ram EXCEPT ![r] = IF files["snap"] = files["mem"] THEN files["mem"] ELSE Partial]
  /\ disk' = [disk EXCEPT ![r] = IF Jailed THEN files["root"] ELSE @]
  /\ attached' = IF Jailed THEN attached ELSE attached \cup {r}
  /\ Bound(r)
  /\ Goto(r, "exec")
  /\ UNCHANGED <<deployment, meta, files, rec, ran, net, committed>>

\* [mutant] cleanupFiles only removes the work directory.
SockKept == UNCHANGED sock

\* cleanupFiles removes the session socket, whoever bound it.
SockRemoved == IF Jailed THEN UNCHANGED sock ELSE sock' = None

\* The restore fails (a missing rootfs, the VMM, the agent); bootOne cleans up.
LoadFails(r) ==
  /\ pc[r] = "load"
  /\ SockRemoved
  /\ Goto(r, "discard")
  /\ UNCHANGED <<deployment, meta, files, attached, rec, vmVars, net, committed>>

\* [mutant] Delete removes the image and forgets meta.json.
DiscardKeepsMeta(r) ==
  /\ pc[r] = "discard"
  /\ files' = [f \in Files |-> Absent]
  /\ attached' = {} /\ sock' = None /\ committed' = {}
  /\ Goto(r, "cold")
  /\ UNCHANGED <<deployment, meta, rec, vmVars, net>>

\* Store.Delete (its error is dropped) before the cold boot.  RemoveAll that
\* fails, or dies, has removed some of the entries.
Discard(r) ==
  /\ pc[r] = "discard"
  /\ \E gone \in IF "delete" \in Faults THEN SUBSET (Files \cup {"meta"}) ELSE {Files \cup {"meta"}} :
       /\ files' = [f \in Files |-> IF f \in gone THEN Absent ELSE files[f]]
       /\ meta' = IF "meta" \in gone THEN None ELSE meta
       /\ attached' = IF "root" \in gone THEN {} ELSE attached
  /\ sock' = None
  /\ committed' = {}
  /\ Goto(r, "cold")
  /\ UNCHANGED <<deployment, rec, vmVars, net>>

\* Store.Prepare: a record without a generation.
Prepared(r) == rec' = [rec EXCEPT ![r] = 0]

\* Prepare and launch.  Without a jail the golden image goes to rootfs.ext4 of
\* the store: a clone of the pool is renamed (a new file), a miss is copied over
\* what is there.  The VMM cannot bind a socket that exists.
ColdBoot(r) ==
  /\ pc[r] = "cold"
  /\ Prepared(r)
  /\ \/ /\ Jailed
        /\ UNCHANGED <<files, attached>>
     \/ /\ ~Jailed /\ sock = None
        /\ files' = [files EXCEPT !["root"] = {}]
        /\ attached' \in {{r}, attached \cup {r}}
  /\ Bound(r)
  /\ Goto(r, "exec")
  /\ UNCHANGED <<deployment, meta, vmVars, net, committed>>

\* A failed cold boot has placed the rootfs or not.
ColdFails(r) ==
  /\ pc[r] = "cold"
  /\ \/ UNCHANGED <<files, attached>>
     \/ ~Jailed /\ files' = [files EXCEPT !["root"] = {}] /\ attached' \in {{}, attached}
  /\ SockRemoved
  /\ Goto(r, "failed")
  /\ UNCHANGED <<deployment, meta, rec, vmVars, net, committed>>

-----------------------------------------------------------------------------
(* Execute.                                                                *)

\* The guest that hears the request: without a jail, whoever bound the path.
Heard(r) == IF Jailed THEN r ELSE sock
Hears(t) == t # None /\ pc[t] \in {"exec", "orphan"}

\* The job of r runs in the microVM t.
RunsIn(r, t) ==
  /\ ran' = [ran EXCEPT ![t] = @ \cup {r}]
  /\ ram' = [ram EXCEPT ![t] = Write(@, r)]
  /\ disk' = [disk EXCEPT ![t] = IF Jailed THEN Write(@, r) ELSE @]
  /\ files' = [files EXCEPT !["root"] = IF t \in attached THEN Write(@, r) ELSE @]

ExecReplies(r) ==
  /\ pc[r] = "exec"
  /\ Hears(Heard(r))
  /\ RunsIn(r, Heard(r))
  /\ Goto(r, "pause")
  /\ UNCHANGED <<deployment, meta, attached, sock, rec, net, committed>>

\* Dialling fails, or the deadline passes after the job did its work.  Both skip
\* maybeSnapshot.
ExecGivesUp(r) ==
  /\ pc[r] = "exec"
  /\ \/ UNCHANGED <<vmVars, files>>
     \/ "timeout" \in Faults /\ Hears(Heard(r)) /\ RunsIn(r, Heard(r))
  /\ Goto(r, "destroy")
  /\ UNCHANGED <<deployment, meta, attached, sock, rec, net, committed>>

-----------------------------------------------------------------------------
(* saveSnapshot.                                                           *)

Diff(r) == rec[r] > 0

\* [mutant] a Diff snapshot is committed without the rootfs.
StepAfterNoRootfs(r) ==
  CASE pc[r] = "pause"  -> "create"
    [] pc[r] = "create" -> IF Jailed THEN "xsnap" ELSE IF Diff(r) THEN "rebase" ELSE "commit"
    [] pc[r] = "xsnap"  -> "xmem"
    [] pc[r] = "xmem"   -> IF Diff(r) THEN "rebase" ELSE "xroot"
    [] OTHER            -> "commit"

\* The order of saveSnapshot; only a jail has files to export.
StepAfter(r) ==
  CASE pc[r] = "pause"  -> "create"
    [] pc[r] = "create" -> IF Jailed THEN "xsnap" ELSE IF Diff(r) THEN "rebase" ELSE "commit"
    [] pc[r] = "xsnap"  -> "xmem"
    [] pc[r] = "xmem"   -> IF Diff(r) THEN "rebase" ELSE "xroot"
    [] pc[r] = "rebase" -> IF Jailed THEN "xroot" ELSE "commit"
    [] OTHER            -> "commit"

\* [mutant] the file with the dirty pages takes the place of the base image.
OverlayRenames(base, diff) == diff

\* applySparseDiff: the dirty pages over the base image.
Overlay(base, diff) == IF Partial \in {base, diff} THEN Partial ELSE base \cup diff

\* What a step writes to the session directory.
Image(r) == IF Diff(r) THEN [diff |-> ran[r]] ELSE [mem |-> ram[r]]
Written(r) ==
  CASE pc[r] = "create" /\ ~Jailed -> [f \in {"snap"} \cup DOMAIN Image(r) |->
                                         IF f = "snap" THEN ram[r] ELSE Image(r)[f]]
    [] pc[r] = "xsnap"  -> [snap |-> ram[r]]
    [] pc[r] = "xmem"   -> Image(r)
    [] pc[r] = "rebase" -> [mem |-> Overlay(files["mem"], files["diff"]), diff |-> Absent]
    [] pc[r] = "xroot"  -> [root |-> disk[r]]
    [] OTHER            -> [f \in {} |-> Absent]

BaseMissing(r) == pc[r] = "rebase" /\ Absent \in {files["mem"], files["diff"]}

SaveStep(r) ==
  /\ pc[r] \in SaveSteps \ {"commit"}
  /\ ~BaseMissing(r)
  /\ files' = [f \in Files |-> IF f \in DOMAIN Written(r) THEN Written(r)[f] ELSE files[f]]
  /\ Goto(r, StepAfter(r))
  /\ UNCHANGED <<deployment, meta, attached, sock, rec, vmVars, net, committed>>

\* A write that stops half way leaves each of its files as it was or torn.
HalfWritten(r) ==
  LET half == {f \in DOMAIN Written(r) : Written(r)[f] # Absent}
  IN {[f \in Files |-> IF f \in torn THEN Partial ELSE files[f]] : torn \in SUBSET half}

\* A step returns an error; maybeSnapshot logs it and Execute goes on.
SaveFails(r) ==
  /\ pc[r] \in SaveSteps
  /\ \/ BaseMissing(r) /\ UNCHANGED files
     \/ /\ ~BaseMissing(r)
        /\ (IF pc[r] \in {"pause", "create"} THEN "api" ELSE "export") \in Faults
        /\ files' \in HalfWritten(r)
  /\ Goto(r, "destroy")
  /\ UNCHANGED <<deployment, meta, attached, sock, rec, vmVars, net, committed>>

\* Store.Commit refuses missing files and renames the new meta.json in place.
Commit(r) ==
  /\ pc[r] = "commit"
  /\ IF \A f \in {"snap", "mem", "root"} : files[f] # Absent
     THEN meta' = [gen |-> rec[r] + 1, net |-> net] /\ committed' = committed \cup {r}
     ELSE UNCHANGED <<meta, committed>>
  /\ Goto(r, "destroy")
  /\ UNCHANGED <<deployment, files, attached, sock, rec, vmVars, net>>

Destroy(r) ==
  /\ pc[r] = "destroy"
  /\ attached' = attached \ {r}
  /\ SockRemoved
  /\ Goto(r, "done")
  /\ UNCHANGED <<deployment, meta, files, rec, vmVars, net, committed>>

-----------------------------------------------------------------------------
(* The warden process dies and is started again, maybe with another policy.*)

\* A VMM has its own process group and outlives warden: one whose job was
\* running keeps its disk and its socket.  What was being written stays torn.
Crash ==
  /\ "crash" \in Faults
  /\ \E r \in Requests : pc[r] \in InFlight
  /\ pc' = [r \in Requests |-> IF pc[r] = "exec" THEN "orphan"
                               ELSE IF pc[r] \in InFlight THEN "lost" ELSE pc[r]]
  /\ \/ UNCHANGED files
     \/ \E r \in Requests : pc[r] \in SaveSteps /\ files' \in HalfWritten(r)
  /\ net' \in BOOLEAN
  /\ UNCHANGED <<deployment, meta, attached, sock, rec, vmVars, committed>>

\* The job of a guest that outlived warden writes its disk.
OrphanWrites(r) ==
  /\ pc[r] = "orphan"
  /\ RunsIn(r, r)
  /\ UNCHANGED <<deployment, meta, attached, sock, pc, rec, net, committed>>

Step(r) ==
  \/ Start(r) \/ Restore(r) \/ Load(r) \/ LoadFails(r) \/ Discard(r)
  \/ ColdBoot(r) \/ ColdFails(r) \/ ExecReplies(r) \/ ExecGivesUp(r)
  \/ SaveStep(r) \/ SaveFails(r) \/ Commit(r) \/ Destroy(r) \/ OrphanWrites(r)

Next == (\E r \in Requests : Step(r)) \/ Crash

Spec == Init /\ [][Next]_vars

-----------------------------------------------------------------------------
(* Properties.                                                             *)

\* Every variable has its type.
TypeOK ==
  /\ deployment \in Deployments
  /\ meta \in {None} \cup [gen : 1..Cardinality(Requests), net : BOOLEAN]
  /\ files \in [Files -> Contents]
  /\ attached \subseteq Requests
  /\ sock \in Requests \cup {None}
  /\ pc \in [Requests -> PCs]
  /\ rec \in [Requests -> 0..Cardinality(Requests)]
  /\ ram \in [Requests -> Contents]
  /\ disk \in [Requests -> Contents]
  /\ ran \in [Requests -> SUBSET Requests]
  /\ net \in BOOLEAN
  /\ committed \subseteq Requests

\* "SnapshotPath and MemoryPath are what Firecracker wrote; RootfsPath is the
\* dirty ext4 the snapshot's virtio-blk still points at" (store.go): the image a
\* restore loads is one moment of one guest, with exactly the jobs that were
\* committed since the session was reset, none lost and none uncommitted.
LoadsWhatWasCommitted ==
  \A r \in Requests : pc[r] = "load" => {files[f] : f \in {"snap", "mem", "root"}} = {committed}

\* The same where the code keeps it: with a jailer the microVM works on copies, so
\* neither a job that is cut off nor a failed boot, pause or snapshot touches the
\* image.  (Faults while the image is exported or deleted do.)
JailedLoadsWhatWasCommitted ==
  Jailed /\ Faults \cap {"export", "delete", "crash"} = {} => LoadsWhatWasCommitted

\* README: if the restore fails "se borra el snap y se hace cold boot".  A
\* request never finds a record without its files, which Boot answers with an
\* error, this time and every time after.
NeverBricked ==
  \A r \in Requests : pc[r] = "restore" /\ meta # None => Absent \notin {files["snap"], files["mem"]}

\* "Firecracker boots a disposable microVM per request" (firecracker.go): no
\* microVM runs the job of another request.
OwnMicroVM == \A r \in Requests : ran[r] \subseteq {r}

\* "A stale UDS blocks the next PUT /snapshot/load" (cleanupFiles): the socket
\* of the session belongs to a microVM in flight, or to one a crash left behind.
SockOwned ==
  sock # None => pc[sock] \in {"exec", "destroy", "orphan", "lost"} \cup SaveSteps

\* A jailer, one slot, and no fault while the image is exported or deleted.
Sealed == Slots = 1 /\ Jailed /\ Faults \cap {"export", "delete", "crash"} = {}

\* The memory and disk of a microVM that booted and is not destroyed yet.
GuestOf(r) ==
  IF Sealed /\ pc[r] \in {"exec", "destroy"} \cup SaveSteps
  THEN IF ram[r] = disk[r] THEN ram[r] ELSE Partial
  ELSE Absent

\* For its clients the session is then one value: although a snapshot replaces its
\* files one by one and every microVM works on copies, Session implements
\* SessionValue.  (In the other deployments the mapping is constant.)
Value == INSTANCE SessionValue WITH
           Jobs <- Requests, Gone <- Absent,
           value <- IF Sealed THEN committed ELSE {}, guest <- [r \in Requests |-> GuestOf(r)]
ValueSpec == Value!Spec
=============================================================================
