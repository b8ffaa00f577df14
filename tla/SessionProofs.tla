--------------------------- MODULE SessionProofs ---------------------------
(***************************************************************************)
(* Proofs about module Session, for any number of requests and any set of  *)
(* deployments.  SInv is about the store: a record is never older than the *)
(* requests that committed it and has its files.  VInv is about the socket *)
(* and the guest behind it.  Images is about what the files hold, where    *)
(* the requests of the session follow each other and the guests are jailed.*)
(***************************************************************************)
EXTENDS Session, FiniteSetTheorems, TLAPS

-----------------------------------------------------------------------------
(* Types and generations.                                                  *)

\* The requests that can no longer commit.
Ended == {q \in Requests : pc[q] \in {"destroy", "done", "failed", "orphan", "lost"}}

\* A generation is a commit, and a request commits at most once.
Counted ==
  /\ meta # None => meta.gen <= Cardinality(Ended)
  /\ \A r \in Requests : rec[r] <= Cardinality(Ended)

\* The marks of absent and of torn files are no contents.
LEMMA Marked == /\ Absent # Partial /\ Absent \notin SUBSET Requests /\ Partial \notin SUBSET Requests
                /\ {Absent, Partial} \subseteq Contents /\ SUBSET Requests \subseteq Contents
BY Marks DEF Absent, Partial, Contents

\* What a job leaves behind is a content, and neither makes nor removes a mark.
LEMMA WriteType ==
  ASSUME NEW c \in Contents, NEW job \in Requests
  PROVE  Write(c, job) \in Contents /\ (c # Absent => Write(c, job) # Absent)
BY Marked DEF Write, Contents

\* applySparseDiff of two files that are there.
LEMMA OverlayType ==
  ASSUME NEW b \in Contents \ {Absent}, NEW d \in Contents \ {Absent}
  PROVE  Overlay(b, d) \in Contents \ {Absent}
BY Marked DEF Overlay, Contents

\* What each step of saveSnapshot writes to the session directory.
LEMMA Writes ==
  ASSUME NEW r \in Requests
  PROVE  /\ DOMAIN Written(r) \subseteq Files
         /\ pc[r] \in {"pause", "commit"} \/ (pc[r] = "create" /\ Jailed) => DOMAIN Written(r) = {}
         /\ pc[r] = "create" /\ ~Jailed =>
              /\ DOMAIN Written(r) = {"snap", IF Diff(r) THEN "diff" ELSE "mem"}
              /\ Written(r)["snap"] = ram[r]
              /\ Diff(r) => Written(r)["diff"] = ran[r]
              /\ ~Diff(r) => Written(r)["mem"] = ram[r]
         /\ pc[r] = "xsnap" => DOMAIN Written(r) = {"snap"} /\ Written(r)["snap"] = ram[r]
         /\ pc[r] = "xmem" /\ Diff(r) => DOMAIN Written(r) = {"diff"} /\ Written(r)["diff"] = ran[r]
         /\ pc[r] = "xmem" /\ ~Diff(r) => DOMAIN Written(r) = {"mem"} /\ Written(r)["mem"] = ram[r]
         /\ pc[r] = "rebase" => /\ DOMAIN Written(r) = {"mem", "diff"}
                                /\ Written(r)["mem"] = Overlay(files["mem"], files["diff"])
                                /\ Written(r)["diff"] = Absent
         /\ pc[r] = "xroot" => DOMAIN Written(r) = {"root"} /\ Written(r)["root"] = disk[r]
<1>1. CASE pc[r] = "create" /\ ~Jailed
  BY <1>1 DEF Written, Image, Files
<1>2. CASE pc[r] = "xsnap"
  BY <1>2 DEF Written, Image, Files
<1>3. CASE pc[r] = "xmem"
  BY <1>3 DEF Written, Image, Files
<1>4. CASE pc[r] = "rebase"
  BY <1>4 DEF Written, Image, Files
<1>5. CASE pc[r] = "xroot"
  BY <1>5 DEF Written, Image, Files
<1>6. CASE pc[r] \notin {"xsnap", "xmem", "rebase", "xroot"} /\ ~(pc[r] = "create" /\ ~Jailed)
  BY <1>6 DEF Written, Image, Files
<1>q. QED
  BY <1>1, <1>2, <1>3, <1>4, <1>5, <1>6

-----------------------------------------------------------------------------
\* Where a request can go: it enters by the gate, and once it can no longer
\* commit it never can again.
LEMMA Moves ==
  ASSUME TypeOK, NEW r \in Requests, Step(r)
  PROVE  /\ \E l \in PCs : Goto(r, l)
         /\ pc[r] \in {"destroy", "done", "failed", "orphan", "lost"} =>
              pc'[r] \in {"destroy", "done", "failed", "orphan", "lost"}
         /\ pc'[r] \in InFlight => pc[r] \in InFlight \/ Start(r)
         /\ deployment' = deployment
<1> USE DEF Goto, PCs, InFlight, SaveSteps
<1>0. pc \in [Requests -> PCs]
  BY DEF TypeOK
<1>1. CASE Start(r)
  BY <1>0, <1>1 DEF Start
<1>2. CASE Restore(r)
  BY <1>0, <1>2 DEF Restore
<1>3. CASE Load(r)
  BY <1>0, <1>3 DEF Load
<1>4. CASE LoadFails(r)
  BY <1>0, <1>4 DEF LoadFails
<1>5. CASE Discard(r)
  BY <1>0, <1>5 DEF Discard
<1>6. CASE ColdBoot(r)
  BY <1>0, <1>6 DEF ColdBoot
<1>7. CASE ColdFails(r)
  BY <1>0, <1>7 DEF ColdFails
<1>8. CASE ExecReplies(r)
  BY <1>0, <1>8 DEF ExecReplies
<1>9. CASE ExecGivesUp(r)
  BY <1>0, <1>9 DEF ExecGivesUp
<1>10. CASE SaveStep(r)
  BY <1>0, <1>10 DEF SaveStep, StepAfter
<1>11. CASE SaveFails(r)
  BY <1>0, <1>11 DEF SaveFails
<1>12. CASE Commit(r)
  BY <1>0, <1>12 DEF Commit
<1>13. CASE Destroy(r)
  BY <1>0, <1>13 DEF Destroy
<1>14. CASE OrphanWrites(r)
  <2>1. Goto(r, "orphan") /\ pc[r] = "orphan" /\ pc' = pc /\ deployment' = deployment
    BY <1>0, <1>14 DEF OrphanWrites
  <2>q. QED
    BY <1>0, <2>1
<1>q. QED
  BY <1>1, <1>2, <1>3, <1>4, <1>5, <1>6, <1>7, <1>8, <1>9, <1>10, <1>11, <1>12, <1>13, <1>14 DEF Step

\* A crash ends every request in flight.
LEMMA CrashMoves ==
  ASSUME TypeOK, Crash
  PROVE  /\ pc' \in [Requests -> PCs]
         /\ \A r \in Requests : pc'[r] \notin InFlight
         /\ Ended \subseteq Ended'
         /\ deployment' = deployment
BY DEF TypeOK, Crash, PCs, InFlight, SaveSteps, Ended

\* The number of requests that can no longer commit grows, and by one with a commit.
LEMMA EndedGrows ==
  ASSUME TypeOK, [Next]_vars
  PROVE  /\ Cardinality(Ended) \in Nat /\ Cardinality(Ended') \in Nat
         /\ Cardinality(Ended) <= Cardinality(Ended')
         /\ Cardinality(Ended') <= Cardinality(Requests) /\ Cardinality(Requests) \in Nat
         /\ \A r \in Requests : Commit(r) => Cardinality(Ended) + 1 <= Cardinality(Ended')
<1>0. pc \in [Requests -> PCs]
  BY DEF TypeOK
<1>1. Ended \subseteq Ended'
  <2>1. ASSUME NEW r \in Requests, Step(r) PROVE Ended \subseteq Ended'
    BY <1>0, <2>1, Moves DEF Ended, Goto
  <2>2. CASE UNCHANGED vars
    BY <2>2 DEF vars, Ended
  <2>q. QED
    BY <2>1, <2>2, CrashMoves DEF Next
<1>2. /\ IsFiniteSet(Requests) /\ IsFiniteSet(Ended) /\ IsFiniteSet(Ended')
      /\ Ended' \subseteq Requests
  BY SessionConfig, FS_Subset DEF Ended
<1>3. ASSUME NEW r \in Requests, Commit(r)
      PROVE  Cardinality(Ended) + 1 <= Cardinality(Ended')
  <2>1. r \notin Ended /\ r \in Ended'
    BY <1>0, <1>3 DEF Commit, Goto, Ended
  <2>2. Ended \cup {r} \subseteq Ended'
    BY <1>1, <2>1
  <2>3. Cardinality(Ended \cup {r}) = Cardinality(Ended) + 1
    BY <1>2, <2>1, FS_AddElement
  <2>q. QED
    BY <1>2, <2>2, <2>3, FS_Subset
<1>q. QED
  BY <1>1, <1>2, <1>3, FS_Subset, FS_CardinalityType

-----------------------------------------------------------------------------
(* Types, and files that are there.                                        *)

\* No guest has a memory or a disk that is not there.
Solid == \A r \in Requests : ram[r] # Absent /\ disk[r] # Absent

Image3 == {"snap", "mem", "root"}

\* A record has its files, unless a Delete may stop half way.
Complete == "delete" \notin Faults /\ meta # None => \A f \in Image3 : files[f] # Absent

SInv == TypeOK /\ Counted /\ Solid /\ Complete

\* The files of the session are contents, and those of the image that were there
\* are still there.
FilesKept ==
  /\ files' \in [Files -> Contents]
  /\ \A f \in Image3 : files[f] # Absent => files'[f] # Absent

\* A job leaves its effects in contents.
LEMMA RunsType ==
  ASSUME TypeOK, Solid, NEW r \in Requests, NEW t \in Requests, RunsIn(r, t)
  PROVE  /\ ram' \in [Requests -> Contents] /\ disk' \in [Requests -> Contents]
         /\ ran' \in [Requests -> SUBSET Requests]
         /\ Solid' /\ FilesKept
<1>1. /\ files \in [Files -> Contents] /\ ram \in [Requests -> Contents]
      /\ disk \in [Requests -> Contents] /\ ran \in [Requests -> SUBSET Requests]
  BY DEF TypeOK
<1>2. ASSUME NEW c \in Contents
      PROVE  Write(c, r) \in Contents /\ (c # Absent => Write(c, r) # Absent)
  BY WriteType
<1>3. ram' \in [Requests -> Contents] /\ \A q \in Requests : ram'[q] # Absent
  BY <1>1, <1>2 DEF RunsIn, Solid
<1>4. disk' \in [Requests -> Contents] /\ \A q \in Requests : disk'[q] # Absent
  BY <1>1, <1>2 DEF RunsIn, Solid
<1>5. ran' \in [Requests -> SUBSET Requests]
  BY <1>1 DEF RunsIn
<1>6. FilesKept
  BY <1>1, <1>2 DEF RunsIn, FilesKept, Files, Image3
<1>q. QED
  BY <1>3, <1>4, <1>5, <1>6 DEF Solid, Absent

\* saveSnapshot replaces files by contents.
LEMMA SaveType ==
  ASSUME TypeOK, Solid, NEW r \in Requests, SaveStep(r)
  PROVE  FilesKept
<1>1. /\ files \in [Files -> Contents] /\ ram[r] \in Contents \ {Absent}
      /\ disk[r] \in Contents \ {Absent} /\ ran[r] \in Contents
  BY Marked DEF TypeOK, Solid
<1>2. ASSUME NEW f \in DOMAIN Written(r)
      PROVE  Written(r)[f] \in Contents /\ (f \in Image3 => Written(r)[f] # Absent)
  <2>1. CASE pc[r] = "rebase"
    <3>1. files["mem"] \in Contents \ {Absent} /\ files["diff"] \in Contents \ {Absent}
      BY <1>1, <2>1 DEF SaveStep, BaseMissing, Files
    <3>2. Overlay(files["mem"], files["diff"]) \in Contents \ {Absent}
      BY <3>1, OverlayType
    <3>q. QED
      BY <2>1, <3>2, Writes, Marked DEF Image3
  <2>2. CASE pc[r] = "create" /\ ~Jailed
    BY <1>1, <2>2, Writes DEF Image3
  <2>3. CASE pc[r] \in {"xsnap", "xmem", "xroot"}
    BY <1>1, <2>3, Writes DEF Image3
  <2>4. CASE pc[r] \in {"pause", "commit"} \/ (pc[r] = "create" /\ Jailed)
    BY <2>4, Writes
  <2>q. QED
    BY <2>1, <2>2, <2>3, <2>4 DEF SaveStep, SaveSteps
<1>3. files' = [f \in Files |-> IF f \in DOMAIN Written(r) THEN Written(r)[f] ELSE files[f]]
  BY DEF SaveStep
<1>q. QED
  BY <1>1, <1>2, <1>3 DEF FilesKept, Image3, Files

\* A file that is half written is there.
LEMMA HalfType ==
  ASSUME TypeOK, NEW r \in Requests, files' \in HalfWritten(r)
  PROVE  FilesKept
<1>1. PICK torn : files' = [f \in Files |-> IF f \in torn THEN Partial ELSE files[f]]
  BY DEF HalfWritten
<1>q. QED
  BY <1>1, Marked DEF FilesKept, TypeOK, Image3, Files

\* A generation counted by Ended is in its range.
LEMMA Ranges ==
  ASSUME TypeOK, Counted, [Next]_vars
  PROVE  /\ \A r \in Requests : rec[r] \in Nat /\ rec[r] <= Cardinality(Ended')
         /\ \A r \in Requests : Commit(r) => rec[r] + 1 <= Cardinality(Ended')
         /\ meta # None => meta.gen \in Nat \ {0} /\ meta.gen <= Cardinality(Ended') /\ meta.net \in BOOLEAN
         /\ 0 <= Cardinality(Ended')
         /\ \A n \in Nat : n <= Cardinality(Ended') => n \in 0 .. Cardinality(Requests)
<1>1. /\ Cardinality(Ended) \in Nat /\ Cardinality(Ended') \in Nat /\ Cardinality(Requests) \in Nat
      /\ Cardinality(Ended) <= Cardinality(Ended') /\ Cardinality(Ended') <= Cardinality(Requests)
      /\ \A r \in Requests : Commit(r) => Cardinality(Ended) + 1 <= Cardinality(Ended')
  BY EndedGrows
<1>2. \A r \in Requests : rec[r] \in Nat /\ rec[r] <= Cardinality(Ended)
  BY <1>1 DEF TypeOK, Counted
<1>3. meta # None => meta.gen \in Nat \ {0} /\ meta.gen <= Cardinality(Ended) /\ meta.net \in BOOLEAN
  BY <1>1 DEF TypeOK, Counted
<1>q. QED
  BY <1>1, <1>2, <1>3

\* The record, the copies of it and their generations.
RecordOK ==
  /\ meta \in {None} \cup [gen : 1 .. Cardinality(Requests), net : BOOLEAN]
  /\ rec \in [Requests -> 0 .. Cardinality(Requests)]
  /\ Counted

\* A request takes the generation of the record and commits the next one.
LEMMA RecordStep ==
  ASSUME TypeOK, Counted, [Next]_vars
  PROVE  RecordOK'
<1>1. /\ \A r \in Requests : rec[r] \in Nat /\ rec[r] <= Cardinality(Ended')
      /\ \A r \in Requests : Commit(r) => rec[r] + 1 <= Cardinality(Ended')
      /\ meta # None => meta.gen \in Nat \ {0} /\ meta.gen <= Cardinality(Ended') /\ meta.net \in BOOLEAN
      /\ 0 <= Cardinality(Ended')
      /\ \A n \in Nat : n <= Cardinality(Ended') => n \in 0 .. Cardinality(Requests)
  BY Ranges
<1>2. ASSUME UNCHANGED <<meta, rec>> PROVE RecordOK'
  BY <1>1, <1>2 DEF RecordOK, Counted, TypeOK
<1>3. ASSUME NEW r \in Requests, Restore(r) PROVE RecordOK'
  BY <1>1, <1>3 DEF Restore, RecordOK, Counted, TypeOK
<1>4. ASSUME NEW r \in Requests, Discard(r) PROVE RecordOK'
  BY <1>1, <1>4 DEF Discard, RecordOK, Counted, TypeOK
<1>5. ASSUME NEW r \in Requests, ColdBoot(r) PROVE RecordOK'
  BY <1>1, <1>5 DEF ColdBoot, Prepared, RecordOK, Counted, TypeOK
<1>6. ASSUME NEW r \in Requests, Commit(r) PROVE RecordOK'
  BY <1>1, <1>6 DEF Commit, RecordOK, Counted, TypeOK
<1>7. ASSUME NEW r \in Requests, Step(r) PROVE RecordOK' \/ UNCHANGED <<meta, rec>>
  BY <1>3, <1>4, <1>5, <1>6, <1>7 DEF Step, Start, Load, LoadFails, ColdFails, ExecReplies,
     ExecGivesUp, SaveStep, SaveFails, Destroy, OrphanWrites
<1>q. QED
  BY <1>2, <1>7 DEF Next, Crash, vars

\* The contents of files and guests.
ContentOK ==
  /\ files \in [Files -> Contents]
  /\ ram \in [Requests -> Contents] /\ disk \in [Requests -> Contents]
  /\ ran \in [Requests -> SUBSET Requests]
  /\ Solid

\* Files and guests hold contents, and no step but Delete takes a file away.
LEMMA ContentStep ==
  ASSUME TypeOK, Solid, [Next]_vars
  PROVE  ContentOK' /\ (FilesKept \/ \E r \in Requests : Discard(r))
<1>1. ContentOK
  BY DEF TypeOK, ContentOK
<1>2. ASSUME UNCHANGED <<ram, disk, ran>>, FilesKept PROVE ContentOK'
  BY <1>1, <1>2 DEF ContentOK, FilesKept, Solid, Absent
<1>3. ASSUME UNCHANGED files PROVE FilesKept
  BY <1>1, <1>3 DEF ContentOK, FilesKept
<1>4. ASSUME NEW r \in Requests, NEW t \in Requests, RunsIn(r, t) PROVE ContentOK' /\ FilesKept
  BY <1>4, RunsType DEF ContentOK, FilesKept
<1>5. ASSUME NEW r \in Requests, Load(r) PROVE ContentOK' /\ FilesKept
  <2>1. files["mem"] \in Contents \ {Absent} /\ files["root"] \in Contents \ {Absent}
    BY <1>1, <1>5 DEF Load, ContentOK, Files
  <2>2. ram' \in [Requests -> Contents] /\ \A q \in Requests : ram'[q] # Absent
    BY <1>1, <1>5, <2>1, Marked DEF Load, ContentOK, Solid
  <2>3. disk' \in [Requests -> Contents] /\ \A q \in Requests : disk'[q] # Absent
    BY <1>1, <1>5, <2>1 DEF Load, ContentOK, Solid
  <2>4. UNCHANGED <<files, ran>>
    BY <1>5 DEF Load
  <2>q. QED
    BY <1>1, <1>3, <2>2, <2>3, <2>4 DEF ContentOK, Solid, Absent
<1>6. ASSUME NEW r \in Requests, Discard(r) PROVE ContentOK'
  <2>1. files' \in [Files -> Contents] /\ UNCHANGED <<ram, disk, ran>>
    BY <1>1, <1>6, Marked DEF Discard, ContentOK, vmVars
  <2>q. QED
    BY <1>1, <2>1 DEF ContentOK, Solid, Absent
<1>7. ASSUME NEW r \in Requests, ColdBoot(r) \/ ColdFails(r) PROVE ContentOK' /\ FilesKept
  <2>1. UNCHANGED <<ram, disk, ran>> /\ (files' = files \/ files' = [files EXCEPT !["root"] = {}])
    BY <1>7 DEF ColdBoot, ColdFails, vmVars
  <2>q. QED
    BY <1>1, <1>2, <1>3, <2>1, Marked DEF ContentOK, FilesKept, Files, Image3
<1>8. ASSUME NEW r \in Requests, ExecReplies(r) \/ ExecGivesUp(r) \/ OrphanWrites(r)
      PROVE  ContentOK' /\ FilesKept
  <2>1. Hears(Heard(r)) => Heard(r) \in Requests
    BY DEF Hears, Heard, TypeOK
  <2>2. UNCHANGED <<ram, disk, ran, files>> \/ \E t \in Requests : RunsIn(r, t)
    BY <1>8, <2>1 DEF ExecReplies, ExecGivesUp, OrphanWrites, vmVars
  <2>q. QED
    BY <1>2, <1>3, <1>4, <2>2
<1>9. ASSUME NEW r \in Requests, SaveStep(r) \/ SaveFails(r) PROVE ContentOK' /\ FilesKept
  <2>1. UNCHANGED <<ram, disk, ran>> /\ (UNCHANGED files \/ SaveStep(r) \/ files' \in HalfWritten(r))
    BY <1>9 DEF SaveStep, SaveFails, vmVars
  <2>q. QED
    BY <1>2, <1>3, <2>1, SaveType, HalfType
<1>10. CASE Crash
  <2>1. /\ UNCHANGED <<ram, disk, ran>>
        /\ UNCHANGED files \/ \E r \in Requests : files' \in HalfWritten(r)
    BY <1>10 DEF Crash, vmVars
  <2>q. QED
    BY <1>2, <1>3, <2>1, HalfType
<1>11. ASSUME NEW r \in Requests,
              Start(r) \/ Restore(r) \/ LoadFails(r) \/ Commit(r) \/ Destroy(r)
       PROVE  ContentOK' /\ FilesKept
  <2>1. UNCHANGED <<ram, disk, ran, files>>
    BY <1>11 DEF Start, Restore, LoadFails, Commit, Destroy, vmVars
  <2>q. QED
    BY <1>2, <1>3, <2>1
<1>12. CASE UNCHANGED vars
  BY <1>2, <1>3, <1>12 DEF vars, vmVars
<1>q. QED
  BY <1>5, <1>6, <1>7, <1>8, <1>9, <1>10, <1>11, <1>12 DEF Next, Step

\* Disks, sockets and history are those of requests.
LEMMA NamesStep ==
  ASSUME TypeOK, [Next]_vars
  PROVE  /\ deployment' = deployment /\ pc' \in [Requests -> PCs]
         /\ attached' \subseteq Requests /\ sock' \in Requests \cup {None}
         /\ net' \in BOOLEAN /\ committed' \subseteq Requests
<1>1. /\ pc \in [Requests -> PCs] /\ attached \subseteq Requests /\ sock \in Requests \cup {None}
      /\ net \in BOOLEAN /\ committed \subseteq Requests
  BY DEF TypeOK
<1>2. ASSUME NEW r \in Requests, Step(r)
      PROVE  /\ attached' \subseteq Requests /\ sock' \in Requests \cup {None}
             /\ net' \in BOOLEAN /\ committed' \subseteq Requests
  BY <1>1, <1>2 DEF Step, Start, Restore, Load, Bound, LoadFails, SockRemoved, Discard, ColdBoot,
     ColdFails, ExecReplies, ExecGivesUp, SaveStep, SaveFails, Commit, Destroy, OrphanWrites
<1>3. ASSUME NEW r \in Requests, Step(r)
      PROVE  deployment' = deployment /\ pc' \in [Requests -> PCs]
  BY <1>1, <1>3, Moves DEF Goto
<1>4. CASE Crash
  BY <1>1, <1>4, CrashMoves DEF Crash
<1>5. CASE UNCHANGED vars
  BY <1>1, <1>5 DEF vars
<1>q. QED
  BY <1>2, <1>3, <1>4, <1>5 DEF Next

\* A new session has no record and no files.
LEMMA InitSInv == Init => SInv
<1> SUFFICES ASSUME Init PROVE SInv
  OBVIOUS
<1>1. Ended = {} /\ Cardinality(Ended) = 0 /\ Cardinality(Requests) \in Nat
  BY SessionConfig, FS_EmptySet, FS_CardinalityType DEF Init, Ended
<1>2. TypeOK
  BY <1>1, Marked DEF Init, TypeOK, PCs
<1>3. Counted /\ Solid /\ Complete
  BY <1>1, Marked DEF Init, Counted, Solid, Complete
<1>q. QED
  BY <1>2, <1>3 DEF SInv

\* The only step that takes files of the image away takes the record with it.
LEMMA CompleteStep ==
  ASSUME SInv, [Next]_vars
  PROVE  Complete'
<1>0. TypeOK /\ Solid /\ Complete /\ Faults' = Faults
  BY NamesStep DEF SInv, Faults
<1>1. CASE FilesKept
  <2>1. ASSUME UNCHANGED meta PROVE Complete'
    BY <1>0, <1>1, <2>1 DEF Complete, FilesKept, Image3
  <2>2. ASSUME NEW r \in Requests, Commit(r), meta' # meta PROVE Complete'
    BY <1>0, <1>1, <2>2 DEF Commit, Complete, FilesKept, Image3
  <2>3. ASSUME NEW r \in Requests, Discard(r), meta' # meta PROVE Complete'
    BY <2>3 DEF Discard, Complete
  <2>4. ASSUME NEW r \in Requests, Step(r) PROVE UNCHANGED meta \/ Commit(r) \/ Discard(r)
    BY <2>4 DEF Step, Start, Restore, Load, LoadFails, ColdBoot, ColdFails, ExecReplies,
       ExecGivesUp, SaveStep, SaveFails, Destroy, OrphanWrites
  <2>q. QED
    BY <2>1, <2>2, <2>3, <2>4 DEF Next, Crash, vars
<1>2. ASSUME NEW r \in Requests, Discard(r) PROVE Complete'
  BY <1>0, <1>2 DEF Discard, Complete
<1>q. QED
  BY <1>0, <1>1, <1>2, ContentStep

\* Every step keeps the types and the files of the record.
LEMMA NextSInv == SInv /\ [Next]_vars => SInv'
<1> SUFFICES ASSUME SInv, [Next]_vars PROVE SInv'
  OBVIOUS
<1>1. RecordOK' /\ ContentOK' /\ Complete'
  BY RecordStep, ContentStep, CompleteStep DEF SInv
<1>2. /\ deployment' = deployment /\ pc' \in [Requests -> PCs]
      /\ attached' \subseteq Requests /\ sock' \in Requests \cup {None}
      /\ net' \in BOOLEAN /\ committed' \subseteq Requests
  BY NamesStep DEF SInv
<1>3. TypeOK'
  BY <1>1, <1>2 DEF SInv, TypeOK, RecordOK, ContentOK
<1>q. QED
  BY <1>1, <1>3 DEF SInv, RecordOK, ContentOK

\* The invariant behind the next two theorems.
THEOREM StoreInvariance == Spec => []SInv
BY InitSInv, NextSInv, PTL DEF Spec

\* The state of Session is well typed; in particular the generation of a record
\* never exceeds the number of requests, each of which commits at most once.
THEOREM TypeCorrect == Spec => []TypeOK
<1>1. SInv => TypeOK
  BY DEF SInv
<1>q. QED
  BY <1>1, StoreInvariance, PTL

\* Unless Delete stops half way, a request never finds a record whose vm.snap or
\* vm.mem is missing, for any number of requests at once, with crashes and with
\* failing exports.
THEOREM NoBrick == Spec => []("delete" \notin Faults => NeverBricked)
<1>1. SInv => ("delete" \notin Faults => NeverBricked)
  BY DEF SInv, Complete, NeverBricked, Image3
<1>q. QED
  BY <1>1, StoreInvariance, PTL

-----------------------------------------------------------------------------
(* The socket of the session and the guest behind it.                      *)

\* One slot is for one request.
Alone == Slots = 1 => \A q, r \in Requests : pc[q] \in InFlight /\ pc[r] \in InFlight => q = r

\* A jailed VMM binds a socket of its own.
JailedSock == Jailed => sock = None

\* Without a jailer, but with one slot, a guest hears its own path.
OwnSock == Slots = 1 /\ ~Jailed => \A r \in Requests : pc[r] = "exec" => sock = r

OwnVM == Slots = 1 \/ Jailed => OwnMicroVM

VInv == Alone /\ JailedSock /\ SockOwned /\ OwnSock /\ OwnVM

\* The gate lets nobody in next to a request in flight.
LEMMA GateAlone ==
  ASSUME Slots = 1, NEW r \in Requests, Start(r), NEW q \in Requests
  PROVE  pc[q] \notin InFlight
<1> DEFINE B == {p \in Requests : pc[p] \in InFlight}
<1>1. IsFiniteSet(B)
  BY SessionConfig, FS_Subset
<1>2. Cardinality(B) \in Nat /\ Cardinality(B) < 1
  BY <1>1, FS_CardinalityType DEF Start
<1>3. B = {}
  BY <1>1, <1>2, FS_EmptySet
<1>q. QED
  BY <1>3

\* Requests of a session with one slot follow each other.
LEMMA AloneStep ==
  ASSUME TypeOK, Alone, [Next]_vars
  PROVE  Alone'
<1>0. pc \in [Requests -> PCs]
  BY DEF TypeOK
<1>2. ASSUME NEW r \in Requests, Step(r) PROVE Alone'
  BY <1>0, <1>2, GateAlone, Moves DEF Alone, Goto
<1>3. CASE Crash
  BY <1>3, CrashMoves DEF Alone
<1>4. CASE UNCHANGED vars
  BY <1>4 DEF vars, Alone
<1>q. QED
  BY <1>2, <1>3, <1>4 DEF Next

\* Load and ColdBoot bind the socket, the end of the microVM removes it.
LEMMA SockStep ==
  ASSUME TypeOK, VInv, [Next]_vars
  PROVE  JailedSock' /\ SockOwned' /\ OwnSock'
<1>0. /\ pc \in [Requests -> PCs] /\ sock \in Requests \cup {None}
      /\ None \notin Requests /\ Jailed' = Jailed
  BY Marks, NamesStep DEF TypeOK, Jailed
<1>i. /\ Slots = 1 => \A q, r \in Requests : pc[q] \in InFlight /\ pc[r] \in InFlight => q = r
      /\ Jailed => sock = None
      /\ sock # None => pc[sock] \in {"exec", "destroy", "orphan", "lost"} \cup SaveSteps
      /\ Slots = 1 /\ ~Jailed => \A r \in Requests : pc[r] = "exec" => sock = r
  BY DEF VInv, Alone, JailedSock, SockOwned, OwnSock
<1> USE DEF JailedSock, SockOwned, OwnSock
<1>1. ASSUME NEW r \in Requests, Load(r) \/ ColdBoot(r) PROVE JailedSock' /\ SockOwned' /\ OwnSock'
  <2>1. /\ pc' = [pc EXCEPT ![r] = "exec"] /\ pc[r] \in InFlight
        /\ sock' = IF Jailed THEN sock ELSE r
    BY <1>1 DEF Load, ColdBoot, Bound, Goto, InFlight
  <2>q. QED
    BY <1>0, <1>i, <2>1 DEF InFlight
<1>2. ASSUME NEW r \in Requests, LoadFails(r) \/ ColdFails(r) \/ Destroy(r) \/ Discard(r)
      PROVE  JailedSock' /\ SockOwned' /\ OwnSock'
  <2>1. /\ \E l \in {"discard", "failed", "done", "cold"} : pc' = [pc EXCEPT ![r] = l]
        /\ pc[r] \in InFlight /\ sock' = None
    BY <1>0, <1>2, <1>i DEF LoadFails, ColdFails, Destroy, Discard, SockRemoved, Goto, InFlight
  <2>q. QED
    BY <1>0, <1>i, <2>1 DEF InFlight
<1>3. ASSUME NEW r \in Requests,
             Start(r) \/ Restore(r) \/ ExecReplies(r) \/ ExecGivesUp(r) \/ SaveStep(r) \/ SaveFails(r)
               \/ Commit(r)
      PROVE  JailedSock' /\ SockOwned' /\ OwnSock'
  <2>1. /\ \E l \in PCs \ {"exec"} : pc' = [pc EXCEPT ![r] = l] /\
            (pc[r] \in {"exec", "destroy", "orphan", "lost"} \cup SaveSteps =>
               l \in {"exec", "destroy", "orphan", "lost"} \cup SaveSteps)
        /\ sock' = sock
    BY <1>3 DEF Start, Restore, ExecReplies, ExecGivesUp, SaveStep, SaveFails, Commit, Goto, StepAfter,
       PCs, InFlight, SaveSteps
  <2>q. QED
    BY <1>0, <1>i, <2>1
<1>4. CASE Crash
  BY <1>0, <1>4, <1>i DEF Crash, InFlight, SaveSteps
<1>5. ASSUME UNCHANGED <<pc, sock>> PROVE JailedSock' /\ SockOwned' /\ OwnSock'
  BY <1>0, <1>i, <1>5
<1>q. QED
  BY <1>1, <1>2, <1>3, <1>4, <1>5 DEF Next, Step, OrphanWrites, vars

\* The guest that hears a request is its own.
LEMMA OwnVMStep ==
  ASSUME TypeOK, VInv, [Next]_vars
  PROVE  OwnVM'
<1>0. Jailed' = Jailed /\ ran \in [Requests -> SUBSET Requests]
  BY NamesStep DEF Jailed, TypeOK
<1>1. ASSUME UNCHANGED ran PROVE OwnVM'
  BY <1>0, <1>1 DEF VInv, OwnVM, OwnMicroVM
<1>2. ASSUME NEW r \in Requests, RunsIn(r, r) PROVE OwnVM'
  BY <1>0, <1>2 DEF VInv, OwnVM, OwnMicroVM, RunsIn
<1>3. ASSUME NEW r \in Requests, pc[r] = "exec", RunsIn(r, Heard(r)) PROVE OwnVM'
  BY <1>0, <1>2, <1>3 DEF VInv, OwnVM, OwnSock, Heard
<1>4. ASSUME NEW r \in Requests, Step(r)
      PROVE  \/ UNCHANGED ran
             \/ RunsIn(r, r)
             \/ pc[r] = "exec" /\ RunsIn(r, Heard(r))
  BY <1>4 DEF Step, Start, Restore, Load, LoadFails, Discard, ColdBoot, ColdFails, ExecReplies,
     ExecGivesUp, SaveStep, SaveFails, Commit, Destroy, OrphanWrites, vmVars
<1>q. QED
  BY <1>1, <1>2, <1>3, <1>4 DEF Next, Crash, vars, vmVars

\* The invariant of the socket.
THEOREM SockInvariance == Spec => []VInv
<1>1. Init => VInv
  BY Marks DEF Init, VInv, Alone, JailedSock, SockOwned, OwnSock, OwnVM, OwnMicroVM, InFlight, SaveSteps
<1>2. SInv /\ VInv /\ [Next]_vars => VInv'
  BY AloneStep, SockStep, OwnVMStep DEF SInv, VInv
<1>q. QED
  BY <1>1, <1>2, StoreInvariance, PTL DEF Spec

\* The v.sock of a session is never one that nobody in flight, and nobody a crash
\* left behind, has bound; also with several requests of the session at once.
THEOREM NoStaleSock == Spec => []SockOwned
<1>1. VInv => SockOwned
  BY DEF VInv
<1>q. QED
  BY <1>1, SockInvariance, PTL

\* A job only ever runs in the microVM of its own request, if there is a jailer or
\* if the requests of a session follow each other.
THEOREM OneJobPerVM == Spec => [](Slots = 1 \/ Jailed => OwnMicroVM)
<1>1. VInv => (Slots = 1 \/ Jailed => OwnMicroVM)
  BY DEF VInv, OwnVM
<1>q. QED
  BY <1>1, SockInvariance, PTL

-----------------------------------------------------------------------------
(* What a restore loads.                                                   *)

\* The steps of saveSnapshot that find the image changed.
Replacing == {"xmem", "rebase", "xroot", "commit"}

\* The store between two exports: the image of the record is what was committed.
Kept ==
  /\ attached = {}
  /\ meta = None => committed = {}
  /\ meta # None /\ (\A r \in Requests : pc[r] \notin Replacing) =>
       \A f \in Image3 : files[f] = committed

Before == {"restore", "load", "discard", "cold"}

\* A guest starts from what was committed and adds its own job.
Guest(r) ==
  /\ pc[r] # "orphan"
  /\ pc[r] \in {"idle"} \cup Before => ram[r] = {} /\ disk[r] = {} /\ ran[r] = {}
  /\ pc[r] = "load" => meta # None /\ Diff(r)
  /\ pc[r] = "cold" => meta = None
  /\ pc[r] = "exec" => ram[r] = committed /\ disk[r] = committed /\ ran[r] = {}
  /\ pc[r] \in SaveSteps =>
       ram[r] = committed \cup {r} /\ disk[r] = committed \cup {r} /\ ran[r] = {r}
  /\ pc[r] \in {"exec"} \cup SaveSteps => (Diff(r) <=> meta # None)

\* How far the files of the image are replaced.
Export(r) ==
  /\ pc[r] \in Replacing => files["snap"] = committed \cup {r}
  /\ pc[r] \in {"xmem", "rebase"} /\ Diff(r) => files["mem"] = committed
  /\ pc[r] = "rebase" => Diff(r) /\ files["diff"] = {r}
  /\ pc[r] \in {"xroot", "commit"} => files["mem"] = committed \cup {r}
  /\ pc[r] = "commit" => files["root"] = committed \cup {r}

JInv == Kept /\ \A r \in Requests : Guest(r) /\ Export(r)

Images == Sealed => JInv

\* While r is in flight the others have no guest, so a step of r that leaves their
\* memories alone is about r only.
LEMMA Focus ==
  ASSUME TypeOK, JInv, NEW r \in Requests, NEW l \in PCs, pc' = [pc EXCEPT ![r] = l],
         \A q \in Requests : q # r => pc[q] \notin InFlight,
         \A q \in Requests : q # r => ram'[q] = ram[q] /\ disk'[q] = disk[q] /\ ran'[q] = ran[q],
         Guest(r)', Export(r)', attached' = {}, meta' = None => committed' = {},
         meta' # None /\ l \notin Replacing => \A f \in Image3 : files'[f] = committed'
  PROVE  JInv'
<1>1. ASSUME NEW q \in Requests, q # r PROVE Guest(q)' /\ Export(q)'
  <2>1. pc'[q] = pc[q] /\ pc[q] \notin InFlight /\ Guest(q)
    BY <1>1 DEF TypeOK, JInv
  <2>q. QED
    BY <1>1, <2>1 DEF Guest, Export, InFlight, SaveSteps, Before, Replacing
<1>2. pc'[r] = l
  BY DEF TypeOK
<1>3. Kept'
  BY <1>2 DEF Kept
<1>q. QED
  BY <1>1, <1>3 DEF JInv

\* The steps of Boot, from the gate to the guest.
LEMMA BootImages ==
  ASSUME SInv, Alone, Sealed, JInv, NEW r \in Requests,
         Start(r) \/ Restore(r) \/ Load(r) \/ LoadFails(r) \/ Discard(r) \/ ColdBoot(r) \/ ColdFails(r)
  PROVE  JInv'
<1>0. /\ pc \in [Requests -> PCs] /\ rec \in [Requests -> Nat]
      /\ ram \in [Requests -> Contents] /\ disk \in [Requests -> Contents]
      /\ TypeOK /\ (meta # None => meta.gen \in Nat \ {0})
  BY SessionConfig, FS_CardinalityType DEF SInv, TypeOK
<1>1. Slots = 1 /\ Jailed /\ "delete" \notin Faults
  BY DEF Sealed
<1>2. /\ attached = {} /\ (meta = None => committed = {})
      /\ meta # None /\ (\A q \in Requests : pc[q] \notin Replacing) => \A f \in Image3 : files[f] = committed
      /\ Guest(r)
  BY DEF JInv, Kept
<1>3. ASSUME pc[r] \in InFlight \/ Start(r), NEW q \in Requests, q # r PROVE pc[q] \notin InFlight
  BY <1>1, <1>3, GateAlone DEF Alone
<1>4. ASSUME pc[r] \in Before \/ Start(r) PROVE \A q \in Requests : pc[q] \notin Replacing
  BY <1>3, <1>4 DEF Before, Replacing, InFlight, SaveSteps, Start
<1>5. CASE Start(r)
  <2>1. pc' = [pc EXCEPT ![r] = "restore"] /\ "restore" \in PCs /\ pc[r] = "idle"
    BY <1>5 DEF Start, Goto, PCs, InFlight
  <2>2. UNCHANGED <<meta, files, attached, rec, ram, disk, ran, committed>>
    BY <1>5 DEF Start, vmVars
  <2>3. Guest(r)' /\ Export(r)'
    BY <1>0, <1>2, <2>1, <2>2 DEF Guest, Export, Before, Replacing, SaveSteps
  <2>q. QED
    BY <1>0, <1>2, <1>3, <1>4, <1>5, <2>1, <2>2, <2>3, Focus
<1>6. CASE Restore(r)
  <2>1. pc[r] = "restore" /\ UNCHANGED <<meta, files, attached, ram, disk, ran, committed>>
    BY <1>6 DEF Restore, vmVars
  <2>2. PICK l \in {"cold", "load", "discard", "failed"} :
          /\ pc' = [pc EXCEPT ![r] = l]
          /\ l = "cold" => meta = None
          /\ l = "load" => meta # None /\ rec'[r] > 0
    BY <1>0, <1>6 DEF Restore, Goto
  <2>3. Guest(r)' /\ Export(r)'
    BY <1>0, <1>2, <2>1, <2>2 DEF Guest, Export, Before, Replacing, SaveSteps, Diff
  <2>4. l \in PCs /\ pc[r] \in InFlight /\ pc[r] \in Before
    BY <2>1 DEF PCs, InFlight, Before
  <2>q. QED
    BY <1>0, <1>2, <1>3, <1>4, <2>1, <2>2, <2>3, <2>4, Focus
<1>7. CASE Load(r)
  <2>1. /\ pc[r] = "load" /\ UNCHANGED <<meta, files, attached, rec, ran, committed>>
        /\ pc' = [pc EXCEPT ![r] = "exec"] /\ "exec" \in PCs /\ pc[r] \in InFlight /\ pc[r] \in Before
    BY <1>1, <1>7 DEF Load, Goto, PCs, InFlight, Before
  <2>2. meta # None /\ Diff(r) /\ \A f \in Image3 : files[f] = committed
    BY <1>2, <1>4, <2>1 DEF Guest
  <2>3. ram' = [ram EXCEPT ![r] = committed] /\ disk' = [disk EXCEPT ![r] = committed]
    BY <1>1, <1>7, <2>2 DEF Load, Image3
  <2>4. Guest(r)' /\ Export(r)'
    BY <1>0, <1>2, <2>1, <2>2, <2>3 DEF Guest, Export, Before, Replacing, SaveSteps, Diff
  <2>q. QED
    BY <1>0, <1>2, <1>3, <2>1, <2>2, <2>3, <2>4, Focus
<1>8. CASE LoadFails(r)
  <2>1. /\ pc[r] = "load" /\ UNCHANGED <<meta, files, attached, rec, ram, disk, ran, committed>>
        /\ pc' = [pc EXCEPT ![r] = "discard"] /\ "discard" \in PCs /\ pc[r] \in InFlight /\ pc[r] \in Before
    BY <1>8 DEF LoadFails, Goto, PCs, InFlight, Before, vmVars
  <2>2. Guest(r)' /\ Export(r)'
    BY <1>0, <1>2, <2>1 DEF Guest, Export, Before, Replacing, SaveSteps
  <2>q. QED
    BY <1>0, <1>2, <1>3, <1>4, <2>1, <2>2, Focus
<1>9. CASE Discard(r)
  <2>1. /\ pc[r] = "discard" /\ UNCHANGED <<rec, ram, disk, ran>> /\ meta' = None /\ committed' = {}
        /\ attached' = {}
        /\ pc' = [pc EXCEPT ![r] = "cold"] /\ "cold" \in PCs /\ pc[r] \in InFlight
    BY <1>1, <1>9 DEF Discard, Files, Goto, PCs, InFlight, vmVars
  <2>2. Guest(r)' /\ Export(r)'
    BY <1>0, <1>2, <2>1 DEF Guest, Export, Before, Replacing, SaveSteps
  <2>q. QED
    BY <1>0, <1>3, <2>1, <2>2, Focus
<1>10. CASE ColdBoot(r)
  <2>1. /\ pc[r] = "cold" /\ UNCHANGED <<meta, files, attached, ram, disk, ran, committed>>
        /\ rec' = [rec EXCEPT ![r] = 0]
        /\ pc' = [pc EXCEPT ![r] = "exec"] /\ "exec" \in PCs /\ pc[r] \in InFlight
    BY <1>1, <1>10 DEF ColdBoot, Prepared, Goto, PCs, InFlight, vmVars
  <2>2. meta = None /\ committed = {} /\ ram[r] = {} /\ disk[r] = {} /\ ran[r] = {}
    BY <1>2, <2>1 DEF Guest, Before
  <2>3. Guest(r)' /\ Export(r)'
    BY <1>0, <2>1, <2>2 DEF Guest, Export, Before, Replacing, SaveSteps, Diff
  <2>q. QED
    BY <1>0, <1>2, <1>3, <2>1, <2>2, <2>3, Focus
<1>11. CASE ColdFails(r)
  <2>1. /\ pc[r] = "cold" /\ UNCHANGED <<meta, files, attached, rec, ram, disk, ran, committed>>
        /\ pc' = [pc EXCEPT ![r] = "failed"] /\ "failed" \in PCs /\ pc[r] \in InFlight /\ pc[r] \in Before
    BY <1>1, <1>11 DEF ColdFails, Goto, PCs, InFlight, Before, vmVars
  <2>2. Guest(r)' /\ Export(r)'
    BY <1>0, <2>1 DEF Guest, Export, Before, Replacing, SaveSteps
  <2>q. QED
    BY <1>0, <1>2, <1>3, <1>4, <2>1, <2>2, Focus
<1>q. QED
  BY <1>5, <1>6, <1>7, <1>8, <1>9, <1>10, <1>11

\* The steps of Execute and the end of the microVM: the store is not touched.
LEMMA RunImages ==
  ASSUME SInv, Alone, Sealed, JInv, NEW r \in Requests,
         ExecReplies(r) \/ ExecGivesUp(r) \/ Destroy(r)
  PROVE  JInv'
<1>0. /\ pc \in [Requests -> PCs] /\ ran \in [Requests -> SUBSET Requests]
      /\ ram \in [Requests -> Contents] /\ disk \in [Requests -> Contents]
      /\ files \in [Files -> Contents] /\ committed \in SUBSET Requests
      /\ TypeOK
  BY DEF SInv, TypeOK
<1>1. Slots = 1 /\ Jailed
  BY DEF Sealed
<1>2. /\ attached = {} /\ (meta = None => committed = {})
      /\ meta # None /\ (\A q \in Requests : pc[q] \notin Replacing) => \A f \in Image3 : files[f] = committed
      /\ Guest(r)
  BY DEF JInv, Kept
<1>3. /\ pc[r] \in {"exec", "destroy"} /\ pc[r] \in InFlight
      /\ UNCHANGED <<meta, rec, committed>>
      /\ attached' = {}
  BY <1>2 DEF ExecReplies, ExecGivesUp, Destroy, InFlight
<1>4. ASSUME NEW q \in Requests, q # r PROVE pc[q] \notin InFlight
  BY <1>1, <1>3, <1>4 DEF Alone
<1>5. \A q \in Requests : pc[q] \notin Replacing
  BY <1>3, <1>4 DEF Replacing, InFlight, SaveSteps
<1>6. ASSUME RunsIn(r, r), pc[r] = "exec"
      PROVE  /\ files' = files
             /\ ram' = [ram EXCEPT ![r] = committed \cup {r}]
             /\ disk' = [disk EXCEPT ![r] = committed \cup {r}]
             /\ ran' = [ran EXCEPT ![r] = {r}]
  <2>1. ram[r] = committed /\ disk[r] = committed /\ ran[r] = {}
    BY <1>2, <1>6 DEF Guest
  <2>2. Write(committed, r) = committed \cup {r}
    BY <1>0, Marked DEF Write
  <2>q. QED
    BY <1>0, <1>1, <1>2, <1>6, <2>1, <2>2 DEF RunsIn
<1>7. CASE ExecReplies(r)
  <2>1. pc[r] = "exec" /\ RunsIn(r, r) /\ pc' = [pc EXCEPT ![r] = "pause"] /\ "pause" \in PCs
    BY <1>1, <1>7 DEF ExecReplies, Heard, Goto, PCs, InFlight, SaveSteps
  <2>2. Guest(r)' /\ Export(r)'
    BY <1>0, <1>2, <1>3, <1>6, <2>1 DEF Guest, Export, Before, Replacing, SaveSteps, Diff
  <2>q. QED
    BY <1>0, <1>2, <1>3, <1>4, <1>5, <1>6, <2>1, <2>2, Focus
<1>8. CASE ExecGivesUp(r) \/ Destroy(r)
  <2>1. PICK l \in {"destroy", "done"} : pc' = [pc EXCEPT ![r] = l]
    BY <1>8 DEF ExecGivesUp, Destroy, Goto
  <2>2. UNCHANGED <<files, ram, disk, ran>> \/ (pc[r] = "exec" /\ RunsIn(r, r))
    BY <1>1, <1>8 DEF ExecGivesUp, Destroy, Heard, vmVars
  <2>3. /\ l \in PCs /\ files' = files
        /\ \A q \in Requests : q # r => ram'[q] = ram[q] /\ disk'[q] = disk[q] /\ ran'[q] = ran[q]
    BY <1>0, <1>6, <2>2 DEF PCs, InFlight
  <2>4. Guest(r)' /\ Export(r)'
    BY <1>0, <2>1 DEF Guest, Export, Before, Replacing, SaveSteps
  <2>q. QED
    BY <1>0, <1>2, <1>3, <1>4, <1>5, <2>1, <2>3, <2>4, Focus
<1>q. QED
  BY <1>7, <1>8

\* What one export leaves in the session directory of a jailed guest.
LEMMA ExportFiles ==
  ASSUME TypeOK, Jailed, NEW r \in Requests, SaveStep(r)
  PROVE  /\ pc[r] \in {"pause", "create"} => files' = files /\ pc'[r] \in {"create", "xsnap"}
         /\ pc[r] = "xsnap" => /\ files' = [files EXCEPT !["snap"] = ram[r]]
                               /\ pc'[r] = "xmem"
         /\ pc[r] = "xmem" /\ Diff(r) => files' = [files EXCEPT !["diff"] = ran[r]] /\ pc'[r] = "rebase"
         /\ pc[r] = "xmem" /\ ~Diff(r) => files' = [files EXCEPT !["mem"] = ram[r]] /\ pc'[r] = "xroot"
         /\ pc[r] = "rebase" =>
              /\ files' = [files EXCEPT !["mem"] = Overlay(files["mem"], files["diff"]), !["diff"] = Absent]
              /\ pc'[r] = "xroot"
         /\ pc[r] = "xroot" => files' = [files EXCEPT !["root"] = disk[r]] /\ pc'[r] = "commit"
<1>1. /\ files \in [Files -> Contents] /\ pc' = [pc EXCEPT ![r] = StepAfter(r)]
      /\ files' = [f \in Files |-> IF f \in DOMAIN Written(r) THEN Written(r)[f] ELSE files[f]]
      /\ pc[r] \in SaveSteps \ {"commit"} /\ pc'[r] = StepAfter(r)
  BY DEF TypeOK, SaveStep, Goto
<1>2. CASE pc[r] \in {"pause", "create"}
  BY <1>1, <1>2, Writes DEF StepAfter
<1>3. CASE pc[r] = "xsnap"
  BY <1>1, <1>3, Writes DEF StepAfter
<1>4. CASE pc[r] = "xmem"
  BY <1>1, <1>4, Writes DEF StepAfter
<1>5. CASE pc[r] = "rebase"
  BY <1>1, <1>5, Writes DEF StepAfter
<1>6. CASE pc[r] = "xroot"
  BY <1>1, <1>6, Writes DEF StepAfter
<1>q. QED
  BY <1>1, <1>2, <1>3, <1>4, <1>5, <1>6 DEF SaveSteps

\* saveSnapshot: the image is replaced file by file and then committed.
LEMMA SaveImages ==
  ASSUME SInv, Alone, Sealed, JInv, NEW r \in Requests,
         SaveStep(r) \/ SaveFails(r) \/ Commit(r)
  PROVE  JInv'
<1>0. /\ pc \in [Requests -> PCs] /\ files \in [Files -> Contents] /\ committed \in SUBSET Requests
      /\ TypeOK
  BY DEF SInv, TypeOK
<1>1. Slots = 1 /\ Jailed /\ "export" \notin Faults
  BY DEF Sealed
<1>2. /\ attached = {} /\ (meta = None => committed = {})
      /\ meta # None /\ (\A q \in Requests : pc[q] \notin Replacing) => \A f \in Image3 : files[f] = committed
      /\ Guest(r) /\ Export(r)
  BY DEF JInv, Kept
<1>3. /\ pc[r] \in SaveSteps /\ pc[r] \in InFlight
      /\ UNCHANGED <<attached, rec, ram, disk, ran>>
  BY DEF SaveStep, SaveFails, Commit, SaveSteps, InFlight, vmVars
<1>4. ASSUME NEW q \in Requests, q # r PROVE pc[q] \notin InFlight
  BY <1>1, <1>3, <1>4 DEF Alone
<1>5. ASSUME pc[r] \notin Replacing PROVE \A q \in Requests : pc[q] \notin Replacing
  BY <1>4, <1>5 DEF Replacing, InFlight, SaveSteps
<1>6. /\ ram[r] = committed \cup {r} /\ disk[r] = committed \cup {r} /\ ran[r] = {r}
      /\ Diff(r) <=> meta # None
  BY <1>2, <1>3 DEF Guest
<1>7. CASE SaveStep(r)
  <2>1. /\ UNCHANGED <<meta, committed>> /\ pc' = [pc EXCEPT ![r] = StepAfter(r)]
        /\ StepAfter(r) \in SaveSteps /\ StepAfter(r) \in PCs /\ pc'[r] = StepAfter(r)
    BY <1>0, <1>7 DEF SaveStep, Goto, StepAfter, SaveSteps, PCs, InFlight
  <2>2. Guest(r)'
    BY <1>2, <1>3, <1>6, <2>1 DEF Guest, SaveSteps, Before, Diff
  <2>3. Export(r)' /\ (meta # None /\ StepAfter(r) \notin Replacing => \A f \in Image3 : files'[f] = committed)
    <3>1. CASE pc[r] \in {"pause", "create"}
      <4>1. files' = files /\ pc'[r] \in {"create", "xsnap"}
        BY <1>0, <1>1, <1>7, <3>1, ExportFiles
      <4>2. meta # None => \A f \in Image3 : files[f] = committed
        BY <1>2, <1>5, <3>1 DEF Replacing
      <4>q. QED
        BY <4>1, <4>2 DEF Export, Replacing
    <3>2. CASE pc[r] = "xsnap"
      <4>1. files' = [files EXCEPT !["snap"] = ram[r]] /\ pc'[r] = "xmem"
        BY <1>0, <1>1, <1>7, <3>2, ExportFiles
      <4>2. meta # None => files["mem"] = committed
        BY <1>2, <1>5, <3>2 DEF Replacing, Image3
      <4>q. QED
        BY <1>0, <1>3, <1>6, <2>1, <4>1, <4>2 DEF Export, Replacing, Files, Diff
    <3>3. CASE pc[r] = "xmem" /\ Diff(r)
      <4>1. files' = [files EXCEPT !["diff"] = ran[r]] /\ pc'[r] = "rebase"
        BY <1>0, <1>1, <1>7, <3>3, ExportFiles
      <4>2. files["snap"] = committed \cup {r} /\ files["mem"] = committed
        BY <1>2, <3>3 DEF Export, Replacing
      <4>q. QED
        BY <1>0, <1>3, <1>6, <2>1, <3>3, <4>1, <4>2 DEF Export, Replacing, Files, Diff
    <3>4. CASE pc[r] = "xmem" /\ ~Diff(r)
      <4>1. files' = [files EXCEPT !["mem"] = ram[r]] /\ pc'[r] = "xroot"
        BY <1>0, <1>1, <1>7, <3>4, ExportFiles
      <4>2. files["snap"] = committed \cup {r}
        BY <1>2, <3>4 DEF Export, Replacing
      <4>q. QED
        BY <1>0, <1>6, <2>1, <4>1, <4>2 DEF Export, Replacing, Files
    <3>5. CASE pc[r] = "rebase"
      <4>1. /\ files' = [files EXCEPT !["mem"] = Overlay(files["mem"], files["diff"]), !["diff"] = Absent]
            /\ pc'[r] = "xroot"
        BY <1>0, <1>1, <1>7, <3>5, ExportFiles
      <4>2. files["snap"] = committed \cup {r} /\ files["mem"] = committed /\ files["diff"] = {r}
        BY <1>2, <3>5 DEF Export, Replacing
      <4>3. Overlay(files["mem"], files["diff"]) = committed \cup {r}
        BY <1>0, <4>2, Marked DEF Overlay
      <4>q. QED
        BY <1>0, <2>1, <4>1, <4>2, <4>3 DEF Export, Replacing, Files
    <3>6. CASE pc[r] = "xroot"
      <4>1. files' = [files EXCEPT !["root"] = disk[r]] /\ pc'[r] = "commit"
        BY <1>0, <1>1, <1>7, <3>6, ExportFiles
      <4>2. files["snap"] = committed \cup {r} /\ files["mem"] = committed \cup {r}
        BY <1>2, <3>6 DEF Export, Replacing
      <4>q. QED
        BY <1>0, <1>6, <2>1, <4>1, <4>2 DEF Export, Replacing, Files
    <3>q. QED
      BY <1>7, <3>1, <3>2, <3>3, <3>4, <3>5, <3>6 DEF SaveStep, SaveSteps
  <2>q. QED
    BY <1>0, <1>2, <1>3, <1>4, <2>1, <2>2, <2>3, Focus
<1>8. CASE SaveFails(r)
  <2>1. ~BaseMissing(r)
    <3>1. pc[r] = "rebase" => files["mem"] = committed /\ files["diff"] = {r}
      BY <1>2 DEF Export
    <3>q. QED
      BY <1>0, <3>1, Marked DEF BaseMissing
  <2>2. pc[r] \in {"pause", "create"} /\ files' \in HalfWritten(r)
    BY <1>1, <1>8, <2>1 DEF SaveFails
  <2>3. files' = files
    BY <1>0, <1>1, <2>2, Writes DEF HalfWritten
  <2>4. pc' = [pc EXCEPT ![r] = "destroy"] /\ UNCHANGED <<meta, committed>> /\ "destroy" \in PCs
    BY <1>8 DEF SaveFails, Goto, PCs, InFlight
  <2>5. Guest(r)' /\ Export(r)'
    BY <1>0, <2>4 DEF Guest, Export, Before, Replacing, SaveSteps
  <2>6. meta # None => \A f \in Image3 : files[f] = committed
    BY <1>2, <1>5, <2>2 DEF Replacing
  <2>q. QED
    BY <1>0, <1>2, <1>3, <1>4, <2>3, <2>4, <2>5, <2>6, Focus
<1>9. CASE Commit(r)
  <2>1. \A f \in Image3 : files[f] = committed \cup {r}
    BY <1>2, <1>9 DEF Commit, Export, Replacing, Image3
  <2>2. committed \cup {r} # Absent
    BY <1>0, Marked
  <2>3. committed' = committed \cup {r} /\ UNCHANGED files
    BY <1>9, <2>1, <2>2 DEF Commit, Image3
  <2>4. meta' # None
    <3>1. meta' = [gen |-> rec[r] + 1, net |-> net]
      BY <1>9, <2>1, <2>2 DEF Commit, Image3
    <3>2. rec[r] \in Nat /\ net \in BOOLEAN
      BY <1>0 DEF TypeOK
    <3>q. QED
      BY <3>1, <3>2, Marks
  <2>5. pc' = [pc EXCEPT ![r] = "destroy"] /\ "destroy" \in PCs
    BY <1>9 DEF Commit, Goto, PCs, InFlight
  <2>6. Guest(r)' /\ Export(r)'
    BY <1>0, <2>5 DEF Guest, Export, Before, Replacing, SaveSteps
  <2>q. QED
    BY <1>0, <1>2, <1>3, <1>4, <2>1, <2>3, <2>4, <2>5, <2>6, Focus
<1>q. QED
  BY <1>7, <1>8, <1>9

\* The invariant of the image.
THEOREM ImageInvariance == Spec => []Images
<1>1. Init => Images
  BY DEF Init, Images, JInv, Kept, Guest, Export, Before, SaveSteps, Replacing
<1>2. SInv /\ VInv /\ Images /\ [Next]_vars => Images'
  <2> SUFFICES ASSUME SInv, VInv, Images, [Next]_vars, Sealed' PROVE JInv'
    BY DEF Images
  <2>1. Sealed /\ JInv /\ TypeOK /\ Alone
    BY NamesStep DEF Sealed, Jailed, Faults, Images, SInv, VInv
  <2>2. ASSUME NEW r \in Requests, Step(r) PROVE JInv'
    <3>1. ~OrphanWrites(r)
      BY <2>1 DEF OrphanWrites, JInv, Guest
    <3>q. QED
      BY <2>1, <2>2, <3>1, BootImages, RunImages, SaveImages DEF Step
  <2>3. ~Crash
    BY <2>1 DEF Crash, Sealed
  <2>4. CASE UNCHANGED vars
    BY <2>1, <2>4 DEF vars, vmVars, JInv, Kept, Guest, Export, Diff
  <2>q. QED
    BY <2>2, <2>3, <2>4 DEF Next
<1>q. QED
  BY <1>1, <1>2, StoreInvariance, SockInvariance, PTL DEF Spec

\* With a jailer and one request of the session at a time, what a restore loads is
\* exactly what was committed, whatever timeouts, failed boots and failed API calls
\* came before.
THEOREM RestoreIsExact == Spec => [](Slots = 1 => JailedLoadsWhatWasCommitted)
<1>1. VInv /\ Images => (Slots = 1 => JailedLoadsWhatWasCommitted)
  <2> SUFFICES ASSUME VInv, Sealed, JInv, NEW r \in Requests, pc[r] = "load"
               PROVE  {files[f] : f \in Image3} = {committed}
    BY DEF Images, Sealed, JailedLoadsWhatWasCommitted, LoadsWhatWasCommitted, Image3
  <2>1. \A q \in Requests : pc[q] \notin Replacing
    BY DEF VInv, Alone, Sealed, InFlight, Replacing, SaveSteps
  <2>2. \A f \in Image3 : files[f] = committed
    BY <2>1 DEF JInv, Guest, Kept
  <2>q. QED
    BY <2>2 DEF Image3
<1>q. QED
  BY <1>1, SockInvariance, ImageInvariance, PTL

-----------------------------------------------------------------------------
(* The session is one value.                                               *)

\* A request that has a microVM.
Up == {"exec", "destroy"} \cup SaveSteps

guests == [q \in Requests |-> GuestOf(q)]

\* Two functions that differ at one place at most.
LEMMA Update ==
  ASSUME NEW S, NEW f, NEW g, NEW r \in S, f = [q \in S |-> f[q]], g = [q \in S |-> g[q]],
         \A q \in S : q # r => g[q] = f[q]
  PROVE  g = [f EXCEPT ![r] = g[r]] /\ (g[r] = f[r] => g = f)
OBVIOUS

\* A step of one request changes no microVM but its own.
LEMMA OneGuest ==
  ASSUME TypeOK, Sealed, Sealed', NEW r \in Requests, NEW l \in PCs, Goto(r, l),
         \A q \in Requests : q # r => ram'[q] = ram[q] /\ disk'[q] = disk[q]
  PROVE  /\ l \notin Up => guests' = [guests EXCEPT ![r] = Absent]
         /\ l \in Up /\ ram'[r] = disk'[r] => guests' = [guests EXCEPT ![r] = ram'[r]]
         /\ (l \in Up <=> pc[r] \in Up) /\ ram'[r] = ram[r] /\ disk'[r] = disk[r] => guests' = guests
<1>1. pc'[r] = l /\ \A q \in Requests : q # r => pc'[q] = pc[q]
  BY DEF TypeOK, Goto
<1>2. \A q \in Requests : q # r => GuestOf(q)' = GuestOf(q)
  BY <1>1 DEF GuestOf
<1>3. /\ l \notin Up => GuestOf(r)' = Absent
      /\ l \in Up /\ ram'[r] = disk'[r] => GuestOf(r)' = ram'[r]
      /\ (l \in Up <=> pc[r] \in Up) /\ ram'[r] = ram[r] /\ disk'[r] = disk[r] => GuestOf(r)' = GuestOf(r)
  BY <1>1 DEF GuestOf, Up
<1>4. /\ guests = [q \in Requests |-> guests[q]] /\ guests' = [q \in Requests |-> guests'[q]]
      /\ \A q \in Requests : guests[q] = GuestOf(q) /\ guests'[q] = GuestOf(q)'
  BY DEF guests
<1>5. guests' = [guests EXCEPT ![r] = guests'[r]] /\ (guests'[r] = guests[r] => guests' = guests)
  BY <1>2, <1>4, Update
<1>q. QED
  BY <1>3, <1>4, <1>5

\* Who is not up has no microVM; in the gate's only slot, nobody else has.
LEMMA NoGuest ==
  ASSUME Sealed, Alone, NEW r \in Requests, pc[r] \in Before
  PROVE  Value!Free
<1>1. ASSUME NEW q \in Requests PROVE pc[q] \notin Up
  BY DEF Alone, Sealed, Before, Up, InFlight, SaveSteps
<1>q. QED
  BY <1>1 DEF Value!Free, GuestOf, Up

\* Each step of a sealed session is a step of its value or changes nothing of it.
LEMMA ValueStep ==
  ASSUME SInv, Alone, JInv, Sealed, Sealed', NEW r \in Requests, Step(r), ~OrphanWrites(r)
  PROVE  [Value!Next]_(Value!vars)
<1> DEFINE same == committed' = committed /\ guests' = guests
<1>0. /\ pc \in [Requests -> PCs] /\ ram \in [Requests -> Contents] /\ disk \in [Requests -> Contents]
      /\ committed \in SUBSET Requests /\ TypeOK /\ Jailed /\ Guest(r) /\ ram[r] # Absent
      /\ "delete" \notin Faults
  BY DEF SInv, Solid, TypeOK, Sealed, JInv
<1>1. ASSUME same PROVE [Value!Next]_(Value!vars)
  BY <1>1 DEF Value!vars, guests
<1>g. /\ DOMAIN guests = Requests
      /\ pc[r] \notin Up => guests[r] = Absent
      /\ pc[r] \in Up => guests[r] = IF ram[r] = disk[r] THEN ram[r] ELSE Partial
  BY DEF guests, GuestOf, Up
<1>2. CASE Start(r) \/ Restore(r) \/ LoadFails(r) \/ ColdFails(r)
  <2>1. PICK l \in PCs : Goto(r, l) /\ l \notin Up
    BY <1>2 DEF Start, Restore, LoadFails, ColdFails, PCs, Up, InFlight, SaveSteps
  <2>2. pc[r] \notin Up /\ UNCHANGED <<ram, disk, committed>>
    BY <1>2 DEF Start, Restore, LoadFails, ColdFails, Up, SaveSteps, vmVars
  <2>3. guests' = guests
    BY <1>0, <1>g, <2>1, <2>2, OneGuest
  <2>q. QED
    BY <1>1, <2>2, <2>3
<1>3. CASE Load(r) \/ ColdBoot(r)
  <2>1. /\ Goto(r, "exec") /\ "exec" \in PCs /\ "exec" \in Up /\ pc[r] \in Before /\ committed' = committed
        /\ \A q \in Requests : q # r => ram'[q] = ram[q] /\ disk'[q] = disk[q]
    BY <1>0, <1>3 DEF Load, ColdBoot, PCs, Up, InFlight, Before, vmVars
  <2>2. ram'[r] = committed /\ disk'[r] = committed
    <3>1. CASE Load(r)
      <4>1. pc[r] = "load" /\ meta # None /\ \A q \in Requests : pc[q] \notin Replacing
        BY <1>0, <3>1 DEF Load, Guest, Alone, Sealed, Replacing, InFlight, SaveSteps
      <4>2. \A f \in Image3 : files[f] = committed
        BY <4>1 DEF JInv, Kept
      <4>q. QED
        BY <1>0, <3>1, <4>2 DEF Load, Image3
    <3>2. CASE ColdBoot(r)
      <4>1. pc[r] = "cold" /\ UNCHANGED <<ram, disk>>
        BY <3>2 DEF ColdBoot, vmVars
      <4>2. meta = None /\ ram[r] = {} /\ disk[r] = {}
        BY <1>0, <4>1 DEF Guest, Before
      <4>q. QED
        BY <4>1, <4>2 DEF JInv, Kept
    <3>q. QED
      BY <1>3, <3>1, <3>2
  <2>3. guests' = [guests EXCEPT ![r] = committed]
    BY <1>0, <2>1, <2>2, OneGuest
  <2>4. Value!Free
    BY <2>1, NoGuest
  <2>5. Value!Boot(r)
    BY <2>1, <2>3, <2>4 DEF Value!Boot, guests
  <2>q. QED
    BY <2>5 DEF Value!Next
<1>4. CASE Discard(r)
  <2>1. /\ Goto(r, "cold") /\ "cold" \in PCs /\ "cold" \notin Up /\ pc[r] \in Before /\ pc[r] \notin Up
        /\ committed' = {} /\ UNCHANGED <<ram, disk>>
    BY <1>4 DEF Discard, PCs, Up, InFlight, Before, SaveSteps, vmVars
  <2>2. guests' = guests /\ Value!Free
    BY <1>0, <1>g, <2>1, OneGuest, NoGuest
  <2>3. Value!Reset
    BY <2>1, <2>2 DEF Value!Reset, guests
  <2>q. QED
    BY <2>3 DEF Value!Next
<1>5. CASE ExecReplies(r) \/ ExecGivesUp(r)
  <2>1. PICK l \in {"pause", "destroy"} : Goto(r, l)
    BY <1>5 DEF ExecReplies, ExecGivesUp
  <2>2. /\ l \in PCs /\ l \in Up /\ pc[r] = "exec" /\ pc[r] \in Up /\ committed' = committed
        /\ ram[r] = committed /\ disk[r] = committed
    BY <1>0, <1>5, <2>1 DEF ExecReplies, ExecGivesUp, Guest, PCs, Up, InFlight, SaveSteps
  <2>3. CASE UNCHANGED vmVars
    <3>1. guests' = guests
      BY <1>0, <1>g, <2>1, <2>2, <2>3, OneGuest DEF vmVars
    <3>q. QED
      BY <1>1, <2>2, <3>1
  <2>4. CASE RunsIn(r, r)
    <3>0. Write(committed, r) = committed \cup {r}
      BY <1>0, Marked DEF Write
    <3>1. ram' = [ram EXCEPT ![r] = committed \cup {r}] /\ disk' = [disk EXCEPT ![r] = committed \cup {r}]
      BY <1>0, <2>2, <2>4, <3>0 DEF RunsIn
    <3>2. guests' = [guests EXCEPT ![r] = committed \cup {r}] /\ guests[r] = committed
      BY <1>0, <1>g, <2>1, <2>2, <3>1, OneGuest
    <3>3. Value!Run(r)
      BY <2>2, <3>2 DEF Value!Run, guests
    <3>q. QED
      BY <3>3 DEF Value!Next
  <2>q. QED
    BY <1>0, <1>5, <2>3, <2>4 DEF ExecReplies, ExecGivesUp, Heard
<1>6. CASE SaveStep(r) \/ SaveFails(r)
  <2>1. PICK l \in PCs : Goto(r, l) /\ l \in Up
    BY <1>6 DEF SaveStep, SaveFails, StepAfter, PCs, Up, InFlight, SaveSteps
  <2>2. pc[r] \in Up /\ UNCHANGED <<ram, disk, committed>>
    BY <1>6 DEF SaveStep, SaveFails, Up, vmVars
  <2>3. guests' = guests
    BY <1>0, <1>g, <2>1, <2>2, OneGuest
  <2>q. QED
    BY <1>1, <2>2, <2>3
<1>7. CASE Commit(r)
  <2>1. /\ Goto(r, "destroy") /\ "destroy" \in PCs /\ "destroy" \in Up /\ pc[r] = "commit" /\ pc[r] \in Up
        /\ UNCHANGED <<ram, disk>> /\ committed' \in {committed, committed \cup {r}}
    BY <1>7 DEF Commit, PCs, Up, InFlight, SaveSteps, vmVars
  <2>2. guests' = guests /\ guests[r] = committed \cup {r}
    BY <1>0, <1>g, <2>1, OneGuest DEF Guest, SaveSteps
  <2>3. committed' = committed \cup {r} => Value!Save(r)
    BY <2>2 DEF Value!Save, guests
  <2>q. QED
    BY <1>1, <2>1, <2>2, <2>3 DEF Value!Next
<1>8. CASE Destroy(r)
  <2>1. /\ Goto(r, "done") /\ "done" \in PCs /\ "done" \notin Up /\ pc[r] \in Up /\ UNCHANGED <<ram, disk, committed>>
    BY <1>8 DEF Destroy, PCs, Up, SaveSteps, vmVars
  <2>2. guests' = [guests EXCEPT ![r] = Absent] /\ guests[r] # Absent
    BY <1>0, <1>g, <2>1, Marked, OneGuest
  <2>3. Value!End(r)
    BY <2>1, <2>2 DEF Value!End, guests
  <2>q. QED
    BY <2>3 DEF Value!Next
<1>q. QED
  BY <1>2, <1>3, <1>4, <1>5, <1>6, <1>7, <1>8 DEF Step

\* With a jailer, one request of the session at a time and no fault while the image
\* is replaced, the session is one value for its clients: every microVM starts from
\* what the last snapshot saved, and no job is lost, added or saved by halves.
THEOREM SessionIsOneValue == Spec => ValueSpec
<1>1. Init => Value!Init
  BY DEF Init, Value!Init, GuestOf, SaveSteps
<1>2. SInv /\ VInv /\ Images /\ [Next]_vars => [Value!Next]_(Value!vars)
  <2> SUFFICES ASSUME SInv, VInv, Images, [Next]_vars PROVE [Value!Next]_(Value!vars)
    OBVIOUS
  <2>1. TypeOK /\ Alone /\ (Sealed => JInv) /\ (Sealed' <=> Sealed)
    BY NamesStep DEF Sealed, Jailed, Faults, Images, SInv, VInv
  <2>2. CASE UNCHANGED vars
    BY <2>2 DEF vars, vmVars, Value!vars, GuestOf, Sealed, Jailed, Faults
  <2>3. CASE ~Sealed
    BY <2>1, <2>3 DEF Value!vars, GuestOf
  <2>4. CASE Sealed /\ Next
    <3>1. ~Crash /\ \A r \in Requests : ~OrphanWrites(r)
      BY <2>1, <2>4 DEF Crash, OrphanWrites, Sealed, JInv, Guest
    <3>q. QED
      BY <2>1, <2>4, <3>1, ValueStep DEF Next
  <2>q. QED
    BY <2>2, <2>3, <2>4
<1>q. QED
  BY <1>1, <1>2, StoreInvariance, SockInvariance, ImageInvariance, PTL DEF Spec, ValueSpec, Value!Spec
=============================================================================
