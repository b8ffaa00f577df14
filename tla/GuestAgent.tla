----------------------------- MODULE GuestAgent -----------------------------
(***************************************************************************)
(* The agent inside the microVM (cmd/guest-agent/main.go): one goroutine   *)
(* for each connection reads a request, starts python or node in a process *)
(* group of its own, sets its rlimits, waits for it and answers.  The job  *)
(* is a leader and at most one child, which inherits the rlimits of the    *)
(* moment of the fork and may keep the pipes of the leader open.           *)
(***************************************************************************)
EXTENDS Naturals, FiniteSets

CONSTANTS Conns,     \* connections, each with one job
          Cap,       \* guestproto.MaxOutputBytes
          MaxOut,    \* bound on what a job writes to a stream
          Forks,     \* jobs may start a child
          Holds      \* a child may keep stdout and stderr of the job

ASSUME AgentConfig ==
  /\ IsFiniteSet(Conns)
  /\ {Cap, MaxOut} \subseteq Nat
  /\ {Forks, Holds} \subseteq BOOLEAN

VARIABLES pc,      \* where handle is
          late,    \* the deadline of ctx has passed
          leader,  \* the process of cmd
          child,   \* a process the leader started in its group
          holding, \* the child has the pipes open
          limits,  \* how many of the rlimits hold for the leader and for the child
          total,   \* bytes written to each stream
          buf,     \* the limitedBuffer of each stream
          resp     \* the answer written to the connection

procVars == <<leader, child, holding>>
outVars  == <<total, buf>>
agentVars == <<pc, late, procVars, limits, outVars, resp>>

Streams   == {"stdout", "stderr"}
Empty     == [kept |-> 0, rest |-> Cap, hit |-> FALSE]

AgentInit ==
  /\ pc = [c \in Conns |-> "read"]
  /\ late = [c \in Conns |-> FALSE]
  /\ leader = [c \in Conns |-> "none"]
  /\ child = [c \in Conns |-> "none"]
  /\ holding = [c \in Conns |-> FALSE]
  /\ limits = [c \in Conns |-> [leader |-> 0, child |-> 0]]
  /\ total = [c \in Conns |-> [s \in Streams |-> 0]]
  /\ buf = [c \in Conns |-> [s \in Streams |-> Empty]]
  /\ resp = [c \in Conns |-> "none"]

Goto(c, label) == pc' = [pc EXCEPT ![c] = label]
Answer(c, a)   == resp' = [resp EXCEPT ![c] = a] /\ Goto(c, "closed")

-----------------------------------------------------------------------------
(* handle and execute.                                                     *)

\* ReadRequest fails, as for the probe of waitForGuestAgent, which only connects.
ReadFails(c) ==
  /\ pc[c] = "read"
  /\ Goto(c, "closed")
  /\ UNCHANGED <<late, procVars, limits, outVars, resp>>

\* commandFor finds no interpreter, or cmd.Start fails.
StartFails(c) ==
  /\ pc[c] = "read"
  /\ Answer(c, "error")
  /\ UNCHANGED <<late, procVars, limits, outVars>>

\* The clock of ctx runs from before commandFor; cmd.Start forks and execs.
Start(c) ==
  /\ pc[c] = "read"
  /\ leader' = [leader EXCEPT ![c] = "running"]
  /\ Goto(c, "limit")
  /\ UNCHANGED <<late, child, holding, limits, outVars, resp>>

\* applyGuestLimits: RLIMIT_AS, RLIMIT_NPROC, RLIMIT_NOFILE.
Calls == 3

\* One prlimit call; the job can run before it.
SetLimit(c) ==
  /\ pc[c] = "limit"
  /\ limits[c].leader < Calls
  /\ limits' = [limits EXCEPT ![c].leader = @ + 1]
  /\ UNCHANGED <<pc, late, procVars, outVars, resp>>

LimitsSet(c) ==
  /\ pc[c] = "limit"
  /\ limits[c].leader = Calls
  /\ Goto(c, "wait")
  /\ UNCHANGED <<late, procVars, limits, outVars, resp>>

\* [mutant] execute kills nobody.
GroupKept(state) == state

\* killProcessGroup.
GroupKilled(state) == IF state = "running" THEN "killed" ELSE state

KillGroup(c) ==
  /\ leader' = [leader EXCEPT ![c] = GroupKilled(@)]
  /\ child' = [child EXCEPT ![c] = GroupKilled(@)]
  /\ UNCHANGED holding

\* A prlimit call fails (not because the job is already over: until Wait it keeps
\* its pid): kill the group, wait, report.
LimitFails(c) ==
  /\ pc[c] = "limit"
  /\ limits[c].leader < Calls
  /\ KillGroup(c)
  /\ Answer(c, "error")
  /\ UNCHANGED <<late, limits, outVars>>

\* cmd.Wait: the leader is over and the copying of its pipes has met EOF.
PipesClosed(c) == leader[c] # "running" /\ ~(holding[c] /\ child[c] = "running")

\* [mutant] what Wait returned decides, and the deadline is not looked at.
TimedOutIgnored(c) == FALSE

\* ctx.Err(), looked at after Wait.
TimedOut(c) == late[c]

Waited(c) ==
  /\ pc[c] = "wait"
  /\ PipesClosed(c)
  /\ IF TimedOut(c) THEN KillGroup(c) /\ Answer(c, "timedout")
                    ELSE Answer(c, "exit") /\ UNCHANGED procVars
  /\ UNCHANGED <<late, limits, outVars>>

\* The deadline of ctx: CommandContext kills the leader, not its group.
Deadline(c) ==
  /\ pc[c] \in {"limit", "wait"}
  /\ ~late[c]
  /\ late' = [late EXCEPT ![c] = TRUE]
  /\ leader' = [leader EXCEPT ![c] = GroupKilled(@)]
  /\ UNCHANGED <<pc, child, holding, limits, outVars, resp>>

-----------------------------------------------------------------------------
(* The job.                                                                *)

\* [mutant] a buffer that is exactly full counts as cut.
WrittenEager(b, n) ==
  IF b.rest <= 0 THEN [b EXCEPT !.hit = TRUE]
  ELSE IF n >= b.rest THEN [kept |-> b.kept + b.rest, rest |-> 0, hit |-> TRUE]
  ELSE [b EXCEPT !.kept = @ + n, !.rest = @ - n]

\* limitedBuffer.Write.
Written(b, n) ==
  IF b.rest <= 0 THEN [b EXCEPT !.hit = TRUE]
  ELSE IF n > b.rest THEN [kept |-> b.kept + b.rest, rest |-> 0, hit |-> TRUE]
  ELSE [b EXCEPT !.kept = @ + n, !.rest = @ - n]

\* The job writes n bytes and the copying goroutine hands them on.
Output(c, s) ==
  /\ leader[c] = "running"
  /\ \E n \in 1..(MaxOut - total[c][s]) :
       /\ total' = [total EXCEPT ![c][s] = @ + n]
       /\ buf' = [buf EXCEPT ![c][s] = Written(@, n)]
  /\ UNCHANGED <<pc, late, procVars, limits, resp>>

Fork(c) ==
  /\ Forks
  /\ leader[c] = "running" /\ child[c] = "none"
  /\ child' = [child EXCEPT ![c] = "running"]
  /\ \E h \in {FALSE, Holds} : holding' = [holding EXCEPT ![c] = h]
  /\ limits' = [limits EXCEPT ![c].child = limits[c].leader]
  /\ UNCHANGED <<pc, late, leader, outVars, resp>>

LeaderExits(c) ==
  /\ leader[c] = "running"
  /\ leader' = [leader EXCEPT ![c] = "exited"]
  /\ UNCHANGED <<pc, late, child, holding, limits, outVars, resp>>

ChildExits(c) ==
  /\ child[c] = "running"
  /\ child' = [child EXCEPT ![c] = "exited"]
  /\ UNCHANGED <<pc, late, leader, holding, limits, outVars, resp>>

Agent(c) ==
  \/ ReadFails(c) \/ StartFails(c) \/ Start(c) \/ SetLimit(c) \/ LimitsSet(c)
  \/ LimitFails(c) \/ Waited(c) \/ Deadline(c)

Job(c) == (\E s \in Streams : Output(c, s)) \/ Fork(c) \/ LeaderExits(c) \/ ChildExits(c)

AgentNext == \E c \in Conns : Agent(c) \/ Job(c)

AgentSpec == AgentInit /\ [][AgentNext]_agentVars

\* The goroutines of the agent and the timer run; nothing is assumed of the job.
AgentFairSpec == AgentSpec /\ \A c \in Conns : WF_agentVars(Agent(c)) /\ WF_agentVars(Deadline(c))

-----------------------------------------------------------------------------
(* Properties.                                                             *)

\* Every variable has its type; a buffer keeps at most Cap bytes.
AgentTypeOK ==
  /\ pc \in [Conns -> {"read", "limit", "wait", "closed"}]
  /\ late \in [Conns -> BOOLEAN]
  /\ leader \in [Conns -> {"none", "running", "exited", "killed"}]
  /\ child \in [Conns -> {"none", "running", "exited", "killed"}]
  /\ holding \in [Conns -> BOOLEAN]
  /\ limits \in [Conns -> [leader : 0..Calls, child : 0..Calls]]
  /\ total \in [Conns -> [Streams -> 0..MaxOut]]
  /\ buf \in [Conns -> [Streams -> [kept : 0..Cap, rest : 0..Cap, hit : BOOLEAN]]]
  /\ resp \in [Conns -> {"none", "error", "exit", "timedout"}]

\* A job that was killed at its deadline is never reported as one that finished:
\* execute looks at ctx.Err() after Wait, so the kill comes before the look.
KilledIsNotExit == \A c \in Conns : resp[c] = "exit" => leader[c] = "exited"

\* "TimedOut means the guest killed the job" (guestproto), the part about the
\* effect: once a timeout is reported, leader and child are over, also a child
\* that outlived the leader.
TimeoutEndsJob ==
  \A c \in Conns : resp[c] = "timedout" =>
    leader[c] # "running" /\ child[c] # "running"

\* limitedBuffer: what is returned is everything the job wrote, or its first Cap
\* bytes with the mark "[truncated]".
TruncationHonest ==
  \A c \in Conns, s \in Streams :
    /\ buf[c][s].kept = IF total[c][s] <= Cap THEN total[c][s] ELSE Cap
    /\ buf[c][s].hit <=> total[c][s] > Cap

\* What Wait may hang on after the deadline: CommandContext has killed the leader,
\* also one that had just been started, so only a child with its pipes is left.
OnlyPipesBlock ==
  \A c \in Conns : pc[c] = "wait" /\ late[c] =>
    PipesClosed(c) \/ (leader[c] # "running" /\ child[c] = "running" /\ holding[c])

\* What is ahead of handle, at most.
JobAhead(c) ==
  (CASE pc[c] = "read" -> 8 [] pc[c] = "limit" -> 2 + (Calls - limits[c].leader) [] pc[c] = "wait" -> 1
     [] OTHER -> 0)
  + (IF late[c] THEN 0 ELSE 1)

\* Every step of handle and of its deadline brings the answer nearer, and no job,
\* whatever it writes or forks, takes a step back.
AgentDescends ==
  [][\A c \in Conns : JobAhead(c)' < JobAhead(c) \/ UNCHANGED <<pc[c], late[c], limits[c].leader>>]_agentVars

\* "One connection carries one JSON request and one JSON response" (guestproto):
\* a job that was started is answered, however long it runs.  The one exception
\* is a child that outlives the leader with its pipes: Wait has no WaitDelay, and
\* the group is only killed after Wait.
EveryJobAnswered ==
  \A c \in Conns : pc[c] = "limit" ~>
    \/ pc[c] = "closed"
    \/ leader[c] # "running" /\ child[c] = "running" /\ holding[c]
=============================================================================
