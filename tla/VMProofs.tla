------------------------------ MODULE VMProofs -----------------------------
(***************************************************************************)
(* Proofs about the two components that give a microVM its disk and its    *)
(* work: the agent in the guest and the pool of rootfs clones.  They share *)
(* no state, and each is proved about its own specification.               *)
(***************************************************************************)
EXTENDS FilePool, GuestAgent, FiniteSetTheorems, TLAPS

-----------------------------------------------------------------------------
(* GuestAgent, for any number of connections, any cap and any amount of    *)
(* output.  The connections share nothing, so the invariant is a statement *)
(* about one of them.                                                      *)

\* A process is killed by the deadline or by the answer of execute only, and an
\* answer ends the connection.
Story(c) ==
  /\ pc[c] = "read" => leader[c] = "none" /\ child[c] = "none" /\ ~late[c]
  /\ pc[c] \in {"limit", "wait"} => leader[c] # "none"
  /\ leader[c] = "killed" => late[c] \/ pc[c] = "closed"
  /\ resp[c] # "none" => pc[c] = "closed"
  /\ pc[c] = "closed" => leader[c] # "running"
  /\ resp[c] = "exit" => leader[c] = "exited"
  /\ resp[c] = "timedout" => child[c] # "running"

\* What a limitedBuffer holds of t bytes.
Faithful(b, t) ==
  /\ b.kept + b.rest = Cap
  /\ b.kept = IF t <= Cap THEN t ELSE Cap
  /\ b.hit <=> t > Cap

GInv ==
  /\ AgentTypeOK
  /\ \A c \in Conns : Story(c)
  /\ \A c \in Conns, s \in Streams : Faithful(buf[c][s], total[c][s])

Buffers == [kept : 0..Cap, rest : 0..Cap, hit : BOOLEAN]

-----------------------------------------------------------------------------
\* limitedBuffer.Write keeps the first Cap bytes and says when there were more.
LEMMA WriteKeeps ==
  ASSUME NEW b \in Buffers, NEW t \in Nat, NEW n \in Nat \ {0}, Faithful(b, t)
  PROVE  Written(b, n) \in Buffers /\ Faithful(Written(b, n), t + n)
<1>0. Cap \in Nat /\ b.kept \in 0..Cap /\ b.rest \in 0..Cap /\ b.hit \in BOOLEAN
  BY AgentConfig DEF Buffers
<1>k. b.kept + b.rest = Cap /\ b.kept = (IF t <= Cap THEN t ELSE Cap)
  BY DEF Faithful
<1>h. b.hit <=> t > Cap
  BY DEF Faithful
<1>1. CASE b.rest <= 0
  <2>1. Written(b, n) = [b EXCEPT !.hit = TRUE]
    BY <1>1 DEF Written
  <2>2. /\ Written(b, n).kept = b.kept /\ Written(b, n).rest = b.rest /\ Written(b, n).hit = TRUE
        /\ Written(b, n) \in Buffers
    BY <2>1 DEF Buffers
  <2>3. b.kept + b.rest = Cap /\ b.kept = (IF t + n <= Cap THEN t + n ELSE Cap) /\ t + n > Cap
    BY <1>0, <1>k, <1>1
  <2>q. QED
    BY <2>2, <2>3 DEF Faithful
<1>2. CASE b.rest > 0 /\ n > b.rest
  <2>1. Written(b, n) = [kept |-> b.kept + b.rest, rest |-> 0, hit |-> TRUE]
    BY <1>0, <1>2 DEF Written
  <2>2. Written(b, n) = [kept |-> Cap, rest |-> 0, hit |-> TRUE]
    BY <1>k, <2>1
  <2>3. Written(b, n) \in Buffers
    BY <1>0, <2>2 DEF Buffers
  <2>4. t + n > Cap
    BY <1>0, <1>k, <1>2
  <2>q. QED
    BY <1>0, <2>2, <2>3, <2>4 DEF Faithful
<1>3. CASE b.rest > 0 /\ n <= b.rest
  <2>1. Written(b, n) = [b EXCEPT !.kept = @ + n, !.rest = @ - n]
    BY <1>0, <1>3 DEF Written
  <2>2. b.kept + n \in 0..Cap /\ b.rest - n \in 0..Cap /\ (b.kept + n) + (b.rest - n) = Cap
    BY <1>0, <1>k, <1>3
  <2>3. /\ Written(b, n).kept = b.kept + n /\ Written(b, n).rest = b.rest - n /\ Written(b, n).hit = b.hit
        /\ Written(b, n) \in Buffers
    BY <2>1, <2>2 DEF Buffers
  <2>4. t + n <= Cap /\ b.kept + n = t + n
    BY <1>0, <1>k, <1>3
  <2>5. b.hit <=> t + n > Cap
    <3>1. ~(t > Cap) /\ ~(t + n > Cap)
      BY <1>0, <2>4
    <3>q. QED
      BY <1>h, <3>1
  <2>q. QED
    BY <2>2, <2>3, <2>4, <2>5 DEF Faithful
<1>q. QED
  BY <1>0, <1>1, <1>2, <1>3

\* The agent has no connection yet.
LEMMA InitGInv == AgentInit => GInv
<1> SUFFICES ASSUME AgentInit PROVE GInv
  OBVIOUS
<1>1. Cap \in Nat /\ MaxOut \in Nat /\ 0 \in 0..Calls /\ 0 \in 0..Cap /\ Cap \in 0..Cap /\ 0 \in 0..MaxOut
  BY AgentConfig DEF Calls
<1>2. Empty \in Buffers /\ Faithful(Empty, 0)
  BY <1>1 DEF Empty, Buffers, Faithful
<1>3. AgentTypeOK
  BY <1>1, <1>2 DEF AgentInit, AgentTypeOK, Buffers
<1>4. \A c \in Conns : Story(c)
  BY DEF AgentInit, Story
<1>5. \A c \in Conns, s \in Streams : Faithful(buf[c][s], total[c][s])
  BY <1>2 DEF AgentInit
<1>q. QED
  BY <1>3, <1>4, <1>5 DEF GInv

\* What a step of another connection leaves alone.
ofConn(c) == <<pc[c], late[c], leader[c], child[c], resp[c]>>

\* The story of a connection depends on its own state only.
LEMMA StoryFrame ==
  ASSUME NEW c \in Conns, Story(c), UNCHANGED ofConn(c) PROVE Story(c)'
BY DEF Story, ofConn

\* The steps that end with an answer or move pc: handle and execute.
LEMMA AgentStep ==
  ASSUME GInv, NEW c \in Conns, Agent(c) PROVE GInv'
<1>0. AgentTypeOK /\ \A d \in Conns : Story(d)
  BY DEF GInv
<1>1. UNCHANGED outVars
  BY DEF Agent, ReadFails, StartFails, Start, SetLimit, LimitsSet, LimitFails, Waited, Deadline
<1>2. \A d \in Conns \ {c} : UNCHANGED ofConn(d)
  BY <1>0 DEF AgentTypeOK, ofConn, Agent, ReadFails, StartFails, Start, SetLimit, LimitsSet, LimitFails, Waited,
     Deadline, Goto, Answer, KillGroup, procVars
<1>3. limits' \in [Conns -> [leader : 0..Calls, child : 0..Calls]]
  <2>1. CASE SetLimit(c)
    <3>1. limits[c].leader + 1 \in 0..Calls
      <4>1. limits[c].leader \in 0..Calls /\ limits[c].leader < Calls
        BY <1>0, <2>1 DEF SetLimit, AgentTypeOK
      <4>q. QED
        BY <4>1 DEF Calls
    <3>q. QED
      BY ZenonT(30), <1>0, <2>1, <3>1 DEF SetLimit, AgentTypeOK
  <2>2. CASE UNCHANGED limits
    BY <1>0, <2>2 DEF AgentTypeOK
  <2>q. QED
    BY <2>1, <2>2 DEF Agent, ReadFails, StartFails, Start, LimitsSet, LimitFails, Waited, Deadline
<1>4. /\ pc' \in [Conns -> {"read", "limit", "wait", "closed"}]
      /\ late' \in [Conns -> BOOLEAN]
      /\ leader' \in [Conns -> {"none", "running", "exited", "killed"}]
      /\ child' \in [Conns -> {"none", "running", "exited", "killed"}]
      /\ holding' \in [Conns -> BOOLEAN]
      /\ resp' \in [Conns -> {"none", "error", "exit", "timedout"}]
      /\ Story(c)'
  <2>1. CASE ReadFails(c) \/ StartFails(c)
    BY ZenonT(30), <1>0, <2>1 DEF ReadFails, StartFails, Goto, Answer, procVars, AgentTypeOK, Story
  <2>2. CASE Start(c)
    BY <1>0, <2>2 DEF Start, Goto, AgentTypeOK, Story
  <2>3. CASE SetLimit(c) \/ LimitsSet(c)
    BY ZenonT(30), <1>0, <2>3 DEF SetLimit, LimitsSet, Goto, procVars, AgentTypeOK, Story
  <2>4. CASE LimitFails(c)
    BY <1>0, <2>4 DEF LimitFails, KillGroup, GroupKilled, Answer, Goto, AgentTypeOK, Story
  <2>5. CASE Waited(c)
    <3>0. /\ pc[c] = "wait" /\ leader[c] \in {"exited", "killed"} /\ UNCHANGED late
          /\ pc' = [pc EXCEPT ![c] = "closed"]
      BY <1>0, <2>5 DEF Waited, PipesClosed, Answer, Goto, AgentTypeOK, Story
    <3>1. CASE late[c]
      <4>1. /\ leader' = [leader EXCEPT ![c] = GroupKilled(@)] /\ child' = [child EXCEPT ![c] = GroupKilled(@)]
            /\ UNCHANGED holding /\ resp' = [resp EXCEPT ![c] = "timedout"]
        BY <2>5, <3>1 DEF Waited, TimedOut, KillGroup, Answer
      <4>q. QED
        BY <1>0, <3>0, <3>1, <4>1 DEF GroupKilled, AgentTypeOK, Story
    <3>2. CASE ~late[c]
      <4>1. UNCHANGED <<leader, child, holding>> /\ resp' = [resp EXCEPT ![c] = "exit"]
        BY <2>5, <3>2 DEF Waited, TimedOut, Answer, procVars
      <4>2. leader[c] = "exited"
        BY <1>0, <3>0, <3>2 DEF Story
      <4>q. QED
        BY <1>0, <3>0, <4>1, <4>2 DEF AgentTypeOK, Story
    <3>q. QED
      BY <3>1, <3>2
  <2>6. CASE Deadline(c)
    BY <1>0, <2>6 DEF Deadline, GroupKilled, AgentTypeOK, Story
  <2>q. QED
    BY <2>1, <2>2, <2>3, <2>4, <2>5, <2>6 DEF Agent
<1>5. AgentTypeOK'
  BY <1>0, <1>1, <1>3, <1>4 DEF AgentTypeOK, outVars
<1>6. \A d \in Conns : Story(d)'
  BY <1>0, <1>2, <1>4, StoryFrame
<1>q. QED
  BY <1>1, <1>5, <1>6 DEF GInv, outVars

\* The job: it writes, forks and ends.
LEMMA JobStep ==
  ASSUME GInv, NEW c \in Conns, Job(c) PROVE GInv'
<1>0. AgentTypeOK /\ \A d \in Conns : Story(d)
  BY DEF GInv
<1>1. CASE Fork(c) \/ LeaderExits(c) \/ ChildExits(c)
  <2>1. UNCHANGED <<pc, late, total, buf, resp>>
    BY <1>1 DEF Fork, LeaderExits, ChildExits, outVars
  <2>2. /\ leader' \in [Conns -> {"none", "running", "exited", "killed"}]
        /\ child' \in [Conns -> {"none", "running", "exited", "killed"}]
        /\ holding' \in [Conns -> BOOLEAN]
        /\ \A d \in Conns \ {c} : UNCHANGED ofConn(d)
        /\ Story(c)'
    <3>1. CASE Fork(c)
      <4>1. /\ leader[c] = "running" /\ leader' = leader /\ child' = [child EXCEPT ![c] = "running"]
            /\ \E h \in BOOLEAN : holding' = [holding EXCEPT ![c] = h]
        BY <3>1, AgentConfig DEF Fork
      <4>2. resp[c] = "none"
        BY <1>0, <4>1 DEF Story, AgentTypeOK
      <4>3. holding' \in [Conns -> BOOLEAN]
        BY <1>0, <4>1 DEF AgentTypeOK
      <4>q. QED
        BY <1>0, <2>1, <4>1, <4>2, <4>3 DEF AgentTypeOK, Story, ofConn
    <3>2. CASE LeaderExits(c)
      BY <1>0, <2>1, <3>2 DEF LeaderExits, AgentTypeOK, Story, ofConn
    <3>3. CASE ChildExits(c)
      BY <1>0, <2>1, <3>3 DEF ChildExits, AgentTypeOK, Story, ofConn
    <3>q. QED
      BY <1>1, <3>1, <3>2, <3>3
  <2>3. limits' \in [Conns -> [leader : 0..Calls, child : 0..Calls]]
    <3>1. CASE UNCHANGED limits
      BY <1>0, <3>1 DEF AgentTypeOK
    <3>2. CASE limits' = [limits EXCEPT ![c].child = limits[c].leader]
      <4> DEFINE L == [leader : 0..Calls, child : 0..Calls]
                 l == [limits[c] EXCEPT !.child = limits[c].leader]
      <4>1. limits \in [Conns -> L]
        BY <1>0 DEF AgentTypeOK
      <4>2. limits[c] \in L /\ limits[c].leader \in 0..Calls
        BY <4>1
      <4>3. l \in L
        BY <4>2
      <4>4. limits' = [limits EXCEPT ![c] = l]
        BY <3>2
      <4> HIDE DEF L, l
      <4>5. limits' \in [Conns -> L]
        BY <4>1, <4>3, <4>4
      <4>q. QED
        BY <4>5 DEF L
    <3>q. QED
      BY <1>1, <3>1, <3>2 DEF Fork, LeaderExits, ChildExits
  <2>4. AgentTypeOK'
    BY <1>0, <2>1, <2>2, <2>3 DEF AgentTypeOK
  <2>5. \A d \in Conns : Story(d)'
    BY <1>0, <2>2, StoryFrame
  <2>q. QED
    BY <2>1, <2>4, <2>5 DEF GInv
<1>2. ASSUME NEW s \in Streams, Output(c, s) PROVE GInv'
  <2>1. PICK n \in 1..(MaxOut - total[c][s]) :
          /\ total' = [total EXCEPT ![c][s] = @ + n]
          /\ buf' = [buf EXCEPT ![c][s] = Written(@, n)]
    BY <1>2 DEF Output
  <2>2. UNCHANGED <<pc, late, leader, child, holding, limits, resp>>
    BY <1>2 DEF Output, procVars
  <2>3. total[c][s] \in 0..MaxOut /\ buf[c][s] \in Buffers /\ MaxOut \in Nat
    BY <1>0, AgentConfig DEF AgentTypeOK, Buffers
  <2>4. n \in Nat \ {0} /\ total[c][s] + n \in 0..MaxOut /\ total[c][s] \in Nat
    BY <2>3
  <2>5. Written(buf[c][s], n) \in Buffers /\ Faithful(Written(buf[c][s], n), total[c][s] + n)
    BY <2>3, <2>4, WriteKeeps DEF GInv
  <2>6. total' \in [Conns -> [Streams -> 0..MaxOut]]
    BY <1>0, <2>1, <2>4 DEF AgentTypeOK
  <2>7. buf' \in [Conns -> [Streams -> Buffers]]
    BY <1>0, <2>1, <2>5 DEF AgentTypeOK, Buffers
  <2>8. AgentTypeOK'
    BY <1>0, <2>2, <2>6, <2>7 DEF AgentTypeOK, Buffers
  <2>9. \A d \in Conns : Story(d)'
    BY <1>0, <2>2, StoryFrame DEF ofConn
  <2>10. ASSUME NEW d \in Conns, NEW u \in Streams PROVE Faithful(buf'[d][u], total'[d][u])
    <3>1. CASE d = c /\ u = s
      <4>1. buf'[c][s] = Written(buf[c][s], n) /\ total'[c][s] = total[c][s] + n
        BY <1>0, <2>1 DEF AgentTypeOK
      <4>q. QED
        BY <2>5, <3>1, <4>1
    <3>2. CASE ~(d = c /\ u = s)
      <4>1. buf'[d][u] = buf[d][u] /\ total'[d][u] = total[d][u]
        BY <1>0, <2>1, <3>2 DEF AgentTypeOK
      <4>q. QED
        BY <4>1 DEF GInv
    <3>q. QED
      BY <3>1, <3>2
  <2>q. QED
    BY <2>8, <2>9, <2>10 DEF GInv, Faithful
<1>q. QED
  BY <1>1, <1>2 DEF Job

\* The invariant holds in every state of the agent.
THEOREM AgentInvariance == AgentSpec => []GInv
<1>1. GInv /\ UNCHANGED agentVars => GInv'
  BY DEF GInv, AgentTypeOK, Story, Faithful, agentVars, procVars, outVars
<1>2. GInv /\ [AgentNext]_agentVars => GInv'
  BY <1>1, AgentStep, JobStep DEF AgentNext
<1>q. QED
  BY <1>2, InitGInv, PTL DEF AgentSpec

\* Every variable keeps its type; no buffer ever holds more than MaxOutputBytes.
THEOREM AgentTypeCorrect == AgentSpec => []AgentTypeOK
<1>1. GInv => AgentTypeOK
  BY DEF GInv
<1>q. QED
  BY <1>1, AgentInvariance, PTL

\* A job that was killed is never reported as one that finished by itself.
THEOREM ExitsAreExits == AgentSpec => []KilledIsNotExit
<1>1. GInv => KilledIsNotExit
  BY DEF GInv, Story, KilledIsNotExit
<1>q. QED
  BY <1>1, AgentInvariance, PTL

\* Once a timeout is reported neither the leader nor its child runs.
THEOREM TimeoutsEndJobs == AgentSpec => []TimeoutEndsJob
<1>1. GInv => TimeoutEndsJob
  BY DEF GInv, Story, TimeoutEndsJob
<1>q. QED
  BY <1>1, AgentInvariance, PTL

\* The output returned is all of it, or its first MaxOutputBytes with the mark.
THEOREM TruncationIsHonest == AgentSpec => []TruncationHonest
<1>1. GInv => TruncationHonest
  BY DEF GInv, Faithful, TruncationHonest
<1>q. QED
  BY <1>1, AgentInvariance, PTL

\* The deadline has passed: the leader is over.
LateIsOver == \A c \in Conns : late[c] => leader[c] # "running"

\* After the deadline execute can only hang on the pipes of a child that lives on.
THEOREM OnlyPipesHold == AgentSpec => []OnlyPipesBlock
<1>1. AgentInit => LateIsOver
  BY DEF AgentInit, LateIsOver
<1>2. GInv /\ LateIsOver /\ [AgentNext]_agentVars => LateIsOver'
  <2> SUFFICES ASSUME GInv, LateIsOver, [AgentNext]_agentVars, NEW d \in Conns, late'[d]
               PROVE  leader'[d] # "running"
    BY DEF LateIsOver
  <2>t. late \in [Conns -> BOOLEAN] /\ leader \in [Conns -> {"none", "running", "exited", "killed"}]
    BY DEF GInv, AgentTypeOK
  <2>1. CASE UNCHANGED <<late, leader>>
    BY <2>1 DEF LateIsOver
  <2>2. ASSUME NEW c \in Conns, NEW s, s # "running", UNCHANGED late, leader' = [leader EXCEPT ![c] = s]
        PROVE  leader'[d] # "running"
    BY <2>2, <2>t DEF LateIsOver
  <2>3. ASSUME NEW c \in Conns, Start(c) PROVE leader'[d] # "running"
    <3>1. ~late[c] /\ UNCHANGED late /\ leader' = [leader EXCEPT ![c] = "running"]
      BY <2>3 DEF Start, GInv, Story
    <3>2. d # c
      BY <3>1
    <3>q. QED
      BY <3>1, <3>2, <2>t DEF LateIsOver
  <2>4. ASSUME NEW c \in Conns, Deadline(c) PROVE leader'[d] # "running"
    <3>1. /\ late' = [late EXCEPT ![c] = TRUE]
          /\ leader' = [leader EXCEPT ![c] = GroupKilled(leader[c])] /\ GroupKilled(leader[c]) # "running"
      BY <2>4 DEF Deadline, GroupKilled
    <3>2. CASE d = c
      BY <3>1, <3>2, <2>t
    <3>3. CASE d # c
      BY <3>1, <3>3, <2>t DEF LateIsOver
    <3>q. QED
      BY <3>2, <3>3
  <2>5. ASSUME NEW c \in Conns, ReadFails(c) \/ StartFails(c) \/ SetLimit(c) \/ LimitsSet(c)
        PROVE  leader'[d] # "running"
    BY <2>5, <2>1 DEF ReadFails, StartFails, SetLimit, LimitsSet, procVars
  <2>6. ASSUME NEW c \in Conns, LimitFails(c) \/ Waited(c) PROVE leader'[d] # "running"
    <3>1. \/ UNCHANGED <<late, leader>>
          \/ UNCHANGED late /\ leader' = [leader EXCEPT ![c] = GroupKilled(leader[c])]
      BY <2>6 DEF LimitFails, Waited, KillGroup, procVars
    <3>2. GroupKilled(leader[c]) # "running"
      BY DEF GroupKilled
    <3>q. QED
      BY <2>1, <2>2, <3>1, <3>2
  <2>7. ASSUME NEW c \in Conns, Job(c) PROVE leader'[d] # "running"
    <3>1. \/ UNCHANGED <<late, leader>>
          \/ UNCHANGED late /\ leader' = [leader EXCEPT ![c] = "exited"]
      BY <2>7 DEF Job, Output, Fork, LeaderExits, ChildExits, procVars
    <3>q. QED
      BY <2>1, <2>2, <3>1
  <2>8. CASE UNCHANGED agentVars
    BY <2>8, <2>1 DEF agentVars, procVars
  <2>q. QED
    BY <2>3, <2>4, <2>5, <2>6, <2>7, <2>8 DEF AgentNext, Agent
<1>3. LateIsOver => OnlyPipesBlock
  BY DEF LateIsOver, OnlyPipesBlock, PipesClosed
<1>q. QED
  BY <1>1, <1>2, <1>3, AgentInvariance, PTL DEF AgentSpec

\* The count of a connection, from what it depends on.
Count(l, k, z) ==
  (CASE l = "read" -> 8 [] l = "limit" -> 2 + (Calls - k) [] l = "wait" -> 1 [] OTHER -> 0)
  + (IF z THEN 0 ELSE 1)

\* The steps of handle count down.
LEMMA CountDown ==
  ASSUME NEW k \in 0 .. Calls, NEW z \in BOOLEAN
  PROVE  /\ Count("closed", k, z) < Count("read", k, z) /\ Count("limit", k, z) < Count("read", k, z)
         /\ k < Calls => Count("limit", k + 1, z) < Count("limit", k, z)
         /\ Count("wait", k, z) < Count("limit", k, z)
         /\ Count("closed", k, z) < Count("limit", k, z) /\ Count("closed", k, z) < Count("wait", k, z)
         /\ \A l : Count(l, k, TRUE) < Count(l, k, FALSE)
<1>1. \A l : Count(l, k, TRUE) < Count(l, k, FALSE)
  BY DEF Count, Calls
<1>2. Count("closed", k, z) < Count("read", k, z) /\ Count("limit", k, z) < Count("read", k, z)
  BY DEF Count, Calls
<1>3. k < Calls => Count("limit", k + 1, z) < Count("limit", k, z)
  BY DEF Count, Calls
<1>4. /\ Count("wait", k, z) < Count("limit", k, z)
      /\ Count("closed", k, z) < Count("limit", k, z) /\ Count("closed", k, z) < Count("wait", k, z)
  BY DEF Count, Calls
<1>q. QED
  BY <1>1, <1>2, <1>3, <1>4, Zenon

\* Every step of handle brings the answer nearer and no step of the job puts it off.
THEOREM AnswersComeNearer == AgentSpec => AgentDescends
<1> DEFINE near(c) == JobAhead(c)' < JobAhead(c) \/ UNCHANGED <<pc[c], late[c], limits[c].leader>>
<1>1. AgentTypeOK /\ [AgentNext]_agentVars =>
        [\A c \in Conns : JobAhead(c)' < JobAhead(c) \/ UNCHANGED <<pc[c], late[c], limits[c].leader>>]_agentVars
  <2> SUFFICES ASSUME AgentTypeOK, [AgentNext]_agentVars, NEW d \in Conns PROVE near(d)
    OBVIOUS
  <2>t. /\ pc \in [Conns -> {"read", "limit", "wait", "closed"}] /\ late \in [Conns -> BOOLEAN]
        /\ DOMAIN limits = Conns /\ \A c \in Conns : limits[c].leader \in 0 .. Calls
    BY DEF AgentTypeOK
  <2>d. /\ JobAhead(d) = Count(pc[d], limits[d].leader, late[d])
        /\ JobAhead(d)' = Count(pc'[d], limits'[d].leader, late'[d])
    BY DEF JobAhead, Count
  <2>l. limits[d].leader \in 0 .. Calls /\ late[d] \in BOOLEAN
    BY <2>t
  <2>1. ASSUME pc'[d] = pc[d], late'[d] = late[d], limits'[d].leader = limits[d].leader PROVE near(d)
    BY <2>1
  <2>2. ASSUME NEW c \in Conns, NEW to, pc' = [pc EXCEPT ![c] = to], UNCHANGED <<late, limits>>,
               Count(to, limits[c].leader, late[c]) < Count(pc[c], limits[c].leader, late[c])
        PROVE  near(d)
    <3>1. CASE c = d
      BY <2>2, <2>t, <2>d, <3>1
    <3>2. CASE c # d
      BY <2>1, <2>2, <2>t, <3>2
    <3>q. QED
      BY <3>1, <3>2
  <2>3. ASSUME NEW c \in Conns, ReadFails(c) \/ StartFails(c) \/ Start(c) PROVE near(d)
    <3>1. /\ pc[c] = "read" /\ UNCHANGED <<late, limits>>
          /\ pc' = [pc EXCEPT ![c] = "closed"] \/ pc' = [pc EXCEPT ![c] = "limit"]
      BY <2>3 DEF ReadFails, StartFails, Start, Answer, Goto
    <3>2. limits[c].leader \in 0 .. Calls /\ late[c] \in BOOLEAN
      BY <2>t
    <3>q. QED
      BY <2>2, <3>1, <3>2, CountDown, Zenon
  <2>4. ASSUME NEW c \in Conns, LimitsSet(c) \/ LimitFails(c) PROVE near(d)
    <3>1. /\ pc[c] = "limit" /\ UNCHANGED <<late, limits>>
          /\ pc' = [pc EXCEPT ![c] = "closed"] \/ pc' = [pc EXCEPT ![c] = "wait"]
      BY <2>4 DEF LimitsSet, LimitFails, Answer, Goto
    <3>2. limits[c].leader \in 0 .. Calls /\ late[c] \in BOOLEAN
      BY <2>t
    <3>q. QED
      BY <2>2, <3>1, <3>2, CountDown, Zenon
  <2>5. ASSUME NEW c \in Conns, Waited(c) PROVE near(d)
    <3>1. pc[c] = "wait" /\ UNCHANGED <<late, limits>> /\ pc' = [pc EXCEPT ![c] = "closed"]
      BY <2>5 DEF Waited, Answer, Goto
    <3>2. limits[c].leader \in 0 .. Calls /\ late[c] \in BOOLEAN
      BY <2>t
    <3>q. QED
      BY <2>2, <3>1, <3>2, CountDown, Zenon
  <2>6. ASSUME NEW c \in Conns, SetLimit(c) PROVE near(d)
    <3>1. /\ pc[c] = "limit" /\ UNCHANGED <<pc, late>> /\ limits[c].leader < Calls
          /\ limits' = [limits EXCEPT ![c].leader = @ + 1]
      BY <2>6 DEF SetLimit
    <3>2. CASE c = d
      <4>1. limits'[d].leader = limits[d].leader + 1
        BY <3>1, <3>2 DEF AgentTypeOK
      <4>2. Count("limit", limits[d].leader + 1, late[d]) < Count("limit", limits[d].leader, late[d])
        BY <2>l, <3>1, <3>2, CountDown, Zenon
      <4>q. QED
        BY <2>d, <3>1, <3>2, <4>1, <4>2
    <3>3. CASE c # d
      <4>1. limits'[d] = limits[d]
        BY <2>t, <3>1, <3>3
      <4>q. QED
        BY <2>1, <3>1, <4>1, Zenon
    <3>q. QED
      BY <3>2, <3>3
  <2>7. ASSUME NEW c \in Conns, Deadline(c) PROVE near(d)
    <3>1. ~late[c] /\ UNCHANGED <<pc, limits>> /\ late' = [late EXCEPT ![c] = TRUE]
      BY <2>7 DEF Deadline
    <3>2. CASE c = d
      <4>1. late[d] = FALSE /\ late'[d] = TRUE /\ pc'[d] = pc[d] /\ limits'[d].leader = limits[d].leader
        BY <2>t, <3>1, <3>2
      <4>2. Count(pc[d], limits[d].leader, TRUE) < Count(pc[d], limits[d].leader, FALSE)
        BY <2>l, CountDown, Zenon
      <4>q. QED
        BY <2>d, <4>1, <4>2, Zenon
    <3>3. CASE c # d
      BY <2>1, <2>t, <3>1, <3>3, Zenon
    <3>q. QED
      BY <3>2, <3>3
  <2>8. ASSUME NEW c \in Conns, Job(c) PROVE near(d)
    <3>1. CASE UNCHANGED <<pc, late, limits>>
      BY <2>1, <3>1
    <3>2. CASE Fork(c)
      <4>1. UNCHANGED <<pc, late>> /\ limits' = [limits EXCEPT ![c].child = limits[c].leader]
        BY <3>2 DEF Fork
      <4>2. limits'[d].leader = limits[d].leader
        BY <4>1 DEF AgentTypeOK
      <4>q. QED
        BY <2>1, <4>1, <4>2
    <3>q. QED
      BY <2>8, <3>1, <3>2 DEF Job, Output, LeaderExits, ChildExits
  <2>9. CASE UNCHANGED agentVars
    BY <2>9, <2>1 DEF agentVars
  <2>q. QED
    BY <2>3, <2>4, <2>5, <2>6, <2>7, <2>8, <2>9 DEF AgentNext, Agent
<1>q. QED
  BY <1>1, AgentTypeCorrect, PTL DEF AgentSpec, AgentDescends

-----------------------------------------------------------------------------
(* FilePool with one pool over the directory, for any size of the pool and *)
(* any number of boots.  What keeps the disks apart is that a number is    *)
(* issued once: the path ready-n belongs to the fill of n, then to the     *)
(* channel, then to nobody, while its inode goes to the microVM that took  *)
(* it.                                                                     *)

\* One pool over the directory.
Alone == Pools = {Serving}

\* The inodes that ready-n may have named.
Clone(n) == {<<Serving, n>>, <<"old", n>>}

\* Every place of the pool is filled, being filled, to be filled, or lost.
Balance ==
  /\ IsFiniteSet(active)
  /\ pending[Serving] + Cardinality(active) + Len(ready[Serving]) + lost[Serving] = Size

\* The boots that have called Acquire.
Served == {b \in Boots : disk[b] # None}

\* Numbers are issued for the initial clones and for the clones taken.
Demand == seq[Serving] + pending[Serving] <= Size + Cardinality(Served)

\* A fill writes the inode that its path names.
Fills ==
  \A f \in active : /\ f.pool = Serving /\ f.n <= seq[Serving] /\ f.inode = path[f.n]
                    /\ \A g \in active : f.n = g.n => f = g

\* What the channel offers is a finished clone that nobody else has.
Offers ==
  \A k \in DOMAIN ready[Serving] :
    LET n == ready[Serving][k] IN
    /\ n <= seq[Serving] /\ path[n] # None /\ content[path[n]] = "golden"
    /\ \A f \in active : f.n # n
    /\ \A m \in DOMAIN ready[Serving] \ {k} : ready[Serving][m] # n

\* The names of the files.
Names ==
  /\ \A n \in Seqs : path[n] # None => path[n] \in Clone(n)
  /\ \A b \in Boots : disk[b] \in Inodes =>
       disk[b] = <<"own", b>> \/ \E n \in Seqs : n <= seq[Serving] /\ disk[b] \in Clone(n)

PInv == PoolTypeOK /\ Balance /\ Demand /\ Fills /\ Offers /\ Names /\ PrivateDisk

-----------------------------------------------------------------------------
\* The names of inodes do not collide.
LEMMA InodeFacts ==
  ASSUME Alone
  PROVE  /\ \A n \in Seqs : Clone(n) \subseteq Inodes
         /\ \A m, n \in Seqs : \A i \in Clone(m) : i \in Clone(n) => m = n
         /\ \A b \in Boots : <<"own", b>> \in Inodes
         /\ \A b \in Boots, n \in Seqs : <<"own", b>> \notin Clone(n)
         /\ Serving # "old" /\ None \notin Inodes /\ Failed \notin Inodes
<1>1. Serving # "old" /\ Serving # "own" /\ None \notin Inodes /\ Failed \notin Inodes
  BY PoolConfig, PoolNames
<1>2. \A n \in Seqs : Clone(n) \subseteq Inodes
  BY PoolConfig DEF Clone, Inodes
<1>3. \A m, n \in Seqs : \A i \in Clone(m) : i \in Clone(n) => m = n
  BY DEF Clone
<1>4. \A b \in Boots : <<"own", b>> \in Inodes
  BY DEF Inodes
<1>5. \A b \in Boots, n \in Seqs : <<"own", b>> \notin Clone(n)
  BY <1>1 DEF Clone
<1>q. QED
  BY <1>1, <1>2, <1>3, <1>4, <1>5

\* The numbers.
LEMMA Numbers ==
  /\ Size \in Nat \ {0} /\ Cardinality(Boots) \in Nat
  /\ Seqs = 1 .. (Size + Cardinality(Boots)) /\ 1 .. Size \subseteq Seqs
  /\ IsFiniteSet(Served) /\ Cardinality(Served) \in Nat /\ Cardinality(Served) <= Cardinality(Boots)
<1>1. Size \in Nat \ {0} /\ IsFiniteSet(Boots) /\ Served \subseteq Boots
  BY PoolConfig DEF Served
<1>2. Cardinality(Boots) \in Nat
  BY <1>1, FS_CardinalityType
<1>3. IsFiniteSet(Served) /\ Cardinality(Served) \in Nat /\ Cardinality(Served) <= Cardinality(Boots)
  BY <1>1, FS_Subset, FS_CardinalityType
<1>q. QED
  BY <1>1, <1>2, <1>3 DEF Seqs

\* NewFilePool: Size fills are to come and the files of an earlier process are there.
LEMMA InitPInv ==
  ASSUME Alone, PoolInit PROVE PInv
<1>1. PICK left \in SUBSET (1 .. Size) :
        /\ path = [n \in Seqs |-> IF n \in left THEN <<"old", n>> ELSE None]
        /\ content = [i \in Inodes |-> IF i \in {"old"} \X left THEN "partial" ELSE "absent"]
  BY DEF PoolInit
<1>2. path \in [Seqs -> Inodes \cup {None}] /\ content \in [Inodes -> {"absent", "partial", "golden", "dirty"}]
  BY <1>1, InodeFacts DEF Clone
<1>3. PoolTypeOK
  BY <1>2, Numbers, PoolConfig DEF PoolInit, PoolTypeOK, Alone
<1>4. Balance
  BY FS_EmptySet, Numbers, PoolConfig DEF PoolInit, Balance, Alone
<1>5. Served = {}
  BY DEF PoolInit, Served
<1>6. Demand
  BY <1>5, Numbers, PoolConfig DEF PoolInit, Demand, Alone
<1>7. Fills /\ Offers /\ PrivateDisk
  BY InodeFacts, PoolConfig DEF PoolInit, Fills, Offers, PrivateDisk, Alone
<1>8. Names
  BY <1>1, InodeFacts DEF PoolInit, Names, Clone
<1>q. QED
  BY <1>3, <1>4, <1>6, <1>7, <1>8 DEF PInv

\* The types of the one pool.
LEMMA PoolTypes ==
  ASSUME Alone, PoolTypeOK
  PROVE  /\ pending[Serving] \in 0 .. Size /\ seq[Serving] \in Nat /\ lost[Serving] \in 0 .. Size
         /\ ready[Serving] \in Seq(Seqs) /\ Len(ready[Serving]) \in Nat
         /\ DOMAIN ready[Serving] = 1 .. Len(ready[Serving])
         /\ \A k \in DOMAIN ready[Serving] : ready[Serving][k] \in Seqs
<1>1. /\ pending[Serving] \in 0 .. Size /\ seq[Serving] \in {0} \cup Seqs /\ lost[Serving] \in 0 .. Size
      /\ ready[Serving] \in Seq(Seqs)
  BY PoolConfig DEF PoolTypeOK
<1>2. seq[Serving] \in Nat
  BY <1>1, Numbers
<1>3. Len(ready[Serving]) \in Nat /\ DOMAIN ready[Serving] = 1 .. Len(ready[Serving])
  BY <1>1
<1>4. \A k \in DOMAIN ready[Serving] : ready[Serving][k] \in Seqs
  BY <1>1
<1>q. QED
  BY <1>1, <1>2, <1>3, <1>4

\* A fill starts: its number is new, so is its path to everybody.
LEMMA FillStartStep ==
  ASSUME Alone, PInv, FillStart(Serving) PROVE PInv'
<1> DEFINE n == seq[Serving] + 1
           i == IF path[n] = None THEN <<Serving, n>> ELSE path[n]
           f == [pool |-> Serving, n |-> n, inode |-> i]
<1>0. PoolTypeOK /\ Balance /\ Demand /\ Fills /\ Offers /\ Names /\ PrivateDisk
  BY DEF PInv
<1>1. /\ pending[Serving] > 0
      /\ pending' = [pending EXCEPT ![Serving] = @ - 1]
      /\ seq' = [seq EXCEPT ![Serving] = @ + 1]
      /\ active' = active \cup {f}
      /\ path' = [path EXCEPT ![n] = i]
      /\ content' = [content EXCEPT ![i] = "partial"]
      /\ UNCHANGED <<ready, disk, lost>>
  BY DEF FillStart
<1>2. n \in Seqs
  <2> DEFINE a == pending[Serving]   k == seq[Serving]
             v == Cardinality(Served)   w == Cardinality(Boots)
  <2>1. /\ a \in Nat /\ a > 0 /\ k \in Nat
        /\ v \in Nat /\ w \in Nat /\ v <= w /\ Size \in Nat
    <3>1. a \in 0 .. Size /\ k \in Nat
      BY <1>0, PoolTypes
    <3>2. v \in Nat /\ w \in Nat /\ v <= w /\ Size \in Nat
      BY Numbers
    <3>3. a > 0
      BY <1>1
    <3> HIDE DEF a, k, v, w
    <3>q. QED
      BY <3>1, <3>2, <3>3
  <2>2. k + a <= Size + v /\ Seqs = 1 .. (Size + w)
    BY <1>0, Numbers DEF Demand
  <2> HIDE DEF a, k, v, w
  <2>3. k + 1 \in Seqs
    BY <2>1, <2>2
  <2>q. QED
    BY <2>3 DEF k
<1>3. i \in Clone(n) /\ i \in Inodes /\ i # None
  <2>1. <<Serving, n>> \in Clone(n) /\ (path[n] # None => path[n] \in Clone(n))
    BY <1>0, <1>2 DEF Names, Clone
  <2>2. i \in Clone(n)
    BY <2>1
  <2>q. QED
    BY <1>2, <2>2, InodeFacts
<1>4. f \notin active /\ \A g \in active : g.n # n /\ g.n \in Seqs
  BY <1>0, PoolTypes DEF Fills, PoolTypeOK
<1>5. /\ pending'[Serving] = pending[Serving] - 1 /\ seq'[Serving] = n
      /\ path'[n] = i /\ \A m \in Seqs : m # n => path'[m] = path[m]
      /\ content'[i] = "partial" /\ \A j \in Inodes : j # i => content'[j] = content[j]
  BY <1>0, <1>1, <1>2, <1>3, PoolConfig DEF PoolTypeOK
<1>f. /\ n = seq[Serving] + 1 /\ f \in [pool : Pools, n : Seqs, inode : Inodes]
      /\ f.pool = Serving /\ f.n = n /\ f.inode = i
  BY <1>2, <1>3, PoolConfig
<1> HIDE DEF n, i, f
<1>6. PoolTypeOK'
  <2>1. pending' \in [Pools -> 0 .. Size]
    <3>1. pending[Serving] - 1 \in 0 .. Size
      BY <1>0, <1>1, PoolTypes, Numbers
    <3>q. QED
      BY <1>0, <1>1, <3>1 DEF PoolTypeOK
  <2>2. seq' \in [Pools -> {0} \cup Seqs]
    BY <1>0, <1>1, <1>2, <1>f DEF PoolTypeOK
  <2>3. active' \subseteq [pool : Pools, n : Seqs, inode : Inodes]
    BY <1>0, <1>1, <1>f DEF PoolTypeOK
  <2>q. QED
    BY <1>0, <1>1, <1>2, <1>3, <2>1, <2>2, <2>3 DEF PoolTypeOK
<1>7. Balance'
  <2>1. IsFiniteSet(active') /\ Cardinality(active') = Cardinality(active) + 1
    BY <1>0, <1>1, <1>4, FS_AddElement DEF Balance
  <2>2. Cardinality(active) \in Nat
    BY <1>0, FS_CardinalityType DEF Balance
  <2>3. pending[Serving] + Cardinality(active) + Len(ready[Serving]) + lost[Serving] = Size
    BY <1>0 DEF Balance
  <2>4. ready' = ready /\ lost' = lost /\ pending'[Serving] = pending[Serving] - 1
    BY <1>1, <1>5
  <2>5. pending[Serving] \in Nat /\ Len(ready[Serving]) \in Nat /\ lost[Serving] \in Nat /\ Size \in Nat
    BY <1>0, PoolTypes, Numbers
  <2> DEFINE a == pending[Serving]   c == Cardinality(active)
             q == Len(ready[Serving])   l == lost[Serving]
  <2>6. a \in Nat /\ c \in Nat /\ q \in Nat /\ l \in Nat /\ a + c + q + l = Size
    BY <2>2, <2>3, <2>5
  <2>7. pending'[Serving] = a - 1 /\ Cardinality(active') = c + 1 /\ Len(ready'[Serving]) = q /\ lost'[Serving] = l
    BY <2>1, <2>4
  <2> HIDE DEF a, c, q, l
  <2>8. pending'[Serving] + Cardinality(active') + Len(ready'[Serving]) + lost'[Serving] = Size
    BY <2>6, <2>7
  <2>q. QED
    BY <2>1, <2>8 DEF Balance
<1>8. Demand'
  <2>1. Served' = Served
    BY <1>1 DEF Served
  <2> DEFINE a == pending[Serving]   k == seq[Serving]   v == Cardinality(Served)
  <2>2. a \in Nat /\ k \in Nat /\ v \in Nat /\ Size \in Nat
    BY <1>0, PoolTypes, Numbers
  <2>3. k + a <= Size + v
    BY <1>0 DEF Demand
  <2>4. pending'[Serving] = a - 1 /\ seq'[Serving] = k + 1 /\ Cardinality(Served') = v
    BY <1>5, <1>f, <2>1
  <2> HIDE DEF a, k, v
  <2>5. (k + 1) + (a - 1) <= Size + v
    BY <2>2, <2>3
  <2>q. QED
    BY <2>4, <2>5 DEF Demand
<1>9. Fills'
  <2>1. n <= seq'[Serving] /\ \A m \in Seqs : m <= seq[Serving] => m <= seq'[Serving]
    BY <1>0, <1>2, <1>5, <1>f, PoolTypes, Numbers
  <2>2. ASSUME NEW g \in active PROVE g.pool = Serving /\ g.n <= seq'[Serving] /\ g.inode = path'[g.n]
    BY <1>0, <1>4, <1>5, <2>1 DEF Fills
  <2>3. f.pool = Serving /\ f.n <= seq'[Serving] /\ f.inode = path'[f.n]
    BY <1>5, <1>f, <2>1
  <2>4. ASSUME NEW g \in active', NEW h \in active', g.n = h.n PROVE g = h
    <3>1. CASE g \in active /\ h \in active
      BY <1>0, <2>4, <3>1 DEF Fills
    <3>2. CASE g = f \/ h = f
      BY <1>1, <1>4, <1>f, <2>4, <3>2
    <3>q. QED
      BY <1>1, <3>1, <3>2
  <2>5. ASSUME NEW g \in active' PROVE g.pool = Serving /\ g.n <= seq'[Serving] /\ g.inode = path'[g.n]
    BY <1>1, <2>2, <2>3
  <2>q. QED
    BY <2>4, <2>5 DEF Fills
<1>10. Offers'
  <2>1. ASSUME NEW k \in DOMAIN ready[Serving]
        PROVE  /\ ready[Serving][k] \in Seqs /\ ready[Serving][k] <= seq[Serving]
               /\ path[ready[Serving][k]] \in Clone(ready[Serving][k])
    BY <1>0, PoolTypes DEF Offers, Names
  <2>2. ASSUME NEW k \in DOMAIN ready[Serving]
        PROVE  ready[Serving][k] <= n /\ ready[Serving][k] # n
    <3>1. seq[Serving] \in Nat
      BY <1>0, PoolTypes
    <3>2. ready[Serving][k] \in Int /\ ready[Serving][k] <= seq[Serving]
      BY <2>1, Numbers
    <3>q. QED
      BY <1>f, <3>1, <3>2
  <2>3. ASSUME NEW k \in DOMAIN ready[Serving]
        PROVE  path[ready[Serving][k]] \in Inodes /\ path[ready[Serving][k]] # i
    BY <1>2, <1>3, <2>1, <2>2, InodeFacts
  <2>4. ASSUME NEW k \in DOMAIN ready[Serving]
        PROVE  /\ path'[ready[Serving][k]] = path[ready[Serving][k]]
               /\ content'[path[ready[Serving][k]]] = content[path[ready[Serving][k]]]
    BY <1>5, <2>1, <2>2, <2>3
  <2>5. ready' = ready /\ seq'[Serving] = n /\ active' = active \cup {f} /\ f.n = n
    BY <1>1, <1>5, <1>f
  <2>6. ASSUME NEW k \in DOMAIN ready[Serving]
        PROVE  /\ path[ready[Serving][k]] # None /\ content[path[ready[Serving][k]]] = "golden"
               /\ \A g \in active \cup {f} : g.n # ready[Serving][k]
               /\ \A m \in DOMAIN ready[Serving] \ {k} : ready[Serving][m] # ready[Serving][k]
    BY <1>0, <1>f, <2>2 DEF Offers
  <2>q. QED
    BY <2>2, <2>4, <2>5, <2>6, SMTT(20) DEF Offers
<1>11. \A b \in Boots : disk[b] # i
  <2> SUFFICES ASSUME NEW b \in Boots, disk[b] = i PROVE FALSE
    OBVIOUS
  <2>1. path[n] # i
    BY <1>0, <1>2, <1>3 DEF PrivateDisk
  <2>2. disk[b] = <<"own", b>> \/ \E m \in Seqs : m <= seq[Serving] /\ disk[b] \in Clone(m)
    BY <1>0, <1>3 DEF Names
  <2>3. PICK m \in Seqs : m <= seq[Serving] /\ i \in Clone(m)
    BY <1>2, <1>3, <2>2, InodeFacts
  <2>4. m = n
    BY <1>2, <1>3, <2>3, InodeFacts
  <2>q. QED
    BY <1>0, <1>f, <2>3, <2>4, PoolTypes
<1>12. Names'
  <2>1. \A m \in Seqs : path'[m] # None => path'[m] \in Clone(m)
    BY <1>0, <1>3, <1>5 DEF Names
  <2>2. ASSUME NEW m \in Seqs, m <= seq[Serving] PROVE m <= seq'[Serving]
    <3>1. seq[Serving] \in Nat
      BY <1>0, PoolTypes
    <3>2. m \in Int
      BY Numbers
    <3>3. seq'[Serving] = seq[Serving] + 1
      BY <1>5, <1>f
    <3>q. QED
      BY <2>2, <3>1, <3>2, <3>3
  <2>3. disk' = disk
    BY <1>1
  <2>q. QED
    BY <1>0, <2>1, <2>2, <2>3 DEF Names
<1>13. PrivateDisk'
  <2>1. \A b \in Boots : disk[b] \in Inodes => content'[disk[b]] \in {"golden", "dirty"}
    BY <1>0, <1>5, <1>11 DEF PrivateDisk
  <2>2. \A b \in Boots : disk[b] \in Inodes => \A g \in active' : g.inode # disk[b]
    BY <1>0, <1>1, <1>11, <1>f DEF PrivateDisk
  <2>3. \A b \in Boots : disk[b] \in Inodes => \A m \in Seqs : path'[m] # disk[b]
    BY <1>0, <1>5, <1>11 DEF PrivateDisk
  <2>q. QED
    BY <1>0, <1>1, <2>1, <2>2, <2>3 DEF PrivateDisk
<1>q. QED
  BY <1>6, <1>7, <1>8, <1>9, <1>10, <1>12, <1>13 DEF PInv

\* The places of the pool, as numbers.
LEMMA Places ==
  ASSUME Alone, PInv
  PROVE  /\ IsFiniteSet(active) /\ Cardinality(active) \in Nat
         /\ pending[Serving] \in Nat /\ Len(ready[Serving]) \in Nat /\ lost[Serving] \in Nat /\ Size \in Nat
         /\ pending[Serving] + Cardinality(active) + Len(ready[Serving]) + lost[Serving] = Size
<1>1. PoolTypeOK /\ Balance
  BY DEF PInv
<1>2. IsFiniteSet(active) /\ Cardinality(active) \in Nat
  BY <1>1, FS_CardinalityType DEF Balance
<1>3. pending[Serving] \in Nat /\ Len(ready[Serving]) \in Nat /\ lost[Serving] \in Nat /\ Size \in Nat
  BY <1>1, PoolTypes, Numbers
<1>4. pending[Serving] + Cardinality(active) + Len(ready[Serving]) + lost[Serving] = Size
  BY <1>1 DEF Balance
<1>q. QED
  BY <1>2, <1>3, <1>4

\* A fill that ends gives up its place.
LEMMA Ends ==
  ASSUME Alone, PInv, NEW f \in active
  PROVE  /\ IsFiniteSet(active \ {f}) /\ Cardinality(active \ {f}) \in Nat
         /\ pending[Serving] \in Nat /\ Len(ready[Serving]) \in Nat /\ lost[Serving] \in Nat /\ Size \in Nat
         /\ pending[Serving] + Cardinality(active \ {f}) + Len(ready[Serving]) + lost[Serving] + 1 = Size
<1>1. IsFiniteSet(active \ {f}) /\ Cardinality(active \ {f}) = Cardinality(active) - 1
  BY Places, FS_RemoveElement
<1>2. Cardinality(active \ {f}) \in Nat
  BY <1>1, FS_CardinalityType
<1>3. /\ Cardinality(active) \in Nat /\ pending[Serving] \in Nat /\ Len(ready[Serving]) \in Nat /\ lost[Serving] \in Nat /\ Size \in Nat
      /\ pending[Serving] + Cardinality(active) + Len(ready[Serving]) + lost[Serving] = Size
  BY Places
<1>4. pending[Serving] + Cardinality(active \ {f}) + Len(ready[Serving]) + lost[Serving] + 1 = Size
  <2> DEFINE c == Cardinality(active)   d == Cardinality(active \ {f})
             a == pending[Serving]      r == Len(ready[Serving])      l == lost[Serving]
  <2>1. d = c - 1 /\ d \in Nat /\ c \in Nat /\ a \in Nat /\ r \in Nat /\ l \in Nat /\ a + c + r + l = Size
    BY <1>1, <1>2, <1>3
  <2> HIDE DEF c, d, a, r, l
  <2>2. a + d + r + l + 1 = Size
    BY <2>1
  <2>q. QED
    BY <2>2 DEF c, d, a, r, l
<1>q. QED
  BY <1>1, <1>2, <1>3, <1>4

\* A send on the channel puts its element last and moves no other.
LEMMA Appended ==
  ASSUME NEW S, NEW s \in Seq(S), NEW x \in S
  PROVE  /\ Append(s, x) \in Seq(S) /\ Len(Append(s, x)) = Len(s) + 1
         /\ DOMAIN Append(s, x) = 1 .. (Len(s) + 1)
         /\ \A k \in DOMAIN s : Append(s, x)[k] = s[k]
         /\ Append(s, x)[Len(s) + 1] = x
<1>1. Append(s, x) \in Seq(S) /\ Len(Append(s, x)) = Len(s) + 1 /\ Append(s, x)[Len(s) + 1] = x
  OBVIOUS
<1>2. DOMAIN Append(s, x) = 1 .. (Len(s) + 1)
  BY <1>1
<1>3. \A k \in DOMAIN s : Append(s, x)[k] = s[k]
  OBVIOUS
<1>q. QED
  BY <1>1, <1>2, <1>3

\* A fill is done: there is room in the channel, and the clone passes to it.
LEMMA FillDoneStep ==
  ASSUME Alone, PInv, NEW f \in active, FillDone(f) PROVE PInv'
<1>0. PoolTypeOK /\ Balance /\ Demand /\ Fills /\ Offers /\ Names /\ PrivateDisk
  BY DEF PInv
<1>1. /\ f.pool = Serving /\ f.n \in Seqs /\ f.n <= seq[Serving]
      /\ f.inode \in Inodes /\ f.inode = path[f.n] /\ f.inode # None
      /\ \A g \in active : f.n = g.n => f = g
  BY <1>0, InodeFacts DEF Fills, PoolTypeOK
<1>e. /\ Cardinality(active \ {f}) \in Nat /\ pending[Serving] \in Nat /\ Len(ready[Serving]) \in Nat /\ lost[Serving] \in Nat /\ Size \in Nat
      /\ pending[Serving] + Cardinality(active \ {f}) + Len(ready[Serving]) + lost[Serving] + 1 = Size
  BY Ends
<1>2. Len(ready[Serving]) < Size
  BY <1>e
<1>3. /\ active' = active \ {f}
      /\ content' = [content EXCEPT ![f.inode] = "golden"]
      /\ ready' = [ready EXCEPT ![Serving] = Append(@, f.n)]
      /\ UNCHANGED <<path, pending, seq, disk, lost>>
  BY <1>1, <1>2 DEF FillDone
<1>4. /\ ready'[Serving] = Append(ready[Serving], f.n)
      /\ content'[f.inode] = "golden" /\ \A j \in Inodes : j # f.inode => content'[j] = content[j]
  BY <1>0, <1>1, <1>3, PoolConfig DEF PoolTypeOK
<1>5. /\ ready'[Serving] \in Seq(Seqs) /\ Len(ready'[Serving]) = Len(ready[Serving]) + 1
      /\ DOMAIN ready'[Serving] = 1 .. (Len(ready[Serving]) + 1)
      /\ \A k \in DOMAIN ready[Serving] : ready'[Serving][k] = ready[Serving][k]
      /\ ready'[Serving][Len(ready[Serving]) + 1] = f.n
  <2>1. ready[Serving] \in Seq(Seqs)
    BY <1>0, PoolTypes
  <2>q. QED
    BY <1>1, <1>4, <2>1, Appended
<1>6. PoolTypeOK'
  <2>1. ready' \in [Pools -> Seq(Seqs)]
    BY <1>0, <1>3, <1>4, <1>5 DEF PoolTypeOK, Alone
  <2>2. \A p \in Pools : Len(ready'[p]) <= Size
    BY <1>2, <1>5, Places DEF Alone
  <2>3. active' \subseteq [pool : Pools, n : Seqs, inode : Inodes]
    BY <1>0, <1>3 DEF PoolTypeOK
  <2>4. content' \in [Inodes -> {"absent", "partial", "golden", "dirty"}]
    BY <1>0, <1>3 DEF PoolTypeOK
  <2>q. QED
    BY <1>0, <1>3, <2>1, <2>2, <2>3, <2>4 DEF PoolTypeOK
<1>7. Balance'
  <2>1. pending'[Serving] + Cardinality(active') + Len(ready'[Serving]) + lost'[Serving] = Size
    <3> DEFINE d == Cardinality(active \ {f})
               a == pending[Serving]   r == Len(ready[Serving])   l == lost[Serving]
    <3>1. d \in Nat /\ a \in Nat /\ r \in Nat /\ l \in Nat /\ a + d + r + l + 1 = Size
      BY <1>e
    <3>2. pending'[Serving] = a /\ Cardinality(active') = d /\ Len(ready'[Serving]) = r + 1 /\ lost'[Serving] = l
      BY <1>3, <1>5
    <3> HIDE DEF d, a, r, l
    <3>q. QED
      BY <3>1, <3>2
  <2>q. QED
    BY <1>3, <2>1, Ends DEF Balance
<1>8. Demand' /\ Fills' /\ Names'
  BY <1>0, <1>3 DEF Demand, Served, Fills, Names
<1>9. Offers'
  <2> DEFINE last == Len(ready[Serving]) + 1
  <2>1. ASSUME NEW k \in DOMAIN ready[Serving]
        PROVE  /\ ready[Serving][k] <= seq[Serving] /\ path[ready[Serving][k]] # None
               /\ path[ready[Serving][k]] \in Inodes
               /\ content[path[ready[Serving][k]]] = "golden"
               /\ \A g \in active : g.n # ready[Serving][k]
               /\ \A m \in DOMAIN ready[Serving] \ {k} : ready[Serving][m] # ready[Serving][k]
    BY <1>0, PoolTypes DEF Offers, PoolTypeOK
  <2>2. \A k \in DOMAIN ready'[Serving] : k \in DOMAIN ready[Serving] \/ k = last
    BY <1>0, <1>5, PoolTypes
  <2>3. ASSUME NEW k \in DOMAIN ready[Serving]
        PROVE  content'[path[ready[Serving][k]]] = "golden"
    BY <1>4, <2>1
  <2>4. ASSUME NEW k \in DOMAIN ready'[Serving]
        PROVE  /\ ready'[Serving][k] <= seq[Serving] /\ path[ready'[Serving][k]] # None
               /\ content'[path[ready'[Serving][k]]] = "golden"
               /\ \A g \in active' : g.n # ready'[Serving][k]
    <3>1. CASE k \in DOMAIN ready[Serving]
      <4>1. ready'[Serving][k] = ready[Serving][k]
        BY <1>5, <3>1
      <4>2. \A g \in active' : g.n # ready[Serving][k]
        BY <1>3, <2>1, <3>1
      <4>q. QED
        BY <2>1, <2>3, <3>1, <4>1, <4>2
    <3>2. CASE k = last
      BY <1>1, <1>3, <1>4, <1>5, <3>2, ZenonT(40)
    <3>q. QED
      BY <2>2, <3>1, <3>2
  <2>5. ASSUME NEW k \in DOMAIN ready'[Serving], NEW m \in DOMAIN ready'[Serving] \ {k}
        PROVE  ready'[Serving][m] # ready'[Serving][k]
    <3>1. CASE k \in DOMAIN ready[Serving] /\ m \in DOMAIN ready[Serving]
      BY <1>5, <2>1, <3>1
    <3>2. CASE k \in DOMAIN ready[Serving] /\ m = last
      BY <1>5, <2>1, <3>2
    <3>3. CASE k = last /\ m \in DOMAIN ready[Serving]
      BY <1>5, <2>1, <3>3
    <3>q. QED
      BY <2>2, <3>1, <3>2, <3>3
  <2>q. QED
    BY <1>3, <2>4, <2>5 DEF Offers
<1>10. PrivateDisk'
  BY <1>0, <1>3, <1>4, SMTT(20) DEF PrivateDisk
<1>q. QED
  BY <1>6, <1>7, <1>8, <1>9, <1>10 DEF PInv

\* A fill fails: its place is lost and its path is never offered.
LEMMA FillFailsStep ==
  ASSUME Alone, PInv, NEW f \in active, FillFails(f) PROVE PInv'
<1>0. PoolTypeOK /\ Balance /\ Demand /\ Fills /\ Offers /\ Names /\ PrivateDisk
  BY DEF PInv
<1>1. f.pool = Serving
  BY <1>0 DEF Fills
<1>2. /\ active' = active \ {f}
      /\ lost' = [lost EXCEPT ![Serving] = @ + 1]
      /\ UNCHANGED <<pending, seq, ready, path, content, disk>>
  BY <1>1 DEF FillFails
<1>e. /\ Cardinality(active \ {f}) \in Nat /\ pending[Serving] \in Nat /\ Len(ready[Serving]) \in Nat /\ lost[Serving] \in Nat /\ Size \in Nat
      /\ pending[Serving] + Cardinality(active \ {f}) + Len(ready[Serving]) + lost[Serving] + 1 = Size
  BY Ends
<1>3. lost'[Serving] = lost[Serving] + 1
  BY <1>0, <1>2, PoolConfig DEF PoolTypeOK
<1>4. Balance'
  <2>1. pending'[Serving] + Cardinality(active') + Len(ready'[Serving]) + lost'[Serving] = Size
    <3> DEFINE a == pending[Serving]   c == Cardinality(active \ {f})
               q == Len(ready[Serving])   l == lost[Serving]
    <3>1. a \in Nat /\ c \in Nat /\ q \in Nat /\ l \in Nat /\ a + c + q + l + 1 = Size
      BY <1>e
    <3>2. pending'[Serving] = a /\ Cardinality(active') = c /\ Len(ready'[Serving]) = q /\ lost'[Serving] = l + 1
      BY <1>2, <1>3
    <3> HIDE DEF a, c, q, l
    <3>q. QED
      BY <3>1, <3>2
  <2>q. QED
    BY <1>2, <2>1, Ends DEF Balance
<1>5. PoolTypeOK'
  <2>1. lost[Serving] + 1 \in 0 .. Size
    <3> DEFINE a == pending[Serving]   c == Cardinality(active \ {f})
               q == Len(ready[Serving])   l == lost[Serving]
    <3>1. a \in Nat /\ c \in Nat /\ q \in Nat /\ l \in Nat /\ a + c + q + l + 1 = Size
      BY <1>e
    <3> HIDE DEF a, c, q, l
    <3>2. l + 1 \in 0 .. Size
      BY <3>1
    <3>q. QED
      BY <3>2 DEF l
  <2>2. lost' \in [Pools -> 0 .. Size]
    BY <1>0, <1>2, <2>1 DEF PoolTypeOK
  <2>q. QED
    BY <1>0, <1>2, <2>2 DEF PoolTypeOK
<1>6. Demand' /\ Fills' /\ Names'
  BY <1>0, <1>2 DEF Demand, Served, Fills, Names
<1>f. UNCHANGED <<seq, ready, path, content, disk>> /\ active' \subseteq active
  BY <1>2
<1>7. Offers'
  BY <1>0, <1>f DEF Offers
<1>8. PrivateDisk'
  BY <1>0, <1>f DEF PrivateDisk
<1>q. QED
  BY <1>4, <1>5, <1>6, <1>7, <1>8 DEF PInv

\* A boot gets its own clone, or fails: nothing of the pool's directory changes.
LEMMA OwnDisk ==
  ASSUME Alone, PInv, NEW b \in Boots, disk[b] = None, Cloned(b) \/ CloneFailed(b),
         UNCHANGED <<seq, active>>
  PROVE  /\ UNCHANGED path
         /\ content' \in [Inodes -> {"absent", "partial", "golden", "dirty"}]
         /\ disk' \in [Boots -> Inodes \cup {None, Failed}]
         /\ disk'[b] # None /\ \A c \in Boots \ {b} : disk'[c] = disk[c]
         /\ Fills' /\ Names' /\ PrivateDisk'
         /\ \A n \in Seqs : path[n] # None => content'[path[n]] = content[path[n]]
<1> DEFINE own == <<"own", b>>
<1>0. PoolTypeOK /\ Fills /\ Names /\ PrivateDisk
  BY DEF PInv
<1>1. UNCHANGED path
  BY DEF Cloned, CloneFailed
<1>2. own \in Inodes /\ Failed \notin Inodes /\ None \notin Inodes /\ own # None
  BY InodeFacts
<1>3. None # Failed
  BY PoolNames
<1>4. /\ disk'[b] \in {own, Failed} /\ \A c \in Boots \ {b} : disk'[c] = disk[c]
      /\ disk' \in [Boots -> Inodes \cup {None, Failed}]
      /\ content' \in [Inodes -> {"absent", "partial", "golden", "dirty"}]
      /\ disk'[b] = own => content'[own] = "golden"
      /\ \A i \in Inodes : i # own => content'[i] = content[i]
  BY <1>0, <1>2 DEF Cloned, CloneFailed, PoolTypeOK
<1>5. \A n \in Seqs : path[n] # own
  BY <1>0, <1>2, InodeFacts DEF Names
<1>6. \A c \in Boots \ {b} : disk[c] # own
  BY <1>0, <1>2, InodeFacts DEF Names
<1>7. \A f \in active : f.n \in Seqs /\ f.inode \in Inodes /\ f.inode = path[f.n] /\ f.inode # own
  BY <1>0, <1>5 DEF Fills, PoolTypeOK
<1>8. Fills'
  BY <1>0, <1>1 DEF Fills
<1>9. Names'
  <2>1. \A n \in Seqs : path'[n] # None => path'[n] \in Clone(n)
    BY <1>0, <1>1 DEF Names
  <2>2. ASSUME NEW c \in Boots, disk'[c] \in Inodes
        PROVE  disk'[c] = <<"own", c>> \/ \E n \in Seqs : n <= seq[Serving] /\ disk'[c] \in Clone(n)
    BY <1>0, <1>2, <1>4, <2>2 DEF Names
  <2>q. QED
    BY <2>1, <2>2 DEF Names
<1>10. PrivateDisk'
  <2> SUFFICES ASSUME NEW c \in Boots, disk'[c] \in Inodes
               PROVE  /\ content'[disk'[c]] \in {"golden", "dirty"}
                      /\ \A f \in active : f.inode # disk'[c]
                      /\ \A n \in Seqs : path[n] # disk'[c]
                      /\ \A d \in Boots \ {c} : disk'[d] # disk'[c]
    BY <1>1 DEF PrivateDisk
  <2>1. CASE c = b
    BY <1>2, <1>4, <1>5, <1>6, <1>7, <2>1
  <2>2. CASE c # b
    BY <1>0, <1>2, <1>4, <1>6, <2>2 DEF PrivateDisk
  <2>q. QED
    BY <2>1, <2>2
<1>11. \A n \in Seqs : path[n] # None => content'[path[n]] = content[path[n]]
  BY <1>0, <1>4, <1>5 DEF PoolTypeOK
<1>12. disk'[b] # None
  BY <1>2, <1>3, <1>4
<1>q. QED
  BY <1>1, <1>4, <1>8, <1>9, <1>10, <1>11, <1>12

\* Acquire serves one more boot.
LEMMA OneMoreServed ==
  ASSUME Alone, PInv, NEW b \in Boots, disk[b] = None, disk'[b] # None,
         \A c \in Boots \ {b} : disk'[c] = disk[c]
  PROVE  Cardinality(Served') = Cardinality(Served) + 1
<1>1. Served' = Served \cup {b} /\ b \notin Served
  BY DEF Served
<1>q. QED
  BY <1>1, Numbers, FS_AddElement

\* Acquire finds no clone.
LEMMA AcquireMissStep ==
  ASSUME Alone, PInv, NEW b \in Boots, AcquireMiss(b) PROVE PInv'
<1>0. PoolTypeOK /\ Balance /\ Demand /\ Fills /\ Offers /\ Names /\ PrivateDisk
  BY DEF PInv
<1>1. disk[b] = None /\ ready[Serving] = <<>> /\ UNCHANGED <<pending, seq, active, ready, lost>>
  BY DEF AcquireMiss, fillVars
<1>2. /\ UNCHANGED path
      /\ content' \in [Inodes -> {"absent", "partial", "golden", "dirty"}]
      /\ disk' \in [Boots -> Inodes \cup {None, Failed}]
      /\ disk'[b] # None /\ \A c \in Boots \ {b} : disk'[c] = disk[c]
      /\ Fills' /\ Names' /\ PrivateDisk'
  BY <1>1, OwnDisk DEF AcquireMiss
<1>3. PoolTypeOK'
  BY <1>0, <1>1, <1>2 DEF PoolTypeOK
<1>4. Balance'
  BY <1>0, <1>1 DEF Balance
<1>5. Demand'
  <2>1. Cardinality(Served') = Cardinality(Served) + 1
    BY <1>1, <1>2, OneMoreServed
  <2>2. /\ seq[Serving] + pending[Serving] <= Size + Cardinality(Served)
        /\ seq[Serving] \in Nat /\ pending[Serving] \in Nat /\ Cardinality(Served) \in Nat /\ Size \in Nat
    BY <1>0, PoolTypes, Numbers DEF Demand
  <2>3. seq[Serving] + pending[Serving] <= Size + (Cardinality(Served) + 1)
    BY <2>2
  <2>q. QED
    BY <1>1, <2>1, <2>3 DEF Demand
<1>6. Offers'
  BY <1>1 DEF Offers
<1>q. QED
  BY <1>2, <1>3, <1>4, <1>5, <1>6 DEF PInv

\* The guest writes its disk, which nobody else has.
LEMMA GuestWritesStep ==
  ASSUME Alone, PInv, NEW b \in Boots, GuestWrites(b) PROVE PInv'
<1>0. PoolTypeOK /\ Balance /\ Demand /\ Fills /\ Offers /\ Names /\ PrivateDisk
  BY DEF PInv
<1>1. /\ disk[b] \in Inodes
      /\ content' = [content EXCEPT ![disk[b]] = "dirty"]
      /\ UNCHANGED <<pending, seq, active, ready, path, disk, lost>>
  BY DEF GuestWrites, fillVars
<1>2. content'[disk[b]] = "dirty" /\ \A i \in Inodes : i # disk[b] => content'[i] = content[i]
  BY <1>0, <1>1 DEF PoolTypeOK
<1>3. PoolTypeOK'
  BY <1>0, <1>1 DEF PoolTypeOK
<1>4. Balance' /\ Demand' /\ Fills' /\ Names'
  BY <1>0, <1>1 DEF Balance, Demand, Served, Fills, Names
<1>5. \A n \in Seqs : path[n] # None => path[n] \in Inodes /\ path[n] # disk[b]
  BY <1>0, <1>1 DEF PrivateDisk, PoolTypeOK
<1>6. Offers'
  <2>1. \A k \in DOMAIN ready[Serving] : ready[Serving][k] \in Seqs /\ path[ready[Serving][k]] # None
    BY <1>0, PoolTypes DEF Offers
  <2>2. \A k \in DOMAIN ready[Serving] : content'[path[ready[Serving][k]]] = content[path[ready[Serving][k]]]
    BY <1>2, <1>5, <2>1
  <2>3. UNCHANGED <<ready, seq, path, active>>
    BY <1>1
  <2>q. QED
    BY <1>0, <2>2, <2>3 DEF Offers
<1>7. PrivateDisk'
  BY <1>0, <1>1, <1>2 DEF PrivateDisk
<1>q. QED
  BY <1>3, <1>4, <1>6, <1>7 DEF PInv

\* The clone taken frees a place for the fill that replaces it.
LEMMA HitCounts ==
  ASSUME Alone, PInv, NEW b \in Boots, AcquireHit(b),
         disk'[b] # None, \A c \in Boots \ {b} : disk'[c] = disk[c]
  PROVE  /\ pending' \in [Pools -> 0 .. Size] /\ ready' \in [Pools -> Seq(Seqs)]
         /\ \A p \in Pools : Len(ready'[p]) <= Size
         /\ Balance' /\ Demand'
<1>0. PoolTypeOK /\ Balance /\ Demand
  BY DEF PInv
<1>1. /\ disk[b] = None /\ ready[Serving] # <<>>
      /\ ready' = [ready EXCEPT ![Serving] = Tail(@)]
      /\ pending' = [pending EXCEPT ![Serving] = @ + 1]
      /\ UNCHANGED <<seq, active, lost>>
  BY DEF AcquireHit
<1>2. ready'[Serving] = Tail(ready[Serving]) /\ pending'[Serving] = pending[Serving] + 1
  BY <1>0, <1>1, PoolConfig DEF PoolTypeOK
<1>3. /\ Tail(ready[Serving]) \in Seq(Seqs) /\ Len(ready[Serving]) > 0
      /\ Len(Tail(ready[Serving])) = Len(ready[Serving]) - 1
  BY <1>0, <1>1, PoolTypes
<1>4. /\ Cardinality(active) \in Nat
      /\ pending[Serving] \in Nat /\ Len(ready[Serving]) \in Nat /\ lost[Serving] \in Nat /\ Size \in Nat
      /\ pending[Serving] + Cardinality(active) + Len(ready[Serving]) + lost[Serving] = Size
  BY Places
<1>5. pending[Serving] + 1 \in 0 .. Size /\ Len(Tail(ready[Serving])) <= Size
  <2> DEFINE a == pending[Serving]   c == Cardinality(active)
             q == Len(ready[Serving])   l == lost[Serving]   t == Len(Tail(ready[Serving]))
  <2>1. /\ a \in Nat /\ c \in Nat /\ q \in Nat /\ l \in Nat /\ a + c + q + l = Size
        /\ q > 0 /\ t = q - 1
    BY <1>3, <1>4
  <2> HIDE DEF a, c, q, l, t
  <2>2. a + 1 \in 0 .. Size /\ t <= Size
    BY <2>1
  <2>q. QED
    BY <2>2 DEF a, t
<1>6. pending' \in [Pools -> 0 .. Size] /\ ready' \in [Pools -> Seq(Seqs)]
  BY <1>0, <1>1, <1>3, <1>5 DEF PoolTypeOK
<1>7. \A p \in Pools : Len(ready'[p]) <= Size
  BY <1>2, <1>5 DEF Alone
<1>8. Balance'
  <2> DEFINE c == Cardinality(active)
             a == pending[Serving]   r == Len(ready[Serving])   l == lost[Serving]
  <2>1. c \in Nat /\ a \in Nat /\ r \in Nat /\ l \in Nat /\ a + c + r + l = Size
    BY <1>4
  <2>2. pending'[Serving] = a + 1 /\ Cardinality(active') = c /\ Len(ready'[Serving]) = r - 1 /\ lost'[Serving] = l
    BY <1>1, <1>2, <1>3
  <2> HIDE DEF c, a, r, l
  <2>3. pending'[Serving] + Cardinality(active') + Len(ready'[Serving]) + lost'[Serving] = Size
    BY <2>1, <2>2
  <2>q. QED
    BY <1>0, <1>1, <2>3 DEF Balance
<1>9. Demand'
  <2>1. Cardinality(Served') = Cardinality(Served) + 1
    BY <1>1, OneMoreServed
  <2>2. /\ seq[Serving] + pending[Serving] <= Size + Cardinality(Served)
        /\ seq[Serving] \in Nat /\ pending[Serving] \in Nat /\ Cardinality(Served) \in Nat /\ Size \in Nat
    BY <1>0, PoolTypes, Numbers DEF Demand
  <2>3. seq[Serving] + (pending[Serving] + 1) <= Size + (Cardinality(Served) + 1)
    BY <2>2
  <2>q. QED
    BY <1>1, <1>2, <2>1, <2>3 DEF Demand
<1>q. QED
  BY <1>6, <1>7, <1>8, <1>9

\* What is left in the channel after the head is taken.
LEMMA HitTail ==
  ASSUME Alone, PInv, NEW b \in Boots, AcquireHit(b)
  PROVE  /\ 1 \in DOMAIN ready[Serving] /\ Head(ready[Serving]) = ready[Serving][1]
         /\ \A k \in DOMAIN ready'[Serving] :
              /\ k \in Nat /\ k + 1 \in DOMAIN ready[Serving] /\ k + 1 # 1
              /\ ready'[Serving][k] = ready[Serving][k + 1]
<1>1. PoolTypeOK /\ ready[Serving] # <<>> /\ ready' = [ready EXCEPT ![Serving] = Tail(@)]
  BY DEF PInv, AcquireHit
<1>2. ready'[Serving] = Tail(ready[Serving])
  BY <1>1, PoolConfig DEF PoolTypeOK
<1> DEFINE q == ready[Serving]
<1>3. q \in Seq(Seqs) /\ q # <<>>
  BY <1>1, PoolTypes
<1> HIDE DEF q
<1>4. /\ 1 \in DOMAIN q /\ Head(q) = q[1]
      /\ \A k \in DOMAIN Tail(q) : k \in Nat /\ k + 1 \in DOMAIN q /\ k + 1 # 1 /\ Tail(q)[k] = q[k + 1]
  BY <1>3
<1>q. QED
  BY <1>2, <1>4 DEF q

\* Acquire takes a ready clone, by its name or, when the rename fails, not at all.
LEMMA AcquireHitStep ==
  ASSUME Alone, PInv, NEW b \in Boots, AcquireHit(b) PROVE PInv'
<1> DEFINE n == Head(ready[Serving])
<1>0. PoolTypeOK /\ Balance /\ Demand /\ Fills /\ Offers /\ Names /\ PrivateDisk
  BY DEF PInv
<1>1. disk[b] = None /\ UNCHANGED <<seq, active, lost>>
  BY DEF AcquireHit
<1>2. \A k \in DOMAIN ready[Serving] :
        /\ ready[Serving][k] \in Seqs /\ ready[Serving][k] <= seq[Serving]
        /\ path[ready[Serving][k]] # None /\ path[ready[Serving][k]] \in Inodes
        /\ content[path[ready[Serving][k]]] = "golden"
        /\ \A f \in active : f.n # ready[Serving][k]
        /\ \A m \in DOMAIN ready[Serving] \ {k} : ready[Serving][m] # ready[Serving][k]
  BY <1>0, PoolTypes DEF Offers, PoolTypeOK
<1>3. /\ n \in Seqs /\ n <= seq[Serving] /\ path[n] # None /\ path[n] \in Inodes
      /\ content[path[n]] = "golden" /\ \A f \in active : f.n # n
      /\ path[n] \in Clone(n)
  <2>1. 1 \in DOMAIN ready[Serving] /\ n = ready[Serving][1]
    BY HitTail
  <2>2. n \in Seqs /\ path[n] # None
    BY <1>2, <2>1
  <2>3. path[n] \in Clone(n)
    BY <1>0, <2>2 DEF Names
  <2>q. QED
    BY <1>2, <2>1, <2>3
<1>4. \A k \in DOMAIN ready'[Serving] :
        /\ ready'[Serving][k] \in Seqs /\ ready'[Serving][k] <= seq[Serving]
        /\ path[ready'[Serving][k]] # None /\ path[ready'[Serving][k]] \in Inodes
        /\ content[path[ready'[Serving][k]]] = "golden"
        /\ \A f \in active : f.n # ready'[Serving][k]
        /\ ready'[Serving][k] # n
  <2> TAKE k \in DOMAIN ready'[Serving]
  <2>1. /\ k + 1 \in DOMAIN ready[Serving] /\ ready'[Serving][k] = ready[Serving][k + 1]
        /\ 1 \in DOMAIN ready[Serving] \ {k + 1} /\ n = ready[Serving][1]
    BY HitTail
  <2>q. QED
    BY <1>2, <2>1, SMTT(20)
<1>5. \A k \in DOMAIN ready'[Serving] : \A m \in DOMAIN ready'[Serving] \ {k} :
        ready'[Serving][m] # ready'[Serving][k]
  <2> TAKE k \in DOMAIN ready'[Serving]
  <2> TAKE m \in DOMAIN ready'[Serving] \ {k}
  <2>1. /\ k \in Nat /\ k + 1 \in DOMAIN ready[Serving] /\ ready'[Serving][k] = ready[Serving][k + 1]
        /\ m \in Nat /\ m + 1 \in DOMAIN ready[Serving] /\ ready'[Serving][m] = ready[Serving][m + 1]
    BY HitTail
  <2>2. m + 1 # k + 1
    BY <2>1
  <2>q. QED
    BY <1>2, <2>1, <2>2
<1>6. CASE Cloned(b) \/ CloneFailed(b)
  <2>1. /\ UNCHANGED path
        /\ content' \in [Inodes -> {"absent", "partial", "golden", "dirty"}]
        /\ disk' \in [Boots -> Inodes \cup {None, Failed}]
        /\ disk'[b] # None /\ \A c \in Boots \ {b} : disk'[c] = disk[c]
        /\ Fills' /\ Names' /\ PrivateDisk'
        /\ \A m \in Seqs : path[m] # None => content'[path[m]] = content[path[m]]
    BY <1>1, <1>6, OwnDisk
  <2>2. /\ pending' \in [Pools -> 0 .. Size] /\ ready' \in [Pools -> Seq(Seqs)]
        /\ \A p \in Pools : Len(ready'[p]) <= Size
        /\ Balance' /\ Demand'
    BY <2>1, HitCounts
  <2>3. PoolTypeOK'
    BY <1>0, <1>1, <2>1, <2>2 DEF PoolTypeOK
  <2>4. Offers'
    BY <1>1, <1>4, <1>5, <2>1 DEF Offers
  <2>q. QED
    BY <2>1, <2>2, <2>3, <2>4 DEF PInv
<1>7. CASE Renamed(b, n)
  <2>1. /\ disk' = [disk EXCEPT ![b] = path[n]] /\ path' = [path EXCEPT ![n] = None] /\ UNCHANGED content
    BY <1>7 DEF Renamed
  <2>2. /\ disk'[b] = path[n] /\ \A c \in Boots \ {b} : disk'[c] = disk[c]
        /\ path'[n] = None /\ \A m \in Seqs \ {n} : path'[m] = path[m]
    BY <1>0, <1>3, <2>1 DEF PoolTypeOK
  <2>3. /\ pending' \in [Pools -> 0 .. Size] /\ ready' \in [Pools -> Seq(Seqs)]
        /\ \A p \in Pools : Len(ready'[p]) <= Size
        /\ Balance' /\ Demand'
    BY <1>3, <2>2, HitCounts
  <2>4. PoolTypeOK'
    BY <1>0, <1>1, <1>3, <2>1, <2>3 DEF PoolTypeOK
  <2>5. Fills'
    <3>1. \A f \in active : f.n \in Seqs \ {n}
      BY <1>0, <1>3 DEF PoolTypeOK
    <3>q. QED
      BY <1>0, <1>1, <2>2, <3>1 DEF Fills
  <2>6. Offers'
    BY <1>1, <1>4, <1>5, <2>1, <2>2 DEF Offers
  <2>7. Names'
    <3>1. \A m \in Seqs : path'[m] # None => path'[m] \in Clone(m)
      BY <1>0, <2>2 DEF Names
    <3>2. ASSUME NEW c \in Boots, disk'[c] \in Inodes
          PROVE  disk'[c] = <<"own", c>> \/ \E m \in Seqs : m <= seq[Serving] /\ disk'[c] \in Clone(m)
      BY <1>0, <1>3, <2>2, <3>2 DEF Names
    <3>q. QED
      BY <1>1, <3>1, <3>2 DEF Names
  <2>8. PrivateDisk'
    <3>1. \A m \in Seqs \ {n} : path[m] # path[n]
      BY <1>0, <1>3, InodeFacts DEF Names
    <3>2. \A f \in active : f.inode # path[n]
      BY <1>0, <1>3, <3>1, SMTT(20) DEF Fills, PoolTypeOK
    <3>3. \A c \in Boots : disk[c] # path[n]
      BY <1>0, <1>3 DEF PrivateDisk
    <3>4. None \notin Inodes
      BY InodeFacts
    <3> SUFFICES ASSUME NEW c \in Boots, disk'[c] \in Inodes
                 PROVE  /\ content[disk'[c]] \in {"golden", "dirty"}
                        /\ \A f \in active : f.inode # disk'[c]
                        /\ \A m \in Seqs : path'[m] # disk'[c]
                        /\ \A d \in Boots \ {c} : disk'[d] # disk'[c]
      BY <1>1, <2>1 DEF PrivateDisk
    <3>5. CASE c = b
      BY <1>3, <2>2, <3>1, <3>2, <3>3, <3>4, <3>5, SMTT(20)
    <3>6. CASE c # b
      <4>1. disk'[c] = disk[c] /\ disk[c] \in Inodes
        BY <2>2, <3>6
      <4>2. /\ content[disk[c]] \in {"golden", "dirty"}
            /\ \A f \in active : f.inode # disk[c]
            /\ \A m \in Seqs : path[m] # disk[c]
            /\ \A d \in Boots \ {c} : disk[d] # disk[c]
        BY <1>0, <4>1 DEF PrivateDisk
      <4>3. \A m \in Seqs : path'[m] # disk[c]
        BY <2>2, <3>4, <4>1, <4>2
      <4>4. \A d \in Boots \ {c} : disk'[d] # disk[c]
        BY <2>2, <3>3, <4>1, <4>2
      <4>q. QED
        BY <4>1, <4>2, <4>3, <4>4
    <3>q. QED
      BY <3>5, <3>6
  <2>q. QED
    BY <2>3, <2>4, <2>5, <2>6, <2>7, <2>8 DEF PInv
<1>q. QED
  BY <1>6, <1>7 DEF AcquireHit

-----------------------------------------------------------------------------
\* Every step of the pool, of Acquire and of the guests preserves the invariant.
LEMMA NextPInv ==
  ASSUME Alone, PInv, [PoolNext]_poolVars PROVE PInv'
<1>1. CASE \E p \in Pools : FillStart(p)
  BY <1>1, FillStartStep DEF Alone
<1>2. CASE \E f \in active : FillDone(f)
  BY <1>2, FillDoneStep
<1>3. CASE \E f \in active : FillFails(f)
  BY <1>3, FillFailsStep
<1>4. CASE \E b \in Boots : AcquireMiss(b)
  BY <1>4, AcquireMissStep
<1>5. CASE \E b \in Boots : AcquireHit(b)
  BY <1>5, AcquireHitStep
<1>6. CASE \E b \in Boots : GuestWrites(b)
  BY <1>6, GuestWritesStep
<1>7. CASE UNCHANGED poolVars
  <2>1. UNCHANGED <<pending, seq, active, ready, path, content, disk, lost>>
    BY <1>7 DEF poolVars, fillVars
  <2>2. PoolTypeOK' /\ Balance' /\ Demand'
    BY <2>1 DEF PInv, PoolTypeOK, Balance, Demand, Served
  <2>3. Fills' /\ Offers'
    BY <2>1 DEF PInv, Fills, Offers
  <2>4. Names' /\ PrivateDisk'
    BY <2>1 DEF PInv, Names, PrivateDisk
  <2>q. QED
    BY <2>2, <2>3, <2>4 DEF PInv
<1>q. QED
  BY <1>1, <1>2, <1>3, <1>4, <1>5, <1>6, <1>7 DEF PoolNext, Fill

\* The invariant holds in every state of a process with one pool.
THEOREM PoolInvariance == ASSUME Alone PROVE PoolSpec => []PInv
<1>1. PoolInit => PInv
  BY InitPInv
<1>2. PInv /\ [PoolNext]_poolVars => PInv'
  BY NextPInv
<1>q. QED
  BY <1>1, <1>2, PTL DEF PoolSpec

\* Every variable keeps its type; no channel ever holds more than Size paths.
THEOREM PoolTypeCorrect == ASSUME Alone PROVE PoolSpec => []PoolTypeOK
<1>1. PInv => PoolTypeOK
  BY DEF PInv
<1>q. QED
  BY <1>1, PoolInvariance, PTL

\* With one pool over the directory, Acquire places a whole golden rootfs that no
\* fill writes, the directory no longer names and no other microVM has.
THEOREM DisksArePrivate == ASSUME Alone PROVE PoolSpec => []PrivateDisk
<1>1. PInv => PrivateDisk
  BY DEF PInv
<1>q. QED
  BY <1>1, PoolInvariance, PTL

\* The channel offers finished clones only, each of them once.
THEOREM OffersAreGolden == ASSUME Alone PROVE PoolSpec => []ReadyIsGolden
<1>1. PInv => ReadyIsGolden
  BY DEF PInv, Offers, ReadyIsGolden, Alone
<1>q. QED
  BY <1>1, PoolInvariance, PTL

\* fill always finds a free place in the channel: its branch that removes the
\* clone it has made is dead code.
THEOREM RoomToFill == ASSUME Alone PROVE PoolSpec => []RoomForEveryFill
<1>1. ASSUME PInv PROVE RoomForEveryFill
  <2>1. {f \in active : f.pool = Serving} = active
    BY <1>1 DEF PInv, Fills
  <2>2. pending[Serving] + Cardinality(active) + Len(ready[Serving]) <= Size
    <3>1. /\ Cardinality(active) \in Nat
          /\ pending[Serving] \in Nat /\ Len(ready[Serving]) \in Nat /\ lost[Serving] \in Nat /\ Size \in Nat
          /\ pending[Serving] + Cardinality(active) + Len(ready[Serving]) + lost[Serving] = Size
      BY <1>1, Places
    <3>q. QED
      BY <3>1
  <2>q. QED
    BY <2>1, <2>2 DEF RoomForEveryFill, Alone
<1>q. QED
  BY <1>1, PoolInvariance, PTL
\* No fill is forgotten: a pool at rest is full but for its failed fills, the half
\* of Refills that a state can show.
THEOREM RestMeansFull == ASSUME Alone PROVE PoolSpec => []QuietIsFull
<1>1. ASSUME PInv PROVE QuietIsFull
  <2>1. {f \in active : f.pool = Serving} = active
    BY <1>1 DEF PInv, Fills
  <2>2. ASSUME pending[Serving] = 0, active = {} PROVE Len(ready[Serving]) + lost[Serving] = Size
    <3>1. /\ Len(ready[Serving]) \in Nat /\ lost[Serving] \in Nat
          /\ pending[Serving] + Cardinality(active) + Len(ready[Serving]) + lost[Serving] = Size
      BY <1>1, Places
    <3>2. Cardinality(active) = 0
      BY <2>2, FS_EmptySet
    <3>q. QED
      BY <2>2, <3>1, <3>2
  <2>q. QED
    BY <2>1, <2>2 DEF QuietIsFull, Alone
<1>q. QED
  BY <1>1, PoolInvariance, PTL

-----------------------------------------------------------------------------
(* The pool implements the interface DiskPool.                             *)

\* What a boot sees of its disk.
LEMMA RootfsOf ==
  ASSUME Alone, NEW b \in Boots
  PROVE  /\ disk[b] = None => Rootfs[b] = "none"
         /\ disk[b] = Failed => Rootfs[b] = "failed"
         /\ disk[b] \in Inodes => Rootfs[b] = content[disk[b]]
<1>1. None # Failed /\ None \notin Inodes /\ Failed \notin Inodes
  BY PoolNames
<1>q. QED
  BY <1>1 DEF Rootfs

\* The same after a step.
LEMMA RootfsNext ==
  ASSUME Alone, NEW b \in Boots
  PROVE  /\ disk'[b] = None => Rootfs'[b] = "none"
         /\ disk'[b] = Failed => Rootfs'[b] = "failed"
         /\ disk'[b] \in Inodes => Rootfs'[b] = content'[disk'[b]]
<1>1. None # Failed /\ None \notin Inodes /\ Failed \notin Inodes
  BY PoolNames
<1>q. QED
  BY <1>1 DEF Rootfs

\* Whose disk stays and is not written sees nothing of a step.
LEMMA SeesNothing ==
  ASSUME Alone, PoolTypeOK, NEW b \in Boots, disk'[b] = disk[b],
         disk[b] \in Inodes => content'[disk[b]] = content[disk[b]]
  PROVE  Rootfs'[b] = Rootfs[b]
<1>1. disk[b] \in Inodes \/ disk[b] = None \/ disk[b] = Failed
  BY DEF PoolTypeOK
<1>q. QED
  BY <1>1, RootfsOf, RootfsNext

\* A step in which the disk of one boot alone goes from one state to another.
LEMMA OneDisk ==
  ASSUME NEW b \in Boots, NEW to, \A c \in Boots \ {b} : Rootfs'[c] = Rootfs[c], Rootfs'[b] = to
  PROVE  Rootfs' = [Rootfs EXCEPT ![b] = to]
<1>1. Rootfs = [c \in Boots |-> Rootfs[c]] /\ Rootfs' = [c \in Boots |-> Rootfs'[c]]
  BY DEF Rootfs
<1>q. QED
  BY <1>1

\* Nobody sees a step.
LEMMA NoDisk ==
  ASSUME \A c \in Boots : Rootfs'[c] = Rootfs[c]
  PROVE  Rootfs' = Rootfs
<1>1. Rootfs = [c \in Boots |-> Rootfs[c]] /\ Rootfs' = [c \in Boots |-> Rootfs'[c]]
  BY DEF Rootfs
<1>q. QED
  BY <1>1

\* A fill is invisible: it writes no disk of a microVM.
LEMMA FillUnseen ==
  ASSUME Alone, PInv, PInv', FillStart(Serving) \/ \E f \in active : FillDone(f) \/ FillFails(f)
  PROVE  Rootfs' = Rootfs
<1>0. PoolTypeOK /\ PrivateDisk /\ PrivateDisk' /\ Fills
  BY DEF PInv
<1> SUFFICES ASSUME NEW b \in Boots PROVE Rootfs'[b] = Rootfs[b]
  BY NoDisk
<1>1. CASE FillStart(Serving)
  <2> DEFINE n == seq[Serving] + 1
             i == IF path[n] = None THEN <<Serving, n>> ELSE path[n]
  <2>1. /\ content' = [content EXCEPT ![i] = "partial"] /\ path' = [path EXCEPT ![n] = i]
        /\ seq' = [seq EXCEPT ![Serving] = @ + 1] /\ UNCHANGED disk
    BY <1>1 DEF FillStart
  <2>2. n \in Seqs
    <3>1. seq[Serving] \in Nat
      BY <1>0, PoolTypes
    <3>2. seq'[Serving] = n
      BY <1>0, <2>1, PoolConfig DEF PoolTypeOK
    <3>3. seq'[Serving] \in {0} \cup Seqs
      BY PoolConfig DEF PInv, PoolTypeOK
    <3>q. QED
      BY <3>1, <3>2, <3>3
  <2> HIDE DEF n, i
  <2>3. path'[n] = i
    BY <1>0, <2>1, <2>2 DEF PoolTypeOK
  <2>4. ASSUME disk[b] \in Inodes PROVE disk[b] # i
    <3>1. disk'[b] = disk[b]
      BY <2>1
    <3>2. path'[n] # disk'[b]
      BY <1>0, <2>2, <2>4, <3>1 DEF PrivateDisk
    <3>q. QED
      BY <2>3, <3>1, <3>2
  <2>5. disk[b] \in Inodes => content'[disk[b]] = content[disk[b]]
    BY <1>0, <2>1, <2>4 DEF PoolTypeOK
  <2>q. QED
    BY <1>0, <2>1, <2>5, SeesNothing
<1>2. ASSUME NEW f \in active, FillDone(f) PROVE Rootfs'[b] = Rootfs[b]
  <2>1. content' = [content EXCEPT ![f.inode] = "golden"] /\ UNCHANGED disk
    BY <1>2 DEF FillDone
  <2>2. disk[b] \in Inodes => disk[b] # f.inode
    BY <1>0 DEF PrivateDisk
  <2>3. disk[b] \in Inodes => content'[disk[b]] = content[disk[b]]
    BY <1>0, <2>1, <2>2 DEF PoolTypeOK
  <2>q. QED
    BY <1>0, <2>1, <2>3, SeesNothing
<1>3. ASSUME NEW f \in active, FillFails(f) PROVE Rootfs'[b] = Rootfs[b]
  BY <1>0, <1>3, SeesNothing DEF FillFails
<1>q. QED
  BY <1>1, <1>2, <1>3

\* Acquire, by whichever way, is the Acquire of the interface.
LEMMA AcquireSeen ==
  ASSUME Alone, PInv, PInv', NEW b \in Boots, AcquireMiss(b) \/ AcquireHit(b)
  PROVE  Contract!Acquire(b)
<1>0. PoolTypeOK /\ PrivateDisk' /\ Offers
  BY DEF PInv
<1>1. disk[b] = None
  BY DEF AcquireMiss, AcquireHit
<1>2. Rootfs[b] = "none"
  BY <1>1, RootfsOf
<1>3. CASE Cloned(b)
  <2>1. /\ disk' = [disk EXCEPT ![b] = <<"own", b>>]
        /\ content' = [content EXCEPT ![<<"own", b>>] = "golden"]
    BY <1>3 DEF Cloned
  <2>2. <<"own", b>> \in Inodes
    BY InodeFacts
  <2>3. disk'[b] = <<"own", b>> /\ content'[<<"own", b>>] = "golden"
    BY <1>0, <2>1, <2>2 DEF PoolTypeOK
  <2>4. Rootfs'[b] = "golden"
    BY <2>2, <2>3, RootfsNext
  <2>5. ASSUME NEW c \in Boots \ {b} PROVE Rootfs'[c] = Rootfs[c]
    <3>1. disk'[c] = disk[c]
      BY <1>0, <2>1 DEF PoolTypeOK
    <3>2. disk[c] # <<"own", b>>
      BY <1>0, <2>2, <2>3, <3>1 DEF PrivateDisk
    <3>3. disk[c] \in Inodes => content'[disk[c]] = content[disk[c]]
      BY <1>0, <2>1, <3>2 DEF PoolTypeOK
    <3>q. QED
      BY <1>0, <3>1, <3>3, SeesNothing
  <2>6. Rootfs' = [Rootfs EXCEPT ![b] = "golden"]
    BY <2>4, <2>5, OneDisk
  <2>q. QED
    BY <1>2, <2>6 DEF Contract!Acquire
<1>4. ASSUME UNCHANGED content, NEW d, disk' = [disk EXCEPT ![b] = d], NEW to \in {"golden", "failed"},
             Rootfs'[b] = to
      PROVE  Contract!Acquire(b)
  <2>1. ASSUME NEW c \in Boots \ {b} PROVE Rootfs'[c] = Rootfs[c]
    <3>1. disk'[c] = disk[c]
      BY <1>0, <1>4 DEF PoolTypeOK
    <3>q. QED
      BY <1>0, <1>4, <3>1, SeesNothing
  <2>2. Rootfs' = [Rootfs EXCEPT ![b] = to]
    BY <1>4, <2>1, OneDisk
  <2>q. QED
    BY <1>2, <1>4, <2>2, Zenon DEF Contract!Acquire
<1>5. CASE CloneFailed(b)
  <2>1. disk' = [disk EXCEPT ![b] = Failed] /\ UNCHANGED content
    BY <1>5 DEF CloneFailed
  <2>2. disk'[b] = Failed
    BY <1>0, <2>1 DEF PoolTypeOK
  <2>3. Rootfs'[b] = "failed"
    BY <2>2, RootfsNext
  <2>q. QED
    BY <1>4, <2>1, <2>3, Zenon
<1>6. CASE ready[Serving] # <<>> /\ Renamed(b, Head(ready[Serving]))
  <2> DEFINE n == Head(ready[Serving])
  <2>1. disk' = [disk EXCEPT ![b] = path[n]] /\ UNCHANGED content /\ path[n] # None
    BY <1>6 DEF Renamed
  <2>2. 1 \in DOMAIN ready[Serving] /\ n = ready[Serving][1] /\ n \in Seqs
    BY <1>0, <1>6, PoolTypes
  <2>3. content[path[n]] = "golden"
    BY <1>0, <2>2 DEF Offers
  <2>4. path[n] \in Inodes
    BY <1>0, <2>1, <2>2 DEF PoolTypeOK
  <2>5. disk'[b] = path[n]
    BY <1>0, <2>1 DEF PoolTypeOK
  <2>6. Rootfs'[b] = "golden"
    BY <2>1, <2>3, <2>4, <2>5, RootfsNext, ZenonT(40)
  <2>q. QED
    BY <1>4, <2>1, <2>6, Zenon
<1>q. QED
  BY <1>3, <1>5, <1>6 DEF AcquireMiss, AcquireHit

\* A guest writes its own disk and no other.
LEMMA WriteSeen ==
  ASSUME Alone, PInv, NEW b \in Boots, GuestWrites(b)
  PROVE  Contract!Write(b) \/ Rootfs' = Rootfs
<1>0. PoolTypeOK /\ PrivateDisk
  BY DEF PInv
<1>1. disk[b] \in Inodes /\ content' = [content EXCEPT ![disk[b]] = "dirty"] /\ UNCHANGED disk
  BY DEF GuestWrites
<1>2. ASSUME NEW c \in Boots \ {b} PROVE Rootfs'[c] = Rootfs[c]
  <2>1. disk[c] # disk[b]
    BY <1>0, <1>1 DEF PrivateDisk
  <2>2. disk[c] \in Inodes => content'[disk[c]] = content[disk[c]]
    BY <1>0, <1>1, <2>1 DEF PoolTypeOK
  <2>q. QED
    BY <1>0, <1>1, <2>2, SeesNothing
<1>3. content'[disk[b]] = "dirty"
  BY <1>0, <1>1 DEF PoolTypeOK
<1>4. Rootfs'[b] = "dirty"
  BY <1>1, <1>3, RootfsNext
<1>5. Rootfs' = [Rootfs EXCEPT ![b] = "dirty"]
  BY <1>2, <1>4, OneDisk
<1>6. Rootfs[b] \in {"golden", "dirty"}
  BY <1>0, <1>1, RootfsOf DEF PrivateDisk
<1>7. CASE Rootfs[b] = "golden"
  BY <1>5, <1>7 DEF Contract!Write
<1>8. CASE Rootfs[b] = "dirty"
  <2>1. \A c \in Boots : Rootfs'[c] = Rootfs[c]
    BY <1>2, <1>4, <1>8
  <2>q. QED
    BY <2>1, NoDisk
<1>q. QED
  BY <1>6, <1>7, <1>8

\* A process with one pool keeps the promise of the interface DiskPool: what
\* Acquire returns is golden, and only its own guest ever changes it.
THEOREM PoolImplementsDiskPool == ASSUME Alone PROVE PoolSpec => DiskPoolSpec
<1>1. PoolInit => Contract!Init
  <2> SUFFICES ASSUME PoolInit PROVE Rootfs = [b \in Boots |-> "none"]
    BY DEF Contract!Init
  <2>1. \A b \in Boots : disk[b] = None
    BY DEF PoolInit
  <2>2. \A b \in Boots : Rootfs[b] = "none"
    BY <2>1, RootfsOf
  <2>3. Rootfs = [b \in Boots |-> Rootfs[b]]
    BY DEF Rootfs
  <2>q. QED
    BY <2>2, <2>3
<1>2. PInv /\ PInv' /\ [PoolNext]_poolVars => [Contract!Next]_Rootfs
  <2> SUFFICES ASSUME PInv, PInv', [PoolNext]_poolVars PROVE Contract!Next \/ Rootfs' = Rootfs
    OBVIOUS
  <2>1. CASE \E p \in Pools : FillStart(p)
    BY <2>1, FillUnseen DEF Alone
  <2>2. CASE \E f \in active : FillDone(f) \/ FillFails(f)
    BY <2>2, FillUnseen
  <2>3. ASSUME NEW b \in Boots, AcquireMiss(b) \/ AcquireHit(b) PROVE Contract!Next
    BY <2>3, AcquireSeen DEF Contract!Next
  <2>4. ASSUME NEW b \in Boots, GuestWrites(b) PROVE Contract!Next \/ Rootfs' = Rootfs
    BY <2>4, WriteSeen DEF Contract!Next
  <2>5. CASE UNCHANGED poolVars
    BY <2>5 DEF poolVars, Rootfs
  <2>q. QED
    BY <2>1, <2>2, <2>3, <2>4, <2>5 DEF PoolNext, Fill
<1>q. QED
  BY <1>1, <1>2, PoolInvariance, PTL DEF PoolSpec, DiskPoolSpec, Contract!Spec
=============================================================================
