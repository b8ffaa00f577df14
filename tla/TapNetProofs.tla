---------------------------- MODULE TapNetProofs ----------------------------
(***************************************************************************)
(* Proofs about module TapNet, for any number of requests and sessions and *)
(* any set of deployments.  TInv counts subnets, SInv says what keeps the  *)
(* links of two requests apart, OInv says who owns the objects of the host.*)
(***************************************************************************)
EXTENDS TapNet, FiniteSetTheorems, TLAPS

-----------------------------------------------------------------------------
(* The invariants.                                                         *)

\* The requests that are past their Setup, or need none.
Served == {r \in Requests : after[r] = "gone" /\ pc[r] \notin {"idle", "boot", "setup"}}

\* A request has a link from the first command of apply to the last of Teardown.
Linked == {r \in Requests : pc[r] \in {"launch", "run"} \cup Cmds \cup Undo}

\* Setup counts at most once for each request, and a link has a subnet.
Counted ==
  /\ seq <= Cardinality(Served)
  /\ \A r \in Requests : idx[r] <= MaxSeq
  /\ \A s \in Sessions : saved[s] <= MaxSeq
  /\ \A r \in Linked : idx[r] > 0

TInv == TypeOK /\ Counted

\* One slot is for one request.
Alone == Slots = 1 => \A r, o \in InFlight : r = o

\* A subnet belongs to one link in flight or to one record.
OwnSubnet ==
  /\ \A r \in Requests : idx[r] <= seq
  /\ \A s \in Sessions : saved[s] <= seq
  /\ \A r, o \in Linked : idx[r] = idx[o] => r = o
  /\ \A r \in Linked, s \in Sessions : saved[s] = idx[r] => sess[r] = s
  /\ \A s, t \in Sessions : saved[s] = saved[t] /\ saved[s] > 0 => s = t

\* A session is in use by one request.
OwnSession == \A r, o \in InFlight : sess[r] = sess[o] /\ sess[r] # None => r = o

SInv == Alone /\ (Apart => OwnSession) /\ (Apart /\ ~Restarts => OwnSubnet)

\* The stages of a link at which each of its objects can be there.
HasNS    == {"deltable", "delroute", "delns", "launch", "run"} \cup (Cmds \ {"netns"})
HasTap   == {"tapmove"}
HasVeth  == {"vethmove", "uplink", "route", "nft", "launch", "run"} \cup Undo
HasRoute == {"nft", "launch", "run", "deltable", "delroute"}
HasTable == {"launch", "run", "deltable"}

\* The objects of the link of r that can be there at stage l.
Stage(r, l) ==
  {x \in {NS(r)} : l \in HasNS} \cup {x \in {Tap(r)} : l \in HasTap}
    \cup {x \in {Veth(r)} : l \in HasVeth} \cup {x \in {Route(r)} : l \in HasRoute}
    \cup {x \in {Table(r)} : l \in HasTable}
May(r) == Stage(r, pc[r])

\* What is there belongs to a link at that stage (or is a TAP that could not be
\* moved), and until its Teardown a link has all that it has made.
Owned ==
  /\ \A x \in Names, r \in Requests :
       owner[x] = r => x \in May(r) \/ (x[1] = "tap" /\ "tapmove" \in CanFail)
  /\ \A r \in Requests : pc[r] \notin Undo => \A x \in May(r) : owner[x] = r

OInv == KeptApart => Owned

-----------------------------------------------------------------------------
(* Types and subnets.                                                      *)

\* The configuration of the deployment.
LEMMA Config ==
  ASSUME TypeOK
  PROVE  /\ SubnetMax \in Nat /\ 1 <= SubnetMax /\ SubnetMax <= 16383
         /\ Slots \in Nat \ {0} /\ MaxSeq \in Nat
BY TapConfig, FS_CardinalityType DEF TypeOK, SubnetMax, Slots, MaxSeq

\* The order of apply and of Teardown.
LEMMA Order ==
  ASSUME TypeOK, NEW r \in Requests
  PROVE  /\ pc[r] \in Cmds => CmdAfter(pc[r]) \in {"launch"} \cup Cmds
         /\ pc[r] \in Undo => UndoAfter(r) \in {after[r]} \cup Undo
         /\ after[r] \in {"setup", "gone"}
         /\ {after[r], "launch"} \cup Cmds \cup Undo \subseteq PCs
<1>1. pc[r] \in Cmds => CmdAfter(pc[r]) \in {"launch"} \cup Cmds
  BY DEF CmdAfter, Cmds
<1>2. pc[r] \in Undo => UndoAfter(r) \in {after[r]} \cup Undo
  BY DEF UndoAfter, Undo
<1>q. QED
  BY <1>1, <1>2 DEF TypeOK, PCs

\* A step of a request.
Step(r) ==
  \/ Start(r) \/ Choose(r) \/ Setup(r) \/ Apply(r) \/ ApplyFails(r)
  \/ Launched(r) \/ LaunchFails(r) \/ RunEnds(r) \/ Teardown(r)

\* Where a step of r takes r, and what it leaves alone.
LEMMA Moves ==
  ASSUME TypeOK, NEW r \in Requests, Step(r)
  PROVE  /\ \E l \in PCs : pc' = [pc EXCEPT ![r] = l]
         /\ pc'[r] \in {"boot", "idle"} => Start(r)
         /\ r \in Linked' => r \in Linked \/ Choose(r) \/ Setup(r)
         /\ r \in InFlight' => r \in InFlight \/ Start(r)
         /\ Start(r) \/ sess' = sess
         /\ pc[r] = "setup" => Setup(r)
         /\ deployment' = deployment
<1> USE DEF Goto, Linked, InFlight
<1>0. pc \in [Requests -> PCs]
  BY DEF TypeOK
<1>1. CASE Start(r)
  BY <1>0, <1>1 DEF Start, PCs, Cmds, Undo
<1>2. CASE Choose(r)
  BY <1>0, <1>2 DEF Choose, PCs, Cmds, Undo
<1>3. CASE Setup(r)
  BY <1>0, <1>3 DEF Setup, PCs, Cmds, Undo
<1>4. CASE Apply(r)
  <2>1. CmdAfter(pc[r]) \in PCs /\ CmdAfter(pc[r]) \in {"launch"} \cup Cmds
    BY <1>4, Order DEF Apply
  <2>q. QED
    BY <1>0, <1>4, <2>1 DEF Apply, Cmds, Undo
<1>5. CASE ApplyFails(r)
  BY <1>0, <1>5 DEF ApplyFails, PCs, Cmds, Undo
<1>6. CASE Launched(r) \/ LaunchFails(r) \/ RunEnds(r)
  BY <1>0, <1>6 DEF Launched, LaunchFails, RunEnds, PCs, Undo, Cmds
<1>7. CASE Teardown(r)
  <2>1. UndoAfter(r) \in PCs /\ UndoAfter(r) \in {"setup", "gone"} \cup Undo
    BY <1>7, Order DEF Teardown
  <2>q. QED
    BY <1>0, <1>7, <2>1 DEF Teardown, Cmds, Undo
<1>q. QED
  BY <1>1, <1>2, <1>3, <1>4, <1>5, <1>6, <1>7 DEF Step

\* A request that is served stays so, and Setup serves one more.
LEMMA ServedStep ==
  ASSUME TypeOK, NEW r \in Requests, Step(r)
  PROVE  /\ Served \subseteq Served'
         /\ Setup(r) => r \notin Served /\ r \in Served'
<1>0. pc \in [Requests -> PCs] /\ after \in [Requests -> {"setup", "gone"}]
  BY DEF TypeOK
<1>1. CASE Start(r) \/ Choose(r) \/ Setup(r)
  BY <1>0, <1>1 DEF Start, Choose, Setup, Goto, Served
<1>2. CASE Apply(r)
  <2>1. CmdAfter(pc[r]) \in {"launch"} \cup Cmds
    BY <1>2, Order DEF Apply
  <2>q. QED
    BY <1>0, <1>2, <2>1 DEF Apply, Goto, Served, Cmds, Setup
<1>3. CASE ApplyFails(r) \/ Launched(r) \/ LaunchFails(r) \/ RunEnds(r)
  BY <1>0, <1>3 DEF ApplyFails, Launched, LaunchFails, RunEnds, Goto, Served, Setup, Cmds
<1>4. CASE Teardown(r)
  <2>1. UndoAfter(r) \in {after[r]} \cup Undo
    BY <1>4, Order DEF Teardown
  <2>q. QED
    BY <1>0, <1>4, <2>1 DEF Teardown, Goto, Served, Undo, Setup
<1>q. QED
  BY <1>1, <1>2, <1>3, <1>4 DEF Step

\* The counter of subnets is bounded by the requests that are served.
LEMMA SeqStep ==
  ASSUME TInv, [Next]_vars
  PROVE  seq' \in 0 .. MaxSeq /\ seq' <= Cardinality(Served')
<1>1. IsFiniteSet(Requests) /\ IsFiniteSet(Served) /\ IsFiniteSet(Served') /\ Served' \subseteq Requests
  BY TapConfig, FS_Subset DEF Served
<1>2. /\ Cardinality(Served) \in Nat /\ Cardinality(Served') \in Nat
      /\ Cardinality(Served') <= MaxSeq /\ MaxSeq \in Nat
  BY <1>1, FS_Subset, FS_CardinalityType DEF MaxSeq
<1>3. seq \in Nat /\ seq <= Cardinality(Served)
  BY <1>2 DEF TInv, TypeOK, Counted
<1>4. ASSUME NEW r \in Requests, Setup(r) PROVE seq' \in Nat /\ seq' <= Cardinality(Served')
  <2>1. Step(r) /\ seq' \in {seq, seq + 1}
    BY <1>4 DEF Step, Setup
  <2>2. r \notin Served /\ Served \cup {r} \subseteq Served'
    BY <1>4, <2>1, ServedStep DEF TInv
  <2>3. Cardinality(Served \cup {r}) = Cardinality(Served) + 1
    BY <1>1, <2>2, FS_AddElement
  <2>q. QED
    BY <1>1, <1>2, <1>3, <2>1, <2>2, <2>3, FS_Subset
<1>5. ASSUME NEW r \in Requests, Step(r), ~Setup(r) PROVE seq' \in Nat /\ seq' <= Cardinality(Served')
  <2>1. seq' = seq
    BY <1>5 DEF Step, Start, Choose, Apply, ApplyFails, Launched, LaunchFails, RunEnds, Teardown
  <2>2. Served \subseteq Served'
    BY <1>5, ServedStep DEF TInv
  <2>q. QED
    BY <1>1, <1>2, <1>3, <2>1, <2>2, FS_Subset
<1>6. CASE Restart
  BY <1>2, <1>6 DEF Restart
<1>7. CASE UNCHANGED vars
  BY <1>2, <1>3, <1>7 DEF vars, Served
<1>q. QED
  BY <1>2, <1>4, <1>5, <1>6, <1>7 DEF Next, Step

\* The indices of links and records are those Setup has counted.
LEMMA IndexStep ==
  ASSUME TInv, [Next]_vars
  PROVE  /\ idx' \in [Requests -> 0 .. SubnetMax] /\ saved' \in [Sessions -> 0 .. SubnetMax]
         /\ \A r \in Requests : idx'[r] <= MaxSeq
         /\ \A s \in Sessions : saved'[s] <= MaxSeq
         /\ \A r \in Linked' : idx'[r] > 0
<1> DEFINE Ok == /\ idx' \in [Requests -> 0 .. SubnetMax] /\ saved' \in [Sessions -> 0 .. SubnetMax]
                 /\ \A r \in Requests : idx'[r] <= MaxSeq
                 /\ \A s \in Sessions : saved'[s] <= MaxSeq
                 /\ \A r \in Linked' : idx'[r] > 0
<1>0. /\ pc \in [Requests -> PCs] /\ sess \in [Requests -> Sessions \cup {None}]
      /\ idx \in [Requests -> 0 .. SubnetMax] /\ saved \in [Sessions -> 0 .. SubnetMax]
      /\ seq \in Nat /\ TypeOK
  BY Config DEF TInv, TypeOK
<1>1. /\ \A r \in Requests : idx[r] <= MaxSeq
      /\ \A s \in Sessions : saved[s] <= MaxSeq
      /\ \A r \in Linked : idx[r] > 0
  BY DEF TInv, Counted
<1>2. SubnetMax \in Nat /\ MaxSeq \in Nat
  BY <1>0, Config
<1>3. ASSUME NEW r \in Requests, Choose(r) PROVE Ok
  <2>1. \A o \in Requests : o # r => pc'[o] = pc[o]
    BY <1>0, <1>3 DEF Choose, Goto
  <2>2. r \notin Linked /\ saved' = saved
    BY <1>3 DEF Choose, Linked, Cmds, Undo
  <2>3. CASE sess[r] # None /\ saved[sess[r]] # 0
    <3>1. /\ idx' = [idx EXCEPT ![r] = saved[sess[r]]]
          /\ saved[sess[r]] \in 0 .. SubnetMax /\ saved[sess[r]] <= MaxSeq /\ saved[sess[r]] > 0
      BY <1>0, <1>1, <1>2, <1>3, <2>3 DEF Choose
    <3>q. QED
      BY <1>0, <1>1, <1>2, <2>1, <2>2, <3>1 DEF Linked
  <2>4. CASE ~(sess[r] # None /\ saved[sess[r]] # 0)
    <3>1. idx' = idx /\ pc'[r] = "setup"
      BY <1>0, <1>3, <2>4 DEF Choose, Goto
    <3>q. QED
      BY <1>0, <1>1, <2>1, <2>2, <3>1 DEF Linked, Cmds, Undo
  <2>q. QED
    BY <2>3, <2>4
<1>4. ASSUME NEW r \in Requests, Setup(r) PROVE Ok
  <2>1. /\ \A o \in Requests : o # r => pc'[o] = pc[o]
        /\ pc'[r] \in {"netns", "gone"}
    BY <1>0, <1>4 DEF Setup, Goto
  <2>2. saved' \in [Sessions -> 0 .. SubnetMax] /\ \A s \in Sessions : saved'[s] <= MaxSeq
    <3>1. saved' = saved \/ saved' = [saved EXCEPT ![sess[r]] = 0]
      BY <1>4 DEF Setup
    <3>q. QED
      BY <1>0, <1>1, <1>2, <3>1
  <2>3. CASE seq + 1 <= SubnetMax /\ seq' = seq + 1 /\ idx' = [idx EXCEPT ![r] = seq + 1]
    <3>1. seq + 1 <= MaxSeq
      BY <2>3, SeqStep
    <3>q. QED
      BY <1>0, <1>1, <1>2, <2>1, <2>2, <2>3, <3>1 DEF Linked
  <2>4. CASE idx' = idx /\ pc'[r] = "gone"
    BY <1>0, <1>1, <2>1, <2>2, <2>4 DEF Linked, Cmds, Undo
  <2>q. QED
    BY <1>0, <1>4, <2>3, <2>4 DEF Setup, Goto
<1>5. ASSUME NEW r \in Requests, Step(r), ~Choose(r), ~Setup(r) PROVE Ok
  <2>1. /\ \A o \in Requests : o # r => pc'[o] = pc[o]
        /\ r \in Linked' => r \in Linked
    BY <1>0, <1>5, Moves
  <2>2. Linked' \subseteq Linked
    BY <2>1 DEF Linked
  <2>3. idx' = idx
    BY <1>5 DEF Step, Start, Apply, ApplyFails, Launched, LaunchFails, RunEnds, Teardown
  <2>4. \/ saved' = saved
        \/ sess[r] # None /\ saved' = [saved EXCEPT ![sess[r]] = idx[r]]
    BY <1>5 DEF Step, Start, Apply, ApplyFails, Launched, LaunchFails, RunEnds, Teardown
  <2>q. QED
    BY <1>0, <1>1, <1>2, <2>2, <2>3, <2>4
<1>6. CASE Restart \/ UNCHANGED vars
  BY <1>0, <1>1, <1>6 DEF Restart, vars, Linked
<1>q. QED
  BY <1>3, <1>4, <1>5, <1>6 DEF Next, Step

\* The invariant of types and subnets is kept.
LEMMA TypeStep == TInv /\ [Next]_vars => TInv'
<1> SUFFICES ASSUME TInv, [Next]_vars PROVE TInv'
  OBVIOUS
<1>0. TypeOK
  BY DEF TInv
<1>1. deployment' = deployment /\ pc' \in [Requests -> PCs]
  <2>1. ASSUME NEW r \in Requests, Step(r) PROVE deployment' = deployment /\ pc' \in [Requests -> PCs]
    BY <1>0, <2>1, Moves DEF TypeOK
  <2>q. QED
    BY <1>0, <2>1 DEF Next, Step, Restart, vars, TypeOK
<1>2. sess' \in [Requests -> Sessions \cup {None}]
  BY <1>0 DEF TypeOK, Next, Start, Choose, Setup, Apply, ApplyFails, Launched, LaunchFails, RunEnds,
     Teardown, Restart, vars
<1>3. after' \in [Requests -> {"setup", "gone"}]
  BY <1>0 DEF TypeOK, Next, Start, Choose, Setup, Apply, ApplyFails, Launched, LaunchFails, RunEnds,
     Teardown, Restart, vars
<1>4. owner' \in [Names -> Requests \cup {None}]
  <2>1. owner \in [Names -> Requests \cup {None}]
    BY <1>0 DEF TypeOK
  <2>2. ASSUME NEW r \in Requests, Apply(r) PROVE owner' \in [Names -> Requests \cup {None}]
    BY <2>1, <2>2 DEF Apply, Effect, Made, Removed
  <2>3. ASSUME NEW r \in Requests, Teardown(r) PROVE owner' \in [Names -> Requests \cup {None}]
    BY <2>1, <2>3 DEF Teardown, Undone, Removed
  <2>q. QED
    BY <2>1, <2>2, <2>3 DEF Next, Start, Choose, Setup, ApplyFails, Launched, LaunchFails, RunEnds,
       Restart, vars
<1>5. SubnetMax' = SubnetMax /\ Names' = Names
  BY <1>1 DEF SubnetMax, Names, Dev
<1>q. QED
  BY <1>0, <1>1, <1>2, <1>3, <1>4, <1>5, SeqStep, IndexStep DEF TInv, TypeOK, Counted

\* The invariant of types and subnets.
THEOREM SubnetInvariance == Spec => []TInv
<1>1. Init => TInv
  <2> SUFFICES ASSUME Init PROVE TInv
    OBVIOUS
  <2>1. Served = {} /\ Cardinality(Served) = 0
    BY FS_EmptySet DEF Init, Served
  <2>2. Linked = {}
    BY DEF Init, Linked, Cmds, Undo
  <2>3. TypeOK
    <3>1. deployment.subnetMax \in Nat /\ MaxSeq \in Nat
      BY TapConfig, FS_CardinalityType DEF Init, MaxSeq
    <3>q. QED
      BY <3>1 DEF Init, TypeOK, PCs, SubnetMax
  <2>4. MaxSeq \in Nat
    BY <2>3, Config
  <2>q. QED
    BY <2>1, <2>2, <2>3, <2>4 DEF Init, TInv, Counted
<1>q. QED
  BY <1>1, TypeStep, PTL DEF Spec

\* The state of TapNet is well typed: no link, and no record, has a subnet beyond
\* the last one pair30 can express, however many requests there were.
THEOREM TypeCorrect == Spec => []TypeOK
<1>1. TInv => TypeOK
  BY DEF TInv
<1>q. QED
  BY <1>1, SubnetInvariance, PTL

-----------------------------------------------------------------------------
(* What keeps requests apart.                                              *)

\* A step of r neither starts nor ends the link of another request.
LEMMA Others ==
  ASSUME TypeOK, NEW r \in Requests, Step(r), NEW o \in Requests, o # r
  PROVE  /\ pc'[o] = pc[o] /\ sess'[o] = sess[o] /\ idx'[o] = idx[o]
         /\ o \in InFlight' <=> o \in InFlight
         /\ o \in Linked' <=> o \in Linked
<1>1. pc'[o] = pc[o]
  BY Moves DEF TypeOK
<1>2. sess'[o] = sess[o] /\ idx'[o] = idx[o]
  BY DEF TypeOK, Step, Start, Choose, Setup, Apply, ApplyFails, Launched, LaunchFails, RunEnds, Teardown
<1>q. QED
  BY <1>1, <1>2 DEF InFlight, Linked

\* A link is in flight.
LEMMA LinkedFlies == Linked \subseteq InFlight
BY DEF Linked, InFlight, Cmds, Undo

\* The gate lets nobody in next to a request in flight.
LEMMA GateAlone ==
  ASSUME Slots = 1, NEW r \in Requests, Start(r)
  PROVE  InFlight = {}
<1>1. IsFiniteSet(InFlight)
  BY TapConfig, FS_Subset DEF InFlight
<1>2. Cardinality(InFlight) \in Nat /\ Cardinality(InFlight) < 1
  BY <1>1, FS_CardinalityType DEF Start
<1>q. QED
  BY <1>1, <1>2, FS_EmptySet

\* Requests with one slot follow each other, and so do those of a session that
\* clients use one at a time.
LEMMA FlightStep ==
  ASSUME TypeOK, Alone, Apart => OwnSession, [Next]_vars
  PROVE  Alone' /\ (Apart => OwnSession)'
<1>1. ASSUME NEW r \in Requests, Step(r) PROVE Alone' /\ (Apart => OwnSession)'
  <2>1. deployment' = deployment
    BY <1>1, Moves
  <2>2. Slots' = Slots /\ Apart' = Apart
    BY <2>1 DEF Slots, Apart
  <2>3. ASSUME NEW o \in Requests, o # r
        PROVE  sess'[o] = sess[o] /\ (o \in InFlight' <=> o \in InFlight)
    BY <1>1, <2>3, Others
  <2>4. InFlight \subseteq Requests /\ InFlight' \subseteq Requests
    BY DEF InFlight
  <2>5. CASE Start(r)
    <3>1. Alone'
      BY <2>2, <2>3, <2>4, <2>5, GateAlone DEF Alone
    <3>2. Apart /\ sess'[r] # None => \A o \in InFlight : sess[o] # sess'[r]
      BY <2>5 DEF Start, TypeOK
    <3>q. QED
      BY <2>2, <2>3, <2>4, <3>1, <3>2 DEF OwnSession
  <2>6. CASE ~Start(r)
    <3>1. sess' = sess /\ (r \in InFlight' => r \in InFlight)
      BY <1>1, <2>6, Moves
    <3>2. InFlight' \subseteq InFlight
      BY <2>3, <2>4, <3>1
    <3>q. QED
      BY <2>2, <3>1, <3>2 DEF Alone, OwnSession
  <2>q. QED
    BY <2>5, <2>6
<1>2. CASE Restart \/ UNCHANGED vars
  BY <1>2 DEF Restart, vars, Alone, OwnSession, InFlight, Slots, Apart
<1>q. QED
  BY <1>1, <1>2 DEF Next, Step

\* Without a restart the counter gives out every subnet once, and the record of a
\* session is used by one request of that session.
LEMMA SubnetStep ==
  ASSUME TInv, OwnSession, OwnSubnet, NEW r \in Requests, Step(r)
  PROVE  OwnSubnet'
<1>0. /\ sess \in [Requests -> Sessions \cup {None}] /\ TypeOK
      /\ idx \in [Requests -> Nat] /\ saved \in [Sessions -> Nat] /\ seq \in Nat
  BY Config DEF TInv, TypeOK
<1>1. /\ \A o \in Requests : idx[o] <= seq
      /\ \A s \in Sessions : saved[s] <= seq
      /\ \A q, o \in Linked : idx[q] = idx[o] => q = o
      /\ \A o \in Linked, s \in Sessions : saved[s] = idx[o] => sess[o] = s
      /\ \A s, t \in Sessions : saved[s] = saved[t] /\ saved[s] > 0 => s = t
  BY DEF OwnSubnet
<1>2. \A o \in Linked : idx[o] > 0
  BY DEF TInv, Counted
<1>3. ASSUME NEW o \in Requests, o # r
      PROVE  sess'[o] = sess[o] /\ idx'[o] = idx[o] /\ (o \in Linked' <=> o \in Linked)
  BY <1>0, <1>3, Others
<1>4. Linked \subseteq Requests /\ Linked' \subseteq Requests
  BY DEF Linked
<1>5. CASE Choose(r) /\ sess[r] # None /\ saved[sess[r]] # 0
  <2>1. /\ idx' = [idx EXCEPT ![r] = saved[sess[r]]] /\ UNCHANGED <<sess, seq, saved>>
        /\ sess[r] \in Sessions /\ saved[sess[r]] > 0
    BY <1>0, <1>5 DEF Choose
  <2>2. ASSUME NEW o \in Linked, o # r PROVE idx[o] # saved[sess[r]]
    <3>1. r \in InFlight /\ o \in InFlight
      BY <1>5, LinkedFlies DEF Choose, InFlight
    <3>2. sess[o] # sess[r]
      BY <2>1, <2>2, <3>1, TapConfig DEF OwnSession, Ids
    <3>q. QED
      BY <1>1, <2>1, <3>2
  <2>3. idx'[r] = saved[sess[r]]
    BY <1>0, <2>1
  <2>4. \A q, o \in Linked' : idx'[q] = idx'[o] => q = o
    BY <1>1, <1>3, <1>4, <2>2, <2>3
  <2>5. \A o \in Linked', s \in Sessions : saved'[s] = idx'[o] => sess'[o] = s
    BY <1>1, <1>3, <1>4, <2>1, <2>3
  <2>6. \A o \in Requests : idx'[o] <= seq'
    BY <1>1, <1>3, <2>1, <2>3
  <2>q. QED
    BY <1>1, <2>1, <2>4, <2>5, <2>6 DEF OwnSubnet
<1>6. CASE Setup(r) /\ idx' = [idx EXCEPT ![r] = seq + 1] /\ seq' = seq + 1
  <2>1. saved' \in [Sessions -> Nat] /\ \A s \in Sessions : saved'[s] \in {0, saved[s]}
    BY <1>0, <1>6 DEF Setup
  <2>2. idx'[r] = seq + 1 /\ sess' = sess
    BY <1>0, <1>6 DEF Setup
  <2>3. \A q, o \in Linked' : idx'[q] = idx'[o] => q = o
    BY <1>0, <1>1, <1>3, <1>4, <2>2
  <2>4. \A o \in Linked', s \in Sessions : saved'[s] = idx'[o] => sess'[o] = s
    BY <1>0, <1>1, <1>2, <1>3, <1>4, <2>1, <2>2
  <2>5. \A o \in Requests : idx'[o] <= seq'
    BY <1>0, <1>1, <1>3, <1>6, <2>2
  <2>6. /\ \A s \in Sessions : saved'[s] <= seq'
        /\ \A s, t \in Sessions : saved'[s] = saved'[t] /\ saved'[s] > 0 => s = t
    BY <1>0, <1>1, <1>6, <2>1
  <2>q. QED
    BY <2>3, <2>4, <2>5, <2>6 DEF OwnSubnet
<1>7. CASE RunEnds(r) /\ sess[r] # None /\ saved' = [saved EXCEPT ![sess[r]] = idx[r]]
  <2>1. UNCHANGED <<sess, seq, idx>> /\ r \in Linked /\ sess[r] \in Sessions
    BY <1>0, <1>7 DEF RunEnds, Linked
  <2>2. Linked' \subseteq Linked
    BY <1>3, <1>4, <2>1
  <2>3. \A s \in Sessions : saved'[s] = IF s = sess[r] THEN idx[r] ELSE saved[s]
    BY <1>0, <1>7
  <2>4. \A o \in Linked', s \in Sessions : saved'[s] = idx'[o] => sess'[o] = s
    BY <1>1, <2>1, <2>2, <2>3
  <2>5. \A s, t \in Sessions : saved'[s] = saved'[t] /\ saved'[s] > 0 => s = t
    BY <1>1, <2>1, <2>3
  <2>6. \A s \in Sessions : saved'[s] <= seq'
    BY <1>1, <1>4, <2>1, <2>3
  <2>q. QED
    BY <1>1, <2>1, <2>2, <2>4, <2>5, <2>6 DEF OwnSubnet
<1>8. ASSUME idx' = idx, seq' \in Nat, seq <= seq', saved' \in [Sessions -> Nat],
             \A s \in Sessions : saved'[s] \in {0, saved[s]}, r \in Linked' => r \in Linked /\ sess' = sess
      PROVE  OwnSubnet'
  <2>1. Linked' \subseteq Linked /\ \A o \in Linked' : sess'[o] = sess[o]
    BY <1>3, <1>4, <1>8
  <2>2. \A o \in Linked', s \in Sessions : saved'[s] = idx'[o] => sess'[o] = s
    BY <1>1, <1>2, <1>8, <2>1
  <2>3. /\ \A s \in Sessions : saved'[s] <= seq'
        /\ \A s, t \in Sessions : saved'[s] = saved'[t] /\ saved'[s] > 0 => s = t
    BY <1>0, <1>1, <1>8
  <2>q. QED
    BY <1>0, <1>1, <1>8, <2>1, <2>2, <2>3 DEF OwnSubnet
<1>9. CASE ~Choose(r) /\ ~Setup(r) /\ saved' = saved
  <2>1. idx' = idx /\ seq' = seq
    BY <1>9 DEF Step, Start, Apply, ApplyFails, Launched, LaunchFails, RunEnds, Teardown
  <2>2. r \in Linked' => r \in Linked /\ sess' = sess
    <3>1. Start(r) => r \notin Linked'
      BY <1>0 DEF Start, Goto, Linked, TypeOK, Cmds, Undo
    <3>q. QED
      BY <1>0, <1>9, <3>1, Moves
  <2>q. QED
    BY <1>0, <1>8, <1>9, <2>1, <2>2
<1>10. CASE Choose(r) /\ ~(sess[r] # None /\ saved[sess[r]] # 0)
  <2>1. r \notin Linked' /\ UNCHANGED <<idx, seq, saved>>
    BY <1>0, <1>10 DEF Choose, Goto, Linked, TypeOK, Cmds, Undo
  <2>q. QED
    BY <1>0, <1>8, <2>1
<1>11. CASE Setup(r) /\ UNCHANGED idx /\ Goto(r, "gone")
  <2>1. r \notin Linked' /\ idx' = idx /\ seq' \in {seq, seq + 1}
    BY <1>0, <1>11 DEF Setup, Goto, Linked, TypeOK, Cmds, Undo
  <2>2. saved' \in [Sessions -> Nat] /\ \A s \in Sessions : saved'[s] \in {0, saved[s]}
    BY <1>0, <1>11 DEF Setup
  <2>q. QED
    BY <1>0, <1>8, <2>1, <2>2
<1>12. Setup(r) => \/ idx' = [idx EXCEPT ![r] = seq + 1] /\ seq' = seq + 1
                   \/ UNCHANGED idx /\ Goto(r, "gone")
  BY DEF Setup
<1>13. ~Setup(r) => saved' = saved \/ (RunEnds(r) /\ sess[r] # None /\ saved' = [saved EXCEPT ![sess[r]] = idx[r]])
  BY DEF Step, Start, Choose, Apply, ApplyFails, Launched, LaunchFails, RunEnds, Teardown
<1>q. QED
  BY <1>5, <1>6, <1>7, <1>9, <1>10, <1>11, <1>12, <1>13

\* The invariant of what keeps requests apart.
THEOREM ApartInvariance == Spec => []SInv
<1>1. Init => SInv
  BY DEF Init, SInv, Alone, OwnSession, OwnSubnet, InFlight, Linked, Cmds, Undo
<1>2. TInv /\ SInv /\ [Next]_vars => SInv'
  <2> SUFFICES ASSUME TInv, SInv, [Next]_vars PROVE SInv'
    OBVIOUS
  <2>1. Alone' /\ (Apart => OwnSession)'
    BY FlightStep DEF TInv, SInv
  <2>2. (Apart /\ ~Restarts => OwnSubnet)'
    <3>1. ASSUME NEW r \in Requests, Step(r) PROVE (Apart /\ ~Restarts => OwnSubnet)'
      <4>1. deployment' = deployment
        BY <3>1, Moves DEF TInv
      <4>q. QED
        BY <3>1, <4>1, SubnetStep DEF SInv, Apart, Restarts
    <3>2. CASE Restart
      BY <3>2 DEF Restart, Restarts
    <3>3. CASE UNCHANGED vars
      BY <3>3 DEF vars, SInv, Apart, Restarts, OwnSubnet, Linked
    <3>q. QED
      BY <3>1, <3>2, <3>3 DEF Next, Step
  <2>q. QED
    BY <2>1, <2>2 DEF SInv
<1>q. QED
  BY <1>1, <1>2, SubnetInvariance, PTL DEF Spec

-----------------------------------------------------------------------------
(* The names of two links.                                                 *)

\* The two bytes of pair30 tell the indices it accepts apart.
LEMMA Pair30Injective ==
  ASSUME NEW m \in Nat, NEW n \in Nat, 0 < m, m <= 16383, 0 < n, n <= 16383, Pair30(m) = Pair30(n)
  PROVE  m = n
<1> DEFINE Off(k) == (k - 1) * 4
<1>1. ASSUME NEW k \in Nat, 0 < k, k <= 16383
      PROVE  /\ Off(k) \in Nat /\ Off(k) = 256 * ((Off(k) \div 256) % 256) + (Off(k) % 256)
  <2>1. Off(k) \in Nat /\ Off(k) < 65536
    BY <1>1
  <2>2. ASSUME NEW j \in Nat, j < 65536 PROVE j = 256 * ((j \div 256) % 256) + (j % 256)
    <3>1. j \div 256 \in Nat /\ j \div 256 < 256 /\ j = 256 * (j \div 256) + (j % 256)
      BY <2>2
    <3>q. QED
      BY <3>1
  <2> HIDE DEF Off
  <2>q. QED
    BY <2>1, <2>2
<1>2. /\ (Off(m) \div 256) % 256 = (Off(n) \div 256) % 256
      /\ Off(m) % 256 = Off(n) % 256
  BY DEF Pair30
<1>3. Off(m) = Off(n)
  <2> HIDE DEF Off
  <2>q. QED
    BY <1>1, <1>2
<1>q. QED
  BY <1>3

\* The names of the link of r.
Objects(r) == {NS(r), Tap(r), Veth(r), Route(r), Table(r)}

\* The names of a link are names of the host.
LEMMA ObjectNames ==
  ASSUME TInv, NEW r \in Linked
  PROVE  Objects(r) \subseteq Names
<1>1. r \in Requests /\ Id(r) \in Ids
  BY DEF Linked, TInv, TypeOK, Id, Ids
<1>2. idx[r] \in 1 .. MaxSeq
  BY <1>1, Config DEF TInv, TypeOK, Counted
<1>3. Pair30(idx[r]) \in Subnets
  BY <1>2 DEF Subnets
<1>q. QED
  BY <1>1, <1>3 DEF Objects, Names, NS, Tap, Veth, Route, Table

\* Two links of requests that are kept apart share no name.
LEMMA Disjoint ==
  ASSUME TInv, SInv, KeptApart, NEW r \in Linked, NEW o \in Linked, r # o
  PROVE  Objects(r) \cap Objects(o) = {}
<1>0. r \in InFlight /\ o \in InFlight /\ r \in Requests /\ o \in Requests
  BY LinkedFlies DEF InFlight
<1>1. Apart /\ ~Restarts /\ \A i, j \in Ids : Dev[i] = Dev[j] => i = j
  BY <1>0 DEF KeptApart, SInv, Alone
<1>2. Id(r) \in Ids /\ Id(o) \in Ids /\ Id(r) # Id(o)
  BY <1>0, <1>1, TapConfig DEF SInv, OwnSession, TInv, TypeOK, Id, Ids
<1>3. Dev[Id(r)] # Dev[Id(o)]
  BY <1>1, <1>2
<1>4. Pair30(idx[r]) # Pair30(idx[o])
  <2>1. idx[r] # idx[o]
    BY <1>1 DEF SInv, OwnSubnet
  <2>2. /\ idx[r] \in Nat /\ idx[r] > 0 /\ idx[r] <= 16383
        /\ idx[o] \in Nat /\ idx[o] > 0 /\ idx[o] <= 16383
    BY <1>0, Config DEF TInv, TypeOK, Counted
  <2>q. QED
    BY <2>1, <2>2, Pair30Injective
<1>q. QED
  BY <1>2, <1>3, <1>4 DEF Objects, NS, Tap, Veth, Route, Table

-----------------------------------------------------------------------------
(* The objects of the host.                                                *)

\* What can be there of a link is named after it.
LEMMA MayLinked ==
  ASSUME NEW r \in Requests, NEW x \in May(r)
  PROVE  r \in Linked /\ x \in Objects(r)
<1>1. pc[r] \in HasNS \cup HasTap \cup HasVeth \cup HasRoute \cup HasTable /\ x \in Objects(r)
  BY DEF May, Stage, Objects
<1>q. QED
  BY <1>1 DEF Linked, HasNS, HasTap, HasVeth, HasRoute, HasTable, Cmds, Undo

\* A step of r moves no other link to another stage, and none to another name.
LEMMA MayStep ==
  ASSUME TypeOK, NEW r \in Requests, Step(r)
  PROVE  /\ \A o \in Requests : o # r => May(o)' = May(o)
         /\ r \in Linked => May(r)' = Stage(r, pc'[r]) /\ Objects(r)' = Objects(r)
<1>1. deployment' = deployment
  BY Moves
<1>2. ASSUME NEW o \in Requests, sess'[o] = sess[o], idx'[o] = idx[o]
      PROVE  /\ NS(o)' = NS(o) /\ Tap(o)' = Tap(o) /\ Veth(o)' = Veth(o)
             /\ Route(o)' = Route(o) /\ Table(o)' = Table(o)
  BY <1>1, <1>2 DEF NS, Tap, Veth, Route, Table, Id, Dev, Pair30
<1>3. ASSUME NEW o \in Requests, o # r PROVE May(o)' = May(o)
  BY <1>2, <1>3, Others DEF May, Stage
<1>4. r \in Linked => sess'[r] = sess[r] /\ idx'[r] = idx[r]
  BY DEF Linked, Cmds, Undo, Step, Start, Choose, Setup, Apply, ApplyFails, Launched, LaunchFails,
     RunEnds, Teardown
<1>q. QED
  BY <1>2, <1>3, <1>4 DEF May, Stage, Objects

\* A step of r that only changes what its own link names, and leaves there what
\* its stage allows and asks for, keeps the host in order.
LEMMA OwnedBy ==
  ASSUME TInv, SInv, KeptApart, Owned, NEW r \in Requests, Step(r),
         owner' \in [Names -> Requests \cup {None}],
         \A x \in Names : owner'[x] \in {owner[x], r, None},
         \A x \in Names : owner'[x] # owner[x] => r \in Linked /\ x \in Objects(r),
         \A x \in Names : owner'[x] = r => x \in May(r)' \/ (x[1] = "tap" /\ "tapmove" \in CanFail),
         pc'[r] \notin Undo => \A x \in May(r)' : owner'[x] = r
  PROVE  Owned'
<1>0. deployment' = deployment /\ TypeOK
  BY Moves DEF TInv
<1>1. Names' = Names /\ CanFail' = CanFail
  BY <1>0 DEF Names, CanFail, Dev
<1>2. None \notin Requests /\ owner \in [Names -> Requests \cup {None}]
  BY <1>0, TapConfig DEF Ids, TypeOK
<1>3. ASSUME NEW x \in Names, NEW o \in Requests, owner'[x] = o, o # r
      PROVE  x \in May(o)' \/ (x[1] = "tap" /\ "tapmove" \in CanFail)
  <2>1. owner[x] = o
    BY <1>2, <1>3
  <2>2. x \in May(o) \/ (x[1] = "tap" /\ "tapmove" \in CanFail)
    BY <2>1 DEF Owned
  <2>3. May(o)' = May(o)
    BY <1>0, <1>3, MayStep
  <2>q. QED
    BY <2>2, <2>3
<1>4. ASSUME NEW o \in Requests, o # r, pc'[o] \notin Undo, NEW x \in May(o)'
      PROVE  owner'[x] = o
  <2>1. x \in May(o) /\ pc[o] \notin Undo
    BY <1>0, <1>4, MayStep, Others
  <2>2. owner[x] = o
    BY <2>1 DEF Owned
  <2>3. o \in Linked /\ x \in Objects(o)
    BY <2>1, MayLinked
  <2>4. x \in Names
    BY <2>3, ObjectNames
  <2>5. ~(r \in Linked /\ x \in Objects(r))
    BY <1>4, <2>3, Disjoint
  <2>q. QED
    BY <2>2, <2>4, <2>5
<1>q. QED
  BY <1>1, <1>3, <1>4 DEF Owned

\* The objects of a link are of five kinds.
LEMMA Kinds ==
  ASSUME NEW r \in Requests
  PROVE  /\ NS(r)[1] = "ns" /\ Tap(r)[1] = "tap" /\ Veth(r)[1] = "veth"
         /\ Route(r)[1] = "route" /\ Table(r)[1] = "table"
BY DEF NS, Tap, Veth, Route, Table

\* Steps that leave the host alone: Boot, the end of launch, and a command that
\* fails.  The move of a TAP finds the TAP and the namespace.
LEMMA QuietOwned ==
  ASSUME TInv, SInv, KeptApart, Owned, NEW r \in Requests, Step(r), ~Apply(r), ~Teardown(r)
  PROVE  Owned'
<1>0. /\ TypeOK /\ owner \in [Names -> Requests \cup {None}] /\ None \notin Requests
      /\ owner' = owner
  <2>1. owner' = owner
    BY DEF Step, Start, Choose, Setup, ApplyFails, Launched, LaunchFails, RunEnds
  <2>q. QED
    BY <2>1, TapConfig DEF TInv, TypeOK, Ids
<1> DEFINE Stays == \A x \in Names : owner[x] = r => x \in May(r)' \/ (x[1] = "tap" /\ "tapmove" \in CanFail)
           Asks == pc'[r] \notin Undo => \A x \in May(r)' : owner[x] = r
<1>1. SUFFICES Stays /\ Asks
  BY <1>0, OwnedBy
<1>2. \A x \in Names : owner[x] = r => x \in May(r) \/ (x[1] = "tap" /\ "tapmove" \in CanFail)
  BY DEF Owned
<1>3. CASE Start(r) \/ Choose(r) \/ Setup(r)
  <2>1. pc[r] \in {"idle", "boot", "setup"} /\ pc'[r] \in {"boot", "setup", "netns", "gone"}
    BY <1>0, <1>3 DEF Start, Choose, Setup, Goto, TypeOK
  <2>2. r \notin Linked /\ pc'[r] \notin HasNS \cup HasTap \cup HasVeth \cup HasRoute \cup HasTable
    BY <2>1 DEF Linked, HasNS, HasTap, HasVeth, HasRoute, HasTable, Cmds, Undo
  <2>3. May(r) = {}
    BY <2>2, MayLinked
  <2>4. May(r)' = {}
    BY <2>2 DEF May, Stage
  <2>q. QED
    BY <1>2, <2>3, <2>4
<1>4. CASE ApplyFails(r)
  <2>1. pc[r] \in Cmds /\ pc'[r] = "deltable" /\ r \in Linked
    BY <1>0, <1>4 DEF ApplyFails, Goto, TypeOK, Linked
  <2>2. May(r)' = Stage(r, "deltable")
    BY <1>0, <2>1, MayStep
  <2>3. May(r) \subseteq Stage(r, "deltable") \cup {x \in {Tap(r)} : pc[r] = "tapmove"}
    BY <2>1 DEF May, Stage, HasNS, HasTap, HasVeth, HasRoute, HasTable, Cmds, Undo
  <2>4. pc[r] = "tapmove" => "tapmove" \in CanFail
    <3>1. SUFFICES ASSUME pc[r] = "tapmove" PROVE Works(r, "tapmove")
      BY <1>4 DEF ApplyFails
    <3>2. NS(r) \in May(r) /\ Tap(r) \in May(r)
      BY <3>1 DEF May, Stage, HasNS, HasTap, Cmds
    <3>3. owner[NS(r)] = r /\ owner[Tap(r)] = r
      BY <3>1, <3>2 DEF Owned, Undo
    <3>q. QED
      BY <1>0, <3>3 DEF Works, Exists
  <2>5. Asks
    BY <2>1 DEF Undo
  <2>q. QED
    BY <1>2, <2>2, <2>3, <2>4, <2>5, Kinds
<1>5. CASE Launched(r) \/ LaunchFails(r) \/ RunEnds(r)
  <2>1. pc[r] \in {"launch", "run"} /\ pc'[r] \in {"run", "deltable"} /\ r \in Linked
    BY <1>0, <1>5 DEF Launched, LaunchFails, RunEnds, Goto, TypeOK, Linked
  <2>2. May(r)' = Stage(r, pc'[r])
    BY <1>0, <2>1, MayStep
  <2>3. May(r)' = May(r)
    BY <2>1, <2>2 DEF May, Stage, HasNS, HasTap, HasVeth, HasRoute, HasTable, Cmds, Undo
  <2>4. \A x \in May(r) : owner[x] = r
    BY <2>1 DEF Owned, Undo
  <2>q. QED
    BY <1>2, <2>3, <2>4
<1>q. QED
  BY <1>3, <1>4, <1>5 DEF Step

\* apply makes the objects of a link one by one.
LEMMA ApplyOwned ==
  ASSUME TInv, SInv, KeptApart, Owned, NEW r \in Requests, Apply(r)
  PROVE  Owned'
<1>0. TypeOK /\ owner \in [Names -> Requests \cup {None}] /\ None \notin Requests /\ Step(r)
  BY TapConfig DEF TInv, TypeOK, Step, Ids
<1>1. pc[r] \in Cmds /\ pc[r] \notin Undo /\ r \in Linked /\ pc'[r] = CmdAfter(pc[r])
  BY <1>0 DEF Apply, Goto, TypeOK, Linked, Cmds, Undo
<1>2. Objects(r) \subseteq Names /\ May(r) \subseteq Objects(r)
  BY <1>1, ObjectNames, MayLinked
<1>3. /\ \A x \in Names : owner[x] = r => x \in May(r) \/ (x[1] = "tap" /\ "tapmove" \in CanFail)
      /\ \A x \in May(r) : owner[x] = r
  BY <1>1 DEF Owned
<1>4. May(r)' = Stage(r, CmdAfter(pc[r]))
  BY <1>0, <1>1, MayStep
<1>5. ASSUME NEW y \in Objects(r), owner' = Made(r, y), May(r)' = May(r) \cup {y} PROVE Owned'
  <2>1. /\ \A x \in Names : owner'[x] = IF x = y THEN r ELSE owner[x]
        /\ owner' \in [Names -> Requests \cup {None}]
    BY <1>0, <1>2, <1>5 DEF Made
  <2>q. QED
    BY <1>0, <1>1, <1>2, <1>3, <1>5, <2>1, OwnedBy
<1>6. CASE pc[r] \in {"lo", "tapup", "vethmove", "uplink"}
  <2>1. owner' = owner
    BY <1>6 DEF Apply, Effect
  <2>2. CmdAfter(pc[r]) \in {"tap", "veth", "uplink", "route"}
    BY <1>6 DEF CmdAfter
  <2>3. May(r)' = May(r)
    BY <1>4, <1>6, <2>2 DEF CmdAfter, May, Stage, HasNS, HasTap, HasVeth, HasRoute, HasTable, Cmds, Undo
  <2>q. QED
    BY <1>0, <1>3, <2>1, <2>3, OwnedBy
<1>7. CASE pc[r] = "tapmove"
  <2>1. owner' = Removed(Tap(r)) /\ CmdAfter(pc[r]) = "tapup"
    BY <1>7 DEF Apply, Effect, CmdAfter
  <2>2. May(r)' = May(r) \ {Tap(r)}
    BY <1>4, <1>7, <2>1, Kinds DEF May, Stage, HasNS, HasTap, HasVeth, HasRoute, HasTable, Cmds, Undo
  <2>3. Tap(r) \in Objects(r)
    BY DEF Objects
  <2>4. /\ \A x \in Names : owner'[x] = IF x = Tap(r) THEN None ELSE owner[x]
        /\ owner' \in [Names -> Requests \cup {None}]
    BY <1>0, <2>1 DEF Removed
  <2>5. \A x \in Names : owner'[x] = r => x \in May(r)' \/ (x[1] = "tap" /\ "tapmove" \in CanFail)
    BY <1>0, <1>3, <2>2, <2>4
  <2>6. \A x \in May(r)' : owner'[x] = r
    BY <1>2, <1>3, <2>2, <2>4
  <2>q. QED
    BY <1>0, <1>1, <2>3, <2>4, <2>5, <2>6, OwnedBy
<1>8. ASSUME pc[r] \in {"netns", "tap", "veth", "route", "nft"}
      PROVE  \E y \in Objects(r) : owner' = Made(r, y) /\ May(r)' = May(r) \cup {y}
  <2> USE DEF May, Stage, HasNS, HasTap, HasVeth, HasRoute, HasTable, Cmds, Undo
  <2>1. CASE pc[r] = "netns"
    <3>1. owner' = Made(r, NS(r)) /\ CmdAfter(pc[r]) = "lo"
      BY <2>1 DEF Apply, Effect, CmdAfter
    <3>2. NS(r) \in Objects(r)
      BY DEF Objects
    <3>3. May(r)' = May(r) \cup {NS(r)}
      BY <1>4, <2>1, <3>1
    <3>q. QED
      BY <3>1, <3>2, <3>3
  <2>2. CASE pc[r] = "tap"
    <3>1. owner' = Made(r, Tap(r)) /\ CmdAfter(pc[r]) = "tapmove"
      BY <2>2 DEF Apply, Effect, CmdAfter
    <3>q. QED
      BY <1>4, <2>2, <3>1, ZenonT(40) DEF Objects
  <2>3. CASE pc[r] = "veth"
    <3>1. owner' = Made(r, Veth(r)) /\ CmdAfter(pc[r]) = "vethmove"
      BY <2>3 DEF Apply, Effect, CmdAfter
    <3>q. QED
      BY <1>4, <2>3, <3>1 DEF Objects
  <2>4. CASE pc[r] = "route"
    <3>1. owner' = Made(r, Route(r)) /\ CmdAfter(pc[r]) = "nft"
      BY <2>4 DEF Apply, Effect, CmdAfter
    <3>q. QED
      BY <1>4, <2>4, <3>1 DEF Objects
  <2>5. CASE pc[r] = "nft"
    <3>1. owner' = Made(r, Table(r)) /\ CmdAfter(pc[r]) = "launch"
      BY <2>5 DEF Apply, Effect, CmdAfter
    <3>q. QED
      BY <1>4, <2>5, <3>1 DEF Objects
  <2>q. QED
    BY <1>8, <2>1, <2>2, <2>3, <2>4, <2>5
<1>q. QED
  BY <1>1, <1>5, <1>6, <1>7, <1>8 DEF Cmds

\* Teardown removes them, and nothing of another link.
LEMMA TeardownOwned ==
  ASSUME TInv, SInv, KeptApart, Owned, NEW r \in Requests, Teardown(r)
  PROVE  Owned'
<1>0. /\ TypeOK /\ owner \in [Names -> Requests \cup {None}] /\ Step(r)
      /\ None \notin Requests /\ after[r] \in {"setup", "gone"}
  <2>1. TypeOK
    BY DEF TInv
  <2>2. /\ owner \in [Names -> Requests \cup {None}]
        /\ after \in [Requests -> {"setup", "gone"}]
    BY <2>1 DEF TypeOK
  <2>3. after[r] \in {"setup", "gone"}
    BY <2>2
  <2>4. Step(r)
    BY DEF Step
  <2>5. None \notin Requests
    BY TapConfig DEF Ids
  <2>q. QED
    BY <2>1, <2>2, <2>3, <2>4, <2>5
<1>1. pc[r] \in Undo /\ r \in Linked /\ pc'[r] = UndoAfter(r)
  BY <1>0 DEF Teardown, Goto, TypeOK, Linked
<1>2. Objects(r) \subseteq Names /\ {NS(r), Veth(r), Route(r), Table(r)} \subseteq Objects(r)
  BY <1>1, ObjectNames DEF Objects
<1>3. \A x \in Names : owner[x] = r => x \in May(r) \/ (x[1] = "tap" /\ "tapmove" \in CanFail)
  BY DEF Owned
<1>4. May(r)' = Stage(r, UndoAfter(r))
  BY <1>0, <1>1, MayStep
<1>5. ASSUME NEW y \in Objects(r), \A x \in Names : owner'[x] = IF x = y THEN None ELSE owner[x],
             owner' \in [Names -> Requests \cup {None}],
             May(r) \ {y} \subseteq May(r)', pc'[r] \in Undo \/ May(r)' = {}
      PROVE  Owned'
  BY <1>0, <1>1, <1>3, <1>5, OwnedBy
<1> USE DEF May, Stage, HasNS, HasTap, HasVeth, HasRoute, HasTable, Cmds, Undo
<1>6. CASE pc[r] = "deltable"
  <2>1. owner' = Removed(Table(r)) /\ UndoAfter(r) = "delroute"
    BY <1>6 DEF Teardown, Undone, UndoAfter
  <2>2. May(r) \ {Table(r)} \subseteq May(r)' /\ pc'[r] \in Undo
    BY <1>1, <1>4, <1>6, <2>1
  <2>q. QED
    BY <1>0, <1>2, <1>5, <2>1, <2>2 DEF Removed
<1>7. CASE pc[r] = "delroute"
  <2>1. owner' = Removed(Route(r)) /\ UndoAfter(r) = "delns"
    BY <1>7 DEF Teardown, Undone, UndoAfter
  <2>2. May(r) \ {Route(r)} \subseteq May(r)' /\ pc'[r] \in Undo
    BY <1>1, <1>4, <1>7, <2>1
  <2>q. QED
    BY <1>0, <1>2, <1>5, <2>1, <2>2 DEF Removed
<1>8. CASE pc[r] = "delns"
  <2>1. owner' = Removed(NS(r)) /\ UndoAfter(r) = "delveth"
    BY <1>8 DEF Teardown, Undone, UndoAfter
  <2>2. May(r) \ {NS(r)} \subseteq May(r)' /\ pc'[r] \in Undo
    BY <1>1, <1>4, <1>8, <2>1
  <2>q. QED
    BY <1>0, <1>2, <1>5, <2>1, <2>2 DEF Removed
<1>9. CASE pc[r] = "delveth"
  <2>1. /\ owner' = [x \in Names |->
               IF x = Veth(r) \/ (x[1] = "route" /\ Exists(Veth(r)) /\ owner[x] = owner[Veth(r)])
               THEN None ELSE owner[x]]
        /\ UndoAfter(r) = after[r]
    BY <1>9 DEF Teardown, Undone, UndoAfter
  <2>2. May(r) = {Veth(r)} /\ May(r)' = {}
    BY <1>0, <1>4, <1>9, <2>1
  <2>3. owner[Veth(r)] \in {r, None}
    <3>1. SUFFICES ASSUME NEW o \in Requests, owner[Veth(r)] = o, o # r PROVE FALSE
      BY <1>0, <1>2
    <3>2. Veth(r) \in May(o)
      BY <1>2, <3>1, Kinds DEF Owned
    <3>3. o \in Linked /\ Veth(r) \in Objects(o)
      BY <3>2, MayLinked
    <3>q. QED
      BY <1>1, <1>2, <3>1, <3>3, Disjoint
  <2>4. ASSUME NEW x \in Names, x[1] = "route", Exists(Veth(r)), owner[x] = owner[Veth(r)] PROVE FALSE
    <3>1. owner[x] = r
      BY <2>3, <2>4 DEF Exists
    <3>2. x = Veth(r)
      BY <1>3, <2>2, <2>4, <3>1
    <3>q. QED
      BY <2>4, <3>2, Kinds
  <2>5. \A x \in Names : owner'[x] = IF x = Veth(r) THEN None ELSE owner[x]
    BY <2>1, <2>4
  <2>6. owner' \in [Names -> Requests \cup {None}]
    BY <1>0, <2>1
  <2>q. QED
    BY <1>2, <1>5, <2>2, <2>5, <2>6
<1>q. QED
  BY <1>1, <1>6, <1>7, <1>8, <1>9

\* The invariant of the host.
THEOREM HostInvariance == Spec => []OInv
<1>1. Init => OInv
  BY TapConfig DEF Init, OInv, Owned, May, Stage, HasNS, HasTap, HasVeth, HasRoute, HasTable, Cmds, Undo, Ids
<1>2. TInv /\ SInv /\ OInv /\ [Next]_vars => OInv'
  <2> SUFFICES ASSUME TInv, SInv, OInv, [Next]_vars, KeptApart' PROVE Owned'
    BY DEF OInv
  <2>1. ASSUME NEW r \in Requests, Step(r) PROVE Owned'
    <3>1. deployment' = deployment
      BY <2>1, Moves DEF TInv
    <3>2. KeptApart /\ Owned
      BY <3>1 DEF OInv, KeptApart, Slots, Apart, Restarts, Dev
    <3>q. QED
      BY <2>1, <3>2, QuietOwned, ApplyOwned, TeardownOwned
  <2>2. CASE UNCHANGED <<deployment, pc, sess, idx, owner>>
    <3>1. KeptApart /\ Owned
      BY <2>2 DEF OInv, KeptApart, Slots, Apart, Restarts, Dev
    <3>2. Names' = Names /\ CanFail' = CanFail /\ \A r \in Requests : May(r)' = May(r)
      BY <2>2 DEF Names, CanFail, Dev, May, Stage, NS, Tap, Veth, Route, Table, Id, Pair30
    <3>q. QED
      BY <2>2, <3>1, <3>2 DEF Owned
  <2>q. QED
    BY <2>1, <2>2 DEF Next, Step, Restart, vars
<1>q. QED
  BY <1>1, <1>2, SubnetInvariance, ApartInvariance, PTL DEF Spec

-----------------------------------------------------------------------------
(* The properties.                                                         *)

\* From the return of Setup or Recreate to its own Teardown a link keeps its
\* namespace, uplink, route and table, however many requests there are and
\* whatever fails in the Setup of the others, if requests are kept apart.
THEOREM LinkKept == Spec => []LinkIntact
<1>1. OInv => LinkIntact
  BY DEF OInv, Owned, LinkIntact, May, Stage, HasNS, HasVeth, HasRoute, HasTable, Undo
<1>q. QED
  BY <1>1, HostInvariance, PTL

\* When no request is in flight the host has no object of any link, for any number
\* of earlier requests and any commands of apply that failed on the way.
THEOREM HostClean == Spec => []NothingLeft
<1>1. TInv /\ OInv => NothingLeft
  <2> SUFFICES ASSUME TInv, OInv, KeptApart, "tapmove" \notin CanFail, InFlight = {},
                      NEW x \in Names, owner[x] # None
               PROVE  FALSE
    BY DEF NothingLeft, Exists
  <2>1. owner[x] \in Requests
    BY DEF TInv, TypeOK
  <2>2. x \in May(owner[x])
    BY <2>1 DEF OInv, Owned
  <2>q. QED
    BY <2>1, <2>2, MayLinked, LinkedFlies
<1>q. QED
  BY <1>1, SubnetInvariance, HostInvariance, PTL

\* With one slot the packets of a running guest to its allowlist pass the forward
\* hook of the host and no others do, for any number of requests, also when the
\* device names of sessions collide and when warden is restarted in between.
THEOREM ForwardExact == Spec => []AllowlistExact
<1>1. TInv /\ SInv /\ OInv => AllowlistExact
  <2> SUFFICES ASSUME TInv, SInv, OInv, Slots = 1, NEW r \in Requests, pc[r] = "run"
               PROVE  Forwarded(r, "allowed") /\ ~Forwarded(r, "other")
    BY DEF AllowlistExact
  <2>1. Owned /\ r \in InFlight /\ r \in Linked /\ Id(r) \in Ids
    BY DEF OInv, KeptApart, InFlight, Linked, TInv, TypeOK, Id, Ids
  <2>2. ASSUME NEW i \in Ids, owner[<<"table", i>>] # None PROVE i = Id(r)
    <3>1. <<"table", i>> \in Names
      BY DEF Names
    <3>2. PICK o \in Requests : owner[<<"table", i>>] = o
      BY <2>2, <3>1 DEF TInv, TypeOK
    <3>3. <<"table", i>> \in May(o)
      BY <2>1, <3>1, <3>2 DEF Owned
    <3>4. o = r
      BY <2>1, <3>3, MayLinked, LinkedFlies DEF SInv, Alone
    <3>q. QED
      BY <3>3, <3>4 DEF May, Stage, NS, Tap, Veth, Route, Table
  <2>3. owner[<<"table", Id(r)>>] = r /\ r # None
    BY <2>1, TapConfig DEF Owned, May, Stage, HasTable, Undo, Table, Ids
  <2>q. QED
    BY <2>1, <2>2, <2>3 DEF Forwarded, Accepts, Exists
<1>q. QED
  BY <1>1, SubnetInvariance, ApartInvariance, HostInvariance, PTL
=============================================================================
