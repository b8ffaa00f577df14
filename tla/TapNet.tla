------------------------------- MODULE TapNet -------------------------------
(***************************************************************************)
(* The network links of the microVMs (internal/network: tap.go, nft.go,    *)
(* netns.go) as Firecracker.launch, launchRestore and Destroy use them.    *)
(* Setup, Recreate and Teardown run one host command after another, and    *)
(* the commands of several requests interleave.  The host is a set of      *)
(* named objects, shared by name; the model remembers whose command made   *)
(* each of them.  Names come from the session (or VM) id, the subnet from  *)
(* a counter of the process or from the record of the session.             *)
(***************************************************************************)
EXTENDS Integers, FiniteSets

CONSTANTS Requests,   \* calls of Boot with a non-empty allowlist
          Sessions,   \* session ids in use
          Deployments, \* installations, with their clients and faults: see below
          None        \* no owner, no session

\* A request without a session is named after its VM; tapID marks the others.
Ids == Sessions \cup Requests

ASSUME TapConfig ==
  /\ IsFiniteSet(Requests)
  /\ None \notin Ids /\ Sessions \cap Requests = {}
  /\ \A d \in Deployments : /\ DOMAIN d.dev = Ids
                            /\ d.slots \in Nat \ {0}
                            /\ d.subnetMax \in Nat \ {0} /\ d.subnetMax <= 16383
                            /\ d.restarts \in BOOLEAN /\ d.apart \in BOOLEAN

VARIABLES deployment, \* a member of Deployments
          pc,     \* the command a request is about to run, or where it is between them
          sess,   \* the session of a request
          idx,    \* the subnet index of its link, 0 without a link
          after,  \* where Teardown returns to
          seq,    \* TAP.seq
          saved,  \* the subnet index in the committed record of a session, 0 without one
          owner   \* who made the object that has this name

vars == <<deployment, pc, sess, idx, after, seq, saved, owner>>

\* tapName and vethNames: device names keep 13 characters of an id.
Dev       == deployment.dev
\* WARDEN_MAX_VMS.
Slots     == deployment.slots
\* pair30 refuses an index beyond it (16383 in the code).
SubnetMax == deployment.subnetMax
\* Commands of apply that may fail for reasons of their own.
CanFail   == deployment.canFail
\* warden may be restarted while it is idle.
Restarts  == deployment.restarts
\* Clients never use a session in two requests at once.
Apart     == deployment.apart

\* The commands of apply, in order; those that only set up what an earlier
\* command made inside the namespace, or on the host veth, are one.
Cmds == {"netns", "lo", "tap", "tapmove", "tapup", "veth", "vethmove", "uplink", "route", "nft"}
Undo == {"deltable", "delroute", "delns", "delveth"}
PCs  == {"idle", "boot", "setup", "launch", "run", "gone"} \cup Cmds \cup Undo

\* A request asks for a new subnet at most once.
MaxSeq == Cardinality(Requests)

\* pair30: the last two bytes of the /30, of the TAP and of the uplink alike.
Pair30(n) == LET off == (n - 1) * 4 IN <<(off \div 256) % 256, off % 256>>

Subnets == {Pair30(n) : n \in 1..MaxSeq}
Names ==
  ({"ns", "table"} \X Ids) \cup ({"tap", "veth"} \X {Dev[i] : i \in Ids}) \cup ({"route"} \X Subnets)

\* tapID.
Id(r) == IF sess[r] # None THEN sess[r] ELSE r

NS(r)    == <<"ns", Id(r)>>
Table(r) == <<"table", Id(r)>>
Tap(r)   == <<"tap", Dev[Id(r)]>>
Veth(r)  == <<"veth", Dev[Id(r)]>>
Route(r) == <<"route", Pair30(idx[r])>>

InFlight == {r \in Requests : pc[r] \notin {"idle", "gone"}}

Init ==
  /\ deployment \in Deployments
  /\ pc = [r \in Requests |-> "idle"]
  /\ sess = [r \in Requests |-> None]
  /\ idx = [r \in Requests |-> 0]
  /\ after = [r \in Requests |-> "gone"]
  /\ seq = 0
  /\ saved = [s \in Sessions |-> 0]
  /\ owner = [x \in Names |-> None]

Goto(r, label) == pc' = [pc EXCEPT ![r] = label]
Exists(x)      == owner[x] # None
Made(r, x)     == [owner EXCEPT ![x] = r]
Removed(x)     == [owner EXCEPT ![x] = None]

-----------------------------------------------------------------------------
(* Boot.                                                                   *)

\* The gate lets a request in.
Start(r) ==
  /\ pc[r] = "idle"
  /\ Cardinality(InFlight) < Slots
  /\ \E s \in Sessions \cup {None} :
       /\ Apart /\ s # None => \A o \in InFlight : sess[o] # s
       /\ sess' = [sess EXCEPT ![r] = s]
  /\ Goto(r, "boot")
  /\ UNCHANGED <<deployment, idx, after, seq, saved, owner>>

\* Snapshots.Restore: a record is restored over the link it names, otherwise the
\* boot is cold.  Teardown of a failed restore is followed by a cold boot.
Choose(r) ==
  /\ pc[r] = "boot"
  /\ IF sess[r] # None /\ saved[sess[r]] # 0
     THEN /\ idx' = [idx EXCEPT ![r] = saved[sess[r]]]
          /\ after' = [after EXCEPT ![r] = "setup"]
          /\ Goto(r, "netns")
     ELSE Goto(r, "setup") /\ UNCHANGED <<idx, after>>
  /\ UNCHANGED <<deployment, sess, seq, saved, owner>>

\* [mutant] the index of an earlier link is taken again.
SetupReuses(r) ==
  /\ pc[r] = "setup"
  /\ after' = [after EXCEPT ![r] = "gone"]
  /\ idx' = [idx EXCEPT ![r] = seq + 1]
  /\ Goto(r, "netns")
  /\ saved' = IF after[r] = "setup" THEN [saved EXCEPT ![sess[r]] = 0] ELSE saved
  /\ UNCHANGED <<deployment, sess, seq, owner>>

\* [mutant] no check of the index.
SetupUnchecked(r) ==
  /\ pc[r] = "setup"
  /\ saved' = IF after[r] = "setup" THEN [saved EXCEPT ![sess[r]] = 0] ELSE saved
  /\ after' = [after EXCEPT ![r] = "gone"]
  /\ seq' = seq + 1 /\ idx' = [idx EXCEPT ![r] = seq + 1] /\ Goto(r, "netns")
  /\ UNCHANGED <<deployment, sess, owner>>

\* Setup: the policy and the lookup of its names, then the next subnet.  (After a
\* failed restore Boot has deleted the record.)
Setup(r) ==
  /\ pc[r] = "setup"
  /\ saved' = IF after[r] = "setup" THEN [saved EXCEPT ![sess[r]] = 0] ELSE saved
  /\ after' = [after EXCEPT ![r] = "gone"]
  /\ \/ seq + 1 <= SubnetMax /\ seq' = seq + 1
        /\ idx' = [idx EXCEPT ![r] = seq + 1] /\ Goto(r, "netns")
     \/ seq + 1 > SubnetMax /\ seq' = seq + 1 /\ UNCHANGED idx /\ Goto(r, "gone")
     \/ "lookup" \in CanFail /\ UNCHANGED <<seq, idx>> /\ Goto(r, "gone")
  /\ UNCHANGED <<deployment, sess, owner>>

-----------------------------------------------------------------------------
(* apply.                                                                  *)

CmdAfter(c) ==
  CASE c = "netns"   -> "lo"
    [] c = "lo"      -> "tap"
    [] c = "tap"     -> "tapmove"
    [] c = "tapmove" -> "tapup"
    [] c = "tapup"   -> "veth"
    [] c = "veth"    -> "vethmove"
    [] c = "vethmove" -> "uplink"
    [] c = "uplink"  -> "route"
    [] c = "route"   -> "nft"
    [] OTHER         -> "launch"

\* What the kernel wants for a command: a name that is free for what is created,
\* an object behind the names that are used.
Works(r, c) ==
  CASE c = "netns"           -> ~Exists(NS(r))
    [] c \in {"lo", "tapup"} -> Exists(NS(r))
    [] c = "tap"             -> ~Exists(Tap(r))
    [] c = "tapmove"         -> Exists(NS(r)) /\ Exists(Tap(r))
    [] c = "veth"            -> ~Exists(Veth(r))
    [] c \in {"vethmove", "uplink"} -> Exists(NS(r)) /\ Exists(Veth(r))
    [] c = "route"           -> Exists(Veth(r)) /\ ~Exists(Route(r))
    [] OTHER                 -> TRUE

\* A TAP that was moved leaves the names of the host and dies with the namespace.
Effect(r, c) ==
  CASE c = "netns"   -> Made(r, NS(r))
    [] c = "tap"     -> Made(r, Tap(r))
    [] c = "tapmove" -> Removed(Tap(r))
    [] c = "veth"    -> Made(r, Veth(r))
    [] c = "route"   -> Made(r, Route(r))
    [] c = "nft"     -> Made(r, Table(r))
    [] OTHER         -> owner

Apply(r) ==
  /\ pc[r] \in Cmds
  /\ Works(r, pc[r])
  /\ owner' = Effect(r, pc[r])
  /\ Goto(r, CmdAfter(pc[r]))
  /\ UNCHANGED <<deployment, sess, idx, after, seq, saved>>

\* The deferred cleanup of apply: Teardown of the link, whatever of it was made.
ApplyFails(r) ==
  /\ pc[r] \in Cmds
  /\ Works(r, pc[r]) => pc[r] \in CanFail
  /\ Goto(r, "deltable")
  /\ UNCHANGED <<deployment, sess, idx, after, seq, saved, owner>>

-----------------------------------------------------------------------------
(* The microVM over the link.                                              *)

\* launch or launchRestore comes to its end.
Launched(r) ==
  /\ pc[r] = "launch"
  /\ Goto(r, "run")
  /\ after' = [after EXCEPT ![r] = "gone"]
  /\ UNCHANGED <<deployment, sess, idx, seq, saved, owner>>

\* A later stage of launch fails: bootOne calls tapTeardown.
LaunchFails(r) ==
  /\ pc[r] = "launch"
  /\ Goto(r, "deltable")
  /\ UNCHANGED <<deployment, sess, idx, after, seq, saved, owner>>

\* Execute, maybeSnapshot (fillRecordNetwork puts the link into the record) and
\* the head of Destroy.
RunEnds(r) ==
  /\ pc[r] = "run"
  /\ \/ sess[r] # None /\ saved' = [saved EXCEPT ![sess[r]] = idx[r]]
     \/ UNCHANGED saved
  /\ Goto(r, "deltable")
  /\ UNCHANGED <<deployment, sess, idx, after, seq, owner>>

-----------------------------------------------------------------------------
(* Teardown.                                                               *)

UndoAfter(r) ==
  CASE pc[r] = "deltable" -> "delroute"
    [] pc[r] = "delroute" -> "delns"
    [] pc[r] = "delns"    -> "delveth"
    [] OTHER              -> after[r]

\* [mutant] Teardown leaves the nft table.
UndoneKeepsTable(r) ==
  CASE pc[r] = "deltable" -> owner
    [] pc[r] = "delroute" -> Removed(Route(r))
    [] pc[r] = "delns"    -> Removed(NS(r))
    [] OTHER              -> [x \in Names |->
         IF x = Veth(r) \/ (x[1] = "route" /\ Exists(Veth(r)) /\ owner[x] = owner[Veth(r)])
         THEN None ELSE owner[x]]

\* The routes over a veth go with it.
Undone(r) ==
  CASE pc[r] = "deltable" -> Removed(Table(r))
    [] pc[r] = "delroute" -> Removed(Route(r))
    [] pc[r] = "delns"    -> Removed(NS(r))
    [] OTHER              -> [x \in Names |->
         IF x = Veth(r) \/ (x[1] = "route" /\ Exists(Veth(r)) /\ owner[x] = owner[Veth(r)])
         THEN None ELSE owner[x]]

\* A command that finds nothing to delete does not stop the next one.
Teardown(r) ==
  /\ pc[r] \in Undo
  /\ owner' = Undone(r)
  /\ Goto(r, UndoAfter(r))
  /\ UNCHANGED <<deployment, sess, idx, after, seq, saved>>

\* warden stops and starts again between two requests; records survive.
Restart ==
  /\ Restarts
  /\ InFlight = {}
  /\ seq > 0
  /\ seq' = 0
  /\ UNCHANGED <<deployment, pc, sess, idx, after, saved, owner>>

Next ==
  \/ \E r \in Requests :
       \/ Start(r) \/ Choose(r) \/ Setup(r) \/ Apply(r) \/ ApplyFails(r)
       \/ Launched(r) \/ LaunchFails(r) \/ RunEnds(r) \/ Teardown(r)
  \/ Restart

Spec == Init /\ [][Next]_vars

-----------------------------------------------------------------------------
(* Properties.                                                             *)

\* Every variable has its type; a link only has a subnet that pair30 can express.
TypeOK ==
  /\ deployment \in Deployments
  /\ pc \in [Requests -> PCs]
  /\ sess \in [Requests -> Sessions \cup {None}]
  /\ idx \in [Requests -> 0..SubnetMax]
  /\ after \in [Requests -> {"setup", "gone"}]
  /\ seq \in 0..MaxSeq
  /\ saved \in [Sessions -> 0..SubnetMax]
  /\ owner \in [Names -> Requests \cup {None}]

\* One request at a time, or clients, device names and subnets that keep the
\* requests apart.
KeptApart ==
  \/ Slots = 1
  \/ Apart /\ ~Restarts /\ \A i, j \in Ids : Dev[i] = Dev[j] => i = j

\* "Link is one TAP bound to a single microVM, plus the netns/veth that keep that
\* TAP out of the host network namespace" (tap.go): from the return of Setup or
\* Recreate to its own Teardown a link keeps its namespace, uplink, route and
\* table, whatever fails in the Setup of others, if the requests are kept apart.
LinkIntact ==
  KeptApart => \A r \in Requests : pc[r] \in {"launch", "run"} =>
    \A x \in {NS(r), Veth(r), Route(r), Table(r)} : owner[x] = r

\* RenderNFT: a base chain that drops what is not from its own device to an
\* allowed destination (or a reply).  A forwarded packet passes every chain.
Accepts(table, dev, dst) == Dev[table] = dev /\ dst = "allowed"
Forwarded(r, dst) ==
  \A i \in Ids : Exists(<<"table", i>>) => Accepts(i, Dev[Id(r)], dst)

\* "Only forwarded packets to the allowlisted destinations (plus established
\* replies) pass" (nft.go): while a guest runs its packets to an allowlisted
\* address pass the forward hook of the host and its other packets do not.  With
\* several slots the chains of the others drop them all.
AllowlistExact ==
  Slots = 1 => \A r \in Requests : pc[r] = "run" =>
    Forwarded(r, "allowed") /\ ~Forwarded(r, "other")

\* Teardown "removes the nft table, the host route, the netns (TAP + ns veth die
\* with it), and the host veth" (tap.go): when no request is in flight the host
\* has no object of any link, however many commands of apply failed (but for the
\* move of the TAP into its namespace, after which it would die with it).
NothingLeft == KeptApart /\ "tapmove" \notin CanFail /\ InFlight = {} => \A x \in Names : ~Exists(x)
=============================================================================
