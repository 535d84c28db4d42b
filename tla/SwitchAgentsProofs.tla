------------------------ MODULE SwitchAgentsProofs -------------------------
(***************************************************************************)
(* What the shared section keeps for any drivers, requests, games and      *)
(* bounds: an agent acts on the game that is on air and on no other.  What *)
(* the coordinator keeps among its agents.  And that the game on air has   *)
(* an agent, for which generations must not be taken twice.                *)
(***************************************************************************)
EXTENDS SwitchAgents, CommitProofs

(* An agent is a record of its runtime and its place, so that a move of it *)
(* is a change of the place.                                               *)
Shaped == \A a \in agents : a = [rt |-> a.rt, at |-> a.at]

FenceInv == Shaped /\ ActsOnAir

-----------------------------------------------------------------------------
(* A call to start an agent brings an idle one; nobody acts who did not.   *)
LEMMA CallsBringIdle ==
  ASSUME Shaped, NEW stopped, NEW started, NEW failed, Calls(stopped, started, failed)
  PROVE  Shaped' /\ Acting' \subseteq Acting
<1>1. \A a \in agents' : a \in agents \/ a = Agent(a.rt)
  BY DEF Calls, Agent
<1> QED
  BY <1>1 DEF Shaped, Acting, Agent

(* Nobody acts: neither a start of an agent nor a step of a driver matters *)
LEMMA QuietKept ==
  ASSUME Acting' = {}
  PROVE  ActsOnAir'
BY DEF ActsOnAir

(* A driver takes a step only while no agent acts: the lock is either its  *)
(* own or another driver's, and then nobody acts by the invariant, or it   *)
(* is free, and then the step needs that nobody has the shared side.       *)
LEMMA DriversMeetNobody ==
  ASSUME FenceInv, NEW d \in Driver, Drive(d) \/ Enters(d)
  PROVE  Acting = {}
BY DEF FenceInv, ActsOnAir, Drive, Enters

(* An agent that moves leaves the others where they are.                   *)
LEMMA MoveKeeps ==
  ASSUME FenceInv, UNCHANGED vars, NEW a \in agents, NEW at, Moves(a, at),
         at = "acts" => a.rt = canon.active /\ lock = NoDriver
  PROVE  FenceInv'
<1>1. [a EXCEPT !.at = at] = [rt |-> a.rt, at |-> at]
  BY DEF FenceInv, Shaped
<1>2. \A b \in agents' : b \in agents \/ b = [rt |-> a.rt, at |-> at]
  BY <1>1 DEF Moves
<1> QED
  BY <1>2 DEF FenceInv, Shaped, ActsOnAir, Acting, vars

(* One who leaves acts no more.                                            *)
LEMMA FewerKept ==
  ASSUME FenceInv, agents' \subseteq agents, canon'.active = canon.active,
         lock = NoDriver => lock' = NoDriver
  PROVE  FenceInv'
BY DEF FenceInv, Shaped, ActsOnAir, Acting

LEMMA FenceKept ==
  ASSUME FenceInv, [AgentsNext]_allvars
  PROVE  FenceInv'
<1>1. CASE UNCHANGED allvars
  BY <1>1 DEF FenceInv, Shaped, ActsOnAir, Acting, allvars, vars
<1>2. ASSUME NEW d \in Driver, Drive(d)
      PROVE  FenceInv'
  <2>1. Acting = {}
    BY <1>2, DriversMeetNobody
  <2>2. PICK failed : Calls(Stopped(d), Started(d), failed)
    BY <1>2 DEF Drive, CallsAgents
  <2>3. Shaped' /\ Acting' \subseteq Acting
    BY <2>2, CallsBringIdle DEF FenceInv
  <2> QED
    BY <2>1, <2>3, QuietKept DEF FenceInv
<1>3. ASSUME NEW d \in Driver, Enters(d)
      PROVE  FenceInv'
  <2>1. Acting = {} /\ UNCHANGED agents
    BY <1>3, DriversMeetNobody DEF Enters
  <2> QED
    BY <2>1, QuietKept DEF FenceInv, Shaped, Acting
<1>4. ASSUME NEW d \in Driver, KeptOut(d)
      PROVE  FenceInv'
  BY <1>4, FewerKept DEF KeptOut, Disk
<1>5. ASSUME NEW d \in Driver, Dies(d)
      PROVE  FenceInv'
  <2>1. UNCHANGED canon /\ (lock = NoDriver => lock' = NoDriver)
    BY <1>5 DEF Dies, Crash, Disk
  <2>2. PICK failed : Calls({}, Started(d), failed)
    BY <1>5 DEF Dies
  <2>3. Shaped' /\ Acting' \subseteq Acting
    BY <2>2, CallsBringIdle DEF FenceInv
  <2> QED
    BY <2>1, <2>3 DEF FenceInv, ActsOnAir
<1>6. CASE Repair
  <2>1. PICK failed : Calls({}, {canon.active}, failed)
    BY <1>6 DEF Repair
  <2>2. Shaped' /\ Acting' \subseteq Acting
    BY <2>1, CallsBringIdle DEF FenceInv
  <2>3. Acting = {}
    BY <1>6 DEF Repair
  <2> QED
    BY <2>2, <2>3, QuietKept DEF FenceInv
<1>7. ASSUME NEW a \in agents, AgentStep(a)
      PROVE  FenceInv'
  <2>1. CASE Enter(a)
    BY <2>1, MoveKeeps DEF Enter
  <2>2. CASE Resolve(a) \/ NextCycle(a) \/ Acted(a)
    <3>1. UNCHANGED vars
      BY <2>2 DEF Resolve, NextCycle, Acted
    <3>2. Moves(a, "run") \/ Moves(a, "idle") \/ FenceLost(a)
      BY <2>2 DEF Resolve, NextCycle, Acted
    <3>3. CASE FenceLost(a)
      BY <3>1, <3>3, FewerKept DEF FenceLost, vars
    <3> QED
      BY <3>1, <3>2, <3>3, MoveKeeps
  <2>3. CASE Check(a)
    BY <2>3, FewerKept DEF Check, FenceLost, vars
  <2>4. CASE Exits(a)
    BY <2>4, FewerKept DEF Exits, Disk
  <2> QED
    BY <1>7, <2>1, <2>2, <2>3, <2>4 DEF AgentStep
<1>8. CASE Expire /\ UNCHANGED <<agents, exited>>
  BY <1>8, FewerKept DEF Expire
<1>9. ASSUME NEW rt \in live, GameDies(rt), UNCHANGED <<agents, exited>>
      PROVE  FenceInv'
  BY <1>9, FewerKept DEF GameDies, Disk
<1> QED
  BY <1>1, <1>2, <1>3, <1>4, <1>5, <1>6, <1>7, <1>8, <1>9 DEF AgentsNext

(* An agent acts on the game that is on air, and only while no driver is   *)
(* between the steps of a transition, for any number of drivers and agents *)
(* and whatever dies (fence.py, the shared section of loop.py).            *)
THEOREM FenceHolds == AgentsSpec => []ActsOnAir
<1>1. AgentsInit => FenceInv
  BY DEF AgentsInit, Agent, FenceInv, Shaped, ActsOnAir, Acting
<1>2. FenceInv /\ [AgentsNext]_allvars => FenceInv'
  BY FenceKept
<1>3. FenceInv => ActsOnAir
  BY DEF FenceInv
<1> QED
  BY <1>1, <1>2, <1>3, PTL DEF AgentsSpec

-----------------------------------------------------------------------------
(* The coordinator among its agents                                        *)

(* What the agents do to the coordinator's state: at most a fault is       *)
(* counted.                                                                *)
AgentsAlone == UNCHANGED <<Disk, lock, proc, World>> /\ faults' \in Nat

(* A step of the composition is one of the coordinator, or of the agents   *)
(* alone, or a driver that agents keep out of the lock leaves.             *)
LEMMA ComposedSteps ==
  ASSUME CommitInv, [AgentsNext]_allvars
  PROVE  [Next]_vars \/ AgentsAlone \/ \E d \in Driver : KeptOut(d)
<1>1. faults \in Nat BY DEF CommitInv, RunInv, OwnInv, TypeInv, Data
<1>2. CASE \E d \in Driver : Drive(d) \/ Enters(d) \/ Dies(d)
  BY <1>2 DEF Drive, Enters, Dies, Next
<1>3. CASE Repair
  BY <1>1, <1>3 DEF Repair, AgentsAlone, Fault, Benign
<1>4. ASSUME NEW a \in agents, AgentStep(a) PROVE [Next]_vars \/ AgentsAlone
  BY <1>1, <1>4
  DEF AgentStep, Resolve, Enter, Check, NextCycle, Acted, Exits, AgentsAlone, Fault
<1>5. CASE (Expire \/ \E rt \in live : GameDies(rt)) /\ UNCHANGED <<agents, exited>>
  BY <1>5 DEF Next
<1>6. CASE UNCHANGED allvars BY <1>6 DEF allvars
<1> QED BY <1>2, <1>3, <1>4, <1>5, <1>6 DEF AgentsNext

LEMMA KeptOutBystands ==
  ASSUME CommitInv, NEW d \in Driver, KeptOut(d)
  PROVE  Bystands(d) /\ TypeInv' /\ Pending' /\ UNCHANGED <<Disk, World>>
<1> USE DEF CommitInv, RunInv, OwnInv, TypeInv
<1>1. proc[d].pc \in {"await", "cancel", "expire"} /\ proc' = [proc EXCEPT ![d] = Off]
      /\ UNCHANGED <<Disk, lock, World, faults>>
  BY DEF KeptOut
<1>2. lock # d BY <1>1 DEF Control, LockedPcs
<1>3. /\ proc'[d] = Off /\ Others(d) BY <1>1 DEF Control, Others
<1>4. Bystands(d) BY <1>1, <1>2, <1>3, OffAwaits DEF Bystands
<1>5. Control' BY <1>1, <1>2, OffTyped, OffMoves, MoveControl
<1>6. Data' BY <1>1, DataKept DEF Data
<1>7. Pending'
  <2>1. \A e \in Driver : PendingOf(proc'[e], receipts)
    BY <1>3 DEF Pending, PendingOf, Others, Off
  <2> QED BY <1>1, <2>1 DEF Pending, Disk
<1> QED BY <1>1, <1>4, <1>5, <1>6, <1>7

LEMMA AgentsAloneKeep ==
  ASSUME CommitInv, AgentsAlone
  PROVE  CommitInv'
<1> USE DEF CommitInv, RunInv, OwnInv, AgentsAlone, Disk, World
<1>1. Control' BY StayControl DEF TypeInv
<1>2. Data' BY DEF TypeInv, Data
<1>3. Pending' BY DEF Pending
<1>4. Ownership' BY DEF Ownership
<1>5. Receipted' BY DEF Receipted
<1>6. Running' BY DEF Running
<1>7. Proven' BY DEF Proven, RetireesProvable, CommitsKept, RetiredBy
<1> QED BY <1>1, <1>2, <1>3, <1>4, <1>5, <1>6, <1>7 DEF TypeInv

LEMMA NextCommitInv == CommitInv /\ [Next]_vars => CommitInv'
BY NextTyped, NextKeeps, NextOwned, NextReceipted, ReceiptedOwned, NextRunning, NextProven
DEF CommitInv, RunInv, OwnInv

LEMMA ComposedKeeps == CommitInv /\ [AgentsNext]_allvars => CommitInv'
<1> SUFFICES ASSUME CommitInv, [AgentsNext]_allvars PROVE CommitInv'
  OBVIOUS
<1>1. ASSUME NEW d \in Driver, KeptOut(d) PROVE CommitInv'
  <2>1. Bystands(d) /\ TypeInv' /\ Pending' BY <1>1, KeptOutBystands
  <2> QED
    BY <2>1, BystandsOwnership, BystandsReceipted, BystandsRunning, BystandsProven
    DEF CommitInv, RunInv, OwnInv
<1> QED BY <1>1, ComposedSteps, NextCommitInv, AgentsAloneKeep

LEMMA AlwaysComposed == AgentsSpec => []CommitInv
<1>1. AgentsInit => CommitInv
  BY InitTyped, InitOwned, InitReceipted, InitRunning, InitProven
  DEF AgentsInit, Init, Pending, PendingOf, Off, CommitInv, RunInv, OwnInv
<1> QED BY <1>1, ComposedKeeps, PTL DEF AgentsSpec

(* What the coordinator keeps by itself it keeps among its agents, whose   *)
(* shared locks keep drivers waiting and make them give up: every game is  *)
(* named and at most one of the slots' games runs, what is saved is valid, *)
(* and commits are honoured.                                               *)
THEOREM CoordinatorAmongAgents ==
  AgentsSpec => [](/\ StartsAlone /\ NoOrphanGame /\ OneGameOnAir /\ CanonicalValid
                   /\ RetireesProvable /\ CommitsHonoured
                   /\ DriverOwnsCanonical /\ OneInFlight /\ RecoverableIdentity)
<1>1. CommitInv => /\ StartsAlone /\ NoOrphanGame /\ OneGameOnAir /\ CanonicalValid
                   /\ RetireesProvable /\ CommitsHonoured
                   /\ DriverOwnsCanonical /\ OneInFlight /\ RecoverableIdentity
  BY CandidateStartsAloneInv, EveryGameIsNamedInv, OnlyOnePlaysInv, SavesAreValidInv,
     ProofsSettleInv, CommitsAreHonouredInv, OwnersActInv, SingleFlightInv, RestoreIsNamedInv
  DEF CommitInv, RunInv
<1> QED BY <1>1, AlwaysComposed, PTL

(* Nor do the agents' steps, or a driver they keep out, touch an answer,   *)
(* repeat a commit or let a request overtake the queue.                    *)
THEOREM HistoryAmongAgents == AgentsSpec => ReceiptsFinal /\ NotRepeated /\ FifoOrder
<1>1. ASSUME CommitInv, [AgentsNext]_allvars
      PROVE  [Next]_vars \/ UNCHANGED <<canon, receipts, committed>>
  <2>1. ASSUME NEW d \in Driver, KeptOut(d) PROVE UNCHANGED <<canon, receipts, committed>>
    BY <2>1 DEF KeptOut, Disk, World
  <2> QED BY <1>1, <2>1, ComposedSteps DEF AgentsAlone, Disk, World
<1>2. ASSUME CommitInv, [AgentsNext]_allvars PROVE TerminalKept
  BY <1>1, <1>2, NextKeeps DEF CommitInv, RunInv, OwnInv, TerminalKept
<1>3. ASSUME CommitInv, [AgentsNext]_allvars, Claims
      PROVE  /\ \A c \in committed : c.src => canon'.req # c.req
             /\ \A q \in Queued(receipts) : receipts[canon'.req].gen <= receipts[q].gen
  <2>1. [Next]_vars BY <1>1, <1>3 DEF Claims
  <2>2. Ahead(canon'.req, receipts) BY <1>3, <2>1, ClaimantAhead DEF CommitInv, RunInv
  <2> QED BY <1>3, <2>1, <2>2, CommittedClaimsNot DEF Ahead, IsHead
<1>4. CommitInv /\ [AgentsNext]_allvars
        => [\A r \in Req : Terminal(r) => receipts'[r] = receipts[r]]_vars
  BY <1>2 DEF TerminalKept
<1>5. CommitInv /\ [AgentsNext]_allvars
        => [\A c \in committed : c.src => ~(Claims /\ canon'.req = c.req)]_vars
  BY <1>3
<1>6. CommitInv /\ [AgentsNext]_allvars
        => [Claims => \A q \in Queued(receipts) : receipts[canon'.req].gen <= receipts[q].gen]_vars
  BY <1>3
<1> QED
  BY <1>4, <1>5, <1>6, AlwaysComposed, PTL DEF AgentsSpec, ReceiptsFinal, NotRepeated, FifoOrder

-----------------------------------------------------------------------------
(* Whose generation a runtime has                                          *)

(* The requests that may yet take generation g for their candidate.        *)
Claimants(g, rs) == {r \in Req : rs[r].st \in DatedStatuses /\ rs[r].gen = g}

(* The generation that a restore takes for its game, the document's next   *)
(* ("restore it as a fresh generation"), is not that of a request which    *)
(* may yet run.  A receipt that was written just before a crash may hold   *)
(* it, and then what follows need not hold.                                *)
RestoresFresh ==
  \A d \in Driver : At(d, "restore") /\ FreshRestorable => Claimants(canon.nextGen, receipts) = {}

(* The game on air is r's, and only r's receipt does not say so yet.       *)
Unanswered(r, c, rs) == /\ c.req = NoReq /\ c.phase = "ready"
                        /\ rs[r].st = "accepted"
                        /\ c.last.req = r /\ c.last.st = "succeeded"

(* No generation is claimed twice, and none that has been taken is claimed *)
(* again: a request whose game is on air is not to run a second time.      *)
Apart(rs)   == \A r, s \in Req : r \in Claimants(rs[s].gen, rs) /\ s \in Claimants(rs[r].gen, rs)
                                   => r = s
Taken(c, rs) == /\ Apart(rs)
                /\ c.previous # NoRt => Claimants(c.previous.gen, rs) = {}
                /\ c.active # NoRt =>
                     \A r \in Claimants(c.active.gen, rs) : Unanswered(r, c, rs)

(* What the holder of the lock knows of its candidate's generation.        *)
CandidatePcs == {"materialize", "materialized", "probe", "commit"}
Minding(p, c, rs) ==
  /\ p.pc \in {"restart", "publish"} => Claimants(c.candidate.gen, rs) = {}
  /\ p.pc \in CandidatePcs => Claimants(c.candidate.gen, rs) \subseteq {p.req}

AgeInv == /\ Taken(canon, receipts)
          /\ \A d \in Driver : lock = d => Minding(proc[d], canon, receipts)

(* What an agent may rely on while the document is in one of these phases. *)
PlayedPhases == {"ready", "validating", "preparing", "draining"}

(* What a driver's step does to the runtimes, as far as the agents are     *)
(* concerned: generations grow; a runtime that is dropped was stopped, or  *)
(* was a candidate, or is nobody's to take again; so is a new candidate;   *)
(* and the game on air stays, or was given an agent.                       *)
Course(d) ==
  /\ canon'.nextGen >= canon.nextGen
  /\ \A g \in Nat : g < canon.nextGen => Claimants(g, receipts') \subseteq Claimants(g, receipts)
  /\ \A rt \in Tracked(canon) \ Tracked(canon') :
       rt = canon.candidate \/ rt \in Stopped(d) \/ Claimants(rt.gen, receipts) = {}
  /\ \/ canon'.candidate \in {canon.candidate, NoRt}
     \/ canon'.candidate.gen >= canon.nextGen
     \/ Claimants(canon'.candidate.gen, receipts) # {}
          /\ canon'.candidate.gen \notin Generations(canon)
  /\ canon'.phase \in PlayedPhases /\ canon'.active # NoRt =>
       \/ /\ canon.phase \in PlayedPhases /\ canon'.active = canon.active
          /\ canon.active \notin Stopped(d)
       \/ canon'.active \in Started(d) /\ faults' = faults
       \/ proc[d].pc = "commit" /\ canon'.active = canon.candidate
  /\ proc'[d].pc = "commit" => canon'.candidate \in Started(d) /\ faults' = faults

Aged(d) == /\ Taken(canon', receipts')
           /\ lock' = d => Minding(proc'[d], canon', receipts')

LEMMA AgedAges ==
  ASSUME NEW d \in Driver, Keeps(d), Aged(d)
  PROVE  AgeInv'
BY DriverAssumption DEF Keeps, Aged, AgeInv

LEMMA BystandsAges ==
  ASSUME AgeInv, NEW d \in Driver, Bystands(d)
  PROVE  AgeInv'
BY DriverAssumption DEF Bystands, Disk, Others, AgeInv

-----------------------------------------------------------------------------
(* Steps that write a receipt                                              *)

LEMMA StatusShrinks ==
  ASSUME Data, Apart(receipts), NEW r, NEW st, SetStatus(r, st),
         st \in TerminalStatuses \/ (r \in Req => receipts[r].st \in DatedStatuses)
  PROVE  /\ Apart(receipts')
         /\ \A g : Claimants(g, receipts') \subseteq Claimants(g, receipts)
         /\ \A q \in Req : receipts'[q].st = IF q = r THEN st ELSE receipts[q].st
<1>1. \A q \in Req : /\ receipts'[q].gen = receipts[q].gen
                     /\ receipts'[q].st = IF q = r THEN st ELSE receipts[q].st
  BY DEF Data, Receipts, SetStatus
<1>2. \A g : Claimants(g, receipts') \subseteq Claimants(g, receipts)
  BY <1>1 DEF Claimants, DatedStatuses, TerminalStatuses
<1>3. Apart(receipts')
  BY <1>1, <1>2 DEF Apart
<1> QED BY <1>1, <1>2, <1>3

LEMMA FreshShrinks ==
  ASSUME Data, Apart(receipts), NEW r \in Req, NEW g \in Nat,
         IsFreshGeneration(canon, receipts, g),
         NEW rc, rc.gen = g, receipts' = [receipts EXCEPT ![r] = rc]
  PROVE  /\ Apart(receipts')
         /\ \A h \in Nat : h < canon.nextGen => Claimants(h, receipts') \subseteq Claimants(h, receipts)
         /\ \A q \in Req : q # r => receipts'[q] = receipts[q]
<1>1. \A q \in Req : receipts'[q] = IF q = r THEN rc ELSE receipts[q]
  BY DEF Data
<1>2. g >= canon.nextGen /\ \A q \in Req : g > receipts[q].gen /\ receipts[q].gen \in Nat
  BY DEF IsFreshGeneration, Data, Receipts
<1>3. \A q \in Req : g # receipts[q].gen BY <1>2
<1>4. \A h : h # g => Claimants(h, receipts') \subseteq Claimants(h, receipts)
  BY <1>1 DEF Claimants
<1>5. \A h \in Nat : h < canon.nextGen => h # g BY <1>2, CanonFields
<1>6. Apart(receipts') BY <1>1, <1>3 DEF Apart, Claimants
<1> QED BY <1>1, <1>4, <1>5, <1>6

(* Such a step names no candidate, and leaves its game to its agent.       *)
MindfulPcs == CandidatePcs \cup {"restart", "publish"}
Spares(d)  == canon.phase \in PlayedPhases /\ canon.active # NoRt => canon.active \notin Stopped(d)

LEMMA WritesAged ==
  ASSUME CommitInv, AgeInv, NEW d \in Driver, UNCHANGED canon, Spares(d),
         proc'[d].pc \notin MindfulPcs,
         Apart(receipts'),
         \A g \in Nat : g < canon.nextGen => Claimants(g, receipts') \subseteq Claimants(g, receipts),
         \A r \in Req : Unanswered(r, canon, receipts)
                          => receipts'[r].st \notin DatedStatuses \ {"accepted"}
  PROVE  Aged(d) /\ Course(d)
<1> USE DEF CommitInv, RunInv, OwnInv, TypeInv
<1>1. \A rt \in Tracked(canon) : Claimants(rt.gen, receipts') \subseteq Claimants(rt.gen, receipts)
  BY TrackedFields DEF Running, Sound
<1>2. ASSUME canon.active # NoRt, NEW r \in Claimants(canon.active.gen, receipts')
      PROVE  Unanswered(r, canon, receipts')
  <2>1. canon.active \in Tracked(canon) BY <1>2 DEF Tracked, Slots
  <2>2. r \in Req /\ receipts'[r].st \in DatedStatuses BY <1>2 DEF Claimants
  <2>3. Unanswered(r, canon, receipts) BY <1>1, <1>2, <2>1 DEF AgeInv, Taken
  <2> QED BY <2>2, <2>3 DEF Unanswered
<1>3. canon.previous # NoRt => Claimants(canon.previous.gen, receipts') = {}
  BY <1>1 DEF Tracked, Slots, AgeInv, Taken
<1>4. Aged(d) BY <1>2, <1>3 DEF Aged, Taken, Minding, MindfulPcs
<1>5. Course(d)
  BY CanonFields DEF Course, Spares, MindfulPcs, CandidatePcs
<1> QED BY <1>4, <1>5

LEMMA StillAged ==
  ASSUME CommitInv, AgeInv, NEW d \in Driver, UNCHANGED <<canon, receipts>>, Spares(d),
         proc'[d].pc \notin MindfulPcs
  PROVE  Aged(d) /\ Course(d)
BY WritesAged DEF AgeInv, Taken, Unanswered

LEMMA StatusAged ==
  ASSUME CommitInv, AgeInv, NEW d \in Driver, UNCHANGED canon, Spares(d),
         proc'[d].pc \notin MindfulPcs,
         NEW r, NEW st, SetStatus(r, st),
         \/ st \in TerminalStatuses
         \/ /\ r \in Req => receipts[r].st \in DatedStatuses
            /\ st = "accepted" \/ ~ResultRecorded(r)
  PROVE  Aged(d) /\ Course(d)
<1>1. /\ Apart(receipts')
      /\ \A g : Claimants(g, receipts') \subseteq Claimants(g, receipts)
      /\ \A q \in Req : receipts'[q].st = IF q = r THEN st ELSE receipts[q].st
  BY StatusShrinks DEF CommitInv, RunInv, OwnInv, TypeInv, AgeInv, Taken
<1>2. ASSUME NEW q \in Req, Unanswered(q, canon, receipts)
      PROVE  receipts'[q].st \notin DatedStatuses \ {"accepted"}
  <2>1. ResultRecorded(q) BY <1>2 DEF Unanswered, ResultRecorded, TerminalStatuses
  <2> QED BY <1>1, <1>2, <2>1 DEF Unanswered, DatedStatuses, TerminalStatuses
<1> QED BY <1>1, <1>2, WritesAged

LEMMA FreshAged ==
  ASSUME CommitInv, AgeInv, NEW d \in Driver, UNCHANGED canon, Spares(d),
         proc'[d].pc \notin MindfulPcs,
         NEW r \in Req, receipts[r].st = "none", NEW g \in Nat,
         IsFreshGeneration(canon, receipts, g),
         NEW rc, rc.gen = g, receipts' = [receipts EXCEPT ![r] = rc]
  PROVE  Aged(d) /\ Course(d)
<1>1. /\ Apart(receipts')
      /\ \A h \in Nat : h < canon.nextGen => Claimants(h, receipts') \subseteq Claimants(h, receipts)
      /\ \A q \in Req : q # r => receipts'[q] = receipts[q]
  BY FreshShrinks DEF CommitInv, RunInv, OwnInv, TypeInv, AgeInv, Taken
<1> QED BY <1>1, WritesAged DEF Unanswered, DatedStatuses

(* Only a stop, and a recovery, stop the agent of the game on air.         *)
LEMMA ActiveSpared ==
  ASSUME CommitInv, NEW d \in Driver, canon.active # NoRt,
         proc[d].pc \notin {"stopAgent", "recover", "resolve"}
  PROVE  canon.active \notin Stopped(d)
<1> USE DEF CommitInv, RunInv, OwnInv, TypeInv
<1>1. /\ CanonShape(canon) /\ (lock = d => Holding(proc[d], canon)) /\ Sound(canon)
      /\ proc[d].pc \in LockedPcs => lock = d
  BY DEF Ownership, Running, Control
<1>2. NoSpare(canon) BY <1>1 DEF CanonShape
<1>3. \A e \in canon.retiring : e.rt # canon.active
  BY <1>1 DEF Sound, GenerationsDistinct
<1> SUFFICES ASSUME canon.active \in Stopped(d) PROVE FALSE
  OBVIOUS
<1>4. CASE proc[d].pc \in {"stopOld", "retireDead"}
  BY <1>1, <1>4 DEF LockedPcs, Holding, CanonShape
<1>5. CASE Finalizing(d) BY <1>3, <1>5 DEF Stopped, Collectable, Finalizing, At
<1> QED BY <1>2, <1>4, <1>5 DEF Stopped, NoSpare

-----------------------------------------------------------------------------
(* Steps that write the document                                           *)

(* A request may yet take the generation of the game on air: then it is    *)
(* on air in that request's name, and at rest.                             *)
Lingers == canon.active # NoRt /\ Claimants(canon.active.gen, receipts) # {}

LEMMA LingersResting ==
  ASSUME AgeInv, Lingers
  PROVE  /\ canon.phase = "ready" /\ canon.req = NoReq
         /\ \A r \in Claimants(canon.active.gen, receipts) : Unanswered(r, canon, receipts)
BY DEF AgeInv, Taken, Lingers, Unanswered

(* Games leave their slots, or the one on air becomes the previous one;    *)
(* none comes.                                                             *)
Shifts(d) ==
  /\ receipts' = receipts /\ canon'.nextGen >= canon.nextGen
  /\ canon'.active \in {canon.active, NoRt} /\ canon'.candidate \in {canon.candidate, NoRt}
  /\ \/ canon'.previous \in {canon.previous, NoRt}
     \/ canon'.previous = canon.active /\ ~Lingers
  /\ canon'.active # NoRt /\ canon'.phase \in PlayedPhases =>
       canon.phase \in PlayedPhases /\ canon.active \notin Stopped(d)
  /\ Lingers => \/ canon'.active = NoRt
                \/ canon'.req = canon.req /\ canon'.phase = canon.phase /\ canon'.last = canon.last
  /\ Lingers => canon.active \in Tracked(canon') \cup Stopped(d)
  /\ \A e \in canon.retiring \ canon'.retiring : e.rt \in Stopped(d)

LEMMA ShiftsAged ==
  ASSUME CommitInv, AgeInv, NEW d \in Driver, Shifts(d), proc'[d].pc # "commit",
         lock' = d => Minding(proc'[d], canon', receipts)
  PROVE  Aged(d) /\ Course(d)
<1> USE DEF CommitInv, RunInv, OwnInv, TypeInv
<1>1. ASSUME canon'.active # NoRt, NEW r \in Claimants(canon'.active.gen, receipts')
      PROVE  Unanswered(r, canon', receipts')
  <2>1. canon'.active = canon.active /\ receipts' = receipts BY <1>1 DEF Shifts
  <2>2. Lingers BY <1>1, <2>1 DEF Lingers
  <2>3. canon'.req = canon.req /\ canon'.phase = canon.phase /\ canon'.last = canon.last
    BY <1>1, <2>2 DEF Shifts
  <2> QED BY <1>1, <2>1, <2>2, <2>3, LingersResting DEF Unanswered
<1>2. canon'.previous # NoRt => Claimants(canon'.previous.gen, receipts') = {}
  BY DEF Shifts, Lingers, AgeInv, Taken
<1>3. Aged(d) BY <1>1, <1>2 DEF Aged, Taken, Shifts, AgeInv
<1>4. ASSUME NEW rt \in Tracked(canon) \ Tracked(canon')
      PROVE  rt = canon.candidate \/ rt \in Stopped(d) \/ Claimants(rt.gen, receipts) = {}
  <2>1. CASE rt = canon.active /\ canon.active # NoRt BY <1>4, <2>1 DEF Shifts, Lingers
  <2>2. CASE rt = canon.previous /\ canon.previous # NoRt BY <2>2 DEF AgeInv, Taken
  <2>3. CASE \E e \in canon.retiring : e.rt = rt
    <3>1. PICK e \in canon.retiring : e.rt = rt BY <2>3
    <3>2. e \notin canon'.retiring BY <1>4, <3>1 DEF Tracked
    <3> QED BY <3>1, <3>2 DEF Shifts
  <2> QED BY <1>4, <2>1, <2>2, <2>3 DEF Tracked, Slots
<1>5. Course(d) BY <1>4 DEF Course, Shifts
<1> QED BY <1>3, <1>5

(* The usual case: the document goes on to another phase.                  *)
LEMMA OnwardAged ==
  ASSUME CommitInv, AgeInv, NEW d \in Driver, ~Lingers,
         receipts' = receipts, canon'.nextGen = canon.nextGen,
         canon'.active \in {canon.active, NoRt}, canon'.candidate \in {canon.candidate, NoRt},
         canon'.previous \in {canon.previous, canon.active, NoRt},
         canon.retiring \subseteq canon'.retiring,
         canon'.active # NoRt /\ canon'.phase \in PlayedPhases =>
           canon.phase \in PlayedPhases /\ canon.active \notin Stopped(d),
         proc'[d].pc \notin MindfulPcs
  PROVE  Aged(d) /\ Course(d)
<1>1. canon'.nextGen >= canon.nextGen
  BY CanonFields DEF CommitInv, RunInv, OwnInv, TypeInv
<1>2. Shifts(d) BY <1>1 DEF Shifts
<1>3. proc'[d].pc # "commit" /\ Minding(proc'[d], canon', receipts)
  BY DEF MindfulPcs, CandidatePcs, Minding
<1> QED BY <1>2, <1>3, ShiftsAged

LEMMA OwnedLingersNot ==
  ASSUME AgeInv, canon.req # NoReq \/ canon.phase # "ready" \/ canon.active = NoRt
  PROVE  ~Lingers
BY LingersResting DEF Lingers

-----------------------------------------------------------------------------
(* The steps of a switch                                                   *)

LEMMA RollBackAged ==
  ASSUME CommitInv, AgeInv, NEW d \in Driver, ~Lingers, RollBack(d), UNCHANGED receipts
  PROVE  Aged(d) /\ Course(d)
<1> USE DEF CommitInv, RunInv, OwnInv, TypeInv
<1>1. /\ canon'.phase = "rolling_back" /\ canon'.nextGen = canon.nextGen
      /\ canon'.active = canon.active /\ canon'.candidate = canon.candidate
      /\ canon'.previous = canon.previous /\ canon'.retiring = canon.retiring
      /\ proc'[d].pc = "undo"
  BY TransitionFields, GotoFields DEF RollBack
<1> QED BY <1>1, OnwardAged DEF PlayedPhases, MindfulPcs, CandidatePcs

(* The candidate has the generation of the request it is started for, and  *)
(* that is no other's.                                                     *)
LEMMA StartingAged ==
  ASSUME CommitInv, AgeInv, NEW d \in Driver, Starting(d), ~Lingers,
         proc[d].req \in Req, receipts[proc[d].req].st = "accepted"
  PROVE  Aged(d) /\ Course(d)
<1> USE DEF CommitInv, RunInv, OwnInv, TypeInv, At
<1> DEFINE r == proc[d].req
           g == receipts[r].gen
<1>1. lock = d /\ Holding(proc[d], canon) BY DEF Starting, Ownership
<1>2. CASE Leave(d) /\ UNCHANGED canon
  <2>1. proc'[d].pc = "off" BY <1>2, LeaveFields DEF Off
  <2>2. Spares(d) BY <1>1 DEF Starting, Holding, Spares, PlayedPhases
  <2> QED BY <1>2, <2>1, <2>2, StillAged DEF Starting, MindfulPcs, CandidatePcs
<1>3. CASE /\ canon' = [canon EXCEPT !.phase = "starting", !.candidate = Candidate(d)]
           /\ Goto(d, "materialize") /\ GenerationFree(Candidate(d).gen)
  <2>1. /\ canon'.phase = "starting" /\ canon'.candidate = Candidate(d)
        /\ canon'.active = canon.active /\ canon'.previous = canon.previous
        /\ canon'.retiring = canon.retiring /\ canon'.nextGen = canon.nextGen
    BY <1>3 DEF Data, Canonical
  <2>2. Candidate(d).gen = g BY DEF Candidate
  <2>3. proc'[d].pc = "materialize" /\ proc'[d].req = r BY <1>3, GotoFields
  <2>4. Claimants(g, receipts) = {r}
    <3>1. r \in Claimants(g, receipts) BY DEF Claimants, DatedStatuses
    <3>2. \A q \in Claimants(g, receipts) : q = r
      BY <3>1 DEF AgeInv, Taken, Apart, Claimants
    <3> QED BY <3>1, <3>2
  <2>5. receipts' = receipts BY DEF Starting
  <2>6. canon.active = NoRt BY <1>1 DEF Starting, Holding
  <2>7. Aged(d)
    BY <2>1, <2>2, <2>3, <2>4, <2>5, <2>6
    DEF Aged, AgeInv, Taken, Minding, CandidatePcs
  <2>8. \A rt \in Tracked(canon) \ Tracked(canon') : rt = canon.candidate
    BY <2>1 DEF Tracked, Slots
  <2>9. g \notin Generations(canon) BY <1>3, <2>2 DEF GenerationFree
  <2>10. canon'.nextGen >= canon.nextGen BY <2>1, CanonFields
  <2>11. Course(d)
    BY <2>1, <2>2, <2>3, <2>4, <2>5, <2>8, <2>9, <2>10 DEF Course, PlayedPhases
  <2> QED BY <2>7, <2>11
<1> QED BY <1>2, <1>3 DEF Starting

(* What the commit puts on air is the game of the request it answers.      *)
LEMMA CommitAged ==
  ASSUME CommitInv, AgeInv, NEW d \in Driver, Commit(d),
         receipts[proc[d].req].st = "accepted"
  PROVE  Aged(d) /\ Course(d)
<1> USE DEF CommitInv, RunInv, OwnInv, TypeInv, At
<1> DEFINE r == proc[d].req
           e == Retiree(canon.previous, r)
<1>1. PICK act, ret, lst :
        /\ Settle("ready", act, NoRt, ret, lst)
        /\ act = canon.candidate /\ lst.req = r /\ lst.st = "succeeded"
        /\ canon.retiring \subseteq ret
        /\ ret = canon.retiring \cup (IF canon.previous = NoRt THEN {} ELSE {e})
    BY DEF Commit, CommitResult
<1>2. Settle("ready", act, NoRt, ret, lst) BY <1>1
<1>3. /\ canon'.phase = "ready" /\ canon'.req = NoReq /\ canon'.active = act
      /\ canon'.candidate = NoRt /\ canon'.previous = NoRt /\ canon'.last = lst
      /\ canon'.retiring = ret /\ canon'.nextGen = canon.nextGen
  BY <1>2, SettleFields
<1>4. receipts' = receipts BY DEF Commit
<1>5. lock = d /\ Holding(proc[d], canon) /\ Minding(proc[d], canon, receipts)
  BY DEF Commit, Ownership, AgeInv
<1>6. Claimants(canon.candidate.gen, receipts) \subseteq {r}
  BY <1>5 DEF Commit, Minding, CandidatePcs
<1>7. proc'[d].pc = "finish" BY FinishAsFields DEF Commit
<1>8. Aged(d)
  <2>1. \A q \in Claimants(canon'.active.gen, receipts') : Unanswered(q, canon', receipts')
    BY <1>1, <1>3, <1>4, <1>6 DEF Unanswered
  <2> QED
    BY <1>3, <1>4, <1>7, <2>1 DEF Aged, AgeInv, Taken, Minding, CandidatePcs
<1>9. ASSUME NEW rt \in Tracked(canon) \ Tracked(canon') PROVE rt = canon.active
  <2>1. rt # NoRt BY <1>9, TrackedFields DEF Running
  <2>2. rt # canon.candidate BY <1>1, <1>3, <1>9, <2>1 DEF Tracked, Slots
  <2>3. ~\E f \in canon.retiring : f.rt = rt BY <1>1, <1>3, <1>9 DEF Tracked
  <2>4. canon.previous # NoRt => e \in canon'.retiring BY <1>1, <1>3
  <2>5. e.rt = canon.previous BY DEF Retiree
  <2>6. rt # canon.previous BY <1>9, <2>1, <2>4, <2>5 DEF Tracked
  <2> QED BY <1>9, <2>2, <2>3, <2>6 DEF Tracked, Slots
<1>10. canon.active = NoRt \/ canon.candidate = NoRt
  BY DEF Ownership, CanonShape, NoSpare
<1>11. canon.candidate # NoRt
  BY <1>5 DEF Commit, Running, Occupied, Holding
<1>12. \A rt \in Tracked(canon) : rt # NoRt BY TrackedFields DEF Running
<1>13. canon'.nextGen >= canon.nextGen BY <1>3, CanonFields
<1>14. Course(d)
  BY <1>1, <1>3, <1>4, <1>7, <1>9, <1>10, <1>11, <1>12, <1>13 DEF Course, Commit
<1> QED BY <1>8, <1>14

LEMMA SwitchAged ==
  ASSUME CommitInv, AgeInv, NEW d \in Driver, SwitchStep(d)
  PROVE  Aged(d) /\ Course(d)
<1> USE DEF CommitInv, RunInv, OwnInv, TypeInv, At
<1> DEFINE r == proc[d].req
<1>1. /\ lock = d /\ Holding(proc[d], canon) /\ Heeding(proc[d], receipts)
      /\ Minding(proc[d], canon, receipts) /\ CanonShape(canon) /\ Backed(canon, receipts)
  <2>1. lock = d
    BY DEF SwitchStep, RunSwitch, Quiesce, Drain, DrainUnsupported, StopOld, Starting, Materialize,
           Probing, Probe, ProbeFindsNothing, Commit, SwitchFails, StepFails
  <2> QED BY <2>1 DEF Ownership, Receipted, AgeInv
<1>2. proc[d].pc \in SwitchPcs \cup {"run"}
  BY DEF SwitchStep, RunSwitch, Quiesce, Drain, DrainUnsupported, StopOld, Starting, Materialize,
         Probing, Probe, ProbeFindsNothing, Commit, SwitchFails, StepFails, SwitchPcs
<1>3. canon.phase \in InProgressPhases /\ canon.req = r /\ r \in Req
  <2>1. canon.phase \in InProgressPhases /\ canon.req = r
    BY <1>1, <1>2
    DEF Holding, SwitchPcs, OwnerPcs, ClaimedPcs, InProgressPhases, Phases
  <2> QED BY <1>1, <2>1, CanonFields DEF CanonShape, OwnerMatchesPhase
<1>4. ~Lingers /\ receipts' = receipts
  BY <1>3, ReqAssumption, OwnedLingersNot, SwitchAside
<1>5. canon.active # NoRt => canon.active \notin Stopped(d)
  BY <1>2, ActiveSpared DEF SwitchPcs
<1>6. Spares(d) BY <1>5 DEF Spares
<1>7. receipts[r].st = "accepted"
  BY <1>1, <1>2, <1>3 DEF Holding, Heeding, Backed, SwitchPcs, ActingPhases
<1>8. CASE RunSwitch(d)
  <2>1. proc'[d] = [proc[d] EXCEPT !.pc = "prepare", !.old = canon.active]
    BY <1>8, BecomeFields DEF RunSwitch, Become
  <2>2. proc'[d].pc = "prepare" BY <2>1, ProcFields DEF Procs
  <2>3. /\ canon'.phase = "preparing" /\ canon'.active = canon.active
        /\ canon'.candidate = canon.candidate /\ canon'.previous = canon.previous
        /\ canon'.retiring = canon.retiring /\ canon'.nextGen = canon.nextGen
    BY <1>8 DEF RunSwitch, Data, Canonical
  <2>4. canon.phase = "validating"
    BY <1>1, <1>8 DEF RunSwitch, Holding, ClaimedPcs
  <2> QED
    BY <1>4, <1>5, <2>2, <2>3, <2>4, OnwardAged DEF PlayedPhases, MindfulPcs, CandidatePcs
<1>9. CASE Quiesce(d)
  <2>1. /\ canon'.active = NoRt /\ canon'.candidate = canon.candidate
        /\ canon'.previous = canon.active
        /\ canon'.retiring = canon.retiring /\ canon'.nextGen = canon.nextGen
    BY <1>1, <1>9 DEF Quiesce, Holding, Data, Canonical
  <2>2. proc'[d].pc \in {"quiesced", "stopOld"} BY <1>9, GotoFields DEF Quiesce
  <2> QED BY <1>4, <2>1, <2>2, OnwardAged DEF MindfulPcs, CandidatePcs
<1>10. CASE Drain(d) \/ DrainUnsupported(d)
  <2>1. Transition("draining") BY <1>10 DEF Drain, DrainUnsupported
  <2>2. proc'[d].pc \in {"await", "retain"}
    BY <1>10, GotoFields, WaitAtFields, ProcFields DEF Drain, DrainUnsupported
  <2>3. canon.phase = "preparing" BY <1>1, <1>10 DEF Drain, DrainUnsupported, Holding
  <2> QED
    BY <1>4, <1>5, <2>1, <2>2, <2>3, TransitionFields, OnwardAged
    DEF PlayedPhases, MindfulPcs, CandidatePcs
<1>11. ASSUME RollBack(d) PROVE Aged(d) /\ Course(d)
  BY <1>4, <1>11, RollBackAged
<1>12. CASE StopOld(d)
  <2>1. CASE Goto(d, "quiesced") /\ UNCHANGED canon
    BY <1>4, <1>6, <2>1, GotoFields, StillAged DEF MindfulPcs, CandidatePcs
  <2> QED BY <1>11, <1>12, <2>1 DEF StopOld
<1>13. CASE Starting(d) BY <1>3, <1>4, <1>7, <1>13, StartingAged
<1>14. CASE Materialize(d) /\ UNCHANGED canon /\ Goto(d, "materialized")
  <2>1. Shifts(d) BY <1>4, <1>5, <1>14, CanonFields DEF Shifts, Lingers
  <2>2. proc'[d].pc = "materialized" /\ proc'[d].req = r BY <1>14, GotoFields
  <2>3. Minding(proc'[d], canon', receipts)
    BY <1>1, <1>14, <2>2 DEF Materialize, Minding, CandidatePcs
  <2> QED BY <2>1, <2>2, <2>3, ShiftsAged
<1>15. CASE Materialize(d) BY <1>11, <1>14, <1>15 DEF Materialize
<1>16. CASE Probing(d)
  <2>1. /\ canon'.phase = "probing" /\ canon'.nextGen = canon.nextGen
        /\ canon'.active = canon.active /\ canon'.candidate = canon.candidate
        /\ canon'.previous = canon.previous /\ canon'.retiring = canon.retiring
    BY <1>16, TransitionFields DEF Probing
  <2>2. Shifts(d) BY <1>4, <2>1, CanonFields DEF Shifts, PlayedPhases
  <2>3. proc'[d].pc = "probe" /\ proc'[d].req = r BY <1>16, GotoFields DEF Probing
  <2>4. Minding(proc'[d], canon', receipts)
    BY <1>1, <1>16, <2>1, <2>3 DEF Probing, Minding, CandidatePcs
  <2> QED BY <2>2, <2>3, <2>4, ShiftsAged
<1>17. CASE Probe(d)
  <2>1. UNCHANGED <<canon, receipts, faults>> /\ proc[d].pc = "probe" /\ canon.candidate \in live
    BY <1>17 DEF Probe, Disk
  <2>2. proc'[d].pc = "commit" /\ proc'[d].req = r BY <1>17, GotoFields DEF Probe
  <2>3. canon.candidate \in Started(d) BY <2>1 DEF Started, StartedNew
  <2>4. Taken(canon', receipts') BY <2>1 DEF AgeInv
  <2>5. Minding(proc'[d], canon', receipts')
    BY <1>1, <2>1, <2>2 DEF Minding, CandidatePcs
  <2>6. canon.phase \notin PlayedPhases BY <1>1, <2>1 DEF Holding, PlayedPhases
  <2>7. Course(d) BY <2>1, <2>3, <2>6, CanonFields DEF Course
  <2> QED BY <2>4, <2>5, <2>7 DEF Aged
<1>18. CASE ProbeFindsNothing(d) \/ SwitchFails(d)
  BY <1>11, <1>18 DEF ProbeFindsNothing, SwitchFails, StepFails
<1>19. CASE Commit(d) BY <1>7, <1>19, CommitAged
<1> QED
  BY <1>8, <1>9, <1>10, <1>12, <1>13, <1>15, <1>16, <1>17, <1>18, <1>19 DEF SwitchStep

-----------------------------------------------------------------------------
(* The steps of a boundary, and of a stop                                  *)

LEMMA BoundaryAged ==
  ASSUME CommitInv, AgeInv, NEW d \in Driver, BoundaryStep(d)
  PROVE  Aged(d) /\ Course(d)
<1> USE DEF CommitInv, RunInv, OwnInv, TypeInv, At
<1> DEFINE old == proc[d].old
<1>1. /\ CanonShape(canon) /\ (lock = d => Holding(proc[d], canon))
      /\ receipts' = receipts
  BY BoundaryAside DEF Ownership
<1>2. proc[d].pc \in WaitingPcs \cup {"retain", "retireDead"}
  BY DEF BoundaryStep, BoundaryReached, BoundaryFailed, WaitLost, Cancelled, CancelRefused,
         Retain, RetireDead, CollectDead, ExpireDrain, ExpireRefused, ExpireOvertaken, WaitingPcs
<1>3. canon.active # NoRt => canon.active \notin Stopped(d)
  BY <1>2, ActiveSpared DEF WaitingPcs
<1>4. Spares(d) BY <1>3 DEF Spares
<1>5. ASSUME UNCHANGED canon, proc'[d].pc \in {"off", "cancel", "retain", "dispatch"}
      PROVE  Aged(d) /\ Course(d)
  BY <1>1, <1>4, <1>5, StillAged DEF MindfulPcs, CandidatePcs
<1>6. canon.phase = "draining" => canon.req # NoReq
  BY <1>1 DEF CanonShape, OwnerMatchesPhase, InProgressPhases, Phases
<1>7. ASSUME canon.phase = "draining", canon'.nextGen = canon.nextGen,
             canon'.active \in {canon.active, NoRt}, canon'.candidate \in {canon.candidate, NoRt},
             canon'.previous \in {canon.previous, canon.active, NoRt},
             canon.retiring \subseteq canon'.retiring,
             proc'[d].pc \notin MindfulPcs
      PROVE  Aged(d) /\ Course(d)
  BY <1>1, <1>3, <1>6, <1>7, OwnedLingersNot, OnwardAged DEF PlayedPhases
<1>8. CASE BoundaryReached(d)
  <2> DEFINE pc == IF OpOf[proc[d].req] = "stop" THEN "stopAgent" ELSE "stopOld"
  <2>1. Acquire(d, [proc[d] EXCEPT !.pc = pc]) BY <1>8 DEF BoundaryReached
  <2> HIDE DEF pc
  <2>2. proc'[d] = [proc[d] EXCEPT !.pc = pc] BY <2>1, BecomeFields DEF Acquire
  <2>3. proc'[d].pc = pc BY <2>2, ProcFields DEF Procs
  <2>4. proc'[d].pc \notin MindfulPcs BY <2>3 DEF pc, MindfulPcs, CandidatePcs
  <2>5. canon.phase = "draining" /\ old = canon.active BY <1>8 DEF BoundaryReached, SameDrain
  <2>6. /\ canon'.active \in {old, NoRt} /\ canon'.previous \in {old, NoRt}
        /\ canon'.candidate = canon.candidate
        /\ canon'.nextGen = canon.nextGen /\ canon'.retiring = canon.retiring
    BY <1>8 DEF BoundaryReached, Data, Canonical
  <2> QED BY <1>7, <2>4, <2>5, <2>6
<1>9. CASE BoundaryFailed(d)
  <2>1. proc' = [proc EXCEPT ![d] = [proc[d] EXCEPT !.pc = "cancel"]]
    BY <1>9 DEF BoundaryFailed
  <2> QED BY <1>5, <1>9, <2>1, MoveFields DEF BoundaryFailed, Disk
<1>10. CASE WaitLost(d) \/ ExpireRefused(d)
  <2>1. proc'[d] = Off BY <1>10, BecomeFields DEF WaitLost, ExpireRefused
  <2> QED BY <1>5, <1>10, <2>1 DEF WaitLost, ExpireRefused, Disk, Off
<1>11. CASE Cancelled(d)
  <2>1. proc' = [proc EXCEPT ![d] = [proc[d] EXCEPT !.pc = "retain"]]
    BY <1>11 DEF Cancelled, Acquire
  <2> QED BY <1>5, <1>11, <2>1, MoveFields DEF Cancelled, Disk
<1>12. CASE CancelRefused(d)
  <2>1. proc'[d] = Off BY <1>12, BecomeFields DEF CancelRefused
  <2>2. canon.phase = "draining" BY <1>12 DEF CancelRefused, SameDrain
  <2>3. /\ canon'.active = canon.active /\ canon'.previous = canon.previous
        /\ canon'.candidate = canon.candidate
        /\ canon'.nextGen = canon.nextGen /\ canon'.retiring = canon.retiring
    BY <1>12 DEF CancelRefused, Data, Canonical
  <2> QED BY <1>7, <2>1, <2>2, <2>3 DEF Off, MindfulPcs, CandidatePcs
<1>13. CASE Retain(d)
  <2>1. PICK lst : Settle("ready", old, NoRt, canon.retiring, lst) BY <1>13 DEF Retain
  <2>2. canon.phase = "draining" /\ old = canon.active BY <1>1, <1>13 DEF Retain, Holding
  <2>3. proc'[d].pc = "finishLeave" BY <1>13, FinishAsFields DEF Retain
  <2>4. /\ canon'.active = old /\ canon'.candidate = NoRt /\ canon'.previous = NoRt
        /\ canon'.retiring = canon.retiring /\ canon'.nextGen = canon.nextGen
    BY <2>1, SettleFields
  <2> QED BY <1>7, <2>2, <2>3, <2>4 DEF MindfulPcs, CandidatePcs
<1>14. CASE RetireDead(d)
  <2>1. PICK ret, lst : Settle("idle", NoRt, NoRt, ret, lst) /\ canon.retiring \subseteq ret
    BY <1>14 DEF RetireDead
  <2>2. Settle("idle", NoRt, NoRt, ret, lst) BY <2>1
  <2>3. canon.phase = "draining" BY <1>1, <1>14 DEF RetireDead, Holding
  <2>4. proc'[d].pc = "retireDead" BY <1>14, GotoFields DEF RetireDead
  <2>5. /\ canon'.active = NoRt /\ canon'.candidate = NoRt /\ canon'.previous = NoRt
        /\ canon'.retiring = ret /\ canon'.nextGen = canon.nextGen
    BY <2>2, SettleFields
  <2> QED BY <1>7, <2>1, <2>3, <2>4, <2>5 DEF MindfulPcs, CandidatePcs
<1>15. CASE CollectDead(d)
  <2> DEFINE corpse == Retiree(old, NoReq)
  <2>1. /\ canon'.active = canon.active /\ canon'.previous = canon.previous
        /\ canon'.candidate = canon.candidate /\ canon'.phase = canon.phase
        /\ canon'.nextGen = canon.nextGen
        /\ canon'.retiring \in {canon.retiring, canon.retiring \ {corpse}}
    BY <1>15 DEF CollectDead, Data, Canonical
  <2>2. canon.phase = "idle" /\ proc[d].pc = "retireDead"
    BY <1>1, <1>15 DEF CollectDead, Holding
  <2>3. ASSUME NEW e \in canon.retiring \ canon'.retiring PROVE e.rt \in Stopped(d)
    <3>1. e.rt = old BY <2>1, <2>3 DEF Retiree
    <3>2. e.rt \in Tracked(canon) BY DEF Tracked
    <3> QED BY <2>2, <3>1, <3>2 DEF Stopped
  <2>4. ~Lingers BY <2>2, OwnedLingersNot
  <2>5. Shifts(d) BY <1>1, <2>1, <2>2, <2>3, <2>4, CanonFields DEF Shifts, PlayedPhases
  <2>6. proc'[d].pc = "finishLeave" BY <1>15, FinishAsFields DEF CollectDead
  <2> QED BY <2>5, <2>6, ShiftsAged DEF Minding, CandidatePcs
<1>16. CASE ExpireDrain(d)
  <2>1. PICK lst : Settle("ready", old, NoRt, canon.retiring, lst) BY <1>16 DEF ExpireDrain
  <2>2. canon.phase = "draining" /\ old = canon.active BY <1>16 DEF ExpireDrain, SameDrain
  <2>3. proc' = [proc EXCEPT ![d] = [proc[d] EXCEPT !.pc = "finishRedo"]]
    BY <1>16 DEF ExpireDrain, Acquire
  <2>4. /\ canon'.active = old /\ canon'.candidate = NoRt /\ canon'.previous = NoRt
        /\ canon'.retiring = canon.retiring /\ canon'.nextGen = canon.nextGen
    BY <2>1, SettleFields
  <2>5. proc'[d].pc = "finishRedo" BY <2>3, MoveFields
  <2> QED BY <1>7, <2>2, <2>4, <2>5 DEF MindfulPcs, CandidatePcs
<1>17. CASE ExpireOvertaken(d)
  <2>1. proc'[d] = [proc[d] EXCEPT !.pc = "dispatch", !.drain = NoReq, !.old = NoRt]
    BY <1>17, BecomeFields DEF ExpireOvertaken, Acquire
  <2>2. proc'[d].pc = "dispatch" BY <2>1, ProcFields DEF Procs
  <2> QED BY <1>5, <1>17, <2>2 DEF ExpireOvertaken, Disk
<1> QED
  BY <1>8, <1>9, <1>10, <1>11, <1>12, <1>13, <1>14, <1>15, <1>16, <1>17 DEF BoundaryStep

LEMMA StopAged ==
  ASSUME CommitInv, AgeInv, NEW d \in Driver, StopStep(d)
  PROVE  Aged(d) /\ Course(d)
<1> USE DEF CommitInv, RunInv, OwnInv, TypeInv, At
<1>1. /\ CanonShape(canon) /\ (lock = d => Holding(proc[d], canon))
      /\ receipts' = receipts
  BY StopAside DEF Ownership
<1>2. ~Lingers
  BY <1>1, OwnedLingersNot
  DEF StopStep, RunStop, StopAgent, StopGame, Holding, ClaimedPcs
<1>3. ASSUME canon'.nextGen = canon.nextGen, canon'.active \in {canon.active, NoRt},
             canon'.candidate \in {canon.candidate, NoRt},
             canon'.previous \in {canon.previous, NoRt}, canon'.retiring = canon.retiring,
             canon'.active = NoRt \/ canon'.phase \notin PlayedPhases
               \/ (canon.phase \in PlayedPhases /\ canon.active \notin Stopped(d)),
             proc'[d].pc \in {"finish", "stopAgent", "stopGame", "await"}
      PROVE  Aged(d) /\ Course(d)
  BY <1>1, <1>2, <1>3, OnwardAged DEF MindfulPcs, CandidatePcs
<1>4. ASSUME FailKeepingActive(d) PROVE Aged(d) /\ Course(d)
  <2>1. PICK lst : Settle("failed", canon.active, NoRt, canon.retiring, lst)
    BY <1>4 DEF FailKeepingActive
  <2>2. proc'[d].pc = "finish" BY <1>4, FinishAsFields DEF FailKeepingActive
  <2>3. /\ canon'.active = canon.active /\ canon'.candidate = NoRt /\ canon'.previous = NoRt
        /\ canon'.retiring = canon.retiring /\ canon'.nextGen = canon.nextGen /\ canon'.phase = "failed"
    BY <2>1, SettleFields
  <2> QED BY <1>3, <2>2, <2>3 DEF PlayedPhases
<1>5. ASSUME NEW ph \in {"quiescing", "stopping"}, Transition(ph),
             NEW pc \in {"stopAgent", "stopGame"}, Goto(d, pc)
      PROVE  Aged(d) /\ Course(d)
  BY <1>3, <1>5, TransitionFields, GotoFields DEF PlayedPhases
<1>6. CASE RunStop(d) /\ canon' = [canon EXCEPT !.phase = "draining", !.expired = FALSE]
           /\ WaitAt(d, proc[d], "await")
  <2>1. /\ canon'.active = canon.active /\ canon'.previous = canon.previous
        /\ canon'.candidate = canon.candidate /\ canon'.nextGen = canon.nextGen
        /\ canon'.retiring = canon.retiring
    BY <1>6 DEF Data, Canonical
  <2>2. canon.phase = "validating" /\ proc[d].pc = "run"
    BY <1>1, <1>6 DEF RunStop, Holding, ClaimedPcs
  <2>3. canon.active # NoRt => canon.active \notin Stopped(d) BY <2>2, ActiveSpared
  <2>4. proc'[d].pc = "await" BY <1>6, WaitAtFields, ProcFields
  <2> QED BY <1>3, <2>1, <2>2, <2>3, <2>4 DEF PlayedPhases
<1>7. CASE RunStop(d) BY <1>4, <1>5, <1>6, <1>7 DEF RunStop
<1>8. CASE StopAgent(d) BY <1>4, <1>5, <1>8 DEF StopAgent
<1>9. CASE StopGame(d)
  <2>1. CASE FailKeepingActive(d) BY <1>4, <2>1
  <2>2. CASE /\ \E lst : Settle("idle", NoRt, NoRt, canon.retiring, lst)
             /\ FinishAs(d, "finish", "succeeded")
    <3>1. PICK lst : Settle("idle", NoRt, NoRt, canon.retiring, lst) BY <2>2
    <3>2. proc'[d].pc = "finish" BY <2>2, FinishAsFields
    <3> QED BY <1>3, <3>1, <3>2, SettleFields
  <2> QED BY <1>9, <2>1, <2>2 DEF StopGame
<1> QED BY <1>7, <1>8, <1>9 DEF StopStep

-----------------------------------------------------------------------------
(* The steps of a request                                                  *)

LEMMA EntryAged ==
  ASSUME CommitInv, AgeInv, NEW d \in Driver,
         (\E r \in Req : Request(d, r)) \/ Recover(d) \/ Maintain(d) \/ Resume(d)
  PROVE  Aged(d) /\ Course(d)
<1> USE DEF CommitInv, RunInv, OwnInv, TypeInv, MindfulPcs, CandidatePcs
<1>1. canon' = canon
  BY DEF Request, Recover, Maintain, MaintainDrain, ResumeHead, Resume, Disk
<1>2. proc[d].pc \in {"off", "resume"}
  BY DEF Request, Recover, Maintain, MaintainDrain, ResumeHead, Resume
<1>3. Spares(d) BY <1>2, ActiveSpared DEF Spares
<1>4. CASE \E r \in Req : Request(d, r)
  <2>1. PICK r \in Req : Request(d, r) BY <1>4
  <2>2. proc'[d] = [Off EXCEPT !.pc = "dispatch", !.req = r]
    BY <2>1, BecomeFields DEF Request, Acquire
  <2>3. proc'[d].pc = "dispatch" BY <2>2 DEF Off
  <2> QED BY <1>3, <2>1, <2>3, StillAged DEF Request, Disk
<1>5. CASE Recover(d)
  <2>1. proc'[d] = [Off EXCEPT !.pc = "recover", !.mode = "recover"]
    BY <1>5, BecomeFields DEF Recover, Acquire
  <2>2. proc'[d].pc = "recover" BY <2>1 DEF Off
  <2> QED BY <1>3, <1>5, <2>2, StillAged DEF Recover, Disk
<1>6. CASE MaintainDrain(d)
  <2>1. [Off EXCEPT !.mode = "maintain"] \in Procs BY OffTyped DEF Procs
  <2>2. proc'[d].pc = "expire" BY <1>6, <2>1, WaitAtFields DEF MaintainDrain
  <2> QED BY <1>3, <1>6, <2>2, StillAged DEF MaintainDrain, Disk
<1>7. CASE ResumeHead(d)
  <2>1. PICK h \in Req :
          \/ /\ Release(d, [Off EXCEPT !.pc = "resume", !.mode = "maintain", !.req = h])
             /\ UNCHANGED receipts
          \/ SetStatus(h, "failed") /\ UNCHANGED proc
    BY <1>7 DEF ResumeHead
  <2>2. CASE SetStatus(h, "failed") /\ UNCHANGED proc
    BY <1>1, <1>2, <1>3, <2>2, StatusAged DEF TerminalStatuses
  <2>3. CASE /\ Release(d, [Off EXCEPT !.pc = "resume", !.mode = "maintain", !.req = h])
             /\ UNCHANGED receipts
    <3>1. proc'[d] = [Off EXCEPT !.pc = "resume", !.mode = "maintain", !.req = h]
      BY <2>3, BecomeFields DEF Release
    <3>2. proc'[d].pc = "resume" BY <3>1 DEF Off
    <3> QED BY <1>1, <1>3, <2>3, <3>2, StillAged
  <2> QED BY <2>1, <2>2, <2>3
<1>8. CASE Resume(d)
  <2>1. proc' = [proc EXCEPT ![d] = [proc[d] EXCEPT !.pc = "dispatch"]]
    BY <1>8 DEF Resume, Acquire
  <2> QED BY <1>3, <1>8, <2>1, MoveFields, StillAged DEF Resume, Disk
<1> QED BY <1>4, <1>5, <1>6, <1>7, <1>8 DEF Maintain

(* The document's next generation is raised, and nothing else is written.  *)
LEMMA RaisedAged ==
  ASSUME CommitInv, AgeInv, NEW d \in Driver, Spares(d), receipts' = receipts,
         canon'.nextGen >= canon.nextGen,
         canon'.phase = canon.phase, canon'.req = canon.req, canon'.last = canon.last,
         canon'.active = canon.active, canon'.candidate = canon.candidate,
         canon'.previous = canon.previous, canon'.retiring = canon.retiring,
         proc'[d].pc \notin MindfulPcs
  PROVE  Aged(d) /\ Course(d)
<1>1. Lingers => canon.active \in Tracked(canon') BY DEF Lingers, Tracked, Slots
<1>2. Shifts(d) BY <1>1 DEF Shifts, Spares
<1>3. proc'[d].pc # "commit" /\ Minding(proc'[d], canon', receipts)
  BY DEF MindfulPcs, CandidatePcs, Minding
<1> QED BY <1>2, <1>3, ShiftsAged

LEMMA DispatchAged ==
  ASSUME CommitInv, AgeInv, NEW d \in Driver, DispatchStep(d)
  PROVE  Aged(d) /\ Course(d)
<1> USE DEF CommitInv, RunInv, OwnInv, TypeInv, At, MindfulPcs, CandidatePcs
<1> DEFINE r == proc[d].req
<1>1. proc[d].pc \in {"dispatch", "enqueue"}
  BY DEF DispatchStep, DispatchRefused, DispatchEnqueue, DispatchUnqueueable, Enqueue,
         DispatchExpired, DispatchDone, DispatchAccept
<1>2. Spares(d) BY <1>1, ActiveSpared DEF Spares
<1>3. CASE DispatchRefused(d) \/ DispatchUnqueueable(d) \/ DispatchDone(d)
  <2>1. proc'[d].pc = "off"
    BY <1>3, LeaveFields DEF DispatchRefused, DispatchUnqueueable, DispatchDone, Off
  <2>2. canon' = canon BY <1>3 DEF DispatchRefused, DispatchUnqueueable, DispatchDone, Disk
  <2>3. CASE DispatchDone(d)
    BY <1>2, <2>1, <2>2, <2>3, StatusAged DEF DispatchDone, TerminalStatuses
  <2> QED
    BY <1>2, <1>3, <2>1, <2>2, <2>3, StillAged DEF DispatchRefused, DispatchUnqueueable, Disk
<1>4. CASE DispatchEnqueue(d)
  <2>1. r \in Req /\ receipts[r].st = "none" /\ canon' = canon
    BY <1>4 DEF DispatchEnqueue, MustEnqueue, Control, Asked, AskedPcs
  <2>2. PICK g \in 1 .. MaxGen :
          /\ IsFreshGeneration(canon, receipts, g)
          /\ receipts' = [receipts EXCEPT ![r] =
                            [st |-> "queued", gen |-> g, goal |-> RequestGoal(r)]]
    BY <1>4 DEF DispatchEnqueue
  <2>3. g \in Nat BY BoundAssumption
  <2>4. proc'[d].pc = "enqueue" BY <1>4, GotoFields DEF DispatchEnqueue
  <2> QED BY <1>2, <2>1, <2>2, <2>3, <2>4, FreshAged
<1>5. CASE Enqueue(d)
  <2>1. r \in Req BY <1>5 DEF Enqueue, Control, Asked, AskedPcs
  <2>2. receipts[r].gen \in Nat /\ receipts[r].gen >= canon.nextGen
    BY <1>5, <2>1 DEF Enqueue, Running, Knowing, Data, Receipts
  <2>3. /\ canon'.nextGen = receipts[r].gen + 1 /\ canon'.active = canon.active
        /\ canon'.phase = canon.phase /\ canon'.req = canon.req /\ canon'.last = canon.last
        /\ canon'.candidate = canon.candidate /\ canon'.previous = canon.previous
        /\ canon'.retiring = canon.retiring
    BY <1>5 DEF Enqueue, Data, Canonical
  <2>4. canon'.nextGen >= canon.nextGen BY <2>2, <2>3, CanonFields
  <2>5. proc'[d].pc \in {"off", "expire"}
    BY <1>5, LeaveFields, WaitAtFields, ProcFields DEF Enqueue, Off
  <2> QED BY <1>2, <1>5, <2>3, <2>4, <2>5, RaisedAged DEF Enqueue
<1>6. CASE DispatchExpired(d)
  <2>1. proc'[d].pc = "expire" BY <1>6, WaitAtFields, ProcFields DEF DispatchExpired
  <2> QED BY <1>2, <1>6, <2>1, StillAged DEF DispatchExpired, Disk
<1>7. CASE DispatchAccept(d)
  <2>1. PICK g : Become(d, [proc[d] EXCEPT !.pc = "accept", !.goal = g])
    BY <1>7 DEF DispatchAccept
  <2>2. proc'[d] = [proc[d] EXCEPT !.pc = "accept", !.goal = g] BY <2>1, BecomeFields DEF Become
  <2>3. proc'[d].pc = "accept" BY <2>2, ProcFields DEF Procs
  <2> QED BY <1>2, <1>7, <2>3, StillAged DEF DispatchAccept, Disk
<1> QED BY <1>3, <1>4, <1>5, <1>6, <1>7 DEF DispatchStep

(* A request that claims the document is not the one whose game is on air: *)
(* that one has been accepted, and would be in flight beside it.           *)
LEMMA ClaimantLingersNot ==
  ASSUME AgeInv, NEW r \in Req, receipts[r].st # "accepted",
         \A q \in InFlight(receipts) : q = r
  PROVE  ~Lingers
<1> SUFFICES ASSUME Lingers PROVE FALSE
  OBVIOUS
<1>1. PICK q \in Claimants(canon.active.gen, receipts) : TRUE BY DEF Lingers
<1>2. q \in Req /\ receipts[q].st = "accepted"
  BY <1>1, LingersResting DEF Claimants, Unanswered
<1> QED BY <1>2 DEF InFlight

LEMMA ClaimAged ==
  ASSUME CommitInv, AgeInv, NEW d \in Driver, ~Lingers, receipts' = receipts,
         proc[d].pc \in {"accept", "alloc"}, canon.phase \in PlayedPhases \/ canon.active = NoRt,
         canon'.nextGen >= canon.nextGen, canon'.active = canon.active,
         canon'.candidate = canon.candidate, canon'.previous = canon.previous,
         canon'.retiring = canon.retiring,
         NEW pc \in {"allocated", "claim", "replay"}, Goto(d, pc)
  PROVE  Aged(d) /\ Course(d)
<1>1. canon.active # NoRt => canon.active \notin Stopped(d) BY ActiveSpared
<1>2. Shifts(d) BY <1>1 DEF Shifts
<1>3. proc'[d].pc = pc BY GotoFields DEF CommitInv, RunInv, OwnInv, TypeInv
<1> QED BY <1>2, <1>3, ShiftsAged DEF Minding, CandidatePcs

LEMMA AcceptAged ==
  ASSUME CommitInv, AgeInv, NEW d \in Driver, AcceptStep(d)
  PROVE  Aged(d) /\ Course(d)
<1> USE DEF CommitInv, RunInv, OwnInv, TypeInv, At, MindfulPcs, CandidatePcs
<1> DEFINE r == proc[d].req
<1>1. proc[d].pc \in {"accept", "alloc", "allocated", "claim", "replay", "overdue"} /\ lock = d
  BY DEF AcceptStep, AcceptRefused, AcceptBump, AcceptFresh, Alloc, AcceptClaim, AcceptAllocating,
         MarkAccepted, Overdue, AcceptReplay, AcceptOrphan
<1>2. /\ Spares(d) /\ (canon.active # NoRt => canon.active \notin Stopped(d))
      /\ Holding(proc[d], canon) /\ CanonShape(canon) /\ Backed(canon, receipts)
      /\ PendingOf(proc[d], receipts) /\ Knowing(proc[d], canon, receipts, live)
  BY <1>1, ActiveSpared DEF Spares, Ownership, Receipted, Pending, Running
<1>3. CASE AcceptRefused(d) \/ AcceptReplay(d)
  <2>1. proc'[d].pc \in {"off", "recover"}
    BY <1>3, LeaveFields, GotoFields DEF AcceptRefused, AcceptReplay, Off
  <2> QED BY <1>2, <1>3, <2>1, StillAged DEF AcceptRefused, AcceptReplay, Disk
<1>4. CASE AcceptBump(d)
  <2>1. r \in Req BY <1>4 DEF AcceptBump, Control, Asked, AskedPcs
  <2>2. receipts[r].gen \in Nat BY <2>1 DEF Data, Receipts
  <2>3. /\ canon'.nextGen = receipts[r].gen + 1 /\ canon'.active = canon.active
        /\ canon'.phase = canon.phase /\ canon'.req = canon.req /\ canon'.last = canon.last
        /\ canon'.candidate = canon.candidate /\ canon'.previous = canon.previous
        /\ canon'.retiring = canon.retiring
    BY <1>4 DEF AcceptBump, Data, Canonical
  <2>4. canon'.nextGen >= canon.nextGen BY <1>4, <2>2, <2>3, CanonFields DEF AcceptBump
  <2> QED BY <1>2, <1>4, <2>3, <2>4, RaisedAged DEF AcceptBump
<1>5. CASE AcceptFresh(d)
  <2>1. r \in Req /\ receipts[r].st = "none" /\ canon' = canon
    BY <1>5 DEF AcceptFresh, Control, Asked, AskedPcs
  <2>2. CASE Leave(d) /\ UNCHANGED receipts
    <3>1. proc'[d].pc = "off" BY <2>2, LeaveFields DEF Off
    <3> QED BY <1>2, <2>1, <2>2, <3>1, StillAged
  <2>3. ASSUME NEW g \in 1 .. MaxGen, NEW goal, IsFreshGeneration(canon, receipts, g),
               receipts' = [receipts EXCEPT ![r] =
                              [st |-> "allocating", gen |-> g, goal |-> goal]],
               Goto(d, "alloc")
        PROVE  Aged(d) /\ Course(d)
    <3>1. g \in Nat BY BoundAssumption
    <3>2. proc'[d].pc = "alloc" BY <2>3, GotoFields
    <3> QED BY <1>2, <2>1, <2>3, <3>1, <3>2, FreshAged
  <2> QED BY <1>5, <2>2, <2>3 DEF AcceptFresh
<1>6. CASE Alloc(d)
  <2>1. r \in Req /\ receipts[r].st = "allocating"
    BY <1>2, <1>6 DEF Alloc, PendingOf, Control, Asked, AskedPcs
  <2>2. ~Lingers BY <1>2, <2>1, ClaimantLingersNot DEF Backed, InFlight
  <2>3. receipts[r].gen \in Nat /\ receipts[r].gen >= canon.nextGen
    BY <1>2, <1>6, <2>1 DEF Alloc, Knowing, Data, Receipts
  <2>4. /\ canon'.nextGen = receipts[r].gen + 1 /\ canon'.active = canon.active
        /\ canon'.candidate = canon.candidate /\ canon'.previous = canon.previous
        /\ canon'.retiring = canon.retiring
    BY <1>6 DEF Alloc, Data, Canonical
  <2>5. canon'.nextGen >= canon.nextGen BY <2>3, <2>4, CanonFields
  <2>6. canon.phase \in PlayedPhases \/ canon.active = NoRt
    BY <1>2, <1>6 DEF Alloc, Holding, CanonShape, StablePhases, PlayedPhases
  <2>7. Goto(d, "allocated") /\ receipts' = receipts /\ proc[d].pc = "alloc" BY <1>6 DEF Alloc
  <2> QED BY <2>2, <2>4, <2>5, <2>6, <2>7, ClaimAged
<1>7. ASSUME canon' = [canon EXCEPT !.phase = "validating", !.req = r], receipts' = receipts,
             proc[d].pc = "accept", ~Lingers, canon.phase \in StablePhases \cup {"validating"},
             NEW pc \in {"claim", "replay"}, Goto(d, pc)
      PROVE  Aged(d) /\ Course(d)
  <2>1. /\ canon'.nextGen = canon.nextGen /\ canon'.active = canon.active
        /\ canon'.candidate = canon.candidate /\ canon'.previous = canon.previous
        /\ canon'.retiring = canon.retiring
    BY <1>7 DEF Data, Canonical
  <2>2. canon'.nextGen >= canon.nextGen BY <2>1, CanonFields
  <2>3. canon.phase \in PlayedPhases \/ canon.active = NoRt
    BY <1>2, <1>7 DEF CanonShape, StablePhases, PlayedPhases
  <2> QED BY <1>7, <2>1, <2>2, <2>3, ClaimAged
<1>8. CASE AcceptClaim(d)
  <2>1. r \in Req /\ receipts[r].st = "queued" /\ \A q \in InFlight(receipts) : q = r
    BY <1>8 DEF AcceptClaim, Claimable, Control, Asked, AskedPcs
  <2>2. ~Lingers BY <2>1, ClaimantLingersNot
  <2>3. canon.phase \in StablePhases
    BY <1>2, <1>8 DEF AcceptClaim, Holding, CanonShape, OwnerMatchesPhase, InProgressPhases,
                      StablePhases, Phases, Data, Canonical
  <2>4. CASE Leave(d) /\ UNCHANGED canon /\ SetStatus(r, "failed")
    <3>1. proc'[d].pc = "off" BY <2>4, LeaveFields DEF Off
    <3> QED BY <1>2, <2>4, <3>1, StatusAged DEF TerminalStatuses
  <2> QED BY <1>7, <1>8, <2>2, <2>3, <2>4 DEF AcceptClaim
<1>9. CASE AcceptAllocating(d)
  <2>1. r \in Req /\ receipts[r].st = "allocating" /\ \A q \in InFlight(receipts) : q = r
    BY <1>9 DEF AcceptAllocating, Claimable, Control, Asked, AskedPcs
  <2>2. ~Lingers BY <2>1, ClaimantLingersNot
  <2>3. canon.phase \in StablePhases \cup {"validating"} BY <1>9 DEF AcceptAllocating
  <2> QED BY <1>7, <1>9, <2>2, <2>3 DEF AcceptAllocating
<1>10. CASE MarkAccepted(d)
  <2>1. receipts[r].st \in DatedStatuses
    BY <1>2, <1>10 DEF MarkAccepted, PendingOf, DatedStatuses
  <2>2. proc'[d].pc \in {"run", "overdue", "recover"} BY <1>10, GotoFields DEF MarkAccepted
  <2> QED BY <1>2, <1>10, <2>1, <2>2, StatusAged DEF MarkAccepted
<1>11. CASE Overdue(d)
  <2>1. PICK ph, act, prev, ret, lst :
          /\ Settle(ph, act, prev, ret, lst)
          /\ act = canon.active /\ prev = canon.previous /\ ret = canon.retiring
    BY <1>11 DEF Overdue
  <2>2. /\ canon'.active = canon.active /\ canon'.candidate = NoRt
        /\ canon'.previous = canon.previous
        /\ canon'.retiring = canon.retiring /\ canon'.nextGen = canon.nextGen
    <3>1. Settle(ph, act, prev, ret, lst) BY <2>1
    <3>2. /\ canon'.active = act /\ canon'.candidate = NoRt /\ canon'.previous = prev
          /\ canon'.retiring = ret /\ canon'.nextGen = canon.nextGen
      BY <3>1, SettleFields
    <3> QED BY <2>1, <3>2
  <2>3. canon.phase = "validating" BY <1>2, <1>11 DEF Overdue, Holding, ClaimedPcs
  <2>4. ~Lingers /\ canon.phase \in PlayedPhases BY <2>3, OwnedLingersNot DEF PlayedPhases
  <2>5. proc'[d].pc = "finishLeave" /\ receipts' = receipts
    BY <1>11, FinishAsFields DEF Overdue
  <2> QED BY <1>2, <2>2, <2>4, <2>5, OnwardAged
<1>12. CASE AcceptOrphan(d)
  <2>1. canon' = canon /\ receipts[r].st \in DatedStatuses
    BY <1>12 DEF AcceptOrphan, Orphaned, DatedStatuses
  <2>2. proc'[d].pc \in {"accept", "finalize"} BY <1>12, GotoFields DEF AcceptOrphan
  <2>3. PICK st : SetStatus(r, st) /\ (st \in TerminalStatuses \/ ~ResultRecorded(r))
    BY <1>12 DEF AcceptOrphan, ResultRecorded, TerminalStatuses
  <2> QED BY <1>2, <2>1, <2>2, <2>3, StatusAged
<1> QED BY <1>3, <1>4, <1>5, <1>6, <1>8, <1>9, <1>10, <1>11, <1>12 DEF AcceptStep

-----------------------------------------------------------------------------
(* The steps after an end                                                  *)

LEMMA AfterFinishPcs ==
  ASSUME Control, NEW d \in Driver, AfterFinish(d) \/ AfterFinalize(d)
  PROVE  proc'[d].pc \in {"off", "dispatch", "finalize", "reconcile", "resolve"}
<1>1. CASE Leave(d) BY <1>1, LeaveFields DEF Off
<1>2. CASE Become(d, [proc[d] EXCEPT !.pc = "dispatch", !.drain = NoReq, !.old = NoRt])
  <2>1. proc'[d] = [proc[d] EXCEPT !.pc = "dispatch", !.drain = NoReq, !.old = NoRt]
    BY <1>2, BecomeFields DEF Become
  <2> QED BY <2>1, ProcFields DEF Procs
<1> QED BY <1>1, <1>2, GotoFields DEF AfterFinish, AfterFinalize

LEMMA ReconcileAged ==
  ASSUME CommitInv, AgeInv, NEW d \in Driver, UNCHANGED canon, Spares(d), ReconcileReceipt,
         proc'[d].pc \notin MindfulPcs
  PROVE  Aged(d) /\ Course(d)
<1>1. CASE UNCHANGED receipts BY <1>1, StillAged
<1>2. CASE canon.last.st \in TerminalStatuses /\ SetStatus(canon.last.req, canon.last.st)
  BY <1>2, StatusAged
<1> QED BY <1>1, <1>2 DEF ReconcileReceipt

LEMMA FinishAged ==
  ASSUME CommitInv, AgeInv, NEW d \in Driver, FinishStep(d)
  PROVE  Aged(d) /\ Course(d)
<1> USE DEF CommitInv, RunInv, OwnInv, TypeInv, At, MindfulPcs, CandidatePcs
<1>1. proc[d].pc \in {"finish", "finishLeave", "finishRedo", "finalize", "finalizeReady",
                      "retryFailed", "reconcile"}
  BY DEF FinishStep, Finish, Finishing, FinalizeReceipt, Finalize, Finalizing, Reconcile
<1>2. Spares(d) /\ (canon.active # NoRt => canon.active \notin Stopped(d))
  BY <1>1, ActiveSpared DEF Spares
<1>3. CASE Finish(d)
  <2>1. CASE FinishFirst(d)
    <3>1. FinishedAs(d) \in TerminalStatuses
      BY ProcFields DEF FinishedAs, TerminalStatuses
    <3>2. PICK r, st : SetStatus(r, st) /\ st \in TerminalStatuses
      BY <2>1, <3>1 DEF FinishFirst
    <3>3. proc'[d].pc \in {"off", "dispatch", "finalize", "reconcile", "resolve"}
      BY <2>1, AfterFinishPcs DEF FinishFirst
    <3> QED BY <1>2, <1>3, <3>2, <3>3, StatusAged DEF Finish
  <2>2. CASE FinishAgain(d)
    <3>1. proc'[d].pc \in {"off", "finalize"}
      BY <2>2, LeaveFields, GotoFields DEF FinishAgain, Off
    <3> QED BY <1>2, <1>3, <2>2, <3>1, StillAged DEF Finish, FinishAgain
  <2> QED BY <1>3, <2>1, <2>2 DEF Finish
<1>4. CASE FinalizeReceipt(d)
  <2>1. PICK e \in canon.retiring : SetStatus(e.proof, "succeeded")
    BY <1>4 DEF FinalizeReceipt
  <2>2. proc'[d].pc = proc[d].pc BY <1>4 DEF FinalizeReceipt
  <2> QED BY <1>1, <1>2, <1>4, <2>1, <2>2, StatusAged DEF FinalizeReceipt, TerminalStatuses
<1>5. CASE Finalize(d)
  <2>1. PICK dead \in SUBSET Collectable : canon' = [canon EXCEPT !.retiring = @ \ dead]
    BY <1>5 DEF Finalize
  <2>2. /\ canon'.retiring = canon.retiring \ dead /\ canon'.nextGen = canon.nextGen
        /\ canon'.phase = canon.phase /\ canon'.req = canon.req /\ canon'.last = canon.last
        /\ canon'.active = canon.active /\ canon'.candidate = canon.candidate
        /\ canon'.previous = canon.previous
    BY <2>1 DEF Data, Canonical
  <2>3. ASSUME NEW e \in canon.retiring \ canon'.retiring PROVE e.rt \in Stopped(d)
    <3>1. e \in Collectable /\ canon'.retiring # canon.retiring BY <2>2, <2>3
    <3>2. e.rt \in Tracked(canon) BY <2>3 DEF Tracked
    <3> QED BY <1>5, <3>1, <3>2 DEF Finalize, Stopped
  <2>4. Lingers => canon.active \in Tracked(canon') BY <2>2 DEF Lingers, Tracked, Slots
  <2>5. canon'.nextGen >= canon.nextGen BY <2>2, CanonFields
  <2>6. receipts' = receipts BY <1>5 DEF Finalize
  <2>7. Shifts(d) BY <1>2, <2>2, <2>3, <2>4, <2>5, <2>6 DEF Shifts
  <2>8. proc'[d].pc \in {"off", "dispatch", "finalize", "reconcile", "resolve"}
    BY <1>5, AfterFinishPcs DEF Finalize
  <2>9. proc'[d].pc # "commit" /\ Minding(proc'[d], canon', receipts) BY <2>8 DEF Minding
  <2> QED BY <2>7, <2>9, ShiftsAged
<1>6. CASE Reconcile(d)
  <2>1. proc'[d].pc = "off" BY <1>6, LeaveFields DEF Reconcile, Off
  <2> QED BY <1>2, <1>6, <2>1, ReconcileAged DEF Reconcile
<1> QED BY <1>3, <1>4, <1>5, <1>6 DEF FinishStep

-----------------------------------------------------------------------------
(* The steps of a restore                                                  *)

(* What is published has been given an agent, and its generation is        *)
(* nobody's to take.                                                       *)
LEMMA PublishedAged ==
  ASSUME CommitInv, AgeInv, NEW d \in Driver, NEW rt, PublishRestored(d, rt),
         rt \in Started(d), Claimants(rt.gen, receipts) = {}, canon.active = NoRt,
         UNCHANGED <<receipts, faults>>
  PROVE  Aged(d) /\ Course(d)
<1> USE DEF CommitInv, RunInv, OwnInv, TypeInv
<1>1. PICK ret, lst : Settle("ready", rt, NoRt, ret, lst) /\ ret = canon.retiring
  BY DEF PublishRestored
<1>2. Settle("ready", rt, NoRt, ret, lst) BY <1>1
<1>3. /\ canon'.phase = "ready" /\ canon'.active = rt /\ canon'.candidate = NoRt
      /\ canon'.previous = NoRt /\ canon'.retiring = ret /\ canon'.nextGen = canon.nextGen
  BY <1>2, SettleFields
<1>4. proc'[d].pc \in {"finish", "finalizeReady"} BY FinishAsFields DEF PublishRestored
<1>5. Aged(d) BY <1>3, <1>4 DEF Aged, AgeInv, Taken, Minding, CandidatePcs
<1>6. ASSUME NEW x \in Tracked(canon) \ Tracked(canon')
      PROVE  x = canon.candidate \/ Claimants(x.gen, receipts) = {}
  <2>1. ~\E e \in canon.retiring : e.rt = x BY <1>1, <1>3, <1>6 DEF Tracked
  <2>2. x = canon.candidate \/ (x = canon.previous /\ x # NoRt) BY <1>6, <2>1 DEF Tracked, Slots
  <2> QED BY <2>2 DEF AgeInv, Taken
<1>7. canon'.nextGen >= canon.nextGen BY <1>3, CanonFields
<1>8. Course(d) BY <1>3, <1>4, <1>6, <1>7 DEF Course
<1> QED BY <1>5, <1>8

LEMMA RestoreAged ==
  ASSUME CommitInv, AgeInv, RestoresFresh, NEW d \in Driver, RestoreStep(d)
  PROVE  Aged(d) /\ Course(d)
<1> USE DEF CommitInv, RunInv, OwnInv, TypeInv, At
<1>1. /\ proc[d].pc \in RestorePcs \cup {"undo", "restore", "abandon"} /\ lock = d
      /\ receipts' = receipts
  BY RestoreAside
  DEF RestoreStep, UndoCandidate, PickPrevious, NothingToRestore, RestoreRefused, RestoreAlive,
      RestartAgent, RestoreFresh, Restart, Publish, DropRestart, Abandon, AbandonRecovery, RestorePcs
<1>2. /\ Holding(proc[d], canon) /\ CanonShape(canon) /\ Knowing(proc[d], canon, receipts, live)
      /\ Minding(proc[d], canon, receipts)
  BY <1>1 DEF Ownership, Running, AgeInv
<1>3. canon.phase \notin PlayedPhases
  BY <1>1, <1>2 DEF Holding, PlayedPhases
<1>4. ~Lingers BY <1>3, OwnedLingersNot DEF PlayedPhases
<1>5. Spares(d) BY <1>3 DEF Spares
<1>6. ASSUME UNCHANGED canon, proc'[d].pc \notin MindfulPcs PROVE Aged(d) /\ Course(d)
  BY <1>1, <1>5, <1>6, StillAged
<1>7. ASSUME canon'.nextGen = canon.nextGen, canon'.active \in {canon.active, NoRt},
             canon'.candidate \in {canon.candidate, NoRt},
             canon'.previous \in {canon.previous, canon.active, NoRt},
             canon.retiring \subseteq canon'.retiring, canon'.phase \notin PlayedPhases,
             proc'[d].pc \notin MindfulPcs
      PROVE  Aged(d) /\ Course(d)
  BY <1>1, <1>4, <1>7, OnwardAged
<1>8. CASE UndoCandidate(d) \/ DropRestart(d)
  <2>1. proc'[d].pc \in {"undo", "abandon"}
    BY <1>8, GotoFields DEF UndoCandidate, DropRestart
  <2>2. DiscardCandidate BY <1>8 DEF UndoCandidate, DropRestart
  <2> QED BY <1>3, <1>7, <2>1, <2>2, DiscardFields DEF MindfulPcs, CandidatePcs
<1>9. CASE PickPrevious(d)
  <2>1. proc'[d].pc = "restore" BY <1>9, GotoFields DEF PickPrevious
  <2>2. CASE canon' = canon BY <1>6, <2>1, <2>2 DEF MindfulPcs, CandidatePcs
  <2>3. CASE canon' = [canon EXCEPT !.active = NoRt, !.previous = canon.active]
    <3>1. /\ canon'.active = NoRt /\ canon'.previous = canon.active /\ canon'.phase = canon.phase
          /\ canon'.candidate = canon.candidate /\ canon'.retiring = canon.retiring
          /\ canon'.nextGen = canon.nextGen
      BY <2>3 DEF Data, Canonical
    <3> QED BY <1>3, <1>7, <2>1, <3>1 DEF MindfulPcs, CandidatePcs
  <2> QED BY <1>9, <2>2, <2>3 DEF PickPrevious
<1>10. CASE NothingToRestore(d)
  <2>1. PICK ret, lst : Settle("failed", NoRt, NoRt, ret, lst) /\ ret = canon.retiring
    BY <1>10 DEF NothingToRestore
  <2>2. Settle("failed", NoRt, NoRt, ret, lst) BY <2>1
  <2>3. /\ canon'.phase = "failed" /\ canon'.active = NoRt /\ canon'.candidate = NoRt
        /\ canon'.previous = NoRt /\ canon'.retiring = ret /\ canon'.nextGen = canon.nextGen
    BY <2>2, SettleFields
  <2>4. proc'[d].pc = "finish" BY <1>10, FinishAsFields DEF NothingToRestore
  <2> QED BY <1>7, <2>1, <2>3, <2>4 DEF PlayedPhases, MindfulPcs, CandidatePcs
<1>11. CASE RestoreRefused(d)
  <2>1. proc'[d].pc = "abandon" BY <1>11, GotoFields DEF RestoreRefused
  <2> QED BY <1>6, <1>11, <2>1 DEF RestoreRefused, Disk, MindfulPcs, CandidatePcs
<1>12. CASE RestoreAlive(d)
  <2>1. proc'[d].pc = "restartAgent" BY <1>12, GotoFields DEF RestoreAlive
  <2>2. /\ canon'.active = canon.active /\ canon'.candidate = canon.candidate
        /\ canon'.previous = canon.previous /\ canon'.retiring = canon.retiring
        /\ canon'.nextGen = canon.nextGen /\ canon'.phase = "rolling_back"
    BY <1>12 DEF RestoreAlive, Data, Canonical
  <2> QED BY <1>7, <2>1, <2>2 DEF PlayedPhases, MindfulPcs, CandidatePcs
<1>13. CASE RestartAgent(d)
  <2>1. CASE Goto(d, "abandon") /\ UNCHANGED canon
    BY <1>6, <2>1, GotoFields DEF MindfulPcs, CandidatePcs
  <2>2. CASE PublishRestored(d, canon.previous) /\ Benign
    <3>1. canon.active = NoRt /\ canon.previous # NoRt
      BY <1>2, <1>13 DEF RestartAgent, Holding, RestorePcs
    <3>2. Claimants(canon.previous.gen, receipts) = {} BY <3>1 DEF AgeInv, Taken
    <3>3. canon.previous \in Started(d) BY <1>13 DEF RestartAgent, Started
    <3> QED BY <1>1, <2>2, <3>1, <3>2, <3>3, PublishedAged DEF Benign
  <2> QED BY <1>13, <2>1, <2>2 DEF RestartAgent
<1>14. CASE RestoreFresh(d)
  <2>1. /\ canon'.active = canon.active /\ canon'.previous = canon.previous
        /\ canon'.retiring = canon.retiring /\ canon'.nextGen = canon.nextGen + 1
        /\ canon'.candidate.gen = canon.nextGen /\ canon'.phase = "rolling_back"
    BY <1>14 DEF RestoreFresh, Data, Canonical
  <2>2. proc'[d].pc = "restart" BY <1>14, GotoFields DEF RestoreFresh
  <2>3. canon.active = NoRt /\ canon.candidate = NoRt
    BY <1>2, <1>14 DEF RestoreFresh, Holding
  <2>4. Claimants(canon.nextGen, receipts) = {}
    BY <1>14 DEF RestoreFresh, RestoresFresh
  <2>5. Aged(d)
    BY <1>1, <2>1, <2>2, <2>3, <2>4 DEF Aged, AgeInv, Taken, Minding, CandidatePcs
  <2>6. Tracked(canon) \subseteq Tracked(canon') BY <2>1, <2>3 DEF Tracked, Slots
  <2>7. canon'.nextGen >= canon.nextGen /\ canon'.candidate.gen >= canon.nextGen
    BY <2>1, CanonFields
  <2>8. Course(d) BY <1>1, <2>1, <2>2, <2>6, <2>7 DEF Course, PlayedPhases
  <2> QED BY <2>5, <2>8
<1>15. CASE Restart(d)
  <2>1. canon' = canon /\ proc'[d].pc \in {"publish", "lost", "abandon"}
    BY <1>15, GotoFields DEF Restart, Disk
  <2>2. canon'.nextGen >= canon.nextGen BY <2>1, CanonFields
  <2>3. Shifts(d) BY <1>1, <1>3, <1>4, <2>1, <2>2 DEF Shifts
  <2>4. Minding(proc'[d], canon', receipts)
    BY <1>2, <1>15, <2>1 DEF Restart, Minding, CandidatePcs
  <2> QED BY <2>1, <2>3, <2>4, ShiftsAged
<1>16. CASE Publish(d)
  <2>1. CASE Goto(d, "lost") /\ UNCHANGED canon
    BY <1>6, <2>1, GotoFields DEF MindfulPcs, CandidatePcs
  <2>2. CASE PublishRestored(d, canon.candidate) /\ Benign /\ canon.candidate \in live
    <3>1. canon.active = NoRt
      BY <1>2, <1>16 DEF Publish, Knowing, CanonShape, NoSpare
    <3>2. Claimants(canon.candidate.gen, receipts) = {} BY <1>2, <1>16 DEF Publish, Minding
    <3>3. canon.candidate \in Started(d) BY <1>16, <2>2 DEF Publish, Started, StartedNew
    <3> QED BY <1>1, <2>2, <3>1, <3>2, <3>3, PublishedAged DEF Benign
  <2> QED BY <1>16, <2>1, <2>2 DEF Publish
<1>17. CASE Abandon(d)
  <2>1. /\ canon'.active = NoRt /\ canon'.candidate = canon.candidate
        /\ canon'.previous = canon.previous /\ canon'.retiring = canon.retiring
        /\ canon'.nextGen = canon.nextGen /\ canon'.phase = "failed"
    BY <1>17 DEF Abandon, Data, Canonical
  <2>2. proc'[d].pc = "finish" BY <1>17, FinishAsFields DEF Abandon
  <2> QED BY <1>7, <2>1, <2>2 DEF PlayedPhases, MindfulPcs, CandidatePcs
<1>18. CASE AbandonRecovery(d)
  <2>1. proc'[d].pc = "off" BY <1>18, LeaveFields DEF AbandonRecovery, Off
  <2>2. CASE canon' = RecoverFailed
    BY <1>7, <2>1, <2>2, RecoverFailedFields DEF PlayedPhases, MindfulPcs, CandidatePcs
  <2> QED BY <1>6, <1>18, <2>1, <2>2 DEF AbandonRecovery, MindfulPcs, CandidatePcs
<1> QED
  BY <1>8, <1>9, <1>10, <1>11, <1>12, <1>13, <1>14, <1>15, <1>16, <1>17, <1>18 DEF RestoreStep

-----------------------------------------------------------------------------
(* The steps of a recovery                                                 *)

LEMMA RecoverAged ==
  ASSUME CommitInv, AgeInv, NEW d \in Driver, RecoverStep(d)
  PROVE  Aged(d) /\ Course(d)
<1> USE DEF CommitInv, RunInv, OwnInv, TypeInv, At, MindfulPcs, CandidatePcs, PlayedPhases
<1>1. proc[d].pc \in {"recover", "resolve"} /\ lock = d
  BY DEF RecoverStep, RecoverDraining, RecoverIdle, RecoverReady, RecoverDead, RecoverCandidate,
         RecoverLeftovers, ResolveRestore, ResolveStop, ResolveIdle, RecoverStop, RecoverSwitch
<1>2. Holding(proc[d], canon) /\ CanonShape(canon) BY <1>1 DEF Ownership
<1>3. ASSUME canon.phase \in {"ready", "draining"}, UNCHANGED canon, proc[d].pc = "recover"
      PROVE  Spares(d)
  BY <1>2, <1>3 DEF Spares, Stopped, Interrupted, InProgressPhases, Finalizing, CanonShape, NoSpare
<1>4. ASSUME canon.phase = "failed" \/ Interrupted PROVE ~Lingers
  BY <1>2, <1>4, OwnedLingersNot DEF CanonShape, OwnerMatchesPhase, Interrupted, InProgressPhases
<1>5. ASSUME ~Lingers, receipts' = receipts,
             canon'.nextGen = canon.nextGen, canon'.active \in {canon.active, NoRt},
             canon'.candidate \in {canon.candidate, NoRt},
             canon'.previous \in {canon.previous, NoRt},
             canon.retiring \subseteq canon'.retiring,
             canon'.phase \notin PlayedPhases \/ canon'.active = NoRt,
             proc'[d].pc \notin MindfulPcs
      PROVE  Aged(d) /\ Course(d)
  BY <1>5, OnwardAged
<1>6. ASSUME ~Lingers, receipts' = receipts, canon' = RecoverFailed, proc'[d].pc = "off"
      PROVE  Aged(d) /\ Course(d)
  BY <1>5, <1>6, RecoverFailedFields
<1>7. ASSUME ~Lingers, receipts' = receipts, NEW lst,
             Settle("idle", NoRt, NoRt, canon.retiring, lst), proc'[d].pc \notin MindfulPcs
      PROVE  Aged(d) /\ Course(d)
  <2>1. PICK ret : Settle("idle", NoRt, NoRt, ret, lst) /\ ret = canon.retiring BY <1>7
  <2>2. Settle("idle", NoRt, NoRt, ret, lst) BY <2>1
  <2>3. /\ canon'.active = NoRt /\ canon'.candidate = NoRt /\ canon'.previous = NoRt
        /\ canon'.retiring = ret /\ canon'.nextGen = canon.nextGen
    BY <2>2, SettleFields
  <2> QED BY <1>5, <1>7, <2>1, <2>3
<1>8. ASSUME Leave(d) PROVE proc'[d].pc = "off"
  BY <1>8, LeaveFields DEF Off
<1>9. CASE RecoverDraining(d)
  <2>1. Spares(d) BY <1>3, <1>9 DEF RecoverDraining, Disk
  <2>2. proc'[d].pc \in {"off", "expire"}
    BY <1>8, <1>9, WaitAtFields, ProcFields DEF RecoverDraining
  <2> QED BY <1>9, <2>1, <2>2, StillAged DEF RecoverDraining, Disk
<1>10. CASE RecoverIdle(d)
  <2>1. Spares(d) BY <1>10 DEF RecoverIdle, Spares
  <2>2. proc'[d].pc = "finalize" BY <1>10, GotoFields DEF RecoverIdle
  <2>3. ReconcileReceipt BY <1>10 DEF RecoverIdle
  <2>4. canon' = canon BY <1>10 DEF RecoverIdle
  <2> QED BY ONLY CommitInv, AgeInv, d \in Driver, <2>1, <2>2, <2>3, <2>4, ReconcileAged
<1>11. CASE RecoverReady(d)
  <2>1. Spares(d) BY <1>3, <1>11 DEF RecoverReady, Disk
  <2>2. proc'[d].pc \in {"off", "finalizeReady"} BY <1>8, <1>11, GotoFields DEF RecoverReady
  <2> QED BY <1>11, <2>1, <2>2, StillAged DEF RecoverReady, Disk
<1>12. CASE RecoverDead(d)
  <2>1. /\ canon'.phase = "failed" /\ canon'.active = NoRt /\ canon'.candidate = canon.candidate
        /\ canon'.previous = canon.previous /\ canon'.nextGen = canon.nextGen
        /\ canon.retiring \subseteq canon'.retiring
    <3>1. PICK lst, e :
            \/ canon' = [canon EXCEPT !.phase = "failed", !.active = NoRt, !.last = lst]
            \/ canon' = [[canon EXCEPT !.phase = "failed", !.active = NoRt, !.last = lst]
                           EXCEPT !.retiring = @ \cup {e}]
      BY <1>12 DEF RecoverDead
    <3>2. CASE canon' = [canon EXCEPT !.phase = "failed", !.active = NoRt, !.last = lst]
      BY <3>2 DEF Data, Canonical
    <3>3. CASE canon' = [[canon EXCEPT !.phase = "failed", !.active = NoRt, !.last = lst]
                          EXCEPT !.retiring = @ \cup {e}]
      BY <3>3 DEF Data, Canonical
    <3> QED BY <3>1, <3>2, <3>3
  <2>2. Lingers => canon.active \in Stopped(d)
    BY <1>12, <2>1 DEF RecoverDead, Lingers, Stopped, Tracked, Slots
  <2>3. canon'.nextGen >= canon.nextGen BY <2>1, CanonFields
  <2>4. receipts' = receipts BY <1>12 DEF RecoverDead
  <2>5. Shifts(d) BY <2>1, <2>2, <2>3, <2>4 DEF Shifts
  <2>6. proc'[d].pc = "off" BY <1>8, <1>12 DEF RecoverDead
  <2> QED BY <2>5, <2>6, ShiftsAged DEF Minding
<1>13. CASE RecoverCandidate(d)
  <2>1. proc'[d].pc = "retryFailed" BY <1>13, GotoFields DEF RecoverCandidate
  <2> QED BY <1>4, <1>5, <1>13, <2>1, DiscardFields DEF RecoverCandidate
<1>14. CASE RecoverLeftovers(d) \/ ResolveRestore(d)
  <2>1. Spares(d) /\ UNCHANGED <<canon, receipts>>
    BY <1>2, <1>14 DEF RecoverLeftovers, ResolveRestore, Spares, Holding, Disk
  <2>2. CASE RecoverLeftovers(d)
    <3>1. proc'[d].pc = "retryFailed" BY <2>2, GotoFields DEF RecoverLeftovers
    <3> QED BY <2>1, <3>1, StillAged
  <2>3. CASE ResolveRestore(d)
    <3>1. proc'[d] = [proc[d] EXCEPT !.pc = "restore", !.req = canon.last.req, !.restoring = TRUE]
      BY <2>3, BecomeFields DEF ResolveRestore, Become
    <3>2. proc'[d].pc = "restore" BY <3>1, ProcFields DEF Procs
    <3> QED BY <2>1, <3>2, StillAged
  <2> QED BY <1>14, <2>2, <2>3
<1>15. CASE ResolveStop(d) \/ ResolveIdle(d)
  <2>1. ~Lingers BY <1>2, <1>4, <1>15 DEF ResolveStop, ResolveIdle, Holding
  <2>2. receipts' = receipts /\ proc'[d].pc = "off"
    BY <1>8, <1>15 DEF ResolveStop, ResolveIdle
  <2> QED BY <1>6, <1>7, <1>15, <2>1, <2>2 DEF ResolveStop, ResolveIdle
<1>16. CASE RecoverStop(d)
  <2>1. ~Lingers BY <1>4, <1>16 DEF RecoverStop
  <2>2. CASE canon' = RecoverFailed /\ Leave(d)
    BY <1>6, <1>8, <1>16, <2>1, <2>2 DEF RecoverStop
  <2>3. ASSUME NEW lst, Settle("idle", NoRt, NoRt, canon.retiring, lst),
               Become(d, [proc[d] EXCEPT !.pc = "finishLeave", !.req = canon.req,
                                         !.res = "succeeded"])
        PROVE  Aged(d) /\ Course(d)
    <3>1. proc'[d] = [proc[d] EXCEPT !.pc = "finishLeave", !.req = canon.req, !.res = "succeeded"]
      BY <2>3, BecomeFields DEF Become
    <3>2. proc'[d].pc = "finishLeave" BY <3>1, ProcFields DEF Procs
    <3>3. receipts' = receipts BY <1>16 DEF RecoverStop
    <3> QED BY <1>7, <2>1, <2>3, <3>2, <3>3
  <2> QED BY <1>16, <2>2, <2>3 DEF RecoverStop
<1>17. CASE RecoverSwitch(d)
  <2>1. ~Lingers BY <1>4, <1>17 DEF RecoverSwitch
  <2>2. proc'[d] = [proc[d] EXCEPT !.pc = "undo", !.req = canon.req]
    BY <1>17, BecomeFields DEF RecoverSwitch, Become
  <2>3. proc'[d].pc = "undo" BY <2>2, ProcFields DEF Procs
  <2>4. /\ canon'.phase = "rolling_back" /\ canon'.nextGen = canon.nextGen
        /\ canon'.active = canon.active /\ canon'.candidate = canon.candidate
        /\ canon'.previous = canon.previous /\ canon'.retiring = canon.retiring
    BY <1>17, TransitionFields DEF RecoverSwitch
  <2>5. receipts' = receipts BY <1>17 DEF RecoverSwitch
  <2> QED BY <1>5, <2>1, <2>3, <2>4, <2>5
<1> QED
  BY <1>9, <1>10, <1>11, <1>12, <1>13, <1>14, <1>15, <1>16, <1>17 DEF RecoverStep

-----------------------------------------------------------------------------
(* Every step                                                              *)

LEMMA DriverAged ==
  ASSUME CommitInv, AgeInv, RestoresFresh, NEW d \in Driver,
         DriverStep(d) \/ (\E r \in Req : Request(d, r)) \/ Recover(d) \/ Maintain(d)
  PROVE  Aged(d) /\ Course(d)
<1>1. CASE ResumeBusy(d)
  <2>1. proc'[d] = Off
    BY <1>1, BecomeFields DEF ResumeBusy, CommitInv, RunInv, OwnInv, TypeInv
  <2>2. Spares(d) BY <1>1, ActiveSpared DEF ResumeBusy, Spares
  <2> QED BY <1>1, <2>1, <2>2, StillAged DEF ResumeBusy, Disk, Off, MindfulPcs, CandidatePcs
<1>2. CASE (\E r \in Req : Request(d, r)) \/ Recover(d) \/ Maintain(d) \/ Resume(d)
  BY <1>2, EntryAged
<1>3. CASE DispatchStep(d) \/ AcceptStep(d) \/ SwitchStep(d) \/ BoundaryStep(d)
  BY <1>3, DispatchAged, AcceptAged, SwitchAged, BoundaryAged
<1>4. CASE StopStep(d) \/ RestoreStep(d) \/ FinishStep(d) \/ RecoverStep(d)
  BY <1>4, StopAged, RestoreAged, FinishAged, RecoverAged
<1> QED BY <1>1, <1>2, <1>3, <1>4 DEF DriverStep

LEMMA AgeKept ==
  ASSUME CommitInv, AgeInv, RestoresFresh, [AgentsNext]_allvars
  PROVE  AgeInv'
<1> USE DEF CommitInv, RunInv, OwnInv, TypeInv
<1>1. ASSUME NEW d \in Driver, Drive(d) \/ Enters(d)
      PROVE  AgeInv'
  <2>1. AnyStep(d) BY <1>1 DEF Drive, Enters, AnyStep
  <2>2. Keeps(d) \/ Bystands(d) BY <2>1, StepOwned, ReceiptedOwned
  <2>3. Aged(d) BY <1>1, DriverAged DEF Drive, Enters
  <2> QED BY <2>2, <2>3, AgedAges, BystandsAges
<1>2. ASSUME NEW d \in Driver, KeptOut(d) PROVE AgeInv'
  BY <1>2, KeptOutBystands, BystandsAges
<1>3. ASSUME NEW d \in Driver, Dies(d) PROVE AgeInv'
  <2>1. proc'[d] = Off /\ Others(d) BY <1>3, BecomeFields DEF Dies, Crash
  <2>2. Bystands(d) BY <1>3, <2>1, OffAwaits DEF Dies, Crash, Bystands
  <2> QED BY <2>2, BystandsAges
<1>4. CASE UNCHANGED <<Disk, lock, proc>> BY <1>4 DEF AgeInv, Disk
<1>5. CASE Repair \/ \E a \in agents : AgentStep(a)
  BY <1>4, <1>5
  DEF Repair, AgentStep, Resolve, Enter, Check, NextCycle, Acted, Exits, vars, Disk
<1>6. CASE Expire
  <2>1. UNCHANGED <<receipts, lock, proc>> BY <1>6 DEF Expire
  <2> QED BY <1>6, <2>1, ExpireFields DEF AgeInv, Taken, Unanswered, Minding
<1>7. CASE (\E rt \in live : GameDies(rt)) \/ UNCHANGED allvars
  BY <1>4, <1>7 DEF GameDies, allvars, vars, Disk
<1> QED BY <1>1, <1>2, <1>3, <1>5, <1>6, <1>7 DEF AgentsNext

-----------------------------------------------------------------------------
(* The agents of the runtimes                                              *)

(* The runtimes that have an agent, or whose agent died of itself.         *)
Staffed == {a.rt : a \in agents} \cup exited

(* The game on air, and a candidate about to be committed, have an agent;  *)
(* that of a candidate waits.  An agent of a generation that may be taken  *)
(* once more waits as well, unless its own runtime is still there: so a    *)
(* new candidate never finds an agent that is about to fence itself out.   *)
AirStaffed       == canon.phase \in PlayedPhases /\ canon.active # NoRt => canon.active \in Staffed
CommitStaffed    == \A d \in Driver : proc[d].pc = "commit" => canon.candidate \in Staffed
CandidatesWait   == canon.candidate # NoRt =>
                      \A a \in agents : a.rt = canon.candidate => a.at = "idle"
StaleWait        == \A a \in agents : Claimants(a.rt.gen, receipts) # {}
                                        => a.at = "idle" \/ a.rt \in Tracked(canon)
AgentsOfRuntimes == \A a \in agents : a.rt.gen \in Nat /\ a.rt.gen < canon.nextGen

StaffInv == /\ AirStaffed /\ CommitStaffed /\ CandidatesWait /\ StaleWait /\ AgentsOfRuntimes

(* A call that starts agents and stops some of them.                       *)
LEMMA CalledAgents ==
  ASSUME NEW stopped, NEW started, NEW failed, Calls(stopped, started, failed)
  PROVE  /\ \A a \in agents' : \/ a \in agents /\ (a.rt \in stopped => a.rt \in failed)
                               \/ a.rt \in started /\ a.at = "idle"
         /\ \A rt \in Staffed : rt \notin stopped => rt \in Staffed'
         /\ \A rt \in started : rt \notin failed => rt \in Staffed'
<1> DEFINE left == {a \in agents : a.rt \in stopped => a.rt \in failed}
           new  == {rt \in started \ failed : \A a \in left : a.rt # rt}
<1>1. agents' = left \cup {Agent(rt) : rt \in new} /\ exited' = exited \ new
  BY DEF Calls
<1>2. \A rt \in new : Agent(rt).rt = rt /\ Agent(rt).at = "idle" BY DEF Agent
<1>3. \A rt \in new : rt \in Staffed' BY <1>1, <1>2 DEF Staffed
<1>4. \A a \in left : a.rt \in Staffed' BY <1>1 DEF Staffed
<1>5. \A rt \in exited : rt \in Staffed' BY <1>1, <1>3 DEF Staffed
<1>6. \A a \in agents' : \/ a \in agents /\ (a.rt \in stopped => a.rt \in failed)
                         \/ a.rt \in started /\ a.at = "idle"
  BY <1>1, <1>2
<1>7. \A rt \in Staffed : rt \notin stopped => rt \in Staffed'
  BY <1>4, <1>5 DEF Staffed
<1>8. \A rt \in started : rt \notin failed => rt \in Staffed'
  BY <1>3, <1>4
<1> QED BY <1>6, <1>7, <1>8

(* Who starts an agent starts that of a runtime that is named; only the    *)
(* holder of the lock does, or stops one.                                  *)
LEMMA StartsTracked ==
  ASSUME CommitInv, NEW d \in Driver
  PROVE  /\ Started(d) \subseteq Tracked(canon)
         /\ lock # d => Started(d) = {} /\ Stopped(d) = {}
         /\ proc[d].pc \in {"off", "commit"} => Started(d) = {} /\ Stopped(d) = {}
<1> USE DEF CommitInv, RunInv, OwnInv, TypeInv
<1>1. proc[d].pc \in LockedPcs => lock = d BY DEF Control
<1>2. proc[d].pc = "restartAgent" => canon.previous \in Tracked(canon)
  BY <1>1 DEF LockedPcs, Ownership, Holding, RestorePcs, Tracked, Slots
<1>3. StartedNew(d) \subseteq Tracked(canon) BY DEF StartedNew, Running, Housed
<1>4. Started(d) \subseteq Tracked(canon) BY <1>2, <1>3 DEF Started
<1>5. proc[d].pc \notin LockedPcs \/ proc[d].pc = "commit" => Started(d) = {}
  BY DEF Started, StartedNew, LockedPcs
<1>6. proc[d].pc \notin LockedPcs \/ proc[d].pc = "commit" => Stopped(d) = {}
  BY DEF Stopped, Finalizing, At, LockedPcs
<1> QED BY <1>1, <1>4, <1>5, <1>6 DEF LockedPcs

(* Agents come for runtimes that are named, and nothing else changes.      *)
LEMMA StartedStaffed ==
  ASSUME CommitInv, StaffInv, UNCHANGED Disk, NEW started \in SUBSET Tracked(canon), NEW failed,
         Calls({}, started, failed),
         \A d \in Driver : proc'[d].pc = "commit" => proc[d].pc = "commit"
  PROVE  StaffInv'
<1> USE DEF CommitInv, RunInv, OwnInv, TypeInv
<1>1. /\ \A a \in agents' : a \in agents \/ (a.rt \in started /\ a.at = "idle")
      /\ \A rt \in Staffed : rt \in Staffed'
  BY CalledAgents
<1>2. canon' = canon /\ receipts' = receipts BY DEF Disk
<1>3. AirStaffed' /\ CommitStaffed' BY <1>1, <1>2 DEF StaffInv, AirStaffed, CommitStaffed
<1>4. CandidatesWait' /\ StaleWait' BY <1>1, <1>2 DEF StaffInv, CandidatesWait, StaleWait
<1>5. \A rt \in started : rt.gen \in Nat /\ rt.gen < canon.nextGen
  BY TrackedFields DEF Running, Sound
<1>6. AgentsOfRuntimes' BY <1>1, <1>2, <1>5 DEF StaffInv, AgentsOfRuntimes
<1> QED BY <1>3, <1>4, <1>6 DEF StaffInv

(* A step of a driver, and what it does to the agents.                     *)
LEMMA DriveStaffed ==
  ASSUME CommitInv, StaffInv, Data', NEW d \in Driver, Course(d), Keeps(d) \/ Bystands(d),
         NEW failed \in SUBSET Tracked(canon'), faults' = faults => failed = {},
         Calls(Stopped(d), Started(d), failed)
  PROVE  StaffInv'
<1> USE DEF CommitInv, RunInv, OwnInv, TypeInv
<1>1. /\ \A a \in agents' : \/ a \in agents /\ (a.rt \in Stopped(d) => a.rt \in failed)
                            \/ a.rt \in Started(d) /\ a.at = "idle"
      /\ \A rt \in Staffed : rt \notin Stopped(d) => rt \in Staffed'
      /\ \A rt \in Started(d) : rt \notin failed => rt \in Staffed'
  BY CalledAgents
<1>2. Started(d) \subseteq Tracked(canon) BY StartsTracked
<1>3. AgentsOfRuntimes'
  <2>1. \A rt \in Started(d) : rt.gen \in Nat /\ rt.gen < canon.nextGen
    BY <1>2, TrackedFields DEF Running, Sound
  <2>2. \A a \in agents' : a.rt.gen \in Nat /\ a.rt.gen < canon.nextGen
    BY <1>1, <2>1 DEF StaffInv, AgentsOfRuntimes
  <2>3. canon'.nextGen >= canon.nextGen /\ canon.nextGen \in Nat /\ canon'.nextGen \in Nat
    BY DEF Course, Data, Canonical
  <2> QED BY <2>2, <2>3 DEF AgentsOfRuntimes
<1>4. StaleWait'
  <2> SUFFICES ASSUME NEW a \in agents', Claimants(a.rt.gen, receipts') # {}, a.at # "idle"
               PROVE  a.rt \in Tracked(canon')
    BY DEF StaleWait
  <2>1. a \in agents /\ (a.rt \in Stopped(d) => a.rt \in failed) BY <1>1
  <2>2. Claimants(a.rt.gen, receipts) # {} BY <2>1 DEF StaffInv, AgentsOfRuntimes, Course
  <2>3. a.rt \in Tracked(canon) BY <2>1, <2>2 DEF StaffInv, StaleWait
  <2>4. a.rt # canon.candidate
    BY <2>1, <2>3, TrackedFields DEF StaffInv, CandidatesWait, Running
  <2> QED BY <2>1, <2>2, <2>3, <2>4 DEF Course
<1>5. CandidatesWait'
  <2> SUFFICES ASSUME canon'.candidate # NoRt, NEW a \in agents', a.rt = canon'.candidate,
                      a.at # "idle"
               PROVE  FALSE
    BY DEF CandidatesWait
  <2>1. a \in agents BY <1>1
  <2>2. canon'.candidate # canon.candidate BY <2>1 DEF StaffInv, CandidatesWait
  <2>3. ~(a.rt.gen >= canon.nextGen)
    BY <2>1, CanonFields DEF StaffInv, AgentsOfRuntimes
  <2>4. Claimants(a.rt.gen, receipts) # {} /\ a.rt.gen \notin Generations(canon)
    BY <2>2, <2>3 DEF Course
  <2>5. a.rt \notin Tracked(canon) BY <2>4 DEF Generations
  <2> QED BY <2>1, <2>4, <2>5 DEF StaffInv, StaleWait
<1>6. AirStaffed'
  <2> SUFFICES ASSUME canon'.phase \in PlayedPhases, canon'.active # NoRt
               PROVE  canon'.active \in Staffed'
    BY DEF AirStaffed
  <2>1. CASE /\ canon.phase \in PlayedPhases /\ canon'.active = canon.active
             /\ canon.active \notin Stopped(d)
    BY <1>1, <2>1 DEF StaffInv, AirStaffed
  <2>2. CASE canon'.active \in Started(d) /\ faults' = faults BY <1>1, <2>2
  <2>3. CASE proc[d].pc = "commit" /\ canon'.active = canon.candidate
    <3>1. canon.candidate \in Staffed BY <2>3 DEF StaffInv, CommitStaffed
    <3>2. canon.candidate \notin Stopped(d) BY <2>3, StartsTracked
    <3> QED BY <1>1, <2>3, <3>1, <3>2
  <2> QED BY <2>1, <2>2, <2>3 DEF Course
<1>7. CommitStaffed'
  <2> SUFFICES ASSUME NEW e \in Driver, proc'[e].pc = "commit"
               PROVE  canon'.candidate \in Staffed'
    BY DEF CommitStaffed
  <2>1. CASE e = d BY <1>1, <2>1 DEF Course
  <2>2. CASE e # d
    <3>1. proc'[e] = proc[e] BY <2>2 DEF Keeps, Bystands, Others
    <3>2. lock = e BY <3>1 DEF Control, LockedPcs
    <3>3. Bystands(d) /\ lock # d BY <2>2, <3>2, DriverAssumption DEF Keeps
    <3>4. canon' = canon /\ Stopped(d) = {} BY <3>3, StartsTracked DEF Bystands, Disk
    <3>5. canon.candidate \in Staffed BY <3>1 DEF StaffInv, CommitStaffed
    <3> QED BY <1>1, <3>4, <3>5
  <2> QED BY <2>1, <2>2
<1> QED BY <1>3, <1>4, <1>5, <1>6, <1>7 DEF StaffInv

(* An agent that moves stays the agent of its runtime.                     *)
LEMMA MovedStaffed ==
  ASSUME Shaped, CommitInv, StaffInv, UNCHANGED vars, NEW a \in agents, NEW at, Moves(a, at),
         at = "idle" \/ a.at # "idle" \/ a.rt = canon.active
  PROVE  StaffInv'
<1> USE DEF CommitInv, RunInv, OwnInv, TypeInv
<1> DEFINE b == [rt |-> a.rt, at |-> at]
<1>1. [a EXCEPT !.at = at] = b BY DEF Shaped
<1>2. /\ agents' = (agents \ {a}) \cup {b} /\ exited' = exited
      /\ UNCHANGED <<canon, receipts, proc>>
  BY <1>1 DEF Moves, vars
<1>3. b.rt = a.rt /\ b.at = at OBVIOUS
<1> HIDE DEF b
<1>4. Staffed' = Staffed BY <1>2, <1>3 DEF Staffed
<1>5. AirStaffed' /\ CommitStaffed' BY <1>2, <1>4 DEF StaffInv, AirStaffed, CommitStaffed
<1>6. AgentsOfRuntimes' BY <1>2, <1>3 DEF StaffInv, AgentsOfRuntimes
<1>7. CandidatesWait'
  <2>1. canon.candidate # NoRt => canon.candidate # canon.active
    BY DEF Ownership, CanonShape, NoSpare
  <2>2. canon.candidate # NoRt /\ b.rt = canon.candidate => b.at = "idle"
    BY <1>3, <2>1 DEF StaffInv, CandidatesWait
  <2> QED BY <1>2, <2>2 DEF StaffInv, CandidatesWait
<1>8. StaleWait'
  <2>1. Claimants(NoRt.gen, receipts) = {} BY DEF Claimants, Running, Dated, NoRt
  <2>2. Claimants(b.rt.gen, receipts) # {} => b.at = "idle" \/ b.rt \in Tracked(canon)
    BY <1>3, <2>1 DEF StaffInv, StaleWait, Tracked, Slots
  <2> QED BY <1>2, <2>2 DEF StaffInv, StaleWait
<1> QED BY <1>5, <1>6, <1>7, <1>8 DEF StaffInv

(* One that leaves is nobody's whose game is on air, or about to be; or    *)
(* it is known to have died.                                               *)
LEMMA LostStaffed ==
  ASSUME CommitInv, StaffInv, UNCHANGED <<Disk, proc>>, NEW a \in agents, agents' = agents \ {a},
         \/ exited' = exited \cup {a.rt}
         \/ /\ exited' = exited
            /\ canon.active # NoRt => a.rt # canon.active
            /\ canon.candidate # NoRt => a.rt # canon.candidate \/ a.at # "idle"
  PROVE  StaffInv'
<1> USE DEF CommitInv, RunInv, OwnInv, TypeInv
<1>1. canon' = canon /\ receipts' = receipts /\ proc' = proc BY DEF Disk
<1>2. \A rt \in Staffed : rt \in Staffed' \/ (rt = a.rt /\ exited' # exited \cup {a.rt})
  BY DEF Staffed
<1>3. AirStaffed' BY <1>1, <1>2 DEF StaffInv, AirStaffed
<1>4. ASSUME NEW d \in Driver, proc[d].pc = "commit" PROVE canon.candidate # NoRt
  BY <1>4 DEF Control, LockedPcs, Ownership, Holding, Running, Occupied
<1>5. CommitStaffed'
  BY <1>1, <1>2, <1>4 DEF StaffInv, CommitStaffed, CandidatesWait
<1>6. CandidatesWait' /\ StaleWait' /\ AgentsOfRuntimes'
  BY <1>1 DEF StaffInv, CandidatesWait, StaleWait, AgentsOfRuntimes
<1> QED BY <1>3, <1>5, <1>6 DEF StaffInv

LEMMA AgentStaffed ==
  ASSUME Shaped, CommitInv, StaffInv, NEW a \in agents, AgentStep(a)
  PROVE  StaffInv'
<1>1. CASE Exits(a) BY <1>1, LostStaffed DEF Exits
<1>2. ASSUME UNCHANGED vars, FenceLost(a), canon.active # NoRt => a.rt # canon.active,
             canon.candidate # NoRt => a.rt # canon.candidate \/ a.at # "idle"
      PROVE  StaffInv'
  BY <1>2, LostStaffed DEF FenceLost, vars, Disk
<1>3. CASE Check(a) BY <1>2, <1>3 DEF Check
<1>4. CASE Enter(a) \/ NextCycle(a) \/ Acted(a)
  BY <1>4, MovedStaffed DEF Enter, NextCycle, Acted
<1>5. CASE Resolve(a)
  <2>1. CASE a.rt = canon.active /\ Moves(a, "run") BY <1>5, <2>1, MovedStaffed DEF Resolve
  <2>2. CASE a.rt \notin Slots(canon) /\ FenceLost(a)
    BY <1>2, <1>5, <2>2 DEF Resolve, Slots
  <2> QED BY <1>5, <2>1, <2>2 DEF Resolve
<1> QED BY <1>1, <1>3, <1>4, <1>5 DEF AgentStep

LEMMA StaffKept ==
  ASSUME Shaped, CommitInv, AgeInv, StaffInv, RestoresFresh, [AgentsNext]_allvars
  PROVE  StaffInv'
<1> USE DEF CommitInv, RunInv, OwnInv, TypeInv
<1>1. CommitInv' BY ComposedKeeps
<1>2. ASSUME NEW d \in Driver, Drive(d) PROVE StaffInv'
  <2>1. AnyStep(d) BY <1>2 DEF Drive, AnyStep
  <2>2. Keeps(d) \/ Bystands(d) BY <2>1, StepOwned, ReceiptedOwned
  <2>3. Course(d) BY <1>2, DriverAged DEF Drive
  <2>4. PICK failed \in SUBSET Tracked(canon') :
          /\ faults' = faults => failed = {}
          /\ Calls(Stopped(d), Started(d), failed)
    BY <1>2 DEF Drive, CallsAgents
  <2> QED BY <1>1, <2>2, <2>3, <2>4, DriveStaffed
<1>3. ASSUME NEW d \in Driver, Enters(d) PROVE StaffInv'
  <2>1. AnyStep(d) /\ proc[d].pc = "off"
    BY <1>3 DEF Enters, AnyStep, Request, Recover, Maintain, MaintainDrain, ResumeHead
  <2>2. Keeps(d) \/ Bystands(d) BY <2>1, StepOwned, ReceiptedOwned
  <2>3. Course(d) BY <1>3, DriverAged DEF Enters
  <2>4. Stopped(d) = {} /\ Started(d) = {} BY <2>1, StartsTracked
  <2>5. Calls({}, {}, {}) BY <1>3 DEF Enters, Calls
  <2> QED BY <1>1, <2>2, <2>3, <2>4, <2>5, DriveStaffed
<1>4. ASSUME NEW d \in Driver, KeptOut(d) \/ Crash(d)
      PROVE  UNCHANGED Disk /\ \A e \in Driver : proc'[e].pc = "commit" => proc[e].pc = "commit"
  <2>1. proc' = [proc EXCEPT ![d] = Off] /\ UNCHANGED Disk BY <1>4 DEF KeptOut, Crash, Disk
  <2> QED BY <2>1 DEF Control, Off
<1>5. ASSUME NEW d \in Driver, Dies(d) PROVE StaffInv'
  <2>1. PICK failed : Calls({}, Started(d), failed) BY <1>5 DEF Dies
  <2>2. Crash(d) BY <1>5 DEF Dies
  <2> QED BY <1>4, <2>1, <2>2, StartsTracked, StartedStaffed
<1>6. ASSUME UNCHANGED <<agents, exited>>, UNCHANGED Disk,
             \A e \in Driver : proc'[e].pc = "commit" => proc[e].pc = "commit"
      PROVE  StaffInv'
  <2>1. Calls({}, {}, {}) BY <1>6 DEF Calls
  <2> QED BY <1>6, <2>1, StartedStaffed
<1>7. ASSUME NEW d \in Driver, KeptOut(d) PROVE StaffInv'
  BY <1>4, <1>6, <1>7 DEF KeptOut
<1>8. CASE Repair
  <2>1. PICK failed : Calls({}, {canon.active}, failed) BY <1>8 DEF Repair
  <2>2. {canon.active} \in SUBSET Tracked(canon) BY <1>8 DEF Repair, Running, Housed
  <2> QED BY <1>8, <2>1, <2>2, StartedStaffed DEF Repair
<1>9. CASE Expire /\ UNCHANGED <<agents, exited>>
  <2>1. UNCHANGED <<receipts, proc, agents, exited>> BY <1>9 DEF Expire
  <2> QED
    BY <1>9, <2>1, ExpireFields
    DEF StaffInv, AirStaffed, CommitStaffed, CandidatesWait, StaleWait, AgentsOfRuntimes, Staffed,
        Tracked, Slots
<1>10. CASE ((\E rt \in live : GameDies(rt)) /\ UNCHANGED <<agents, exited>>) \/ UNCHANGED allvars
  BY <1>6, <1>10 DEF GameDies, allvars, vars, Disk
<1>11. CASE \E a \in agents : AgentStep(a) BY <1>11, AgentStaffed
<1> QED BY <1>2, <1>3, <1>5, <1>7, <1>8, <1>9, <1>10, <1>11 DEF AgentsNext

LEMMA InitStaffed == AgentsInit => AgeInv /\ StaffInv
<1> SUFFICES ASSUME AgentsInit PROVE AgeInv /\ StaffInv
  OBVIOUS
<1>1. /\ canon.active = InitialRuntime /\ canon.candidate = NoRt /\ canon.previous = NoRt
      /\ canon.nextGen = IF StartGame = NoGame THEN 1 ELSE 2
  BY DEF AgentsInit, Init
<1>2. \A g : Claimants(g, receipts) = {}
  BY DEF AgentsInit, Init, NoReceipt, Claimants, DatedStatuses
<1>3. \A d \in Driver : proc[d].pc = "off" BY DEF AgentsInit, Init, Off
<1>4. AgeInv BY <1>1, <1>2, <1>3 DEF AgeInv, Taken, Apart, Minding, CandidatePcs
<1>5. live = {InitialRuntime} \ {NoRt} BY DEF AgentsInit, Init
<1>6. \A a \in agents : a.rt \in live BY DEF AgentsInit, Agent
<1>7. \A rt \in live : rt \in Staffed
  <2>1. \A rt \in live : Agent(rt) \in agents /\ Agent(rt).rt = rt BY DEF AgentsInit, Agent
  <2> QED BY <2>1 DEF Staffed
<1>8. \A rt \in live : rt.gen \in Nat /\ rt.gen < canon.nextGen
  BY <1>1, <1>5 DEF InitialRuntime
<1>9. StaffInv
  BY <1>1, <1>2, <1>3, <1>5, <1>6, <1>7, <1>8
  DEF StaffInv, AirStaffed, CommitStaffed, CandidatesWait, StaleWait, AgentsOfRuntimes
<1> QED BY <1>4, <1>9

(* The game of a document that is ready has an agent, or had one that died *)
(* of itself (game_switch.py starts it before the commit and restarts it   *)
(* on a restore, fence.py ends one whose runtime is in no slot): after any *)
(* number of switches, restores, recoveries and crashes, provided that a   *)
(* restore's generation is fresh, as game_switch.py says it is.            *)
THEOREM OnAirIsPlayed == AgentsSpec /\ []RestoresFresh => []AgentReady
<1>1. AgentsInit => FenceInv /\ AgeInv /\ StaffInv
  BY InitStaffed DEF AgentsInit, Agent, FenceInv, Shaped, ActsOnAir, Acting
<1>2. CommitInv /\ RestoresFresh /\ FenceInv /\ AgeInv /\ StaffInv /\ [AgentsNext]_allvars
        => FenceInv' /\ AgeInv' /\ StaffInv'
  BY FenceKept, AgeKept, StaffKept DEF FenceInv
<1>3. CommitInv /\ StaffInv => AgentReady
  BY DEF CommitInv, RunInv, Running, Occupied, StaffInv, AirStaffed, PlayedPhases, AgentReady, Staffed
<1> QED BY <1>1, <1>2, <1>3, AlwaysComposed, PTL DEF AgentsSpec
=============================================================================
