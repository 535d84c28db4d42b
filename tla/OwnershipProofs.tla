--------------------------- MODULE OwnershipProofs --------------------------
(***************************************************************************)
(* Who owns the canonical document, and what a driver that holds the lock  *)
(* may rely on at each of its program counters.                            *)
(***************************************************************************)
EXTENDS GameSwitchProofs, FiniteSetTheorems

NotStop(r) == OpOf[r] # "stop"
NoSpare(c) == c.candidate = NoRt /\ c.previous = NoRt

(* The shape of the canonical document: what its slots, its owner and its  *)
(* last result say of one another in each phase.                           *)
CanonShape(c) ==
  /\ c.phase \notin {"committing", "recovery_required"}
  /\ OwnerMatchesPhase(c)
  /\ c.phase = "idle" => c.active = NoRt
  /\ c.phase \in {"idle", "ready", "validating", "preparing", "draining", "stopping"} => NoSpare(c)
  /\ c.active # NoRt => NoSpare(c)
  /\ c.phase = "quiescing" => c.candidate = NoRt
  /\ c.req # NoReq /\ OpOf[c.req] = "stop" =>
       /\ NoSpare(c)
       /\ c.phase \in {"validating", "draining", "quiescing", "stopping", "failed"}
  /\ c.phase = "failed" =>
       /\ c.req # NoReq => OpOf[c.req] = "stop"
       /\ c.previous # NoRt => c.last.req # NoReq /\ NotStop(c.last.req)
       /\ c.last.st = "failed"

ClaimedPcs == {"allocated", "claim", "replay", "overdue", "run"}
SwitchPcs  == {"prepare", "stopOld", "quiesced", "materialize", "materialized", "probe", "commit"}
RestorePcs == {"restartAgent", "restart", "publish", "lost"}
StopPcs    == {"stopAgent", "stopGame"}
OwnerPcs   == ClaimedPcs \cup SwitchPcs \cup RestorePcs \cup StopPcs \cup {"retain", "undo"}

(* What the holder of the lock, with local state p, knows of the document. *)
Holding(p, c) ==
  /\ p.pc = "accept" => c.phase \notin {"draining", "failed"}
  /\ p.pc = "alloc" => c.phase \in StablePhases
  /\ p.pc \in ClaimedPcs => c.phase = "validating"
  /\ p.pc = "prepare" => c.phase = "preparing" /\ p.old = c.active
  /\ p.pc = "stopOld" => c.phase = "quiescing" /\ c.active = NoRt /\ p.old = c.previous
  /\ p.pc = "quiesced" => c.phase = "quiescing" /\ c.active = NoRt
  /\ p.pc \in {"materialize", "materialized"} => c.phase = "starting"
  /\ p.pc \in {"probe", "commit"} => c.phase = "probing"
  /\ p.pc = "retain" => c.phase = "draining" /\ p.old = c.active
  /\ p.pc = "stopAgent" => c.phase = "quiescing"
  /\ p.pc = "stopGame" => c.phase = "stopping"
  /\ p.pc \in RestorePcs \cup {"undo"} => c.phase = "rolling_back"
  /\ p.pc \in OwnerPcs => c.req = p.req
  /\ p.pc \in SwitchPcs \cup RestorePcs \cup {"undo", "restore", "abandon"} => NotStop(p.req)
  /\ p.pc \in StopPcs => ~NotStop(p.req)
  /\ p.pc \in {"restore", "restartAgent"} => c.active = NoRt /\ c.candidate = NoRt
  /\ p.pc \in RestorePcs \cup {"restore", "abandon"} => c.previous # NoRt
  /\ p.pc \in {"restore", "abandon"} =>
       \/ c.phase = "rolling_back" /\ c.req = p.req
       \/ c.phase = "failed" /\ p.restoring /\ p.req = c.last.req
  /\ p.pc \in {"resolve", "retryFailed"} => c.phase = "failed" /\ c.candidate = NoRt
  /\ p.pc \in {"finish", "finishLeave", "finalize"} => c.req = NoReq
  /\ p.pc = "retireDead" => c.phase = "idle"
  /\ p.pc \in {"finishRedo", "finalizeReady", "reconcile"} => c.phase = "ready"

(* A driver that waits for a boundary waits for its own request's.         *)
Awaiting(p) == p.pc \in {"await", "cancel"} => p.drain = p.req /\ p.req \in Req

Ownership == /\ CanonShape(canon)
             /\ \A d \in Driver : /\ lock = d => Holding(proc[d], canon)
                                  /\ Awaiting(proc[d])

-----------------------------------------------------------------------------
(* The fields of what a step writes                                        *)

Others(d) == \A e \in Driver \ {d} : proc'[e] = proc[e]

LEMMA BecomeFields ==
  ASSUME Control, NEW d \in Driver, NEW p, proc' = [proc EXCEPT ![d] = p]
  PROVE  proc'[d] = p /\ Others(d)
BY DEF Control, Others

LEMMA GotoFields ==
  ASSUME Control, NEW d \in Driver, NEW pc, Goto(d, pc)
  PROVE  /\ Others(d) /\ lock' = lock
         /\ proc'[d].pc = pc /\ proc'[d].mode = proc[d].mode /\ proc'[d].req = proc[d].req
         /\ proc'[d].goal = proc[d].goal /\ proc'[d].drain = proc[d].drain
         /\ proc'[d].old = proc[d].old /\ proc'[d].res = proc[d].res
         /\ proc'[d].restoring = proc[d].restoring
BY BecomeFields DEF Control, Procs, Goto, Others

(* The same, where the lock is taken, released or not held.                *)
LEMMA MoveFields ==
  ASSUME Control, NEW d \in Driver, NEW pc, proc' = [proc EXCEPT ![d] = [proc[d] EXCEPT !.pc = pc]]
  PROVE  /\ Others(d) /\ proc'[d].pc = pc /\ proc'[d].req = proc[d].req
         /\ proc'[d].old = proc[d].old /\ proc'[d].drain = proc[d].drain
         /\ proc'[d].mode = proc[d].mode
BY DEF Control, Procs, Others

LEMMA LeaveFields ==
  ASSUME Control, NEW d \in Driver, Leave(d)
  PROVE  Others(d) /\ lock' = NoDriver /\ proc'[d] = Off
BY BecomeFields DEF Leave

LEMMA FinishAsFields ==
  ASSUME Control, NEW d \in Driver, NEW pc, NEW st, FinishAs(d, pc, st)
  PROVE  /\ Others(d) /\ lock' = lock
         /\ proc'[d].pc = pc /\ proc'[d].req = proc[d].req /\ proc'[d].res = st
<1>1. proc'[d] = [proc[d] EXCEPT !.pc = pc, !.res = st] /\ Others(d) /\ lock' = lock
  BY BecomeFields DEF FinishAs, Become
<1> QED BY <1>1, ProcFields DEF Procs

LEMMA WaitAtFields ==
  ASSUME Control, NEW d \in Driver, NEW p \in Procs, NEW pc, WaitAt(d, p, pc)
  PROVE  /\ Others(d) /\ lock' = NoDriver
         /\ proc'[d].pc = pc /\ proc'[d].req = p.req /\ proc'[d].mode = p.mode
         /\ proc'[d].drain = canon'.req /\ proc'[d].old = canon'.active
<1>1. /\ proc'[d] = [p EXCEPT !.pc = pc, !.drain = canon'.req, !.old = canon'.active]
      /\ Others(d) /\ lock' = NoDriver
  BY BecomeFields DEF WaitAt, Release
<1> QED BY <1>1 DEF Procs

LEMMA TransitionFields ==
  ASSUME Data, NEW ph, Transition(ph)
  PROVE  /\ canon'.phase = ph /\ canon'.req = canon.req /\ canon'.nextGen = canon.nextGen
         /\ canon'.active = canon.active /\ canon'.candidate = canon.candidate
         /\ canon'.previous = canon.previous /\ canon'.retiring = canon.retiring
         /\ canon'.expired = canon.expired /\ canon'.last = canon.last
BY DEF Data, Canonical, Transition

LEMMA SettleFields ==
  ASSUME Data, NEW ph, NEW act, NEW prev, NEW ret, NEW lst, Settle(ph, act, prev, ret, lst)
  PROVE  /\ canon'.phase = ph /\ canon'.req = NoReq /\ canon'.nextGen = canon.nextGen
         /\ canon'.active = act /\ canon'.candidate = NoRt /\ canon'.previous = prev
         /\ canon'.retiring = ret /\ canon'.expired = FALSE /\ canon'.last = lst
BY DEF Data, Canonical, Settle

-----------------------------------------------------------------------------
(* How a step preserves Ownership                                          *)

(* A step of the driver that holds the lock, takes it, or finds it free.   *)
Keeps(d) == /\ lock \in {d, NoDriver} /\ lock' \in {d, NoDriver} /\ Others(d)
            /\ CanonShape(canon')
            /\ lock' = d => Holding(proc'[d], canon')
            /\ Awaiting(proc'[d])

LEMMA KeepsOwnership ==
  ASSUME Ownership, NEW d \in Driver, Keeps(d)
  PROVE  Ownership'
<1>1. ASSUME NEW e \in Driver
      PROVE  (lock' = e => Holding(proc'[e], canon')) /\ Awaiting(proc'[e])
  <2>1. CASE e = d BY <2>1 DEF Keeps
  <2>2. CASE e # d BY <2>2, DriverAssumption DEF Keeps, Others, Ownership
  <2> QED BY <2>1, <2>2
<1> QED BY <1>1 DEF Keeps, Ownership

LEMMA RollBackKeeps ==
  ASSUME TypeInv, Ownership, NEW d \in Driver, lock = d, RollBack(d),
         proc[d].pc \in SwitchPcs \cup {"run"}, NotStop(proc[d].req)
  PROVE  Keeps(d)
<1> USE DEF CanonShape, OwnerMatchesPhase, NoSpare, NotStop, InProgressPhases, StablePhases, Phases,
            Holding, OwnerPcs, SwitchPcs, RestorePcs, StopPcs, ClaimedPcs
<1>1. canon.req # NoReq /\ canon.req = proc[d].req BY DEF Ownership
<1> QED
  BY <1>1, GotoFields, TransitionFields DEF TypeInv, RollBack, Keeps, Ownership, Awaiting

LEMMA SwitchOwned ==
  ASSUME TypeInv, Ownership, NEW d \in Driver, SwitchStep(d)
  PROVE  Keeps(d)
<1> USE DEF TypeInv, At, Keeps, Awaiting, CanonShape, OwnerMatchesPhase, NoSpare, NotStop,
            InProgressPhases, StablePhases, Phases,
            Holding, OwnerPcs, SwitchPcs, RestorePcs, StopPcs, ClaimedPcs
<1> DEFINE r == proc[d].req
<1>0. CanonShape(canon) /\ (lock = d => Holding(proc[d], canon)) BY DEF Ownership
<1>1. CASE RunSwitch(d)
  <2>1. /\ proc'[d] = [proc[d] EXCEPT !.pc = "prepare", !.old = canon.active]
        /\ Others(d) /\ lock' = lock
    BY <1>1, BecomeFields DEF RunSwitch, Become
  <2>2. proc'[d].pc = "prepare" /\ proc'[d].req = r /\ proc'[d].old = canon.active
    BY <2>1, ProcFields DEF Procs
  <2>3. /\ canon'.phase = "preparing" /\ canon'.req = canon.req /\ canon'.active = canon.active
        /\ canon'.candidate = canon.candidate /\ canon'.previous = canon.previous
    BY <1>1 DEF RunSwitch, Data, Canonical
  <2> QED BY <1>0, <1>1, <2>1, <2>2, <2>3 DEF RunSwitch
<1>2. CASE Quiesce(d)
  BY <1>0, <1>2, GotoFields DEF Quiesce, Data, Canonical
<1>3. CASE Drain(d)
  <2>1. r \in Req BY <1>0, <1>3, ProcFields DEF Drain
  <2> QED BY <1>0, <1>3, <2>1, TransitionFields, WaitAtFields, ProcFields DEF Drain
<1>4. CASE DrainUnsupported(d)
  BY <1>0, <1>4, GotoFields, TransitionFields DEF DrainUnsupported
<1>5. CASE StopOld(d)
  <2>1. CASE Goto(d, "quiesced") /\ UNCHANGED canon
    BY <1>0, <1>5, <2>1, GotoFields DEF StopOld
  <2>2. CASE RollBack(d) BY <1>0, <1>5, <2>2, RollBackKeeps DEF StopOld
  <2> QED BY <1>5, <2>1, <2>2 DEF StopOld
<1>6. CASE Starting(d)
  <2>1. CASE Leave(d) /\ UNCHANGED canon
    BY <1>0, <1>6, <2>1, LeaveFields DEF Starting, Off
  <2>2. CASE /\ canon' = [canon EXCEPT !.phase = "starting", !.candidate = Candidate(d)]
             /\ Goto(d, "materialize") /\ GenerationFree(Candidate(d).gen)
    <3>1. /\ canon'.phase = "starting" /\ canon'.req = canon.req /\ canon'.active = canon.active
          /\ canon'.previous = canon.previous
      BY <2>2 DEF Data, Canonical
    <3> QED BY <1>0, <1>6, <2>2, <3>1, GotoFields DEF Starting
  <2> QED BY <1>6, <2>1, <2>2 DEF Starting
<1>7. CASE Materialize(d)
  <2>1. CASE Goto(d, "materialized") /\ UNCHANGED canon
    BY <1>0, <1>7, <2>1, GotoFields DEF Materialize
  <2>2. CASE RollBack(d) BY <1>0, <1>7, <2>2, RollBackKeeps DEF Materialize
  <2> QED BY <1>7, <2>1, <2>2 DEF Materialize
<1>8. CASE Probing(d)
  BY <1>0, <1>8, GotoFields, TransitionFields DEF Probing
<1>9. CASE Probe(d)
  BY <1>0, <1>9, GotoFields DEF Probe, Disk
<1>10. CASE ProbeFindsNothing(d)
  BY <1>0, <1>10, RollBackKeeps DEF ProbeFindsNothing
<1>11. CASE Commit(d)
  <2>1. PICK ret, lst : Settle("ready", canon.candidate, NoRt, ret, lst)
    BY <1>11 DEF Commit
  <2>2. /\ canon'.phase = "ready" /\ canon'.req = NoReq /\ canon'.candidate = NoRt
        /\ canon'.previous = NoRt
    BY <2>1, SettleFields
  <2> QED BY <1>0, <1>11, <2>2, FinishAsFields DEF Commit
<1>12. CASE SwitchFails(d)
  BY <1>0, <1>12, RollBackKeeps DEF SwitchFails, StepFails
<1> QED BY <1>1, <1>2, <1>3, <1>4, <1>5, <1>6, <1>7, <1>8, <1>9, <1>10, <1>11, <1>12
        DEF SwitchStep

(* A step of the holder that leaves the document alone, and whose next     *)
(* program counter asks nothing of it, or gives up the lock.               *)
FreePcs == {"dispatch", "enqueue", "recover"}

LEMMA FreeKeeps ==
  ASSUME Ownership, NEW d \in Driver, lock \in {d, NoDriver}, Others(d), UNCHANGED canon,
         \/ lock' = d /\ proc'[d].pc \in FreePcs
         \/ lock' = NoDriver /\ Awaiting(proc'[d])
  PROVE  Keeps(d)
BY DriverAssumption
DEF Ownership, Keeps, Awaiting, Holding, FreePcs, OwnerPcs, SwitchPcs, RestorePcs, StopPcs, ClaimedPcs

LEMMA OffAwaits == ~(Off.pc \in {"await", "cancel"}) /\ Awaiting(Off)
BY DEF Off, Awaiting

LEMMA LeaveKeeps ==
  ASSUME TypeInv, Ownership, NEW d \in Driver, lock = d, Leave(d), CanonShape(canon')
  PROVE  Keeps(d)
BY LeaveFields, OffAwaits, DriverAssumption DEF TypeInv, Keeps

LEMMA DispatchOwned ==
  ASSUME TypeInv, Ownership, NEW d \in Driver, DispatchStep(d)
  PROVE  Keeps(d)
<1> USE DEF TypeInv, At
<1>0. CanonShape(canon) BY DEF Ownership
<1>1. CASE DispatchRefused(d) \/ DispatchUnqueueable(d) \/ DispatchDone(d)
  BY <1>0, <1>1, LeaveKeeps DEF DispatchRefused, DispatchUnqueueable, DispatchDone, Disk
<1>2. CASE DispatchEnqueue(d)
  BY <1>2, GotoFields, FreeKeeps DEF DispatchEnqueue, FreePcs
<1>3. CASE Enqueue(d)
  <2>1. CanonShape(canon')
    BY <1>0, <1>3 DEF Enqueue, Data, Canonical, CanonShape, OwnerMatchesPhase, NoSpare, NotStop
  <2>2. CASE Leave(d) BY <1>3, <2>1, <2>2, LeaveKeeps DEF Enqueue
  <2>3. CASE WaitAt(d, proc[d], "expire")
    BY <1>3, <2>1, <2>3, WaitAtFields, ProcFields, DriverAssumption DEF Enqueue, Keeps, Awaiting
  <2> QED BY <1>3, <2>2, <2>3 DEF Enqueue
<1>4. CASE DispatchExpired(d)
  BY <1>4, WaitAtFields, ProcFields, FreeKeeps DEF DispatchExpired, Awaiting, Disk
<1>5. CASE DispatchAccept(d)
  <2>1. PICK g : Become(d, [proc[d] EXCEPT !.pc = "accept", !.goal = g])
    BY <1>5 DEF DispatchAccept
  <2>2. proc'[d] = [proc[d] EXCEPT !.pc = "accept", !.goal = g] /\ Others(d) /\ lock' = lock
    BY <2>1, BecomeFields DEF Become
  <2>3. proc'[d].pc = "accept" BY <2>2, ProcFields DEF Procs
  <2> QED
    BY <1>0, <1>5, <2>2, <2>3
    DEF DispatchAccept, NeedsRecovery, Disk, Keeps, Awaiting, Holding, OwnerPcs, SwitchPcs,
        RestorePcs, StopPcs, ClaimedPcs
<1> QED BY <1>1, <1>2, <1>3, <1>4, <1>5 DEF DispatchStep

(* The owner of the canonical document has a receipt.                      *)
Owned == canon.req # NoReq => receipts[canon.req].st # "none"

LEMMA AcceptOwned ==
  ASSUME TypeInv, Ownership, Owned, NEW d \in Driver, AcceptStep(d)
  PROVE  Keeps(d)
<1> USE DEF TypeInv, At, Keeps, Awaiting, CanonShape, OwnerMatchesPhase, NoSpare, NotStop,
            InProgressPhases, StablePhases, Phases,
            Holding, OwnerPcs, SwitchPcs, RestorePcs, StopPcs, ClaimedPcs
<1>0. CanonShape(canon) /\ (lock = d => Holding(proc[d], canon)) BY DEF Ownership
<1> DEFINE r == proc[d].req
<1>r. Asked(proc[d]) => r \in Req BY DEF Control
<1>1. CASE AcceptRefused(d)
  BY <1>0, <1>1, LeaveKeeps DEF AcceptRefused, Disk
<1>2. CASE AcceptBump(d)
  BY <1>0, <1>2 DEF AcceptBump, Others, Data, Canonical
<1>3. CASE AcceptFresh(d)
  <2>1. CASE Leave(d) BY <1>0, <1>3, <2>1, LeaveKeeps DEF AcceptFresh
  <2>2. CASE Goto(d, "alloc")
    <3>1. canon.req = NoReq BY <1>3 DEF AcceptFresh, Claimable, Owned
    <3> QED BY <1>0, <1>3, <2>2, <3>1, CanonFields, GotoFields DEF AcceptFresh
  <2> QED BY <1>3, <2>1, <2>2 DEF AcceptFresh
<1>4. CASE Alloc(d)
  <2>1. r \in Req BY <1>r, <1>4 DEF Alloc, Asked, AskedPcs
  <2>2. /\ canon'.phase = "validating" /\ canon'.req = r /\ canon'.active = canon.active
        /\ canon'.candidate = canon.candidate /\ canon'.previous = canon.previous
    BY <1>4 DEF Alloc, Data, Canonical
  <2>3. canon.phase \in StablePhases BY <1>0, <1>4 DEF Alloc
  <2> QED BY <1>0, <1>4, <2>3, <2>1, <2>2, GotoFields, ReqAssumption DEF Alloc
<1>5. CASE AcceptClaim(d)
  <2>1. CASE canon' = [canon EXCEPT !.phase = "validating", !.req = r] /\ Goto(d, "claim")
    <3>1. r \in Req BY <1>r, <1>5 DEF AcceptClaim, Asked, AskedPcs
    <3>2. /\ canon'.phase = "validating" /\ canon'.req = r /\ canon'.active = canon.active
          /\ canon'.candidate = canon.candidate /\ canon'.previous = canon.previous
      BY <2>1 DEF Data, Canonical
    <3>3. canon.phase \in StablePhases BY <1>0, <1>5, CanonFields DEF AcceptClaim
    <3> QED BY <1>0, <1>5, <2>1, <3>1, <3>2, <3>3, GotoFields, ReqAssumption DEF AcceptClaim
  <2>2. CASE Leave(d) /\ UNCHANGED canon
    BY <1>0, <1>5, <2>2, LeaveKeeps DEF AcceptClaim
  <2> QED BY <1>5, <2>1, <2>2 DEF AcceptClaim
<1>6. CASE AcceptAllocating(d)
  <2>1. r \in Req BY <1>r, <1>6 DEF AcceptAllocating, Asked, AskedPcs
  <2>2. /\ canon'.phase = "validating" /\ canon'.req = r /\ canon'.active = canon.active
        /\ canon'.candidate = canon.candidate /\ canon'.previous = canon.previous
    BY <1>6 DEF AcceptAllocating, Data, Canonical
  <2> QED BY <1>0, <1>6, <2>1, <2>2, GotoFields, ReqAssumption DEF AcceptAllocating
<1>7. CASE MarkAccepted(d)
  BY <1>0, <1>7, GotoFields DEF MarkAccepted
<1>8. CASE Overdue(d)
  <2>1. PICK ph, act, prev, ret, lst :
          /\ ph \in StablePhases /\ Settle(ph, act, prev, ret, lst)
          /\ ph = IF canon.active = NoRt THEN "idle" ELSE "ready"
          /\ act = canon.active /\ prev = canon.previous
    BY <1>8 DEF Overdue
  <2>2. /\ canon'.phase = ph /\ canon'.req = NoReq /\ canon'.candidate = NoRt
        /\ canon'.previous = canon.previous /\ canon'.active = canon.active
    BY <2>1, SettleFields
  <2> QED BY <1>0, <1>8, <2>1, <2>2, FinishAsFields DEF Overdue
<1>9. CASE AcceptReplay(d)
  BY <1>9, GotoFields, FreeKeeps DEF AcceptReplay, Disk, FreePcs
<1>10. CASE AcceptOrphan(d)
  <2>1. CASE Goto(d, "finalize")
    BY <1>0, <1>10, <2>1, GotoFields DEF AcceptOrphan, Orphaned
  <2>2. CASE UNCHANGED <<lock, proc>>
    BY <1>0, <1>10, <2>2 DEF AcceptOrphan, Others
  <2> QED BY <1>10, <2>1, <2>2 DEF AcceptOrphan
<1> QED BY <1>1, <1>2, <1>3, <1>4, <1>5, <1>6, <1>7, <1>8, <1>9, <1>10 DEF AcceptStep

(* A driver that is not the holder, or that dies: its step changes neither *)
(* a file nor the world.                                                   *)
Bystands(d) == /\ UNCHANGED <<Disk, World>> /\ Others(d) /\ Awaiting(proc'[d])
               /\ lock' \in {lock, NoDriver} /\ (lock = d => lock' = NoDriver)

LEMMA BystandsOwnership ==
  ASSUME Ownership, NEW d \in Driver, Bystands(d)
  PROVE  Ownership'
<1>1. ASSUME NEW e \in Driver
      PROVE  (lock' = e => Holding(proc'[e], canon')) /\ Awaiting(proc'[e])
  <2>1. CASE e = d BY <2>1, DriverAssumption DEF Bystands
  <2>2. CASE e # d BY <2>2, DriverAssumption DEF Bystands, Disk, Others, Ownership
  <2> QED BY <2>1, <2>2
<1> QED BY <1>1 DEF Bystands, Disk, Ownership

LEMMA BoundaryOwned ==
  ASSUME TypeInv, Ownership, NEW d \in Driver, BoundaryStep(d)
  PROVE  Keeps(d) \/ Bystands(d)
<1> USE DEF TypeInv, At, Awaiting, CanonShape, OwnerMatchesPhase, NoSpare, NotStop,
            InProgressPhases, StablePhases, Phases,
            Holding, OwnerPcs, SwitchPcs, RestorePcs, StopPcs, ClaimedPcs
<1>0. CanonShape(canon) /\ (lock = d => Holding(proc[d], canon)) BY DEF Ownership
<1>a. Awaiting(proc[d]) BY DEF Ownership
<1>w. proc[d].pc \in WaitingPcs => lock # d BY DEF Control, WaitingPcs, LockedPcs
<1>1. CASE BoundaryReached(d)
  <2> DEFINE stop == OpOf[proc[d].req] = "stop"
             pc == IF stop THEN "stopAgent" ELSE "stopOld"
  <2>0. Acquire(d, [proc[d] EXCEPT !.pc = pc]) BY <1>1 DEF BoundaryReached
  <2> HIDE DEF pc
  <2>1. proc'[d] = [proc[d] EXCEPT !.pc = pc] /\ Others(d) /\ lock = NoDriver /\ lock' = d
    BY <2>0, BecomeFields DEF Acquire
  <2>2. proc'[d].pc = pc /\ proc'[d].req = proc[d].req /\ proc'[d].old = proc[d].old
    BY <2>1, ProcFields DEF Procs
  <2>3. /\ canon'.phase = "quiescing" /\ canon'.req = canon.req
        /\ canon'.active = (IF stop THEN canon.active ELSE NoRt)
        /\ canon'.candidate = canon.candidate
        /\ canon'.previous = (IF stop THEN NoRt ELSE canon.active)
    BY <1>1 DEF BoundaryReached, SameDrain, Data, Canonical
  <2>4. canon.phase = "draining" /\ canon.req = proc[d].req /\ canon.active = proc[d].old
    BY <1>1, <1>a DEF BoundaryReached, SameDrain
  <2> QED BY <1>0, <2>1, <2>2, <2>3, <2>4 DEF Keeps, pc
<1>2. CASE BoundaryFailed(d)
  <2>1. proc'[d] = [proc[d] EXCEPT !.pc = "cancel"] /\ Others(d)
    BY <1>2, BecomeFields DEF BoundaryFailed
  <2>2. proc'[d].pc = "cancel" /\ proc'[d].drain = proc[d].drain /\ proc'[d].req = proc[d].req
    BY <2>1, ProcFields DEF Procs
  <2> QED
    BY <1>2, <1>a, <2>1, <2>2, DriverAssumption DEF BoundaryFailed, Bystands, Disk
<1>3. CASE WaitLost(d) \/ ExpireRefused(d)
  <2>1. proc'[d] = Off /\ Others(d)
    BY <1>3, BecomeFields DEF WaitLost, ExpireRefused
  <2>2. proc[d].pc \in WaitingPcs BY <1>3 DEF WaitLost, ExpireRefused, WaitingPcs
  <2> QED
    BY <1>3, <1>w, <2>1, <2>2, OffAwaits DEF WaitLost, ExpireRefused, Bystands, Disk
<1>4. CASE Cancelled(d)
  <2>1. /\ proc'[d] = [proc[d] EXCEPT !.pc = "retain"]
        /\ Others(d) /\ lock = NoDriver /\ lock' = d
    BY <1>4, BecomeFields DEF Cancelled, Acquire
  <2>2. proc'[d].pc = "retain" /\ proc'[d].req = proc[d].req /\ proc'[d].old = proc[d].old
    BY <2>1, ProcFields DEF Procs
  <2>3. canon.phase = "draining" /\ canon.req = proc[d].req /\ canon.active = proc[d].old
    BY <1>4, <1>a DEF Cancelled, SameDrain
  <2> QED BY <1>0, <1>4, <2>1, <2>2, <2>3 DEF Cancelled, Disk, Keeps
<1>5. CASE CancelRefused(d)
  <2>1. proc'[d] = Off /\ Others(d)
    BY <1>5, BecomeFields DEF CancelRefused
  <2>2. CanonShape(canon')
    BY <1>0, <1>5 DEF CancelRefused, SameDrain, Data, Canonical
  <2> QED
    BY <1>5, <2>1, <2>2, OffAwaits, DriverAssumption DEF CancelRefused, Keeps
<1>6. CASE Retain(d)
  <2>1. PICK ret, lst : Settle("ready", proc[d].old, NoRt, ret, lst) BY <1>6 DEF Retain
  <2>2. /\ canon'.phase = "ready" /\ canon'.req = NoReq /\ canon'.active = proc[d].old
        /\ canon'.candidate = NoRt /\ canon'.previous = NoRt
    BY <2>1, SettleFields
  <2> QED BY <1>0, <1>6, <2>2, FinishAsFields DEF Retain, Keeps
<1>7. CASE RetireDead(d)
  <2>1. PICK ret, lst : Settle("idle", NoRt, NoRt, ret, lst) BY <1>7 DEF RetireDead
  <2>2. /\ canon'.phase = "idle" /\ canon'.req = NoReq /\ canon'.active = NoRt
        /\ canon'.candidate = NoRt /\ canon'.previous = NoRt
    BY <2>1, SettleFields
  <2> QED BY <1>0, <1>7, <2>2, GotoFields DEF RetireDead, Keeps
<1>8. CASE CollectDead(d)
  <2>2. /\ canon'.phase = canon.phase /\ canon'.req = canon.req /\ canon'.active = canon.active
        /\ canon'.candidate = canon.candidate /\ canon'.previous = canon.previous
    BY <1>8 DEF CollectDead, Data, Canonical
  <2> QED BY <1>0, <1>8, <2>2, FinishAsFields DEF CollectDead, Keeps
<1>9. CASE ExpireDrain(d)
  <2>1. PICK ret, lst : Settle("ready", proc[d].old, NoRt, ret, lst) BY <1>9 DEF ExpireDrain
  <2>2. /\ proc'[d] = [proc[d] EXCEPT !.pc = "finishRedo"]
        /\ Others(d) /\ lock = NoDriver /\ lock' = d
    BY <1>9, BecomeFields DEF ExpireDrain, Acquire
  <2>3. proc'[d].pc = "finishRedo" BY <2>2, ProcFields DEF Procs
  <2>4. /\ canon'.phase = "ready" /\ canon'.req = NoReq /\ canon'.active = proc[d].old
        /\ canon'.candidate = NoRt /\ canon'.previous = NoRt
    BY <2>1, SettleFields
  <2> QED BY <1>0, <2>2, <2>3, <2>4 DEF Keeps
<1>10. CASE ExpireOvertaken(d)
  <2>1. /\ proc'[d] = [proc[d] EXCEPT !.pc = "dispatch", !.drain = NoReq, !.old = NoRt]
        /\ Others(d) /\ lock = NoDriver /\ lock' = d
    BY <1>10, BecomeFields DEF ExpireOvertaken, Acquire
  <2>2. proc'[d].pc = "dispatch" BY <2>1, ProcFields DEF Procs
  <2> QED
    BY <1>10, <2>1, <2>2, FreeKeeps DEF ExpireOvertaken, Disk, FreePcs
<1> QED BY <1>1, <1>2, <1>3, <1>4, <1>5, <1>6, <1>7, <1>8, <1>9, <1>10 DEF BoundaryStep

LEMMA StopOwned ==
  ASSUME TypeInv, Ownership, NEW d \in Driver, StopStep(d)
  PROVE  Keeps(d)
<1> USE DEF TypeInv, At, Keeps, Awaiting, CanonShape, OwnerMatchesPhase, NoSpare, NotStop,
            InProgressPhases, StablePhases, Phases,
            Holding, OwnerPcs, SwitchPcs, RestorePcs, StopPcs, ClaimedPcs
<1>0. CanonShape(canon) /\ (lock = d => Holding(proc[d], canon)) BY DEF Ownership
<1> DEFINE r == proc[d].req
<1>1. ASSUME FailKeepingActive(d), lock = d, OpOf[r] = "stop", canon.req = r, canon.req # NoReq
      PROVE  Keeps(d)
  <2>1. PICK ret, lst : Settle("failed", canon.active, NoRt, ret, lst) /\ lst.st = "failed"
    BY <1>1 DEF FailKeepingActive, Result
  <2>2. Settle("failed", canon.active, NoRt, ret, lst) BY <2>1
  <2>3. /\ canon'.phase = "failed" /\ canon'.req = NoReq /\ canon'.active = canon.active
        /\ canon'.candidate = NoRt /\ canon'.previous = NoRt /\ canon'.last = lst
    BY <2>2, SettleFields
  <2> QED BY <1>0, <1>1, <2>1, <2>3, FinishAsFields DEF FailKeepingActive
<1>2. CASE RunStop(d)
  <2>1. canon.req # NoReq /\ canon.req = r BY <1>0, <1>2 DEF RunStop
  <2>2. CASE Transition("quiescing") /\ Goto(d, "stopAgent")
    BY <1>0, <1>2, <2>1, <2>2, TransitionFields, GotoFields DEF RunStop
  <2>3. CASE /\ canon' = [canon EXCEPT !.phase = "draining", !.expired = FALSE]
             /\ WaitAt(d, proc[d], "await")
    <3>1. /\ canon'.phase = "draining" /\ canon'.req = canon.req /\ canon'.active = canon.active
          /\ canon'.candidate = canon.candidate /\ canon'.previous = canon.previous
      BY <2>3 DEF Data, Canonical
    <3>2. r \in Req BY <2>1, ProcFields
    <3> QED BY <1>0, <1>2, <2>1, <2>3, <3>1, <3>2, WaitAtFields, ProcFields DEF RunStop
  <2> QED BY <1>1, <1>2, <2>1, <2>2, <2>3 DEF RunStop
<1>3. CASE StopAgent(d)
  <2>1. canon.req # NoReq /\ canon.req = r BY <1>0, <1>3 DEF StopAgent
  <2>2. CASE Transition("stopping") /\ Goto(d, "stopGame")
    BY <1>0, <1>3, <2>1, <2>2, TransitionFields, GotoFields DEF StopAgent
  <2> QED BY <1>0, <1>1, <1>3, <2>1, <2>2 DEF StopAgent
<1>4. CASE StopGame(d)
  <2>1. canon.req # NoReq /\ canon.req = r BY <1>0, <1>4 DEF StopGame
  <2>2. CASE /\ Settle("idle", NoRt, NoRt, canon.retiring, Result(r, "succeeded"))
             /\ FinishAs(d, "finish", "succeeded")
    <3>1. /\ canon'.phase = "idle" /\ canon'.req = NoReq /\ canon'.active = NoRt
          /\ canon'.candidate = NoRt /\ canon'.previous = NoRt
      BY <2>2, SettleFields
    <3> QED BY <1>0, <1>4, <2>2, <3>1, FinishAsFields DEF StopGame
  <2> QED BY <1>0, <1>1, <1>4, <2>1, <2>2 DEF StopGame
<1> QED BY <1>2, <1>3, <1>4 DEF StopStep

LEMMA DiscardFields ==
  ASSUME Data, DiscardCandidate
  PROVE  /\ canon'.phase = canon.phase /\ canon'.req = canon.req /\ canon'.nextGen = canon.nextGen
         /\ canon'.active = canon.active /\ canon'.candidate = NoRt
         /\ canon'.previous = canon.previous /\ canon'.last = canon.last
         /\ canon'.retiring \in {canon.retiring,
                                 canon.retiring \cup {Retiree(canon.candidate, NoReq)}}
BY DEF Data, Canonical, DiscardCandidate

LEMMA RecoverFailedFields ==
  ASSUME Data
  PROVE  /\ RecoverFailed.phase = "failed" /\ RecoverFailed.req = canon.req
         /\ RecoverFailed.nextGen = canon.nextGen /\ RecoverFailed.active = canon.active
         /\ RecoverFailed.candidate = canon.candidate
         /\ RecoverFailed.previous = canon.previous
         /\ RecoverFailed.retiring = canon.retiring
         /\ RecoverFailed.last.req = (IF canon.req # NoReq THEN canon.req ELSE canon.last.req)
         /\ RecoverFailed.last.st = "failed" /\ RecoverFailed.last.src = FALSE
BY DEF Data, Canonical, RecoverFailed, Result

(* A restored game is published: the document settles as ready.            *)
LEMMA PublishKeeps ==
  ASSUME TypeInv, Ownership, NEW d \in Driver, NEW rt, lock = d, PublishRestored(d, rt)
  PROVE  Keeps(d)
<1>1. PICK ret, lst : Settle("ready", rt, NoRt, ret, lst) BY DEF PublishRestored
<1>2. /\ canon'.phase = "ready" /\ canon'.req = NoReq
      /\ canon'.candidate = NoRt /\ canon'.previous = NoRt
  BY <1>1, SettleFields DEF TypeInv
<1>3. PICK pc \in {"finalizeReady", "finish"} : FinishAs(d, pc, "rolled_back")
  BY DEF PublishRestored
<1>4. proc'[d].pc \in {"finalizeReady", "finish"} /\ Others(d) /\ lock' = lock
  BY <1>3, FinishAsFields DEF TypeInv
<1> QED
  BY <1>2, <1>4
  DEF Keeps, Awaiting, CanonShape, OwnerMatchesPhase, NoSpare, InProgressPhases, StablePhases,
      Holding, OwnerPcs, SwitchPcs, RestorePcs, StopPcs, ClaimedPcs

LEMMA RestoreOwned ==
  ASSUME TypeInv, Ownership, NEW d \in Driver, RestoreStep(d)
  PROVE  Keeps(d)
<1> USE DEF TypeInv, At, Keeps, Awaiting, CanonShape, OwnerMatchesPhase, NoSpare, NotStop,
            InProgressPhases, StablePhases, Phases,
            Holding, OwnerPcs, SwitchPcs, RestorePcs, StopPcs, ClaimedPcs
<1>0. CanonShape(canon) /\ (lock = d => Holding(proc[d], canon)) BY DEF Ownership
<1> DEFINE r == proc[d].req
<1>1. CASE UndoCandidate(d)
  <2>1. Others(d) BY <1>1 DEF UndoCandidate, Others
  <2> QED BY <1>0, <1>1, <2>1, DiscardFields DEF UndoCandidate
<1>2. CASE PickPrevious(d)
  <2>1. /\ canon'.phase = canon.phase /\ canon'.req = canon.req /\ canon'.active = NoRt
        /\ canon'.candidate = canon.candidate /\ canon'.previous # NoRt
    BY <1>0, <1>2 DEF PickPrevious, Data, Canonical
  <2> QED BY <1>0, <1>2, <2>1, GotoFields DEF PickPrevious
<1>3. CASE NothingToRestore(d)
  <2>1. PICK ret, lst : Settle("failed", NoRt, NoRt, ret, lst) /\ lst.st = "failed"
    BY <1>3 DEF NothingToRestore, Result
  <2>2. Settle("failed", NoRt, NoRt, ret, lst) BY <2>1
  <2>3. /\ canon'.phase = "failed" /\ canon'.req = NoReq /\ canon'.active = NoRt
        /\ canon'.candidate = NoRt /\ canon'.previous = NoRt /\ canon'.last = lst
    BY <2>2, SettleFields
  <2> QED BY <1>0, <1>3, <2>1, <2>3, FinishAsFields DEF NothingToRestore
<1>4. CASE RestoreRefused(d)
  BY <1>0, <1>4, GotoFields DEF RestoreRefused, Disk
<1>5. CASE RestoreAlive(d)
  <2>1. /\ canon'.phase = "rolling_back" /\ canon'.req = r /\ canon'.active = canon.active
        /\ canon'.candidate = canon.candidate /\ canon'.previous = canon.previous
    BY <1>5 DEF RestoreAlive, Data, Canonical
  <2>2. r # NoReq BY <1>0, <1>5 DEF RestoreAlive
  <2> QED BY <1>0, <1>5, <2>1, <2>2, GotoFields DEF RestoreAlive
<1>6. CASE RestartAgent(d)
  <2>1. CASE Goto(d, "abandon") /\ UNCHANGED canon
    BY <1>0, <1>6, <2>1, GotoFields DEF RestartAgent
  <2>2. CASE PublishRestored(d, canon.previous)
    BY <1>6, <2>2, PublishKeeps DEF RestartAgent
  <2> QED BY <1>6, <2>1, <2>2 DEF RestartAgent
<1>7. CASE RestoreFresh(d)
  <2>1. /\ canon'.phase = "rolling_back" /\ canon'.req = r /\ canon'.active = canon.active
        /\ canon'.previous = canon.previous
    BY <1>7 DEF RestoreFresh, Data, Canonical
  <2>2. r # NoReq BY <1>0, <1>7 DEF RestoreFresh
  <2> QED BY <1>0, <1>7, <2>1, <2>2, GotoFields DEF RestoreFresh
<1>8. CASE Restart(d)
  BY <1>0, <1>8, GotoFields DEF Restart, Disk
<1>9. CASE Publish(d)
  <2>1. CASE Goto(d, "lost") /\ UNCHANGED canon
    BY <1>0, <1>9, <2>1, GotoFields DEF Publish
  <2>2. CASE PublishRestored(d, canon.candidate)
    BY <1>9, <2>2, PublishKeeps DEF Publish
  <2> QED BY <1>9, <2>1, <2>2 DEF Publish
<1>10. CASE DropRestart(d)
  BY <1>0, <1>10, DiscardFields, GotoFields DEF DropRestart
<1>11. CASE Abandon(d)
  <2>1. /\ canon'.phase = "failed" /\ canon'.req = NoReq /\ canon'.active = NoRt
        /\ canon'.candidate = canon.candidate /\ canon'.previous = canon.previous
        /\ canon'.last = Result(r, "failed")
    BY <1>11 DEF Abandon, Data, Canonical
  <2>2. canon'.last.req = r /\ canon'.last.st = "failed" BY <2>1 DEF Result
  <2>3. r # NoReq /\ NotStop(r) BY <1>0, <1>11 DEF Abandon
  <2> QED BY <1>0, <1>11, <2>1, <2>2, <2>3, FinishAsFields DEF Abandon
<1>12. CASE AbandonRecovery(d)
  <2>1. CanonShape(canon')
    BY <1>0, <1>12, RecoverFailedFields DEF AbandonRecovery
  <2> QED BY <1>12, <2>1, LeaveKeeps DEF AbandonRecovery
<1> QED BY <1>1, <1>2, <1>3, <1>4, <1>5, <1>6, <1>7, <1>8, <1>9, <1>10, <1>11, <1>12
        DEF RestoreStep

LEMMA FinishOwned ==
  ASSUME TypeInv, Ownership, NEW d \in Driver, FinishStep(d)
  PROVE  Keeps(d)
<1> USE DEF TypeInv, At, Keeps, Awaiting, CanonShape, OwnerMatchesPhase, NoSpare, NotStop,
            InProgressPhases, StablePhases, Phases,
            Holding, OwnerPcs, SwitchPcs, RestorePcs, StopPcs, ClaimedPcs
<1>0. CanonShape(canon) /\ (lock = d => Holding(proc[d], canon)) BY DEF Ownership
<1>1. CASE Finish(d)
  <2>1. CASE Leave(d) BY <1>0, <1>1, <2>1, LeaveKeeps DEF Finish, Finishing
  <2>2. CASE proc[d].pc = "finish" /\ Goto(d, "finalize")
    BY <1>0, <1>1, <2>2, GotoFields DEF Finish, Finishing
  <2>3. CASE Become(d, [proc[d] EXCEPT !.pc = "dispatch", !.drain = NoReq, !.old = NoRt])
    <3>1. /\ proc'[d] = [proc[d] EXCEPT !.pc = "dispatch", !.drain = NoReq, !.old = NoRt]
          /\ Others(d) /\ lock' = lock
      BY <2>3, BecomeFields DEF Become
    <3>2. proc'[d].pc = "dispatch" BY <3>1, ProcFields DEF Procs
    <3> QED BY <1>1, <3>1, <3>2, FreeKeeps DEF Finish, Finishing, FreePcs
  <2> QED BY <1>1, <2>1, <2>2, <2>3 DEF Finish, FinishFirst, FinishAgain, AfterFinish
<1>2. CASE FinalizeReceipt(d)
  BY <1>0, <1>2 DEF FinalizeReceipt, Finalizing, Others
<1>3. CASE Finalize(d)
  <2>1. /\ canon'.phase = canon.phase /\ canon'.req = canon.req /\ canon'.active = canon.active
        /\ canon'.candidate = canon.candidate /\ canon'.previous = canon.previous
        /\ canon'.last = canon.last
    BY <1>3 DEF Finalize, Data, Canonical
  <2>2. lock = d BY <1>3 DEF Finalize, Finalizing
  <2>3. CanonShape(canon') BY <1>0, <2>1
  <2>4. CASE Leave(d) BY <2>2, <2>3, <2>4, LeaveKeeps
  <2>5. CASE proc[d].pc = "finalizeReady" /\ Goto(d, "reconcile")
    BY <1>0, <2>1, <2>2, <2>3, <2>5, GotoFields
  <2>6. CASE proc[d].pc = "retryFailed" /\ Goto(d, "resolve")
    BY <1>0, <2>1, <2>2, <2>3, <2>6, GotoFields
  <2> QED BY <1>3, <2>4, <2>5, <2>6 DEF Finalize, AfterFinalize
<1>4. CASE Reconcile(d)
  BY <1>0, <1>4, LeaveKeeps DEF Reconcile
<1> QED BY <1>1, <1>2, <1>3, <1>4 DEF FinishStep

LEMMA RecoverOwned ==
  ASSUME TypeInv, Ownership, NEW d \in Driver, RecoverStep(d)
  PROVE  Keeps(d)
<1> USE DEF TypeInv, At, Keeps, Awaiting, CanonShape, OwnerMatchesPhase, NoSpare, NotStop,
            InProgressPhases, StablePhases, Phases,
            Holding, OwnerPcs, SwitchPcs, RestorePcs, StopPcs, ClaimedPcs
<1>0. CanonShape(canon) /\ (lock = d => Holding(proc[d], canon)) BY DEF Ownership
<1>1. CASE RecoverDraining(d)
  <2>1. CASE Leave(d) BY <1>0, <1>1, <2>1, LeaveKeeps DEF RecoverDraining, Disk
  <2>2. CASE WaitAt(d, proc[d], "expire")
    BY <1>1, <2>2, WaitAtFields, ProcFields, FreeKeeps DEF RecoverDraining, Disk
  <2> QED BY <1>1, <2>1, <2>2 DEF RecoverDraining
<1>2. CASE RecoverIdle(d) BY <1>0, <1>2, GotoFields DEF RecoverIdle
<1>3. CASE RecoverReady(d)
  <2>1. CASE Leave(d) BY <1>0, <1>3, <2>1, LeaveKeeps DEF RecoverReady, Disk
  <2>2. CASE Goto(d, "finalizeReady")
    BY <1>0, <1>3, <2>2, GotoFields DEF RecoverReady, Disk
  <2> QED BY <1>3, <2>1, <2>2 DEF RecoverReady
<1>4. CASE RecoverDead(d)
  <2>1. /\ canon'.phase = "failed" /\ canon'.req = canon.req /\ canon'.active = NoRt
        /\ canon'.candidate = canon.candidate /\ canon'.previous = canon.previous
        /\ canon'.last = AnonymousResult("failed")
    BY <1>4 DEF RecoverDead, Data, Canonical
  <2>2. canon'.last.st = "failed" BY <2>1 DEF AnonymousResult, Result
  <2>3. CanonShape(canon') BY <1>0, <1>4, <2>1, <2>2 DEF RecoverDead
  <2> QED BY <1>4, <2>3, LeaveKeeps DEF RecoverDead
<1>5. CASE RecoverCandidate(d)
  BY <1>0, <1>5, DiscardFields, GotoFields DEF RecoverCandidate
<1>6. CASE RecoverLeftovers(d)
  BY <1>0, <1>6, GotoFields DEF RecoverLeftovers, Disk
<1>7. CASE ResolveRestore(d)
  <2>1. /\ proc'[d] = [proc[d] EXCEPT !.pc = "restore", !.req = canon.last.req, !.restoring = TRUE]
        /\ Others(d) /\ lock' = lock
    BY <1>7, BecomeFields DEF ResolveRestore, Become
  <2>2. proc'[d].pc = "restore" /\ proc'[d].req = canon.last.req /\ proc'[d].restoring = TRUE
    BY <2>1, ProcFields DEF Procs
  <2> QED BY <1>0, <1>7, <2>1, <2>2 DEF ResolveRestore, Disk
<1>8. CASE ResolveStop(d)
  <2>1. CASE canon' = RecoverFailed
    <3>1. CanonShape(canon') BY <1>0, <1>8, <2>1, RecoverFailedFields DEF ResolveStop
    <3> QED BY <1>8, <3>1, LeaveKeeps DEF ResolveStop
  <2>2. CASE Settle("idle", NoRt, NoRt, canon.retiring, AnonymousResult("succeeded"))
    <3>1. /\ canon'.phase = "idle" /\ canon'.req = NoReq /\ canon'.active = NoRt
          /\ canon'.candidate = NoRt /\ canon'.previous = NoRt
      BY <2>2, SettleFields
    <3> QED BY <1>8, <3>1, LeaveKeeps DEF ResolveStop
  <2> QED BY <1>8, <2>1, <2>2 DEF ResolveStop
<1>9. CASE ResolveIdle(d)
  <2>1. PICK lst : Settle("idle", NoRt, NoRt, canon.retiring, lst) BY <1>9 DEF ResolveIdle
  <2>2. /\ canon'.phase = "idle" /\ canon'.req = NoReq /\ canon'.active = NoRt
        /\ canon'.candidate = NoRt /\ canon'.previous = NoRt
    BY <2>1, SettleFields
  <2> QED BY <1>9, <2>2, LeaveKeeps DEF ResolveIdle
<1>10. CASE RecoverStop(d)
  <2>0. canon.req # NoReq BY <1>0, <1>10 DEF RecoverStop, Interrupted
  <2>1. CASE canon' = RecoverFailed /\ Leave(d)
    <3>1. CanonShape(canon') BY <1>0, <1>10, <2>0, <2>1, RecoverFailedFields DEF RecoverStop
    <3> QED BY <1>10, <2>1, <3>1, LeaveKeeps DEF RecoverStop
  <2>2. CASE /\ Settle("idle", NoRt, NoRt, canon.retiring, Result(canon.req, "succeeded"))
             /\ Become(d, [proc[d] EXCEPT !.pc = "finishLeave", !.req = canon.req, !.res = "succeeded"])
    <3>1. PICK lst : Settle("idle", NoRt, NoRt, canon.retiring, lst) BY <2>2
    <3>2. /\ canon'.phase = "idle" /\ canon'.req = NoReq /\ canon'.active = NoRt
          /\ canon'.candidate = NoRt /\ canon'.previous = NoRt
      BY <3>1, SettleFields
    <3>3. /\ proc'[d] = [proc[d] EXCEPT !.pc = "finishLeave", !.req = canon.req, !.res = "succeeded"]
          /\ Others(d) /\ lock' = lock
      BY <2>2, BecomeFields DEF Become
    <3>4. proc'[d].pc = "finishLeave" BY <3>3, ProcFields DEF Procs
    <3> QED BY <1>10, <3>2, <3>3, <3>4 DEF RecoverStop
  <2> QED BY <1>10, <2>1, <2>2 DEF RecoverStop
<1>11. CASE RecoverSwitch(d)
  <2>1. canon.req # NoReq BY <1>0, <1>11 DEF RecoverSwitch, Interrupted
  <2>2. /\ proc'[d] = [proc[d] EXCEPT !.pc = "undo", !.req = canon.req]
        /\ Others(d) /\ lock' = lock
    BY <1>11, BecomeFields DEF RecoverSwitch, Become
  <2>3. proc'[d].pc = "undo" /\ proc'[d].req = canon.req BY <2>2, ProcFields DEF Procs
  <2> QED BY <1>0, <1>11, <2>1, <2>2, <2>3, TransitionFields DEF RecoverSwitch
<1> QED BY <1>1, <1>2, <1>3, <1>4, <1>5, <1>6, <1>7, <1>8, <1>9, <1>10, <1>11
        DEF RecoverStep

LEMMA EntryOwned ==
  ASSUME TypeInv, Ownership, NEW d \in Driver,
         (\E r \in Req : Request(d, r)) \/ Recover(d) \/ Maintain(d)
  PROVE  Keeps(d)
<1> USE DEF TypeInv
<1>1. CASE \E r \in Req : Request(d, r)
  <2>1. PICK r \in Req : Request(d, r) BY <1>1
  <2>2. /\ proc'[d] = [Off EXCEPT !.pc = "dispatch", !.req = r]
        /\ Others(d) /\ lock = NoDriver /\ lock' = d
    BY <2>1, BecomeFields DEF Request, Acquire
  <2>3. proc'[d].pc = "dispatch" BY <2>2 DEF Off
  <2> QED BY <2>1, <2>2, <2>3, FreeKeeps DEF Request, Disk, FreePcs
<1>2. CASE Recover(d)
  <2>1. /\ proc'[d] = [Off EXCEPT !.pc = "recover", !.mode = "recover"]
        /\ Others(d) /\ lock = NoDriver /\ lock' = d
    BY <1>2, BecomeFields DEF Recover, Acquire
  <2>2. proc'[d].pc = "recover" BY <2>1 DEF Off
  <2> QED BY <1>2, <2>1, <2>2, FreeKeeps DEF Recover, Disk, FreePcs
<1>3. CASE MaintainDrain(d)
  <2>1. [Off EXCEPT !.mode = "maintain"] \in Procs BY OffTyped DEF Procs
  <2>2. /\ Others(d) /\ lock = NoDriver /\ lock' = NoDriver /\ proc'[d].pc = "expire"
    BY <1>3, <2>1, WaitAtFields DEF MaintainDrain
  <2> QED BY <1>3, <2>2, FreeKeeps DEF MaintainDrain, Disk, Awaiting
<1>4. CASE ResumeHead(d)
  <2>1. UNCHANGED canon /\ lock = NoDriver BY <1>4 DEF ResumeHead
  <2>2. CASE UNCHANGED <<lock, proc>>
    BY <2>1, <2>2, FreeKeeps DEF Others, Ownership
  <2>3. CASE \E h \in Req : Release(d, [Off EXCEPT !.pc = "resume", !.mode = "maintain", !.req = h])
    <3>1. PICK h \in Req : Release(d, [Off EXCEPT !.pc = "resume", !.mode = "maintain", !.req = h])
      BY <2>3
    <3>2. /\ proc'[d] = [Off EXCEPT !.pc = "resume", !.mode = "maintain", !.req = h]
          /\ Others(d) /\ lock' = NoDriver
      BY <3>1, BecomeFields DEF Release
    <3>3. proc'[d].pc = "resume" BY <3>2 DEF Off
    <3> QED BY <2>1, <3>2, <3>3, FreeKeeps DEF Awaiting
  <2> QED BY <1>4, <2>2, <2>3 DEF ResumeHead
<1> QED BY <1>1, <1>2, <1>3, <1>4 DEF Maintain

LEMMA ResumeOwned ==
  ASSUME TypeInv, Ownership, NEW d \in Driver, Resume(d) \/ ResumeBusy(d) \/ Crash(d)
  PROVE  Keeps(d) \/ Bystands(d)
<1> USE DEF TypeInv
<1>1. CASE Resume(d)
  <2>1. /\ proc'[d] = [proc[d] EXCEPT !.pc = "dispatch"]
        /\ Others(d) /\ lock = NoDriver /\ lock' = d
    BY <1>1, BecomeFields DEF Resume, Acquire
  <2>2. proc'[d].pc = "dispatch" BY <2>1, ProcFields DEF Procs
  <2> QED BY <1>1, <2>1, <2>2, FreeKeeps DEF Resume, Disk, FreePcs
<1>2. CASE ResumeBusy(d)
  <2>1. proc'[d] = Off /\ Others(d) BY <1>2, BecomeFields DEF ResumeBusy
  <2>2. lock # d BY <1>2 DEF ResumeBusy, Control, LockedPcs
  <2> QED BY <1>2, <2>1, <2>2, OffAwaits DEF ResumeBusy, Bystands
<1>3. CASE Crash(d)
  <2>1. proc'[d] = Off /\ Others(d) BY <1>3, BecomeFields DEF Crash
  <2> QED BY <1>3, <2>1, OffAwaits DEF Crash, Bystands
<1> QED BY <1>1, <1>2, <1>3

(* Every step of a driver is one of the two kinds.                         *)
AnyStep(d) == \/ \E r \in Req : Request(d, r)
              \/ Recover(d) \/ Maintain(d) \/ DriverStep(d) \/ Crash(d)

LEMMA StepOwned ==
  ASSUME TypeInv, Ownership, Owned, NEW d \in Driver, AnyStep(d)
  PROVE  Keeps(d) \/ Bystands(d)
<1>1. CASE (\E r \in Req : Request(d, r)) \/ Recover(d) \/ Maintain(d)
  BY <1>1, EntryOwned
<1>2. CASE BoundaryStep(d) BY <1>2, BoundaryOwned
<1>3. CASE Resume(d) \/ ResumeBusy(d) \/ Crash(d) BY <1>3, ResumeOwned
<1>4. CASE DispatchStep(d) \/ AcceptStep(d) \/ SwitchStep(d) \/ StopStep(d)
  BY <1>4, DispatchOwned, AcceptOwned, SwitchOwned, StopOwned
<1>5. CASE RestoreStep(d) \/ FinishStep(d) \/ RecoverStep(d)
  BY <1>5, RestoreOwned, FinishOwned, RecoverOwned
<1> QED BY <1>1, <1>2, <1>3, <1>4, <1>5 DEF AnyStep, DriverStep

(* The other steps: a deadline passes, a game process exits.               *)
LEMMA NextSteps ==
  [Next]_vars => \/ \E d \in Driver : AnyStep(d)
                 \/ Expire \/ (\E rt \in live : GameDies(rt)) \/ UNCHANGED vars
BY DEF Next, AnyStep

LEMMA ExpireFields ==
  ASSUME Data, Expire
  PROVE  /\ canon'.phase = canon.phase /\ canon'.req = canon.req /\ canon'.active = canon.active
         /\ canon'.candidate = canon.candidate /\ canon'.previous = canon.previous
         /\ canon'.last = canon.last /\ canon'.nextGen = canon.nextGen
         /\ canon'.retiring = canon.retiring
BY DEF Expire, Data, Canonical

LEMMA NextOwned ==
  TypeInv /\ Ownership /\ Owned /\ [Next]_vars => Ownership'
<1> SUFFICES ASSUME TypeInv, Ownership, Owned, [Next]_vars PROVE Ownership'
  OBVIOUS
<1>1. CASE \E d \in Driver : AnyStep(d)
  BY <1>1, StepOwned, KeepsOwnership, BystandsOwnership
<1>2. CASE Expire
  <2>1. CanonShape(canon')
    BY <1>2, ExpireFields DEF TypeInv, Ownership, CanonShape, OwnerMatchesPhase, NoSpare
  <2>2. ASSUME NEW d \in Driver, lock = d PROVE Holding(proc[d], canon')
    BY <1>2, <2>2, ExpireFields DEF TypeInv, Ownership, Holding
  <2> QED BY <1>2, <2>1, <2>2 DEF Expire, Ownership
<1>3. CASE \E rt \in live : GameDies(rt) BY <1>3 DEF GameDies, Disk, Ownership
<1>4. CASE UNCHANGED vars BY <1>4 DEF vars, Ownership
<1> QED BY <1>1, <1>2, <1>3, <1>4, NextSteps

LEMMA InitOwned == Init => Ownership
<1> SUFFICES ASSUME Init PROVE Ownership
  OBVIOUS
<1>1. CanonShape(canon)
  BY DEF Init, CanonShape, OwnerMatchesPhase, NoSpare, NotStop, InitialRuntime, InProgressPhases, StablePhases
<1> QED BY <1>1, OffAwaits, DriverAssumption DEF Init, Ownership

-----------------------------------------------------------------------------
(* The receipts behind the document                                        *)

ActingPhases == {"preparing", "draining", "quiescing", "starting", "probing", "stopping"}

Named(r, rs) == r # NoReq => rs[r].st # "none"

(* What the receipts say of the document's owner and of its last result,   *)
(* and that no two of them are in flight.                                  *)
Backed(c, rs) ==
  /\ \A r, s \in InFlight(rs) : r = s
  /\ Named(c.req, rs) /\ Named(c.last.req, rs)
  /\ c.req # NoReq => InFlight(rs) \subseteq {c.req}
  /\ c.phase \in ActingPhases => rs[c.req].st = "accepted"
  /\ c.phase = "failed" /\ c.previous # NoRt => InFlight(rs) \subseteq {c.last.req}

Ahead(r, rs) == Queued(rs) = {} \/ IsHead(rs, r)

(* What the holder of the lock knows of the receipts.                      *)
HeedfulPcs == {"run", "accept", "alloc", "retireDead"}
Heeding(p, rs) ==
  /\ p.pc = "run" => rs[p.req].st = "accepted"
  /\ p.pc \in {"accept", "alloc"} => Ahead(p.req, rs)
  /\ p.pc = "retireDead" => Named(p.req, rs)

Receipted == /\ Backed(canon, receipts)
             /\ \A d \in Driver : lock = d => Heeding(proc[d], receipts)

(* The holder's steps: Backed and Heeding afterwards are all there is to   *)
(* show of them.                                                           *)
Heeds(d) == /\ Backed(canon', receipts')
            /\ lock' = d => Heeding(proc'[d], receipts')

LEMMA HeedsReceipted ==
  ASSUME NEW d \in Driver, Keeps(d), Heeds(d)
  PROVE  Receipted'
BY DriverAssumption DEF Keeps, Heeds, Receipted

LEMMA BystandsReceipted ==
  ASSUME Receipted, NEW d \in Driver, Bystands(d)
  PROVE  Receipted'
BY DriverAssumption DEF Bystands, Disk, Others, Receipted

LEMMA Heedless ==
  ASSUME NEW d \in Driver, Backed(canon', receipts'), proc'[d].pc \notin HeedfulPcs
  PROVE  Heeds(d)
BY DEF Heeds, Heeding, HeedfulPcs

(* Receipts that leave the flight, or never were in it.                    *)
LEMMA BackedLanding ==
  ASSUME Data, Ownership, Backed(canon, receipts), UNCHANGED canon,
         \A r \in Req : \/ receipts'[r].st = receipts[r].st
                        \/ /\ receipts'[r].st \notin {"none", "allocating", "accepted"}
                           /\ receipts[r].st # "accepted" \/ canon.phase \notin ActingPhases
  PROVE  Backed(canon', receipts')
<1>1. InFlight(receipts') \subseteq InFlight(receipts) BY DEF InFlight
<1>2. \A r \in Req \cup {NoReq} : Named(r, receipts) => Named(r, receipts')
  BY DEF Named
<1>3. canon.req \in Req \cup {NoReq} /\ canon.last.req \in Req \cup {NoReq}
  BY CanonFields DEF Results
<1>4. canon.phase \in ActingPhases => receipts'[canon.req].st = "accepted"
  <2>1. canon.phase \in ActingPhases => canon.req # NoReq
    BY DEF Ownership, CanonShape, OwnerMatchesPhase, ActingPhases, InProgressPhases, Phases
  <2> QED BY <1>3, <2>1 DEF Backed
<1> QED BY <1>1, <1>2, <1>3, <1>4 DEF Backed

(* The document changes hands with nobody, and its result stays.           *)
LEMMA BackedStaying ==
  ASSUME Backed(canon, receipts), receipts' = receipts,
         canon'.req = canon.req, canon'.last = canon.last,
         canon'.phase \in ActingPhases => receipts[canon.req].st = "accepted",
         canon'.phase = "failed" =>
           canon.phase = "failed" /\ (canon'.previous # NoRt => canon.previous # NoRt)
  PROVE  Backed(canon', receipts')
BY DEF Backed

(* The document is let go of, with a result for a request that is known.   *)
LEMMA BackedSettling ==
  ASSUME Backed(canon, receipts), receipts' = receipts,
         canon'.req = NoReq, Named(canon'.last.req, receipts),
         canon'.phase \notin ActingPhases,
         canon'.phase = "failed" => canon'.previous = NoRt
  PROVE  Backed(canon', receipts')
BY DEF Backed, Named

LEMMA SettlesBacked ==
  ASSUME Data, Backed(canon, receipts), receipts' = receipts,
         NEW ph, NEW act, NEW prev, NEW ret, NEW lst, Settle(ph, act, prev, ret, lst),
         Named(lst.req, receipts), ph \notin ActingPhases, ph = "failed" => prev = NoRt
  PROVE  Backed(canon', receipts')
BY SettleFields, BackedSettling

(* A switch or a stop goes on towards its next phase, in its own name.     *)
LEMMA ActingBacked ==
  ASSUME Backed(canon, receipts), receipts' = receipts,
         canon.phase \in ActingPhases \/ receipts[canon.req].st = "accepted",
         canon'.req = canon.req, canon'.last = canon.last, canon'.phase # "failed"
  PROVE  Backed(canon', receipts')
BY BackedStaying DEF Backed

LEMMA SameBacked ==
  ASSUME Backed(canon, receipts), receipts' = receipts,
         canon'.phase = canon.phase, canon'.req = canon.req,
         canon'.last = canon.last, canon'.previous = canon.previous
  PROVE  Backed(canon', receipts')
BY DEF Backed

LEMMA SwitchHeeds ==
  ASSUME TypeInv, Ownership, Receipted, NEW d \in Driver, SwitchStep(d)
  PROVE  Heeds(d)
<1> USE DEF TypeInv, At, HeedfulPcs
<1> DEFINE r == proc[d].req
<1>1. receipts' = receipts BY SwitchAside
<1>2. Backed(canon, receipts) /\ (lock = d => Holding(proc[d], canon) /\ Heeding(proc[d], receipts))
  BY DEF Receipted, Ownership
<1>3. CASE RunSwitch(d)
  <2>1. proc'[d] = [proc[d] EXCEPT !.pc = "prepare", !.old = canon.active]
    BY <1>3, BecomeFields DEF RunSwitch, Become
  <2>2. proc'[d].pc = "prepare" BY <2>1, ProcFields DEF Procs
  <2>3. receipts[canon.req].st = "accepted"
    BY <1>2, <1>3 DEF RunSwitch, Heeding, Holding, OwnerPcs, ClaimedPcs
  <2>4. canon'.phase = "preparing" /\ canon'.req = canon.req /\ canon'.last = canon.last
    BY <1>3 DEF RunSwitch, Data, Canonical
  <2> QED BY <1>1, <1>2, <2>2, <2>3, <2>4, ActingBacked, Heedless
<1>4. CASE Quiesce(d)
  <2>1. canon'.phase = "quiescing" /\ canon'.req = canon.req /\ canon'.last = canon.last
    BY <1>4 DEF Quiesce, Data, Canonical
  <2>2. canon.phase \in ActingPhases BY <1>2, <1>4 DEF Quiesce, Holding, ActingPhases
  <2> QED BY <1>1, <1>2, <1>4, <2>1, <2>2, GotoFields, ActingBacked, Heedless DEF Quiesce
<1>5. ASSUME NEW ph \in Phases \ {"failed"}, Transition(ph), canon.phase \in ActingPhases
      PROVE  Backed(canon', receipts')
  BY <1>1, <1>2, <1>5, TransitionFields, ActingBacked
<1>6. ASSUME RollBack(d) PROVE Heeds(d)
  <2>1. /\ canon'.phase = "rolling_back" /\ canon'.req = canon.req /\ canon'.last = canon.last
        /\ proc'[d].pc = "undo"
    BY <1>6, TransitionFields, GotoFields DEF RollBack
  <2>2. Backed(canon', receipts') BY <1>1, <1>2, <2>1, BackedStaying DEF ActingPhases
  <2> QED BY <2>1, <2>2, Heedless
<1>7. CASE Drain(d) \/ DrainUnsupported(d) \/ Probing(d)
  <2>1. PICK ph \in {"draining", "probing"} : Transition(ph)
    BY <1>7 DEF Drain, DrainUnsupported, Probing
  <2>2. canon.phase \in ActingPhases
    BY <1>2, <1>7 DEF Drain, DrainUnsupported, Probing, Holding, ActingPhases
  <2>3. proc'[d].pc \in {"await", "retain", "probe"}
    BY <1>7, GotoFields, WaitAtFields, ProcFields DEF Drain, DrainUnsupported, Probing
  <2> QED BY <1>5, <2>1, <2>2, <2>3, Heedless DEF Phases
<1>8. ASSUME UNCHANGED canon, proc'[d].pc \notin HeedfulPcs PROVE Heeds(d)
  BY <1>1, <1>2, <1>8, Heedless
<1>9. CASE StopOld(d) \/ Materialize(d)
  BY <1>6, <1>8, <1>9, GotoFields DEF StopOld, Materialize
<1>10. CASE Starting(d)
  <2>1. CASE Leave(d) /\ UNCHANGED canon BY <1>8, <2>1, LeaveFields DEF Off
  <2>2. CASE canon' = [canon EXCEPT !.phase = "starting", !.candidate = Candidate(d)]
             /\ Goto(d, "materialize")
    <3>1. canon'.phase = "starting" /\ canon'.req = canon.req /\ canon'.last = canon.last
      BY <2>2 DEF Data, Canonical
    <3>2. canon.phase \in ActingPhases BY <1>2, <1>10 DEF Starting, Holding, ActingPhases
    <3> QED BY <1>1, <1>2, <2>2, <3>1, <3>2, GotoFields, ActingBacked, Heedless
  <2> QED BY <1>10, <2>1, <2>2 DEF Starting
<1>11. CASE Probe(d) BY <1>8, <1>11, GotoFields DEF Probe, Disk
<1>12. CASE ProbeFindsNothing(d) \/ SwitchFails(d)
  BY <1>6, <1>12 DEF ProbeFindsNothing, SwitchFails, StepFails
<1>13. CASE Commit(d)
  <2>1. PICK ret, lst : Settle("ready", canon.candidate, NoRt, ret, lst) /\ lst.req = r
    BY <1>13 DEF Commit, CommitResult
  <2>2. Settle("ready", canon.candidate, NoRt, ret, lst) BY <2>1
  <2>3. canon.req = r BY <1>2, <1>13 DEF Commit, Holding, OwnerPcs, SwitchPcs
  <2>4. Backed(canon', receipts')
    BY <1>1, <1>2, <2>1, <2>2, <2>3, SettlesBacked DEF ActingPhases, Backed
  <2> QED BY <1>13, <2>4, FinishAsFields, Heedless DEF Commit
<1> QED BY <1>3, <1>4, <1>7, <1>9, <1>10, <1>11, <1>12, <1>13 DEF SwitchStep

LEMMA BoundaryHeeds ==
  ASSUME TypeInv, Ownership, Receipted, NEW d \in Driver, BoundaryStep(d)
  PROVE  Heeds(d)
<1> USE DEF TypeInv, At, HeedfulPcs
<1>1. receipts' = receipts BY BoundaryAside
<1>2. /\ Backed(canon, receipts) /\ CanonShape(canon)
      /\ lock = d => Holding(proc[d], canon) /\ Heeding(proc[d], receipts)
  BY DEF Receipted, Ownership
<1>3. CASE BoundaryFailed(d) \/ WaitLost(d) \/ ExpireRefused(d) \/ Cancelled(d) \/ ExpireOvertaken(d)
  <2>1. canon' = canon
    BY <1>3 DEF BoundaryFailed, WaitLost, ExpireRefused, Cancelled, ExpireOvertaken, Disk
  <2>2. proc'[d].pc \notin HeedfulPcs
    <3>1. CASE WaitLost(d) \/ ExpireRefused(d)
      BY <3>1, BecomeFields DEF WaitLost, ExpireRefused, Off
    <3>2. CASE BoundaryFailed(d) \/ Cancelled(d)
      <4>1. PICK pc \in {"cancel", "retain"} :
              proc' = [proc EXCEPT ![d] = [proc[d] EXCEPT !.pc = pc]]
        BY <3>2 DEF BoundaryFailed, Cancelled, Acquire
      <4> QED BY <4>1, MoveFields
    <3>3. CASE ExpireOvertaken(d)
      <4>1. proc'[d] = [proc[d] EXCEPT !.pc = "dispatch", !.drain = NoReq, !.old = NoRt]
        BY <3>3, BecomeFields DEF ExpireOvertaken, Acquire
      <4> QED BY <4>1, ProcFields DEF Procs
    <3> QED BY <1>3, <3>1, <3>2, <3>3
  <2> QED BY <1>1, <1>2, <2>1, <2>2, Heedless
<1>4. CASE BoundaryReached(d)
  <2>1. PICK pc \in {"stopAgent", "stopOld"} : proc' = [proc EXCEPT ![d] = [proc[d] EXCEPT !.pc = pc]]
    BY <1>4 DEF BoundaryReached, Acquire
  <2>2. proc'[d].pc = pc BY <2>1, MoveFields
  <2>3. canon'.phase = "quiescing" /\ canon'.req = canon.req /\ canon'.last = canon.last
    BY <1>4 DEF BoundaryReached, Data, Canonical
  <2>4. canon.phase \in ActingPhases BY <1>4 DEF BoundaryReached, SameDrain, ActingPhases
  <2> QED BY <1>1, <1>2, <2>2, <2>3, <2>4, ActingBacked, Heedless
<1>5. CASE CancelRefused(d)
  <2>1. proc'[d] = Off BY <1>5, BecomeFields DEF CancelRefused
  <2>2. /\ canon.phase = "draining" /\ canon'.phase = "draining" /\ canon'.req = canon.req
        /\ canon'.last.req = canon.req
    BY <1>5 DEF CancelRefused, SameDrain, Data, Canonical, Result
  <2>3. Backed(canon', receipts') BY <1>1, <1>2, <2>2 DEF Backed, ActingPhases
  <2> QED BY <2>1, <2>3, Heedless DEF Off
<1>6. CASE Retain(d)
  <2>1. PICK ret, lst : Settle("ready", proc[d].old, NoRt, ret, lst) /\ lst.req = proc[d].req
    BY <1>6 DEF Retain, Result
  <2>2. Settle("ready", proc[d].old, NoRt, ret, lst) BY <2>1
  <2>3. canon.req = proc[d].req BY <1>2, <1>6 DEF Retain, Holding, OwnerPcs
  <2>4. Backed(canon', receipts')
    BY <1>1, <1>2, <2>1, <2>2, <2>3, SettlesBacked DEF ActingPhases, Backed
  <2> QED BY <1>6, <2>4, FinishAsFields, Heedless DEF Retain
<1>7. CASE RetireDead(d)
  <2>1. PICK ret : Settle("idle", NoRt, NoRt, ret, canon.last) BY <1>7 DEF RetireDead
  <2>2. Backed(canon', receipts')
    BY <1>1, <1>2, <2>1, SettlesBacked DEF ActingPhases, Backed
  <2>3. canon.req = proc[d].req BY <1>2, <1>7 DEF RetireDead, Holding, OwnerPcs
  <2>4. Named(proc[d].req, receipts) BY <1>2, <2>3 DEF Backed
  <2> QED BY <1>1, <1>7, <2>2, <2>4, GotoFields DEF RetireDead, Heeds, Heeding
<1>8. CASE CollectDead(d)
  <2>1. /\ canon'.phase = canon.phase /\ canon'.req = canon.req
        /\ canon'.last = Result(proc[d].req, "failed")
        /\ canon'.previous = canon.previous
    BY <1>8 DEF CollectDead, Data, Canonical
  <2>2. canon.phase = "idle" /\ Named(proc[d].req, receipts)
    BY <1>2, <1>8 DEF CollectDead, Holding, Heeding
  <2>3. Backed(canon', receipts') BY <1>1, <1>2, <2>1, <2>2 DEF Backed, ActingPhases, Result
  <2> QED BY <1>8, <2>3, FinishAsFields, Heedless DEF CollectDead
<1>9. CASE ExpireDrain(d)
  <2>1. PICK ret, lst : Settle("ready", proc[d].old, NoRt, ret, lst) /\ lst.req = proc[d].drain
    BY <1>9 DEF ExpireDrain, Result
  <2>2. Settle("ready", proc[d].old, NoRt, ret, lst) BY <2>1
  <2>3. canon.req = proc[d].drain BY <1>9 DEF ExpireDrain, SameDrain
  <2>4. Backed(canon', receipts')
    BY <1>1, <1>2, <2>1, <2>2, <2>3, SettlesBacked DEF ActingPhases, Backed
  <2>5. proc' = [proc EXCEPT ![d] = [proc[d] EXCEPT !.pc = "finishRedo"]]
    BY <1>9 DEF ExpireDrain, Acquire
  <2>6. proc'[d].pc = "finishRedo" BY <2>5, MoveFields
  <2> QED BY <2>4, <2>6, Heedless
<1> QED BY <1>3, <1>4, <1>5, <1>6, <1>7, <1>8, <1>9 DEF BoundaryStep

LEMMA StopHeeds ==
  ASSUME TypeInv, Ownership, Receipted, NEW d \in Driver, StopStep(d)
  PROVE  Heeds(d)
<1> USE DEF TypeInv, At, HeedfulPcs
<1> DEFINE r == proc[d].req
<1>1. receipts' = receipts BY StopAside
<1>2. Backed(canon, receipts) /\ (lock = d => Holding(proc[d], canon) /\ Heeding(proc[d], receipts))
  BY DEF Receipted, Ownership
<1>3. lock = d /\ canon.req = r
  BY <1>2 DEF StopStep, RunStop, StopAgent, StopGame, Holding, OwnerPcs, ClaimedPcs, StopPcs
<1>4. ASSUME NEW ph \in {"failed", "idle"}, NEW act, NEW ret, NEW lst,
             Settle(ph, act, NoRt, ret, lst), lst.req = r
      PROVE  Backed(canon', receipts')
  BY <1>1, <1>2, <1>3, <1>4, SettlesBacked DEF ActingPhases, Backed
<1>5. CASE FailKeepingActive(d)
  <2>1. PICK ret, lst : Settle("failed", canon.active, NoRt, ret, lst) /\ lst.req = r
    BY <1>5 DEF FailKeepingActive, Result
  <2>2. Settle("failed", canon.active, NoRt, ret, lst) BY <2>1
  <2>3. Backed(canon', receipts') BY <1>4, <2>1, <2>2
  <2> QED BY <1>5, <2>3, FinishAsFields, Heedless DEF FailKeepingActive
<1>6. canon.phase \in ActingPhases \/ receipts[canon.req].st = "accepted"
  BY <1>2, <1>3
  DEF StopStep, RunStop, StopAgent, StopGame, Holding, Heeding, ActingPhases
<1>7. CASE RunStop(d) /\ ~FailKeepingActive(d)
  <2>1. canon'.phase \in {"quiescing", "draining"} /\ canon'.req = canon.req /\ canon'.last = canon.last
    BY <1>7 DEF RunStop, Transition, Data, Canonical
  <2>2. proc'[d].pc \in {"stopAgent", "await"}
    BY <1>7, GotoFields, WaitAtFields, ProcFields DEF RunStop
  <2> QED BY <1>1, <1>2, <1>6, <2>1, <2>2, ActingBacked, Heedless
<1>8. CASE StopAgent(d) /\ ~FailKeepingActive(d)
  BY <1>1, <1>2, <1>6, <1>8, TransitionFields, GotoFields, ActingBacked, Heedless DEF StopAgent
<1>9. CASE StopGame(d) /\ ~FailKeepingActive(d)
  <2>1. PICK ret, lst : Settle("idle", NoRt, NoRt, ret, lst) /\ lst.req = r
    BY <1>9 DEF StopGame, Result
  <2>2. Settle("idle", NoRt, NoRt, ret, lst) BY <2>1
  <2>3. Backed(canon', receipts') BY <1>4, <2>1, <2>2
  <2> QED BY <1>9, <2>3, FinishAsFields, Heedless DEF StopGame
<1> QED BY <1>5, <1>7, <1>8, <1>9 DEF StopStep

(* A failed switch is taken up again in the name of the request it failed  *)
(* for, or a rollback goes on in its own.                                  *)
LEMMA ResumedBacked ==
  ASSUME Ownership, Receipted, NEW d \in Driver, lock = d, proc[d].pc = "restore",
         receipts' = receipts, canon'.phase = "rolling_back",
         canon'.req = proc[d].req, canon'.last = canon.last
  PROVE  Backed(canon', receipts')
<1>1. /\ canon.previous # NoRt
      /\ \/ canon.phase = "rolling_back" /\ canon.req = proc[d].req /\ canon.req # NoReq
         \/ canon.phase = "failed" /\ proc[d].req = canon.last.req
  BY DEF Ownership, Holding, CanonShape, OwnerMatchesPhase, InProgressPhases, Phases
<1> QED BY <1>1 DEF Receipted, Backed, ActingPhases

LEMMA RestoreHeeds ==
  ASSUME TypeInv, Ownership, Receipted, NEW d \in Driver, RestoreStep(d)
  PROVE  Heeds(d)
<1> USE DEF TypeInv, At, HeedfulPcs
<1> DEFINE r == proc[d].req
<1>1. receipts' = receipts BY RestoreAside
<1>2. /\ Backed(canon, receipts) /\ CanonShape(canon)
      /\ lock = d => Holding(proc[d], canon) /\ Heeding(proc[d], receipts)
  BY DEF Receipted, Ownership
<1>3. ASSUME UNCHANGED canon, proc'[d].pc \notin HeedfulPcs PROVE Heeds(d)
  BY <1>1, <1>2, <1>3, Heedless
<1>4. ASSUME NEW rt, PublishRestored(d, rt), canon.req = r PROVE Heeds(d)
  <2>1. PICK ret, lst : Settle("ready", rt, NoRt, ret, lst) /\ lst.req = r
    BY <1>4 DEF PublishRestored, Result
  <2>2. Settle("ready", rt, NoRt, ret, lst) BY <2>1
  <2>3. Backed(canon', receipts')
    BY <1>1, <1>2, <1>4, <2>1, <2>2, SettlesBacked DEF ActingPhases, Backed
  <2>4. PICK pc \in {"finalizeReady", "finish"} : FinishAs(d, pc, "rolled_back")
    BY <1>4 DEF PublishRestored
  <2> QED BY <2>3, <2>4, FinishAsFields, Heedless
<1>5. CASE UndoCandidate(d)
  <2>1. Backed(canon', receipts')
    BY <1>1, <1>2, <1>5, DiscardFields, SameBacked DEF UndoCandidate
  <2> QED BY <1>5, <2>1, Heedless DEF UndoCandidate
<1>6. CASE PickPrevious(d)
  <2>1. canon'.phase = canon.phase /\ canon'.req = canon.req /\ canon'.last = canon.last
    BY <1>6 DEF PickPrevious, Data, Canonical
  <2>2. canon.phase = "rolling_back" BY <1>2, <1>6 DEF PickPrevious, Holding
  <2>3. Backed(canon', receipts') BY <1>1, <1>2, <2>1, <2>2, BackedStaying DEF ActingPhases
  <2> QED BY <1>6, <2>3, GotoFields, Heedless DEF PickPrevious
<1>7. CASE NothingToRestore(d)
  <2>1. PICK ret, lst : Settle("failed", NoRt, NoRt, ret, lst) /\ lst.req = r
    BY <1>7 DEF NothingToRestore, Result
  <2>2. Settle("failed", NoRt, NoRt, ret, lst) BY <2>1
  <2>3. canon.req = r BY <1>2, <1>7 DEF NothingToRestore, Holding, OwnerPcs
  <2>4. Backed(canon', receipts')
    BY <1>1, <1>2, <2>1, <2>2, <2>3, SettlesBacked DEF ActingPhases, Backed
  <2> QED BY <1>7, <2>4, FinishAsFields, Heedless DEF NothingToRestore
<1>8. CASE RestoreRefused(d) \/ Restart(d)
  BY <1>3, <1>8, GotoFields DEF RestoreRefused, Restart, Disk
<1>9. CASE RestoreAlive(d) \/ RestoreFresh(d)
  <2>1. canon'.phase = "rolling_back" /\ canon'.req = r /\ canon'.last = canon.last
    BY <1>9 DEF RestoreAlive, RestoreFresh, Data, Canonical
  <2>2. Backed(canon', receipts')
    BY <1>1, <1>9, <2>1, ResumedBacked DEF RestoreAlive, RestoreFresh
  <2> QED BY <1>9, <2>2, GotoFields, Heedless DEF RestoreAlive, RestoreFresh
<1>10. CASE RestartAgent(d) \/ Publish(d)
  <2>1. canon.req = r BY <1>2, <1>10 DEF RestartAgent, Publish, Holding, OwnerPcs, RestorePcs
  <2> QED BY <1>3, <1>4, <1>10, <2>1, GotoFields DEF RestartAgent, Publish
<1>11. CASE DropRestart(d)
  <2>1. Backed(canon', receipts')
    BY <1>1, <1>2, <1>11, DiscardFields, SameBacked DEF DropRestart
  <2> QED BY <1>11, <2>1, GotoFields, Heedless DEF DropRestart
<1>12. CASE Abandon(d)
  <2>1. /\ canon'.phase = "failed" /\ canon'.req = NoReq /\ canon'.last = Result(r, "failed")
    BY <1>12 DEF Abandon, Data, Canonical
  <2>2. canon.phase = "rolling_back" /\ canon.req = r /\ canon.req # NoReq
    BY <1>2, <1>12
    DEF Abandon, Holding, CanonShape, OwnerMatchesPhase, InProgressPhases, Phases
  <2>3. Backed(canon', receipts')
    BY <1>1, <1>2, <2>1, <2>2 DEF Backed, ActingPhases, Result, Named
  <2> QED BY <1>12, <2>3, FinishAsFields, Heedless DEF Abandon
<1>13. CASE AbandonRecovery(d)
  <2>1. canon.previous # NoRt BY <1>2, <1>13 DEF AbandonRecovery, Holding
  <2>2. canon.phase = "failed" => canon.req = NoReq
    BY <1>2, <2>1 DEF CanonShape, NoSpare
  <2>3. CASE canon.phase = "failed"
    <3>1. canon' = RecoverFailed BY <1>13, <2>3 DEF AbandonRecovery
    <3>2. /\ canon'.phase = "failed" /\ canon'.req = NoReq /\ canon'.previous = canon.previous
          /\ canon'.last.req = canon.last.req
      BY <2>2, <2>3, <3>1, RecoverFailedFields
    <3> QED
      BY <1>1, <1>2, <1>13, <2>2, <2>3, <3>2, LeaveFields, Heedless
      DEF AbandonRecovery, Off, Backed, ActingPhases
  <2>4. CASE canon.phase # "failed"
    BY <1>3, <1>13, <2>4, LeaveFields DEF AbandonRecovery, Off
  <2> QED BY <2>3, <2>4
<1> QED BY <1>5, <1>6, <1>7, <1>8, <1>9, <1>10, <1>11, <1>12, <1>13 DEF RestoreStep

(* A receipt is settled while no switch is under way.                      *)
LEMMA SettledBacked ==
  ASSUME Data, Ownership, Backed(canon, receipts), canon' = canon, canon.phase \notin ActingPhases,
         NEW r, NEW st \in TerminalStatuses, SetStatus(r, st)
  PROVE  Backed(canon', receipts')
<1>1. \A s \in Req : receipts'[s].st \in {receipts[s].st, st}
  BY DEF Data, SetStatus, Receipts
<1>2. st \notin {"none", "allocating", "accepted"} BY DEF TerminalStatuses
<1> QED BY <1>1, <1>2, BackedLanding

LEMMA ReconcileBacked ==
  ASSUME Data, Ownership, Backed(canon, receipts), canon' = canon, canon.phase \notin ActingPhases,
         ReconcileReceipt
  PROVE  Backed(canon', receipts')
<1>1. CASE UNCHANGED receipts BY <1>1
<1>2. CASE receipts' # receipts
  <2>1. canon.last.st \in TerminalStatuses /\ SetStatus(canon.last.req, canon.last.st)
    BY <1>2 DEF ReconcileReceipt
  <2> QED BY <2>1, SettledBacked
<1> QED BY <1>1, <1>2

LEMMA FinishHeeds ==
  ASSUME TypeInv, Ownership, Receipted, NEW d \in Driver, FinishStep(d)
  PROVE  Heeds(d)
<1> USE DEF TypeInv, At, HeedfulPcs
<1>1. /\ Backed(canon, receipts) /\ CanonShape(canon)
      /\ lock = d => Holding(proc[d], canon) /\ Heeding(proc[d], receipts)
  BY DEF Receipted, Ownership
<1>2. canon.phase \notin ActingPhases
  BY <1>1
  DEF FinishStep, Finish, FinalizeReceipt, Finalize, Reconcile, Finishing, Finalizing, Holding,
      CanonShape, OwnerMatchesPhase, ActingPhases, InProgressPhases, Phases
<1>3. CASE Finish(d)
  <2>1. FinishedAs(d) \in TerminalStatuses
    BY ProcFields DEF FinishedAs, TerminalStatuses
  <2>2. Backed(canon', receipts')
    BY <1>1, <1>2, <1>3, <2>1, SettledBacked DEF Finish, FinishFirst, FinishAgain
  <2>3. AfterFinish(d) \/ Leave(d) \/ Goto(d, "finalize")
    BY <1>3 DEF Finish, FinishFirst, FinishAgain
  <2>4. proc'[d].pc \notin HeedfulPcs
    <3>1. CASE Become(d, [proc[d] EXCEPT !.pc = "dispatch", !.drain = NoReq, !.old = NoRt])
      <4>1. proc'[d] = [proc[d] EXCEPT !.pc = "dispatch", !.drain = NoReq, !.old = NoRt]
        BY <3>1, BecomeFields DEF Become
      <4> QED BY <4>1, ProcFields DEF Procs
    <3> QED BY <2>3, <3>1, LeaveFields, GotoFields DEF AfterFinish, Off
  <2> QED BY <2>2, <2>4, Heedless
<1>4. CASE FinalizeReceipt(d)
  <2>1. PICK e \in canon.retiring : SetStatus(e.proof, "succeeded") BY <1>4 DEF FinalizeReceipt
  <2>2. Backed(canon', receipts')
    BY <1>1, <1>2, <1>4, <2>1, SettledBacked DEF FinalizeReceipt, TerminalStatuses
  <2> QED BY <1>4, <2>2, Heedless DEF FinalizeReceipt, Finalizing
<1>5. CASE Finalize(d)
  <2>1. /\ canon'.phase = canon.phase /\ canon'.req = canon.req
        /\ canon'.last = canon.last /\ canon'.previous = canon.previous
    BY <1>5 DEF Finalize, Data, Canonical
  <2>2. Backed(canon', receipts') BY <1>1, <1>5, <2>1, SameBacked DEF Finalize
  <2> QED BY <1>5, <2>2, LeaveFields, GotoFields, Heedless DEF Finalize, AfterFinalize, Off
<1>6. CASE Reconcile(d)
  <2>1. Backed(canon', receipts') BY <1>1, <1>2, <1>6, ReconcileBacked DEF Reconcile
  <2> QED BY <1>6, <2>1, LeaveFields, Heedless DEF Reconcile, Off
<1> QED BY <1>3, <1>4, <1>5, <1>6 DEF FinishStep

LEMMA RecoverHeeds ==
  ASSUME TypeInv, Ownership, Receipted, NEW d \in Driver, RecoverStep(d)
  PROVE  Heeds(d)
<1> USE DEF TypeInv, At, HeedfulPcs
<1>1. /\ Backed(canon, receipts) /\ CanonShape(canon)
      /\ lock = d => Holding(proc[d], canon) /\ Heeding(proc[d], receipts)
  BY DEF Receipted, Ownership
<1>2. CASE RecoverDraining(d) \/ RecoverReady(d) \/ RecoverLeftovers(d)
  BY <1>1, <1>2, LeaveFields, WaitAtFields, GotoFields, ProcFields, Heedless
  DEF RecoverDraining, RecoverReady, RecoverLeftovers, Disk, Off
<1>3. CASE RecoverIdle(d)
  <2>1. Backed(canon', receipts')
    BY <1>1, <1>3, ReconcileBacked DEF RecoverIdle, ActingPhases
  <2> QED BY <1>3, <2>1, GotoFields, Heedless DEF RecoverIdle
<1>4. CASE RecoverDead(d)
  <2>1. /\ canon'.phase = "failed" /\ canon'.req = canon.req /\ canon'.previous = canon.previous
        /\ canon'.last = AnonymousResult("failed")
    BY <1>4 DEF RecoverDead, Data, Canonical
  <2>2. canon.req = NoReq /\ canon.previous = NoRt
    BY <1>1, <1>4 DEF RecoverDead, CanonShape, OwnerMatchesPhase, StablePhases, NoSpare
  <2>3. Named(canon'.last.req, receipts) BY <2>1 DEF AnonymousResult, Result, Named
  <2>4. Backed(canon', receipts')
    BY <1>1, <1>4, <2>1, <2>2, <2>3, BackedSettling DEF RecoverDead, ActingPhases
  <2> QED BY <1>4, <2>4, LeaveFields, Heedless DEF RecoverDead, Off
<1>5. CASE RecoverCandidate(d)
  <2>1. Backed(canon', receipts')
    BY <1>1, <1>5, DiscardFields, SameBacked DEF RecoverCandidate
  <2> QED BY <1>5, <2>1, GotoFields, Heedless DEF RecoverCandidate
<1>6. CASE ResolveRestore(d)
  <2>1. proc'[d] = [proc[d] EXCEPT !.pc = "restore", !.req = canon.last.req, !.restoring = TRUE]
    BY <1>6, BecomeFields DEF ResolveRestore, Become
  <2>2. proc'[d].pc = "restore" BY <2>1, ProcFields DEF Procs
  <2> QED BY <1>1, <1>6, <2>2, Heedless DEF ResolveRestore, Disk
<1>7. ASSUME receipts' = receipts, canon' = RecoverFailed, canon.previous = NoRt
      PROVE  Backed(canon', receipts')
  <2>1. /\ canon'.phase = "failed" /\ canon'.req = canon.req /\ canon'.previous = NoRt
        /\ canon'.last.req \in {canon.req, canon.last.req}
    BY <1>7, RecoverFailedFields
  <2> QED BY <1>1, <1>7, <2>1 DEF Backed, ActingPhases
<1>8. ASSUME receipts' = receipts, NEW lst, Settle("idle", NoRt, NoRt, canon.retiring, lst),
             lst.req \in {NoReq, canon.req}
      PROVE  Backed(canon', receipts')
  <2>1. Named(lst.req, receipts) BY <1>1, <1>8 DEF Backed, Named
  <2> QED BY <1>1, <1>8, <2>1, SettlesBacked DEF ActingPhases
<1>9. AnonymousResult("succeeded").req = NoReq /\ Result(canon.req, "succeeded").req = canon.req
  BY DEF AnonymousResult, Result
<1>10. CASE ResolveStop(d) \/ ResolveIdle(d)
  <2>1. Backed(canon', receipts')
    <3>1. CASE canon' = RecoverFailed BY <1>7, <1>10, <3>1 DEF ResolveStop, ResolveIdle
    <3>2. CASE Settle("idle", NoRt, NoRt, canon.retiring, AnonymousResult("succeeded"))
      BY <1>8, <1>9, <1>10, <3>2 DEF ResolveStop, ResolveIdle
    <3> QED BY <1>10, <3>1, <3>2 DEF ResolveStop, ResolveIdle
  <2> QED BY <1>10, <2>1, LeaveFields, Heedless DEF ResolveStop, ResolveIdle, Off
<1>11. CASE RecoverStop(d)
  <2>1. canon.previous = NoRt
    BY <1>1, <1>11
    DEF RecoverStop, Interrupted, CanonShape, OwnerMatchesPhase, NoSpare
  <2>2. Backed(canon', receipts')
    <3>1. CASE canon' = RecoverFailed BY <1>7, <1>11, <2>1, <3>1 DEF RecoverStop
    <3>2. CASE Settle("idle", NoRt, NoRt, canon.retiring, Result(canon.req, "succeeded"))
      BY <1>8, <1>9, <1>11, <3>2 DEF RecoverStop
    <3> QED BY <1>11, <3>1, <3>2 DEF RecoverStop
  <2>3. CASE Leave(d) BY <2>2, <2>3, LeaveFields, Heedless DEF Off
  <2>4. CASE Become(d, [proc[d] EXCEPT !.pc = "finishLeave", !.req = canon.req, !.res = "succeeded"])
    <3>1. proc'[d] = [proc[d] EXCEPT !.pc = "finishLeave", !.req = canon.req, !.res = "succeeded"]
      BY <2>4, BecomeFields DEF Become
    <3>2. proc'[d].pc = "finishLeave" BY <3>1, ProcFields DEF Procs
    <3> QED BY <2>2, <3>2, Heedless
  <2> QED BY <1>11, <2>3, <2>4 DEF RecoverStop
<1>12. CASE RecoverSwitch(d)
  <2>1. proc'[d] = [proc[d] EXCEPT !.pc = "undo", !.req = canon.req]
    BY <1>12, BecomeFields DEF RecoverSwitch, Become
  <2>2. proc'[d].pc = "undo" BY <2>1, ProcFields DEF Procs
  <2>3. Backed(canon', receipts')
    BY <1>1, <1>12, TransitionFields, BackedStaying DEF RecoverSwitch, ActingPhases
  <2> QED BY <2>2, <2>3, Heedless
<1> QED BY <1>2, <1>3, <1>4, <1>5, <1>6, <1>10, <1>11, <1>12 DEF RecoverStep

LEMMA DispatchHeeds ==
  ASSUME TypeInv, Ownership, Receipted, NEW d \in Driver, DispatchStep(d)
  PROVE  Heeds(d)
<1> USE DEF TypeInv, At, HeedfulPcs
<1> DEFINE r == proc[d].req
<1>1. Backed(canon, receipts) /\ CanonShape(canon) BY DEF Receipted, Ownership
<1>2. CASE DispatchRefused(d) \/ DispatchUnqueueable(d) \/ DispatchExpired(d)
  BY <1>1, <1>2, LeaveFields, WaitAtFields, ProcFields, Heedless
  DEF DispatchRefused, DispatchUnqueueable, DispatchExpired, Disk, Off
<1>3. CASE DispatchEnqueue(d)
  <2>1. PICK g : receipts' = [receipts EXCEPT ![r] =
                                [st |-> "queued", gen |-> g, goal |-> RequestGoal(r)]]
    BY <1>3 DEF DispatchEnqueue
  <2>2. \A s \in Req : s # r => receipts'[s] = receipts[s] BY <2>1 DEF Data
  <2>3. r \in Req => receipts[r].st = "none" /\ receipts'[r].st = "queued"
    BY <1>3, <2>1 DEF DispatchEnqueue, MustEnqueue, Data
  <2>4. Backed(canon', receipts')
    BY <1>1, <1>3, <2>2, <2>3, BackedLanding DEF DispatchEnqueue
  <2>5. Goto(d, "enqueue") BY <1>3 DEF DispatchEnqueue
  <2> QED BY <2>4, <2>5, GotoFields, Heedless
<1>4. CASE Enqueue(d)
  <2>1. /\ canon'.phase = canon.phase /\ canon'.req = canon.req
        /\ canon'.last = canon.last /\ canon'.previous = canon.previous
    BY <1>4 DEF Enqueue, Data, Canonical
  <2>2. Backed(canon', receipts') BY <1>1, <1>4, <2>1, SameBacked DEF Enqueue
  <2> QED BY <1>4, <2>2, LeaveFields, WaitAtFields, ProcFields, Heedless DEF Enqueue, Off
<1>5. CASE DispatchDone(d)
  <2>1. receipts[r].st = "queued" /\ UNCHANGED canon BY <1>5 DEF DispatchDone, AlreadyDone
  <2>2. \A s \in Req : receipts'[s].st = (IF s = r THEN "succeeded" ELSE receipts[s].st)
    BY <1>5 DEF DispatchDone, SetStatus, Data, Receipts
  <2>3. Backed(canon', receipts') BY <1>1, <2>1, <2>2, BackedLanding
  <2> QED BY <1>5, <2>3, LeaveFields, Heedless DEF DispatchDone, Off
<1>6. CASE DispatchAccept(d)
  <2>1. PICK g : Become(d, [proc[d] EXCEPT !.pc = "accept", !.goal = g])
    BY <1>6 DEF DispatchAccept
  <2>2. proc'[d] = [proc[d] EXCEPT !.pc = "accept", !.goal = g]
    BY <2>1, BecomeFields DEF Become
  <2>3. proc'[d].pc = "accept" /\ proc'[d].req = r BY <2>2, ProcFields DEF Procs
  <2>4. Ahead(r, receipts) BY <1>6 DEF DispatchAccept, BehindQueue, Ahead
  <2> QED BY <1>1, <1>6, <2>3, <2>4 DEF DispatchAccept, Disk, Heeds, Heeding
<1> QED BY <1>2, <1>3, <1>4, <1>5, <1>6 DEF DispatchStep

LEMMA AcceptHeeds ==
  ASSUME TypeInv, Ownership, Receipted, Pending, NEW d \in Driver, AcceptStep(d)
  PROVE  Heeds(d)
<1> USE DEF TypeInv, At, HeedfulPcs
<1> DEFINE r == proc[d].req
<1>1. /\ Backed(canon, receipts) /\ CanonShape(canon)
      /\ lock = d => Holding(proc[d], canon) /\ Heeding(proc[d], receipts)
      /\ PendingOf(proc[d], receipts)
  BY DEF Receipted, Ownership, Pending
<1>2. Asked(proc[d]) => r \in Req BY DEF Control
<1>3. ASSUME UNCHANGED Disk, proc'[d].pc \notin HeedfulPcs PROVE Heeds(d)
  BY <1>1, <1>3, Heedless DEF Disk
<1>4. CASE AcceptRefused(d) \/ AcceptReplay(d)
  BY <1>3, <1>4, LeaveFields, GotoFields DEF AcceptRefused, AcceptReplay, Off
<1>5. CASE AcceptBump(d)
  <2>1. /\ canon'.phase = canon.phase /\ canon'.req = canon.req
        /\ canon'.last = canon.last /\ canon'.previous = canon.previous
    BY <1>5 DEF AcceptBump, Data, Canonical
  <2>2. Backed(canon', receipts') BY <1>1, <1>5, <2>1, SameBacked DEF AcceptBump
  <2>3. lock = d /\ UNCHANGED <<receipts, proc>> BY <1>5 DEF AcceptBump
  <2> QED BY <1>1, <2>2, <2>3 DEF Heeds
<1>6. CASE AcceptFresh(d)
  <2>1. CASE Leave(d) /\ UNCHANGED receipts
    BY <1>3, <1>6, <2>1, LeaveFields DEF AcceptFresh, Disk, Off
  <2>2. CASE Goto(d, "alloc")
    <3>1. PICK g \in 1..MaxGen :
            receipts' = [receipts EXCEPT ![r] =
              [st |-> "allocating", gen |-> g,
               goal |-> IF OpOf[r] = "rotate" THEN NoGame ELSE proc[d].goal]]
      <4>1. ~Leave(d) BY <2>2, GotoFields, LeaveFields DEF Off
      <4> QED BY <1>6, <4>1 DEF AcceptFresh
    <3>2. r \in Req /\ receipts[r].st = "none" /\ canon' = canon
      BY <1>2, <1>6 DEF AcceptFresh, Asked, AskedPcs
    <3>3. receipts'[r].st = "allocating" /\ \A s \in Req \ {r} : receipts'[s] = receipts[s]
      BY <3>1, <3>2 DEF Data
    <3>4. canon.req = NoReq BY <1>1, <1>6, <3>2 DEF AcceptFresh, Claimable, Backed, Named
    <3>5. InFlight(receipts') = {r}
      BY <1>6, <3>2, <3>3 DEF AcceptFresh, Claimable, InFlight
    <3>6. Queued(receipts') = {}
      BY <1>1, <1>6, <3>2, <3>3 DEF AcceptFresh, Heeding, Ahead, IsHead, Queued
    <3>7. canon.phase \notin ActingPhases \cup {"failed"}
      BY <1>1, <1>6, <3>4
      DEF AcceptFresh, Holding, CanonShape, OwnerMatchesPhase, ActingPhases, InProgressPhases, Phases
    <3>8. Named(canon.last.req, receipts')
      BY <1>1, <3>3, CanonFields DEF Backed, Named, Results
    <3>9. Backed(canon', receipts') BY <3>2, <3>4, <3>5, <3>7, <3>8 DEF Backed, Named
    <3> QED BY <2>2, <3>6, <3>9, GotoFields DEF Heeds, Heeding, Ahead
  <2> QED BY <1>6, <2>1, <2>2 DEF AcceptFresh
<1>7. ASSUME receipts' = receipts, r \in Req, InFlight(receipts) \subseteq {r},
             receipts[r].st # "none", canon'.phase = "validating", canon'.req = r,
             canon'.last = canon.last, proc'[d].pc \notin HeedfulPcs
      PROVE  Heeds(d)
  <2>1. Backed(canon', receipts') BY <1>1, <1>7 DEF Backed, ActingPhases, Named
  <2> QED BY <1>7, <2>1, Heedless
<1>8. CASE Alloc(d)
  <2>1. r \in Req /\ receipts[r].st = "allocating"
    BY <1>1, <1>2, <1>8 DEF Alloc, Asked, AskedPcs, PendingOf
  <2>2. InFlight(receipts) \subseteq {r} BY <1>1, <2>1 DEF Backed, InFlight
  <2>3. canon'.phase = "validating" /\ canon'.req = r /\ canon'.last = canon.last
    BY <1>8 DEF Alloc, Data, Canonical
  <2> QED BY <1>7, <1>8, <2>1, <2>2, <2>3, GotoFields DEF Alloc
<1>9. CASE AcceptClaim(d)
  <2>1. r \in Req /\ receipts[r].st = "queued" /\ InFlight(receipts) \subseteq {r}
    BY <1>2, <1>9 DEF AcceptClaim, Asked, AskedPcs, Claimable
  <2>2. CASE /\ canon' = [canon EXCEPT !.phase = "validating", !.req = r]
             /\ Goto(d, "claim") /\ UNCHANGED receipts
    <3>1. canon'.phase = "validating" /\ canon'.req = r /\ canon'.last = canon.last
      BY <2>2 DEF Data, Canonical
    <3> QED BY <1>7, <2>1, <2>2, <3>1, GotoFields
  <2>3. CASE SetStatus(r, "failed") /\ Leave(d) /\ UNCHANGED canon
    <3>1. \A s \in Req : receipts'[s].st = (IF s = r THEN "failed" ELSE receipts[s].st)
      BY <2>3 DEF SetStatus, Data, Receipts
    <3>2. Backed(canon', receipts') BY <1>1, <2>1, <2>3, <3>1, BackedLanding
    <3> QED BY <2>3, <3>2, LeaveFields, Heedless DEF Off
  <2> QED BY <1>9, <2>2, <2>3 DEF AcceptClaim
<1>10. CASE AcceptAllocating(d)
  <2>1. r \in Req /\ receipts[r].st = "allocating" /\ InFlight(receipts) \subseteq {r}
    BY <1>2, <1>10 DEF AcceptAllocating, Asked, AskedPcs, Claimable
  <2>2. canon'.phase = "validating" /\ canon'.req = r /\ canon'.last = canon.last
    BY <1>10 DEF AcceptAllocating, Data, Canonical
  <2> QED BY <1>7, <1>10, <2>1, <2>2, GotoFields DEF AcceptAllocating
<1>11. CASE MarkAccepted(d)
  <2>1. canon.phase = "validating" /\ canon.req = r /\ canon.req # NoReq
    BY <1>1, <1>11
    DEF MarkAccepted, Holding, OwnerPcs, ClaimedPcs, CanonShape, OwnerMatchesPhase,
        InProgressPhases, Phases
  <2>2. r \in Req BY <2>1, ProcFields
  <2>3. \A s \in Req : receipts'[s].st = (IF s = r THEN "accepted" ELSE receipts[s].st)
    BY <1>11, <2>2 DEF MarkAccepted, SetStatus, Data, Receipts
  <2>4. InFlight(receipts') = {r} BY <1>1, <2>1, <2>2, <2>3 DEF Backed, InFlight
  <2>5. Named(canon.last.req, receipts') BY <1>1, <2>3, CanonFields DEF Backed, Named, Results
  <2>6. Backed(canon', receipts')
    BY <1>11, <2>1, <2>2, <2>3, <2>4, <2>5 DEF MarkAccepted, Backed, Named, ActingPhases
  <2> QED BY <1>11, <2>2, <2>3, <2>6, GotoFields DEF MarkAccepted, Heeds, Heeding
<1>12. CASE Overdue(d)
  <2>1. PICK ph, act, prev, ret, lst :
          ph \in StablePhases /\ Settle(ph, act, prev, ret, lst) /\ lst.req = r
    BY <1>12 DEF Overdue, Result, StablePhases
  <2>2. Settle(ph, act, prev, ret, lst) BY <2>1
  <2>3. canon.req = r BY <1>1, <1>12 DEF Overdue, Holding, OwnerPcs, ClaimedPcs
  <2>4. Backed(canon', receipts')
    BY <1>1, <1>12, <2>1, <2>2, <2>3, SettlesBacked DEF Overdue, ActingPhases, StablePhases, Backed
  <2> QED BY <1>12, <2>4, FinishAsFields, Heedless DEF Overdue
<1>13. CASE AcceptOrphan(d)
  <2>1. r \in Req /\ receipts[r].st = "accepted" /\ canon.req = NoReq /\ canon' = canon
    BY <1>2, <1>13 DEF AcceptOrphan, Orphaned, Asked, AskedPcs
  <2>2. canon.phase \notin ActingPhases
    BY <1>1, <2>1 DEF CanonShape, OwnerMatchesPhase, ActingPhases, InProgressPhases, Phases
  <2>3. CASE Goto(d, "finalize")
    <3>1. PICK st \in TerminalStatuses : SetStatus(r, st)
      BY <1>13, <2>3, GotoFields DEF AcceptOrphan, ResultRecorded, TerminalStatuses
    <3>2. Backed(canon', receipts') BY <1>1, <2>1, <2>2, <3>1, SettledBacked
    <3> QED BY <2>3, <3>2, GotoFields, Heedless
  <2>4. CASE SetStatus(r, "queued") /\ UNCHANGED <<lock, proc>>
    <3>1. \A s \in Req : receipts'[s].st = (IF s = r THEN "queued" ELSE receipts[s].st)
      BY <2>1, <2>4 DEF SetStatus, Data, Receipts
    <3>2. Backed(canon', receipts') BY <1>1, <2>1, <2>2, <3>1, BackedLanding
    <3>3. Queued(receipts) = {}
      BY <1>1, <1>13, <2>1 DEF AcceptOrphan, Heeding, Ahead, IsHead, Queued
    <3>4. Queued(receipts') = {r} BY <2>1, <3>1, <3>3 DEF Queued
    <3>5. receipts'[r].gen \in Nat BY <2>1, <2>4 DEF SetStatus, Data, Receipts
    <3>6. Ahead(r, receipts') BY <3>4, <3>5 DEF Ahead, IsHead
    <3> QED BY <1>13, <2>4, <3>2, <3>6 DEF AcceptOrphan, Heeds, Heeding
  <2> QED BY <1>13, <2>3, <2>4 DEF AcceptOrphan
<1> QED BY <1>4, <1>5, <1>6, <1>8, <1>9, <1>10, <1>11, <1>12, <1>13 DEF AcceptStep

LEMMA EntryHeeds ==
  ASSUME TypeInv, Ownership, Receipted, NEW d \in Driver,
         (\E r \in Req : Request(d, r)) \/ Recover(d) \/ Maintain(d) \/ Resume(d)
  PROVE  Heeds(d)
<1> USE DEF TypeInv, HeedfulPcs
<1>1. Backed(canon, receipts) BY DEF Receipted
<1>2. CASE \E r \in Req : Request(d, r)
  <2>1. PICK r \in Req : Request(d, r) BY <1>2
  <2>2. proc'[d] = [Off EXCEPT !.pc = "dispatch", !.req = r]
    BY <2>1, BecomeFields DEF Request, Acquire
  <2>3. proc'[d].pc = "dispatch" BY <2>2 DEF Off
  <2> QED BY <1>1, <2>1, <2>3, Heedless DEF Request, Disk
<1>3. CASE Recover(d)
  <2>1. proc'[d] = [Off EXCEPT !.pc = "recover", !.mode = "recover"]
    BY <1>3, BecomeFields DEF Recover, Acquire
  <2>2. proc'[d].pc = "recover" BY <2>1 DEF Off
  <2> QED BY <1>1, <1>3, <2>2, Heedless DEF Recover, Disk
<1>4. CASE MaintainDrain(d)
  <2>1. [Off EXCEPT !.mode = "maintain"] \in Procs BY OffTyped DEF Procs
  <2>2. proc'[d].pc = "expire" BY <1>4, <2>1, WaitAtFields DEF MaintainDrain
  <2> QED BY <1>1, <1>4, <2>2, Heedless DEF MaintainDrain, Disk
<1>5. CASE ResumeHead(d)
  <2>1. canon' = canon /\ canon.phase \notin ActingPhases /\ lock' # d
    BY <1>5, DriverAssumption DEF ResumeHead, StablePhases, ActingPhases, Release
  <2>2. receipts' = receipts \/ \E h \in Req : SetStatus(h, "failed")
    BY <1>5 DEF ResumeHead
  <2>3. Backed(canon', receipts')
    BY <1>1, <2>1, <2>2, SettledBacked DEF TerminalStatuses
  <2> QED BY <2>1, <2>3 DEF Heeds
<1>6. CASE Resume(d)
  <2>1. proc' = [proc EXCEPT ![d] = [proc[d] EXCEPT !.pc = "dispatch"]]
    BY <1>6 DEF Resume, Acquire
  <2>2. proc'[d].pc = "dispatch" BY <2>1, MoveFields
  <2> QED BY <1>1, <1>6, <2>2, Heedless DEF Resume, Disk
<1> QED BY <1>2, <1>3, <1>4, <1>5, <1>6 DEF Maintain

LEMMA ReceiptedOwned == ASSUME Receipted PROVE Owned
BY DEF Receipted, Backed, Named, Owned

(* ResumeBusy and Crash change no file, and let go of the lock.            *)
LEMMA StepHeeds ==
  ASSUME TypeInv, Ownership, Receipted, Pending, NEW d \in Driver, AnyStep(d)
  PROVE  Heeds(d)
<1>1. CASE (\E r \in Req : Request(d, r)) \/ Recover(d) \/ Maintain(d) \/ Resume(d)
  BY <1>1, EntryHeeds
<1>2. CASE DispatchStep(d) \/ AcceptStep(d) \/ SwitchStep(d) \/ BoundaryStep(d)
  BY <1>2, DispatchHeeds, AcceptHeeds, SwitchHeeds, BoundaryHeeds
<1>3. CASE StopStep(d) \/ RestoreStep(d) \/ FinishStep(d) \/ RecoverStep(d)
  BY <1>3, StopHeeds, RestoreHeeds, FinishHeeds, RecoverHeeds
<1>4. CASE ResumeBusy(d) \/ Crash(d)
  <2>1. proc'[d] = Off BY <1>4, BecomeFields DEF TypeInv, ResumeBusy, Crash
  <2> QED BY <1>4, <2>1, Heedless DEF ResumeBusy, Crash, Disk, Receipted, Off, HeedfulPcs
<1> QED BY <1>1, <1>2, <1>3, <1>4 DEF AnyStep, DriverStep

LEMMA NextReceipted ==
  TypeInv /\ Ownership /\ Pending /\ Receipted /\ [Next]_vars => Receipted'
<1> SUFFICES ASSUME TypeInv, Ownership, Pending, Receipted, [Next]_vars PROVE Receipted'
  OBVIOUS
<1>1. CASE \E d \in Driver : AnyStep(d)
  BY <1>1, ReceiptedOwned, StepOwned, StepHeeds, HeedsReceipted, BystandsReceipted
<1>2. CASE Expire
  <2>1. Backed(canon', receipts')
    BY <1>2, ExpireFields, SameBacked DEF TypeInv, Expire, Receipted
  <2> QED BY <1>2, <2>1 DEF Expire, Receipted
<1>3. CASE \E rt \in live : GameDies(rt) BY <1>3 DEF GameDies, Disk, Receipted
<1>4. CASE UNCHANGED vars BY <1>4 DEF vars, Receipted
<1> QED BY <1>1, <1>2, <1>3, <1>4, NextSteps

LEMMA InitReceipted == Init => Receipted
<1> SUFFICES ASSUME Init PROVE Receipted
  OBVIOUS
<1>1. InFlight(receipts) = {} BY DEF Init, InFlight, NoReceipt
<1>2. canon.req = NoReq /\ canon.last.req = NoReq /\ canon.phase \in {"idle", "ready"}
  BY DEF Init, NoResult
<1> QED BY <1>1, <1>2, DriverAssumption DEF Init, Receipted, Backed, Named, ActingPhases

-----------------------------------------------------------------------------
(* What follows for every behaviour                                        *)

OwnInv == TypeInv /\ Pending /\ Ownership /\ Receipted

LEMMA AlwaysOwned == Spec => []OwnInv
<1>1. Init => OwnInv
  BY InitTyped, InitOwned, InitReceipted DEF Init, Pending, PendingOf, Off, OwnInv
<1>2. OwnInv /\ [Next]_vars => OwnInv'
  BY NextTyped, NextKeeps, NextOwned, NextReceipted, ReceiptedOwned DEF OwnInv
<1> QED BY <1>1, <1>2, PTL DEF Spec

LEMMA OwnersActInv == OwnInv => DriverOwnsCanonical
<1> SUFFICES ASSUME OwnInv, NEW d \in Driver, Working(d)
             PROVE  lock = d /\ canon.req = proc[d].req /\ receipts[proc[d].req].st = "accepted"
  BY DEF DriverOwnsCanonical
<1>1. lock = d BY DEF OwnInv, TypeInv, Control, Working, LockedPcs
<1>2. canon.req = proc[d].req
  BY <1>1 DEF OwnInv, Ownership, Holding, Working, OwnerPcs, ClaimedPcs, SwitchPcs, StopPcs
<1>3. receipts[proc[d].req].st = "accepted"
  <2>1. CASE proc[d].pc = "run" BY <1>1, <2>1 DEF OwnInv, Receipted, Heeding
  <2>2. CASE proc[d].pc # "run"
    <3>1. canon.phase \in ActingPhases
      BY <1>1, <2>2 DEF OwnInv, Ownership, Holding, Working, ActingPhases
    <3> QED BY <1>2, <3>1 DEF OwnInv, Receipted, Backed
  <2> QED BY <2>1, <2>2
<1> QED BY <1>1, <1>2, <1>3

(* A driver that acts on a game for a request holds the lock, the request  *)
(* owns the canonical document and its receipt is accepted.                *)
THEOREM OwnersAct == Spec => []DriverOwnsCanonical
BY OwnersActInv, AlwaysOwned, PTL

LEMMA SingleFlightInv == OwnInv => OneInFlight
<1> SUFFICES ASSUME OwnInv PROVE OneInFlight
  OBVIOUS
<1>1. Backed(canon, receipts) BY DEF OwnInv, Receipted
<1>2. Cardinality(InFlight(receipts)) <= 1
  <2>1. CASE InFlight(receipts) = {} BY <2>1, FS_EmptySet
  <2>2. CASE InFlight(receipts) # {}
    <3>1. PICK r \in InFlight(receipts) : TRUE BY <2>2
    <3>2. InFlight(receipts) = {r} BY <1>1, <3>1 DEF Backed
    <3> QED BY <3>2, FS_Singleton
  <2> QED BY <2>1, <2>2
<1> QED BY <1>1, <1>2 DEF Backed, OneInFlight

(* No two receipts are in flight, whatever crashed and was sent again, and *)
(* the one that is belongs to the owner of the document when it has one.   *)
THEOREM SingleFlight == Spec => []OneInFlight
BY SingleFlightInv, AlwaysOwned, PTL

LEMMA RestoreIsNamedInv == OwnInv => RecoverableIdentity
BY DEF OwnInv, Ownership, CanonShape, RecoverableIdentity

(* A failed switch that still has a game to restore names its request.     *)
THEOREM RestoreIsNamed == Spec => []RecoverableIdentity
BY RestoreIsNamedInv, AlwaysOwned, PTL

(* Only three steps claim the document: right after the receipt of a fresh *)
(* request, for the head of the queue, and for a request that crashed      *)
(* between the two.                                                        *)
LEMMA SettleClaimsNot ==
  ASSUME Data, NEW ph \in Phases \ {"validating"}, NEW act, NEW prev, NEW ret, NEW lst,
         Settle(ph, act, prev, ret, lst)
  PROVE  ~Claims
BY SettleFields DEF Claims

LEMMA Claimers ==
  ASSUME TypeInv, [Next]_vars, Claims
  PROVE  \E d \in Driver : Alloc(d) \/ AcceptClaim(d) \/ AcceptAllocating(d)
<1> USE DEF TypeInv
<1> SUFFICES ASSUME \A d \in Driver : ~(Alloc(d) \/ AcceptClaim(d) \/ AcceptAllocating(d))
             PROVE  FALSE
  OBVIOUS
<1>1. canon'.phase # canon.phase /\ canon' # canon BY DEF Claims
<1>2. PICK d \in Driver : AnyStep(d)
  BY <1>1, NextSteps, ExpireFields DEF GameDies, Disk, vars
<1>3. ASSUME NEW ph \in Phases \ {"validating"}, Transition(ph) PROVE FALSE
  BY <1>3, TransitionFields DEF Claims
<1>4. CASE (\E r \in Req : Request(d, r)) \/ Recover(d) \/ Maintain(d) \/ Resume(d)
           \/ ResumeBusy(d) \/ Crash(d)
  BY <1>1, <1>4 DEF Request, Recover, Maintain, MaintainDrain, ResumeHead, Resume, ResumeBusy,
                    Crash, Disk
<1>5. CASE DispatchStep(d)
  BY <1>1, <1>5
  DEF DispatchStep, DispatchRefused, DispatchEnqueue, DispatchUnqueueable, Enqueue,
      DispatchExpired, DispatchDone, DispatchAccept, Disk, Data, Canonical
<1>6. CASE AcceptStep(d)
  <2>1. CASE Overdue(d)
    <3>1. PICK ph, act, prev, ret, lst :
            ph \in {"idle", "ready"} /\ Settle(ph, act, prev, ret, lst)
      BY <2>1 DEF Overdue
    <3> QED BY <3>1, SettleClaimsNot DEF Phases
  <2> QED
    BY <1>1, <1>2, <1>6, <2>1
    DEF AcceptStep, AcceptRefused, AcceptBump, AcceptFresh, MarkAccepted, AcceptReplay,
        AcceptOrphan, Disk, Data, Canonical
<1>7. CASE SwitchStep(d)
  <2>1. CASE Commit(d)
    <3>1. PICK act, ret, lst : Settle("ready", act, NoRt, ret, lst) BY <2>1 DEF Commit
    <3> QED BY <3>1, SettleClaimsNot DEF Phases
  <2>2. CASE RunSwitch(d) \/ Quiesce(d) \/ Starting(d)
    BY <1>1, <2>2 DEF RunSwitch, Quiesce, Starting, Data, Canonical, Claims
  <2>3. CASE ~Commit(d) /\ ~RunSwitch(d) /\ ~Quiesce(d) /\ ~Starting(d)
    <3>1. \E ph \in {"draining", "rolling_back", "probing"} : Transition(ph)
      BY <1>1, <1>7, <2>3
      DEF SwitchStep, Drain, DrainUnsupported, StopOld, Materialize, Probing, Probe,
          ProbeFindsNothing, SwitchFails, StepFails, RollBack, Disk
    <3> QED BY <1>3, <3>1 DEF Phases
  <2> QED BY <2>1, <2>2, <2>3
<1>8. CASE BoundaryStep(d)
  <2>1. CASE Retain(d) \/ RetireDead(d) \/ ExpireDrain(d)
    <3>1. PICK ph, act, ret, lst : ph \in {"ready", "idle"} /\ Settle(ph, act, NoRt, ret, lst)
      BY <2>1 DEF Retain, RetireDead, ExpireDrain
    <3> QED BY <3>1, SettleClaimsNot DEF Phases
  <2> QED
    BY <1>1, <1>8, <2>1
    DEF BoundaryStep, BoundaryReached, BoundaryFailed, WaitLost, Cancelled, CancelRefused,
        CollectDead, ExpireRefused, ExpireOvertaken, Disk, Data, Canonical, Claims
<1>9. CASE StopStep(d)
  <2>1. CASE \E ph \in {"failed", "idle"} : \E act, ret, lst : Settle(ph, act, NoRt, ret, lst)
    BY <2>1, SettleClaimsNot DEF Phases
  <2>2. CASE canon' = [canon EXCEPT !.phase = "draining", !.expired = FALSE]
    BY <2>2 DEF Data, Canonical, Claims
  <2> QED
    BY <1>3, <1>9, <2>1, <2>2
    DEF StopStep, RunStop, StopAgent, StopGame, FailKeepingActive, Phases
<1>10. CASE RestoreStep(d)
  <2>1. CASE NothingToRestore(d) \/ \E rt : PublishRestored(d, rt)
    <3>1. PICK ph, act, ret, lst : ph \in {"failed", "ready"} /\ Settle(ph, act, NoRt, ret, lst)
      BY <2>1 DEF NothingToRestore, PublishRestored
    <3> QED BY <3>1, SettleClaimsNot DEF Phases
  <2>2. CASE DiscardCandidate BY <1>1, <2>2, DiscardFields
  <2>3. CASE PickPrevious(d) \/ RestoreAlive(d) \/ RestoreFresh(d) \/ Abandon(d)
    BY <1>1, <2>3 DEF PickPrevious, RestoreAlive, RestoreFresh, Abandon, Data, Canonical, Claims
  <2>4. CASE canon' = RecoverFailed BY <2>4, RecoverFailedFields DEF Claims
  <2> QED
    BY <1>1, <1>10, <2>1, <2>2, <2>3, <2>4
    DEF RestoreStep, UndoCandidate, RestoreRefused, RestartAgent, Restart, Publish, DropRestart,
        AbandonRecovery, Disk
<1>11. CASE FinishStep(d)
  BY <1>1, <1>11
  DEF FinishStep, Finish, FinalizeReceipt, Finalize, Reconcile, Data, Canonical
<1>12. CASE RecoverStep(d)
  <2>1. CASE \E lst : Settle("idle", NoRt, NoRt, canon.retiring, lst)
    BY <2>1, SettleClaimsNot DEF Phases
  <2>2. CASE DiscardCandidate BY <1>1, <2>2, DiscardFields
  <2>3. CASE RecoverDead(d) BY <2>3 DEF RecoverDead, Data, Canonical, Claims
  <2>4. CASE canon' = RecoverFailed BY <2>4, RecoverFailedFields DEF Claims
  <2> QED
    BY <1>1, <1>3, <1>12, <2>1, <2>2, <2>3, <2>4
    DEF RecoverStep, RecoverDraining, RecoverIdle, RecoverReady, RecoverCandidate,
        RecoverLeftovers, ResolveRestore, ResolveStop, ResolveIdle, RecoverStop, RecoverSwitch,
        Disk, Phases
<1> QED BY <1>2, <1>4, <1>5, <1>6, <1>7, <1>8, <1>9, <1>10, <1>11, <1>12 DEF AnyStep, DriverStep

LEMMA ClaimantAhead ==
  ASSUME OwnInv, [Next]_vars, Claims
  PROVE  /\ canon'.req \in Req /\ Ahead(canon'.req, receipts)
         /\ receipts[canon'.req].st \in {"allocating", "queued"}
<1> USE DEF OwnInv, TypeInv, At
<1>1. PICK d \in Driver : Alloc(d) \/ AcceptClaim(d) \/ AcceptAllocating(d) BY Claimers
<1> DEFINE r == proc[d].req
<1>2. r \in Req
  BY <1>1 DEF Control, Alloc, AcceptClaim, AcceptAllocating, Asked, AskedPcs
<1>3. Ahead(r, receipts)
  BY <1>1 DEF Receipted, Heeding, Alloc, AcceptClaim, AcceptAllocating
<1>4. canon'.req = r
  BY <1>1 DEF Alloc, AcceptClaim, AcceptAllocating, Data, Canonical, Claims
<1>5. receipts[r].st \in {"allocating", "queued"}
  BY <1>1 DEF Alloc, AcceptClaim, AcceptAllocating, Pending, PendingOf
<1> QED BY <1>2, <1>3, <1>4, <1>5

(* A request that claims the canonical document is ahead of every request  *)
(* that is queued at that moment, whether it comes from the queue, is      *)
(* fresh, or is sent again after its driver died.                          *)
THEOREM ClaimsInOrder == Spec => FifoOrder
<1>1. OwnInv /\ [Next]_vars
        => [Claims => \A q \in Queued(receipts) : receipts[canon'.req].gen <= receipts[q].gen]_vars
  BY ClaimantAhead DEF Ahead, IsHead
<1> QED BY <1>1, AlwaysOwned, PTL DEF Spec, FifoOrder
=============================================================================
