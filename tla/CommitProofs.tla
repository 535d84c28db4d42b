---------------------------- MODULE CommitProofs ----------------------------
(***************************************************************************)
(* What a commit promises: the request whose commit replaced a game is     *)
(* answered as succeeded, whatever becomes of the driver that wrote it,    *)
(* and is never run again.  Until its receipt says so, the runtime it      *)
(* retired is the proof.                                                   *)
(***************************************************************************)
EXTENDS RuntimeProofs

(* No retiree is there on behalf of r.                                     *)
Unretired(r, c) == r # NoReq => \A e \in c.retiring : e.proof # r

(* What the holder of the lock is about to answer as failed.               *)
PleadingPcs == {"finish", "finishLeave", "finishRedo", "retireDead"}
Pleading(p, c) ==
  /\ p.pc \in {"finish", "finishLeave"} /\ p.res # "succeeded" => Unretired(p.req, c)
  /\ p.pc = "retireDead" => Unretired(p.req, c)
  /\ p.pc = "finishRedo" => Unretired(p.drain, c)

(* Every commit that replaced a game is answered, or its proof is kept.    *)
CommitsKept == \A k \in committed :
                 k.src => /\ k.req \in Req
                          /\ receipts[k.req].st = "succeeded" \/ RetiredBy(k.req)

FailedStatuses == {"failed", "rolled_back"}

Proven == /\ RetireesProvable /\ CommitsKept
          /\ Unretired(canon.req, canon)
          /\ canon.last.st \in FailedStatuses => Unretired(canon.last.req, canon)
          /\ \A d \in Driver : lock = d => Pleading(proc[d], canon)

-----------------------------------------------------------------------------
(* How a step preserves Proven                                             *)

(* Retirees come without a proof, and go when their proof is settled.      *)
Rehouses == /\ \A e \in canon'.retiring : e \in canon.retiring \/ e.proof = NoReq
            /\ \A e \in canon.retiring \ canon'.retiring :
                 e.proof # NoReq => receipts[e.proof].st = "succeeded"

(* A receipt that is a proof is not written as anything but succeeded.     *)
SparesProofs == \A r \in Req : \/ receipts'[r].st = receipts[r].st
                               \/ receipts'[r].st \in {"accepted", "succeeded"}
                               \/ ~RetiredBy(r)

(* A step that commits nothing, seen from the document before it.          *)
Honours(d) == /\ Rehouses /\ SparesProofs /\ committed' = committed
              /\ Unretired(canon'.req, canon)
              /\ canon'.last.st \in FailedStatuses => Unretired(canon'.last.req, canon)
              /\ lock' = d => Pleading(proc'[d], canon)

LEMMA StillUnretired ==
  ASSUME Rehouses, NEW r, Unretired(r, canon)
  PROVE  Unretired(r, canon')
BY DEF Rehouses, Unretired

LEMMA KeptCommits ==
  ASSUME CommitsKept, Rehouses, TerminalKept, committed' = committed
  PROVE  CommitsKept'
<1> SUFFICES ASSUME NEW k \in committed, k.src
             PROVE  k.req \in Req /\ (receipts'[k.req].st = "succeeded" \/ RetiredBy(k.req)')
  BY DEF CommitsKept
<1>1. k.req \in Req /\ (receipts[k.req].st = "succeeded" \/ RetiredBy(k.req))
  BY DEF CommitsKept
<1>2. receipts[k.req].st = "succeeded" => receipts'[k.req].st = "succeeded"
  BY <1>1 DEF TerminalKept, Terminal, TerminalStatuses
<1>3. CASE RetiredBy(k.req)
  <2>1. PICK e \in canon.retiring : e.proof = k.req BY <1>3 DEF RetiredBy
  <2>2. CASE e \in canon'.retiring BY <1>1, <2>1, <2>2 DEF RetiredBy
  <2>3. CASE e \notin canon'.retiring
    BY <1>1, <1>2, <2>1, <2>3, ReqAssumption DEF Rehouses
  <2> QED BY <2>2, <2>3
<1> QED BY <1>1, <1>2, <1>3

LEMMA HonoursProven ==
  ASSUME Data, Proven, TerminalKept, NEW d \in Driver, Keeps(d), Honours(d)
  PROVE  Proven'
<1>1. Rehouses BY DEF Honours
<1>2. RetireesProvable'
  <2> SUFFICES ASSUME NEW e \in canon'.retiring, e.proof # NoReq
               PROVE  receipts'[e.proof].st \in {"accepted", "succeeded"}
    BY DEF RetireesProvable
  <2>1. e \in canon.retiring BY <1>1 DEF Rehouses
  <2>2. e.proof \in Req /\ RetiredBy(e.proof)
    BY <2>1, CanonFields DEF Retirees, RetiredBy
  <2>3. receipts[e.proof].st \in {"accepted", "succeeded"}
    BY <2>1 DEF Proven, RetireesProvable
  <2> QED BY <2>2, <2>3 DEF Honours, SparesProofs
<1>3. CommitsKept' BY <1>1, KeptCommits DEF Proven, Honours
<1>4. /\ Unretired(canon'.req, canon')
      /\ canon'.last.st \in FailedStatuses => Unretired(canon'.last.req, canon')
  BY <1>1, StillUnretired DEF Honours
<1>5. ASSUME NEW e \in Driver, lock' = e PROVE Pleading(proc'[e], canon')
  <2>1. e = d /\ Pleading(proc'[d], canon)
    BY <1>5, DriverAssumption DEF Keeps, Honours
  <2> QED BY <1>1, <2>1, StillUnretired DEF Pleading
<1> QED BY <1>2, <1>3, <1>4, <1>5 DEF Proven

LEMMA BystandsProven ==
  ASSUME Proven, NEW d \in Driver, Bystands(d)
  PROVE  Proven'
<1>1. UNCHANGED <<canon, receipts, committed>> BY DEF Bystands, Disk, World
<1>2. \A e \in Driver : lock' = e => lock = e /\ proc'[e] = proc[e]
  BY DriverAssumption DEF Bystands, Others
<1> QED BY <1>1, <1>2 DEF Proven, RetireesProvable, CommitsKept, RetiredBy

(* The holder answers for the owner of the document, or for nobody.        *)
AnswersOwner(p) == \/ p.pc \notin PleadingPcs
                   \/ p.pc # "finishRedo" /\ p.req \in {canon.req, NoReq}
                   \/ p.pc = "finishRedo" /\ p.drain \in {canon.req, NoReq}
                   \/ p.pc \in {"finish", "finishLeave"} /\ p.res = "succeeded"

LEMMA OwnerHonours ==
  ASSUME Proven, NEW d \in Driver, Rehouses, UNCHANGED <<receipts, committed>>,
         canon'.req \in {canon.req, NoReq},
         \/ canon'.last = canon.last
         \/ canon'.last.req \in {canon.req, NoReq}
         \/ canon'.last.st \notin FailedStatuses,
         lock' # d \/ AnswersOwner(proc'[d])
  PROVE  Honours(d)
<1>1. \A r \in {canon.req, NoReq} : Unretired(r, canon) BY DEF Proven, Unretired
<1> QED
  BY <1>1 DEF Proven, Honours, SparesProofs, AnswersOwner, Pleading, PleadingPcs

(* A step that writes no file, and answers nobody.                         *)
LEMMA QuietHonours ==
  ASSUME Proven, NEW d \in Driver, UNCHANGED <<canon, receipts, committed>>,
         lock' # d \/ proc'[d].pc \notin PleadingPcs
  PROVE  Honours(d)
BY OwnerHonours DEF Rehouses, AnswersOwner

LEMMA SameHonours ==
  ASSUME Proven, NEW d \in Driver, UNCHANGED <<receipts, committed>>,
         canon'.req = canon.req, canon'.last = canon.last, canon'.retiring = canon.retiring,
         lock' # d \/ proc'[d].pc \notin PleadingPcs
  PROVE  Honours(d)
BY OwnerHonours DEF Rehouses, AnswersOwner

LEMMA TransitionHonours ==
  ASSUME Data, Proven, NEW d \in Driver, UNCHANGED <<receipts, committed>>,
         NEW ph, Transition(ph), lock' # d \/ proc'[d].pc \notin PleadingPcs
  PROVE  Honours(d)
BY TransitionFields, SameHonours

LEMMA RollBackHonours ==
  ASSUME TypeInv, Proven, NEW d \in Driver, RollBack(d), UNCHANGED <<receipts, committed>>
  PROVE  Honours(d)
BY GotoFields, TransitionHonours DEF TypeInv, RollBack, PleadingPcs

(* The document is let go of with a result for its owner or for nobody, or *)
(* one that is no failure.                                                 *)
LEMMA SettleHonours ==
  ASSUME Data, Proven, NEW d \in Driver, UNCHANGED <<receipts, committed>>,
         NEW ph, NEW act, NEW prev, NEW lst, Settle(ph, act, prev, canon.retiring, lst),
         lst.req \in {canon.req, NoReq} \/ lst.st \notin FailedStatuses \/ lst = canon.last,
         lock' # d \/ AnswersOwner(proc'[d])
  PROVE  Honours(d)
<1>1. canon'.req = NoReq /\ canon'.last = lst /\ canon'.retiring = canon.retiring
  BY DEF Data, Canonical, Settle
<1> QED BY <1>1, OwnerHonours DEF Rehouses

LEMMA SwitchHonours ==
  ASSUME TypeInv, Proven, NEW d \in Driver, SwitchStep(d), ~Commit(d)
  PROVE  Honours(d)
<1> USE DEF TypeInv, At, PleadingPcs
<1>1. receipts' = receipts BY SwitchAside
<1>2. committed' = committed
  BY DEF SwitchStep, RunSwitch, Quiesce, Drain, DrainUnsupported, StopOld, Starting, Materialize,
         Probing, Probe, ProbeFindsNothing, SwitchFails, StepFails, World
<1>3. CASE RunSwitch(d)
  <2>1. proc'[d] = [proc[d] EXCEPT !.pc = "prepare", !.old = canon.active]
    BY <1>3, BecomeFields DEF RunSwitch, Become
  <2>2. proc'[d].pc = "prepare" BY <2>1, ProcFields DEF Procs
  <2>3. canon'.req = canon.req /\ canon'.last = canon.last /\ canon'.retiring = canon.retiring
    BY <1>3 DEF RunSwitch, Data, Canonical
  <2> QED BY <1>1, <1>2, <2>2, <2>3, SameHonours
<1>4. CASE Quiesce(d)
  <2>1. canon'.req = canon.req /\ canon'.last = canon.last /\ canon'.retiring = canon.retiring
    BY <1>4 DEF Quiesce, Data, Canonical
  <2> QED BY <1>1, <1>2, <1>4, <2>1, GotoFields, SameHonours DEF Quiesce
<1>5. CASE Drain(d) \/ DrainUnsupported(d) \/ Probing(d)
  <2>1. PICK ph : Transition(ph) BY <1>5 DEF Drain, DrainUnsupported, Probing
  <2>2. lock' # d \/ proc'[d].pc \in {"retain", "probe"}
    BY <1>5, GotoFields, DriverAssumption DEF Drain, DrainUnsupported, Probing, WaitAt, Release
  <2> QED BY <1>1, <1>2, <2>1, <2>2, TransitionHonours
<1>6. CASE StopOld(d) \/ Materialize(d)
  <2>1. CASE RollBack(d) BY <1>1, <1>2, <2>1, RollBackHonours
  <2>2. CASE UNCHANGED canon /\ proc'[d].pc \in {"quiesced", "materialized"}
    BY <1>1, <1>2, <2>2, QuietHonours
  <2> QED BY <1>6, <2>1, <2>2, GotoFields DEF StopOld, Materialize
<1>7. CASE Starting(d)
  <2>1. CASE Leave(d) /\ UNCHANGED canon
    BY <1>1, <1>2, <2>1, LeaveFields, DriverAssumption, QuietHonours
  <2>2. CASE canon' = [canon EXCEPT !.phase = "starting", !.candidate = Candidate(d)]
             /\ Goto(d, "materialize")
    <3>1. canon'.req = canon.req /\ canon'.last = canon.last /\ canon'.retiring = canon.retiring
      BY <2>2 DEF Data, Canonical
    <3> QED BY <1>1, <1>2, <2>2, <3>1, GotoFields, SameHonours
  <2> QED BY <1>7, <2>1, <2>2 DEF Starting
<1>8. CASE Probe(d) BY <1>1, <1>2, <1>8, GotoFields, QuietHonours DEF Probe, Disk
<1>9. CASE ProbeFindsNothing(d) \/ SwitchFails(d)
  BY <1>1, <1>2, <1>9, RollBackHonours DEF ProbeFindsNothing, SwitchFails, StepFails
<1> QED BY <1>3, <1>4, <1>5, <1>6, <1>7, <1>8, <1>9 DEF SwitchStep

(* The commit itself: its retiree is the proof of it.                      *)
LEMMA CommitProven ==
  ASSUME TypeInv, Ownership, Receipted, Running, Proven, NEW d \in Driver, Commit(d)
  PROVE  Proven'
<1> USE DEF TypeInv, At
<1> DEFINE r == proc[d].req
           e == Retiree(canon.previous, r)
           k == CommitResult(r, canon.previous)
<1>1. /\ canon.phase = "probing" /\ canon.req = r /\ r # NoReq
  BY DEF Commit, Ownership, Holding, OwnerPcs, SwitchPcs, CanonShape, OwnerMatchesPhase,
         InProgressPhases, Phases
<1>2. r \in Req /\ receipts[r].st = "accepted"
  BY <1>1, CanonFields DEF Receipted, Backed, ActingPhases
<1>3. e.proof = r /\ k.req = r /\ k.st = "succeeded" /\ k.src = (canon.previous # NoRt)
  BY DEF Retiree, CommitResult
<1> HIDE DEF e, k
<1>4. PICK act, ret, lst :
        /\ Settle("ready", act, NoRt, ret, lst) /\ lst = k
        /\ ret = canon.retiring \cup (IF canon.previous = NoRt THEN {} ELSE {e})
  BY DEF Commit, e, k
<1>5. Settle("ready", act, NoRt, ret, lst) BY <1>4
<1>6. canon'.req = NoReq /\ canon'.last = k /\ canon'.retiring = ret
  BY <1>4, <1>5 DEF Data, Canonical, Settle
<1>7. committed' = committed \cup {k} /\ receipts' = receipts /\ FinishAs(d, "finish", "succeeded")
  BY DEF Commit, k
<1>8. RetireesProvable'
  BY <1>2, <1>3, <1>4, <1>6, <1>7 DEF Proven, RetireesProvable
<1>9. CommitsKept'
  <2> SUFFICES ASSUME NEW j \in committed', j.src
               PROVE  j.req \in Req /\ (receipts'[j.req].st = "succeeded" \/ RetiredBy(j.req)')
    BY DEF CommitsKept
  <2>1. CASE j \in committed
    BY <1>4, <1>6, <1>7, <2>1 DEF Proven, CommitsKept, RetiredBy
  <2>2. CASE j = k BY <1>2, <1>3, <1>4, <1>6, <2>2 DEF RetiredBy
  <2> QED BY <1>7, <2>1, <2>2
<1>10. /\ Unretired(canon'.req, canon')
       /\ canon'.last.st \in FailedStatuses => Unretired(canon'.last.req, canon')
  BY <1>3, <1>6 DEF Unretired, FailedStatuses
<1>11. \A f \in Driver : lock' = f => Pleading(proc'[f], canon')
  <2>1. proc'[d].pc = "finish" /\ proc'[d].res = "succeeded" /\ lock' = lock
    BY <1>7, FinishAsFields
  <2> QED BY <2>1 DEF Commit, Pleading
<1> QED BY <1>8, <1>9, <1>10, <1>11 DEF Proven

LEMMA ResultFields ==
  ASSUME NEW r, NEW st
  PROVE  Result(r, st).req = r /\ Result(r, st).st = st
BY DEF Result

LEMMA BoundaryHonours ==
  ASSUME TypeInv, Ownership, Proven, NEW d \in Driver, BoundaryStep(d)
  PROVE  Honours(d)
<1> USE DEF TypeInv, At, PleadingPcs
<1> DEFINE old == proc[d].old
           r == proc[d].req
<1>1. receipts' = receipts BY BoundaryAside
<1>2. committed' = committed
  BY DEF BoundaryStep, BoundaryReached, BoundaryFailed, WaitLost, Cancelled, CancelRefused,
         Retain, RetireDead, CollectDead, ExpireDrain, ExpireRefused, ExpireOvertaken, World
<1>3. lock = d => Holding(proc[d], canon) /\ Pleading(proc[d], canon)
  BY DEF Ownership, Proven
<1>4. CASE BoundaryReached(d)
  <2> DEFINE pc == IF OpOf[r] = "stop" THEN "stopAgent" ELSE "stopOld"
  <2>1. Acquire(d, [proc[d] EXCEPT !.pc = pc]) BY <1>4 DEF BoundaryReached
  <2> HIDE DEF pc
  <2>2. proc'[d] = [proc[d] EXCEPT !.pc = pc] BY <2>1, BecomeFields DEF Acquire
  <2>3. proc'[d].pc = pc BY <2>2, ProcFields DEF Procs
  <2>4. proc'[d].pc \notin PleadingPcs BY <2>3 DEF pc
  <2>5. canon'.req = canon.req /\ canon'.last = canon.last /\ canon'.retiring = canon.retiring
    BY <1>4 DEF BoundaryReached, Data, Canonical
  <2> QED BY <1>1, <1>2, <2>4, <2>5, SameHonours
<1>5. CASE BoundaryFailed(d) \/ WaitLost(d) \/ ExpireRefused(d)
  <2>1. proc[d].pc \in WaitingPcs
    BY <1>5 DEF BoundaryFailed, WaitLost, ExpireRefused, WaitingPcs
  <2>2. lock' # d
    BY <1>5, <2>1
    DEF BoundaryFailed, WaitLost, ExpireRefused, Control, WaitingPcs, LockedPcs
  <2> QED
    BY <1>1, <1>2, <1>5, <2>2, QuietHonours DEF BoundaryFailed, WaitLost, ExpireRefused, Disk
<1>6. CASE Cancelled(d)
  <2>1. proc' = [proc EXCEPT ![d] = [proc[d] EXCEPT !.pc = "retain"]]
    BY <1>6 DEF Cancelled, Acquire
  <2>2. proc'[d].pc = "retain" BY <2>1, MoveFields
  <2> QED BY <1>1, <1>2, <1>6, <2>2, QuietHonours DEF Cancelled, Disk
<1>7. CASE CancelRefused(d)
  <2>1. lock' # d BY <1>7, DriverAssumption DEF CancelRefused
  <2>2. /\ canon'.req = canon.req /\ canon'.last = Result(proc[d].drain, "failed")
        /\ canon'.retiring = canon.retiring
    BY <1>7 DEF CancelRefused, Data, Canonical
  <2>3. proc[d].drain = canon.req BY <1>7 DEF CancelRefused, SameDrain
  <2> QED BY <1>1, <1>2, <2>1, <2>2, <2>3, ResultFields, OwnerHonours DEF Rehouses
<1>8. CASE Retain(d)
  <2>1. PICK act, lst : Settle("ready", act, NoRt, canon.retiring, lst) /\ lst = Result(r, "failed")
    BY <1>8 DEF Retain
  <2>2. r = canon.req BY <1>3, <1>8 DEF Retain, Holding, OwnerPcs
  <2>3. AnswersOwner(proc'[d])
    BY <1>8, <2>2, FinishAsFields DEF Retain, AnswersOwner
  <2>4. lst.req = r BY <2>1, ResultFields
  <2> QED BY <1>1, <1>2, <2>1, <2>2, <2>3, <2>4, SettleHonours
<1>9. CASE RetireDead(d)
  <2>1. PICK ret, lst : /\ Settle("idle", NoRt, NoRt, ret, lst) /\ lst = canon.last
                        /\ ret = canon.retiring \cup {Retiree(old, NoReq)}
    BY <1>9 DEF RetireDead
  <2>2. Settle("idle", NoRt, NoRt, ret, lst) BY <2>1
  <2>3. canon'.req = NoReq /\ canon'.last = canon.last /\ canon'.retiring = ret
    BY <2>1, <2>2 DEF Data, Canonical, Settle
  <2>4. r = canon.req BY <1>3, <1>9 DEF RetireDead, Holding, OwnerPcs
  <2>5. proc'[d].pc = "retireDead" /\ proc'[d].req = r BY <1>9, GotoFields DEF RetireDead
  <2>6. Rehouses BY <2>1, <2>3 DEF Rehouses, Retiree
  <2> QED BY <1>1, <1>2, <2>3, <2>4, <2>5, <2>6, OwnerHonours DEF AnswersOwner
<1>10. CASE CollectDead(d)
  <2>1. /\ canon'.req = canon.req /\ canon'.last = Result(r, "failed")
        /\ canon'.retiring \in {canon.retiring, canon.retiring \ {Retiree(old, NoReq)}}
    BY <1>10 DEF CollectDead, Data, Canonical
  <2>2. Rehouses BY <2>1 DEF Rehouses, Retiree
  <2>3. Unretired(r, canon) BY <1>3, <1>10 DEF CollectDead, Pleading
  <2>4. proc'[d].pc = "finishLeave" /\ proc'[d].req = r BY <1>10, FinishAsFields DEF CollectDead
  <2>5. canon'.last.req = r BY <2>1, ResultFields
  <2> QED
    BY <1>1, <1>2, <2>1, <2>2, <2>3, <2>4, <2>5
    DEF Honours, SparesProofs, Proven, Pleading
<1>11. CASE ExpireDrain(d)
  <2>1. PICK act, lst : /\ Settle("ready", act, NoRt, canon.retiring, lst)
                        /\ lst = Result(proc[d].drain, "failed")
    BY <1>11 DEF ExpireDrain
  <2>2. proc[d].drain = canon.req BY <1>11 DEF ExpireDrain, SameDrain
  <2>3. proc' = [proc EXCEPT ![d] = [proc[d] EXCEPT !.pc = "finishRedo"]]
    BY <1>11 DEF ExpireDrain, Acquire
  <2>4. AnswersOwner(proc'[d]) BY <2>2, <2>3, MoveFields DEF AnswersOwner
  <2>5. lst.req = canon.req BY <2>1, <2>2, ResultFields
  <2> QED BY <1>1, <1>2, <2>1, <2>4, <2>5, SettleHonours
<1>12. CASE ExpireOvertaken(d)
  <2>1. proc'[d] = [proc[d] EXCEPT !.pc = "dispatch", !.drain = NoReq, !.old = NoRt]
    BY <1>12, BecomeFields DEF ExpireOvertaken, Acquire
  <2>2. proc'[d].pc = "dispatch" BY <2>1, ProcFields DEF Procs
  <2> QED BY <1>1, <1>2, <1>12, <2>2, QuietHonours DEF ExpireOvertaken, Disk
<1> QED
  BY <1>4, <1>5, <1>6, <1>7, <1>8, <1>9, <1>10, <1>11, <1>12 DEF BoundaryStep

LEMMA StopHonours ==
  ASSUME TypeInv, Ownership, Proven, NEW d \in Driver, StopStep(d)
  PROVE  Honours(d)
<1> USE DEF TypeInv, At, PleadingPcs
<1> DEFINE r == proc[d].req
<1>1. receipts' = receipts BY StopAside
<1>2. committed' = committed
  BY DEF StopStep, RunStop, StopAgent, StopGame, World
<1>3. r = canon.req
  BY DEF StopStep, RunStop, StopAgent, StopGame, Ownership, Holding, OwnerPcs, ClaimedPcs, StopPcs
<1>4. ASSUME NEW ph, NEW act, NEW st, Settle(ph, act, NoRt, canon.retiring, Result(r, st)),
             FinishAs(d, "finish", st)
      PROVE  Honours(d)
  <2>1. AnswersOwner(proc'[d]) BY <1>3, <1>4, FinishAsFields DEF AnswersOwner
  <2>2. PICK lst : Settle(ph, act, NoRt, canon.retiring, lst) /\ lst = Result(r, st) BY <1>4
  <2>3. lst.req = canon.req BY <1>3, <2>2, ResultFields
  <2> QED BY <1>1, <1>2, <2>1, <2>2, <2>3, SettleHonours
<1>5. ASSUME FailKeepingActive(d) PROVE Honours(d) BY <1>4, <1>5 DEF FailKeepingActive
<1>6. ASSUME NEW ph, Transition(ph), NEW pc \in {"stopAgent", "stopGame"}, Goto(d, pc)
      PROVE  Honours(d)
  BY <1>1, <1>2, <1>6, GotoFields, TransitionHonours
<1>7. CASE RunStop(d)
  <2>1. CASE /\ canon' = [canon EXCEPT !.phase = "draining", !.expired = FALSE]
             /\ WaitAt(d, proc[d], "await")
    <3>1. canon'.req = canon.req /\ canon'.last = canon.last /\ canon'.retiring = canon.retiring
      BY <2>1 DEF Data, Canonical
    <3>2. lock' # d BY <2>1, DriverAssumption DEF WaitAt, Release
    <3> QED BY <1>1, <1>2, <3>1, <3>2, SameHonours
  <2> QED BY <1>5, <1>6, <1>7, <2>1 DEF RunStop
<1>8. CASE StopAgent(d) BY <1>5, <1>6, <1>8 DEF StopAgent
<1>9. CASE StopGame(d) BY <1>4, <1>5, <1>9 DEF StopGame
<1> QED BY <1>7, <1>8, <1>9 DEF StopStep

LEMMA PublishHonours ==
  ASSUME TypeInv, Proven, NEW d \in Driver, NEW rt, PublishRestored(d, rt),
         proc[d].req = canon.req, UNCHANGED <<receipts, committed>>
  PROVE  Honours(d)
<1>1. PICK lst : /\ Settle("ready", rt, NoRt, canon.retiring, lst)
                 /\ lst = Result(proc[d].req, "rolled_back")
  BY DEF PublishRestored
<1>2. lst.req = canon.req BY <1>1, ResultFields
<1>3. PICK pc \in {"finalizeReady", "finish"} : FinishAs(d, pc, "rolled_back")
  BY DEF PublishRestored
<1>4. AnswersOwner(proc'[d])
  BY <1>3, FinishAsFields DEF TypeInv, AnswersOwner, PleadingPcs
<1> QED BY <1>1, <1>2, <1>4, SettleHonours DEF TypeInv

LEMMA DiscardHonours ==
  ASSUME TypeInv, Proven, NEW d \in Driver, DiscardCandidate, UNCHANGED <<receipts, committed>>,
         proc'[d].pc \notin PleadingPcs
  PROVE  Honours(d)
<1>1. Rehouses BY DiscardFields DEF TypeInv, Rehouses, Retiree
<1> QED BY <1>1, DiscardFields, OwnerHonours DEF TypeInv, AnswersOwner

LEMMA RecoverFailedHonours ==
  ASSUME TypeInv, Proven, NEW d \in Driver, canon' = RecoverFailed,
         canon.req # NoReq \/ canon.last.st = "failed",
         UNCHANGED <<receipts, committed>>, lock' # d
  PROVE  Honours(d)
<1>1. /\ canon'.req = canon.req /\ canon'.retiring = canon.retiring
      /\ canon'.last.req = (IF canon.req # NoReq THEN canon.req ELSE canon.last.req)
  BY RecoverFailedFields DEF TypeInv
<1>2. Unretired(canon'.last.req, canon) BY <1>1 DEF Proven, FailedStatuses
<1> QED BY <1>1, <1>2 DEF Proven, Honours, Rehouses, SparesProofs

LEMMA RestoreHonours ==
  ASSUME TypeInv, Ownership, Proven, NEW d \in Driver, RestoreStep(d)
  PROVE  Honours(d)
<1> USE DEF TypeInv, At, PleadingPcs
<1> DEFINE r == proc[d].req
<1>1. receipts' = receipts BY RestoreAside
<1>2. committed' = committed
  BY DEF RestoreStep, UndoCandidate, PickPrevious, NothingToRestore, RestoreRefused, RestoreAlive,
         RestartAgent, RestoreFresh, Restart, Publish, DropRestart, Abandon, AbandonRecovery, World
<1>3. CanonShape(canon) /\ (lock = d => Holding(proc[d], canon)) BY DEF Ownership
<1>4. ASSUME proc[d].pc \in RestorePcs \cup {"undo"}, lock = d PROVE r = canon.req
  BY <1>3, <1>4 DEF Holding, OwnerPcs
<1>5. ASSUME proc[d].pc \in {"restore", "abandon"}, lock = d PROVE Unretired(r, canon)
  <2>1. \/ canon.req = r
        \/ r = canon.last.req /\ canon.last.st = "failed"
    BY <1>3, <1>5 DEF Holding, CanonShape
  <2> QED BY <2>1 DEF Proven, FailedStatuses
<1>6. CASE UndoCandidate(d)
  BY <1>1, <1>2, <1>6, DiscardHonours DEF UndoCandidate
<1>7. CASE PickPrevious(d)
  <2>1. canon'.req = canon.req /\ canon'.last = canon.last /\ canon'.retiring = canon.retiring
    BY <1>7 DEF PickPrevious, Data, Canonical
  <2> QED BY <1>1, <1>2, <1>7, <2>1, GotoFields, SameHonours DEF PickPrevious
<1>8. CASE NothingToRestore(d)
  <2>1. PICK lst : /\ Settle("failed", NoRt, NoRt, canon.retiring, lst)
                   /\ lst = Result(r, "failed")
    BY <1>8 DEF NothingToRestore
  <2>2. r = canon.req BY <1>4, <1>8 DEF NothingToRestore
  <2>3. AnswersOwner(proc'[d])
    BY <1>8, <2>2, FinishAsFields DEF NothingToRestore, AnswersOwner
  <2>4. lst.req = r BY <2>1, ResultFields
  <2> QED BY <1>1, <1>2, <2>1, <2>2, <2>3, <2>4, SettleHonours
<1>9. CASE RestoreRefused(d)
  BY <1>1, <1>2, <1>9, GotoFields, QuietHonours DEF RestoreRefused, Disk
<1>10. CASE RestoreAlive(d) \/ RestoreFresh(d)
  <2>1. canon'.req = r /\ canon'.last = canon.last /\ canon'.retiring = canon.retiring
    BY <1>10 DEF RestoreAlive, RestoreFresh, Data, Canonical
  <2>2. Unretired(r, canon) BY <1>5, <1>10 DEF RestoreAlive, RestoreFresh
  <2>3. proc'[d].pc \in {"restartAgent", "restart"}
    BY <1>10, GotoFields DEF RestoreAlive, RestoreFresh
  <2> QED
    BY <1>1, <1>2, <2>1, <2>2, <2>3
    DEF Honours, Rehouses, SparesProofs, Proven, Pleading
<1>11. CASE RestartAgent(d) \/ Publish(d)
  <2>1. r = canon.req BY <1>4, <1>11 DEF RestartAgent, Publish, RestorePcs
  <2>2. CASE \E rt : PublishRestored(d, rt) BY <1>1, <1>2, <2>1, <2>2, PublishHonours
  <2>3. CASE UNCHANGED canon /\ proc'[d].pc \in {"abandon", "lost"}
    BY <1>1, <1>2, <2>3, QuietHonours
  <2> QED BY <1>11, <2>2, <2>3, GotoFields DEF RestartAgent, Publish
<1>12. CASE Restart(d)
  <2>1. proc'[d].pc \in {"publish", "lost", "abandon"} BY <1>12, GotoFields DEF Restart
  <2> QED BY <1>1, <1>2, <1>12, <2>1, QuietHonours DEF Restart, Disk
<1>13. CASE DropRestart(d)
  BY <1>1, <1>2, <1>13, GotoFields, DiscardHonours DEF DropRestart
<1>14. CASE Abandon(d)
  <2>1. /\ canon'.req = NoReq /\ canon'.last = Result(r, "failed")
        /\ canon'.retiring = canon.retiring
    BY <1>14 DEF Abandon, Data, Canonical
  <2>2. Unretired(r, canon) /\ Unretired(NoReq, canon) BY <1>5, <1>14 DEF Abandon, Unretired
  <2>3. proc'[d].pc = "finish" /\ proc'[d].req = r BY <1>14, FinishAsFields DEF Abandon
  <2>4. canon'.last.req = r BY <2>1, ResultFields
  <2> QED
    BY <1>1, <1>2, <2>1, <2>2, <2>3, <2>4
    DEF Honours, Rehouses, SparesProofs, Pleading
<1>15. CASE AbandonRecovery(d)
  <2>1. lock' # d BY <1>15, LeaveFields, DriverAssumption DEF AbandonRecovery
  <2>2. CASE canon' = canon BY <1>1, <1>2, <2>1, <2>2, QuietHonours
  <2>3. CASE canon.phase = "failed" /\ canon' = RecoverFailed
    BY <1>1, <1>2, <1>3, <2>1, <2>3, RecoverFailedHonours DEF CanonShape
  <2> QED BY <1>15, <2>2, <2>3 DEF AbandonRecovery
<1> QED
  BY <1>6, <1>7, <1>8, <1>9, <1>10, <1>11, <1>12, <1>13, <1>14, <1>15 DEF RestoreStep

(* One receipt is written: it is no proof, or the answer is succeeded.     *)
LEMMA StatusSpares ==
  ASSUME Data, NEW r, NEW st, SetStatus(r, st),
         r \in Req => st \in {"accepted", "succeeded"} \/ ~RetiredBy(r)
  PROVE  SparesProofs
<1>1. \A q \in Req : receipts'[q].st = IF q = r THEN st ELSE receipts[q].st
  BY DEF Data, Receipts, SetStatus
<1> QED BY <1>1 DEF SparesProofs

LEMMA ReconcileSpares == ASSUME Data, Proven, ReconcileReceipt PROVE SparesProofs
<1>1. CASE receipts' = receipts BY <1>1 DEF SparesProofs
<1>2. CASE SetStatus(canon.last.req, canon.last.st) /\ canon.last.st \in TerminalStatuses
  <2>1. canon.last.st \in FailedStatuses =>
          (canon.last.req \in Req => ~RetiredBy(canon.last.req))
    BY ReqAssumption DEF Proven, Unretired, RetiredBy
  <2> QED BY <1>2, <2>1, StatusSpares DEF TerminalStatuses, FailedStatuses
<1> QED BY <1>1, <1>2 DEF ReconcileReceipt

(* A step that answers a request and leaves the document alone.            *)
LEMMA AnswerHonours ==
  ASSUME Proven, NEW d \in Driver, SparesProofs, UNCHANGED <<canon, committed>>,
         lock' # d \/ proc'[d].pc \notin PleadingPcs
  PROVE  Honours(d)
BY DEF Proven, Honours, Rehouses, Pleading, PleadingPcs

LEMMA FinishHonours ==
  ASSUME TypeInv, Proven, NEW d \in Driver, FinishStep(d)
  PROVE  Honours(d)
<1> USE DEF TypeInv, At, PleadingPcs
<1>1. committed' = committed
  BY DEF FinishStep, Finish, FinalizeReceipt, Finalize, Reconcile, World
<1>2. CASE Finish(d)
  <2>1. SparesProofs
    <3>1. CASE SetStatus(FinishedReq(d), FinishedAs(d))
      <4>1. lock = d /\ Pleading(proc[d], canon) BY <1>2 DEF Finish, Finishing, Proven
      <4>2. FinishedAs(d) # "succeeded" => Unretired(FinishedReq(d), canon)
        BY <1>2, <4>1 DEF Finish, Finishing, FinishedAs, FinishedReq, Pleading
      <4>3. FinishedReq(d) \in Req /\ FinishedAs(d) # "succeeded" => ~RetiredBy(FinishedReq(d))
        BY <4>2, ReqAssumption DEF Unretired, RetiredBy
      <4> QED BY <3>1, <4>3, StatusSpares
    <3>2. CASE receipts' = receipts BY <3>2 DEF SparesProofs
    <3> QED BY <1>2, <3>1, <3>2 DEF Finish, FinishFirst, FinishAgain
  <2>2. CASE Leave(d)
    BY <1>1, <1>2, <2>1, <2>2, LeaveFields, DriverAssumption, AnswerHonours DEF Finish
  <2>3. CASE Goto(d, "finalize")
    BY <1>1, <1>2, <2>1, <2>3, GotoFields, AnswerHonours DEF Finish
  <2>4. CASE Become(d, [proc[d] EXCEPT !.pc = "dispatch", !.drain = NoReq, !.old = NoRt])
    <3>1. proc'[d] = [proc[d] EXCEPT !.pc = "dispatch", !.drain = NoReq, !.old = NoRt]
      BY <2>4, BecomeFields DEF Become
    <3>2. proc'[d].pc = "dispatch" BY <3>1, ProcFields DEF Procs
    <3> QED BY <1>1, <1>2, <2>1, <3>2, AnswerHonours DEF Finish
  <2> QED BY <1>2, <2>2, <2>3, <2>4 DEF Finish, FinishFirst, FinishAgain, AfterFinish
<1>3. CASE FinalizeReceipt(d)
  <2>1. SparesProofs BY <1>3, StatusSpares DEF FinalizeReceipt
  <2>2. proc'[d].pc \notin PleadingPcs BY <1>3 DEF FinalizeReceipt, Finalizing
  <2> QED BY <1>1, <1>3, <2>1, <2>2, AnswerHonours DEF FinalizeReceipt
<1>4. CASE Finalize(d)
  <2>1. PICK dead \in SUBSET Collectable : canon' = [canon EXCEPT !.retiring = @ \ dead]
    BY <1>4 DEF Finalize
  <2>2. /\ canon'.req = canon.req /\ canon'.last = canon.last
        /\ canon'.retiring = canon.retiring \ dead
    BY <2>1 DEF Data, Canonical
  <2>3. Rehouses BY <2>2 DEF Rehouses, Collectable
  <2>4. lock' # d \/ proc'[d].pc \in {"reconcile", "resolve"}
    BY <1>4, LeaveFields, GotoFields, DriverAssumption DEF Finalize, AfterFinalize
  <2>5. receipts' = receipts BY <1>4 DEF Finalize
  <2> QED BY <1>1, <2>2, <2>3, <2>4, <2>5, OwnerHonours DEF AnswersOwner
<1>5. CASE Reconcile(d)
  <2>1. SparesProofs BY <1>5, ReconcileSpares DEF Reconcile
  <2> QED BY <1>1, <1>5, <2>1, LeaveFields, DriverAssumption, AnswerHonours DEF Reconcile
<1> QED BY <1>2, <1>3, <1>4, <1>5 DEF FinishStep

LEMMA RecoverHonours ==
  ASSUME TypeInv, Ownership, Proven, NEW d \in Driver, RecoverStep(d)
  PROVE  Honours(d)
<1> USE DEF TypeInv, At, PleadingPcs
<1>1. committed' = committed
  BY DEF RecoverStep, RecoverDraining, RecoverIdle, RecoverReady, RecoverDead, RecoverCandidate,
         RecoverLeftovers, ResolveRestore, ResolveStop, ResolveIdle, RecoverStop, RecoverSwitch, World
<1>2. CanonShape(canon) /\ (lock = d => Holding(proc[d], canon)) BY DEF Ownership
<1>3. CASE RecoverDraining(d) \/ RecoverReady(d) \/ RecoverLeftovers(d)
  <2>1. lock' # d \/ proc'[d].pc \in {"finalizeReady", "retryFailed"}
    BY <1>3, GotoFields, DriverAssumption
    DEF RecoverDraining, RecoverReady, RecoverLeftovers, WaitAt, Release, Leave
  <2> QED
    BY <1>1, <1>3, <2>1, QuietHonours DEF RecoverDraining, RecoverReady, RecoverLeftovers, Disk
<1>4. CASE RecoverIdle(d)
  <2>1. SparesProofs BY <1>4, ReconcileSpares DEF RecoverIdle
  <2> QED BY <1>1, <1>4, <2>1, GotoFields, AnswerHonours DEF RecoverIdle
<1>5. CASE RecoverDead(d)
  <2>1. /\ canon'.req = canon.req /\ canon'.last = AnonymousResult("failed")
        /\ canon'.retiring \in {canon.retiring,
                                canon.retiring \cup {Retiree(canon.active, NoReq)}}
    BY <1>5 DEF RecoverDead, Data, Canonical
  <2>2. Rehouses BY <2>1 DEF Rehouses, Retiree
  <2>3. canon'.last.req = NoReq BY <2>1 DEF AnonymousResult, Result
  <2>4. receipts' = receipts /\ lock' # d
    BY <1>5, LeaveFields, DriverAssumption DEF RecoverDead
  <2> QED BY <1>1, <2>1, <2>2, <2>3, <2>4, OwnerHonours
<1>6. CASE RecoverCandidate(d)
  BY <1>1, <1>6, GotoFields, DiscardHonours DEF RecoverCandidate
<1>7. CASE ResolveRestore(d)
  <2>1. proc'[d] = [proc[d] EXCEPT !.pc = "restore", !.req = canon.last.req, !.restoring = TRUE]
    BY <1>7, BecomeFields DEF ResolveRestore, Become
  <2>2. proc'[d].pc = "restore" BY <2>1, ProcFields DEF Procs
  <2> QED BY <1>1, <1>7, <2>2, QuietHonours DEF ResolveRestore, Disk
<1>8. CASE ResolveStop(d) \/ ResolveIdle(d)
  <2>1. receipts' = receipts /\ lock' # d
    BY <1>8, LeaveFields, DriverAssumption DEF ResolveStop, ResolveIdle
  <2>2. CASE \E lst : /\ Settle("idle", NoRt, NoRt, canon.retiring, lst)
                      /\ lst = AnonymousResult("succeeded")
    <3>1. PICK lst : /\ Settle("idle", NoRt, NoRt, canon.retiring, lst)
                     /\ lst = AnonymousResult("succeeded")
      BY <2>2
    <3>2. lst.req = NoReq BY <3>1 DEF AnonymousResult, Result
    <3> QED BY <1>1, <2>1, <3>1, <3>2, SettleHonours
  <2>3. CASE canon' = RecoverFailed
    <3>1. canon.last.st = "failed"
      BY <1>2, <1>8 DEF ResolveStop, ResolveIdle, Holding, CanonShape
    <3> QED BY <1>1, <2>1, <2>3, <3>1, RecoverFailedHonours
  <2> QED BY <1>8, <2>2, <2>3 DEF ResolveStop, ResolveIdle
<1>9. CASE RecoverStop(d)
  <2>1. canon.req # NoReq
    BY <1>2, <1>9 DEF RecoverStop, Interrupted, CanonShape, OwnerMatchesPhase
  <2>2. receipts' = receipts BY <1>9 DEF RecoverStop
  <2>3. CASE canon' = RecoverFailed /\ Leave(d)
    BY <1>1, <2>1, <2>2, <2>3, LeaveFields, DriverAssumption, RecoverFailedHonours
  <2>4. CASE /\ Settle("idle", NoRt, NoRt, canon.retiring, Result(canon.req, "succeeded"))
             /\ Become(d, [proc[d] EXCEPT !.pc = "finishLeave", !.req = canon.req, !.res = "succeeded"])
    <3>1. proc'[d] = [proc[d] EXCEPT !.pc = "finishLeave", !.req = canon.req, !.res = "succeeded"]
      BY <2>4, BecomeFields DEF Become
    <3>2. proc'[d].pc = "finishLeave" /\ proc'[d].res = "succeeded"
      BY <3>1, ProcFields DEF Procs
    <3>3. PICK lst : /\ Settle("idle", NoRt, NoRt, canon.retiring, lst)
                     /\ lst = Result(canon.req, "succeeded")
      BY <2>4
    <3>4. lst.req = canon.req BY <3>3, ResultFields
    <3>5. AnswersOwner(proc'[d]) BY <3>2 DEF AnswersOwner
    <3> QED BY <1>1, <2>2, <3>3, <3>4, <3>5, SettleHonours
  <2> QED BY <1>9, <2>3, <2>4 DEF RecoverStop
<1>10. CASE RecoverSwitch(d)
  <2>1. proc'[d] = [proc[d] EXCEPT !.pc = "undo", !.req = canon.req]
    BY <1>10, BecomeFields DEF RecoverSwitch, Become
  <2>2. proc'[d].pc = "undo" BY <2>1, ProcFields DEF Procs
  <2> QED BY <1>1, <1>10, <2>2, TransitionHonours DEF RecoverSwitch
<1> QED BY <1>3, <1>4, <1>5, <1>6, <1>7, <1>8, <1>9, <1>10 DEF RecoverStep

(* The proof of a commit is a receipt that is accepted, or settled.        *)
LEMMA NoProof ==
  ASSUME RetireesProvable, NEW r \in Req, receipts[r].st \notin {"accepted", "succeeded"}
  PROVE  ~RetiredBy(r) /\ Unretired(r, canon)
BY ReqAssumption DEF RetireesProvable, RetiredBy, Unretired

LEMMA EntryHonours ==
  ASSUME TypeInv, Proven, NEW d \in Driver,
         (\E r \in Req : Request(d, r)) \/ Recover(d) \/ Maintain(d) \/ Resume(d)
  PROVE  Honours(d)
<1> USE DEF TypeInv, PleadingPcs
<1>1. CASE \E r \in Req : Request(d, r)
  <2>1. PICK r \in Req : Request(d, r) BY <1>1
  <2>2. proc'[d] = [Off EXCEPT !.pc = "dispatch", !.req = r]
    BY <2>1, BecomeFields DEF Request, Acquire
  <2>3. proc'[d].pc = "dispatch" BY <2>2 DEF Off
  <2> QED BY <2>1, <2>3, QuietHonours DEF Request, Disk, World
<1>2. CASE Recover(d)
  <2>1. proc'[d] = [Off EXCEPT !.pc = "recover", !.mode = "recover"]
    BY <1>2, BecomeFields DEF Recover, Acquire
  <2>2. proc'[d].pc = "recover" BY <2>1 DEF Off
  <2> QED BY <1>2, <2>2, QuietHonours DEF Recover, Disk, World
<1>3. CASE MaintainDrain(d)
  <2>1. lock' # d BY <1>3, DriverAssumption DEF MaintainDrain, WaitAt, Release
  <2> QED BY <1>3, <2>1, QuietHonours DEF MaintainDrain, Disk, World
<1>4. CASE ResumeHead(d)
  <2>1. lock' # d BY <1>4, DriverAssumption DEF ResumeHead, Release
  <2>2. SparesProofs
    <3>1. CASE receipts' = receipts BY <3>1 DEF SparesProofs
    <3>2. CASE \E h \in Req : IsHead(receipts, h) /\ SetStatus(h, "failed")
      <4>1. PICK h \in Req : receipts[h].st = "queued" /\ SetStatus(h, "failed")
        BY <3>2 DEF IsHead, Queued
      <4> QED BY <4>1, NoProof, StatusSpares DEF Proven
    <3> QED BY <1>4, <3>1, <3>2 DEF ResumeHead
  <2> QED BY <1>4, <2>1, <2>2, AnswerHonours DEF ResumeHead, World
<1>5. CASE Resume(d)
  <2>1. proc' = [proc EXCEPT ![d] = [proc[d] EXCEPT !.pc = "dispatch"]]
    BY <1>5 DEF Resume, Acquire
  <2>2. proc'[d].pc = "dispatch" BY <2>1, MoveFields
  <2> QED BY <1>5, <2>2, QuietHonours DEF Resume, Disk, World
<1> QED BY <1>1, <1>2, <1>3, <1>4, <1>5 DEF Maintain

(* A receipt is written for the first time.                                *)
LEMMA FreshSpares ==
  ASSUME Data, RetireesProvable, NEW r \in Req, receipts[r].st = "none",
         NEW rc, receipts' = [receipts EXCEPT ![r] = rc]
  PROVE  SparesProofs
<1>1. \A q \in Req : q # r => receipts'[q] = receipts[q] BY DEF Data
<1> QED BY <1>1, NoProof DEF SparesProofs

LEMMA DispatchHonours ==
  ASSUME TypeInv, Proven, NEW d \in Driver, DispatchStep(d)
  PROVE  Honours(d)
<1> USE DEF TypeInv, At, PleadingPcs
<1> DEFINE r == proc[d].req
<1>1. CASE DispatchRefused(d) \/ DispatchUnqueueable(d)
  <2>1. lock' # d BY <1>1, DriverAssumption DEF DispatchRefused, DispatchUnqueueable, Leave
  <2> QED
    BY <1>1, <2>1, QuietHonours DEF DispatchRefused, DispatchUnqueueable, Disk, World
<1>2. CASE DispatchEnqueue(d)
  <2>1. r \in Req /\ receipts[r].st = "none"
    BY <1>2 DEF DispatchEnqueue, MustEnqueue, Control, Asked, AskedPcs
  <2>2. PICK rc : receipts' = [receipts EXCEPT ![r] = rc] BY <1>2 DEF DispatchEnqueue
  <2>3. SparesProofs BY <2>1, <2>2, FreshSpares DEF Proven
  <2>4. Goto(d, "enqueue") BY <1>2 DEF DispatchEnqueue
  <2> QED BY <1>2, <2>3, <2>4, GotoFields, AnswerHonours DEF DispatchEnqueue, World
<1>3. CASE Enqueue(d)
  <2>1. canon'.req = canon.req /\ canon'.last = canon.last /\ canon'.retiring = canon.retiring
    BY <1>3 DEF Enqueue, Data, Canonical
  <2>2. lock' # d BY <1>3, DriverAssumption DEF Enqueue, WaitAt, Release, Leave
  <2> QED BY <1>3, <2>1, <2>2, SameHonours DEF Enqueue, World
<1>4. CASE DispatchExpired(d)
  <2>1. lock' # d BY <1>4, DriverAssumption DEF DispatchExpired, WaitAt, Release
  <2> QED BY <1>4, <2>1, QuietHonours DEF DispatchExpired, Disk, World
<1>5. CASE DispatchDone(d)
  <2>1. lock' # d BY <1>5, DriverAssumption DEF DispatchDone, Leave
  <2>2. SparesProofs BY <1>5, StatusSpares DEF DispatchDone
  <2> QED BY <1>5, <2>1, <2>2, AnswerHonours DEF DispatchDone, World
<1>6. CASE DispatchAccept(d)
  <2>1. PICK g : Become(d, [proc[d] EXCEPT !.pc = "accept", !.goal = g])
    BY <1>6 DEF DispatchAccept
  <2>2. proc'[d] = [proc[d] EXCEPT !.pc = "accept", !.goal = g] BY <2>1, BecomeFields DEF Become
  <2>3. proc'[d].pc = "accept" BY <2>2, ProcFields DEF Procs
  <2> QED BY <1>6, <2>3, QuietHonours DEF DispatchAccept, Disk, World
<1> QED BY <1>1, <1>2, <1>3, <1>4, <1>5, <1>6 DEF DispatchStep

LEMMA AcceptHonours ==
  ASSUME TypeInv, Pending, Ownership, Proven, NEW d \in Driver, AcceptStep(d)
  PROVE  Honours(d)
<1> USE DEF TypeInv, At, PleadingPcs
<1> DEFINE r == proc[d].req
<1>1. committed' = committed
  BY DEF AcceptStep, AcceptRefused, AcceptBump, AcceptFresh, Alloc, AcceptClaim, AcceptAllocating,
         MarkAccepted, Overdue, AcceptReplay, AcceptOrphan, World
<1>2. PendingOf(proc[d], receipts) /\ (lock = d => Holding(proc[d], canon))
  BY DEF Pending, Ownership
<1>3. RetireesProvable BY DEF Proven
<1>4. CASE AcceptRefused(d) \/ AcceptReplay(d)
  BY <1>1, <1>4, LeaveFields, GotoFields, DriverAssumption, QuietHonours
  DEF AcceptRefused, AcceptReplay, Disk
<1>5. CASE AcceptBump(d)
  <2>1. canon'.req = canon.req /\ canon'.last = canon.last /\ canon'.retiring = canon.retiring
    BY <1>5 DEF AcceptBump, Data, Canonical
  <2> QED BY <1>1, <1>5, <2>1, SameHonours DEF AcceptBump
<1>6. CASE AcceptFresh(d)
  <2>1. r \in Req /\ receipts[r].st = "none"
    BY <1>6 DEF AcceptFresh, Control, Asked, AskedPcs
  <2>2. SparesProofs
    <3>1. CASE receipts' = receipts BY <3>1 DEF SparesProofs
    <3>2. CASE \E rc : receipts' = [receipts EXCEPT ![r] = rc]
      BY <1>3, <2>1, <3>2, FreshSpares
    <3> QED BY <1>6, <3>1, <3>2 DEF AcceptFresh
  <2>3. lock' # d \/ proc'[d].pc = "alloc"
    BY <1>6, LeaveFields, GotoFields, DriverAssumption DEF AcceptFresh
  <2> QED BY <1>1, <1>6, <2>2, <2>3, AnswerHonours DEF AcceptFresh
<1>7. ASSUME canon'.req = r, r \in Req, receipts[r].st \in {"allocating", "queued"},
             canon'.last = canon.last, canon'.retiring = canon.retiring,
             receipts' = receipts, NEW pc \in {"allocated", "claim", "replay"}, Goto(d, pc)
      PROVE  Honours(d)
  <2>1. Unretired(r, canon) BY <1>3, <1>7, NoProof
  <2>2. proc'[d].pc \notin PleadingPcs BY <1>7, GotoFields
  <2> QED
    BY <1>1, <1>7, <2>1, <2>2 DEF Honours, Rehouses, SparesProofs, Proven, Pleading
<1>8. CASE Alloc(d)
  <2>1. canon'.req = r /\ canon'.last = canon.last /\ canon'.retiring = canon.retiring
    BY <1>8 DEF Alloc, Data, Canonical
  <2>2. r \in Req BY <1>8 DEF Alloc, Control, Asked, AskedPcs
  <2>3. receipts[r].st = "allocating" BY <1>2, <1>8 DEF Alloc, PendingOf
  <2> QED BY <1>7, <1>8, <2>1, <2>2, <2>3 DEF Alloc
<1>9. ASSUME canon' = [canon EXCEPT !.phase = "validating", !.req = r]
      PROVE  canon'.req = r /\ canon'.last = canon.last /\ canon'.retiring = canon.retiring
  BY <1>9 DEF Data, Canonical
<1>10. CASE AcceptClaim(d)
  <2>1. r \in Req /\ receipts[r].st = "queued"
    BY <1>10 DEF AcceptClaim, Control, Asked, AskedPcs
  <2>2. CASE Leave(d) /\ UNCHANGED canon /\ SetStatus(r, "failed")
    <3>1. SparesProofs BY <1>3, <2>1, <2>2, NoProof, StatusSpares
    <3> QED BY <1>1, <2>2, <3>1, LeaveFields, DriverAssumption, AnswerHonours
  <2>3. CASE /\ canon' = [canon EXCEPT !.phase = "validating", !.req = r]
             /\ Goto(d, "claim") /\ UNCHANGED receipts
    BY <1>7, <1>9, <2>1, <2>3
  <2> QED BY <1>10, <2>2, <2>3 DEF AcceptClaim
<1>11. CASE AcceptAllocating(d)
  <2>1. r \in Req /\ receipts[r].st = "allocating"
    BY <1>11 DEF AcceptAllocating, Control, Asked, AskedPcs
  <2> QED BY <1>7, <1>9, <1>11, <2>1 DEF AcceptAllocating
<1>12. CASE MarkAccepted(d)
  <2>1. SparesProofs BY <1>12, StatusSpares DEF MarkAccepted
  <2>2. PICK pc \in {"run", "overdue", "recover"} : Goto(d, pc) BY <1>12 DEF MarkAccepted
  <2> QED BY <1>1, <1>12, <2>1, <2>2, GotoFields, AnswerHonours DEF MarkAccepted
<1>13. CASE Overdue(d)
  <2>1. r = canon.req BY <1>2, <1>13 DEF Overdue, Holding, OwnerPcs, ClaimedPcs
  <2>2. PICK ph, lst : /\ Settle(ph, canon.active, canon.previous, canon.retiring, lst)
                       /\ lst = Result(r, "failed")
    BY <1>13 DEF Overdue
  <2>3. lst.req = r BY <2>2, ResultFields
  <2>4. AnswersOwner(proc'[d])
    BY <1>13, <2>1, FinishAsFields DEF Overdue, AnswersOwner
  <2> QED BY <1>1, <1>13, <2>1, <2>2, <2>3, <2>4, SettleHonours DEF Overdue
<1>14. CASE AcceptOrphan(d)
  <2>1. SparesProofs
    <3>1. CASE RetiredBy(r) /\ SetStatus(r, "succeeded") BY <3>1, StatusSpares
    <3>2. CASE ~RetiredBy(r) /\ \E st : SetStatus(r, st) BY <3>2, StatusSpares
    <3> QED BY <1>14, <3>1, <3>2 DEF AcceptOrphan
  <2>2. proc'[d].pc \in {"accept", "finalize"} BY <1>14, GotoFields DEF AcceptOrphan
  <2> QED BY <1>1, <1>14, <2>1, <2>2, AnswerHonours DEF AcceptOrphan
<1> QED BY <1>4, <1>5, <1>6, <1>8, <1>10, <1>11, <1>12, <1>13, <1>14 DEF AcceptStep

-----------------------------------------------------------------------------
(* Every step, and every behaviour                                         *)

(* ResumeBusy and Crash change no file, and let go of the lock.            *)
LEMMA StepHonours ==
  ASSUME TypeInv, Pending, Ownership, Proven, NEW d \in Driver, AnyStep(d), ~Commit(d)
  PROVE  Honours(d)
<1>1. CASE (\E r \in Req : Request(d, r)) \/ Recover(d) \/ Maintain(d) \/ Resume(d)
  BY <1>1, EntryHonours
<1>2. CASE DispatchStep(d) \/ AcceptStep(d) \/ SwitchStep(d) \/ BoundaryStep(d)
  BY <1>2, DispatchHonours, AcceptHonours, SwitchHonours, BoundaryHonours
<1>3. CASE StopStep(d) \/ RestoreStep(d) \/ FinishStep(d) \/ RecoverStep(d)
  BY <1>3, StopHonours, RestoreHonours, FinishHonours, RecoverHonours
<1>4. CASE ResumeBusy(d) \/ Crash(d)
  <2>1. proc'[d] = Off BY <1>4, BecomeFields DEF TypeInv, ResumeBusy, Crash
  <2>2. proc'[d].pc \notin PleadingPcs BY <2>1 DEF Off, PleadingPcs
  <2> QED BY <1>4, <2>2, QuietHonours DEF ResumeBusy, Crash, Disk, World
<1> QED BY <1>1, <1>2, <1>3, <1>4 DEF AnyStep, DriverStep

LEMMA NextProven == RunInv /\ Proven /\ [Next]_vars => Proven'
<1> SUFFICES ASSUME RunInv, Proven, [Next]_vars PROVE Proven'
  OBVIOUS
<1> USE DEF RunInv, OwnInv
<1>1. ASSUME NEW d \in Driver, AnyStep(d) PROVE Proven'
  <2>1. CASE Commit(d) BY <2>1, CommitProven
  <2>2. CASE ~Commit(d)
    <3>1. Honours(d) BY <1>1, <2>2, StepHonours
    <3>2. Keeps(d) \/ Bystands(d) BY <1>1, ReceiptedOwned, StepOwned
    <3>3. TerminalKept BY NextKeeps
    <3> QED BY <3>1, <3>2, <3>3, HonoursProven, BystandsProven DEF TypeInv
  <2> QED BY <2>1, <2>2
<1>2. CASE Expire
  <2>1. /\ canon'.req = canon.req /\ canon'.last = canon.last /\ canon'.retiring = canon.retiring
        /\ UNCHANGED <<receipts, lock, proc, committed>>
    BY <1>2, ExpireFields DEF TypeInv, Expire, World
  <2> QED
    BY <2>1 DEF Proven, RetireesProvable, CommitsKept, RetiredBy, Unretired, Pleading
<1>3. CASE (\E rt \in live : GameDies(rt)) \/ UNCHANGED vars
  <2>1. UNCHANGED <<canon, receipts, lock, proc, committed>>
    BY <1>3 DEF GameDies, Disk, vars
  <2> QED BY <2>1 DEF Proven, RetireesProvable, CommitsKept, RetiredBy
<1> QED BY <1>1, <1>2, <1>3, NextSteps

LEMMA InitProven == Init => Proven
<1> SUFFICES ASSUME Init PROVE Proven
  OBVIOUS
<1>1. canon.req = NoReq /\ canon.last.req = NoReq /\ canon.retiring = {} /\ committed = {}
  BY DEF Init, NoResult
<1>2. \A d \in Driver : lock # d BY DriverAssumption DEF Init
<1> QED BY <1>1, <1>2 DEF Proven, RetireesProvable, CommitsKept, Unretired

CommitInv == RunInv /\ Proven

LEMMA AlwaysProven == Spec => []CommitInv
<1>1. Init => Proven BY InitProven
<1>2. RunInv /\ Proven /\ [Next]_vars => Proven' BY NextProven
<1>3. CommitInv <=> RunInv /\ Proven BY DEF CommitInv
<1> QED BY <1>1, <1>2, <1>3, AlwaysRunning, PTL DEF Spec

LEMMA ProofsSettleInv == CommitInv => RetireesProvable
BY DEF CommitInv, Proven

(* The receipt that a retiree offers as proof of its commit can always be  *)
(* settled as succeeded, so that _retry_retiring collects the retiree.     *)
THEOREM ProofsSettle == Spec => []RetireesProvable
BY ProofsSettleInv, AlwaysProven, PTL

LEMMA CommitsAreHonouredInv == CommitInv => CommitsHonoured
<1> SUFFICES ASSUME CommitInv, NEW c \in committed, c.src
             PROVE  receipts[c.req].st \notin {"failed", "rolled_back"}
  BY DEF CommitsHonoured
<1> USE DEF CommitInv, Proven
<1>1. c.req \in Req /\ (receipts[c.req].st = "succeeded" \/ RetiredBy(c.req))
  BY DEF CommitsKept
<1>2. RetiredBy(c.req) => receipts[c.req].st \in {"accepted", "succeeded"}
  BY <1>1, NoProof
<1> QED BY <1>1, <1>2

(* A request whose commit replaced a game is never answered as failed or   *)
(* rolled back: not by its driver, not by recover, not by a retry.         *)
THEOREM CommitsAreHonoured == Spec => []CommitsHonoured
BY CommitsAreHonouredInv, AlwaysProven, PTL

LEMMA CommittedClaimsNot ==
  ASSUME CommitInv, [Next]_vars, Claims, NEW c \in committed, c.src
  PROVE  canon'.req # c.req
<1> SUFFICES ASSUME canon'.req = c.req PROVE FALSE
  OBVIOUS
<1>1. receipts[c.req].st \in {"allocating", "queued"}
  BY ClaimantAhead DEF CommitInv, RunInv
<1>2. c.req \in Req /\ (receipts[c.req].st = "succeeded" \/ RetiredBy(c.req))
  BY DEF CommitInv, Proven, CommitsKept
<1>3. RetiredBy(c.req) => receipts[c.req].st \in {"accepted", "succeeded"}
  BY <1>2, NoProof DEF CommitInv, Proven
<1> QED BY <1>1, <1>2, <1>3

(* A request whose commit replaced a game is never run a second time: its  *)
(* receipt is succeeded, or its retiree still proves it, and neither is a  *)
(* request that can claim the canonical document.                          *)
THEOREM CommitsRunOnce == Spec => NotRepeated
<1>1. CommitInv /\ [Next]_vars
        => [\A c \in committed : c.src => ~(Claims /\ canon'.req = c.req)]_vars
  BY CommittedClaimsNot
<1> QED BY <1>1, AlwaysProven, PTL DEF Spec, NotRepeated
=============================================================================
