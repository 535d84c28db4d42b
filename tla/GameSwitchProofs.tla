-------------------------- MODULE GameSwitchProofs --------------------------
(***************************************************************************)
(* What holds of the game switch for every number of drivers, requests and *)
(* games, and without the bounds of the model-checked instances.           *)
(***************************************************************************)
EXTENDS GameSwitch, TLAPS

(* The lock and the local states of the drivers: a driver is at a locked   *)
(* program counter exactly when it holds the lock, and it knows its        *)
(* request wherever it may still dispatch it.                              *)
AskedPcs == {"resume", "dispatch", "enqueue", "accept", "alloc", "allocated", "claim",
             "replay", "run", "prepare", "await", "stopOld", "quiesced"}
Asked(p) == \/ p.pc \in AskedPcs
            \/ p.pc \in {"recover", "expire", "finishRedo"} /\ p.mode = "execute"

Control == /\ lock \in Driver \cup {NoDriver}
           /\ proc \in [Driver -> Procs]
           /\ \A d \in Driver : /\ proc[d].pc \in LockedPcs <=> lock = d
                                /\ Asked(proc[d]) => proc[d].req \in Req

(* What the files and the world hold.                                      *)
Data == /\ canon \in Canonical
        /\ receipts \in [Req -> Receipts]
        /\ live \subseteq Runtimes
        /\ committed \subseteq Results
        /\ faults \in Nat

TypeInv == Control /\ Data

-----------------------------------------------------------------------------
(* Types of the constants and of the fields                                *)

LEMMA NoRtTyped == NoRt \in Runtimes
BY DEF NoRt, Runtimes

LEMMA OffTyped == Off \in Procs
BY NoRtTyped DEF Off, Procs, TerminalStatuses

LEMMA CanonFields ==
  ASSUME Data
  PROVE  /\ canon.phase \in Phases /\ canon.req \in Req \cup {NoReq} /\ canon.nextGen \in Nat
         /\ canon.active \in Runtimes /\ canon.candidate \in Runtimes
         /\ canon.previous \in Runtimes /\ canon.retiring \in SUBSET Retirees
         /\ canon.expired \in BOOLEAN /\ canon.last \in Results
BY DEF Data, Canonical

LEMMA ProcFields ==
  ASSUME Control, NEW d \in Driver
  PROVE  /\ proc[d] \in Procs
         /\ proc[d].req \in Req \cup {NoReq} /\ proc[d].goal \in Games \cup {NoGame}
         /\ proc[d].drain \in Req \cup {NoReq} /\ proc[d].old \in Runtimes
         /\ proc[d].res \in TerminalStatuses
BY DEF Control, Procs

-----------------------------------------------------------------------------
(* How a driver moves                                                      *)

LEMMA MoveControl ==
  ASSUME Control, NEW d \in Driver, NEW p \in Procs,
         proc' = [proc EXCEPT ![d] = p],
         Asked(p) => p.req \in Req,
         \/ p.pc \in LockedPcs /\ lock \in {d, NoDriver} /\ lock' = d
         \/ p.pc \notin LockedPcs /\ lock = d /\ lock' = NoDriver
         \/ p.pc \notin LockedPcs /\ lock # d /\ lock' = lock
  PROVE  Control'
<1>1. proc' \in [Driver -> Procs] /\ lock' \in Driver \cup {NoDriver}
  BY DEF Control
<1>2. ASSUME NEW e \in Driver
      PROVE  (proc'[e].pc \in LockedPcs <=> lock' = e) /\ (Asked(proc'[e]) => proc'[e].req \in Req)
  <2>1. CASE e = d BY <2>1, DriverAssumption DEF Control
  <2>2. CASE e # d BY <2>2, DriverAssumption DEF Control
  <2> QED BY <2>1, <2>2
<1> QED BY <1>1, <1>2 DEF Control

LEMMA OffMoves == Off.pc \notin LockedPcs /\ ~Asked(Off)
BY DEF Off, LockedPcs, Asked, AskedPcs

LEMMA LeaveControl ==
  ASSUME Control, NEW d \in Driver, lock = d, Leave(d)
  PROVE  Control'
BY MoveControl, OffTyped, OffMoves DEF Leave

LEMMA GotoControl ==
  ASSUME Control, NEW d \in Driver, NEW pc \in LockedPcs, lock = d, Goto(d, pc),
         \/ pc \notin AskedPcs \cup {"recover", "finishRedo"}
         \/ proc[d].req \in Req
  PROVE  Control'
<1> DEFINE p == [proc[d] EXCEPT !.pc = pc]
<1>1. p \in Procs /\ p.pc = pc /\ p.req = proc[d].req BY ProcFields DEF Procs
<1>2. Asked(p) => p.req \in Req BY <1>1 DEF Asked, AskedPcs, LockedPcs
<1>3. proc' = [proc EXCEPT ![d] = p] /\ lock' = lock BY DEF Goto
<1> QED BY <1>1, <1>2, <1>3, MoveControl

LEMMA BecomeControl ==
  ASSUME Control, NEW d \in Driver, NEW p \in Procs, p.pc \in LockedPcs,
         Asked(p) => p.req \in Req,
         (Become(d, p) /\ lock = d) \/ Acquire(d, p)
  PROVE  Control'
BY MoveControl DEF Become, Acquire

LEMMA ReleaseControl ==
  ASSUME Control, NEW d \in Driver, NEW p \in Procs, p.pc \notin LockedPcs,
         Asked(p) => p.req \in Req, lock \in {d, NoDriver}, Release(d, p)
  PROVE  Control'
BY MoveControl, DriverAssumption DEF Release

LEMMA WaitAtControl ==
  ASSUME Control, canon' \in Canonical, NEW d \in Driver, NEW p \in Procs,
         NEW pc \in {"await", "cancel", "expire"},
         pc = "await" \/ (pc = "expire" /\ p.mode = "execute") => p.req \in Req,
         lock \in {d, NoDriver}, WaitAt(d, p, pc)
  PROVE  Control'
<1> DEFINE q == [p EXCEPT !.pc = pc, !.drain = canon'.req, !.old = canon'.active]
<1>1. canon'.req \in Req \cup {NoReq} /\ canon'.active \in Runtimes BY DEF Canonical
<1>2. q \in Procs /\ q.pc = pc /\ q.mode = p.mode /\ q.req = p.req
  BY <1>1 DEF Procs, WaitingPcs
<1>3. q.pc \notin LockedPcs /\ (Asked(q) => q.req \in Req)
  BY <1>2 DEF LockedPcs, Asked, AskedPcs
<1>4. Release(d, q) BY DEF WaitAt
<1> QED BY <1>2, <1>3, <1>4, ReleaseControl

LEMMA FinishAsControl ==
  ASSUME Control, NEW d \in Driver, lock = d, NEW st \in TerminalStatuses,
         NEW pc \in {"finish", "finishLeave", "finalizeReady"}, FinishAs(d, pc, st)
  PROVE  Control'
<1> DEFINE p == [proc[d] EXCEPT !.pc = pc, !.res = st]
<1>0. pc \in LockedPcs BY DEF LockedPcs
<1>1. p \in Procs /\ p.pc = pc BY <1>0, ProcFields DEF Procs
<1>2. p.pc \in LockedPcs /\ ~Asked(p) BY <1>1 DEF LockedPcs, Asked, AskedPcs
<1> QED BY <1>1, <1>2, BecomeControl DEF FinishAs

(* Nobody moves.                                                           *)
LEMMA StayControl == ASSUME Control, UNCHANGED <<lock, proc>> PROVE Control'
BY DEF Control

-----------------------------------------------------------------------------
(* How the files and the world change                                      *)

LEMMA FaultTyped == ASSUME Data, Fault \/ Benign PROVE faults' \in Nat
BY DEF Data, Fault, Benign

LEMMA TransitionTyped ==
  ASSUME Data, NEW ph \in Phases, Transition(ph)
  PROVE  canon' \in Canonical
BY DEF Data, Transition, Canonical

LEMMA SettleTyped ==
  ASSUME Data, NEW ph \in Phases, NEW act \in Runtimes, NEW prev \in Runtimes,
         NEW ret \in SUBSET Retirees, NEW lst \in Results, Settle(ph, act, prev, ret, lst)
  PROVE  canon' \in Canonical
BY NoRtTyped DEF Data, Settle, Canonical

LEMMA ResultTyped ==
  ASSUME NEW r \in Req \cup {NoReq}, NEW st \in TerminalStatuses \cup {"none"}
  PROVE  /\ Result(r, st) \in Results /\ AnonymousResult(st) \in Results
         /\ \A s : CommitResult(r, s) \in Results
BY DEF Result, AnonymousResult, CommitResult, Results, TerminalStatuses

LEMMA RetireeTyped ==
  ASSUME NEW rt \in Runtimes, NEW r \in Req \cup {NoReq}
  PROVE  Retiree(rt, r) \in Retirees
BY DEF Retiree, Retirees

LEMMA SetStatusTyped ==
  ASSUME Data, NEW r, NEW st \in ReceiptStatuses, SetStatus(r, st)
  PROVE  receipts' \in [Req -> Receipts]
BY DEF Data, SetStatus, Receipts

LEMMA TeardownTyped ==
  ASSUME Data, NEW rt, TornDown(rt) \/ NotTornDown(rt)
  PROVE  live' \subseteq Runtimes /\ faults' \in Nat
BY FaultTyped DEF Data, TornDown, NotTornDown

LEMMA DataKept == ASSUME Data, UNCHANGED <<Disk, World>>, faults' \in Nat PROVE Data'
BY DEF Data, Disk, World

-----------------------------------------------------------------------------
(* Requests                                                                *)

LEMMA EntryTyped ==
  ASSUME TypeInv, NEW d \in Driver,
         (\E r \in Req : Request(d, r)) \/ Recover(d) \/ Maintain(d)
  PROVE  TypeInv'
<1> USE DEF TypeInv
<1>1. CASE \E r \in Req : Request(d, r)
  <2>1. PICK r \in Req : Request(d, r) BY <1>1
  <2>2. Data' BY <2>1, DataKept DEF Request, Data
  <2> DEFINE p == [Off EXCEPT !.pc = "dispatch", !.req = r]
  <2>3. p \in Procs /\ p.pc \in LockedPcs /\ p.req \in Req
    BY OffTyped DEF Procs, LockedPcs
  <2>4. Control' BY <2>1, <2>3, BecomeControl DEF Request
  <2> QED BY <2>2, <2>4
<1>2. CASE Recover(d)
  <2>1. Data' BY <1>2, DataKept DEF Recover, Data
  <2> DEFINE p == [Off EXCEPT !.pc = "recover", !.mode = "recover"]
  <2>a. "recover" \in LockedPcs BY DEF LockedPcs
  <2>b. p \in Procs /\ p.pc = "recover" /\ p.mode = "recover" BY <2>a, OffTyped DEF Procs
  <2>2. p \in Procs /\ p.pc \in LockedPcs /\ ~Asked(p)
    BY <2>a, <2>b DEF Asked, AskedPcs
  <2>3. Control' BY <1>2, <2>2, BecomeControl DEF Recover
  <2> QED BY <2>1, <2>3
<1>3. CASE MaintainDrain(d)
  <2>1. Data' BY <1>3, DataKept DEF MaintainDrain, Data
  <2> DEFINE p == [Off EXCEPT !.mode = "maintain"]
  <2>2. p \in Procs /\ p.mode = "maintain" BY OffTyped DEF Procs
  <2>3. Control' BY <1>3, <2>1, <2>2, WaitAtControl DEF MaintainDrain, Data
  <2> QED BY <2>1, <2>3
<1>4. CASE ResumeHead(d)
  <2>1. PICK h \in Req : 
          \/ /\ Release(d, [Off EXCEPT !.pc = "resume", !.mode = "maintain", !.req = h])
             /\ UNCHANGED <<receipts, faults>>
          \/ SetStatus(h, "failed") /\ UNCHANGED <<lock, proc>> /\ Fault
    BY <1>4 DEF ResumeHead
  <2>2. Data'
    BY <1>4, <2>1, SetStatusTyped, FaultTyped
    DEF ResumeHead, Data, World, ReceiptStatuses, TerminalStatuses
  <2> DEFINE p == [Off EXCEPT !.pc = "resume", !.mode = "maintain", !.req = h]
  <2>a. "resume" \in WaitingPcs /\ "resume" \notin LockedPcs BY DEF WaitingPcs, LockedPcs
  <2>3. p \in Procs /\ p.pc \notin LockedPcs /\ p.req \in Req
    BY <2>a, OffTyped DEF Procs
  <2>4. lock = NoDriver BY <1>4 DEF ResumeHead
  <2>5. Control' BY <2>1, <2>3, <2>4, ReleaseControl, StayControl
  <2> QED BY <2>2, <2>5
<1> QED BY <1>1, <1>2, <1>3, <1>4 DEF Maintain

LEMMA ResumeTyped ==
  ASSUME TypeInv, NEW d \in Driver, Resume(d) \/ ResumeBusy(d)
  PROVE  TypeInv'
<1> USE DEF TypeInv
<1>1. Data' BY DataKept DEF Resume, ResumeBusy, Data
<1>2. CASE Resume(d)
  <2> DEFINE p == [proc[d] EXCEPT !.pc = "dispatch"]
  <2>1. p \in Procs /\ p.pc \in LockedPcs /\ p.req = proc[d].req
    BY ProcFields DEF Procs, LockedPcs
  <2>2. proc[d].req \in Req BY <1>2 DEF Resume, Control, Asked, AskedPcs
  <2> QED BY <1>1, <1>2, <2>1, <2>2, BecomeControl DEF Resume
<1>3. CASE ResumeBusy(d)
  <2>1. lock # d BY <1>3 DEF ResumeBusy, Control, LockedPcs
  <2>2. Control' BY <1>3, <2>1, OffTyped, OffMoves, MoveControl DEF ResumeBusy
  <2> QED BY <1>1, <2>2
<1> QED BY <1>2, <1>3

LEMMA DispatchTyped ==
  ASSUME TypeInv, NEW d \in Driver, DispatchStep(d)
  PROVE  TypeInv'
<1> USE DEF TypeInv, At
<1> DEFINE r == proc[d].req
<1>1. Asked(proc[d]) => r \in Req BY DEF Control
<1>2. CASE DispatchRefused(d)
  BY <1>2, LeaveControl, DataKept DEF DispatchRefused, Data
<1>3. CASE DispatchEnqueue(d)
  <2>1. r \in Req BY <1>1, <1>3 DEF DispatchEnqueue, Asked, AskedPcs
  <2>2. RequestGoal(r) \in Games \cup {NoGame}
    BY <2>1, CanonFields, GoalAssumption DEF RequestGoal, Runtimes, Receipts, Data
  <2>3. PICK g \in 1..MaxGen :
          receipts' = [receipts EXCEPT ![r] = [st |-> "queued", gen |-> g, goal |-> RequestGoal(r)]]
    BY <1>3 DEF DispatchEnqueue
  <2>4. [st |-> "queued", gen |-> g, goal |-> RequestGoal(r)] \in Receipts
    BY <2>2, BoundAssumption DEF Receipts, ReceiptStatuses
  <2>5. Data' BY <1>3, <2>3, <2>4 DEF DispatchEnqueue, Data, World
  <2>6. Control' BY <1>3, <2>1, GotoControl DEF DispatchEnqueue, LockedPcs, AskedPcs
  <2> QED BY <2>5, <2>6
<1>4. CASE DispatchUnqueueable(d)
  BY <1>4, LeaveControl, DataKept DEF DispatchUnqueueable, Data
<1>5. CASE Enqueue(d)
  <2>1. r \in Req BY <1>1, <1>5 DEF Enqueue, Asked, AskedPcs
  <2>2. canon' \in Canonical BY <1>5, <2>1 DEF Enqueue, Data, Canonical, Receipts
  <2>3. Data' BY <1>5, <2>2 DEF Enqueue, Data, World
  <2>4. Control'
    BY <1>5, <2>1, <2>2, ProcFields, WaitAtControl, LeaveControl DEF Enqueue
  <2> QED BY <2>3, <2>4
<1>6. CASE DispatchExpired(d)
  <2>1. r \in Req BY <1>1, <1>6 DEF DispatchExpired, Asked, AskedPcs
  <2>2. Data' BY <1>6, DataKept DEF DispatchExpired, Data
  <2>3. Control'
    BY <1>6, <2>1, <2>2, ProcFields, WaitAtControl DEF DispatchExpired, Data
  <2> QED BY <2>2, <2>3
<1>7. CASE DispatchDone(d)
  <2>1. Data'
    BY <1>7, SetStatusTyped DEF DispatchDone, Data, World, ReceiptStatuses, TerminalStatuses
  <2> QED BY <1>7, <2>1, LeaveControl DEF DispatchDone
<1>8. CASE DispatchAccept(d)
  <2>1. r \in Req BY <1>1, <1>8 DEF DispatchAccept, Asked, AskedPcs
  <2>2. PICK g : /\ g \in RotationGoals \cup {RequestGoal(r)}
                 /\ Become(d, [proc[d] EXCEPT !.pc = "accept", !.goal = g])
    BY <1>8 DEF DispatchAccept
  <2>3. g \in Games \cup {NoGame}
    BY <2>1, <2>2, CanonFields, GoalAssumption
    DEF RotationGoals, RequestGoal, Runtimes, Receipts, Data
  <2> DEFINE p == [proc[d] EXCEPT !.pc = "accept", !.goal = g]
  <2>a. "accept" \in LockedPcs BY DEF LockedPcs
  <2>4. p \in Procs /\ p.pc \in LockedPcs /\ p.req \in Req
    BY <2>a, <2>1, <2>3, ProcFields DEF Procs
  <2>5. Control' BY <1>8, <2>2, <2>4, BecomeControl DEF DispatchAccept
  <2> QED BY <1>8, <2>5, DataKept DEF DispatchAccept, Data
<1> QED BY <1>2, <1>3, <1>4, <1>5, <1>6, <1>7, <1>8 DEF DispatchStep

LEMMA AcceptTyped ==
  ASSUME TypeInv, NEW d \in Driver, AcceptStep(d)
  PROVE  TypeInv'
<1> USE DEF TypeInv, At
<1> DEFINE r == proc[d].req
<1>1. Asked(proc[d]) => r \in Req BY DEF Control
<1>2. CASE AcceptRefused(d)
  BY <1>2, LeaveControl, DataKept DEF AcceptRefused, Data
<1>3. CASE AcceptBump(d)
  <2>1. r \in Req BY <1>1, <1>3 DEF AcceptBump, Asked, AskedPcs
  <2>2. canon' \in Canonical BY <1>3, <2>1 DEF AcceptBump, Data, Canonical, Receipts
  <2> QED BY <1>3, <2>2, StayControl DEF AcceptBump, Data, World
<1>4. CASE AcceptFresh(d)
  <2>1. r \in Req BY <1>1, <1>4 DEF AcceptFresh, Asked, AskedPcs
  <2>2. ASSUME NEW g \in 1..MaxGen
        PROVE  [st |-> "allocating", gen |-> g,
                goal |-> IF OpOf[r] = "rotate" THEN NoGame ELSE proc[d].goal] \in Receipts
    BY ProcFields, BoundAssumption DEF Receipts, ReceiptStatuses
  <2>3. Data' BY <1>4, <2>2 DEF AcceptFresh, Data, World
  <2>4. Control' BY <1>4, <2>1, GotoControl, LeaveControl DEF AcceptFresh, LockedPcs, AskedPcs
  <2> QED BY <2>3, <2>4
<1>5. CASE Alloc(d)
  <2>1. r \in Req BY <1>1, <1>5 DEF Alloc, Asked, AskedPcs
  <2>2. receipts[r].gen + 1 \in Nat BY <2>1 DEF Data, Receipts
  <2>3. canon' \in Canonical BY <1>5, <2>1, <2>2 DEF Alloc, Data, Canonical, Phases
  <2>4. Control' BY <1>5, <2>1, GotoControl DEF Alloc, LockedPcs, AskedPcs
  <2> QED BY <1>5, <2>3, <2>4 DEF Alloc, Data, World
<1>6. CASE AcceptClaim(d)
  <2>1. r \in Req BY <1>1, <1>6 DEF AcceptClaim, Asked, AskedPcs
  <2>2. canon' \in Canonical BY <1>6, <2>1 DEF AcceptClaim, Data, Canonical, Phases
  <2>3. receipts' \in [Req -> Receipts]
    BY <1>6, SetStatusTyped DEF AcceptClaim, Data, ReceiptStatuses, TerminalStatuses
  <2>4. Control' BY <1>6, <2>1, GotoControl, LeaveControl DEF AcceptClaim, LockedPcs, AskedPcs
  <2> QED BY <1>6, <2>2, <2>3, <2>4, FaultTyped DEF AcceptClaim, Data, World
<1>7. CASE AcceptAllocating(d)
  <2>1. r \in Req BY <1>1, <1>7 DEF AcceptAllocating, Asked, AskedPcs
  <2>2. canon' \in Canonical BY <1>7, <2>1 DEF AcceptAllocating, Data, Canonical, Phases
  <2>3. Control' BY <1>7, <2>1, GotoControl DEF AcceptAllocating, LockedPcs, AskedPcs
  <2> QED BY <1>7, <2>2, <2>3 DEF AcceptAllocating, Data, World
<1>8. CASE MarkAccepted(d)
  <2>1. receipts' \in [Req -> Receipts]
    BY <1>8, SetStatusTyped DEF MarkAccepted, ReceiptStatuses
  <2>2. faults' \in Nat BY <1>8, FaultTyped DEF MarkAccepted
  <2>3. r \in Req BY <1>1, <1>8 DEF MarkAccepted, Asked, AskedPcs
  <2>4. Control' BY <1>8, <2>3, GotoControl DEF MarkAccepted, LockedPcs, AskedPcs
  <2> QED BY <1>8, <2>1, <2>2, <2>4 DEF MarkAccepted, Data, World
<1>9. CASE Overdue(d)
  <2>1. Result(r, "failed") \in Results BY ResultTyped, ProcFields DEF TerminalStatuses
  <2>2. canon' \in Canonical
    BY <1>9, <2>1, CanonFields, SettleTyped DEF Overdue, Phases
  <2>3. Control' BY <1>9, FinishAsControl DEF Overdue, TerminalStatuses
  <2> QED BY <1>9, <2>2, <2>3 DEF Overdue, Data, World
<1>10. CASE AcceptReplay(d)
  <2>1. r \in Req BY <1>1, <1>10 DEF AcceptReplay, Asked, AskedPcs
  <2>2. Control' BY <1>10, <2>1, GotoControl DEF AcceptReplay, LockedPcs, AskedPcs
  <2> QED BY <1>10, <2>2, DataKept DEF AcceptReplay, Data
<1>11. CASE AcceptOrphan(d)
  <2>1. receipts' \in [Req -> Receipts]
    BY <1>11, SetStatusTyped DEF AcceptOrphan, ResultRecorded, ReceiptStatuses, TerminalStatuses
  <2>2. Control' BY <1>11, GotoControl, StayControl DEF AcceptOrphan, LockedPcs, AskedPcs
  <2> QED BY <1>11, <2>1, <2>2 DEF AcceptOrphan, Data, World
<1> QED BY <1>2, <1>3, <1>4, <1>5, <1>6, <1>7, <1>8, <1>9, <1>10, <1>11 DEF AcceptStep

-----------------------------------------------------------------------------
(* The switch, the boundary and the stop                                   *)

LEMMA RollBackTyped ==
  ASSUME TypeInv, NEW d \in Driver, lock = d, RollBack(d)
  PROVE  canon' \in Canonical /\ Control'
BY TransitionTyped, GotoControl DEF TypeInv, RollBack, Phases, LockedPcs, AskedPcs

LEMMA SwitchTyped ==
  ASSUME TypeInv, NEW d \in Driver, SwitchStep(d)
  PROVE  TypeInv'
<1> USE DEF TypeInv, At
<1>0. Asked(proc[d]) => proc[d].req \in Req BY DEF Control
<1>1. CASE RunSwitch(d)
  <2>1. canon' \in Canonical BY <1>1 DEF RunSwitch, Data, Canonical, Phases
  <2> DEFINE p == [proc[d] EXCEPT !.pc = "prepare", !.old = canon.active]
  <2>2. proc[d].req \in Req BY <1>0, <1>1 DEF RunSwitch, Asked, AskedPcs
  <2>a. "prepare" \in LockedPcs BY DEF LockedPcs
  <2>3. p \in Procs /\ p.pc \in LockedPcs /\ p.req \in Req
    BY <2>a, <2>2, CanonFields, ProcFields DEF Procs
  <2>4. Control' BY <1>1, <2>3, BecomeControl DEF RunSwitch
  <2> QED BY <1>1, <2>1, <2>4 DEF RunSwitch, Data, World
<1>2. CASE Quiesce(d)
  <2>1. canon' \in Canonical
    BY <1>2, ProcFields, NoRtTyped DEF Quiesce, Data, Canonical, Phases
  <2>2. proc[d].req \in Req BY <1>0, <1>2 DEF Quiesce, Asked, AskedPcs
  <2>3. Control' BY <1>2, <2>2, GotoControl DEF Quiesce, LockedPcs, AskedPcs
  <2> QED BY <1>2, <2>1, <2>3 DEF Quiesce, Data, World
<1>3. CASE Drain(d)
  <2>1. canon' \in Canonical BY <1>3, TransitionTyped DEF Drain, Phases
  <2>2. proc[d].req \in Req BY <1>0, <1>3 DEF Drain, Asked, AskedPcs
  <2>3. Control' BY <1>3, <2>1, <2>2, ProcFields, WaitAtControl DEF Drain
  <2> QED BY <1>3, <2>1, <2>3, FaultTyped DEF Drain, Data, World
<1>4. CASE DrainUnsupported(d)
  <2>1. canon' \in Canonical BY <1>4, TransitionTyped DEF DrainUnsupported, Phases
  <2>2. Control' BY <1>4, GotoControl DEF DrainUnsupported, LockedPcs, AskedPcs
  <2> QED BY <1>4, <2>1, <2>2, FaultTyped DEF DrainUnsupported, Data, World
<1>5. CASE StopOld(d)
  <2>0. proc[d].req \in Req BY <1>0, <1>5 DEF StopOld, Asked, AskedPcs
  <2>1. canon' \in Canonical /\ Control'
    BY <1>5, <2>0, RollBackTyped, GotoControl DEF StopOld, Data, LockedPcs, AskedPcs
  <2> QED BY <1>5, <2>1, TeardownTyped DEF StopOld, Data
<1>6. CASE Starting(d)
  <2>0. proc[d].req \in Req BY <1>0, <1>6 DEF Starting, Asked, AskedPcs
  <2>1. Candidate(d) \in Runtimes
    BY <2>0, ProcFields DEF Candidate, Runtimes, Data, Receipts
  <2>2. canon' \in Canonical
    BY <1>6, <2>1 DEF Starting, Data, Canonical, Phases
  <2>3. Control' BY <1>6, GotoControl, LeaveControl DEF Starting, LockedPcs, AskedPcs
  <2> QED BY <1>6, <2>2, <2>3 DEF Starting, Data, World
<1>7. CASE Materialize(d)
  <2>1. canon' \in Canonical /\ Control'
    BY <1>7, RollBackTyped, GotoControl DEF Materialize, Data, LockedPcs, AskedPcs
  <2>2. live' \subseteq Runtimes BY <1>7, CanonFields DEF Materialize, Data
  <2> QED BY <1>7, <2>1, <2>2, FaultTyped DEF Materialize, Data
<1>8. CASE Probing(d)
  <2>1. canon' \in Canonical BY <1>8, TransitionTyped DEF Probing, Phases
  <2>2. Control' BY <1>8, GotoControl DEF Probing, LockedPcs, AskedPcs
  <2> QED BY <1>8, <2>1, <2>2 DEF Probing, Data, World
<1>9. CASE Probe(d)
  <2>1. Control' BY <1>9, GotoControl DEF Probe, LockedPcs, AskedPcs
  <2> QED BY <1>9, <2>1, DataKept DEF Probe, Data
<1>10. CASE ProbeFindsNothing(d)
  <2>1. canon' \in Canonical /\ Control' BY <1>10, RollBackTyped DEF ProbeFindsNothing
  <2> QED BY <1>10, <2>1 DEF ProbeFindsNothing, Data, World
<1>11. CASE Commit(d)
  <2> DEFINE r == proc[d].req
  <2>1. CommitResult(r, canon.previous) \in Results
    BY ProcFields, ResultTyped DEF TerminalStatuses
  <2>2. canon.retiring \cup (IF canon.previous = NoRt THEN {} ELSE {Retiree(canon.previous, r)})
          \in SUBSET Retirees
    BY CanonFields, ProcFields, RetireeTyped
  <2>3. canon' \in Canonical
    BY <1>11, <2>1, <2>2, CanonFields, NoRtTyped, SettleTyped DEF Commit, Phases
  <2>4. Control' BY <1>11, FinishAsControl DEF Commit, TerminalStatuses
  <2> QED BY <1>11, <2>1, <2>3, <2>4 DEF Commit, Data
<1>12. CASE SwitchFails(d)
  <2>1. lock = d /\ RollBack(d) /\ UNCHANGED <<receipts, World>> /\ Fault
    BY <1>12 DEF SwitchFails, StepFails
  <2>2. canon' \in Canonical /\ Control' BY <2>1, RollBackTyped
  <2> QED BY <2>1, <2>2, FaultTyped DEF Data, World
<1> QED BY <1>1, <1>2, <1>3, <1>4, <1>5, <1>6, <1>7, <1>8, <1>9, <1>10, <1>11, <1>12
        DEF SwitchStep

LEMMA BoundaryTyped ==
  ASSUME TypeInv, NEW d \in Driver, BoundaryStep(d)
  PROVE  TypeInv'
<1> USE DEF TypeInv, At
<1>0. Asked(proc[d]) => proc[d].req \in Req BY DEF Control
<1>0a. proc[d].pc \in {"await", "cancel", "expire"} => lock # d
  BY DEF Control, LockedPcs
<1>1. CASE BoundaryReached(d)
  <2>1. canon' \in Canonical
    BY <1>1, ProcFields, NoRtTyped DEF BoundaryReached, Data, Canonical, Phases
  <2>2. proc[d].req \in Req BY <1>0, <1>1 DEF BoundaryReached, Asked, AskedPcs
  <2> DEFINE p(pc) == [proc[d] EXCEPT !.pc = pc]
  <2>3. \A pc \in {"stopAgent", "stopOld"} :
          p(pc) \in Procs /\ p(pc).pc \in LockedPcs /\ p(pc).req \in Req
    BY <2>2, ProcFields DEF Procs, LockedPcs
  <2>4. \E pc \in {"stopAgent", "stopOld"} : Acquire(d, p(pc))
    BY <1>1 DEF BoundaryReached
  <2>5. Control' BY <2>3, <2>4, BecomeControl
  <2> QED BY <1>1, <2>1, <2>5 DEF BoundaryReached, Data, World
<1>2. CASE BoundaryFailed(d)
  <2> DEFINE p == [proc[d] EXCEPT !.pc = "cancel"]
  <2>1. p \in Procs /\ p.pc = "cancel" BY ProcFields DEF Procs, WaitingPcs
  <2>2. p.pc \notin LockedPcs /\ ~Asked(p) BY <2>1 DEF LockedPcs, Asked, AskedPcs
  <2>3. Control' BY <1>2, <1>0a, <2>1, <2>2, MoveControl DEF BoundaryFailed
  <2> QED BY <1>2, <2>3, DataKept, FaultTyped DEF BoundaryFailed, Data
<1>3. CASE WaitLost(d)
  <2>1. Control' BY <1>3, <1>0a, OffTyped, OffMoves, MoveControl DEF WaitLost
  <2> QED BY <1>3, <2>1, DataKept DEF WaitLost, Data
<1>4. CASE Cancelled(d)
  <2> DEFINE p == [proc[d] EXCEPT !.pc = "retain"]
  <2>1. p \in Procs /\ p.pc = "retain" BY ProcFields DEF Procs, LockedPcs
  <2>2. p.pc \in LockedPcs /\ ~Asked(p) BY <2>1 DEF LockedPcs, Asked, AskedPcs
  <2>3. Control' BY <1>4, <2>1, <2>2, BecomeControl DEF Cancelled
  <2> QED BY <1>4, <2>3, DataKept DEF Cancelled, Data
<1>5. CASE CancelRefused(d)
  <2>1. Result(proc[d].drain, "failed") \in Results
    BY ProcFields, ResultTyped DEF TerminalStatuses
  <2>2. canon' \in Canonical BY <1>5, <2>1 DEF CancelRefused, Data, Canonical
  <2>3. Control' BY <1>5, <1>0a, OffTyped, OffMoves, MoveControl DEF CancelRefused
  <2> QED BY <1>5, <2>2, <2>3, FaultTyped DEF CancelRefused, Data, World
<1>6. CASE Retain(d)
  <2>1. Result(proc[d].req, "failed") \in Results
    BY ProcFields, ResultTyped DEF TerminalStatuses
  <2>2. canon' \in Canonical
    BY <1>6, <2>1, CanonFields, ProcFields, NoRtTyped, SettleTyped DEF Retain, Phases
  <2>3. Control' BY <1>6, FinishAsControl DEF Retain, TerminalStatuses
  <2> QED BY <1>6, <2>2, <2>3, FaultTyped DEF Retain, Data, World
<1>7. CASE RetireDead(d)
  <2>1. canon.retiring \cup {Retiree(proc[d].old, NoReq)} \in SUBSET Retirees
    BY CanonFields, ProcFields, RetireeTyped
  <2>2. canon' \in Canonical
    BY <1>7, <2>1, CanonFields, NoRtTyped, SettleTyped DEF RetireDead, Phases
  <2>3. Control' BY <1>7, GotoControl DEF RetireDead, LockedPcs, AskedPcs
  <2> QED BY <1>7, <2>2, <2>3 DEF RetireDead, Data, World
<1>8. CASE CollectDead(d)
  <2>1. Result(proc[d].req, "failed") \in Results
    BY ProcFields, ResultTyped DEF TerminalStatuses
  <2> DEFINE rest == canon.retiring \ {Retiree(proc[d].old, NoReq)}
  <2>a. canon \in Canonical /\ rest \in SUBSET Retirees BY CanonFields DEF Data
  <2>b. \/ canon' = [canon EXCEPT !.retiring = rest, !.last = Result(proc[d].req, "failed")]
        \/ canon' = [canon EXCEPT !.last = Result(proc[d].req, "failed")]
    BY <1>8 DEF CollectDead
  <2> HIDE DEF rest
  <2>c. canon' \in Canonical BY <2>1, <2>a, <2>b DEF Canonical
  <2>2. canon' \in Canonical /\ faults' \in Nat BY <1>8, <2>c, FaultTyped DEF CollectDead
  <2>3. Control' BY <1>8, FinishAsControl DEF CollectDead, TerminalStatuses
  <2> QED BY <1>8, <2>2, <2>3 DEF CollectDead, Data, World
<1>9. CASE ExpireDrain(d)
  <2>1. Result(proc[d].drain, "failed") \in Results
    BY ProcFields, ResultTyped DEF TerminalStatuses
  <2>2. canon' \in Canonical
    BY <1>9, <2>1, CanonFields, ProcFields, NoRtTyped, SettleTyped DEF ExpireDrain, Phases
  <2> DEFINE p == [proc[d] EXCEPT !.pc = "finishRedo"]
  <2>3. p \in Procs /\ p.pc = "finishRedo" /\ p.mode = proc[d].mode /\ p.req = proc[d].req
    BY ProcFields DEF Procs, LockedPcs
  <2>4. p.pc \in LockedPcs /\ (Asked(p) => p.req \in Req)
    BY <1>0, <1>9, <2>3 DEF ExpireDrain, LockedPcs, Asked, AskedPcs
  <2>5. Control' BY <1>9, <2>3, <2>4, BecomeControl DEF ExpireDrain
  <2> QED BY <1>9, <2>2, <2>5 DEF ExpireDrain, Data, World
<1>10. CASE ExpireRefused(d)
  <2>1. Control' BY <1>10, <1>0a, OffTyped, OffMoves, MoveControl DEF ExpireRefused
  <2> QED BY <1>10, <2>1, DataKept, FaultTyped DEF ExpireRefused, Data
<1>11. CASE ExpireOvertaken(d)
  <2> DEFINE p == [proc[d] EXCEPT !.pc = "dispatch", !.drain = NoReq, !.old = NoRt]
  <2>1. proc[d].req \in Req BY <1>0, <1>11 DEF ExpireOvertaken, Asked
  <2>a. "dispatch" \in LockedPcs BY DEF LockedPcs
  <2>2. p \in Procs /\ p.pc \in LockedPcs /\ p.req \in Req
    BY <2>a, <2>1, ProcFields, NoRtTyped DEF Procs
  <2>3. Control' BY <1>11, <2>2, BecomeControl DEF ExpireOvertaken
  <2> QED BY <1>11, <2>3, DataKept DEF ExpireOvertaken, Data
<1> QED BY <1>1, <1>2, <1>3, <1>4, <1>5, <1>6, <1>7, <1>8, <1>9, <1>10, <1>11
        DEF BoundaryStep

LEMMA StopTyped ==
  ASSUME TypeInv, NEW d \in Driver, StopStep(d)
  PROVE  TypeInv'
<1> USE DEF TypeInv, At
<1>0. Asked(proc[d]) => proc[d].req \in Req BY DEF Control
<1>1. Result(proc[d].req, "failed") \in Results /\ Result(proc[d].req, "succeeded") \in Results
  BY ProcFields, ResultTyped DEF TerminalStatuses
<1>2. ASSUME lock = d, FailKeepingActive(d) PROVE canon' \in Canonical /\ Control'
  BY <1>1, <1>2, CanonFields, NoRtTyped, SettleTyped, FinishAsControl
  DEF FailKeepingActive, Phases, TerminalStatuses
<1>3. CASE RunStop(d)
  <2>1. CASE FailKeepingActive(d) /\ Fault
    BY <1>2, <1>3, <2>1, FaultTyped DEF RunStop, Data, World
  <2>2. CASE Transition("quiescing") /\ Goto(d, "stopAgent") /\ Benign
    <3>1. canon' \in Canonical BY <2>2, TransitionTyped DEF Phases
    <3>2. Control' BY <1>3, <2>2, GotoControl DEF RunStop, LockedPcs, AskedPcs
    <3> QED BY <1>3, <2>2, <3>1, <3>2, FaultTyped DEF RunStop, Data, World
  <2>3. CASE /\ canon' = [canon EXCEPT !.phase = "draining", !.expired = FALSE]
             /\ WaitAt(d, proc[d], "await")
             /\ Fault \/ Benign
    <3>1. canon' \in Canonical BY <2>3 DEF Data, Canonical, Phases
    <3>2. proc[d].req \in Req BY <1>0, <1>3 DEF RunStop, Asked, AskedPcs
    <3>3. Control' BY <1>3, <2>3, <3>1, <3>2, ProcFields, WaitAtControl DEF RunStop
    <3> QED BY <1>3, <2>3, <3>1, <3>3, FaultTyped DEF RunStop, Data, World
  <2> QED BY <1>3, <2>1, <2>2, <2>3 DEF RunStop
<1>4. CASE StopAgent(d)
  <2>1. CASE FailKeepingActive(d) /\ Fault
    BY <1>2, <1>4, <2>1, FaultTyped DEF StopAgent, Data, World
  <2>2. CASE Transition("stopping") /\ Goto(d, "stopGame") /\ Benign
    <3>1. canon' \in Canonical BY <2>2, TransitionTyped DEF Phases
    <3>2. Control' BY <1>4, <2>2, GotoControl DEF StopAgent, LockedPcs, AskedPcs
    <3> QED BY <1>4, <2>2, <3>1, <3>2, FaultTyped DEF StopAgent, Data, World
  <2> QED BY <1>4, <2>1, <2>2 DEF StopAgent
<1>5. CASE StopGame(d)
  <2>1. canon' \in Canonical /\ Control'
    BY <1>1, <1>2, <1>5, CanonFields, NoRtTyped, SettleTyped, FinishAsControl
    DEF StopGame, Phases, TerminalStatuses
  <2> QED BY <1>5, <2>1, TeardownTyped DEF StopGame, Data
<1> QED BY <1>3, <1>4, <1>5 DEF StopStep

-----------------------------------------------------------------------------
(* Rollback, the receipts and recovery                                     *)

LEMMA DiscardTyped ==
  ASSUME Data, DiscardCandidate
  PROVE  canon' \in Canonical /\ live' \subseteq Runtimes /\ faults' \in Nat
<1> DEFINE dropped == [canon EXCEPT !.candidate = NoRt]
           kept    == Retiree(canon.candidate, NoReq)
<1>1. dropped \in Canonical BY NoRtTyped DEF Data, Canonical
<1>2. kept \in Retirees BY CanonFields, RetireeTyped
<1>3. [dropped EXCEPT !.retiring = @ \cup {kept}] \in Canonical
  BY <1>1, <1>2 DEF Canonical
<1> QED BY <1>1, <1>3, TeardownTyped DEF DiscardCandidate

LEMMA PublishTyped ==
  ASSUME TypeInv, NEW d \in Driver, NEW rt \in Runtimes, lock = d, PublishRestored(d, rt)
  PROVE  canon' \in Canonical /\ Control'
<1>1. Result(proc[d].req, "rolled_back") \in Results
  BY ProcFields, ResultTyped DEF TypeInv, TerminalStatuses
<1>2. canon' \in Canonical
  BY <1>1, CanonFields, NoRtTyped, SettleTyped DEF TypeInv, PublishRestored, Phases
<1>3. Control' BY FinishAsControl DEF TypeInv, PublishRestored, TerminalStatuses
<1> QED BY <1>2, <1>3

LEMMA RecoverFailedTyped == ASSUME Data PROVE RecoverFailed \in Canonical
<1>1. Result(IF canon.req # NoReq THEN canon.req ELSE canon.last.req, "failed") \in Results
  BY CanonFields, ResultTyped DEF Results, TerminalStatuses
<1> QED BY <1>1 DEF RecoverFailed, Data, Canonical, Phases

LEMMA RestoreTyped ==
  ASSUME TypeInv, NEW d \in Driver, RestoreStep(d)
  PROVE  TypeInv'
<1> USE DEF TypeInv, At
<1>1. CASE UndoCandidate(d)
  BY <1>1, DiscardTyped, StayControl DEF UndoCandidate, Data
<1>2. CASE PickPrevious(d)
  <2>1. canon' \in Canonical
    BY <1>2, CanonFields, NoRtTyped DEF PickPrevious, Data, Canonical
  <2>2. Control' BY <1>2, GotoControl DEF PickPrevious, LockedPcs, AskedPcs
  <2> QED BY <1>2, <2>1, <2>2 DEF PickPrevious, Data, World
<1>3. CASE NothingToRestore(d)
  <2>1. Result(proc[d].req, "failed") \in Results
    BY ProcFields, ResultTyped DEF TerminalStatuses
  <2>2. canon' \in Canonical
    BY <1>3, <2>1, CanonFields, NoRtTyped, SettleTyped DEF NothingToRestore, Phases
  <2>3. Control' BY <1>3, FinishAsControl DEF NothingToRestore, TerminalStatuses
  <2> QED BY <1>3, <2>2, <2>3 DEF NothingToRestore, Data, World
<1>4. CASE RestoreRefused(d)
  <2>1. Control' BY <1>4, GotoControl DEF RestoreRefused, LockedPcs, AskedPcs
  <2> QED BY <1>4, <2>1, DataKept, FaultTyped DEF RestoreRefused
<1>5. CASE RestoreAlive(d)
  <2>1. canon' \in Canonical
    BY <1>5, ProcFields DEF RestoreAlive, Data, Canonical, Phases
  <2>2. Control' BY <1>5, GotoControl DEF RestoreAlive, LockedPcs, AskedPcs
  <2> QED BY <1>5, <2>1, <2>2 DEF RestoreAlive, Data, World
<1>6. CASE RestartAgent(d)
  <2>1. CASE PublishRestored(d, canon.previous) /\ Benign
    BY <1>6, <2>1, CanonFields, PublishTyped, FaultTyped DEF RestartAgent, Data, World
  <2>2. CASE Fault /\ Goto(d, "abandon") /\ UNCHANGED canon
    <3>1. Control' BY <1>6, <2>2, GotoControl DEF RestartAgent, LockedPcs, AskedPcs
    <3> QED BY <1>6, <2>2, <3>1, FaultTyped DEF RestartAgent, Data, World
  <2> QED BY <1>6, <2>1, <2>2 DEF RestartAgent
<1>7. CASE RestoreFresh(d)
  <2> DEFINE cand == [gen |-> canon.nextGen, game |-> canon.previous.game]
  <2>1. cand \in Runtimes BY CanonFields DEF Runtimes
  <2>2. canon.nextGen + 1 \in Nat BY CanonFields
  <2>3. canon' \in Canonical
    BY <1>7, <2>1, <2>2, ProcFields DEF RestoreFresh, Data, Canonical, Phases
  <2>4. Control' BY <1>7, GotoControl DEF RestoreFresh, LockedPcs, AskedPcs
  <2> QED BY <1>7, <2>3, <2>4 DEF RestoreFresh, Data, World
<1>8. CASE Restart(d)
  <2>1. live' \subseteq Runtimes BY <1>8, CanonFields DEF Restart, Data
  <2>2. Control' BY <1>8, GotoControl DEF Restart, LockedPcs, AskedPcs
  <2> QED BY <1>8, <2>1, <2>2, FaultTyped DEF Restart, Data, Disk
<1>9. CASE Publish(d)
  <2>1. CASE PublishRestored(d, canon.candidate)
    BY <1>9, <2>1, CanonFields, PublishTyped, FaultTyped DEF Publish, Data, World
  <2>2. CASE Goto(d, "lost") /\ UNCHANGED canon
    <3>1. Control' BY <1>9, <2>2, GotoControl DEF Publish, LockedPcs, AskedPcs
    <3> QED BY <1>9, <2>2, <3>1, FaultTyped DEF Publish, Data, World
  <2> QED BY <1>9, <2>1, <2>2 DEF Publish
<1>10. CASE DropRestart(d)
  <2>1. Control' BY <1>10, GotoControl DEF DropRestart, LockedPcs, AskedPcs
  <2> QED BY <1>10, <2>1, DiscardTyped DEF DropRestart, Data
<1>11. CASE Abandon(d)
  <2>1. Result(proc[d].req, "failed") \in Results
    BY ProcFields, ResultTyped DEF TerminalStatuses
  <2>2. canon' \in Canonical
    BY <1>11, <2>1, NoRtTyped DEF Abandon, Data, Canonical, Phases
  <2>3. Control' BY <1>11, FinishAsControl DEF Abandon, TerminalStatuses
  <2> QED BY <1>11, <2>2, <2>3 DEF Abandon, Data, World
<1>12. CASE AbandonRecovery(d)
  BY <1>12, RecoverFailedTyped, LeaveControl DEF AbandonRecovery, Data, World
<1> QED BY <1>1, <1>2, <1>3, <1>4, <1>5, <1>6, <1>7, <1>8, <1>9, <1>10, <1>11, <1>12
        DEF RestoreStep

LEMMA AfterFinishControl ==
  ASSUME TypeInv, NEW d \in Driver, Finishing(d), AfterFinish(d)
  PROVE  Control'
<1> USE DEF TypeInv
<1>1. lock = d BY DEF Finishing, At
<1>2. CASE proc[d].pc = "finish"
  BY <1>1, <1>2, GotoControl DEF AfterFinish, LockedPcs, AskedPcs
<1>3. CASE proc[d].pc # "finish" /\ Leave(d)
  BY <1>1, <1>3, LeaveControl
<1>4. CASE proc[d].pc = "finishRedo" /\ proc[d].mode = "execute"
  <2> DEFINE p == [proc[d] EXCEPT !.pc = "dispatch", !.drain = NoReq, !.old = NoRt]
  <2>1. proc[d].req \in Req BY <1>4 DEF Control, Asked
  <2>a. "dispatch" \in LockedPcs BY DEF LockedPcs
  <2>2. p \in Procs /\ p.pc \in LockedPcs /\ p.req \in Req
    BY <2>a, <2>1, ProcFields, NoRtTyped DEF Procs
  <2> QED BY <1>1, <1>4, <2>2, BecomeControl DEF AfterFinish
<1> QED BY <1>2, <1>3, <1>4 DEF AfterFinish

LEMMA ReconcileTyped == ASSUME Data, ReconcileReceipt PROVE receipts' \in [Req -> Receipts]
<1>1. TerminalStatuses \subseteq ReceiptStatuses BY DEF ReceiptStatuses
<1> QED BY <1>1, SetStatusTyped DEF ReconcileReceipt, Data

LEMMA FinishTyped ==
  ASSUME TypeInv, NEW d \in Driver, FinishStep(d)
  PROVE  TypeInv'
<1> USE DEF TypeInv, At
<1>0. TerminalStatuses \subseteq ReceiptStatuses BY DEF ReceiptStatuses
<1>1. CASE Finish(d) /\ FinishFirst(d)
  <2>1. FinishedAs(d) \in ReceiptStatuses
    BY <1>0, ProcFields DEF FinishedAs, TerminalStatuses
  <2>2. Data' BY <1>1, <2>1, SetStatusTyped DEF Finish, FinishFirst, Data, World
  <2> QED BY <1>1, <2>2, AfterFinishControl DEF Finish, FinishFirst
<1>2. CASE Finish(d) /\ FinishAgain(d)
  <2>1. Control'
    BY <1>2, LeaveControl, GotoControl
    DEF Finish, FinishAgain, Finishing, LockedPcs, AskedPcs
  <2>2. UNCHANGED <<Disk, World, faults>> BY <1>2 DEF Finish, FinishAgain, Disk
  <2>3. faults' \in Nat BY <2>2 DEF Data
  <2> QED BY <2>1, <2>2, <2>3, DataKept
<1>3. CASE FinalizeReceipt(d)
  <2>1. receipts' \in [Req -> Receipts]
    BY <1>3, <1>0, SetStatusTyped DEF FinalizeReceipt, TerminalStatuses
  <2> QED BY <1>3, <2>1, StayControl DEF FinalizeReceipt, Data, World
<1>4. CASE Finalize(d)
  <2>1. PICK dead \in SUBSET Collectable :
          /\ Fault \/ Benign
          /\ live' = live \ {e.rt : e \in dead}
          /\ canon' = [canon EXCEPT !.retiring = @ \ dead]
    BY <1>4 DEF Finalize
  <2>2. canon.retiring \ dead \in SUBSET Retirees BY CanonFields
  <2>3. canon' \in Canonical BY <2>1, <2>2 DEF Data, Canonical
  <2>4. Control'
    BY <1>4, LeaveControl, GotoControl
    DEF Finalize, Finalizing, AfterFinalize, LockedPcs, AskedPcs
  <2> QED BY <1>4, <2>1, <2>3, <2>4, FaultTyped DEF Finalize, Data
<1>5. CASE Reconcile(d)
  BY <1>5, ReconcileTyped, LeaveControl DEF Reconcile, Data, World
<1> QED BY <1>1, <1>2, <1>3, <1>4, <1>5 DEF FinishStep, Finish

LEMMA RecoverTyped ==
  ASSUME TypeInv, NEW d \in Driver, RecoverStep(d)
  PROVE  TypeInv'
<1> USE DEF TypeInv, At
<1>0. Asked(proc[d]) => proc[d].req \in Req BY DEF Control
<1>1. CASE RecoverDraining(d)
  <2>1. proc[d].mode = "execute" => proc[d].req \in Req
    BY <1>0, <1>1 DEF RecoverDraining, Asked
  <2>2. Data' BY <1>1, DataKept DEF RecoverDraining, Data
  <2>3. Control'
    BY <1>1, <2>1, <2>2, ProcFields, WaitAtControl, LeaveControl DEF RecoverDraining, Data
  <2> QED BY <2>2, <2>3
<1>2. CASE RecoverIdle(d)
  <2>1. Control' BY <1>2, GotoControl DEF RecoverIdle, LockedPcs, AskedPcs
  <2> QED BY <1>2, <2>1, ReconcileTyped DEF RecoverIdle, Data, World
<1>3. CASE RecoverReady(d)
  <2>1. Control' BY <1>3, GotoControl, LeaveControl DEF RecoverReady, LockedPcs, AskedPcs
  <2> QED BY <1>3, <2>1, DataKept, FaultTyped DEF RecoverReady
<1>4. CASE RecoverDead(d)
  <2> DEFINE gone == [canon EXCEPT !.phase = "failed", !.active = NoRt,
                                   !.last = AnonymousResult("failed")]
  <2>1. gone \in Canonical
    BY ResultTyped, NoRtTyped DEF Data, Canonical, Phases, TerminalStatuses
  <2>2. canon.retiring \cup {Retiree(canon.active, NoReq)} \in SUBSET Retirees
    BY CanonFields, RetireeTyped
  <2>3. gone.retiring = canon.retiring BY DEF Data, Canonical
  <2>4. [gone EXCEPT !.retiring = @ \cup {Retiree(canon.active, NoReq)}] \in Canonical
    BY <2>1, <2>2, <2>3 DEF Canonical
  <2>5. canon' \in Canonical /\ faults' \in Nat
    BY <1>4, <2>1, <2>4, FaultTyped DEF RecoverDead
  <2> QED BY <1>4, <2>5, LeaveControl DEF RecoverDead, Data, World
<1>5. CASE RecoverCandidate(d)
  <2>1. Control' BY <1>5, GotoControl DEF RecoverCandidate, LockedPcs, AskedPcs
  <2> QED BY <1>5, <2>1, DiscardTyped DEF RecoverCandidate, Data
<1>6. CASE RecoverLeftovers(d)
  <2>1. Control' BY <1>6, GotoControl DEF RecoverLeftovers, LockedPcs, AskedPcs
  <2> QED BY <1>6, <2>1, DataKept DEF RecoverLeftovers, Data
<1>7. CASE ResolveRestore(d)
  <2> DEFINE p == [proc[d] EXCEPT !.pc = "restore", !.req = canon.last.req, !.restoring = TRUE]
  <2>0. canon.last.req \in Req \cup {NoReq} BY CanonFields DEF Results
  <2>a. "restore" \in LockedPcs BY DEF LockedPcs
  <2>1. p \in Procs /\ p.pc = "restore" BY <2>a, <2>0, ProcFields DEF Procs
  <2>2. p.pc \in LockedPcs /\ ~Asked(p) BY <2>1 DEF LockedPcs, Asked, AskedPcs
  <2>3. Control' BY <1>7, <2>1, <2>2, BecomeControl DEF ResolveRestore
  <2> QED BY <1>7, <2>3, DataKept DEF ResolveRestore, Data
<1>8. CASE ResolveStop(d)
  <2>1. canon' \in Canonical
    BY <1>8, CanonFields, NoRtTyped, ResultTyped, SettleTyped, RecoverFailedTyped
    DEF ResolveStop, Phases, TerminalStatuses
  <2> QED BY <1>8, <2>1, LeaveControl, TeardownTyped DEF ResolveStop, Data
<1>9. CASE ResolveIdle(d)
  <2>1. canon' \in Canonical
    BY <1>9, CanonFields, NoRtTyped, ResultTyped, SettleTyped
    DEF ResolveIdle, Phases, TerminalStatuses
  <2> QED BY <1>9, <2>1, LeaveControl DEF ResolveIdle, Data, World
<1>10. CASE RecoverStop(d)
  <2>1. Result(canon.req, "succeeded") \in Results
    BY CanonFields, ResultTyped DEF TerminalStatuses
  <2>2. canon' \in Canonical
    BY <1>10, <2>1, CanonFields, NoRtTyped, SettleTyped, RecoverFailedTyped
    DEF RecoverStop, Phases
  <2> DEFINE p == [proc[d] EXCEPT !.pc = "finishLeave", !.req = canon.req, !.res = "succeeded"]
  <2>0. canon.req \in Req \cup {NoReq} BY CanonFields
  <2>a. "finishLeave" \in LockedPcs /\ "succeeded" \in TerminalStatuses
    BY DEF LockedPcs, TerminalStatuses
  <2>3. p \in Procs /\ p.pc = "finishLeave" BY <2>a, <2>0, ProcFields DEF Procs
  <2>4. p.pc \in LockedPcs /\ ~Asked(p) BY <2>3 DEF LockedPcs, Asked, AskedPcs
  <2>5. Control' BY <1>10, <2>3, <2>4, BecomeControl, LeaveControl DEF RecoverStop
  <2> QED BY <1>10, <2>2, <2>5, TeardownTyped DEF RecoverStop, Data
<1>11. CASE RecoverSwitch(d)
  <2>1. canon' \in Canonical BY <1>11, TransitionTyped DEF RecoverSwitch, Phases
  <2> DEFINE p == [proc[d] EXCEPT !.pc = "undo", !.req = canon.req]
  <2>a. "undo" \in LockedPcs BY DEF LockedPcs
  <2>2. p \in Procs /\ p.pc = "undo" BY <2>a, CanonFields, ProcFields DEF Procs
  <2>3. p.pc \in LockedPcs /\ ~Asked(p) BY <2>2 DEF LockedPcs, Asked, AskedPcs
  <2>4. Control' BY <1>11, <2>2, <2>3, BecomeControl DEF RecoverSwitch
  <2> QED BY <1>11, <2>1, <2>4 DEF RecoverSwitch, Data, World
<1> QED BY <1>1, <1>2, <1>3, <1>4, <1>5, <1>6, <1>7, <1>8, <1>9, <1>10, <1>11
        DEF RecoverStep

LEMMA WorldTyped ==
  ASSUME TypeInv,
         (\E d \in Driver : Crash(d)) \/ Expire \/ (\E rt \in live : GameDies(rt))
  PROVE  TypeInv'
<1> USE DEF TypeInv
<1>1. CASE \E d \in Driver : Crash(d)
  <2>1. PICK d \in Driver : Crash(d) BY <1>1
  <2>2. \/ lock = d /\ lock' = NoDriver
        \/ lock # d /\ lock' = lock
    BY <2>1 DEF Crash
  <2>3. Control' BY <2>1, <2>2, OffTyped, OffMoves, MoveControl DEF Crash
  <2> QED BY <2>1, <2>3, DataKept, FaultTyped DEF Crash
<1>2. CASE Expire
  BY <1>2, StayControl DEF Expire, Data, Canonical, World
<1>3. CASE \E rt \in live : GameDies(rt)
  BY <1>3, StayControl, FaultTyped DEF GameDies, Data, Disk
<1> QED BY <1>1, <1>2, <1>3

-----------------------------------------------------------------------------
(* Type correctness                                                        *)

LEMMA InitTyped == Init => TypeInv
<1> SUFFICES ASSUME Init PROVE TypeInv
  OBVIOUS
<1>1. InitialRuntime \in Runtimes
  BY NoRtTyped, StartAssumption DEF InitialRuntime, Runtimes
<1>2. canon \in Canonical
  BY <1>1, NoRtTyped
  DEF Init, Canonical, Phases, NoResult, Results
<1>3. receipts \in [Req -> Receipts]
  BY DEF Init, NoReceipt, Receipts, ReceiptStatuses
<1>4. Control BY OffTyped, OffMoves, DriverAssumption DEF Init, Control
<1> QED BY <1>1, <1>2, <1>3, <1>4 DEF Init, TypeInv, Data

LEMMA NextTyped == TypeInv /\ [Next]_vars => TypeInv'
<1> SUFFICES ASSUME TypeInv, [Next]_vars PROVE TypeInv'
  OBVIOUS
<1>1. CASE \E d \in Driver : (\E r \in Req : Request(d, r)) \/ Recover(d) \/ Maintain(d)
  BY <1>1, EntryTyped
<1>2. CASE \E d \in Driver : DriverStep(d)
  BY <1>2, ResumeTyped, DispatchTyped, AcceptTyped, SwitchTyped, BoundaryTyped, StopTyped,
     RestoreTyped, FinishTyped, RecoverTyped
  DEF DriverStep
<1>3. CASE (\E d \in Driver : Crash(d)) \/ Expire \/ (\E rt \in live : GameDies(rt))
  BY <1>3, WorldTyped
<1>4. CASE UNCHANGED vars
  BY <1>4 DEF vars, TypeInv, Control, Data
<1> QED BY <1>1, <1>2, <1>3, <1>4 DEF Next

LEMMA AlwaysTyped == Spec => []TypeInv
BY InitTyped, NextTyped, PTL DEF Spec

(* Whatever the drivers, requests and games, and whatever crashes: the     *)
(* documents, the receipts and the drivers' variables keep their types.    *)
THEOREM TypeCorrect == Spec => []TypeOK
<1>1. TypeInv => TypeOK BY DEF TypeInv, Control, Data, TypeOK
<1> QED BY <1>1, AlwaysTyped, PTL

-----------------------------------------------------------------------------
(* Terminal receipts                                                       *)

(* A driver in the middle of an acceptance remembers, by where it is, that *)
(* the receipt it is about to mark is still open.                          *)
PendingPcs == {"alloc", "allocated", "claim", "replay"}

PendingOf(p, rs) ==
  /\ p.pc \in {"alloc", "allocated", "replay"} => rs[p.req].st = "allocating"
  /\ p.pc = "claim" => rs[p.req].st = "queued"

Pending == \A d \in Driver : PendingOf(proc[d], receipts)

(* A step of d that leaves no driver but d elsewhere than it was, and d    *)
(* outside the acceptance.                                                 *)
Aside(d) == /\ \A e \in Driver \ {d} : proc'[e] = proc[e]
            /\ proc'[d].pc \notin PendingPcs

LEMMA LeaveAside == ASSUME Control, NEW d \in Driver, Leave(d) PROVE Aside(d)
BY DEF Control, Leave, Aside, Off, PendingPcs

LEMMA GotoAside ==
  ASSUME Control, NEW d \in Driver, NEW pc, pc \notin PendingPcs, Goto(d, pc)
  PROVE  Aside(d)
BY DEF Control, Goto, Aside, Procs

LEMMA MoveAside ==
  ASSUME Control, NEW d \in Driver, NEW p, p.pc \notin PendingPcs,
         proc' = [proc EXCEPT ![d] = p]
  PROVE  Aside(d)
BY DEF Control, Aside

LEMMA WaitAtAside ==
  ASSUME Control, NEW d \in Driver, NEW p \in Procs, NEW pc \in {"await", "cancel", "expire"},
         WaitAt(d, p, pc)
  PROVE  Aside(d)
BY MoveAside DEF WaitAt, Release, Procs, PendingPcs

LEMMA FinishAsAside ==
  ASSUME Control, NEW d \in Driver, NEW st,
         NEW pc \in {"finish", "finishLeave", "finalizeReady"}, FinishAs(d, pc, st)
  PROVE  Aside(d)
BY MoveAside, ProcFields DEF FinishAs, Become, Procs, PendingPcs

LEMMA SwitchAside ==
  ASSUME TypeInv, NEW d \in Driver, SwitchStep(d)
  PROVE  Aside(d) /\ UNCHANGED receipts
<1>1. UNCHANGED receipts
  BY DEF SwitchStep, RunSwitch, Quiesce, Drain, DrainUnsupported, StopOld, Starting,
         Materialize, Probing, Probe, ProbeFindsNothing, Commit, SwitchFails, StepFails, Disk
<1>2. CASE RunSwitch(d)
  <2> DEFINE p == [proc[d] EXCEPT !.pc = "prepare", !.old = canon.active]
  <2>1. p.pc \notin PendingPcs BY ProcFields DEF TypeInv, Procs, PendingPcs
  <2> QED BY <1>1, <1>2, <2>1, MoveAside DEF TypeInv, RunSwitch, Become
<1>3. CASE Drain(d)
  BY <1>1, <1>3, WaitAtAside, ProcFields DEF TypeInv, Drain
<1>4. CASE Quiesce(d) \/ DrainUnsupported(d) \/ StopOld(d) \/ Starting(d)
  BY <1>1, <1>4, GotoAside, LeaveAside
  DEF TypeInv, Quiesce, DrainUnsupported, StopOld, Starting, RollBack, PendingPcs
<1>5. CASE Materialize(d) \/ Probing(d) \/ Probe(d) \/ ProbeFindsNothing(d)
  BY <1>1, <1>5, GotoAside
  DEF TypeInv, Materialize, Probing, Probe, ProbeFindsNothing, RollBack, PendingPcs
<1>6. CASE Commit(d) \/ SwitchFails(d)
  BY <1>1, <1>6, GotoAside, FinishAsAside
  DEF TypeInv, Commit, SwitchFails, StepFails, RollBack, PendingPcs
<1> QED BY <1>2, <1>3, <1>4, <1>5, <1>6 DEF SwitchStep

LEMMA BoundaryAside ==
  ASSUME TypeInv, NEW d \in Driver, BoundaryStep(d)
  PROVE  Aside(d) /\ UNCHANGED receipts
<1>1. UNCHANGED receipts
  BY DEF BoundaryStep, BoundaryReached, BoundaryFailed, WaitLost, Cancelled, CancelRefused,
         Retain, RetireDead, CollectDead, ExpireDrain, ExpireRefused, ExpireOvertaken, Disk
<1>2. \A pc : [proc[d] EXCEPT !.pc = pc].pc = pc
  BY ProcFields DEF TypeInv, Procs
<1>3. [proc[d] EXCEPT !.pc = "dispatch", !.drain = NoReq, !.old = NoRt].pc = "dispatch"
  BY ProcFields DEF TypeInv, Procs
<1>4. Off.pc \notin PendingPcs BY DEF Off, PendingPcs
<1>5. CASE BoundaryReached(d)
  <2>1. PICK pc \in {"stopAgent", "stopOld"} : proc' = [proc EXCEPT ![d] = [proc[d] EXCEPT !.pc = pc]]
    BY <1>5 DEF BoundaryReached, Acquire
  <2> QED BY <1>1, <1>2, <2>1, MoveAside DEF TypeInv, PendingPcs
<1>6. CASE BoundaryFailed(d) \/ WaitLost(d) \/ Cancelled(d) \/ CancelRefused(d)
  <2>1. PICK p : proc' = [proc EXCEPT ![d] = p] /\ p.pc \in {"cancel", "retain", "off"}
    <3>1. CASE BoundaryFailed(d)
      <4>1. proc' = [proc EXCEPT ![d] = [proc[d] EXCEPT !.pc = "cancel"]]
        BY <3>1 DEF BoundaryFailed
      <4> QED BY <1>2, <4>1
    <3>2. CASE Cancelled(d) BY <1>2, <3>2 DEF Cancelled, Acquire
    <3>3. CASE WaitLost(d) \/ CancelRefused(d) BY <3>3 DEF WaitLost, CancelRefused, Off
    <3> QED BY <1>6, <3>1, <3>2, <3>3
  <2> QED BY <1>1, <2>1, MoveAside DEF TypeInv, PendingPcs
<1>7. CASE Retain(d) \/ RetireDead(d) \/ CollectDead(d)
  BY <1>1, <1>7, GotoAside, FinishAsAside
  DEF TypeInv, Retain, RetireDead, CollectDead, PendingPcs
<1>8. CASE ExpireDrain(d)
  BY <1>1, <1>2, <1>8, MoveAside DEF TypeInv, ExpireDrain, Acquire, PendingPcs
<1>9. CASE ExpireRefused(d)
  BY <1>1, <1>4, <1>9, MoveAside DEF TypeInv, ExpireRefused
<1>10. CASE ExpireOvertaken(d)
  BY <1>1, <1>3, <1>10, MoveAside DEF TypeInv, ExpireOvertaken, Acquire, PendingPcs
<1> QED BY <1>5, <1>6, <1>7, <1>8, <1>9, <1>10 DEF BoundaryStep

LEMMA StopAside ==
  ASSUME TypeInv, NEW d \in Driver, StopStep(d)
  PROVE  Aside(d) /\ UNCHANGED receipts
BY GotoAside, WaitAtAside, FinishAsAside, ProcFields
DEF TypeInv, StopStep, RunStop, StopAgent, StopGame, FailKeepingActive, PendingPcs

LEMMA RestoreAside ==
  ASSUME TypeInv, NEW d \in Driver, RestoreStep(d)
  PROVE  UNCHANGED receipts /\ (UNCHANGED proc \/ Aside(d))
<1>1. UNCHANGED receipts
  BY DEF RestoreStep, UndoCandidate, PickPrevious, NothingToRestore, RestoreRefused, RestoreAlive,
         RestartAgent, RestoreFresh, Restart, Publish, DropRestart, Abandon, AbandonRecovery, Disk
<1>2. CASE UndoCandidate(d) BY <1>1, <1>2 DEF UndoCandidate
<1>3. CASE PickPrevious(d) \/ NothingToRestore(d) \/ RestoreRefused(d) \/ RestoreAlive(d)
  BY <1>1, <1>3, GotoAside, FinishAsAside
  DEF TypeInv, PickPrevious, NothingToRestore, RestoreRefused, RestoreAlive, PendingPcs
<1>4. CASE RestartAgent(d) \/ RestoreFresh(d) \/ Restart(d) \/ Publish(d)
  BY <1>1, <1>4, GotoAside, FinishAsAside
  DEF TypeInv, RestartAgent, RestoreFresh, Restart, Publish, PublishRestored, PendingPcs
<1>5. CASE DropRestart(d) \/ Abandon(d) \/ AbandonRecovery(d)
  BY <1>1, <1>5, GotoAside, FinishAsAside, LeaveAside
  DEF TypeInv, DropRestart, Abandon, AbandonRecovery, PendingPcs
<1> QED BY <1>2, <1>3, <1>4, <1>5 DEF RestoreStep

(* No terminal receipt changes, and only the lock's holder, or a driver    *)
(* that finds the lock free, writes a receipt at all.                      *)
TerminalKept == \A r \in Req : Terminal(r) => receipts'[r] = receipts[r]
Careful(d)   == TerminalKept /\ (receipts' # receipts => lock \in {d, NoDriver})

LEMMA UnchangedKept == ASSUME NEW d, UNCHANGED receipts PROVE Careful(d)
BY DEF Careful, TerminalKept

LEMMA SetStatusKept ==
  ASSUME Data, NEW r, NEW st, ~Terminal(r), SetStatus(r, st)
  PROVE  TerminalKept
BY DEF Data, SetStatus, TerminalKept

LEMMA NewReceiptKept ==
  ASSUME Data, NEW r, NEW x, receipts[r].st = "none", receipts' = [receipts EXCEPT ![r] = x]
  PROVE  TerminalKept
BY DEF Data, TerminalKept, Terminal, TerminalStatuses

LEMMA PendingNext ==
  ASSUME TypeInv, Pending, NEW d \in Driver, Careful(d),
         \A e \in Driver \ {d} : proc'[e] = proc[e],
         PendingOf(proc'[d], receipts')
  PROVE  Pending'
<1> SUFFICES ASSUME NEW e \in Driver PROVE PendingOf(proc'[e], receipts')
  BY DEF Pending
<1>1. CASE e = d BY <1>1
<1>2. CASE e # d /\ proc[e].pc \in PendingPcs
  <2>1. lock = e BY <1>2 DEF TypeInv, Control, PendingPcs, LockedPcs
  <2>2. receipts' = receipts BY <1>2, <2>1, DriverAssumption DEF Careful
  <2> QED BY <1>2, <2>2 DEF Pending
<1>3. CASE e # d /\ proc[e].pc \notin PendingPcs
  BY <1>3 DEF PendingOf, PendingPcs
<1> QED BY <1>1, <1>2, <1>3

LEMMA AsidePending ==
  ASSUME TypeInv, Pending, NEW d \in Driver, Careful(d), Aside(d)
  PROVE  Pending'
BY PendingNext DEF Aside, PendingOf, PendingPcs

LEMMA EntryKeeps ==
  ASSUME TypeInv, Pending, NEW d \in Driver,
         (\E r \in Req : Request(d, r)) \/ Recover(d) \/ Maintain(d)
  PROVE  TerminalKept /\ Pending'
<1> USE DEF TypeInv
<1>1. CASE \E r \in Req : Request(d, r)
  <2>1. PICK r \in Req : Request(d, r) BY <1>1
  <2>2. [Off EXCEPT !.pc = "dispatch", !.req = r].pc = "dispatch" BY DEF Off
  <2>3. Aside(d) BY <2>1, <2>2, MoveAside DEF Request, Acquire, PendingPcs
  <2> QED BY <2>1, <2>3, UnchangedKept, AsidePending DEF Request, Disk, Careful
<1>2. CASE Recover(d)
  <2>1. [Off EXCEPT !.pc = "recover", !.mode = "recover"].pc = "recover" BY DEF Off
  <2>2. Aside(d) BY <1>2, <2>1, MoveAside DEF Recover, Acquire, PendingPcs
  <2> QED BY <1>2, <2>2, UnchangedKept, AsidePending DEF Recover, Disk, Careful
<1>3. CASE MaintainDrain(d)
  <2>1. [Off EXCEPT !.mode = "maintain"] \in Procs BY OffTyped DEF Procs
  <2>2. Aside(d) BY <1>3, <2>1, WaitAtAside DEF MaintainDrain
  <2> QED BY <1>3, <2>2, UnchangedKept, AsidePending DEF MaintainDrain, Disk, Careful
<1>4. CASE ResumeHead(d)
  <2>1. PICK h \in Req : 
          /\ IsHead(receipts, h)
          /\ \/ /\ Release(d, [Off EXCEPT !.pc = "resume", !.mode = "maintain", !.req = h])
                /\ UNCHANGED receipts
             \/ SetStatus(h, "failed") /\ UNCHANGED proc
    BY <1>4 DEF ResumeHead
  <2>2. Careful(d)
    BY <1>4, <2>1, SetStatusKept, UnchangedKept
    DEF Careful, ResumeHead, IsHead, Queued, Terminal, TerminalStatuses
  <2>3. [Off EXCEPT !.pc = "resume", !.mode = "maintain", !.req = h].pc = "resume" BY DEF Off
  <2>4. Aside(d)
    <3>1. CASE UNCHANGED proc BY <1>4, <3>1 DEF ResumeHead, Aside, PendingPcs
    <3>2. CASE Release(d, [Off EXCEPT !.pc = "resume", !.mode = "maintain", !.req = h])
      BY <2>3, <3>2, MoveAside DEF Release, PendingPcs
    <3> QED BY <2>1, <3>1, <3>2
  <2> QED BY <2>2, <2>4, AsidePending DEF Careful
<1> QED BY <1>1, <1>2, <1>3, <1>4 DEF Maintain

LEMMA DispatchKeeps ==
  ASSUME TypeInv, Pending, NEW d \in Driver,
         Resume(d) \/ ResumeBusy(d) \/ DispatchStep(d)
  PROVE  TerminalKept /\ Pending'
<1> USE DEF TypeInv, At
<1> SUFFICES Careful(d) /\ Aside(d) BY AsidePending DEF Careful
<1>1. CASE Resume(d) \/ ResumeBusy(d)
  <2>1. Careful(d) BY <1>1, UnchangedKept DEF Resume, ResumeBusy, Disk
  <2>2. [proc[d] EXCEPT !.pc = "dispatch"].pc = "dispatch" BY ProcFields DEF Procs
  <2>3. Aside(d)
    BY <1>1, <2>2, OffMoves, MoveAside DEF Resume, ResumeBusy, Acquire, Off, PendingPcs
  <2> QED BY <2>1, <2>3
<1>2. CASE DispatchRefused(d) \/ DispatchUnqueueable(d)
  BY <1>2, UnchangedKept, LeaveAside DEF DispatchRefused, DispatchUnqueueable, Disk
<1>3. CASE DispatchEnqueue(d)
  <2>1. Careful(d)
    BY <1>3, NewReceiptKept DEF Careful, DispatchEnqueue, MustEnqueue
  <2> QED BY <1>3, <2>1, GotoAside DEF DispatchEnqueue, PendingPcs
<1>4. CASE Enqueue(d) \/ DispatchExpired(d)
  BY <1>4, UnchangedKept, LeaveAside, WaitAtAside, ProcFields DEF Enqueue, DispatchExpired, Disk
<1>5. CASE DispatchDone(d)
  <2>1. Careful(d)
    BY <1>5, SetStatusKept DEF Careful, DispatchDone, AlreadyDone, Terminal, TerminalStatuses
  <2> QED BY <1>5, <2>1, LeaveAside DEF DispatchDone
<1>6. CASE DispatchAccept(d)
  <2>1. PICK g : Become(d, [proc[d] EXCEPT !.pc = "accept", !.goal = g])
    BY <1>6 DEF DispatchAccept
  <2>2. [proc[d] EXCEPT !.pc = "accept", !.goal = g].pc = "accept" BY ProcFields DEF Procs
  <2>3. Aside(d) BY <2>1, <2>2, MoveAside DEF Become, PendingPcs
  <2> QED BY <1>6, <2>3, UnchangedKept DEF DispatchAccept, Disk
<1> QED BY <1>1, <1>2, <1>3, <1>4, <1>5, <1>6 DEF DispatchStep

LEMMA AcceptKeeps ==
  ASSUME TypeInv, Pending, NEW d \in Driver, AcceptStep(d)
  PROVE  TerminalKept /\ Pending'
<1> USE DEF TypeInv, At
<1> DEFINE r == proc[d].req
<1>1. ASSUME Careful(d), Aside(d) PROVE TerminalKept /\ Pending'
  BY <1>1, AsidePending DEF Careful
<1>2. ASSUME NEW pc, Goto(d, pc)
      PROVE  /\ proc'[d].pc = pc /\ proc'[d].req = r
             /\ \A e \in Driver \ {d} : proc'[e] = proc[e]
  BY <1>2, ProcFields DEF Goto, Control, Procs
<1>3. Asked(proc[d]) => r \in Req BY DEF Control
<1>4. CASE AcceptRefused(d) \/ AcceptReplay(d)
  <2>1. Careful(d) BY <1>4, UnchangedKept DEF AcceptRefused, AcceptReplay, Disk
  <2>2. Aside(d)
    BY <1>4, LeaveAside, GotoAside DEF AcceptRefused, AcceptReplay, PendingPcs
  <2> QED BY <1>1, <2>1, <2>2
<1>5. CASE AcceptBump(d)
  BY <1>1, <1>5, UnchangedKept DEF AcceptBump, Aside, PendingPcs
<1>6. CASE AcceptFresh(d)
  <2>1. r \in Req BY <1>3, <1>6 DEF AcceptFresh, Asked, AskedPcs
  <2>2. CASE Leave(d) /\ UNCHANGED receipts
    BY <1>1, <2>2, UnchangedKept, LeaveAside
  <2>3. CASE Goto(d, "alloc")
    <3>1. PICK g \in 1..MaxGen :
            receipts' = [receipts EXCEPT ![r] =
              [st |-> "allocating", gen |-> g,
               goal |-> IF OpOf[r] = "rotate" THEN NoGame ELSE proc[d].goal]]
      <4>1. proc'[d].pc = "alloc" BY <1>2, <2>3
      <4>2. ~Leave(d) BY <4>1, LeaveAside DEF Aside, PendingPcs
      <4> QED BY <1>6, <4>2 DEF AcceptFresh
    <3>2. receipts'[r].st = "allocating" BY <2>1, <3>1 DEF Data
    <3>3. Careful(d) BY <1>6, <3>1, NewReceiptKept DEF AcceptFresh, Careful
    <3>4. PendingOf(proc'[d], receipts') BY <1>2, <2>3, <3>2 DEF PendingOf
    <3> QED BY <1>2, <2>3, <3>3, <3>4, PendingNext DEF Careful
  <2> QED BY <1>6, <2>2, <2>3 DEF AcceptFresh
<1>7. CASE Alloc(d) \/ AcceptAllocating(d)
  <2>1. PICK pc \in {"allocated", "replay"} : Goto(d, pc)
    BY <1>7 DEF Alloc, AcceptAllocating
  <2>2. receipts[r].st = "allocating" /\ lock = d /\ UNCHANGED receipts
    BY <1>7 DEF Alloc, AcceptAllocating, Pending, PendingOf
  <2>3. PendingOf(proc'[d], receipts') BY <1>2, <2>1, <2>2 DEF PendingOf
  <2> QED BY <1>2, <2>1, <2>2, <2>3, UnchangedKept, PendingNext DEF Careful
<1>8. CASE AcceptClaim(d)
  <2>1. receipts[r].st = "queued" /\ lock = d BY <1>8 DEF AcceptClaim
  <2>2. CASE Goto(d, "claim") /\ UNCHANGED receipts
    <3>1. PendingOf(proc'[d], receipts') BY <1>2, <2>1, <2>2 DEF PendingOf
    <3> QED BY <1>2, <2>2, <3>1, UnchangedKept, PendingNext DEF Careful
  <2>3. CASE SetStatus(r, "failed") /\ Leave(d)
    <3>1. Careful(d)
      BY <2>1, <2>3, SetStatusKept DEF Careful, Terminal, TerminalStatuses
    <3> QED BY <1>1, <2>3, <3>1, LeaveAside
  <2> QED BY <1>8, <2>2, <2>3 DEF AcceptClaim
<1>9. CASE MarkAccepted(d)
  <2>1. ~Terminal(r) /\ lock = d
    BY <1>9 DEF MarkAccepted, Pending, PendingOf, Terminal, TerminalStatuses
  <2>2. Careful(d) BY <1>9, <2>1, SetStatusKept DEF MarkAccepted, Careful
  <2>3. Aside(d) BY <1>9, GotoAside DEF MarkAccepted, PendingPcs
  <2> QED BY <1>1, <2>2, <2>3
<1>10. CASE Overdue(d)
  BY <1>1, <1>10, UnchangedKept, FinishAsAside DEF Overdue
<1>11. CASE AcceptOrphan(d)
  <2>1. ~Terminal(r) /\ lock = d
    BY <1>11 DEF AcceptOrphan, Orphaned, Terminal, TerminalStatuses
  <2>2. Careful(d) BY <1>11, <2>1, SetStatusKept DEF AcceptOrphan, Careful
  <2>3. CASE UNCHANGED <<lock, proc>>
    BY <1>1, <1>11, <2>2, <2>3 DEF AcceptOrphan, Aside, PendingPcs
  <2>4. CASE Goto(d, "finalize")
    BY <1>1, <2>2, <2>4, GotoAside DEF PendingPcs
  <2> QED BY <1>11, <2>3, <2>4 DEF AcceptOrphan
<1> QED BY <1>4, <1>5, <1>6, <1>7, <1>8, <1>9, <1>10, <1>11 DEF AcceptStep

LEMMA AfterFinishAside ==
  ASSUME TypeInv, NEW d \in Driver, Finishing(d), AfterFinish(d)
  PROVE  Aside(d)
<1> USE DEF TypeInv
<1>1. [proc[d] EXCEPT !.pc = "dispatch", !.drain = NoReq, !.old = NoRt].pc = "dispatch"
  BY ProcFields DEF Procs
<1> QED BY <1>1, GotoAside, LeaveAside, MoveAside DEF AfterFinish, Become, PendingPcs

LEMMA ReconcileKept == ASSUME Data, ReconcileReceipt PROVE TerminalKept
<1>1. CASE UNCHANGED receipts BY <1>1 DEF TerminalKept
<1>2. CASE receipts' # receipts
  BY <1>2, SetStatusKept DEF ReconcileReceipt, Terminal
<1> QED BY <1>1, <1>2

LEMMA FinishKeeps ==
  ASSUME TypeInv, Pending, NEW d \in Driver, FinishStep(d)
  PROVE  TerminalKept /\ Pending'
<1> USE DEF TypeInv, At
<1> SUFFICES Careful(d) /\ Aside(d) BY AsidePending DEF Careful
<1>1. CASE Finish(d) /\ FinishFirst(d)
  <2>1. TerminalKept BY <1>1, SetStatusKept DEF Finish, FinishFirst
  <2> QED BY <1>1, <2>1, AfterFinishAside DEF Finish, FinishFirst, Finishing, Careful
<1>2. CASE Finish(d) /\ FinishAgain(d)
  BY <1>2, UnchangedKept, LeaveAside, GotoAside DEF Finish, FinishAgain, Finishing, Disk, PendingPcs
<1>3. CASE FinalizeReceipt(d)
  <2>1. TerminalKept
    BY <1>3, SetStatusKept DEF FinalizeReceipt, ProvenAccepted, Terminal, TerminalStatuses
  <2>2. lock = d BY <1>3 DEF FinalizeReceipt, Finalizing
  <2>3. Aside(d) BY <1>3 DEF FinalizeReceipt, Finalizing, Aside, PendingPcs
  <2> QED BY <2>1, <2>2, <2>3 DEF Careful
<1>4. CASE Finalize(d)
  BY <1>4, UnchangedKept, LeaveAside, GotoAside DEF Finalize, AfterFinalize, PendingPcs
<1>5. CASE Reconcile(d)
  BY <1>5, ReconcileKept, LeaveAside DEF Reconcile, Careful
<1> QED BY <1>1, <1>2, <1>3, <1>4, <1>5 DEF FinishStep, Finish

LEMMA RecoverKeeps ==
  ASSUME TypeInv, Pending, NEW d \in Driver, RecoverStep(d)
  PROVE  TerminalKept /\ Pending'
<1> USE DEF TypeInv, At
<1> SUFFICES Careful(d) /\ Aside(d) BY AsidePending DEF Careful
<1>1. CASE RecoverDraining(d)
  BY <1>1, UnchangedKept, WaitAtAside, LeaveAside, ProcFields DEF RecoverDraining, Disk
<1>2. CASE RecoverIdle(d)
  BY <1>2, ReconcileKept, GotoAside DEF RecoverIdle, Careful, PendingPcs
<1>3. CASE RecoverReady(d) \/ RecoverDead(d)
  BY <1>3, UnchangedKept, LeaveAside, GotoAside DEF RecoverReady, RecoverDead, Disk, PendingPcs
<1>4. CASE RecoverCandidate(d) \/ RecoverLeftovers(d)
  BY <1>4, UnchangedKept, GotoAside DEF RecoverCandidate, RecoverLeftovers, Disk, PendingPcs
<1>5. CASE ResolveRestore(d)
  <2>1. [proc[d] EXCEPT !.pc = "restore", !.req = canon.last.req, !.restoring = TRUE].pc = "restore"
    BY ProcFields DEF Procs
  <2> QED BY <1>5, <2>1, UnchangedKept, MoveAside DEF ResolveRestore, Become, Disk, PendingPcs
<1>6. CASE ResolveStop(d) \/ ResolveIdle(d)
  BY <1>6, UnchangedKept, LeaveAside DEF ResolveStop, ResolveIdle
<1>7. CASE RecoverStop(d)
  <2>1. [proc[d] EXCEPT !.pc = "finishLeave", !.req = canon.req, !.res = "succeeded"].pc = "finishLeave"
    BY ProcFields DEF Procs
  <2> QED BY <1>7, <2>1, UnchangedKept, MoveAside, LeaveAside DEF RecoverStop, Become, PendingPcs
<1>8. CASE RecoverSwitch(d)
  <2>1. [proc[d] EXCEPT !.pc = "undo", !.req = canon.req].pc = "undo"
    BY ProcFields DEF Procs
  <2> QED BY <1>8, <2>1, UnchangedKept, MoveAside DEF RecoverSwitch, Become, PendingPcs
<1> QED BY <1>1, <1>2, <1>3, <1>4, <1>5, <1>6, <1>7, <1>8 DEF RecoverStep

LEMMA WorldKeeps ==
  ASSUME TypeInv, Pending,
         (\E d \in Driver : Crash(d)) \/ Expire \/ (\E rt \in live : GameDies(rt))
  PROVE  TerminalKept /\ Pending'
<1> USE DEF TypeInv
<1>1. CASE \E d \in Driver : Crash(d)
  <2>1. PICK d \in Driver : Crash(d) BY <1>1
  <2>2. Aside(d) BY <2>1, MoveAside DEF Crash, Off, PendingPcs
  <2> QED BY <2>1, <2>2, UnchangedKept, AsidePending DEF Crash, Disk, Careful
<1>2. CASE Expire BY <1>2 DEF Expire, TerminalKept, Pending
<1>3. CASE \E rt \in live : GameDies(rt)
  BY <1>3 DEF GameDies, Disk, TerminalKept, Pending
<1> QED BY <1>1, <1>2, <1>3

LEMMA NextKeeps == TypeInv /\ Pending /\ [Next]_vars => TerminalKept /\ Pending'
<1> SUFFICES ASSUME TypeInv, Pending, [Next]_vars PROVE TerminalKept /\ Pending'
  OBVIOUS
<1>1. CASE \E d \in Driver : (\E r \in Req : Request(d, r)) \/ Recover(d) \/ Maintain(d)
  BY <1>1, EntryKeeps
<1>2. CASE \E d \in Driver : DriverStep(d)
  <2>1. PICK d \in Driver : DriverStep(d) BY <1>2
  <2>2. CASE SwitchStep(d) \/ BoundaryStep(d) \/ StopStep(d)
    BY <2>2, SwitchAside, BoundaryAside, StopAside, UnchangedKept, AsidePending DEF Careful
  <2>3. CASE RestoreStep(d)
    <3>1. UNCHANGED receipts /\ (UNCHANGED proc \/ Aside(d)) BY <2>3, RestoreAside
    <3>2. CASE UNCHANGED proc BY <3>1, <3>2 DEF TerminalKept, Pending
    <3>3. CASE Aside(d) BY <3>1, <3>3, UnchangedKept, AsidePending DEF Careful
    <3> QED BY <3>1, <3>2, <3>3
  <2> QED BY <2>1, <2>2, <2>3, DispatchKeeps, AcceptKeeps, FinishKeeps, RecoverKeeps
          DEF DriverStep
<1>3. CASE (\E d \in Driver : Crash(d)) \/ Expire \/ (\E rt \in live : GameDies(rt))
  BY <1>3, WorldKeeps
<1>4. CASE UNCHANGED vars BY <1>4 DEF vars, TerminalKept, Pending
<1> QED BY <1>1, <1>2, <1>3, <1>4 DEF Next

(* A request that has been answered keeps its answer: no interleaving of   *)
(* drivers, resends, recoveries and crashes writes a terminal receipt.     *)
THEOREM AnswersKept == Spec => ReceiptsFinal
<1>1. Init => Pending
  BY DEF Init, Pending, PendingOf, Off
<1>2. TypeInv /\ Pending /\ [Next]_vars => Pending' BY NextKeeps
<1>3. TypeInv /\ Pending /\ [Next]_vars
        => [\A r \in Req : Terminal(r) => receipts'[r] = receipts[r]]_vars
  BY NextKeeps DEF TerminalKept
<1> QED BY <1>1, <1>2, <1>3, AlwaysTyped, PTL DEF Spec, ReceiptsFinal

=============================================================================
