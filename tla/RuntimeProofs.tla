---------------------------- MODULE RuntimeProofs ---------------------------
(***************************************************************************)
(* Which runtimes the canonical document names, and which of them play:    *)
(* what the coordinator saves is valid, no game runs that it has lost      *)
(* sight of, and never two of them at the same time.                       *)
(***************************************************************************)
EXTENDS OwnershipProofs

(* Every runtime that is named has a generation of its own, below the next *)
(* one.  Generation 0 is nobody's.                                         *)
Sound(c) == /\ GenerationsDistinct(c)
            /\ c.nextGen >= 1
            /\ \A rt \in Tracked(c) : rt.gen >= 1 /\ rt.gen < c.nextGen

(* Where a game must be named.                                             *)
Occupied(c) == /\ c.phase \in {"ready", "draining"} => c.active # NoRt
               /\ c.phase \in {"starting", "probing"} => c.candidate # NoRt

(* Every game that plays is named, and a candidate has no predecessor.     *)
Housed(c, l) == /\ l \subseteq Tracked(c)
                /\ c.candidate # NoRt => c.previous \notin l

(* What the holder of the lock knows of the runtimes.                      *)
KnowingPcs == {"enqueue", "alloc", "quiesced", "materialize", "restart", "publish", "lost",
               "retireDead"}
Knowing(p, c, rs, l) ==
  /\ p.pc \in {"enqueue", "alloc"} => rs[p.req].gen >= c.nextGen
  /\ p.pc \in {"restart", "publish", "lost"} => c.candidate # NoRt
  /\ p.pc = "quiesced" => c.previous \notin l
  /\ p.pc \in {"materialize", "restart"} => c.candidate \notin l
  /\ p.pc = "restart" => c.retiring = {}
  /\ p.pc = "retireDead" => p.old \notin l

(* The receipt of a request that may yet run has a generation.             *)
DatedStatuses == {"allocating", "accepted", "queued"}
Dated(rs) == \A r \in Req : rs[r].st \in DatedStatuses => rs[r].gen >= 1

Running == /\ Sound(canon) /\ Occupied(canon) /\ Housed(canon, live) /\ Dated(receipts)
           /\ \A d \in Driver : lock = d => Knowing(proc[d], canon, receipts, live)

-----------------------------------------------------------------------------
(* How a step preserves Running                                            *)

(* The holder's steps, and those of a driver that finds the lock free.     *)
Runs(d) == /\ Sound(canon') /\ Occupied(canon') /\ Housed(canon', live') /\ Dated(receipts')
           /\ lock' = d => Knowing(proc'[d], canon', receipts', live')

LEMMA RunsRunning ==
  ASSUME NEW d \in Driver, Keeps(d), Runs(d)
  PROVE  Running'
BY DriverAssumption DEF Keeps, Runs, Running

LEMMA BystandsRunning ==
  ASSUME Running, NEW d \in Driver, Bystands(d)
  PROVE  Running'
BY DriverAssumption DEF Bystands, Disk, World, Others, Running

LEMMA Unknowing ==
  ASSUME NEW d \in Driver, Sound(canon'), Occupied(canon'), Housed(canon', live'),
         Dated(receipts'), proc'[d].pc \notin KnowingPcs
  PROVE  Runs(d)
BY DEF Runs, Knowing, KnowingPcs

LEMMA TrackedFields ==
  ASSUME Data, Sound(canon)
  PROVE  /\ NoRt \notin Tracked(canon)
         /\ \A rt \in Tracked(canon) : rt \in Runtimes /\ rt.gen \in Nat
         /\ canon.nextGen \in Nat
BY CanonFields DEF Sound, NoRt, Runtimes, Retirees, Tracked, Slots

(* No two places of a sound document hold the same generation.             *)
LEMMA SlotsDiffer ==
  ASSUME Data, Sound(canon), NEW x \in Slots(canon), NEW y \in Slots(canon), x.gen = y.gen
  PROVE  x = y
BY DEF Sound, GenerationsDistinct, Slots

(* Slots are emptied or change places; a runtime that leaves them may go   *)
(* among the retirees.                                                     *)
LEMMA Rearranged ==
  ASSUME Data, Sound(canon), canon'.nextGen \in Nat, canon'.nextGen >= canon.nextGen,
         canon'.active \in Slots(canon) \cup {NoRt},
         canon'.candidate \in Slots(canon) \cup {NoRt},
         canon'.previous \in Slots(canon) \cup {NoRt},
         canon'.active # NoRt => canon'.active \notin {canon'.candidate, canon'.previous},
         canon'.candidate # NoRt => canon'.candidate # canon'.previous,
         NEW e, canon'.retiring \subseteq canon.retiring \cup {e},
         \/ canon'.retiring \subseteq canon.retiring
         \/ e.rt \in Slots(canon) \ {canon'.active, canon'.candidate, canon'.previous}
  PROVE  Sound(canon')
<1>1. Slots(canon') \subseteq Slots(canon) BY DEF Slots
<1>2. \A f \in canon'.retiring : f \in canon.retiring \/ (f = e /\ e.rt \in Slots(canon) \ Slots(canon'))
  BY DEF Slots
<1>3. Tracked(canon') \subseteq Tracked(canon) BY <1>1, <1>2 DEF Tracked
<1>4. \A rt \in Tracked(canon') : rt.gen >= 1 /\ rt.gen < canon'.nextGen
  BY <1>3, TrackedFields DEF Sound
<1>5. canon'.nextGen >= 1 BY TrackedFields DEF Sound
<1>6. NoRt.gen = 0 /\ \A rt \in Tracked(canon) : rt.gen # 0
  BY TrackedFields DEF NoRt, Sound
<1>7. \A x, y \in {canon'.active, canon'.candidate, canon'.previous} : x # y => x.gen # y.gen
  BY <1>6, SlotsDiffer DEF Tracked
<1>8. \A f \in canon.retiring, x \in Slots(canon) : f.rt.gen # x.gen
  BY DEF Sound, GenerationsDistinct, Slots
<1>9. \A f \in canon'.retiring :
        /\ f.rt.gen \notin {canon'.active.gen, canon'.candidate.gen, canon'.previous.gen}
        /\ \A g \in canon'.retiring : f.rt.gen = g.rt.gen => f = g
  <2> SUFFICES ASSUME NEW f \in canon'.retiring
               PROVE  /\ \A x \in Slots(canon') \cup {NoRt} : f.rt.gen # x.gen
                      /\ \A g \in canon'.retiring : f.rt.gen = g.rt.gen => f = g
    BY DEF Slots
  <2>1. f.rt \in Tracked(canon) BY <1>2 DEF Tracked
  <2>2. \A x \in Slots(canon') : f.rt.gen # x.gen
    BY <1>1, <1>2, <1>8, SlotsDiffer
  <2>3. \A g \in canon'.retiring : f.rt.gen = g.rt.gen => f = g
    BY <1>2, <1>8 DEF Sound, GenerationsDistinct
  <2> QED BY <1>6, <2>1, <2>2, <2>3
<1> QED BY <1>4, <1>5, <1>7, <1>9 DEF Sound, GenerationsDistinct

(* The runtimes stay where they are; a game may have exited.               *)
SameRuntimes == /\ canon'.nextGen = canon.nextGen /\ canon'.active = canon.active
                /\ canon'.candidate = canon.candidate /\ canon'.previous = canon.previous
                /\ canon'.retiring = canon.retiring
                /\ live' \subseteq live

LEMMA SameRuns ==
  ASSUME Running, NEW d \in Driver, SameRuntimes, Occupied(canon'), Dated(receipts'),
         lock' # d \/ proc'[d].pc \notin KnowingPcs
  PROVE  Runs(d)
<1>1. Sound(canon')
  BY DEF Running, SameRuntimes, Sound, GenerationsDistinct, Tracked, Slots
<1>2. Housed(canon', live')
  BY DEF Running, SameRuntimes, Housed, Tracked, Slots
<1> QED BY <1>1, <1>2, Unknowing DEF Runs

LEMMA QuietRuns ==
  ASSUME Running, NEW d \in Driver, UNCHANGED canon, live' \subseteq live, Dated(receipts'),
         lock' # d \/ proc'[d].pc \notin KnowingPcs
  PROVE  Runs(d)
BY SameRuns DEF Running, SameRuntimes

LEMMA StatusDated ==
  ASSUME Data, Dated(receipts), NEW r, NEW st, SetStatus(r, st),
         \/ st \in TerminalStatuses
         \/ r \in Req => receipts[r].st \in DatedStatuses
  PROVE  Dated(receipts')
<1>1. \A q \in Req : /\ receipts'[q].gen = receipts[q].gen
                     /\ q # r => receipts'[q].st = receipts[q].st
                     /\ q = r => receipts'[q].st = st
  BY DEF Data, Receipts, SetStatus
<1> QED BY <1>1 DEF Dated, DatedStatuses, TerminalStatuses

LEMMA EntryRuns ==
  ASSUME TypeInv, Running, NEW d \in Driver,
         (\E r \in Req : Request(d, r)) \/ Recover(d) \/ Maintain(d) \/ Resume(d)
  PROVE  Runs(d)
<1> USE DEF TypeInv, KnowingPcs
<1>1. Dated(receipts) BY DEF Running
<1>2. CASE \E r \in Req : Request(d, r)
  <2>1. PICK r \in Req : Request(d, r) BY <1>2
  <2>2. proc'[d] = [Off EXCEPT !.pc = "dispatch", !.req = r]
    BY <2>1, BecomeFields DEF Request, Acquire
  <2>3. proc'[d].pc = "dispatch" BY <2>2 DEF Off
  <2> QED BY <1>1, <2>1, <2>3, QuietRuns DEF Request, Disk, World
<1>3. CASE Recover(d)
  <2>1. proc'[d] = [Off EXCEPT !.pc = "recover", !.mode = "recover"]
    BY <1>3, BecomeFields DEF Recover, Acquire
  <2>2. proc'[d].pc = "recover" BY <2>1 DEF Off
  <2> QED BY <1>1, <1>3, <2>2, QuietRuns DEF Recover, Disk, World
<1>4. CASE MaintainDrain(d)
  <2>1. lock' # d BY <1>4, DriverAssumption DEF MaintainDrain, WaitAt, Release
  <2> QED BY <1>1, <1>4, <2>1, QuietRuns DEF MaintainDrain, Disk, World
<1>5. CASE ResumeHead(d)
  <2>1. lock' # d BY <1>5, DriverAssumption DEF ResumeHead, Release
  <2>2. receipts' = receipts \/ \E h \in Req : SetStatus(h, "failed")
    BY <1>5 DEF ResumeHead
  <2>3. Dated(receipts') BY <1>1, <2>2, StatusDated DEF TerminalStatuses
  <2> QED BY <1>5, <2>1, <2>3, QuietRuns DEF ResumeHead, World
<1>6. CASE Resume(d)
  <2>1. proc' = [proc EXCEPT ![d] = [proc[d] EXCEPT !.pc = "dispatch"]]
    BY <1>6 DEF Resume, Acquire
  <2>2. proc'[d].pc = "dispatch" BY <2>1, MoveFields
  <2> QED BY <1>1, <1>6, <2>2, QuietRuns DEF Resume, Disk, World
<1> QED BY <1>2, <1>3, <1>4, <1>5, <1>6 DEF Maintain

(* The next generation is raised.                                          *)
LEMMA Raised ==
  ASSUME Data, Running, NEW n \in Nat, n >= canon.nextGen,
         canon'.nextGen = n, canon'.active = canon.active,
         canon'.candidate = canon.candidate, canon'.previous = canon.previous,
         canon'.retiring = canon.retiring, live' = live
  PROVE  Sound(canon') /\ Housed(canon', live')
<1>1. Sound(canon')
  BY TrackedFields DEF Running, Sound, GenerationsDistinct, Tracked, Slots
<1> QED BY <1>1 DEF Running, Housed, Tracked, Slots

LEMMA FreshReceipt ==
  ASSUME Data, Running, NEW r \in Req, NEW g \in Nat, IsFreshGeneration(canon, receipts, g),
         NEW rc, rc.gen = g, receipts' = [receipts EXCEPT ![r] = rc]
  PROVE  Dated(receipts') /\ receipts'[r].gen = g /\ g >= canon.nextGen
<1>1. g >= canon.nextGen /\ g >= 1
  BY TrackedFields DEF IsFreshGeneration, Running, Sound
<1>2. \A q \in Req : receipts'[q] = IF q = r THEN rc ELSE receipts[q]
  BY DEF Data
<1> QED BY <1>1, <1>2 DEF Running, Dated

LEMMA DispatchRuns ==
  ASSUME TypeInv, Running, NEW d \in Driver, DispatchStep(d)
  PROVE  Runs(d)
<1> USE DEF TypeInv, At, KnowingPcs
<1> DEFINE r == proc[d].req
<1>1. Dated(receipts) /\ Occupied(canon) /\ (lock = d => Knowing(proc[d], canon, receipts, live))
  BY DEF Running
<1>2. CASE DispatchRefused(d) \/ DispatchUnqueueable(d) \/ DispatchDone(d)
  <2>1. lock' # d
    BY <1>2, DriverAssumption
    DEF DispatchRefused, DispatchUnqueueable, DispatchDone, Leave
  <2>2. receipts' = receipts \/ SetStatus(r, "succeeded")
    BY <1>2 DEF DispatchRefused, DispatchUnqueueable, DispatchDone, Disk
  <2>3. Dated(receipts') BY <1>1, <2>2, StatusDated DEF TerminalStatuses
  <2> QED
    BY <1>2, <2>1, <2>3, QuietRuns
    DEF DispatchRefused, DispatchUnqueueable, DispatchDone, Disk, World
<1>3. CASE DispatchEnqueue(d)
  <2>1. r \in Req BY <1>3 DEF DispatchEnqueue, Control, Asked, AskedPcs
  <2>2. PICK g \in 1 .. MaxGen :
          /\ IsFreshGeneration(canon, receipts, g)
          /\ receipts' = [receipts EXCEPT ![r] =
                            [st |-> "queued", gen |-> g, goal |-> RequestGoal(r)]]
    BY <1>3 DEF DispatchEnqueue
  <2>3. Dated(receipts') /\ receipts'[r].gen >= canon.nextGen
    <3>1. g \in Nat BY BoundAssumption
    <3> QED BY <2>1, <2>2, <3>1, FreshReceipt
  <2>4. Goto(d, "enqueue") BY <1>3 DEF DispatchEnqueue
  <2>5. proc'[d].pc = "enqueue" /\ proc'[d].req = r BY <2>4, GotoFields
  <2> QED BY <1>3, <2>3, <2>5 DEF DispatchEnqueue, Running, Runs, Knowing, World
<1>4. CASE Enqueue(d)
  <2> DEFINE g == receipts[r].gen
  <2>1. r \in Req BY <1>4 DEF Enqueue, Control, Asked, AskedPcs
  <2>2. g \in Nat /\ g >= canon.nextGen
    BY <1>1, <1>4, <2>1 DEF Enqueue, Knowing, Data, Receipts
  <2>3. /\ canon'.nextGen = g + 1 /\ canon'.active = canon.active /\ canon'.phase = canon.phase
        /\ canon'.candidate = canon.candidate /\ canon'.previous = canon.previous
        /\ canon'.retiring = canon.retiring
    BY <1>4 DEF Enqueue, Data, Canonical
  <2>4. Sound(canon') /\ Housed(canon', live')
    <3>1. g + 1 \in Nat /\ g + 1 >= canon.nextGen BY <2>2, CanonFields
    <3> QED BY <1>4, <2>3, <3>1, Raised DEF Enqueue, World
  <2>5. lock' # d BY <1>4, DriverAssumption DEF Enqueue, WaitAt, Release, Leave
  <2> QED BY <1>1, <1>4, <2>3, <2>4, <2>5 DEF Enqueue, Runs, Occupied
<1>5. CASE DispatchExpired(d)
  <2>1. lock' # d BY <1>5, DriverAssumption DEF DispatchExpired, WaitAt, Release
  <2> QED BY <1>1, <1>5, <2>1, QuietRuns DEF DispatchExpired, Disk, World
<1>6. CASE DispatchAccept(d)
  <2>1. PICK g : Become(d, [proc[d] EXCEPT !.pc = "accept", !.goal = g])
    BY <1>6 DEF DispatchAccept
  <2>2. proc'[d] = [proc[d] EXCEPT !.pc = "accept", !.goal = g] BY <2>1, BecomeFields DEF Become
  <2>3. proc'[d].pc = "accept" BY <2>2, ProcFields DEF Procs
  <2> QED BY <1>1, <1>6, <2>3, QuietRuns DEF DispatchAccept, Disk, World
<1> QED BY <1>2, <1>3, <1>4, <1>5, <1>6 DEF DispatchStep

LEMMA AcceptRuns ==
  ASSUME TypeInv, Ownership, Receipted, Pending, Running, NEW d \in Driver, AcceptStep(d)
  PROVE  Runs(d)
<1> USE DEF TypeInv, At, KnowingPcs
<1> DEFINE r == proc[d].req
<1>1. Dated(receipts) /\ Occupied(canon) /\ (lock = d => Knowing(proc[d], canon, receipts, live))
  BY DEF Running
<1>2. /\ CanonShape(canon) /\ (lock = d => Holding(proc[d], canon))
      /\ PendingOf(proc[d], receipts)
  BY DEF Ownership, Pending
<1>3. CASE AcceptRefused(d) \/ AcceptReplay(d)
  BY <1>1, <1>3, LeaveFields, GotoFields, DriverAssumption, QuietRuns
  DEF AcceptRefused, AcceptReplay, Disk, World
<1>4. CASE AcceptBump(d)
  <2> DEFINE g == receipts[r].gen
  <2>1. r \in Req BY <1>4 DEF AcceptBump, Control, Asked, AskedPcs
  <2>2. g \in Nat /\ canon.nextGen \in Nat /\ g + 1 >= canon.nextGen
    <3>1. g \in Nat BY <2>1 DEF Data, Receipts
    <3> QED BY <1>4, <3>1, CanonFields DEF AcceptBump
  <2>3. /\ canon'.nextGen = g + 1 /\ canon'.active = canon.active /\ canon'.phase = canon.phase
        /\ canon'.candidate = canon.candidate /\ canon'.previous = canon.previous
        /\ canon'.retiring = canon.retiring
    BY <1>4 DEF AcceptBump, Data, Canonical
  <2>4. Sound(canon') /\ Housed(canon', live')
    BY <1>4, <2>2, <2>3, Raised DEF AcceptBump, World
  <2> QED BY <1>1, <1>4, <2>3, <2>4 DEF AcceptBump, Runs, Occupied, Knowing
<1>5. CASE AcceptFresh(d)
  <2>1. CASE Leave(d) /\ UNCHANGED receipts
    BY <1>1, <1>5, <2>1, LeaveFields, DriverAssumption, QuietRuns DEF AcceptFresh, World
  <2>2. CASE Goto(d, "alloc")
    <3>1. r \in Req BY <1>5 DEF AcceptFresh, Control, Asked, AskedPcs
    <3>2. PICK g, goal :
            /\ g \in 1 .. MaxGen /\ IsFreshGeneration(canon, receipts, g)
            /\ receipts' = [receipts EXCEPT ![r] =
                              [st |-> "allocating", gen |-> g, goal |-> goal]]
      <4>1. proc'[d].pc = "alloc" /\ Off.pc = "off" BY <2>2, GotoFields DEF Off
      <4>2. ~Leave(d) BY <4>1, LeaveFields
      <4> QED BY <1>5, <4>2 DEF AcceptFresh
    <3>3. Dated(receipts') /\ receipts'[r].gen >= canon.nextGen
      <4>1. g \in Nat BY <3>2, BoundAssumption
      <4> QED BY <3>1, <3>2, <4>1, FreshReceipt
    <3>4. proc'[d].pc = "alloc" /\ proc'[d].req = r BY <2>2, GotoFields
    <3> QED BY <1>5, <3>3, <3>4 DEF AcceptFresh, Running, Runs, Knowing, World
  <2> QED BY <1>5, <2>1, <2>2 DEF AcceptFresh
<1>6. CASE Alloc(d)
  <2> DEFINE g == receipts[r].gen
  <2>1. r \in Req BY <1>6 DEF Alloc, Control, Asked, AskedPcs
  <2>2. g \in Nat /\ g >= canon.nextGen
    BY <1>1, <1>6, <2>1 DEF Alloc, Knowing, Data, Receipts
  <2>3. /\ canon'.nextGen = g + 1 /\ canon'.active = canon.active /\ canon'.phase = "validating"
        /\ canon'.candidate = canon.candidate /\ canon'.previous = canon.previous
        /\ canon'.retiring = canon.retiring
    BY <1>6 DEF Alloc, Data, Canonical
  <2>4. Sound(canon') /\ Housed(canon', live')
    <3>1. g + 1 \in Nat /\ g + 1 >= canon.nextGen BY <2>2, CanonFields
    <3> QED BY <1>6, <2>3, <3>1, Raised DEF Alloc, World
  <2>5. Goto(d, "allocated") BY <1>6 DEF Alloc
  <2> QED BY <1>1, <1>6, <2>3, <2>4, <2>5, GotoFields, Unknowing DEF Alloc, Occupied
<1>7. ASSUME canon' = [canon EXCEPT !.phase = "validating", !.req = r],
             UNCHANGED <<receipts, World>>, NEW pc \in {"claim", "replay"}, Goto(d, pc)
      PROVE  Runs(d)
  <2>1. SameRuntimes /\ canon'.phase = "validating"
    BY <1>7 DEF SameRuntimes, Data, Canonical, World
  <2> QED BY <1>1, <1>7, <2>1, GotoFields, SameRuns DEF Occupied
<1>8. CASE AcceptClaim(d)
  <2>1. CASE Leave(d) /\ UNCHANGED canon /\ SetStatus(r, "failed")
    <3>1. Dated(receipts') BY <1>1, <2>1, StatusDated DEF TerminalStatuses
    <3> QED
      BY <1>8, <2>1, <3>1, LeaveFields, DriverAssumption, QuietRuns DEF AcceptClaim, World
  <2> QED BY <1>7, <1>8, <2>1 DEF AcceptClaim
<1>9. CASE AcceptAllocating(d) BY <1>7, <1>9 DEF AcceptAllocating
<1>10. CASE MarkAccepted(d)
  <2>1. PICK pc \in {"run", "overdue", "recover"} : Goto(d, pc) BY <1>10 DEF MarkAccepted
  <2>2. receipts[r].st \in DatedStatuses
    BY <1>2, <1>10 DEF MarkAccepted, PendingOf, DatedStatuses
  <2>3. Dated(receipts') BY <1>1, <1>10, <2>2, StatusDated DEF MarkAccepted
  <2> QED BY <1>10, <2>1, <2>3, GotoFields, QuietRuns DEF MarkAccepted, World
<1>11. CASE Overdue(d)
  <2>1. PICK ph, act, prev, ret, lst :
          /\ Settle(ph, act, prev, ret, lst)
          /\ ph = IF canon.active = NoRt THEN "idle" ELSE "ready"
          /\ act = canon.active /\ prev = canon.previous /\ ret = canon.retiring
    BY <1>11 DEF Overdue
  <2>2. Settle(ph, act, prev, ret, lst) BY <2>1
  <2>3. canon.candidate = NoRt BY <1>2, <1>11 DEF Overdue, Holding, ClaimedPcs, CanonShape, NoSpare
  <2>4. /\ canon'.phase = ph /\ canon'.active = canon.active /\ canon'.candidate = NoRt
        /\ canon'.previous = canon.previous /\ canon'.retiring = canon.retiring
        /\ canon'.nextGen = canon.nextGen
    BY <2>1, <2>2, SettleFields
  <2>5. SameRuntimes BY <1>11, <2>3, <2>4 DEF Overdue, SameRuntimes, World
  <2>6. Occupied(canon') BY <2>1, <2>4 DEF Occupied
  <2> QED BY <1>1, <1>11, <2>5, <2>6, FinishAsFields, SameRuns DEF Overdue
<1>12. CASE AcceptOrphan(d)
  <2>1. PICK st \in TerminalStatuses \cup {"queued"} : SetStatus(r, st)
    BY <1>12 DEF AcceptOrphan, ResultRecorded, TerminalStatuses
  <2>2. Dated(receipts')
    BY <1>1, <1>12, <2>1, StatusDated DEF AcceptOrphan, Orphaned, DatedStatuses
  <2>3. proc'[d].pc \in {"accept", "finalize"} BY <1>12, GotoFields DEF AcceptOrphan
  <2> QED BY <1>12, <2>2, <2>3, QuietRuns DEF AcceptOrphan, World
<1> QED
  BY <1>3, <1>4, <1>5, <1>6, <1>8, <1>9, <1>10, <1>11, <1>12 DEF AcceptStep

(* The candidate's game is started, or may have been.                      *)
LEMMA Launched ==
  ASSUME Data, Running, canon.candidate # NoRt, live' \subseteq live \cup {canon.candidate},
         canon'.nextGen = canon.nextGen, canon'.active = canon.active,
         canon'.candidate = canon.candidate, canon'.previous = canon.previous,
         canon'.retiring = canon.retiring
  PROVE  Sound(canon') /\ Housed(canon', live')
<1>1. Sound(canon') BY DEF Running, Sound, GenerationsDistinct, Tracked, Slots
<1>2. canon.previous # canon.candidate BY DEF Running, Sound, GenerationsDistinct
<1>3. Tracked(canon') = Tracked(canon) /\ canon.candidate \in Tracked(canon)
  BY DEF Tracked, Slots
<1> QED BY <1>1, <1>2, <1>3 DEF Running, Housed

(* A candidate is named.                                                   *)
LEMMA Placed ==
  ASSUME Data, Running, canon.candidate = NoRt, canon.previous \notin live, live' = live,
         NEW rt \in Runtimes, rt.gen >= 1, rt.gen \notin Generations(canon),
         NEW n \in Nat, n >= canon.nextGen, rt.gen < n,
         canon'.nextGen = n, canon'.candidate = rt, canon'.active = canon.active,
         canon'.previous = canon.previous, canon'.retiring = canon.retiring
  PROVE  /\ Sound(canon') /\ Housed(canon', live')
         /\ rt # NoRt /\ rt \notin live'
<1>1. rt # NoRt /\ rt.gen # NoRt.gen BY DEF NoRt, Runtimes
<1>2. rt \notin Tracked(canon) BY DEF Generations
<1>3. Tracked(canon') = Tracked(canon) \cup {rt} BY <1>1 DEF Tracked, Slots
<1>4. \A x \in Tracked(canon') : x.gen >= 1 /\ x.gen < n
  BY <1>3, TrackedFields DEF Running, Sound
<1>5. n >= 1 BY TrackedFields DEF Running, Sound
<1>6. \A x \in Tracked(canon) : x.gen # rt.gen BY DEF Generations
<1>7. rt.gen \notin {canon.active.gen, canon.previous.gen}
      /\ \A e \in canon.retiring : e.rt.gen # rt.gen
  BY <1>1, <1>6 DEF Tracked, Slots
<1>8. GenerationsDistinct(canon')
  BY <1>7 DEF Running, Sound, GenerationsDistinct
<1>9. live \subseteq Tracked(canon) BY DEF Running, Housed
<1> QED BY <1>1, <1>2, <1>3, <1>4, <1>5, <1>8, <1>9 DEF Sound, Housed

(* Slots are emptied or change places: what plays is named as before.      *)
LEMMA Moved ==
  ASSUME Running, live' \subseteq live, live' \cap Slots(canon) \subseteq Tracked(canon'),
         \A e \in canon.retiring : e.rt \in live' => e \in canon'.retiring,
         canon'.candidate # NoRt => canon'.previous \notin live'
  PROVE  Housed(canon', live')
BY DEF Running, Housed, Tracked

LEMMA RollBackRuns ==
  ASSUME TypeInv, Running, NEW d \in Driver, RollBack(d), receipts' = receipts,
         \/ live' \subseteq live
         \/ canon.candidate # NoRt /\ live' \subseteq live \cup {canon.candidate}
  PROVE  Runs(d)
<1>1. /\ canon'.phase = "rolling_back" /\ canon'.nextGen = canon.nextGen
      /\ canon'.active = canon.active /\ canon'.candidate = canon.candidate
      /\ canon'.previous = canon.previous /\ canon'.retiring = canon.retiring
      /\ proc'[d].pc = "undo"
  BY TransitionFields, GotoFields DEF TypeInv, RollBack
<1>2. Dated(receipts') /\ Occupied(canon') BY <1>1 DEF Running, Occupied
<1>3. CASE live' \subseteq live
  BY <1>1, <1>2, <1>3, SameRuns DEF SameRuntimes, KnowingPcs
<1>4. CASE canon.candidate # NoRt /\ live' \subseteq live \cup {canon.candidate}
  BY <1>1, <1>2, <1>4, Launched, Unknowing DEF TypeInv, KnowingPcs
<1> QED BY <1>3, <1>4

LEMMA SwitchRuns ==
  ASSUME TypeInv, Ownership, Receipted, Running, NEW d \in Driver, SwitchStep(d)
  PROVE  Runs(d)
<1> USE DEF TypeInv, At, KnowingPcs
<1> DEFINE r == proc[d].req
           old == proc[d].old
<1>1. Occupied(canon) /\ (lock = d => Knowing(proc[d], canon, receipts, live))
  BY DEF Running
<1>2. CanonShape(canon) /\ (lock = d => Holding(proc[d], canon)) BY DEF Ownership
<1>3. receipts' = receipts /\ Dated(receipts') BY SwitchAside DEF Running
<1>4. NoRt \notin live BY TrackedFields DEF Running, Housed
<1>5. CASE RunSwitch(d)
  <2>1. proc'[d] = [proc[d] EXCEPT !.pc = "prepare", !.old = canon.active]
    BY <1>5, BecomeFields DEF RunSwitch, Become
  <2>2. proc'[d].pc = "prepare" BY <2>1, ProcFields DEF Procs
  <2>3. SameRuntimes /\ canon'.phase = "preparing"
    BY <1>5 DEF RunSwitch, SameRuntimes, World, Data, Canonical
  <2> QED BY <1>3, <2>2, <2>3, SameRuns DEF Occupied
<1>6. CASE Quiesce(d)
  <2>1. canon.phase = "preparing" /\ old = canon.active /\ NoSpare(canon)
    BY <1>2, <1>6 DEF Quiesce, Holding, CanonShape
  <2>2. /\ canon'.phase = "quiescing" /\ canon'.nextGen = canon.nextGen
        /\ canon'.active = NoRt /\ canon'.candidate = canon.candidate
        /\ canon'.previous = canon.active /\ canon'.retiring = canon.retiring
    BY <1>6, <2>1 DEF Quiesce, Data, Canonical
  <2>3. live' = live BY <1>6 DEF Quiesce, World
  <2>4. Sound(canon')
    BY <2>1, <2>2, CanonFields, Rearranged DEF Running, NoSpare, Slots
  <2>5. Housed(canon', live')
    <3>1. Slots(canon) \subseteq Tracked(canon') BY <2>1, <2>2 DEF NoSpare, Slots, Tracked
    <3> QED BY <2>1, <2>2, <2>3, <3>1, Moved DEF NoSpare
  <2>6. PICK pc : Goto(d, pc) /\ pc = IF old = NoRt THEN "quiesced" ELSE "stopOld"
    BY <1>6 DEF Quiesce
  <2>7. proc'[d].pc = pc BY <2>6, GotoFields
  <2>8. Knowing(proc'[d], canon', receipts', live')
    BY <1>4, <2>1, <2>2, <2>3, <2>6, <2>7 DEF Knowing
  <2> QED BY <1>3, <2>2, <2>4, <2>5, <2>8 DEF Runs, Occupied
<1>7. CASE Drain(d) \/ DrainUnsupported(d)
  <2>1. canon.active # NoRt
    BY <1>2, <1>4, <1>7 DEF Drain, DrainUnsupported, Holding
  <2>2. SameRuntimes /\ canon'.phase = "draining"
    BY <1>7, TransitionFields DEF Drain, DrainUnsupported, SameRuntimes, World
  <2>3. Occupied(canon') BY <2>1, <2>2 DEF Occupied, SameRuntimes
  <2>4. lock' # d \/ proc'[d].pc = "retain"
    BY <1>7, GotoFields, DriverAssumption DEF Drain, DrainUnsupported, WaitAt, Release
  <2> QED BY <1>3, <2>2, <2>3, <2>4, SameRuns
<1>8. CASE StopOld(d)
  <2>1. CASE TornDown(old) /\ Goto(d, "quiesced") /\ UNCHANGED canon
    <3>1. live' \subseteq live /\ old \notin live' BY <2>1 DEF TornDown
    <3>2. canon.previous = old BY <1>2, <1>8 DEF StopOld, Holding
    <3>3. Sound(canon') /\ Occupied(canon') /\ Housed(canon', live')
      BY <2>1, <3>1 DEF Running, Housed
    <3> QED BY <1>3, <2>1, <3>1, <3>2, <3>3, GotoFields DEF Runs, Knowing
  <2>2. CASE NotTornDown(old) /\ RollBack(d)
    <3>1. live' \subseteq live BY <2>2 DEF NotTornDown
    <3> QED BY <1>3, <2>2, <3>1, RollBackRuns
  <2> QED BY <1>8, <2>1, <2>2 DEF StopOld
<1>9. CASE Starting(d)
  <2>1. CASE Leave(d) /\ UNCHANGED canon
    BY <1>3, <1>9, <2>1, LeaveFields, DriverAssumption, QuietRuns DEF Starting, World
  <2>2. CASE /\ GenerationFree(Candidate(d).gen) /\ Goto(d, "materialize")
             /\ canon' = [canon EXCEPT !.phase = "starting", !.candidate = Candidate(d)]
    <3> DEFINE rt == Candidate(d)
    <3>1. canon.phase = "quiescing" /\ canon.candidate = NoRt /\ canon.previous \notin live
      BY <1>1, <1>2, <1>9 DEF Starting, Holding, Knowing, CanonShape
    <3>2. r \in Req /\ receipts[r].st = "accepted"
      <4>1. r \in Req BY <1>9 DEF Starting, Control, Asked, AskedPcs
      <4>2. canon.req = r BY <1>2, <1>9 DEF Starting, Holding, OwnerPcs, SwitchPcs
      <4> QED BY <3>1, <4>1, <4>2 DEF Receipted, Backed, ActingPhases
    <3>3. rt \in Runtimes /\ rt.gen >= 1 /\ rt.gen = receipts[r].gen
      <4>1. receipts[r].gen \in Nat /\ receipts[r].gen >= 1
        BY <3>2 DEF Running, Dated, DatedStatuses, Data, Receipts
      <4> QED BY <4>1, ProcFields DEF Candidate, Runtimes
    <3>4. rt.gen \notin Generations(canon) /\ rt.gen < canon.nextGen /\ canon.nextGen \in Nat
      BY <2>2, CanonFields DEF GenerationFree
    <3>5. /\ canon'.phase = "starting" /\ canon'.nextGen = canon.nextGen
          /\ canon'.active = canon.active /\ canon'.candidate = rt
          /\ canon'.previous = canon.previous /\ canon'.retiring = canon.retiring
      BY <2>2 DEF Data, Canonical
    <3>6. live' = live BY <1>9 DEF Starting, World
    <3> HIDE DEF rt
    <3>7. Sound(canon') /\ Housed(canon', live') /\ rt # NoRt /\ rt \notin live'
      BY <3>1, <3>3, <3>4, <3>5, <3>6, Placed
    <3> QED BY <1>3, <2>2, <3>5, <3>7, GotoFields DEF Runs, Occupied, Knowing
  <2> QED BY <1>9, <2>1, <2>2 DEF Starting
<1>10. CASE Materialize(d)
  <2>1. canon.candidate # NoRt BY <1>1, <1>2, <1>10 DEF Materialize, Holding, Occupied
  <2>2. CASE live' = live \cup {canon.candidate} /\ Goto(d, "materialized") /\ UNCHANGED canon
    BY <1>1, <1>3, <2>1, <2>2, GotoFields, Launched, Unknowing
  <2>3. CASE live' \in {live, live \cup {canon.candidate}} /\ RollBack(d)
    BY <1>3, <2>1, <2>3, RollBackRuns
  <2> QED BY <1>10, <2>2, <2>3 DEF Materialize
<1>11. CASE Probing(d)
  <2>1. canon.candidate # NoRt BY <1>1, <1>2, <1>11 DEF Probing, Holding, Occupied
  <2>2. SameRuntimes /\ canon'.phase = "probing"
    BY <1>11, TransitionFields DEF Probing, SameRuntimes, World
  <2>3. Occupied(canon') BY <2>1, <2>2 DEF Occupied, SameRuntimes
  <2> QED BY <1>3, <1>11, <2>2, <2>3, GotoFields, SameRuns DEF Probing
<1>12. CASE Probe(d)
  BY <1>3, <1>12, GotoFields, QuietRuns DEF Probe, Disk, World
<1>13. CASE ProbeFindsNothing(d) \/ SwitchFails(d)
  BY <1>3, <1>13, RollBackRuns DEF ProbeFindsNothing, SwitchFails, StepFails, World
<1>14. CASE Commit(d)
  <2> DEFINE e == Retiree(canon.previous, r)
  <2>1. canon.phase = "probing" /\ canon.candidate # NoRt /\ canon.active = NoRt
    BY <1>1, <1>2, <1>14 DEF Commit, Holding, Occupied, CanonShape, NoSpare
  <2>2. PICK act, ret, lst :
          /\ Settle("ready", act, NoRt, ret, lst)
          /\ act = canon.candidate
          /\ ret = canon.retiring \cup (IF canon.previous = NoRt THEN {} ELSE {e})
    BY <1>14 DEF Commit
  <2> HIDE DEF e
  <2>3. Settle("ready", act, NoRt, ret, lst) BY <2>2
  <2>s. /\ canon'.phase = "ready" /\ canon'.active = act /\ canon'.retiring = ret
        /\ canon'.candidate = NoRt /\ canon'.previous = NoRt /\ canon'.nextGen = canon.nextGen
    BY <2>3, SettleFields
  <2>4. /\ canon'.phase = "ready" /\ canon'.active = canon.candidate
        /\ canon'.candidate = NoRt /\ canon'.previous = NoRt /\ canon'.nextGen = canon.nextGen
        /\ canon'.retiring = canon.retiring \cup (IF canon.previous = NoRt THEN {} ELSE {e})
    BY <2>2, <2>s
  <2>5. e.rt = canon.previous BY DEF Retiree, e
  <2>6. canon.candidate # canon.previous
    BY <2>1 DEF Running, Sound, GenerationsDistinct
  <2>7. Sound(canon')
    <3>1. canon.previous # NoRt =>
            e.rt \in Slots(canon) \ {canon'.active, canon'.candidate, canon'.previous}
      BY <2>4, <2>5, <2>6 DEF Slots
    <3> QED BY <2>1, <2>4, <3>1, CanonFields, Rearranged DEF Running, Slots
  <2>8. Housed(canon', live')
    <3>1. Slots(canon) \subseteq Tracked(canon') BY <2>1, <2>4, <2>5 DEF Slots, Tracked
    <3>2. live' = live BY <1>14 DEF Commit
    <3> QED BY <2>4, <3>1, <3>2, Moved
  <2>9. Occupied(canon') BY <2>1, <2>4 DEF Occupied
  <2> QED BY <1>3, <1>14, <2>7, <2>8, <2>9, FinishAsFields, Unknowing DEF Commit
<1> QED
  BY <1>5, <1>6, <1>7, <1>8, <1>9, <1>10, <1>11, <1>12, <1>13, <1>14 DEF SwitchStep

(* The document is let go of, with its runtimes where they are.            *)
LEMMA SettlesSame ==
  ASSUME Data, NEW ph, NEW act, NEW prev, NEW ret, NEW lst, Settle(ph, act, prev, ret, lst),
         act = canon.active, prev = canon.previous, ret = canon.retiring,
         canon.candidate = NoRt, live' \subseteq live
  PROVE  SameRuntimes /\ canon'.phase = ph
BY DEF Data, Canonical, Settle, SameRuntimes

(* The active game becomes the previous one.                               *)
LEMMA Vacated ==
  ASSUME Data, Running, NoSpare(canon), live' \subseteq live, canon'.nextGen = canon.nextGen,
         canon'.active = NoRt, canon'.candidate = canon.candidate,
         canon'.previous = canon.active, canon'.retiring = canon.retiring
  PROVE  Sound(canon') /\ Housed(canon', live')
<1>1. Sound(canon') BY CanonFields, Rearranged DEF Running, NoSpare, Slots
<1>2. Slots(canon) \subseteq Tracked(canon') BY DEF NoSpare, Slots, Tracked
<1> QED BY <1>1, <1>2, Moved DEF NoSpare

LEMMA BoundaryRuns ==
  ASSUME TypeInv, Ownership, Running, NEW d \in Driver, BoundaryStep(d)
  PROVE  Runs(d)
<1> USE DEF TypeInv, At, KnowingPcs
<1> DEFINE old == proc[d].old
<1>1. Occupied(canon) /\ (lock = d => Knowing(proc[d], canon, receipts, live))
  BY DEF Running
<1>2. CanonShape(canon) /\ (lock = d => Holding(proc[d], canon)) BY DEF Ownership
<1>3. receipts' = receipts /\ Dated(receipts') BY BoundaryAside DEF Running
<1>4. canon.phase = "draining" => NoSpare(canon) /\ canon.active # NoRt
  BY <1>1, <1>2 DEF CanonShape, Occupied
<1>5. CASE BoundaryReached(d)
  <2> DEFINE stop == OpOf[proc[d].req] = "stop"
             pc == IF stop THEN "stopAgent" ELSE "stopOld"
  <2>1. Acquire(d, [proc[d] EXCEPT !.pc = pc]) BY <1>5 DEF BoundaryReached
  <2> HIDE DEF pc
  <2>2. proc'[d] = [proc[d] EXCEPT !.pc = pc] BY <2>1, BecomeFields DEF Acquire
  <2>3. proc'[d].pc = pc BY <2>2, ProcFields DEF Procs
  <2>4. proc'[d].pc \notin KnowingPcs BY <2>3 DEF pc
  <2>5. canon.active = old /\ NoSpare(canon) BY <1>4, <1>5 DEF BoundaryReached, SameDrain
  <2>6. /\ canon'.phase = "quiescing" /\ canon'.nextGen = canon.nextGen
        /\ canon'.active = (IF stop THEN canon.active ELSE NoRt)
        /\ canon'.candidate = canon.candidate
        /\ canon'.previous = (IF stop THEN NoRt ELSE canon.active)
        /\ canon'.retiring = canon.retiring
    BY <1>5, <2>5 DEF BoundaryReached, Data, Canonical
  <2>7. live' = live BY <1>5 DEF BoundaryReached, World
  <2>8. Occupied(canon') BY <2>6 DEF Occupied
  <2>9. CASE stop BY <1>3, <2>4, <2>5, <2>6, <2>7, <2>8, <2>9, SameRuns DEF SameRuntimes, NoSpare
  <2>10. CASE ~stop BY <1>3, <2>4, <2>5, <2>6, <2>7, <2>8, <2>10, Vacated, Unknowing
  <2> QED BY <2>9, <2>10
<1>6. CASE BoundaryFailed(d)
  <2>1. lock' # d BY <1>6, DriverAssumption DEF BoundaryFailed
  <2> QED BY <1>3, <1>6, <2>1, QuietRuns DEF BoundaryFailed, Disk, World
<1>7. CASE WaitLost(d) \/ ExpireRefused(d)
  <2>1. proc[d].pc \in WaitingPcs BY <1>7 DEF WaitLost, ExpireRefused, WaitingPcs
  <2>2. lock' # d BY <1>7, <2>1 DEF WaitLost, ExpireRefused, Control, WaitingPcs, LockedPcs
  <2> QED BY <1>3, <1>7, <2>2, QuietRuns DEF WaitLost, ExpireRefused, Disk, World
<1>8. CASE Cancelled(d)
  <2>1. proc' = [proc EXCEPT ![d] = [proc[d] EXCEPT !.pc = "retain"]]
    BY <1>8 DEF Cancelled, Acquire
  <2>2. proc'[d].pc = "retain" BY <2>1, MoveFields
  <2> QED BY <1>3, <1>8, <2>2, QuietRuns DEF Cancelled, Disk, World
<1>9. CASE CancelRefused(d)
  <2>1. lock' # d BY <1>9, DriverAssumption DEF CancelRefused
  <2>2. SameRuntimes /\ canon'.phase = canon.phase
    BY <1>9 DEF CancelRefused, SameRuntimes, World, Data, Canonical
  <2>3. Occupied(canon') BY <1>1, <2>2 DEF Occupied, SameRuntimes
  <2> QED BY <1>3, <2>1, <2>2, <2>3, SameRuns
<1>10. CASE Retain(d) \/ ExpireDrain(d)
  <2>1. PICK act, prev, ret, lst :
          /\ Settle("ready", act, prev, ret, lst)
          /\ act = old /\ prev = NoRt /\ ret = canon.retiring
    BY <1>10 DEF Retain, ExpireDrain
  <2>2. Settle("ready", act, prev, ret, lst) BY <2>1
  <2>3. canon.phase = "draining" /\ old = canon.active
    BY <1>2, <1>10 DEF Retain, ExpireDrain, Holding, SameDrain
  <2>4. live' = live BY <1>10 DEF Retain, ExpireDrain, World
  <2>5. SameRuntimes /\ canon'.phase = "ready"
    BY <1>4, <2>1, <2>2, <2>3, <2>4, SettlesSame DEF NoSpare
  <2>6. Occupied(canon') BY <1>4, <2>3, <2>5 DEF Occupied, SameRuntimes
  <2>7. proc'[d].pc \in {"finishLeave", "finishRedo"}
    <3>1. CASE Retain(d) BY <3>1, FinishAsFields DEF Retain
    <3>2. CASE ExpireDrain(d)
      <4>1. proc' = [proc EXCEPT ![d] = [proc[d] EXCEPT !.pc = "finishRedo"]]
        BY <3>2 DEF ExpireDrain, Acquire
      <4> QED BY <4>1, MoveFields
    <3> QED BY <1>10, <3>1, <3>2
  <2> QED BY <1>3, <2>5, <2>6, <2>7, SameRuns
<1>11. CASE RetireDead(d)
  <2> DEFINE e == Retiree(old, NoReq)
  <2>1. canon.phase = "draining" /\ old = canon.active
    BY <1>2, <1>11 DEF RetireDead, Holding
  <2>2. PICK ret, lst : /\ Settle("idle", NoRt, NoRt, ret, lst)
                        /\ ret = canon.retiring \cup {e}
    BY <1>11 DEF RetireDead
  <2>3. e.rt = old BY DEF Retiree
  <2> HIDE DEF e
  <2>4. Settle("idle", NoRt, NoRt, ret, lst) BY <2>2
  <2>5. /\ canon'.phase = "idle" /\ canon'.active = NoRt /\ canon'.candidate = NoRt
        /\ canon'.previous = NoRt /\ canon'.retiring = ret /\ canon'.nextGen = canon.nextGen
    BY <2>4, SettleFields
  <2>6. Sound(canon')
    <3>1. e.rt \in Slots(canon) \ {canon'.active, canon'.candidate, canon'.previous}
      BY <1>4, <2>1, <2>3, <2>5 DEF Slots
    <3> QED BY <2>2, <2>5, <3>1, CanonFields, Rearranged DEF Running
  <2>7. live' = live /\ old \notin live BY <1>11 DEF RetireDead, World
  <2>8. Housed(canon', live')
    <3>1. Slots(canon) \subseteq Tracked(canon')
      BY <1>4, <2>1, <2>2, <2>3, <2>5 DEF NoSpare, Slots, Tracked
    <3> QED BY <2>2, <2>5, <2>7, <3>1, Moved
  <2>9. proc'[d].pc = "retireDead" /\ proc'[d].old = old
    BY <1>11, GotoFields DEF RetireDead
  <2> QED BY <1>3, <2>5, <2>6, <2>7, <2>8, <2>9 DEF Runs, Occupied, Knowing
<1>12. CASE CollectDead(d)
  <2> DEFINE corpse == Retiree(old, NoReq)
  <2>1. corpse.rt = old BY DEF Retiree
  <2>2. canon.phase = "idle" /\ old \notin live
    BY <1>1, <1>2, <1>12 DEF CollectDead, Holding, Knowing
  <2>3. /\ canon'.phase = "idle" /\ canon'.active = canon.active
        /\ canon'.candidate = canon.candidate /\ canon'.previous = canon.previous
        /\ canon'.retiring \in {canon.retiring, canon.retiring \ {corpse}}
        /\ canon'.nextGen = canon.nextGen
    BY <1>12, <2>2 DEF CollectDead, Data, Canonical
  <2> HIDE DEF corpse
  <2>4. NoSpare(canon) /\ live' = live BY <1>2, <1>12, <2>2 DEF CollectDead, World, CanonShape
  <2>5. Sound(canon') BY <2>3, <2>4, CanonFields, Rearranged DEF Running, NoSpare, Slots
  <2>6. Housed(canon', live')
    <3>1. Slots(canon) \subseteq Tracked(canon') BY <2>3 DEF Slots, Tracked
    <3> QED BY <2>1, <2>2, <2>3, <2>4, <3>1, Moved DEF NoSpare
  <2> QED
    BY <1>3, <1>12, <2>3, <2>5, <2>6, FinishAsFields, Unknowing DEF CollectDead, Occupied
<1>13. CASE ExpireOvertaken(d)
  <2>1. proc'[d] = [proc[d] EXCEPT !.pc = "dispatch", !.drain = NoReq, !.old = NoRt]
    BY <1>13, BecomeFields DEF ExpireOvertaken, Acquire
  <2>2. proc'[d].pc = "dispatch" BY <2>1, ProcFields DEF Procs
  <2> QED BY <1>3, <1>13, <2>2, QuietRuns DEF ExpireOvertaken, Disk, World
<1> QED
  BY <1>5, <1>6, <1>7, <1>8, <1>9, <1>10, <1>11, <1>12, <1>13 DEF BoundaryStep

(* The game on air has been stopped, and nothing else is named.            *)
LEMMA TornDownRuntime ==
  ASSUME Data, Running, NoSpare(canon), TornDown(canon.active),
         NEW lst, Settle("idle", NoRt, NoRt, canon.retiring, lst)
  PROVE  Sound(canon') /\ Housed(canon', live') /\ Occupied(canon')
<1>1. /\ canon'.phase = "idle" /\ canon'.active = NoRt /\ canon'.candidate = NoRt
      /\ canon'.previous = NoRt /\ canon'.retiring = canon.retiring
      /\ canon'.nextGen = canon.nextGen
  BY DEF Data, Canonical, Settle
<1>2. Sound(canon') BY <1>1, CanonFields, Rearranged DEF Running
<1>3. live' = live \ {canon.active} BY DEF TornDown
<1>4. Housed(canon', live') BY <1>1, <1>3, Moved DEF NoSpare, Slots
<1> QED BY <1>1, <1>2, <1>4 DEF Occupied

LEMMA StopRuns ==
  ASSUME TypeInv, Ownership, Running, NEW d \in Driver, StopStep(d)
  PROVE  Runs(d)
<1> USE DEF TypeInv, At, KnowingPcs
<1> DEFINE r == proc[d].req
<1>1. CanonShape(canon) /\ (lock = d => Holding(proc[d], canon)) BY DEF Ownership
<1>2. receipts' = receipts /\ Dated(receipts') BY StopAside DEF Running
<1>3. NoSpare(canon)
  <2>1. canon.req = r /\ OpOf[r] = "stop"
    BY <1>1 DEF StopStep, RunStop, StopAgent, StopGame, Holding, OwnerPcs, ClaimedPcs, StopPcs,
                NotStop
  <2>2. canon.phase \in {"validating", "quiescing", "stopping"}
    BY <1>1 DEF StopStep, RunStop, StopAgent, StopGame, Holding, ClaimedPcs
  <2>3. canon.req # NoReq
    BY <1>1, <2>2 DEF CanonShape, OwnerMatchesPhase, InProgressPhases, Phases
  <2> QED BY <1>1, <2>1, <2>3 DEF CanonShape
<1>4. ASSUME FailKeepingActive(d), live' \subseteq live PROVE Runs(d)
  <2>1. PICK act, prev, ret, lst :
          /\ Settle("failed", act, prev, ret, lst)
          /\ act = canon.active /\ prev = NoRt /\ ret = canon.retiring
    BY <1>4 DEF FailKeepingActive
  <2>2. Settle("failed", act, prev, ret, lst) BY <2>1
  <2>3. SameRuntimes /\ canon'.phase = "failed"
    BY <1>3, <1>4, <2>1, <2>2, SettlesSame DEF NoSpare
  <2> QED BY <1>2, <1>4, <2>3, FinishAsFields, SameRuns DEF FailKeepingActive, Occupied
<1>5. ASSUME NEW ph \in Phases \ {"ready", "draining", "starting", "probing"}, Transition(ph),
             NEW pc \in {"stopAgent", "stopGame"}, Goto(d, pc), live' = live
      PROVE  Runs(d)
  <2>1. SameRuntimes /\ canon'.phase = ph BY <1>5, TransitionFields DEF SameRuntimes
  <2>2. proc'[d].pc = pc BY <1>5, GotoFields
  <2> QED BY <1>2, <1>5, <2>1, <2>2, SameRuns DEF Occupied
<1>6. CASE RunStop(d)
  <2>1. CASE /\ canon' = [canon EXCEPT !.phase = "draining", !.expired = FALSE]
             /\ WaitAt(d, proc[d], "await") /\ canon.active.game \in StopBoundaryGames
    <3>1. SameRuntimes /\ canon'.phase = "draining"
      BY <1>6, <2>1 DEF RunStop, SameRuntimes, World, Data, Canonical
    <3>2. canon.active # NoRt BY <2>1, BoundaryAssumption, GameAssumption DEF NoRt
    <3>3. lock' # d BY <2>1, DriverAssumption DEF WaitAt, Release
    <3> QED BY <1>2, <3>1, <3>2, <3>3, SameRuns DEF Occupied, SameRuntimes
  <2> QED BY <1>4, <1>5, <1>6, <2>1 DEF RunStop, World, Phases
<1>7. CASE StopAgent(d) BY <1>4, <1>5, <1>7 DEF StopAgent, World, Phases
<1>8. CASE StopGame(d)
  <2>1. CASE /\ TornDown(canon.active) /\ FinishAs(d, "finish", "succeeded")
             /\ Settle("idle", NoRt, NoRt, canon.retiring, Result(r, "succeeded"))
    BY <1>2, <1>3, <2>1, FinishAsFields, TornDownRuntime, Unknowing
  <2>2. CASE NotTornDown(canon.active) /\ FailKeepingActive(d)
    BY <1>4, <2>2 DEF NotTornDown
  <2> QED BY <1>8, <2>1, <2>2 DEF StopGame
<1> QED BY <1>6, <1>7, <1>8 DEF StopStep

(* The candidate is given up: it is dead, or kept among the retirees.      *)
LEMMA Discarded ==
  ASSUME Data, Running, DiscardCandidate, canon.candidate # NoRt
  PROVE  /\ Sound(canon') /\ Housed(canon', live') /\ canon'.phase = canon.phase
         /\ canon'.active = canon.active /\ canon'.candidate = NoRt
<1> DEFINE e == Retiree(canon.candidate, NoReq)
<1>1. /\ canon'.phase = canon.phase /\ canon'.nextGen = canon.nextGen
      /\ canon'.active = canon.active /\ canon'.candidate = NoRt
      /\ canon'.previous = canon.previous
      /\ canon'.retiring \in {canon.retiring, canon.retiring \cup {e}}
  BY DiscardFields
<1>2. e.rt = canon.candidate BY DEF Retiree
<1>3. live' \subseteq live /\ (canon.candidate \in live' => canon'.retiring = canon.retiring \cup {e})
  BY DEF DiscardCandidate, TornDown, NotTornDown, Data, Canonical
<1> HIDE DEF e
<1>4. e.rt \in Slots(canon) \ {canon'.active, canon'.candidate, canon'.previous}
  BY <1>1, <1>2 DEF Running, Sound, GenerationsDistinct, Slots
<1>5. Sound(canon')
  <2>1. /\ canon'.active # NoRt => canon'.active \notin {canon'.candidate, canon'.previous}
        /\ canon'.candidate # NoRt => canon'.candidate # canon'.previous
    BY <1>1 DEF Running, Sound, GenerationsDistinct
  <2> QED BY <1>1, <1>4, <2>1, CanonFields, Rearranged DEF Running, Slots
<1>6. Housed(canon', live')
  <2>1. live' \cap Slots(canon) \subseteq Tracked(canon')
    BY <1>1, <1>2, <1>3 DEF Slots, Tracked
  <2> QED BY <1>1, <1>3, <2>1, Moved
<1> QED BY <1>1, <1>5, <1>6

(* One of the spare games is put on air, and the other one is not playing. *)
LEMMA Published ==
  ASSUME TypeInv, Running, NEW d \in Driver, NEW rt, PublishRestored(d, rt), rt # NoRt,
         canon.active = NoRt, live' = live, receipts' = receipts,
         \/ rt = canon.previous /\ canon.candidate = NoRt
         \/ rt = canon.candidate /\ canon.previous \notin live
  PROVE  Runs(d)
<1>1. PICK act, ret, lst : /\ Settle("ready", act, NoRt, ret, lst)
                           /\ act = rt /\ ret = canon.retiring
  BY DEF PublishRestored
<1>2. Settle("ready", act, NoRt, ret, lst) BY <1>1
<1>3. /\ canon'.phase = "ready" /\ canon'.active = act /\ canon'.candidate = NoRt
      /\ canon'.previous = NoRt /\ canon'.retiring = ret /\ canon'.nextGen = canon.nextGen
  BY <1>2 DEF TypeInv, Data, Canonical, Settle
<1>4. Sound(canon')
  BY <1>1, <1>3, CanonFields, Rearranged DEF TypeInv, Running, Slots
<1>5. Housed(canon', live')
  <2>1. live \cap Slots(canon) \subseteq Tracked(canon') BY <1>1, <1>3 DEF Slots, Tracked
  <2> QED BY <1>1, <1>3, <2>1, Moved
<1>6. Occupied(canon') /\ Dated(receipts') BY <1>1, <1>3 DEF Occupied, Running
<1>7. PICK pc \in {"finalizeReady", "finish"} : FinishAs(d, pc, "rolled_back")
  BY DEF PublishRestored
<1> QED BY <1>4, <1>5, <1>6, <1>7, FinishAsFields, Unknowing DEF TypeInv, KnowingPcs

LEMMA RestoreRuns ==
  ASSUME TypeInv, Ownership, Running, NEW d \in Driver, RestoreStep(d)
  PROVE  Runs(d)
<1> USE DEF TypeInv, At, KnowingPcs
<1> DEFINE r == proc[d].req
<1>1. Occupied(canon) /\ (lock = d => Knowing(proc[d], canon, receipts, live))
  BY DEF Running
<1>2. CanonShape(canon) /\ (lock = d => Holding(proc[d], canon)) BY DEF Ownership
<1>3. receipts' = receipts /\ Dated(receipts') BY RestoreAside DEF Running
<1>4. CASE UndoCandidate(d)
  <2>1. canon.phase = "rolling_back" BY <1>2, <1>4 DEF UndoCandidate, Holding
  <2> QED BY <1>3, <1>4, <2>1, Discarded, Unknowing DEF UndoCandidate, Occupied
<1>5. CASE PickPrevious(d)
  <2>1. canon.phase = "rolling_back" BY <1>2, <1>5 DEF PickPrevious, Holding
  <2>2. proc'[d].pc = "restore" /\ live' = live
    BY <1>5, GotoFields DEF PickPrevious, World
  <2>3. CASE canon' = canon BY <1>3, <2>2, <2>3, QuietRuns
  <2>4. CASE canon' = [canon EXCEPT !.active = NoRt, !.previous = canon.active]
             /\ canon.previous = NoRt
    <3>1. NoSpare(canon) BY <1>2, <1>5, <2>4 DEF PickPrevious, CanonShape
    <3>2. /\ canon'.phase = canon.phase /\ canon'.nextGen = canon.nextGen
          /\ canon'.active = NoRt /\ canon'.candidate = canon.candidate
          /\ canon'.previous = canon.active /\ canon'.retiring = canon.retiring
      BY <2>4 DEF Data, Canonical
    <3> QED BY <1>3, <2>1, <2>2, <3>1, <3>2, Vacated, Unknowing DEF Occupied
  <2> QED BY <1>5, <2>3, <2>4 DEF PickPrevious
<1>6. CASE NothingToRestore(d)
  <2>1. PICK act, prev, ret, lst :
          /\ Settle("failed", act, prev, ret, lst)
          /\ act = NoRt /\ prev = NoRt /\ ret = canon.retiring
    BY <1>6 DEF NothingToRestore
  <2>2. Settle("failed", act, prev, ret, lst) BY <2>1
  <2>3. SameRuntimes /\ canon'.phase = "failed"
    BY <1>6, <2>1, <2>2, SettlesSame DEF NothingToRestore, World
  <2> QED BY <1>3, <1>6, <2>3, FinishAsFields, SameRuns DEF NothingToRestore, Occupied
<1>7. CASE RestoreRefused(d)
  BY <1>3, <1>7, GotoFields, QuietRuns DEF RestoreRefused, Disk, World
<1>8. CASE RestoreAlive(d)
  <2>1. SameRuntimes /\ canon'.phase = "rolling_back"
    BY <1>8 DEF RestoreAlive, SameRuntimes, World, Data, Canonical
  <2> QED BY <1>3, <1>8, <2>1, GotoFields, SameRuns DEF RestoreAlive, Occupied
<1>9. CASE RestartAgent(d)
  <2>1. CASE Goto(d, "abandon") /\ UNCHANGED canon
    BY <1>3, <1>9, <2>1, GotoFields, QuietRuns DEF RestartAgent, World
  <2>2. CASE PublishRestored(d, canon.previous)
    <3>1. canon.active = NoRt /\ canon.candidate = NoRt /\ canon.previous # NoRt
      BY <1>2, <1>9 DEF RestartAgent, Holding, RestorePcs
    <3> QED BY <1>3, <1>9, <2>2, <3>1, Published DEF RestartAgent, World
  <2> QED BY <1>9, <2>1, <2>2 DEF RestartAgent
<1>10. CASE RestoreFresh(d)
  <2> DEFINE rt == [gen |-> canon.nextGen, game |-> canon.previous.game]
  <2>1. /\ canon.candidate = NoRt /\ canon.retiring = {} /\ canon.previous \notin live
    BY <1>10 DEF RestoreFresh, FreshRestorable, Restorable
  <2>2. /\ canon'.phase = "rolling_back" /\ canon'.nextGen = canon.nextGen + 1
        /\ canon'.active = canon.active /\ canon'.candidate = rt
        /\ canon'.previous = canon.previous /\ canon'.retiring = canon.retiring
    BY <1>10 DEF RestoreFresh, Data, Canonical
  <2>3. rt \in Runtimes /\ rt.gen = canon.nextGen BY CanonFields DEF Runtimes
  <2> HIDE DEF rt
  <2>4. /\ rt.gen >= 1 /\ rt.gen \notin Generations(canon)
        /\ canon.nextGen + 1 \in Nat /\ rt.gen < canon.nextGen + 1
        /\ canon.nextGen + 1 >= canon.nextGen
    <3>1. \A x \in Tracked(canon) : x.gen \in Nat /\ x.gen < canon.nextGen
      BY TrackedFields DEF Running, Sound
    <3>2. canon.nextGen \in Nat /\ canon.nextGen >= 1 BY CanonFields DEF Running, Sound
    <3> QED BY <2>3, <3>1, <3>2 DEF Generations
  <2>5. live' = live BY <1>10 DEF RestoreFresh, World
  <2>6. Sound(canon') /\ Housed(canon', live') /\ rt # NoRt /\ rt \notin live'
    BY <2>1, <2>2, <2>3, <2>4, <2>5, Placed
  <2>7. proc'[d].pc = "restart" BY <1>10, GotoFields DEF RestoreFresh
  <2> QED BY <1>3, <2>1, <2>2, <2>6, <2>7 DEF Runs, Occupied, Knowing
<1>11. CASE Restart(d)
  <2>1. canon.candidate # NoRt BY <1>1, <1>11 DEF Restart, Knowing
  <2>2. canon' = canon /\ live' \subseteq live \cup {canon.candidate}
    BY <1>11 DEF Restart, Disk
  <2>3. Sound(canon') /\ Housed(canon', live') BY <2>1, <2>2, Launched
  <2>4. PICK pc \in {"publish", "lost", "abandon"} : Goto(d, pc) BY <1>11 DEF Restart
  <2>5. proc'[d].pc = pc BY <2>4, GotoFields
  <2> QED BY <1>1, <1>3, <2>1, <2>2, <2>3, <2>5 DEF Runs, Knowing
<1>12. CASE Publish(d)
  <2>1. canon.candidate # NoRt BY <1>1, <1>12 DEF Publish, Knowing
  <2>2. live' = live BY <1>12 DEF Publish, World
  <2>3. CASE Goto(d, "lost") /\ UNCHANGED canon
    <3>1. proc'[d].pc = "lost" BY <2>3, GotoFields
    <3> QED BY <1>3, <2>1, <2>2, <2>3, <3>1 DEF Running, Runs, Knowing
  <2>4. CASE PublishRestored(d, canon.candidate)
    <3>1. canon.active = NoRt /\ canon.previous \notin live
      BY <1>2, <2>1 DEF CanonShape, NoSpare, Running, Housed
    <3> QED BY <1>3, <2>1, <2>2, <2>4, <3>1, Published
  <2> QED BY <1>12, <2>3, <2>4 DEF Publish
<1>13. CASE DropRestart(d)
  <2>1. canon.candidate # NoRt /\ canon.phase = "rolling_back"
    BY <1>1, <1>2, <1>13 DEF DropRestart, Knowing, Holding, RestorePcs
  <2> QED
    BY <1>3, <1>13, <2>1, GotoFields, Discarded, Unknowing DEF DropRestart, Occupied
<1>14. CASE Abandon(d)
  <2>1. canon.active = NoRt
    BY <1>2, <1>14 DEF Abandon, Holding, CanonShape, NoSpare
  <2>2. SameRuntimes /\ canon'.phase = "failed"
    BY <1>14, <2>1 DEF Abandon, SameRuntimes, World, Data, Canonical
  <2> QED BY <1>3, <1>14, <2>2, FinishAsFields, SameRuns DEF Abandon, Occupied
<1>15. CASE AbandonRecovery(d)
  <2>1. SameRuntimes /\ Occupied(canon')
    <3>1. live' = live BY <1>15 DEF AbandonRecovery, World
    <3>2. CASE canon' = canon BY <1>1, <3>1, <3>2 DEF SameRuntimes
    <3>3. CASE canon' = RecoverFailed
      BY <3>1, <3>3, RecoverFailedFields DEF SameRuntimes, Occupied
    <3> QED BY <1>15, <3>2, <3>3 DEF AbandonRecovery
  <2>2. lock' # d BY <1>15, LeaveFields, DriverAssumption DEF AbandonRecovery
  <2> QED BY <1>3, <2>1, <2>2, SameRuns
<1> QED
  BY <1>4, <1>5, <1>6, <1>7, <1>8, <1>9, <1>10, <1>11, <1>12, <1>13, <1>14, <1>15
  DEF RestoreStep

LEMMA ReconcileDated == ASSUME Data, Dated(receipts), ReconcileReceipt PROVE Dated(receipts')
<1>1. CASE receipts' = receipts BY <1>1
<1>2. CASE canon.last.st \in TerminalStatuses /\ SetStatus(canon.last.req, canon.last.st)
  BY <1>2, StatusDated
<1> QED BY <1>1, <1>2 DEF ReconcileReceipt

LEMMA FinishRuns ==
  ASSUME TypeInv, Running, NEW d \in Driver, FinishStep(d)
  PROVE  Runs(d)
<1> USE DEF TypeInv, At, KnowingPcs
<1>1. Dated(receipts) /\ Occupied(canon) BY DEF Running
<1>2. CASE Finish(d)
  <2>1. Dated(receipts')
    <3>1. FinishedAs(d) \in TerminalStatuses BY ProcFields DEF FinishedAs, TerminalStatuses
    <3>2. CASE SetStatus(FinishedReq(d), FinishedAs(d)) BY <1>1, <3>1, <3>2, StatusDated
    <3>3. CASE receipts' = receipts BY <1>1, <3>3
    <3> QED BY <1>2, <3>2, <3>3 DEF Finish, FinishFirst, FinishAgain
  <2>2. CASE Leave(d)
    BY <1>2, <2>1, <2>2, LeaveFields, DriverAssumption, QuietRuns DEF Finish, World
  <2>3. CASE Goto(d, "finalize") BY <1>2, <2>1, <2>3, GotoFields, QuietRuns DEF Finish, World
  <2>4. CASE Become(d, [proc[d] EXCEPT !.pc = "dispatch", !.drain = NoReq, !.old = NoRt])
    <3>1. proc'[d] = [proc[d] EXCEPT !.pc = "dispatch", !.drain = NoReq, !.old = NoRt]
      BY <2>4, BecomeFields DEF Become
    <3>2. proc'[d].pc = "dispatch" BY <3>1, ProcFields DEF Procs
    <3> QED BY <1>2, <2>1, <3>2, QuietRuns DEF Finish, World
  <2> QED BY <1>2, <2>2, <2>3, <2>4 DEF Finish, FinishFirst, FinishAgain, AfterFinish
<1>3. CASE FinalizeReceipt(d)
  <2>1. PICK e \in canon.retiring : SetStatus(e.proof, "succeeded") BY <1>3 DEF FinalizeReceipt
  <2>2. Dated(receipts') BY <1>1, <2>1, StatusDated DEF TerminalStatuses
  <2>3. proc'[d].pc \notin KnowingPcs BY <1>3 DEF FinalizeReceipt, Finalizing
  <2> QED BY <1>3, <2>2, <2>3, QuietRuns DEF FinalizeReceipt, World
<1>4. CASE Finalize(d)
  <2>1. PICK dead \in SUBSET Collectable :
          /\ live' = live \ {e.rt : e \in dead}
          /\ canon' = [canon EXCEPT !.retiring = @ \ dead]
    BY <1>4 DEF Finalize
  <2>2. /\ canon'.phase = canon.phase /\ canon'.nextGen = canon.nextGen
        /\ canon'.active = canon.active /\ canon'.candidate = canon.candidate
        /\ canon'.previous = canon.previous /\ canon'.retiring = canon.retiring \ dead
    BY <2>1 DEF Data, Canonical
  <2>3. Sound(canon')
    BY <2>2 DEF Running, Sound, GenerationsDistinct, Tracked, Slots
  <2>4. Housed(canon', live')
    <3>1. Slots(canon) \subseteq Tracked(canon') BY <2>2 DEF Slots, Tracked
    <3>2. canon.candidate # NoRt => canon.previous \notin live BY DEF Running, Housed
    <3> QED BY <2>1, <2>2, <3>1, <3>2, Moved
  <2>5. Occupied(canon') /\ Dated(receipts') BY <1>1, <1>4, <2>2 DEF Finalize, Occupied
  <2>6. lock' # d \/ proc'[d].pc \in {"reconcile", "resolve"}
    BY <1>4, LeaveFields, GotoFields, DriverAssumption DEF Finalize, AfterFinalize
  <2> QED BY <2>3, <2>4, <2>5, <2>6, Unknowing DEF Runs
<1>5. CASE Reconcile(d)
  <2>1. Dated(receipts') BY <1>1, <1>5, ReconcileDated DEF Reconcile
  <2> QED BY <1>5, <2>1, LeaveFields, DriverAssumption, QuietRuns DEF Reconcile, World
<1> QED BY <1>2, <1>3, <1>4, <1>5 DEF FinishStep

LEMMA RecoverRuns ==
  ASSUME TypeInv, Ownership, Running, NEW d \in Driver, RecoverStep(d)
  PROVE  Runs(d)
<1> USE DEF TypeInv, At, KnowingPcs
<1>1. Occupied(canon) /\ Dated(receipts) BY DEF Running
<1>2. CanonShape(canon) /\ (lock = d => Holding(proc[d], canon)) BY DEF Ownership
<1>3. CASE RecoverDraining(d)
  <2>1. lock' # d BY <1>3, DriverAssumption DEF RecoverDraining, WaitAt, Release, Leave
  <2> QED BY <1>1, <1>3, <2>1, QuietRuns DEF RecoverDraining, Disk, World
<1>4. CASE RecoverIdle(d)
  <2>1. Dated(receipts') BY <1>1, <1>4, ReconcileDated DEF RecoverIdle
  <2> QED BY <1>4, <2>1, GotoFields, QuietRuns DEF RecoverIdle, World
<1>5. CASE RecoverReady(d) \/ RecoverLeftovers(d)
  <2>1. lock' # d \/ proc'[d].pc \in {"finalizeReady", "retryFailed"}
    BY <1>5, LeaveFields, GotoFields, DriverAssumption DEF RecoverReady, RecoverLeftovers
  <2> QED BY <1>1, <1>5, <2>1, QuietRuns DEF RecoverReady, RecoverLeftovers, Disk, World
<1>6. CASE RecoverDead(d)
  <2> DEFINE e == Retiree(canon.active, NoReq)
  <2>1. canon.phase = "ready" /\ canon.active # NoRt /\ NoSpare(canon) /\ canon.active \notin live
    BY <1>1, <1>2, <1>6 DEF RecoverDead, Occupied, CanonShape
  <2>2. /\ canon'.phase = "failed" /\ canon'.nextGen = canon.nextGen /\ canon'.active = NoRt
        /\ canon'.candidate = canon.candidate /\ canon'.previous = canon.previous
        /\ canon'.retiring \in {canon.retiring, canon.retiring \cup {e}}
    BY <1>6 DEF RecoverDead, Data, Canonical
  <2>3. e.rt = canon.active BY DEF Retiree
  <2> HIDE DEF e
  <2>4. live' = live /\ receipts' = receipts BY <1>6 DEF RecoverDead, World
  <2>5. Sound(canon')
    <3>1. e.rt \in Slots(canon) \ {canon'.active, canon'.candidate, canon'.previous}
      BY <2>1, <2>2, <2>3 DEF NoSpare, Slots
    <3> QED BY <2>1, <2>2, <3>1, CanonFields, Rearranged DEF Running, NoSpare
  <2>6. Housed(canon', live') BY <2>1, <2>2, <2>4, Moved DEF NoSpare, Slots
  <2>7. lock' # d BY <1>6, LeaveFields, DriverAssumption DEF RecoverDead
  <2> QED BY <1>1, <2>2, <2>4, <2>5, <2>6, <2>7 DEF Runs, Occupied
<1>7. CASE RecoverCandidate(d)
  BY <1>1, <1>7, GotoFields, Discarded, Unknowing DEF RecoverCandidate, Occupied
<1>8. CASE ResolveRestore(d)
  <2>1. proc'[d] = [proc[d] EXCEPT !.pc = "restore", !.req = canon.last.req, !.restoring = TRUE]
    BY <1>8, BecomeFields DEF ResolveRestore, Become
  <2>2. proc'[d].pc = "restore" BY <2>1, ProcFields DEF Procs
  <2> QED BY <1>1, <1>8, <2>2, QuietRuns DEF ResolveRestore, Disk, World
<1>9. ASSUME canon' = RecoverFailed, live' \subseteq live, receipts' = receipts, lock' # d
      PROVE  Runs(d)
  <2>1. SameRuntimes /\ canon'.phase = "failed"
    BY <1>9, RecoverFailedFields DEF SameRuntimes
  <2> QED BY <1>1, <1>9, <2>1, SameRuns DEF Occupied
<1>10. CASE ResolveStop(d)
  <2>1. receipts' = receipts /\ lock' # d
    BY <1>10, LeaveFields, DriverAssumption DEF ResolveStop
  <2>2. NoSpare(canon) BY <1>2, <1>10 DEF ResolveStop, CanonShape
  <2>3. CASE TornDown(canon.active)
             /\ Settle("idle", NoRt, NoRt, canon.retiring, AnonymousResult("succeeded"))
    BY <1>1, <2>1, <2>2, <2>3, TornDownRuntime DEF Runs
  <2>4. CASE NotTornDown(canon.active) /\ canon' = RecoverFailed
    BY <1>9, <2>1, <2>4 DEF NotTornDown
  <2> QED BY <1>10, <2>3, <2>4 DEF ResolveStop
<1>11. CASE ResolveIdle(d)
  <2>1. PICK act, prev, ret, lst :
          /\ Settle("idle", act, prev, ret, lst)
          /\ act = NoRt /\ prev = NoRt /\ ret = canon.retiring
    BY <1>11 DEF ResolveIdle
  <2>2. Settle("idle", act, prev, ret, lst) BY <2>1
  <2>3. canon.candidate = NoRt BY <1>2, <1>11 DEF ResolveIdle, Holding
  <2>4. SameRuntimes /\ canon'.phase = "idle"
    BY <1>11, <2>1, <2>2, <2>3, SettlesSame DEF ResolveIdle, World
  <2>5. lock' # d BY <1>11, LeaveFields, DriverAssumption DEF ResolveIdle
  <2> QED BY <1>1, <1>11, <2>4, <2>5, SameRuns DEF ResolveIdle, Occupied
<1>12. CASE RecoverStop(d)
  <2>1. canon.req # NoReq /\ NoSpare(canon)
    <3>1. canon.req # NoReq
      BY <1>2, <1>12 DEF RecoverStop, Interrupted, CanonShape, OwnerMatchesPhase
    <3> QED BY <1>2, <1>12, <3>1 DEF RecoverStop, CanonShape
  <2>2. receipts' = receipts BY <1>12 DEF RecoverStop
  <2>3. CASE NotTornDown(canon.active) /\ canon' = RecoverFailed /\ Leave(d)
    BY <1>9, <2>2, <2>3, LeaveFields, DriverAssumption DEF NotTornDown
  <2>4. CASE /\ TornDown(canon.active)
             /\ Settle("idle", NoRt, NoRt, canon.retiring, Result(canon.req, "succeeded"))
             /\ Become(d, [proc[d] EXCEPT !.pc = "finishLeave", !.req = canon.req, !.res = "succeeded"])
    <3>1. proc'[d] = [proc[d] EXCEPT !.pc = "finishLeave", !.req = canon.req, !.res = "succeeded"]
      BY <2>4, BecomeFields DEF Become
    <3>2. proc'[d].pc = "finishLeave" BY <3>1, ProcFields DEF Procs
    <3> QED BY <1>1, <2>1, <2>2, <2>4, <3>2, TornDownRuntime, Unknowing
  <2> QED BY <1>12, <2>3, <2>4 DEF RecoverStop
<1>13. CASE RecoverSwitch(d)
  <2>1. proc'[d] = [proc[d] EXCEPT !.pc = "undo", !.req = canon.req]
    BY <1>13, BecomeFields DEF RecoverSwitch, Become
  <2>2. proc'[d].pc = "undo" BY <2>1, ProcFields DEF Procs
  <2>3. SameRuntimes /\ canon'.phase = "rolling_back"
    BY <1>13, TransitionFields DEF RecoverSwitch, SameRuntimes, World
  <2> QED BY <1>1, <1>13, <2>2, <2>3, SameRuns DEF RecoverSwitch, Occupied
<1> QED
  BY <1>3, <1>4, <1>5, <1>6, <1>7, <1>8, <1>10, <1>11, <1>12, <1>13 DEF RecoverStep

-----------------------------------------------------------------------------
(* Running is inductive                                                    *)

LEMMA StepRuns ==
  ASSUME TypeInv, Ownership, Receipted, Pending, Running, NEW d \in Driver, AnyStep(d)
  PROVE  Runs(d)
<1>1. CASE (\E r \in Req : Request(d, r)) \/ Recover(d) \/ Maintain(d) \/ Resume(d)
  BY <1>1, EntryRuns
<1>2. CASE DispatchStep(d) \/ AcceptStep(d) \/ SwitchStep(d) \/ BoundaryStep(d)
  BY <1>2, DispatchRuns, AcceptRuns, SwitchRuns, BoundaryRuns
<1>3. CASE StopStep(d) \/ RestoreStep(d) \/ FinishStep(d) \/ RecoverStep(d)
  BY <1>3, StopRuns, RestoreRuns, FinishRuns, RecoverRuns
<1>4. CASE ResumeBusy(d) \/ Crash(d)
  <2>1. proc'[d] = Off BY <1>4, BecomeFields DEF TypeInv, ResumeBusy, Crash
  <2> QED
    BY <1>4, <2>1, QuietRuns
    DEF ResumeBusy, Crash, Disk, World, Running, Off, KnowingPcs
<1> QED BY <1>1, <1>2, <1>3, <1>4 DEF AnyStep, DriverStep

LEMMA NextRunning ==
  TypeInv /\ Ownership /\ Receipted /\ Pending /\ Running /\ [Next]_vars => Running'
<1> SUFFICES ASSUME TypeInv, Ownership, Receipted, Pending, Running, [Next]_vars
             PROVE  Running'
  OBVIOUS
<1>1. CASE \E d \in Driver : AnyStep(d)
  BY <1>1, ReceiptedOwned, StepOwned, StepRuns, RunsRunning, BystandsRunning
<1>2. CASE Expire
  <2>1. Sound(canon')
    BY <1>2, ExpireFields DEF TypeInv, Running, Sound, GenerationsDistinct, Tracked, Slots
  <2>2. Occupied(canon') BY <1>2, ExpireFields DEF TypeInv, Running, Occupied
  <2>3. Housed(canon', live') BY <1>2, ExpireFields
    DEF TypeInv, Expire, World, Running, Housed, Tracked, Slots
  <2>4. ASSUME NEW d \in Driver, lock = d PROVE Knowing(proc[d], canon', receipts, live)
    BY <1>2, <2>4, ExpireFields DEF TypeInv, Running, Knowing
  <2> QED BY <1>2, <2>1, <2>2, <2>3, <2>4 DEF Expire, World, Running
<1>3. CASE \E rt \in live : GameDies(rt)
  <2>1. live' \subseteq live /\ UNCHANGED <<canon, receipts, lock, proc>>
    BY <1>3 DEF GameDies, Disk
  <2>2. Housed(canon', live') BY <2>1 DEF Running, Housed
  <2>3. ASSUME NEW d \in Driver, lock = d PROVE Knowing(proc[d], canon, receipts, live')
    BY <2>1, <2>3 DEF Running, Knowing
  <2> QED BY <2>1, <2>2, <2>3 DEF Running
<1>4. CASE UNCHANGED vars BY <1>4 DEF vars, Running
<1> QED BY <1>1, <1>2, <1>3, <1>4, NextSteps

LEMMA InitRunning == Init => Running
<1> SUFFICES ASSUME Init PROVE Running
  OBVIOUS
<1>1. InitialRuntime # NoRt => InitialRuntime.gen = 1 /\ canon.nextGen = 2
  BY DEF Init, InitialRuntime
<1>2. /\ canon.active = InitialRuntime /\ canon.candidate = NoRt /\ canon.previous = NoRt
      /\ canon.retiring = {} /\ canon.nextGen \in {1, 2} /\ canon.phase \in {"idle", "ready"}
      /\ canon.phase = "ready" => InitialRuntime # NoRt
  BY StartAssumption, GameAssumption DEF Init, InitialRuntime, NoRt
<1>3. Tracked(canon) = {InitialRuntime} \ {NoRt} BY <1>2 DEF Tracked, Slots
<1>4. Sound(canon) BY <1>1, <1>2, <1>3 DEF Sound, GenerationsDistinct, NoRt
<1>5. Occupied(canon) BY <1>2 DEF Occupied
<1>6. Housed(canon, live) BY <1>2, <1>3 DEF Init, Housed
<1>7. Dated(receipts) BY DEF Init, Dated, DatedStatuses, NoReceipt
<1>8. \A d \in Driver : lock # d BY DriverAssumption DEF Init
<1> QED BY <1>4, <1>5, <1>6, <1>7, <1>8 DEF Running

RunInv == OwnInv /\ Running

LEMMA AlwaysRunning == Spec => []RunInv
<1>1. Init => Running BY InitRunning
<1>2. OwnInv /\ Running /\ [Next]_vars => Running' BY NextRunning DEF OwnInv
<1>3. RunInv <=> OwnInv /\ Running BY DEF RunInv
<1> QED BY <1>1, <1>2, <1>3, AlwaysOwned, PTL DEF Spec

-----------------------------------------------------------------------------
(* What follows for every behaviour                                        *)

LEMMA SavesAreValidInv == RunInv => CanonicalValid
<1> SUFFICES ASSUME RunInv PROVE ValidState(canon)
  BY DEF CanonicalValid
<1>1. CanonShape(canon) /\ Sound(canon) /\ Occupied(canon)
  BY DEF RunInv, OwnInv, Ownership, Running
<1>2. SlotsMatchPhase(canon)
  BY <1>1 DEF CanonShape, NoSpare, Occupied, SlotsMatchPhase
<1> QED
  BY <1>1, <1>2 DEF CanonShape, Sound, ValidState, NextGenerationAhead

(* What the coordinator saves is never refused by validate_state: the      *)
(* owner and the slots fit the phase, and the generations are distinct     *)
(* and below the next one.                                                 *)
THEOREM SavesAreValid == Spec => []CanonicalValid
BY SavesAreValidInv, AlwaysRunning, PTL

LEMMA EveryGameIsNamedInv == RunInv => NoOrphanGame
BY DEF RunInv, Running, Housed, NoOrphanGame

(* Whatever crashes, every game process that still runs is named by the    *)
(* canonical document: in a slot, or among the retirees to be collected.   *)
THEOREM EveryGameIsNamed == Spec => []NoOrphanGame
BY EveryGameIsNamedInv, AlwaysRunning, PTL

LEMMA AtMostOne ==
  ASSUME NEW S, NEW x, S \subseteq {x}
  PROVE  Cardinality(S) <= 1
<1>1. CASE S = {} BY <1>1, FS_EmptySet
<1>2. CASE S = {x} BY <1>2, FS_Singleton
<1> QED BY <1>1, <1>2

LEMMA OnlyOnePlaysInv == RunInv => OneGameOnAir
<1> SUFFICES ASSUME RunInv PROVE \E x : live \cap Slots(canon) \subseteq {x}
  BY AtMostOne DEF OneGameOnAir
<1>1. /\ canon.active # NoRt => NoSpare(canon)
      /\ canon.candidate # NoRt => canon.previous \notin live
  BY DEF RunInv, OwnInv, Ownership, CanonShape, Running, Housed
<1>2. CASE canon.active # NoRt BY <1>1, <1>2 DEF NoSpare, Slots
<1>3. CASE canon.active = NoRt /\ canon.candidate # NoRt BY <1>1, <1>3 DEF Slots
<1>4. CASE canon.active = NoRt /\ canon.candidate = NoRt BY <1>4 DEF Slots
<1> QED BY <1>2, <1>3, <1>4

(* The active, the candidate and the previous runtime never play at the    *)
(* same time, also when their drivers died in between.                     *)
THEOREM OnlyOnePlays == Spec => []OneGameOnAir
BY OnlyOnePlaysInv, AlwaysRunning, PTL

LEMMA CandidateStartsAloneInv == RunInv => StartsAlone
<1> SUFFICES ASSUME RunInv, NEW d \in Driver,
                    proc[d].pc \in {"quiesced", "materialize", "restart"}
             PROVE  /\ live \subseteq {e.rt : e \in canon.retiring}
                    /\ proc[d].pc = "restart" => live = {}
  BY DEF StartsAlone
<1>1. lock = d BY DEF RunInv, OwnInv, TypeInv, Control, LockedPcs
<1>2. CanonShape(canon) /\ Holding(proc[d], canon) BY <1>1 DEF RunInv, OwnInv, Ownership
<1>3. Knowing(proc[d], canon, receipts, live) /\ Housed(canon, live) /\ Occupied(canon)
  BY <1>1 DEF RunInv, Running
<1>4. canon.active \notin live /\ canon.candidate \notin live /\ canon.previous \notin live
  <2>1. NoRt \notin live
    BY TrackedFields DEF RunInv, OwnInv, TypeInv, Running, Housed
  <2>2. CASE proc[d].pc = "quiesced"
    BY <1>2, <1>3, <2>1, <2>2 DEF CanonShape, Holding, Knowing
  <2>3. CASE proc[d].pc \in {"materialize", "restart"}
    <3>1. canon.candidate # NoRt BY <1>2, <1>3, <2>3 DEF Holding, Knowing, Occupied
    <3> QED
      BY <1>2, <1>3, <2>1, <2>3, <3>1 DEF CanonShape, NoSpare, Knowing, Housed
  <2> QED BY <2>2, <2>3
<1>5. live \subseteq {e.rt : e \in canon.retiring}
  BY <1>3, <1>4 DEF Housed, Tracked, Slots
<1> QED BY <1>3, <1>5 DEF Knowing

(* A candidate is started only when nothing but retirees still runs, and a *)
(* restore starts its game only when nothing runs at all.                  *)
THEOREM CandidateStartsAlone == Spec => []StartsAlone
BY CandidateStartsAloneInv, AlwaysRunning, PTL
=============================================================================
