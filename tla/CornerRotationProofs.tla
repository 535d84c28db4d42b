------------------------ MODULE CornerRotationProofs ------------------------
(***************************************************************************)
(* The rotation and its run, for any corners, requests and operators: what *)
(* the ledger, the corner's file and the processes say of one another, and *)
(* that no accepted request and no unfinished run is lost sight of.        *)
(***************************************************************************)
EXTENDS CornerRotation, TLAPS

(* The steps of whoever holds the rotation, outside of its run.            *)
HolderPcs == {"off", "latched", "replay", "import", "unlink", "observe", "choose", "dispatch",
              "execute", "failed", "resolve", "settle"}

Pcs      == RunPcs \cup HolderPcs \cup {"mark", "stop"}
Procs    == [pc : Pcs, req : Req \cup {NoReq}, corner : Game, res : Outcomes, stop : BOOLEAN]
Holder   == act["holder"]
Operator == act["operator"]

(* Who is at one of these places has the corner's lock, and the file is    *)
(* where this process has put it.                                          *)
StartPcs  == {"submit", "resubmit", "starting", "resuming"}
EndPcs    == {"restore", "restoring"}
WorkPcs   == StartPcs \cup EndPcs
Works(p)  == /\ (cornerLock = p) <=> (act[p].pc \in WorkPcs)
             /\ act[p].pc \in StartPcs => st.status = "starting"
             /\ act[p].pc \in EndPcs => st.status = "restoring"

(* The run in the file was begun for a request; an operator only stops: it *)
(* begins no run and clears no stop request.                               *)
Begun    == st.status # "idle" => st.req \in Req
Stopping == Operator.pc \in {"off", "stop", "mark"} \cup EndPcs /\ ~Operator.stop

AtWork == (\A p \in Actors : Works(p)) /\ Begun /\ Stopping

(* A ledger reserves and queues whole requests; one that is running has a  *)
(* reservation.                                                            *)
Whole(l) == /\ l.pending.req = NoReq => l.pending = NoPending
            /\ l.queued.req = NoReq => l.queued = NoRequest
            /\ l.status = "running" => l.pending # NoPending

(* The holder's copy, as far as it is saved at once.                       *)
Agrees == /\ mem.pending = ledger.pending /\ mem.queued = ledger.queued
          /\ mem.rel = ledger.rel

(* What the holder of the rotation lock knows of its reservation, of the   *)
(* corner's file and of the inbox.                                         *)
ReservedPcs == {"replay", "resolve", "settle", "dispatch", "execute", "failed"} \cup RunPcs
Knows ==
  /\ Holder.pc \in HolderPcs \cup RunPcs
  /\ Holder.pc # "off" => Agrees
  /\ Holder.pc \in ReservedPcs => mem.pending.req \in Req
  /\ Holder.pc \in RunPcs => Holder.req = mem.pending.req
  /\ Holder.pc = "unlink" => mem.queued = inbox
  /\ Holder.pc = "play" => st.status \notin {"idle", "starting"}
  /\ Holder.pc \in {"clear", "result"} /\ Holder.res = "completed" => st.status \in Ended
  /\ Holder.pc \in {"resolve", "settle"} => st.status \in Ended
  /\ Holder.pc = "replay" => st.status = "failed"

Books == Whole(ledger) /\ Whole(mem) /\ (inbox.req = NoReq => inbox = NoRequest)

RotInv == TypeOK /\ AtWork /\ Books /\ Knows /\ OneManual /\ ManualKept /\ RunReserved

-----------------------------------------------------------------------------
(* The processes                                                           *)

LEMMA ActFields ==
  ASSUME TypeOK
  PROVE  act \in [Actors -> Procs] /\ Holder \in Procs /\ Operator \in Procs
BY DEF TypeOK, RetroTypeOK, Procs, Pcs, HolderPcs, OuterPcs, Holder, Operator, Actors

LEMMA HolderBecomes ==
  ASSUME TypeOK, NEW h \in Procs, act' = [act EXCEPT !["holder"] = h]
  PROVE  act' \in [Actors -> Procs] /\ Holder' = h /\ Operator' = Operator
<1>1. act \in [Actors -> Procs] BY ActFields
<1> QED BY <1>1 DEF Holder, Operator, Actors

LEMMA OperatorBecomes ==
  ASSUME TypeOK, NEW o \in Procs, act' = [act EXCEPT !["operator"] = o]
  PROVE  act' \in [Actors -> Procs] /\ Holder' = Holder /\ Operator' = o
<1>1. act \in [Actors -> Procs] BY ActFields
<1> QED BY <1>1 DEF Holder, Operator, Actors

LEMMA OffTyped == Off \in Procs /\ Off.pc = "off" /\ Off.req = NoReq /\ ~Off.stop
BY DEF Off, Procs, Pcs, HolderPcs, Outcomes, Game

(* Only the holder moves, and this is where.                               *)
HolderGoes(pc, r, res) == /\ act' \in [Actors -> Procs] /\ Operator' = Operator
                     /\ Holder'.pc = pc /\ Holder'.req = r /\ Holder'.res = res

LEMMA GoesFields ==
  ASSUME TypeOK, NEW pc \in Pcs, Goes("holder", pc)
  PROVE  HolderGoes(pc, Holder.req, Holder.res)
<1> DEFINE h == [Holder EXCEPT !.pc = pc]
<1>1. h \in Procs /\ h.pc = pc /\ h.req = Holder.req /\ h.res = Holder.res
  BY ActFields DEF Procs
<1>2. act' = [act EXCEPT !["holder"] = h] BY DEF Goes, Holder
<1> HIDE DEF h
<1> QED BY <1>1, <1>2, HolderBecomes DEF HolderGoes

LEMMA GoFields ==
  ASSUME TypeOK, NEW pc \in Pcs, Go(pc)
  PROVE  /\ act' \in [Actors -> Procs] /\ Operator' = Operator /\ Holder'.pc = pc
         /\ rotLock' \in {rotLock, "none"}
         /\ pc # "off" => HolderGoes(pc, Holder.req, Holder.res)
<1>1. CASE pc = "off"
  <2>1. act' = [act EXCEPT !["holder"] = Off] BY <1>1 DEF Go
  <2> QED BY <1>1, <2>1, HolderBecomes, OffTyped DEF Go
<1>2. CASE pc # "off" BY <1>2, GoesFields DEF Go, HolderGoes
<1> QED BY <1>1, <1>2

-----------------------------------------------------------------------------
(* What a holder's step writes                                             *)

LEMMA PendingTyped ==
  /\ NoPending \in Pendings /\ NoPending.req = NoReq
  /\ NoRequest \in Requests /\ NoRequest.req = NoReq
BY DEF NoPending, Pendings, NoRequest, Requests, Game

LEMMA LedgerFields ==
  ASSUME NEW l \in Ledgers
  PROVE  /\ l.pending \in Pendings /\ l.queued \in Requests /\ l.rel \subseteq Req
         /\ l.hist \in [Corner -> 0..Cool] /\ l.tries \in 0..Tries /\ l.slot \in Nat
         /\ l.pending.req \in Req \cup {NoReq} /\ l.queued.req \in Manual \cup {NoReq}
         /\ l.pending.corner \in Game /\ l.queued.corner \in Game
BY DEF Ledgers, Pendings, Requests

LEMMA StatusFields ==
  ASSUME NEW l \in Ledgers, NEW s \in {"ready", "waiting", "running", "recovery_required"}
  PROVE  LET n == [l EXCEPT !.status = s]
         IN /\ n \in Ledgers /\ n.status = s /\ n.pending = l.pending /\ n.queued = l.queued
            /\ n.rel = l.rel /\ n.slot = l.slot /\ n.hist = l.hist
BY DEF Ledgers

(* What is closed has been used.                                           *)
Spent(l) == [l.hist EXCEPT ![l.pending.corner] = Cool]

LEMMA ClosedFields ==
  ASSUME NEW l \in Ledgers
  PROVE  LET n == Closed(l)
         IN /\ n \in Ledgers /\ n.status = l.status /\ n.pending = NoPending
            /\ n.queued = l.queued /\ n.rel = l.rel /\ n.slot = l.slot /\ n.hist = Spent(l)
<1> DEFINE hist == Spent(l)
           n == [l EXCEPT !.pending = NoPending, !.hist = hist, !.tries = 0]
<1>1. hist \in [Corner -> 0..Cool]
  <2>1. Cool \in 0..Cool BY RetroAssumption
  <2>2. l.hist \in [Corner -> 0..Cool] BY LedgerFields
  <2> QED BY <2>1, <2>2 DEF Spent
<1>2. Closed(l) = n BY DEF Closed, Ledgers, Spent
<1>3. 0 \in 0..Tries BY RetroAssumption
<1> HIDE DEF hist
<1>4. n \in Ledgers BY <1>1, <1>3, PendingTyped DEF Ledgers
<1>5. /\ n.status = l.status /\ n.pending = NoPending /\ n.queued = l.queued /\ n.rel = l.rel
      /\ n.slot = l.slot /\ n.hist = hist
  BY DEF Ledgers
<1> QED BY <1>2, <1>4, <1>5 DEF hist

LEMMA ReleasedFields ==
  ASSUME NEW l \in Ledgers, l.pending.req \in Req
  PROVE  LET n == [Closed(l) EXCEPT !.status = "waiting", !.rel = @ \cup {l.pending.req}]
         IN /\ n \in Ledgers /\ n.status = "waiting" /\ n.pending = NoPending
            /\ n.queued = l.queued /\ n.rel = l.rel \cup {l.pending.req}
            /\ n.slot = l.slot /\ n.hist = Spent(l)
<1> DEFINE k == Closed(l)
<1>1. /\ k \in Ledgers /\ k.pending = NoPending /\ k.queued = l.queued /\ k.rel = l.rel
      /\ k.slot = l.slot /\ k.hist = Spent(l)
  BY ClosedFields
<1> HIDE DEF k
<1>2. LET n == [k EXCEPT !.status = "waiting", !.rel = @ \cup {l.pending.req}]
      IN /\ n \in Ledgers /\ n.status = "waiting" /\ n.pending = k.pending
         /\ n.queued = k.queued /\ n.rel = k.rel \cup {l.pending.req}
         /\ n.slot = k.slot /\ n.hist = k.hist
  BY <1>1 DEF Ledgers
<1> QED BY <1>1, <1>2 DEF k

LEMMA SeenFields ==
  ASSUME TypeOK
  PROVE  /\ Seen \in Ledgers /\ Seen.status = mem.status /\ Seen.pending = mem.pending
         /\ Seen.queued = mem.queued /\ Seen.rel = mem.rel /\ Seen.slot = mem.slot
         /\ \A c \in Corner : mem.hist[c] <= Seen.hist[c]
<1> DEFINE hist == [c \in Corner |-> IF c = st.corner /\ st.age > mem.hist[c]
                                     THEN st.age ELSE mem.hist[c]]
<1>1. mem \in Ledgers /\ st.age \in 0..Cool BY DEF TypeOK, RetroTypeOK
<1>2. hist \in [Corner -> 0..Cool] BY <1>1, LedgerFields
<1>3. Seen = [mem EXCEPT !.hist = hist] BY <1>1 DEF Seen, Ledgers
<1>4. \A c \in Corner : mem.hist[c] <= hist[c]
  <2>1. mem.hist \in [Corner -> 0..Cool] /\ st.age \in Int BY <1>1, LedgerFields
  <2> QED BY <2>1
<1> HIDE DEF hist
<1> QED BY <1>1, <1>2, <1>3, <1>4 DEF Ledgers

Reserved(l, r, c) == [l EXCEPT !.pending = [req |-> r, corner |-> c, phase |-> "selected"],
                               !.slot = @ + 1, !.queued = IF @.req = r THEN NoRequest ELSE @]

LEMMA ReservesFields ==
  ASSUME NEW l \in Ledgers, NEW r \in Req, NEW c \in Corner
  PROVE  LET n == Reserved(l, r, c)
         IN /\ n \in Ledgers /\ n.status = l.status /\ n.pending.req = r
            /\ n.pending \in Pendings /\ n.rel = l.rel
            /\ n.queued = IF l.queued.req = r THEN NoRequest ELSE l.queued
            /\ n.pending.corner = c /\ n.slot = l.slot + 1 /\ n.hist = l.hist
<1> DEFINE p == [req |-> r, corner |-> c, phase |-> "selected"]
           q == IF l.queued.req = r THEN NoRequest ELSE l.queued
           s == l.slot + 1
           n == [l EXCEPT !.pending = p, !.slot = s, !.queued = q]
<1>1. p \in Pendings /\ p.req = r /\ p.corner = c BY DEF Pendings, Game
<1>2. q \in Requests BY LedgerFields, PendingTyped
<1>3. s \in Nat BY LedgerFields
<1>4. Reserved(l, r, c) = n BY DEF Reserved, Ledgers
<1> HIDE DEF p, q, s
<1>5. /\ n \in Ledgers /\ n.status = l.status /\ n.pending = p /\ n.rel = l.rel /\ n.queued = q
      /\ n.slot = s /\ n.hist = l.hist
  BY <1>1, <1>2, <1>3 DEF Ledgers
<1> QED BY <1>1, <1>5, <1>4 DEF p, q, s

LEMMA DispatchFields ==
  ASSUME NEW l \in Ledgers
  PROVE  LET n == [l EXCEPT !.status = "running", !.pending.phase = "dispatched",
                            !.hist[l.pending.corner] = IF Fresh THEN Cool ELSE @]
         IN /\ n \in Ledgers /\ n.status = "running" /\ n.pending.req = l.pending.req
            /\ n.queued = l.queued /\ n.rel = l.rel /\ n.slot = l.slot
            /\ n.pending.corner = l.pending.corner
            /\ \A c \in Corner : l.hist[c] <= n.hist[c]
<1> DEFINE p == [l.pending EXCEPT !.phase = "dispatched"]
           h == IF Fresh THEN Cool ELSE l.hist[l.pending.corner]
           hist == [l.hist EXCEPT ![l.pending.corner] = h]
           n == [l EXCEPT !.status = "running", !.pending = p, !.hist = hist]
<1>1. p \in Pendings /\ p.req = l.pending.req /\ p.corner = l.pending.corner
  BY DEF Pendings, Ledgers
<1>2. hist \in [Corner -> 0..Cool] /\ \A c \in Corner : l.hist[c] <= hist[c]
  <2>1. l.hist \in [Corner -> 0..Cool] BY LedgerFields
  <2>2. l.pending.corner \in Corner => h \in 0..Cool /\ l.hist[l.pending.corner] <= h
    BY <2>1, RetroAssumption
  <2> HIDE DEF h
  <2>3. hist \in [Corner -> 0..Cool] BY <2>1, <2>2
  <2>4. \A c \in Corner : l.hist[c] \in Int BY <2>1
  <2>5. \A c \in Corner : l.hist[c] <= hist[c] BY <2>1, <2>2, <2>4
  <2> QED BY <2>3, <2>5
<1>3. [l EXCEPT !.status = "running", !.pending.phase = "dispatched",
                !.hist[l.pending.corner] = IF Fresh THEN Cool ELSE @] = n
  BY DEF Ledgers
<1> HIDE DEF p, hist
<1>4. /\ n \in Ledgers /\ n.status = "running" /\ n.pending = p /\ n.queued = l.queued
      /\ n.rel = l.rel /\ n.slot = l.slot /\ n.hist = hist
  BY <1>1, <1>2 DEF Ledgers
<1> QED BY <1>1, <1>2, <1>3, <1>4

-----------------------------------------------------------------------------
(* What happens to a request: the ways in which the ledger on disk, the    *)
(* inbox and the settled requests change together                          *)

Keeps    == /\ ledger'.pending.req = ledger.pending.req /\ ledger'.queued = ledger.queued
            /\ ledger'.rel = ledger.rel /\ UNCHANGED <<inbox, served>>
Imports  == /\ ledger.queued \in {NoRequest, inbox} /\ ledger'.queued = inbox
            /\ ledger'.pending.req = ledger.pending.req
            /\ ledger'.rel = ledger.rel /\ UNCHANGED <<inbox, served>>
Empties  == /\ ledger.queued = inbox /\ inbox' = NoRequest /\ ledger'.queued = ledger.queued
            /\ ledger'.pending.req = ledger.pending.req
            /\ ledger'.rel = ledger.rel /\ UNCHANGED served
Takes    == /\ ledger.pending = NoPending /\ ledger'.pending.req \in Req
            /\ ledger'.queued = IF ledger.queued.req = ledger'.pending.req
                                THEN NoRequest ELSE ledger.queued
            /\ ledger'.rel = ledger.rel /\ UNCHANGED <<inbox, served>>
Closes   == /\ ledger.pending.req \in Req /\ ledger'.pending = NoPending
            /\ ledger'.queued = ledger.queued /\ ledger.rel \subseteq ledger'.rel
            /\ served' = served \cup {ledger.pending.req} /\ UNCHANGED inbox
            /\ st'.status \in Ended \/ ledger.pending.req \in ledger'.rel

Accounts == Keeps \/ Imports \/ Empties \/ Takes \/ Closes

(* The run in the file goes on or ends; a run begins for the reservation.  *)
RunGoesOn == st'.status \in BUSY => \/ st.status \in BUSY /\ st'.req = st.req
                                    \/ Keeps /\ st'.req = ledger.pending.req

LEMMA StepAccounts ==
  ASSUME RotInv, Accounts, RunGoesOn, UNCHANGED <<accepted, cancelled>>
  PROVE  OneManual' /\ ManualKept' /\ RunReserved'
<1>1. NoReq \notin Manual /\ NoReq \notin Req /\ NoRequest.req = NoReq /\ NoPending.req = NoReq
  BY RotationAssumption, RetroAssumption, PendingTyped
<1>2. accepted \subseteq Manual BY DEF RotInv, TypeOK
<1>3. OneManual'
  BY DEF RotInv, OneManual, Accounts, Keeps, Imports, Empties, Takes, Closes
<1>4. ManualKept'
  <2> SUFFICES ASSUME NEW m \in accepted, m \notin served', m \notin cancelled
               PROVE  m \in {inbox'.req, ledger'.queued.req, ledger'.pending.req}
    BY DEF ManualKept, Places
  <2>1. m # NoReq /\ m \notin served
    BY <1>1, <1>2 DEF Accounts, Keeps, Imports, Empties, Takes, Closes
  <2>2. m \in {inbox.req, ledger.queued.req, ledger.pending.req}
    BY <2>1 DEF RotInv, ManualKept, Places
  <2> QED
    BY <1>1, <2>1, <2>2 DEF Accounts, Keeps, Imports, Empties, Takes, Closes
<1>5. RunReserved'
  <2> SUFFICES ASSUME st'.status \in BUSY
               PROVE  st'.req = ledger'.pending.req \/ st'.req \in ledger'.rel
    BY DEF RunReserved
  <2>1. CASE st.status \in BUSY /\ st'.req = st.req
    <3>1. st.req = ledger.pending.req \/ st.req \in ledger.rel
      BY <2>1 DEF RotInv, RunReserved
    <3>2. st.req \in Req BY <2>1 DEF RotInv, AtWork, Begun, BUSY
    <3>3. st'.status \notin Ended BY DEF BUSY, Ended
    <3> QED
      BY <1>1, <2>1, <3>1, <3>2, <3>3 DEF Accounts, Keeps, Imports, Empties, Takes, Closes
  <2>2. CASE Keeps /\ st'.req = ledger.pending.req BY <2>2 DEF Keeps
  <2> QED BY <2>1, <2>2 DEF RunGoesOn
<1> QED BY <1>3, <1>4, <1>5

-----------------------------------------------------------------------------
(* A step of the holder on its ledger                                      *)

Files == [status : BUSY \cup Ended, corner : Game, req : Req \cup {NoReq}, prev : Game,
          sw : Sw \cup {NoSw}, run : Nat, code : Terminal \cup {"none"}, never : BOOLEAN,
          late : BOOLEAN, age : 0..Cool, retry : 0..Tries]
Rows  == [Sw -> [status : {"none", "queued"} \cup Terminal, to : Game, run : Nat]]

(* The file is left alone, or its run, which nobody works on, is closed.   *)
FileCloses ==
  /\ st' \in Files /\ receipt' \in Rows /\ stopFor' \in {stopFor, NoReq}
  /\ UNCHANGED <<plane, cornerLock>> /\ st'.req = st.req
  /\ \/ st'.status = st.status
     \/ /\ st.status # "idle" /\ st'.status = "interrupted"
        /\ \A p \in Actors : act[p].pc \notin WorkPcs

(* The holder is off, or ends up at a place whose knowledge it has.        *)
Arrives(pc) ==
  /\ act' \in [Actors -> Procs] /\ Operator' = Operator
  /\ Holder.pc \notin WorkPcs /\ Holder'.pc = pc /\ pc \in Pcs
  /\ pc \in {"off", "enter"} \cup HolderPcs
  /\ pc \in ReservedPcs => mem'.pending.req \in Req
  /\ pc = "enter" => Holder'.req = mem'.pending.req
  /\ pc = "unlink" => mem'.queued = inbox'
  /\ pc \in {"resolve", "settle"} => st'.status \in Ended
  /\ pc = "replay" => st'.status = "failed"
  /\ pc # "off" => Agrees'

Written == /\ ledger' \in Ledgers /\ mem' \in Ledgers /\ Whole(ledger)' /\ Whole(mem)'
           /\ inbox' \in {inbox, NoRequest} /\ served' \subseteq Req
           /\ rotLock' \in Actors \cup {"none"}
           /\ UNCHANGED <<paused, due, Ghosts>>

HolderWorks(pc) == FileCloses /\ Arrives(pc) /\ Written /\ Accounts

Typed ==
  /\ plane \in [phase : {"ready", "draining", "failed"}, game : Game, run : Nat,
                claim : Sw \cup {NoSw}]
  /\ receipt \in Rows /\ st \in Files
  /\ stopFor \in Req \cup {NoReq} /\ cornerLock \in Actors \cup {"none"}
  /\ act \in [Actors -> Procs] /\ ledger \in Ledgers /\ mem \in Ledgers
  /\ ledger.status = "running" => ledger.pending # NoPending
  /\ inbox \in Requests /\ due \subseteq Manual /\ paused \subseteq Pausable
  /\ rotLock \in Actors \cup {"none"}
  /\ accepted \subseteq Manual /\ cancelled \subseteq Manual /\ served \subseteq Req
  /\ used \in [Corner -> 0..Cool] /\ crashes \in 0..Crashes /\ stops \in 0..Stops

LEMMA TypesSplit == (TypeOK => Typed) /\ (Typed' => TypeOK')
BY DEF TypeOK, RetroTypeOK, Typed, Rows, Files, Procs, Pcs, HolderPcs, OuterPcs

LEMMA FileClosesAtWork ==
  ASSUME RotInv, FileCloses, NEW pc, Arrives(pc)
  PROVE  AtWork'
<1>1. /\ \A p \in Actors : act'[p].pc \in WorkPcs <=> act[p].pc \in WorkPcs
      /\ act'["operator"] = act["operator"] /\ act'["holder"].pc \notin WorkPcs
  BY DEF Arrives, Holder, Operator, Actors, HolderPcs, WorkPcs, StartPcs, EndPcs
<1>2. Begun' BY DEF RotInv, AtWork, Begun, FileCloses
<1>3. Stopping' BY DEF RotInv, AtWork, Stopping, Arrives
<1>4. \A p \in Actors : Works(p)'
  <2> SUFFICES ASSUME NEW p \in Actors PROVE Works(p)'
    OBVIOUS
  <2>1. Works(p) BY DEF RotInv, AtWork
  <2>2. CASE st'.status = st.status
    BY <1>1, <2>1, <2>2 DEF FileCloses, Works, Actors, WorkPcs
  <2>3. CASE \A q \in Actors : act[q].pc \notin WorkPcs
    BY <1>1, <2>1, <2>3 DEF FileCloses, Works, WorkPcs
  <2> QED BY <2>2, <2>3 DEF FileCloses
<1> QED BY <1>2, <1>3, <1>4 DEF AtWork

LEMMA HolderWorksKeeps ==
  ASSUME RotInv, NEW pc, HolderWorks(pc)
  PROVE  RotInv'
<1> USE DEF HolderWorks
<1>1. AtWork' BY FileClosesAtWork
<1>2. TypeOK'
  <2>1. Typed BY TypesSplit DEF RotInv
  <2>2. NoRequest \in Requests BY PendingTyped
  <2>3. Typed'
    BY <2>1, <2>2 DEF Typed, FileCloses, Arrives, Written, Whole, Ghosts
  <2> QED BY <2>3, TypesSplit
<1>3. Books' BY PendingTyped DEF RotInv, Books, Written
<1>4. Knows'
  BY DEF Arrives, Knows, HolderPcs, ReservedPcs, RunPcs
<1>5. RunGoesOn BY DEF RunGoesOn, FileCloses, BUSY
<1>6. OneManual' /\ ManualKept' /\ RunReserved' BY <1>5, StepAccounts DEF Written, Ghosts
<1> QED BY <1>1, <1>2, <1>3, <1>4, <1>6 DEF RotInv

(* A switch request is recorded once: its row says where it is to go.       *)
LEMMA EnqueueTyped ==
  ASSUME receipt \in Rows, NEW q, NEW to \in Game, Enqueue(q, to)
  PROVE  receipt' \in Rows
<1>1. CASE q \in Sw /\ receipt[q].status = "none"
  <2> DEFINE one == [receipt[q] EXCEPT !.status = "queued"]
             row == [one EXCEPT !.to = to]
             Row == [status : {"none", "queued"} \cup Terminal, to : Game, run : Nat]
  <2>1. receipt[q] \in Row BY <1>1 DEF Rows
  <2>2. row \in Row BY <2>1
  <2>3. receipt' = [[receipt EXCEPT ![q] = one] EXCEPT ![q] = row]
    BY <1>1 DEF Enqueue, Rows
  <2> HIDE DEF one, row, Row
  <2>4. receipt \in [Sw -> Row] BY DEF Rows, Row
  <2>5. receipt' \in [Sw -> Row] BY <1>1, <2>2, <2>3, <2>4
  <2> QED BY <2>5 DEF Rows, Row
<1>2. CASE q \notin Sw \/ receipt[q].status # "none"
  <2>1. receipt' = receipt BY <1>2 DEF Enqueue, Rows
  <2> QED BY <2>1
<1> QED BY <1>1, <1>2

LEMMA FileAlone ==
  ASSUME RotInv, UNCHANGED <<Plane, st, stopFor, cornerLock>>
  PROVE  FileCloses
<1>1. Typed BY TypesSplit DEF RotInv
<1> QED BY <1>1 DEF FileCloses, Plane, Typed

(* Interrupt and the other steps that close the run of the file.           *)
LEMMA InterruptCloses ==
  ASSUME RotInv, Interrupt, cornerLock = "none", st.status # "idle",
         plane' = plane, receipt' = receipt, stopFor' \in {stopFor, NoReq}, cornerLock' = cornerLock
  PROVE  FileCloses /\ st'.status \in Ended
<1>1. st \in Files /\ receipt \in Rows BY TypesSplit DEF RotInv, Typed
<1>2. st' \in Files /\ st'.req = st.req /\ st'.status = "interrupted"
  BY <1>1 DEF Interrupt, Files, Ended
<1>3. \A p \in Actors : act[p].pc \notin WorkPcs
  BY DEF RotInv, AtWork, Works, Actors
<1> QED BY <1>1, <1>2, <1>3 DEF FileCloses, Ended

LEMMA MemAgrees ==
  ASSUME RotInv, Holder.pc # "off"
  PROVE  /\ Agrees /\ mem \in Ledgers /\ ledger \in Ledgers /\ Whole(mem)
         /\ rotLock \in Actors \cup {"none"} /\ served \subseteq Req
BY TypesSplit DEF RotInv, Knows, Books, Typed

(* The reservation stays, with what is queued and what is released.        *)
SameBook(l) == /\ l \in Ledgers /\ l.pending.req = mem.pending.req
               /\ l.queued = mem.queued /\ l.rel = mem.rel
               /\ l.pending = mem.pending \/ l.pending.req \in Req
               /\ l.status = "running" => l.status = mem.status \/ l.pending.req \in Req

LEMMA SameWhole ==
  ASSUME RotInv, NEW l, SameBook(l)
  PROVE  Whole(l)
<1>1. Whole(mem) BY DEF RotInv, Books
<1> QED
  BY <1>1, RetroAssumption, PendingTyped DEF SameBook, Whole

LEMMA SavesSame ==
  ASSUME RotInv, Holder.pc # "off", NEW l, SameBook(l), Saves(l),
         UNCHANGED <<Outside, served, Ghosts>>, rotLock' \in {rotLock, "none"}
  PROVE  /\ Written /\ Accounts /\ Agrees'
         /\ mem'.pending.req = mem.pending.req /\ mem'.queued = mem.queued
<1>1. Whole(l) BY SameWhole
<1>2. ledger' = l /\ mem' = l BY DEF Saves
<1>3. Keeps BY <1>2, MemAgrees DEF SameBook, Keeps, Agrees, Outside
<1>4. Written
  BY <1>1, <1>2, MemAgrees DEF SameBook, Written, Whole, Outside
<1> QED BY <1>2, <1>3, <1>4 DEF Accounts, Agrees, SameBook

LEMMA NotSaved ==
  ASSUME RotInv, Holder.pc # "off", NEW l, SameBook(l), l.pending = mem.pending,
         mem' = l, ledger' = ledger,
         UNCHANGED <<Outside, served, Ghosts>>, rotLock' \in {rotLock, "none"}
  PROVE  /\ Written /\ Accounts /\ Agrees'
         /\ mem'.pending.req = mem.pending.req /\ mem'.queued = mem.queued
<1>1. Whole(l) /\ Whole(ledger) BY SameWhole DEF RotInv, Books
<1>2. Keeps BY DEF Keeps, Outside
<1>3. Written
  BY <1>1, MemAgrees DEF SameBook, Written, Whole, Outside
<1>4. Agrees' BY MemAgrees DEF Agrees, SameBook
<1> QED BY <1>2, <1>3, <1>4 DEF Accounts, SameBook

(* The reservation is settled.                                             *)
LEMMA SavesClosed ==
  ASSUME RotInv, Holder.pc # "off", mem.pending.req \in Req,
         NEW l \in Ledgers, Saves(l), l.pending = NoPending, l.queued = mem.queued,
         mem.rel \subseteq l.rel, st'.status \in Ended \/ mem.pending.req \in l.rel,
         l.status # "running", served' = served \cup {mem.pending.req},
         UNCHANGED <<Outside, Ghosts>>, rotLock' \in {rotLock, "none"}
  PROVE  Written /\ Accounts /\ Agrees'
<1>1. Whole(l) BY MemAgrees DEF Whole
<1>2. ledger' = l /\ mem' = l BY DEF Saves
<1>3. Closes BY <1>2, MemAgrees DEF Closes, Agrees, Outside
<1>4. Written BY <1>1, <1>2, MemAgrees DEF Written, Whole, Outside
<1> QED BY <1>2, <1>3, <1>4 DEF Accounts, Agrees

LEMMA GoArrives ==
  ASSUME RotInv, Holder.pc \notin WorkPcs, NEW pc \in HolderPcs, Go(pc),
         pc \in ReservedPcs => mem'.pending.req \in Req,
         pc = "unlink" => mem'.queued = inbox',
         pc \in {"resolve", "settle"} => st'.status \in Ended,
         pc = "replay" => st'.status = "failed",
         Agrees'
  PROVE  Arrives(pc) /\ rotLock' \in {rotLock, "none"}
<1>1. pc \in Pcs /\ pc # "enter" BY DEF Pcs, HolderPcs
<1> QED BY <1>1, GoFields DEF RotInv, Arrives

LEMMA HolderAt == \A pc : H(pc) <=> Holder.pc = pc
BY DEF H, At, Holder

LEMMA IsReserved ==
  ASSUME RotInv, mem.pending # NoPending \/ Holder.pc \in ReservedPcs
  PROVE  mem.pending.req \in Req
<1>1. mem \in Ledgers /\ Whole(mem) BY TypesSplit DEF RotInv, Typed, Books
<1> QED BY <1>1, LedgerFields DEF RotInv, Whole, Knows

LEMMA MemSame == ASSUME RotInv, Holder.pc # "off" PROVE SameBook(mem)
BY MemAgrees DEF SameBook

LEMMA ReconcilesWorks ==
  ASSUME RotInv, NEW from \in {"latched", "failed"}, NEW to \in {"settle", "resolve"},
         Reconciles(from, to)
  PROVE  HolderWorks(to)
<1>1. Holder.pc = from /\ from \notin WorkPcs /\ from # "off" /\ to \in HolderPcs
  BY HolderAt DEF Reconciles, WorkPcs, StartPcs, EndPcs, HolderPcs
<1>2. mem.pending.req \in Req BY IsReserved DEF Reconciles, Pending
<1>3. FileCloses /\ st'.status \in Ended
  BY InterruptCloses DEF Reconciles, StartNeverLanded, Plane
<1>4. Go(to) /\ rotLock' \in {rotLock, "none"} BY <1>1, GoFields DEF Reconciles, RotInv, Pcs
<1>5. Written /\ Accounts /\ Agrees' /\ mem'.pending.req = mem.pending.req
  BY <1>1, <1>4, NotSaved, MemSame DEF Reconciles
<1>6. Arrives(to) BY <1>1, <1>2, <1>3, <1>4, <1>5, GoArrives
<1> QED BY <1>3, <1>5, <1>6 DEF HolderWorks

LEMMA ResolvedFields ==
  ASSUME NEW l \in Ledgers
  PROVE  LET n == [Closed(l) EXCEPT !.status = "ready"]
         IN /\ n \in Ledgers /\ n.status = "ready" /\ n.pending = NoPending
            /\ n.queued = l.queued /\ n.rel = l.rel /\ n.slot = l.slot /\ n.hist = Spent(l)
<1> DEFINE k == Closed(l)
<1>1. /\ k \in Ledgers /\ k.pending = NoPending /\ k.queued = l.queued /\ k.rel = l.rel
      /\ k.slot = l.slot /\ k.hist = Spent(l)
  BY ClosedFields
<1> HIDE DEF k
<1>2. LET n == [k EXCEPT !.status = "ready"]
      IN /\ n \in Ledgers /\ n.status = "ready" /\ n.pending = k.pending
         /\ n.queued = k.queued /\ n.rel = k.rel /\ n.slot = k.slot /\ n.hist = k.hist
  BY <1>1, StatusFields
<1> QED BY <1>1, <1>2 DEF k

LEMMA CompletesWorks ==
  ASSUME RotInv, Holder.pc \notin WorkPcs \cup {"off"}, mem.pending.req \in Req,
         NEW pc \in {"import", "off"}, Go(pc), st.status \in Ended,
         Saves([Closed(mem) EXCEPT !.status = "ready"]),
         served' = served \cup {mem.pending.req},
         UNCHANGED <<Plane, st, stopFor, cornerLock, Outside, Ghosts>>
  PROVE  HolderWorks(pc)
<1> DEFINE l == [Closed(mem) EXCEPT !.status = "ready"]
<1>1. pc \in HolderPcs /\ pc \notin ReservedPcs \cup {"unlink", "resolve", "settle", "replay"}
  BY DEF HolderPcs, ReservedPcs, RunPcs
<1>2. rotLock' \in {rotLock, "none"} BY <1>1, GoFields DEF RotInv, Pcs
<1>3. FileCloses /\ st'.status \in Ended BY FileAlone
<1>4. /\ l \in Ledgers /\ l.status = "ready" /\ l.pending = NoPending
      /\ l.queued = mem.queued /\ l.rel = mem.rel
  BY MemAgrees, ResolvedFields
<1>5. Saves(l) OBVIOUS
<1> HIDE DEF l
<1>6. Written /\ Accounts /\ Agrees' BY <1>2, <1>3, <1>4, <1>5, SavesClosed
<1>7. Arrives(pc) BY <1>1, <1>6, GoArrives
<1> QED BY <1>3, <1>6, <1>7 DEF HolderWorks

LEMMA ResolveWorks ==
  ASSUME RotInv, ResolveReservation
  PROVE  \E pc : HolderWorks(pc)
<1>1. /\ Holder.pc \in {"resolve", "settle"} /\ Holder.pc \notin WorkPcs \cup {"off"}
      /\ Holder.pc \in ReservedPcs
  BY DEF ResolveReservation, Holder, WorkPcs, StartPcs, EndPcs, ReservedPcs
<1>2. mem.pending.req \in Req BY <1>1, IsReserved
<1>3. st.status \in Ended BY <1>1 DEF RotInv, Knows
<1>4. PICK pc \in {"import", "off"} : Go(pc) BY DEF ResolveReservation
<1> QED BY <1>1, <1>2, <1>3, <1>4, CompletesWorks DEF ResolveReservation, Pending

LEMMA ReleasesWorks ==
  ASSUME RotInv, Holder.pc \notin WorkPcs \cup {"off"}, mem.pending.req \in Req,
         NEW pc \in {"import", "off"}, Releases(pc), FileCloses, UNCHANGED <<Outside, Ghosts>>
  PROVE  HolderWorks(pc)
<1> DEFINE l == [Closed(mem) EXCEPT !.status = "waiting", !.rel = @ \cup {mem.pending.req}]
<1>1. pc \in HolderPcs /\ pc \notin ReservedPcs \cup {"unlink", "resolve", "settle", "replay"}
  BY DEF HolderPcs, ReservedPcs, RunPcs
<1>2. Go(pc) /\ rotLock' \in {rotLock, "none"}
  BY <1>1, GoFields DEF Releases, RotInv, Pcs
<1>3. /\ l \in Ledgers /\ l.status = "waiting" /\ l.pending = NoPending
      /\ l.queued = mem.queued /\ l.rel = mem.rel \cup {mem.pending.req}
  BY MemAgrees, ReleasedFields
<1>4. Saves(l) /\ served' = served \cup {mem.pending.req}
  BY DEF Releases, Pending
<1> HIDE DEF l
<1>5. Written /\ Accounts /\ Agrees' BY <1>2, <1>3, <1>4, SavesClosed
<1>6. Arrives(pc) BY <1>1, <1>2, <1>5, GoArrives
<1> QED BY <1>5, <1>6 DEF HolderWorks

(* A step that neither saves nor changes the file.                         *)
LEMMA WalksWorks ==
  ASSUME RotInv, Holder.pc \notin WorkPcs \cup {"off"}, NEW pc \in HolderPcs \ {"off"}, Go(pc),
         pc \in ReservedPcs => mem.pending.req \in Req,
         pc \notin {"unlink", "resolve", "settle", "replay"},
         mem' = mem \/ mem' = Seen, ledger' = ledger,
         FileCloses, UNCHANGED <<Outside, served, Ghosts>>
  PROVE  HolderWorks(pc)
<1>1. SameBook(mem) /\ SameBook(Seen)
  BY MemSame, SeenFields DEF SameBook, RotInv
<1>2. mem.pending = mem.pending /\ Seen.pending = mem.pending BY SeenFields DEF RotInv
<1>3. Go(pc) /\ rotLock' \in {rotLock, "none"} BY GoFields DEF RotInv, Pcs
<1>4. Written /\ Accounts /\ Agrees' /\ mem'.pending.req = mem.pending.req
  <2>1. CASE mem' = mem BY <1>1, <1>3, <2>1, NotSaved
  <2>2. CASE mem' = Seen BY <1>1, <1>2, <1>3, <2>2, NotSaved
  <2> QED BY <2>1, <2>2
<1>5. Arrives(pc) BY <1>4, GoArrives
<1> QED BY <1>4, <1>5 DEF HolderWorks

(* A save that keeps the reservation, where the holder goes on or leaves.  *)
LEMMA NotesWorks ==
  ASSUME RotInv, Holder.pc \notin WorkPcs \cup {"off"}, NEW pc \in HolderPcs, Go(pc),
         pc \in ReservedPcs => mem.pending.req \in Req,
         pc \notin {"unlink", "resolve", "settle", "replay"},
         NEW l, SameBook(l), Saves(l),
         FileCloses, UNCHANGED <<Outside, served, Ghosts>>
  PROVE  HolderWorks(pc)
<1>1. Go(pc) /\ rotLock' \in {rotLock, "none"} BY GoFields DEF RotInv, Pcs
<1>2. Written /\ Accounts /\ Agrees' /\ mem'.pending.req = mem.pending.req
  BY <1>1, SavesSame
<1>3. Arrives(pc) BY <1>2, GoArrives
<1> QED BY <1>2, <1>3 DEF HolderWorks

LEMMA StatusSame ==
  ASSUME RotInv, NEW k, SameBook(k), NEW s \in {"ready", "waiting", "recovery_required"}
  PROVE  SameBook([k EXCEPT !.status = s])
<1>1. k \in Ledgers /\ s \in {"ready", "waiting", "running", "recovery_required"}
  BY DEF SameBook
<1> DEFINE n == [k EXCEPT !.status = s]
<1>2. /\ n \in Ledgers /\ n.status = s /\ n.pending = k.pending /\ n.queued = k.queued
      /\ n.rel = k.rel
  BY <1>1, StatusFields
<1> HIDE DEF n
<1>3. SameBook(n) BY <1>2 DEF SameBook
<1> QED BY <1>3 DEF n

LEMMA WaitsWorks ==
  ASSUME RotInv, Holder.pc \notin WorkPcs \cup {"off"}, Waits, FileCloses,
         UNCHANGED <<Outside, served, Ghosts>>
  PROVE  HolderWorks("off")
<1>1. /\ "off" \in HolderPcs
      /\ "off" \notin ReservedPcs \cup {"unlink", "resolve", "settle", "replay"}
  BY DEF HolderPcs, ReservedPcs, RunPcs
<1> DEFINE l == [mem EXCEPT !.status = "waiting"]
<1>2. SameBook(l) BY MemSame, StatusSame
<1>3. Saves(l) /\ Go("off") BY DEF Waits
<1> HIDE DEF l
<1> QED BY <1>1, <1>2, <1>3, NotesWorks

LEMMA LatchWorks ==
  ASSUME RotInv, LatchReleased \/ LatchStays \/ LatchReplay \/ ReplayAnswered
  PROVE  \E pc : HolderWorks(pc)
<1> USE DEF WorkPcs, StartPcs, EndPcs
<1>1. CASE LatchReleased
  <2>1. Holder.pc = "latched" /\ mem.pending.req \in Req
    BY <1>1, HolderAt, IsReserved DEF LatchReleased, Pending
  <2>2. FileCloses BY <1>1, FileAlone DEF LatchReleased
  <2> QED BY <1>1, <2>1, <2>2, ReleasesWorks DEF LatchReleased
<1>2. CASE LatchStays
  <2>1. Holder.pc = "latched" BY <1>2, HolderAt DEF LatchStays
  <2>2. FileCloses BY <1>2, FileAlone DEF LatchStays
  <2>3. /\ "off" \in HolderPcs
        /\ "off" \notin ReservedPcs \cup {"unlink", "resolve", "settle", "replay"}
    BY DEF HolderPcs, ReservedPcs, RunPcs
  <2> QED BY <1>2, <2>1, <2>2, <2>3, MemSame, NotesWorks DEF LatchStays
<1>3. CASE LatchReplay
  <2>1. Holder.pc = "latched" /\ mem.pending.req \in Req
    BY <1>3, HolderAt, IsReserved DEF LatchReplay, Pending
  <2>2. mem \in Ledgers /\ mem.tries + 1 \in 0..Tries
    <3>1. mem \in Ledgers BY <2>1, MemAgrees
    <3>2. mem.tries \in 0..Tries BY <3>1, LedgerFields
    <3> QED BY <1>3, <3>1, <3>2, RetroAssumption DEF LatchReplay, ReplayDue
  <2> DEFINE l == [mem EXCEPT !.tries = @ + 1]
  <2>3. SameBook(l) /\ l.pending = mem.pending
    <3> DEFINE n == mem.tries + 1
    <3>1. n \in 0..Tries /\ mem \in Ledgers BY <2>2
    <3> HIDE DEF n
    <3>2. LET k == [mem EXCEPT !.tries = n]
          IN /\ k \in Ledgers /\ k.pending = mem.pending /\ k.queued = mem.queued
             /\ k.rel = mem.rel /\ k.status = mem.status
      BY <3>1 DEF Ledgers
    <3>3. l = [mem EXCEPT !.tries = n] BY DEF n
    <3> QED BY <3>2, <3>3 DEF SameBook
  <2>4. mem' = l BY <1>3 DEF LatchReplay
  <2> HIDE DEF l
  <2>5. Go("replay") /\ rotLock' \in {rotLock, "none"} /\ "replay" \in HolderPcs
    BY <1>3, GoFields DEF LatchReplay, RotInv, Pcs, HolderPcs
  <2>6. Written /\ Accounts /\ Agrees' /\ mem'.pending.req = mem.pending.req
    BY <1>3, <2>1, <2>3, <2>4, <2>5, NotSaved DEF LatchReplay
  <2>7. st.status = "failed" /\ cornerLock = "none"
    BY <1>3 DEF LatchReplay, ReplayDue, RestoreFailed
  <2>8. FileCloses /\ st'.status = "failed"
    <3>1. st \in Files /\ receipt \in Rows BY TypesSplit DEF RotInv, Typed
    <3> DEFINE k == IF st.retry = 0 \/ receipt[<<st.req, Restore + st.retry>>].status \in Terminal
                    THEN st.retry + 1 ELSE st.retry
    <3>2. CASE UNCHANGED <<st, receipt>>
      BY <1>3, <2>7, <3>1, <3>2 DEF LatchReplay, FileCloses
    <3>3. CASE /\ st' = [st EXCEPT !.retry = k] /\ Enqueue(<<st.req, Restore + k>>, st.prev)
               /\ k <= Tries
      <4>1. k \in 0..Tries BY <3>1, <3>3, RetroAssumption DEF Files
      <4> HIDE DEF k
      <4>2. st' \in Files /\ st'.req = st.req /\ st'.status = st.status
        BY <3>1, <3>3, <4>1 DEF Files
      <4>3. st.prev \in Game BY <3>1 DEF Files
      <4>4. receipt' \in Rows BY <3>1, <3>3, <4>3, EnqueueTyped
      <4> QED BY <1>3, <2>7, <4>2, <4>4 DEF LatchReplay, FileCloses
    <3> QED BY <1>3, <3>2, <3>3 DEF LatchReplay
  <2>9. Arrives("replay") BY <2>1, <2>5, <2>6, <2>8, GoArrives
  <2> QED BY <2>6, <2>8, <2>9 DEF HolderWorks
<1>4. CASE ReplayAnswered
  <2>1. /\ Holder.pc = "replay" /\ Holder.pc \in ReservedPcs
        /\ mem.pending.req \in Req /\ st.status = "failed"
    BY <1>4, HolderAt, IsReserved DEF ReplayAnswered, RotInv, Knows, ReservedPcs
  <2>2. FileCloses
    <3>1. st \in Files /\ receipt \in Rows BY TypesSplit DEF RotInv, Typed
    <3>2. \A p \in Actors : act[p].pc \notin WorkPcs
      BY <2>1 DEF RotInv, AtWork, Works, Actors
    <3>3. CASE UNCHANGED st BY <1>4, <3>3, FileAlone DEF ReplayAnswered
    <3>4. CASE st' = [st EXCEPT !.status = "interrupted", !.never = FALSE]
      <4>1. st' \in Files /\ st'.req = st.req /\ st'.status = "interrupted"
        BY <3>1, <3>4 DEF Files, Ended
      <4> QED BY <1>4, <2>1, <3>1, <3>2, <4>1 DEF ReplayAnswered, FileCloses, Plane
    <3> QED BY <1>4, <3>3, <3>4 DEF ReplayAnswered
  <2>3. CASE Releases("import") BY <1>4, <2>1, <2>2, <2>3, ReleasesWorks DEF ReplayAnswered
  <2>4. CASE Saves(mem) /\ Go("off") /\ UNCHANGED served
    <3>1. /\ "off" \in HolderPcs
          /\ "off" \notin ReservedPcs \cup {"unlink", "resolve", "settle", "replay"}
      BY DEF HolderPcs, ReservedPcs, RunPcs
    <3> QED BY <1>4, <2>1, <2>2, <2>4, <3>1, MemSame, NotesWorks DEF ReplayAnswered
  <2> QED BY <1>4, <2>3, <2>4 DEF ReplayAnswered
<1> QED BY <1>1, <1>2, <1>3, <1>4

(* The holder goes on and remembers a corner; nothing is saved.            *)
LEMMA RemembersFields ==
  ASSUME TypeOK, NEW pc \in Pcs, NEW c \in Game,
         act' = [act EXCEPT !.holder.pc = pc, !.holder.corner = c]
  PROVE  act' \in [Actors -> Procs] /\ Operator' = Operator /\ Holder'.pc = pc
<1> DEFINE h == [[Holder EXCEPT !.pc = pc] EXCEPT !.corner = c]
<1>1. h \in Procs /\ h.pc = pc BY ActFields DEF Procs
<1>2. act \in [Actors -> Procs] /\ "holder" \in Actors BY ActFields DEF Actors
<1>3. act' = [act EXCEPT !["holder"] = h] BY <1>2 DEF Holder
<1> HIDE DEF h
<1> QED BY <1>1, <1>3, HolderBecomes

LEMMA ImportWorks ==
  ASSUME RotInv, ImportNothing \/ ImportSave \/ ImportUnlink
  PROVE  \E pc : HolderWorks(pc)
<1> USE DEF WorkPcs, StartPcs, EndPcs
<1>1. Holder.pc \in {"import", "unlink"}
  BY HolderAt DEF ImportNothing, ImportSave, ImportUnlink, Importable
<1>2. FileCloses BY FileAlone DEF ImportNothing, ImportSave, ImportUnlink
<1>3. /\ Agrees /\ mem \in Ledgers /\ ledger \in Ledgers /\ Whole(mem) /\ Whole(ledger)
      /\ rotLock \in Actors \cup {"none"} /\ served \subseteq Req
      /\ inbox \in Requests /\ (inbox.req = NoReq => inbox = NoRequest)
  BY <1>1, MemAgrees, TypesSplit DEF RotInv, Books, Typed
<1>4. CASE ImportNothing
  <2>1. act' \in [Actors -> Procs] /\ Operator' = Operator /\ Holder'.pc = "observe"
    <3>1. "observe" \in Pcs /\ inbox.corner \in Game BY <1>3 DEF Pcs, HolderPcs, Requests
    <3> QED BY <1>4, <3>1, RemembersFields DEF ImportNothing, RotInv
  <2>2. Agrees' BY <1>3, <1>4 DEF ImportNothing, Agrees
  <2>3. Arrives("observe")
    BY <1>1, <2>1, <2>2 DEF Arrives, Pcs, HolderPcs, ReservedPcs, RunPcs
  <2>4. Written BY <1>3, <1>4 DEF ImportNothing, Written, Whole, Outside
  <2>5. Keeps BY <1>4 DEF ImportNothing, Keeps, Outside
  <2> QED BY <1>2, <2>3, <2>4, <2>5 DEF HolderWorks, Accounts
<1>5. CASE ImportSave
  <2> DEFINE l == [mem EXCEPT !.queued = inbox]
  <2>1. /\ l \in Ledgers /\ l.queued = inbox /\ l.pending = mem.pending
        /\ l.rel = mem.rel /\ l.status = mem.status
    BY <1>3 DEF Ledgers
  <2>2. ledger' = l /\ mem' = l BY <1>5 DEF ImportSave, Saves
  <2> HIDE DEF l
  <2>3. Go("unlink") /\ "unlink" \in HolderPcs /\ UNCHANGED <<Outside, served, Ghosts>>
    BY <1>5 DEF ImportSave, HolderPcs
  <2>4. Agrees' BY <2>2 DEF Agrees
  <2>5. Arrives("unlink") /\ rotLock' \in {rotLock, "none"}
    BY <1>1, <2>1, <2>2, <2>3, <2>4, GoArrives DEF ReservedPcs, RunPcs, Outside
  <2>6. Whole(l) BY <1>3, <2>1 DEF Whole
  <2>7. Written BY <1>3, <2>1, <2>2, <2>3, <2>5, <2>6 DEF Written, Whole, Outside
  <2>8. Imports BY <1>3, <1>5, <2>1, <2>2, <2>3 DEF ImportSave, Imports, Agrees, Outside
  <2> QED BY <1>2, <2>5, <2>7, <2>8 DEF HolderWorks, Accounts
<1>6. CASE ImportUnlink
  <2>1. Holder.pc = "unlink" BY <1>6, HolderAt DEF ImportUnlink
  <2>2. act' \in [Actors -> Procs] /\ Operator' = Operator /\ Holder'.pc = "observe"
    <3>1. "observe" \in Pcs /\ Base \in Game BY DEF Pcs, HolderPcs, Game
    <3> QED BY <1>6, <3>1, RemembersFields DEF ImportUnlink, RotInv
  <2>3. Agrees' BY <1>3, <1>6 DEF ImportUnlink, Agrees
  <2>4. Arrives("observe")
    BY <1>1, <2>2, <2>3 DEF Arrives, Pcs, HolderPcs, ReservedPcs, RunPcs
  <2>5. Written BY <1>3, <1>6 DEF ImportUnlink, Written, Whole
  <2>6. Empties BY <1>3, <1>6, <2>1 DEF ImportUnlink, Empties, Agrees, RotInv, Knows
  <2> QED BY <1>2, <2>4, <2>5, <2>6 DEF HolderWorks, Accounts
<1> QED BY <1>4, <1>5, <1>6

LEMMA ObserveWorks ==
  ASSUME RotInv, Observe \/ ObserveRetired \/ ObserveBusy
  PROVE  \E pc : HolderWorks(pc)
<1> USE DEF WorkPcs, StartPcs, EndPcs
<1>1. Holder.pc = "observe" BY HolderAt DEF Observe, ObserveRetired, ObserveBusy
<1>2. /\ {"choose", "off"} \subseteq HolderPcs
      /\ \A pc \in {"choose", "off"} :
           pc \notin ReservedPcs \cup {"unlink", "resolve", "settle", "replay"}
  BY DEF HolderPcs, ReservedPcs, RunPcs
<1>3. CASE Observe
  <2>1. FileCloses BY <1>3, FileAlone DEF Observe
  <2> QED BY <1>1, <1>2, <1>3, <2>1, WalksWorks DEF Observe
<1>4. CASE ObserveRetired
  <2>1. cornerLock = "none" /\ st.status # "idle"
    BY <1>4 DEF ObserveRetired, Foreign, BUSY, Retires, RefusedBeforeLaunch, StartNeverLanded
  <2>2. FileCloses BY <1>4, <2>1, InterruptCloses DEF ObserveRetired, Plane
  <2> QED BY <1>1, <1>2, <1>4, <2>2, WalksWorks DEF ObserveRetired
<1>5. CASE ObserveBusy
  <2>1. FileCloses BY <1>5, FileAlone DEF ObserveBusy
  <2>2. SameBook(Seen) BY <1>1, SeenFields, MemSame DEF SameBook, RotInv
  <2> DEFINE l == [Seen EXCEPT !.status = "waiting"]
  <2>3. SameBook(l) BY <2>2, StatusSame
  <2>4. Saves(l) BY <1>5 DEF ObserveBusy
  <2> HIDE DEF l
  <2> QED BY <1>1, <1>2, <1>5, <2>1, <2>3, <2>4, NotesWorks DEF ObserveBusy
<1> QED BY <1>3, <1>4, <1>5

(* A reservation takes the queued request or a new one.                    *)
LEMMA TakesWorks ==
  ASSUME RotInv, Holder.pc = "choose", mem.pending = NoPending,
         NEW r \in Req, NEW c \in Corner, Reserves(r, c), Go("dispatch"),
         UNCHANGED <<Plane, st, stopFor, cornerLock, Outside, served, Ghosts>>
  PROVE  HolderWorks("dispatch")
<1> DEFINE l == Reserved(mem, r, c)
<1>1. /\ Agrees /\ mem \in Ledgers /\ ledger \in Ledgers /\ Whole(mem)
      /\ rotLock \in Actors \cup {"none"} /\ served \subseteq Req
  BY MemAgrees
<1>2. /\ l \in Ledgers /\ l.status = mem.status /\ l.pending.req = r
      /\ l.pending \in Pendings /\ l.rel = mem.rel
      /\ l.queued = IF mem.queued.req = r THEN NoRequest ELSE mem.queued
  BY <1>1, ReservesFields
<1>3. Saves(l) BY DEF Reserves, Reserved
<1> HIDE DEF l
<1>4. ledger' = l /\ mem' = l BY <1>3 DEF Saves
<1>5. Whole(l) BY <1>1, <1>2, RetroAssumption, PendingTyped DEF Whole
<1>6. Takes BY <1>1, <1>2, <1>4 DEF Takes, Agrees, Outside
<1>7. Agrees' BY <1>4 DEF Agrees
<1>8. /\ Holder.pc \notin WorkPcs /\ "dispatch" \in HolderPcs
      /\ "dispatch" \notin {"unlink", "resolve", "settle", "replay"}
  BY DEF WorkPcs, StartPcs, EndPcs, HolderPcs
<1>9. Arrives("dispatch") /\ rotLock' \in {rotLock, "none"}
  BY <1>2, <1>4, <1>7, <1>8, GoArrives
<1>10. Written BY <1>1, <1>2, <1>4, <1>5, <1>9 DEF Written, Whole, Outside
<1>11. FileCloses BY FileAlone
<1> QED BY <1>6, <1>9, <1>10, <1>11 DEF HolderWorks, Accounts

LEMMA ReserveWorks ==
  ASSUME RotInv, ReserveManual \/ ReserveAuto \/ NothingToReserve
  PROVE  \E pc : HolderWorks(pc)
<1> USE DEF WorkPcs, StartPcs, EndPcs
<1>1. Holder.pc = "choose" /\ mem.pending = NoPending
  BY HolderAt DEF ReserveManual, ReserveAuto, NothingToReserve, Pending
<1>2. /\ mem \in Ledgers /\ Whole(mem) /\ Req = 1..MaxSlot \cup Manual /\ MaxSlot \in Nat
      /\ mem.queued \in Requests /\ mem.slot \in Nat
  BY <1>1, MemAgrees, LedgerFields, RotationAssumption
<1>3. CASE ReserveManual
  <2>1. mem.queued.req \in Req BY <1>2, <1>3 DEF ReserveManual, Whole, Requests
  <2>2. mem.queued.corner \in Corner BY <1>3 DEF ReserveManual, Eligible
  <2> QED BY <1>1, <1>3, <2>1, <2>2, TakesWorks DEF ReserveManual
<1>4. CASE ReserveAuto
  <2>1. PICK c \in AutoCandidates : Reserves(mem.slot + 1, c) BY <1>4 DEF ReserveAuto
  <2>2. mem.slot + 1 \in 1..MaxSlot BY <1>2, <1>4 DEF ReserveAuto
  <2>3. mem.slot + 1 \in Req BY <1>2, <2>2
  <2>4. c \in Corner BY DEF AutoCandidates, Cooled
  <2> QED BY <1>1, <1>4, <2>1, <2>3, <2>4, TakesWorks DEF ReserveAuto
<1>5. CASE NothingToReserve
  <2>1. FileCloses BY <1>5, FileAlone DEF NothingToReserve
  <2> QED BY <1>1, <1>5, <2>1, WaitsWorks DEF NothingToReserve
<1> QED BY <1>3, <1>4, <1>5

(* The reservation that is there is taken up again, dispatched, or waits.  *)
LEMMA ResumeWorks ==
  ASSUME RotInv, ResumePending \/ ResumeWaits \/ Dispatch \/ ExecuteRefused \/ ExecuteQueued
  PROVE  \E pc : HolderWorks(pc)
<1> USE DEF WorkPcs, StartPcs, EndPcs
<1>1. Holder.pc \in {"choose", "dispatch", "execute"}
  BY HolderAt DEF ResumePending, ResumeWaits, Dispatch, ExecuteRefused, ExecuteQueued
<1>2. FileCloses
  BY FileAlone DEF ResumePending, ResumeWaits, Dispatch, ExecuteRefused, ExecuteQueued
<1>3. CASE ResumePending
  <2>1. mem.pending.req \in Req BY <1>3, IsReserved DEF ResumePending, Pending
  <2>2. "dispatch" \in HolderPcs BY DEF HolderPcs
  <2> QED BY <1>1, <1>2, <1>3, <2>1, <2>2, WalksWorks DEF ResumePending
<1>4. CASE ResumeWaits \/ ExecuteQueued
  BY <1>1, <1>2, <1>4, WaitsWorks DEF ResumeWaits, ExecuteQueued
<1>5. CASE Dispatch
  <2>1. Holder.pc \in ReservedPcs BY <1>5, HolderAt DEF Dispatch, ReservedPcs
  <2>2. mem.pending.req \in Req /\ mem \in Ledgers BY <1>1, <2>1, IsReserved, MemAgrees
  <2> DEFINE l == [mem EXCEPT !.status = "running", !.pending.phase = "dispatched",
                              !.hist[mem.pending.corner] = IF Fresh THEN Cool ELSE @]
  <2>3. /\ l \in Ledgers /\ l.status = "running" /\ l.pending.req = mem.pending.req
        /\ l.queued = mem.queued /\ l.rel = mem.rel
    BY <2>2, DispatchFields
  <2>4. Saves(l) BY <1>5 DEF Dispatch, Pending
  <2> HIDE DEF l
  <2>5. SameBook(l) BY <2>2, <2>3 DEF SameBook
  <2>6. "execute" \in HolderPcs BY DEF HolderPcs
  <2> QED BY <1>1, <1>2, <1>5, <2>2, <2>4, <2>5, <2>6, NotesWorks DEF Dispatch
<1>6. CASE ExecuteRefused
  <2>1. Holder.pc \in ReservedPcs BY <1>6, HolderAt DEF ExecuteRefused, ReservedPcs
  <2>2. mem.pending.req \in Req BY <2>1, IsReserved
  <2>3. "failed" \in HolderPcs BY DEF HolderPcs
  <2> QED BY <1>1, <1>2, <1>6, <2>2, <2>3, WalksWorks DEF ExecuteRefused
<1> QED BY <1>3, <1>4, <1>5, <1>6

(* The run begins with the reserved request.                               *)
LEMMA ExecuteWorks ==
  ASSUME RotInv, ExecuteRun
  PROVE  \E pc : HolderWorks(pc)
<1>1. Holder.pc = "execute" BY HolderAt DEF ExecuteRun
<1>2. FileCloses BY FileAlone DEF ExecuteRun
<1>3. /\ Agrees /\ mem \in Ledgers /\ ledger \in Ledgers /\ Whole(mem) /\ Whole(ledger)
      /\ rotLock \in Actors \cup {"none"} /\ served \subseteq Req
  BY <1>1, MemAgrees DEF RotInv, Books
<1>4. mem.pending.req \in Req /\ mem.pending.corner \in Game
  BY <1>1, <1>3, IsReserved, LedgerFields DEF ReservedPcs
<1> DEFINE h == [Off EXCEPT !.pc = "enter", !.req = Pending.req, !.corner = Pending.corner]
<1>5. h \in Procs /\ h.pc = "enter" /\ h.req = mem.pending.req
  BY <1>4 DEF Pending, Off, Procs, Pcs, RunPcs, Outcomes
<1>6. act' = [act EXCEPT !["holder"] = h] BY DEF ExecuteRun
<1> HIDE DEF h
<1>7. act' \in [Actors -> Procs] /\ Operator' = Operator /\ Holder' = h
  BY <1>5, <1>6, HolderBecomes DEF RotInv
<1>8. UNCHANGED <<mem, ledger, Outside, rotLock, served, Ghosts>> BY DEF ExecuteRun
<1>9. Agrees' BY <1>3, <1>8 DEF Agrees
<1>10. Arrives("enter")
  BY <1>1, <1>4, <1>5, <1>7, <1>8, <1>9
  DEF Arrives, Pcs, HolderPcs, ReservedPcs, RunPcs, WorkPcs, StartPcs, EndPcs
<1>11. Written BY <1>3, <1>8 DEF Written, Whole, Outside
<1>12. Keeps BY <1>8 DEF Keeps, Outside
<1> QED BY <1>2, <1>10, <1>11, <1>12 DEF HolderWorks, Accounts

(* The result of the run, and what it does to the reservation.             *)
LEMMA ResultWorks ==
  ASSUME RotInv, RunCompleted \/ RunQueued \/ RunReleased \/ RunFailed \/ Latch
  PROVE  \E pc : HolderWorks(pc)
<1> USE DEF WorkPcs, StartPcs, EndPcs
<1>1. Holder.pc \in {"result", "failed"} /\ Holder.pc \in ReservedPcs
  BY HolderAt DEF RunCompleted, RunQueued, RunReleased, RunFailed, Latch, Result, ReservedPcs, RunPcs
<1>2. FileCloses BY FileAlone DEF RunCompleted, RunQueued, RunReleased, RunFailed, Latch
<1>3. mem.pending.req \in Req /\ mem \in Ledgers BY <1>1, IsReserved, MemAgrees
<1>4. CASE RunCompleted
  <2>1. st.status \in Ended
    BY <1>4, HolderAt DEF RunCompleted, Result, RotInv, Knows, Holder
  <2> QED BY <1>1, <1>3, <1>4, <2>1, CompletesWorks DEF RunCompleted, Pending
<1>5. CASE RunQueued BY <1>1, <1>2, <1>5, WaitsWorks DEF RunQueued
<1>6. CASE RunReleased BY <1>1, <1>2, <1>3, <1>6, ReleasesWorks DEF RunReleased
<1>7. CASE RunFailed
  <2>1. "failed" \in HolderPcs BY DEF HolderPcs
  <2> QED BY <1>1, <1>2, <1>3, <1>7, <2>1, WalksWorks DEF RunFailed
<1>8. CASE Latch
  <2>1. /\ "off" \in HolderPcs
        /\ "off" \notin ReservedPcs \cup {"unlink", "resolve", "settle", "replay"}
    BY DEF HolderPcs, ReservedPcs, RunPcs
  <2> DEFINE l == [mem EXCEPT !.status = "recovery_required"]
  <2>2. SameBook(l) BY <1>1, MemSame, StatusSame
  <2>3. Saves(l) BY <1>8 DEF Latch
  <2> HIDE DEF l
  <2> QED BY <1>1, <1>2, <1>8, <2>1, <2>2, <2>3, NotesWorks DEF Latch
<1> QED BY <1>4, <1>5, <1>6, <1>7, <1>8

(* Every step of the holder outside of its run.                            *)
LEMMA HolderStepWorks ==
  ASSUME RotInv, HolderStep
  PROVE  \E pc : HolderWorks(pc)
<1>1. CASE LatchReconciled \/ Reconciled
  BY <1>1, ReconcilesWorks DEF LatchReconciled, Reconciled
<1>2. CASE \/ ResolveReservation \/ LatchReplay \/ ReplayAnswered \/ LatchReleased \/ LatchStays
  BY <1>2, ResolveWorks, LatchWorks
<1>3. CASE ImportNothing \/ ImportSave \/ ImportUnlink BY <1>3, ImportWorks
<1>4. CASE Observe \/ ObserveRetired \/ ObserveBusy BY <1>4, ObserveWorks
<1>5. CASE ReserveManual \/ ReserveAuto \/ NothingToReserve BY <1>5, ReserveWorks
<1>6. CASE ResumePending \/ ResumeWaits \/ Dispatch \/ ExecuteRefused \/ ExecuteQueued
  BY <1>6, ResumeWorks
<1>7. CASE ExecuteRun BY <1>7, ExecuteWorks
<1>8. CASE RunCompleted \/ RunQueued \/ RunReleased \/ RunFailed \/ Latch BY <1>8, ResultWorks
<1> QED BY <1>1, <1>2, <1>3, <1>4, <1>5, <1>6, <1>7, <1>8 DEF HolderStep

LEMMA HolderKeeps == ASSUME RotInv, HolderStep PROVE RotInv'
BY HolderStepWorks, HolderWorksKeeps

-----------------------------------------------------------------------------
(* Taking the rotation lock, and the operator's way out of a latch         *)

LEMMA TickWorks ==
  ASSUME RotInv, Tick
  PROVE  \E pc : HolderWorks(pc)
<1> DEFINE pc == IF ledger.status = "recovery_required" THEN "latched" ELSE "import"
<1>1. Holder.pc = "off" BY HolderAt DEF Tick
<1>2. FileCloses BY FileAlone DEF Tick
<1>3. ledger \in Ledgers /\ Whole(ledger) /\ served \subseteq Req
  BY TypesSplit DEF RotInv, Books, Typed
<1>4. /\ pc \in HolderPcs /\ pc \in Pcs /\ pc # "off"
      /\ pc \notin ReservedPcs \cup {"unlink", "resolve", "settle", "replay"}
  BY DEF Pcs, HolderPcs, ReservedPcs, RunPcs
<1>5. Goes("holder", pc) BY DEF Tick
<1> HIDE DEF pc
<1>6. HolderGoes(pc, Holder.req, Holder.res) BY <1>4, <1>5, GoesFields DEF RotInv
<1>7. /\ mem' = ledger /\ rotLock' = "holder"
      /\ UNCHANGED <<ledger, Outside, served, Ghosts>>
  BY DEF Tick
<1>8. Agrees' BY <1>7 DEF Agrees
<1>9. Arrives(pc)
  BY <1>1, <1>4, <1>6, <1>8
  DEF Arrives, HolderGoes, ReservedPcs, RunPcs, WorkPcs, StartPcs, EndPcs
<1>10. Written BY <1>3, <1>7 DEF Written, Whole, Outside, Actors
<1>11. Keeps BY <1>7 DEF Keeps, Outside
<1> QED BY <1>2, <1>9, <1>10, <1>11 DEF HolderWorks, Accounts

LEMMA RecoverReconciledWorks ==
  ASSUME RotInv, RecoverReconciled
  PROVE  \E pc : HolderWorks(pc)
<1>1. Holder.pc = "off" BY HolderAt DEF RecoverReconciled, Recoverable
<1>2. FileCloses /\ st'.status \in Ended
  BY InterruptCloses DEF RecoverReconciled, StartNeverLanded, Plane
<1>3. ledger \in Ledgers /\ Whole(ledger) /\ served \subseteq Req
  BY TypesSplit DEF RotInv, Books, Typed
<1>4. ledger.pending.req \in Req
  BY <1>3, LedgerFields DEF RecoverReconciled, Whole
<1>5. "resolve" \in HolderPcs /\ "resolve" \in Pcs BY DEF Pcs, HolderPcs
<1>6. HolderGoes("resolve", Holder.req, Holder.res)
  BY <1>5, GoesFields DEF RotInv, RecoverReconciled
<1>7. /\ mem' = ledger /\ rotLock' = "holder"
      /\ UNCHANGED <<ledger, Outside, served, Ghosts>>
  BY DEF RecoverReconciled
<1>8. Agrees' BY <1>7 DEF Agrees
<1>9. Arrives("resolve")
  BY <1>1, <1>2, <1>4, <1>5, <1>6, <1>7, <1>8
  DEF Arrives, HolderGoes, WorkPcs, StartPcs, EndPcs
<1>10. Written BY <1>3, <1>7 DEF Written, Whole, Outside, Actors
<1>11. Keeps BY <1>7 DEF Keeps, Outside
<1> QED BY <1>2, <1>9, <1>10, <1>11 DEF HolderWorks, Accounts

LEMMA RecoverResolvedWorks ==
  ASSUME RotInv, RecoverResolved
  PROVE  \E pc : HolderWorks(pc)
<1> DEFINE r == ledger.pending.req
<1>1. Holder.pc = "off" BY HolderAt DEF RecoverResolved, Recoverable
<1>2. UNCHANGED <<Plane, st, stopFor, cornerLock, act, rotLock, Outside, Ghosts>>
  BY DEF RecoverResolved, retroVars, Plane
<1>3. FileCloses BY <1>2, FileAlone
<1>4. /\ ledger \in Ledgers /\ Whole(ledger) /\ served \subseteq Req
      /\ act \in [Actors -> Procs] /\ rotLock \in Actors \cup {"none"}
  BY TypesSplit DEF RotInv, Books, Typed
<1>5. Arrives("off")
  BY <1>1, <1>2, <1>4
  DEF Arrives, Holder, Operator, Pcs, HolderPcs, ReservedPcs, RunPcs, WorkPcs, StartPcs, EndPcs
<1>6. CASE /\ st.req = r /\ r # NoReq /\ st.status \in Ended
           /\ Saves([Closed(ledger) EXCEPT !.status = "ready"])
           /\ served' = served \cup {r}
  <2> DEFINE l == [Closed(ledger) EXCEPT !.status = "ready"]
  <2>1. /\ l \in Ledgers /\ l.status = "ready" /\ l.pending = NoPending
        /\ l.queued = ledger.queued /\ l.rel = ledger.rel
    BY <1>4, ResolvedFields
  <2>2. ledger' = l /\ mem' = l BY <1>6 DEF Saves
  <2> HIDE DEF l
  <2>3. r \in Req BY <1>4, <1>6, LedgerFields
  <2>4. Written BY <1>2, <1>4, <1>6, <2>1, <2>2, <2>3 DEF Written, Whole, Outside
  <2>5. Closes BY <1>2, <1>6, <2>1, <2>2, <2>3 DEF Closes, Outside
  <2> QED BY <1>3, <1>5, <2>4, <2>5 DEF HolderWorks, Accounts
<1>7. CASE Saves([ledger EXCEPT !.status = "waiting"]) /\ UNCHANGED served
  <2> DEFINE l == [ledger EXCEPT !.status = "waiting"]
  <2>1. /\ l \in Ledgers /\ l.status = "waiting" /\ l.pending = ledger.pending
        /\ l.queued = ledger.queued /\ l.rel = ledger.rel
    BY <1>4, StatusFields
  <2>2. ledger' = l /\ mem' = l BY <1>7 DEF Saves
  <2> HIDE DEF l
  <2>3. Written BY <1>2, <1>4, <1>7, <2>1, <2>2 DEF Written, Whole, Outside
  <2>4. Keeps BY <1>2, <1>7, <2>1, <2>2 DEF Keeps, Outside
  <2> QED BY <1>3, <1>5, <2>3, <2>4 DEF HolderWorks, Accounts
<1> QED BY <1>6, <1>7 DEF RecoverResolved

-----------------------------------------------------------------------------
(* The operators' inbox, and the environment                               *)

(* What the ledger and its copy say of requests stays as it is.            *)
SameBooks == /\ \A f \in {"pending", "queued", "rel", "status"} :
                  ledger'[f] = ledger[f] /\ mem'[f] = mem[f]
             /\ UNCHANGED <<inbox, accepted, cancelled, served>>

LEMMA BooksKept ==
  ASSUME RotInv, SameBooks
  PROVE  /\ Books' /\ OneManual' /\ ManualKept' /\ (Agrees => Agrees')
         /\ mem'.pending = mem.pending /\ mem'.queued = mem.queued
         /\ ledger'.pending = ledger.pending /\ ledger'.rel = ledger.rel
<1>1. /\ ledger'.pending = ledger.pending /\ ledger'.queued = ledger.queued
      /\ ledger'.rel = ledger.rel /\ ledger'.status = ledger.status
      /\ mem'.pending = mem.pending /\ mem'.queued = mem.queued
      /\ mem'.rel = mem.rel /\ mem'.status = mem.status
      /\ UNCHANGED <<inbox, accepted, cancelled, served>>
  BY DEF SameBooks
<1>2. Books' BY <1>1 DEF RotInv, Books, Whole
<1>3. OneManual' /\ ManualKept' BY <1>1 DEF RotInv, OneManual, ManualKept, Places
<1>4. Agrees => Agrees' BY <1>1 DEF Agrees
<1> QED BY <1>1, <1>2, <1>3, <1>4

LEMMA BooksSame ==
  ASSUME UNCHANGED <<ledger, mem, inbox, accepted, cancelled, served>>
  PROVE  SameBooks
BY DEF SameBooks

LEMMA OthersKeep ==
  ASSUME RotInv, SameBooks, Typed', UNCHANGED <<cornerLock, act>>,
         st'.status = st.status, st'.req = st.req
  PROVE  RotInv'
<1>1. TypeOK' BY TypesSplit
<1>2. AtWork' BY DEF RotInv, AtWork, Works, Begun, Stopping, Operator
<1>3. Knows' BY BooksKept DEF RotInv, Knows, SameBooks, Holder
<1>4. RunReserved' BY BooksKept DEF RotInv, RunReserved
<1> QED BY <1>1, <1>2, <1>3, <1>4, BooksKept DEF RotInv

LEMMA InboxKeeps ==
  ASSUME RotInv
  PROVE  /\ \A m \in Manual, c \in Corner, timed \in BOOLEAN : QueueManual(m, c, timed) => RotInv'
         /\ CancelScheduled => RotInv'
<1>1. /\ NoReq \notin Manual /\ NoRequest.req = NoReq /\ NoRequest \in Requests
      /\ inbox \in Requests /\ accepted \subseteq Manual /\ cancelled \subseteq Manual
  BY RotationAssumption, RetroAssumption, PendingTyped DEF RotInv, TypeOK
<1>2. ASSUME NEW m \in Manual, NEW c \in Corner, NEW timed \in BOOLEAN,
             QueueManual(m, c, timed)
      PROVE  RotInv'
  <2>1. inbox' \in Requests /\ inbox'.req = m BY <1>2 DEF QueueManual, Requests, Game
  <2>2. /\ UNCHANGED <<plane, receipt, st, stopFor, cornerLock, act, ledger, mem, rotLock>>
        /\ UNCHANGED <<paused, due, cancelled, served, used, crashes, stops>>
        /\ accepted' = accepted \cup {m} /\ ledger.queued = NoRequest /\ inbox = NoRequest
        /\ Holder.pc # "unlink"
    BY <1>2, HolderAt DEF QueueManual, retroVars, InboxFree
  <2>3. Typed' BY <2>1, <2>2, <1>1, TypesSplit DEF Typed, RotInv
  <2>4. TypeOK' BY <2>3, TypesSplit
  <2>5. AtWork' BY <2>2 DEF RotInv, AtWork, Works, Begun, Stopping, Operator
  <2>6. Books' BY <2>1, <2>2, <1>1 DEF RotInv, Books, Whole
  <2>7. Knows' BY <2>2 DEF RotInv, Knows, Agrees, Holder
  <2>8. OneManual' BY <2>2 DEF OneManual
  <2>9. ManualKept' BY <1>1, <2>1, <2>2 DEF RotInv, ManualKept, Places
  <2>10. RunReserved' BY <2>2 DEF RotInv, RunReserved
  <2> QED BY <2>4, <2>5, <2>6, <2>7, <2>8, <2>9, <2>10 DEF RotInv
<1>3. ASSUME CancelScheduled PROVE RotInv'
  <2>1. /\ UNCHANGED <<plane, receipt, st, stopFor, cornerLock, act, ledger, mem, rotLock>>
        /\ UNCHANGED <<paused, due, accepted, served, used, crashes, stops>>
        /\ inbox' = NoRequest /\ cancelled' = cancelled \cup {inbox.req} /\ inbox # NoRequest
        /\ Holder.pc # "unlink"
    BY <1>3, HolderAt DEF CancelScheduled, retroVars, InboxFree
  <2>2. inbox.req \in Manual BY <1>1, <2>1 DEF Requests, RotInv, Books
  <2>3. Typed' BY <2>1, <2>2, <1>1, TypesSplit DEF Typed, RotInv
  <2>4. TypeOK' BY <2>3, TypesSplit
  <2>5. AtWork' BY <2>1 DEF RotInv, AtWork, Works, Begun, Stopping, Operator
  <2>6. Books' BY <2>1 DEF RotInv, Books, Whole
  <2>7. Knows' BY <2>1 DEF RotInv, Knows, Agrees, Holder
  <2>8. OneManual' BY <2>1 DEF OneManual
  <2>9. ManualKept' BY <1>1, <2>1 DEF RotInv, ManualKept, Places
  <2>10. RunReserved' BY <2>1 DEF RotInv, RunReserved
  <2> QED BY <2>4, <2>5, <2>6, <2>7, <2>8, <2>9, <2>10 DEF RotInv
<1> QED BY <1>2, <1>3

LEMMA FlagsKeep ==
  ASSUME RotInv
  PROVE  /\ \A m \in Manual : TriggerPasses(m) => RotInv'
         /\ \A c \in Pausable : Pause(c) => RotInv'
<1>1. Typed BY TypesSplit DEF RotInv
<1>2. ASSUME NEW m \in Manual, TriggerPasses(m) PROVE RotInv'
  <2>1. Typed' BY <1>1, <1>2 DEF Typed, TriggerPasses, retroVars, Ghosts
  <2>2. SameBooks BY <1>2, BooksSame DEF TriggerPasses, Ghosts
  <2> QED BY <1>2, <2>1, <2>2, OthersKeep DEF TriggerPasses, retroVars
<1>3. ASSUME NEW c \in Pausable, Pause(c) PROVE RotInv'
  <2>1. Typed' BY <1>1, <1>3 DEF Typed, Pause, retroVars, Ghosts
  <2>2. SameBooks BY <1>3, BooksSame DEF Pause, Ghosts
  <2> QED BY <1>3, <2>1, <2>2, OthersKeep DEF Pause, retroVars
<1> QED BY <1>2, <1>3

LEMMA AgedFields ==
  ASSUME NEW l \in Ledgers
  PROVE  LET n == [l EXCEPT !.hist = Aged(l.hist)]
         IN /\ n \in Ledgers
            /\ \A f \in {"pending", "queued", "rel", "status"} : n[f] = l[f]
            /\ n.slot = l.slot /\ n.hist = Aged(l.hist)
<1> DEFINE hist == Aged(l.hist)
<1>1. Cool \in Nat /\ l.hist \in [Corner -> 0..Cool] BY RetroAssumption, LedgerFields
<1>2. hist \in [Corner -> 0..Cool] BY <1>1 DEF Aged, Less
<1> HIDE DEF hist
<1>3. LET n == [l EXCEPT !.hist = hist]
      IN /\ n \in Ledgers /\ \A f \in {"pending", "queued", "rel", "status"} : n[f] = l[f]
         /\ n.slot = l.slot /\ n.hist = hist
  BY <1>2 DEF Ledgers
<1> QED BY <1>3 DEF hist

LEMMA DayKeeps ==
  ASSUME RotInv, Day
  PROVE  RotInv'
<1>1. Typed /\ Cool \in Nat BY TypesSplit, RetroAssumption DEF RotInv
<1>2. /\ ledger \in Ledgers /\ mem \in Ledgers /\ st \in Files /\ st.age \in 0..Cool
      /\ used \in [Corner -> 0..Cool]
  BY <1>1 DEF Typed, Files
<1>3. ledger' \in Ledgers /\ mem' \in Ledgers BY <1>2, AgedFields DEF Day
<1>4. SameBooks
  <2>1. \A f \in {"pending", "queued", "rel", "status"} :
          ledger'[f] = ledger[f] /\ mem'[f] = mem[f]
    BY <1>2, AgedFields DEF Day
  <2> QED BY <2>1 DEF Day, SameBooks, Outside
<1>5. st' \in Files /\ st'.status = st.status /\ st'.req = st.req
  <2> DEFINE age == Less(st.age)
             late == st.status \in {"starting", "active"}
  <2>1. age \in 0..Cool /\ late \in BOOLEAN BY <1>1, <1>2 DEF Less
  <2>2. st' = [[st EXCEPT !.age = age] EXCEPT !.late = late] BY <1>2 DEF Day, Files
  <2> HIDE DEF age, late
  <2> QED BY <1>2, <2>1, <2>2 DEF Files
<1>6. used' \in [Corner -> 0..Cool] BY <1>1, <1>2 DEF Day, Less
<1>7. ledger'.pending = ledger.pending /\ ledger'.status = ledger.status
  BY <1>4 DEF SameBooks
<1>8. UNCHANGED <<plane, receipt, stopFor, cornerLock, act, inbox, paused, due, rotLock>>
  BY DEF Day, Plane, Outside
<1>9. UNCHANGED <<served, accepted, cancelled, crashes, stops>> BY DEF Day
<1>10. Typed' BY <1>1, <1>3, <1>5, <1>6, <1>7, <1>8, <1>9 DEF Typed
<1> QED BY <1>4, <1>5, <1>8, <1>10, OthersKeep

LEMMA SlotOverKeeps ==
  ASSUME RotInv, SlotOver
  PROVE  RotInv'
<1>1. Typed BY TypesSplit DEF RotInv
<1>2. st' \in Files /\ st'.status = st.status /\ st'.req = st.req
  BY <1>1 DEF SlotOver, Overrun, Typed, Files
<1>3. UNCHANGED <<plane, receipt, stopFor, cornerLock, act>> BY DEF SlotOver, Overrun, Plane
<1>4. UNCHANGED rotVars BY DEF SlotOver
<1>5. Typed' BY <1>1, <1>2, <1>3, <1>4 DEF Typed, rotVars
<1>6. SameBooks BY <1>4, BooksSame DEF rotVars
<1> QED BY <1>2, <1>3, <1>5, <1>6, OthersKeep

(* The plane and its receipts                                              *)
Planes == [phase : {"ready", "draining", "failed"}, game : Game, run : Nat, claim : Sw \cup {NoSw}]

LEMMA SettledTyped ==
  ASSUME receipt \in Rows, NEW q \in Sw, NEW s \in Terminal, NEW p \in Planes, Settled(q, s, p)
  PROVE  plane' \in Planes /\ receipt' \in Rows
<1>1. plane' \in Planes BY DEF Settled, Planes
<1>2. receipt' \in Rows
  <2> DEFINE one == [receipt[q] EXCEPT !.status = s]
             row == [one EXCEPT !.run = p.run]
             Row == [status : {"none", "queued"} \cup Terminal, to : Game, run : Nat]
  <2>1. receipt[q] \in Row /\ p.run \in Nat BY DEF Rows, Planes
  <2>2. row \in Row BY <2>1
  <2>3. receipt' = [[receipt EXCEPT ![q] = one] EXCEPT ![q] = row]
    BY DEF Settled, Rows
  <2> HIDE DEF one, row, Row
  <2>4. receipt \in [Sw -> Row] BY DEF Rows, Row
  <2>5. receipt' \in [Sw -> Row] BY <2>2, <2>3, <2>4
  <2> QED BY <2>5 DEF Rows, Row
<1> QED BY <1>1, <1>2

LEMMA PlaneTyped ==
  ASSUME plane \in Planes, receipt \in Rows, PlaneStep
  PROVE  plane' \in Planes /\ receipt' \in Rows /\ UNCHANGED <<st, stopFor, cornerLock, act>>
<1>1. plane.run + 1 \in Nat /\ plane.game \in Game BY DEF Planes
<1>2. CASE Repair
  <2> DEFINE n == plane.run + 1
  <2>1. plane' = [[plane EXCEPT !.phase = "ready"] EXCEPT !.run = n] BY <1>2 DEF Repair
  <2>2. n \in Nat BY <1>1
  <2> HIDE DEF n
  <2>3. plane' \in Planes BY <2>1, <2>2 DEF Planes
  <2> QED BY <1>2, <2>3 DEF Repair
<1>3. ASSUME NEW q \in Sw,
             Claim(q) \/ Commit(q) \/ RollBack(q) \/ Refuse(q) \/ Break(q) \/ Reject(q)
      PROVE  plane' \in Planes /\ receipt' \in Rows /\ UNCHANGED <<st, stopFor, cornerLock, act>>
  <2> DEFINE n == plane.run + 1
             to == receipt[q].to
             landed == [[[plane EXCEPT !.phase = "ready"] EXCEPT !.game = to] EXCEPT !.run = n]
             back == [[plane EXCEPT !.phase = "ready"] EXCEPT !.run = n]
             free == [plane EXCEPT !.phase = "ready"]
             broken == [plane EXCEPT !.phase = "failed"]
  <2>1. n \in Nat /\ to \in Game BY <1>1 DEF Rows
  <2>2. Landed(q) = landed /\ [plane EXCEPT !.phase = "ready", !.run = @ + 1] = back
    BY DEF Landed
  <2> HIDE DEF n, to
  <2>3. landed \in Planes /\ back \in Planes BY <2>1 DEF Planes
  <2>4. free \in Planes /\ broken \in Planes BY DEF Planes
  <2>5. {"succeeded", "rolled", "refused", "broken"} \subseteq Terminal BY DEF Terminal
  <2> HIDE DEF landed, back, free, broken
  <2>6. CASE Claim(q)
    <3>1. plane' \in Planes BY <2>6 DEF Claim, Planes
    <3> QED BY <2>6, <3>1 DEF Claim
  <2>7. CASE Commit(q)
    <3>1. Settled(q, "succeeded", landed) BY <2>2, <2>7 DEF Commit
    <3> QED BY <2>3, <2>5, <3>1, SettledTyped DEF Settled
  <2>8. CASE RollBack(q)
    <3>1. Settled(q, "rolled", back) BY <2>2, <2>8 DEF RollBack
    <3> QED BY <2>3, <2>5, <3>1, SettledTyped DEF Settled
  <2>9. CASE Refuse(q)
    <3>1. Settled(q, "refused", free) BY <2>9 DEF Refuse, free
    <3> QED BY <2>4, <2>5, <3>1, SettledTyped DEF Settled
  <2>10. CASE Break(q)
    <3>1. Settled(q, "broken", broken) BY <2>10 DEF Break, broken
    <3> QED BY <2>4, <2>5, <3>1, SettledTyped DEF Settled
  <2>11. CASE Reject(q)
    <3>1. receipt' \in Rows BY <2>11 DEF Reject, Rows, Terminal
    <3> QED BY <2>11, <3>1 DEF Reject
  <2> QED BY <1>3, <2>6, <2>7, <2>8, <2>9, <2>10, <2>11
<1> QED BY <1>2, <1>3 DEF PlaneStep

LEMMA PlaneMovesKeeps ==
  ASSUME RotInv, PlaneMoves
  PROVE  RotInv'
<1>1. Typed BY TypesSplit DEF RotInv
<1>2. /\ plane' \in Planes /\ receipt' \in Rows /\ UNCHANGED <<st, stopFor, cornerLock, act>>
  BY <1>1, PlaneTyped DEF PlaneMoves, Typed, Planes
<1>3. /\ UNCHANGED <<ledger, mem, inbox, paused, due, rotLock, served>>
      /\ UNCHANGED <<accepted, cancelled, crashes, stops>>
  BY DEF PlaneMoves, Outside
<1>4. used' \in [Corner -> 0..Cool]
  <2>1. Cool \in 0..Cool BY RetroAssumption
  <2> QED BY <1>1, <2>1 DEF PlaneMoves, Typed
<1>5. Typed' BY <1>1, <1>2, <1>3, <1>4 DEF Typed, Planes
<1>6. SameBooks BY <1>3, BooksSame
<1> QED BY <1>2, <1>5, <1>6, OthersKeep

-----------------------------------------------------------------------------
(* A process goes or dies; the files stay as they are.                     *)

LEMMA ActOnly ==
  ASSUME RotInv, UNCHANGED <<ledger, mem, inbox, accepted, cancelled, served>>,
         st' = st, Typed', AtWork', Knows'
  PROVE  RotInv'
<1>1. SameBooks BY BooksSame
<1>2. TypeOK' BY TypesSplit
<1>3. RunReserved' BY DEF RotInv, RunReserved
<1> QED BY <1>1, <1>2, <1>3, BooksKept DEF RotInv

LEMMA StopManualKeeps ==
  ASSUME RotInv, StopManual
  PROVE  RotInv'
<1>1. Typed /\ stops + 1 \in 0..Stops
  BY TypesSplit, RotationAssumption DEF RotInv, Typed, StopManual
<1>2. st.req \in Req \cup {NoReq} BY <1>1 DEF Typed, Files
<1> DEFINE pc == IF rotLock # "none" /\ st.status = "starting" THEN "mark" ELSE "stop"
           o == [[Operator EXCEPT !.pc = pc] EXCEPT !.req = st.req]
<1>3. pc \in {"mark", "stop"} OBVIOUS
<1> HIDE DEF pc
<1>4. /\ o \in Procs /\ o.pc = pc /\ o.stop = Operator.stop
  BY <1>2, <1>3, ActFields DEF Procs, Pcs, HolderPcs, RotInv
<1>5. act' = [act EXCEPT !["operator"] = o]
  BY ActFields DEF StopManual, Operator, Actors, pc, RotInv
<1> HIDE DEF o
<1>6. act' \in [Actors -> Procs] /\ Holder' = Holder /\ Operator' = o
  BY <1>4, <1>5, OperatorBecomes DEF RotInv
<1>7. Operator.pc = "off" BY DEF StopManual, O, At, Operator
<1>8. /\ UNCHANGED <<plane, receipt, st, stopFor, cornerLock, ledger, mem, inbox, paused, due>>
      /\ UNCHANGED <<served, accepted, cancelled, used, crashes>>
      /\ stops' = stops + 1 /\ rotLock' \in {rotLock, "operator"}
  BY DEF StopManual, Plane, Outside
<1>9. Typed' BY <1>1, <1>6, <1>8 DEF Typed, Actors
<1>10. AtWork'
  <2>1. \A p \in Actors : Works(p)'
    BY <1>3, <1>4, <1>6, <1>7, <1>8
    DEF RotInv, AtWork, Works, Actors, Holder, Operator, WorkPcs, StartPcs, EndPcs
  <2>2. Begun' BY <1>8 DEF RotInv, AtWork, Begun
  <2>3. Stopping' BY <1>3, <1>4, <1>6 DEF RotInv, AtWork, Stopping
  <2> QED BY <2>1, <2>2, <2>3 DEF AtWork
<1>11. Knows' BY <1>6, <1>8 DEF RotInv, Knows, Agrees
<1> QED BY <1>8, <1>9, <1>10, <1>11, ActOnly

LEMMA WriteStopKeeps ==
  ASSUME RotInv, WriteStop
  PROVE  RotInv'
<1>1. Typed BY TypesSplit DEF RotInv
<1>2. act' = [act EXCEPT !["operator"] = Off] BY DEF WriteStop
<1>3. act' \in [Actors -> Procs] /\ Holder' = Holder /\ Operator' = Off
  BY <1>2, OffTyped, OperatorBecomes DEF RotInv
<1>4. Operator.pc = "mark" /\ stopFor' = Operator.req
  BY DEF WriteStop, O, At, Operator
<1>5. Operator.req \in Req \cup {NoReq} BY ActFields DEF RotInv, Procs
<1>6. /\ UNCHANGED <<plane, receipt, st, cornerLock, ledger, mem, inbox, paused, due, rotLock>>
      /\ UNCHANGED <<served, accepted, cancelled, used, crashes, stops>>
  BY DEF WriteStop, Plane, Outside, Ghosts
<1>7. Typed' BY <1>1, <1>3, <1>4, <1>5, <1>6 DEF Typed
<1>8. AtWork'
  <2>1. \A p \in Actors : Works(p)'
    BY <1>3, <1>4, <1>6, OffTyped
    DEF RotInv, AtWork, Works, Actors, Holder, Operator, WorkPcs, StartPcs, EndPcs
  <2>2. Begun' BY <1>6 DEF RotInv, AtWork, Begun
  <2>3. Stopping' BY <1>3, OffTyped DEF Stopping
  <2> QED BY <2>1, <2>2, <2>3 DEF AtWork
<1>9. Knows' BY <1>3, <1>6 DEF RotInv, Knows, Agrees
<1> QED BY <1>6, <1>7, <1>8, <1>9, ActOnly

(* Whoever dies lets go of both locks; what it knew is lost with it.       *)
LEMMA CrashKeeps ==
  ASSUME RotInv, NEW p \in Actors, Crash(p)
  PROVE  RotInv'
<1>1. Typed /\ crashes + 1 \in 0..Crashes
  BY TypesSplit, RotationAssumption DEF RotInv, Typed, Crash
<1>2. act' = [act EXCEPT ![p] = Off] BY DEF Crash
<1>3. act' \in [Actors -> Procs] BY <1>1, <1>2, OffTyped DEF Typed
<1>4. /\ UNCHANGED <<plane, receipt, st, stopFor, ledger, mem, inbox, paused, due>>
      /\ UNCHANGED <<served, accepted, cancelled, used, stops>>
      /\ crashes' = crashes + 1 /\ rotLock' \in {rotLock, "none"}
      /\ cornerLock' = IF cornerLock = p THEN "none" ELSE cornerLock
  BY DEF Crash, Plane, Outside
<1>5. Typed' BY <1>1, <1>3, <1>4 DEF Typed
<1>6. \A q \in Actors : act'[q] = IF q = p THEN Off ELSE act[q]
  BY <1>1, <1>2 DEF Typed
<1>7. AtWork'
  <2>1. \A q \in Actors : Works(q)'
    BY <1>4, <1>6, OffTyped
    DEF RotInv, AtWork, Works, Actors, WorkPcs, StartPcs, EndPcs
  <2>2. Begun' BY <1>4 DEF RotInv, AtWork, Begun
  <2>3. Stopping' BY <1>6, OffTyped DEF RotInv, AtWork, Stopping, Operator, Actors
  <2> QED BY <2>1, <2>2, <2>3 DEF AtWork
<1>8. Knows'
  BY <1>4, <1>6, OffTyped DEF RotInv, Knows, Agrees, Holder, Actors, ReservedPcs, RunPcs, HolderPcs
<1> QED BY <1>4, <1>5, <1>7, <1>8, ActOnly

-----------------------------------------------------------------------------
(* The run: what each step of whoever works on it does                     *)

(* The lock is held for as long as the place asks for it, and the file is  *)
(* changed by nobody else meanwhile.                                       *)
Locks(p, n) ==
  /\ \/ n.pc \in WorkPcs /\ Unlocked(p) /\ cornerLock' = p
     \/ n.pc \notin WorkPcs /\ cornerLock' = IF cornerLock = p THEN "none" ELSE cornerLock
  /\ n.pc \in StartPcs => st'.status = "starting"
  /\ n.pc \in EndPcs => st'.status = "restoring"

(* The file stays, goes on with its run, or takes the holder's request.    *)
FileStays  == st'.req = st.req /\ st'.status = st.status
FileGoesOn == st'.req = st.req /\ st.status \in BUSY /\ st'.status # "idle"
FileBegins == /\ Holder.pc = "enter" /\ st.status \in Ended
              /\ st'.status = "starting" /\ st'.req = Holder.req
Advances(p) == \/ FileStays
               \/ Unlocked(p) /\ FileGoesOn
               \/ Unlocked(p) /\ p = "holder" /\ FileBegins

Learns(n) == /\ Holder.pc \in RunPcs /\ n.pc \in RunPcs /\ n.req = Holder.req
             /\ n.pc = "play" => st'.status \notin {"idle", "starting"}
             /\ n.pc \in {"clear", "result"} /\ n.res = "completed" => st'.status \in Ended

OnlyStops(n) == /\ n.pc \in {"off"} \cup EndPcs /\ ~n.stop
                /\ \/ st'.status = st.status
                   \/ /\ st.status \in {"active", "restoring"}
                      /\ st'.status \notin {"idle", "starting"}

Leaves(p, n) == /\ n \in Procs /\ act' = [act EXCEPT ![p] = n] /\ plane' = plane
                /\ st' \in Files /\ receipt' \in Rows /\ stopFor' \in {stopFor, NoReq}

RunMoves(p, n) == /\ Leaves(p, n) /\ Locks(p, n) /\ Advances(p)
                  /\ p = "holder" => Learns(n)
                  /\ p = "operator" => OnlyStops(n)

LEMMA RunMovesKeeps ==
  ASSUME RotInv, NEW p \in Actors, NEW n, RunMoves(p, n), rotLock' \in {rotLock, "none"},
         UNCHANGED <<ledger, mem, Outside, served, Ghosts>>
  PROVE  RotInv'
<1>1. Typed /\ act \in [Actors -> Procs] BY TypesSplit DEF RotInv, Typed
<1>2. act' \in [Actors -> Procs] /\ \A q \in Actors : act'[q] = IF q = p THEN n ELSE act[q]
  BY <1>1 DEF RunMoves, Leaves
<1>3. cornerLock' \in Actors \cup {"none"} BY <1>1 DEF RunMoves, Locks, Typed
<1>4. /\ UNCHANGED <<plane, ledger, mem, inbox, paused, due, served>>
      /\ UNCHANGED <<accepted, cancelled, used, crashes, stops>>
  BY DEF RunMoves, Leaves, Outside, Ghosts
<1>5. st' \in Files /\ receipt' \in Rows /\ stopFor' \in {stopFor, NoReq}
  BY DEF RunMoves, Leaves
<1>6. Typed' BY <1>1, <1>2, <1>3, <1>4, <1>5 DEF Typed
<1>7. AtWork'
  <2>1. \A q \in Actors : Works(q)'
    <3> SUFFICES ASSUME NEW q \in Actors PROVE Works(q)'
      OBVIOUS
    <3>1. Works(q) /\ q \in {"holder", "operator"} /\ p \in {"holder", "operator"}
      BY DEF RotInv, AtWork, Actors
    <3>2. CASE q = p BY <1>2, <3>1, <3>2 DEF RunMoves, Locks, Works, WorkPcs
    <3>3. CASE q # p
      <4>1. act'[q] = act[q] BY <1>2, <3>3
      <4>2. (cornerLock' = q) <=> (cornerLock = q)
        BY <3>1, <3>3 DEF RunMoves, Locks, Unlocked
      <4>3. cornerLock = q => st'.status = st.status
        BY <3>1, <3>3 DEF RunMoves, Advances, FileStays, Unlocked
      <4> QED BY <3>1, <4>1, <4>2, <4>3 DEF Works, WorkPcs
    <3> QED BY <3>2, <3>3
  <2>2. Begun'
    <3>1. Holder.pc \in RunPcs => Holder.req \in Req
      BY DEF RotInv, Knows, ReservedPcs
    <3>2. FileBegins => st'.req \in Req BY <3>1 DEF FileBegins, RunPcs
    <3> QED
      BY <3>2 DEF RotInv, AtWork, Begun, RunMoves, Advances, FileStays, FileGoesOn, BUSY
  <2>3. Stopping'
    BY <1>2 DEF RotInv, AtWork, Stopping, RunMoves, OnlyStops, Operator, Actors
  <2> QED BY <2>1, <2>2, <2>3 DEF AtWork
<1>8. Knows'
  <2>1. CASE p = "holder"
    <3>1. Holder' = n BY <1>2, <2>1 DEF Holder, Actors
    <3> QED
      BY <1>4, <2>1, <3>1
      DEF RotInv, Knows, Agrees, RunMoves, Learns, RunPcs, HolderPcs, ReservedPcs
  <2>2. CASE p = "operator"
    <3>1. Holder' = Holder BY <1>2, <2>2 DEF Holder, Actors
    <3> QED BY <1>4, <2>2, <3>1 DEF RotInv, Knows, Agrees, RunMoves, OnlyStops, Ended
  <2> QED BY <2>1, <2>2 DEF Actors
<1>9. SameBooks BY <1>4, BooksSame
<1>10. TypeOK' BY <1>6, TypesSplit
<1>11. RunReserved'
  <2>1. ledger'.pending = ledger.pending /\ ledger'.rel = ledger.rel BY <1>4
  <2>2. CASE FileStays BY <2>1, <2>2 DEF FileStays, RotInv, RunReserved
  <2>3. CASE FileGoesOn BY <2>1, <2>3 DEF FileGoesOn, RotInv, RunReserved
  <2>4. CASE FileBegins
    <3>1. Holder.req = ledger.pending.req
      BY <2>4 DEF FileBegins, RotInv, Knows, Agrees, RunPcs
    <3> QED BY <2>1, <2>4, <3>1 DEF FileBegins, RunReserved
  <2> QED BY <2>2, <2>3, <2>4 DEF RunMoves, Advances
<1> QED BY <1>7, <1>8, <1>9, <1>10, <1>11, BooksKept DEF RotInv

(* Where the two are that can take a step of a run.                        *)
LEMMA RunPlaces ==
  ASSUME RotInv, NEW p \in Actors, act[p].pc \in RunPcs \cup {"stop"}
  PROVE  /\ p = "holder" => Holder.pc \in RunPcs /\ Holder = act[p]
         /\ p = "operator" => Operator.pc \in {"stop"} \cup EndPcs /\ Operator = act[p]
         /\ act[p].pc \in WorkPcs => cornerLock = p
         /\ act[p].pc \notin WorkPcs => cornerLock # p
         /\ act[p].pc \in StartPcs => st.status = "starting"
         /\ act[p].pc \in EndPcs => st.status = "restoring"
BY DEF RotInv, AtWork, Works, Stopping, Knows, Holder, Operator, Actors, RunPcs, HolderPcs

LEMMA GoesTo ==
  ASSUME RotInv, NEW p \in Actors, NEW pc \in Pcs, Goes(p, pc)
  PROVE  \E n \in Procs : /\ act' = [act EXCEPT ![p] = n] /\ n.pc = pc
                          /\ n.req = act[p].req /\ n.res = act[p].res /\ n.stop = act[p].stop
<1> DEFINE n == [act[p] EXCEPT !.pc = pc]
<1>1. act[p] \in Procs BY ActFields DEF RotInv
<1>2. /\ n \in Procs /\ n.pc = pc
      /\ n.req = act[p].req /\ n.res = act[p].res /\ n.stop = act[p].stop
  BY <1>1 DEF Procs
<1>3. act' = [act EXCEPT ![p] = n] BY DEF Goes
<1> HIDE DEF n
<1> QED BY <1>2, <1>3

LEMMA ReturnsTo ==
  ASSUME RotInv, NEW p \in Actors, NEW res \in Outcomes, Returns(p, res)
  PROVE  \E n \in Procs :
           /\ act' = [act EXCEPT ![p] = n]
           /\ p = "operator" => n = Off
           /\ p = "holder" => n.pc = "result" /\ n.res = res /\ n.req = act[p].req
<1> DEFINE m == [[act[p] EXCEPT !.pc = "result"] EXCEPT !.res = res]
           n == IF p = "operator" THEN Off ELSE m
<1>1. act \in [Actors -> Procs] /\ act[p] \in Procs BY ActFields DEF RotInv
<1>2. m \in Procs /\ m.pc = "result" /\ m.res = res /\ m.req = act[p].req
  BY <1>1 DEF Procs, Pcs, RunPcs
<1>3. act' = [act EXCEPT ![p] = n] BY <1>1 DEF Returns
<1> HIDE DEF m
<1>4. n \in Procs /\ (p = "operator" => n = Off) /\ (p = "holder" => n = m)
  BY <1>2, OffTyped
<1> HIDE DEF n
<1> QED BY <1>2, <1>3, <1>4

(* What is there of the files before the step, and what it leaves.         *)
RunWrites == plane' = plane /\ st' \in Files /\ receipt' \in Rows /\ stopFor' \in {stopFor, NoReq}
OpEnds   == \/ st'.status = st.status
            \/ st.status \in {"active", "restoring"} /\ st'.status \notin {"idle", "starting"}

LEMMA Returning ==
  ASSUME RotInv, NEW p \in Actors, act[p].pc \in RunPcs \cup {"stop"},
         NEW res \in Outcomes, Returns(p, res), RunWrites, Advances(p),
         p = "holder" /\ res = "completed" => st'.status \in Ended,
         p = "operator" => OpEnds
  PROVE  \E n : RunMoves(p, n)
<1>1. PICK n \in Procs : /\ act' = [act EXCEPT ![p] = n]
                         /\ p = "operator" => n = Off
                         /\ p = "holder" => n.pc = "result" /\ n.res = res /\ n.req = act[p].req
  BY ReturnsTo
<1>2. n.pc \notin WorkPcs
  BY <1>1, OffTyped DEF Actors, WorkPcs, StartPcs, EndPcs
<1>3. Locks(p, n) BY <1>2 DEF Locks, Returns, WorkPcs
<1>4. p = "holder" => Learns(n) BY <1>1, RunPlaces DEF Learns, RunPcs
<1>5. p = "operator" => OnlyStops(n) BY <1>1, OffTyped DEF OnlyStops, OpEnds
<1> QED BY <1>1, <1>3, <1>4, <1>5 DEF RunMoves, Leaves, RunWrites

LEMMA Going ==
  ASSUME RotInv, NEW p \in Actors, act[p].pc \in RunPcs \cup {"stop"}, NEW pc \in RunPcs,
         NEW n \in Procs, act' = [act EXCEPT ![p] = n], n.pc = pc, n.req = act[p].req,
         RunWrites, Advances(p),
         pc \in WorkPcs => Unlocked(p) /\ cornerLock' = p,
         pc \notin WorkPcs => cornerLock' = IF cornerLock = p THEN "none" ELSE cornerLock,
         pc \in StartPcs => st'.status = "starting", pc \in EndPcs => st'.status = "restoring",
         pc = "play" => st'.status \notin {"idle", "starting"},
         pc \in {"clear", "result"} => st'.status \in Ended,
         p = "operator" => pc \in EndPcs /\ ~n.stop /\ OpEnds
  PROVE  \E k : RunMoves(p, k)
<1>1. Locks(p, n) BY DEF Locks
<1>2. p = "holder" => Learns(n) BY RunPlaces DEF Learns
<1>3. p = "operator" => OnlyStops(n) BY DEF OnlyStops, OpEnds
<1> QED BY <1>1, <1>2, <1>3 DEF RunMoves, Leaves, RunWrites

(* The steps that leave the corner's file alone                            *)
LEMMA Untouched ==
  ASSUME RotInv, NEW p \in Actors, UNCHANGED <<Plane, st>>, stopFor' \in {stopFor, NoReq}
  PROVE  RunWrites /\ Advances(p) /\ OpEnds
<1>1. Typed BY TypesSplit DEF RotInv
<1> QED BY <1>1 DEF RunWrites, Advances, FileStays, OpEnds, Plane, Typed

LEMMA Answers ==
  /\ {"none", "completed", "interrupted", "queued", "failed", "restoring", "active", "raise"}
       \subseteq Outcomes
  /\ \A p : Entered(p) => act[p].pc = "enter" /\ Unlocked(p)
  /\ "enter" \in RunPcs
BY DEF Outcomes, Entered, At, RunPcs

LEMMA ReplaySteps ==
  ASSUME RotInv, NEW p \in Actors,
         ReplayCompleted(p) \/ ReplayStart(p) \/ ReplayRestore(p) \/ ReplayActive(p) \/ Raises(p)
  PROVE  \E n : RunMoves(p, n)
<1>1. act[p].pc = "enter" /\ act[p].pc \in RunPcs
  BY Answers
  DEF ReplayCompleted, ReplayStart, ReplayRestore, ReplayActive, Replays, Raises, At
<1>2. p = "holder" /\ cornerLock # p
  BY <1>1, RunPlaces DEF Actors, EndPcs, WorkPcs, StartPcs
<1>3. RunWrites /\ Advances(p) /\ OpEnds
  BY Untouched DEF ReplayCompleted, ReplayStart, ReplayRestore, ReplayActive, Raises
<1>4. CASE ReplayCompleted(p)
  <2>1. st'.status = "completed" BY <1>4 DEF ReplayCompleted, Replays
  <2> QED BY <1>1, <1>2, <1>3, <1>4, <2>1, Answers, Returning DEF ReplayCompleted, Ended
<1>5. CASE Raises(p)
  BY <1>1, <1>2, <1>3, <1>5, Answers, Returning DEF Raises
<1>6. ASSUME NEW pc \in {"resubmit", "restore", "play"}, Goes(p, pc),
             pc # "play" => Unlocked(p) /\ cornerLock' = p,
             pc = "play" => UNCHANGED cornerLock,
             pc = "resubmit" => st'.status = "starting",
             pc = "restore" => st'.status = "restoring",
             pc = "play" => st'.status = "active"
      PROVE  \E n : RunMoves(p, n)
  <2>1. pc \in RunPcs /\ pc \in Pcs BY DEF RunPcs, Pcs
  <2>2. PICK n \in Procs : act' = [act EXCEPT ![p] = n] /\ n.pc = pc /\ n.req = act[p].req
    BY <1>6, <2>1, GoesTo
  <2> QED BY <1>1, <1>2, <1>3, <1>6, <2>1, <2>2, Going DEF WorkPcs, StartPcs, EndPcs
<1>7. CASE ReplayStart(p) BY <1>6, <1>7, Answers DEF ReplayStart, Replays
<1>8. CASE ReplayRestore(p) BY <1>6, <1>8, Answers DEF ReplayRestore, Replays
<1>9. CASE ReplayActive(p) BY <1>6, <1>9 DEF ReplayActive, Replays
<1> QED BY <1>4, <1>5, <1>7, <1>8, <1>9

(* What the run's steps write into the corner's file                       *)
LEMMA FileWrites ==
  ASSUME RotInv
  PROVE  /\ \A c \in Terminal \cup {"none"} :
              Fail(c) => st' \in Files /\ st'.status = "failed" /\ st'.req = st.req
         /\ Interrupt => st' \in Files /\ st'.status = "interrupted" /\ st'.req = st.req
         /\ \A s \in BUSY \cup Ended, sw \in Sw \cup {NoSw}, c \in Terminal \cup {"none"} :
              \/ st' = [st EXCEPT !.status = s, !.sw = sw]
              \/ st' = [st EXCEPT !.status = s, !.sw = sw, !.code = c, !.age = Cool]
              \/ st' = [st EXCEPT !.status = s, !.sw = sw, !.run = plane.run, !.late = FALSE,
                                  !.age = Cool]
              => st' \in Files /\ st'.status = s /\ st'.req = st.req
<1>1. st \in Files /\ plane.run \in Nat /\ Cool \in 0..Cool
  BY TypesSplit, RetroAssumption DEF RotInv, Typed
<1>2. ASSUME NEW c \in Terminal \cup {"none"}, Fail(c)
      PROVE  st' \in Files /\ st'.status = "failed" /\ st'.req = st.req
  BY <1>1, <1>2 DEF Fail, Files, BUSY
<1>3. ASSUME Interrupt
      PROVE  st' \in Files /\ st'.status = "interrupted" /\ st'.req = st.req
  BY <1>1, <1>3 DEF Interrupt, Files, Ended
<1>4. ASSUME NEW s \in BUSY \cup Ended, NEW sw \in Sw \cup {NoSw},
             NEW c \in Terminal \cup {"none"},
             \/ st' = [st EXCEPT !.status = s, !.sw = sw]
             \/ st' = [st EXCEPT !.status = s, !.sw = sw, !.code = c, !.age = Cool]
             \/ st' = [st EXCEPT !.status = s, !.sw = sw, !.run = plane.run, !.late = FALSE,
                                 !.age = Cool]
      PROVE  st' \in Files /\ st'.status = s /\ st'.req = st.req
  <2> DEFINE run == plane.run
  <2>1. run \in Nat BY <1>1
  <2> HIDE DEF run
  <2>2. CASE st' = [st EXCEPT !.status = s, !.sw = sw]
    BY <1>1, <2>2 DEF Files
  <2>3. CASE st' = [st EXCEPT !.status = s, !.sw = sw, !.code = c, !.age = Cool]
    BY <1>1, <2>3 DEF Files
  <2>4. CASE st' = [st EXCEPT !.status = s, !.sw = sw, !.run = run, !.late = FALSE,
                              !.age = Cool]
    BY <1>1, <2>1, <2>4 DEF Files
  <2> QED BY <1>4, <2>2, <2>3, <2>4 DEF run
<1> QED BY <1>2, <1>3, <1>4

LEMMA SwitchNames ==
  /\ NoSw \in Sw \cup {NoSw}
  /\ \A r \in Req : <<r, Start>> \in Sw /\ <<r, Restore>> \in Sw
<1>1. Start \in Ways /\ Restore \in Ways BY RetroAssumption DEF Ways, Start, Restore
<1> QED BY <1>1 DEF Sw

LEMMA BeginMoves ==
  ASSUME RotInv, NEW p \in Actors, Begin(p)
  PROVE  \E n : RunMoves(p, n)
<1>1. act[p].pc = "enter" /\ act[p].pc \in RunPcs /\ Unlocked(p)
  BY Answers DEF Begin
<1>2. p = "holder" /\ Holder = act[p] BY <1>1, RunPlaces DEF Actors, EndPcs
<1>3. act[p].req \in Req BY <1>1, <1>2 DEF RotInv, Knows, ReservedPcs
<1>4. Typed /\ act[p] \in Procs BY TypesSplit, ActFields DEF RotInv
<1> DEFINE r == act[p].req
           c == act[p].corner
           sw == <<r, Start>>
<1>5. /\ c \in Game /\ sw \in Sw /\ plane.game \in Game /\ Cool \in 0..Cool /\ 0 \in 0..Tries
      /\ st \in Files
  <2>1. Cool \in 0..Cool /\ 0 \in 0..Tries BY RetroAssumption
  <2>2. sw \in Sw BY <1>3, SwitchNames
  <2>3. c \in Game BY <1>4 DEF Procs
  <2>4. plane.game \in Game /\ st \in Files BY <1>4 DEF Typed
  <2> QED BY <2>1, <2>2, <2>3, <2>4
<1>6. st' = [st EXCEPT !.status = "starting", !.corner = c, !.req = r,
                      !.prev = plane.game, !.sw = sw, !.run = 0, !.code = "none",
                      !.never = FALSE, !.late = FALSE, !.age = Cool, !.retry = 0]
  BY DEF Begin
<1> HIDE DEF c, sw
<1>7. st' \in Files /\ st'.status = "starting" /\ st'.req = r
  BY <1>3, <1>5, <1>6 DEF Files, BUSY
<1>8. RunWrites BY <1>4, <1>7 DEF Begin, RunWrites, Typed, Plane
<1>9. Advances(p) BY <1>1, <1>2, <1>7 DEF Begin, Advances, FileBegins
<1>10. "submit" \in Pcs /\ "submit" \in RunPcs BY DEF Pcs, RunPcs
<1>11. PICK n \in Procs : act' = [act EXCEPT ![p] = n] /\ n.pc = "submit" /\ n.req = act[p].req
  BY <1>10, GoesTo DEF Begin
<1>12. cornerLock' = p BY DEF Begin
<1> QED
  BY <1>1, <1>2, <1>7, <1>8, <1>9, <1>10, <1>11, <1>12, Going DEF WorkPcs, StartPcs, EndPcs

LEMMA LateMoves ==
  ASSUME RotInv, NEW p \in Actors,
         LateLanded(p) \/ LateEnded(p) \/ LateCancelled(p) \/ LateUnknown(p)
  PROVE  \E n : RunMoves(p, n)
<1>1. /\ act[p].pc = "enter" /\ act[p].pc \in RunPcs /\ Unlocked(p)
      /\ st.status = "starting"
  BY Answers DEF LateLanded, LateEnded, LateCancelled, LateUnknown, Late, Replays
<1>2. p = "holder" /\ cornerLock # p
  BY <1>1, RunPlaces DEF Actors, EndPcs, WorkPcs, StartPcs
<1>3. Typed BY TypesSplit DEF RotInv
<1>4. CASE LateLanded(p)
  <2>1. st' \in Files /\ st'.status = "active" /\ st'.req = st.req
    BY <1>4, FileWrites, SwitchNames DEF LateLanded, BUSY
  <2>2. RunWrites BY <1>3, <1>4, <2>1 DEF LateLanded, RunWrites, Typed, Plane
  <2>3. Advances(p) BY <1>1, <2>1 DEF Advances, FileGoesOn, BUSY
  <2>4. "play" \in Pcs /\ "play" \in RunPcs BY DEF Pcs, RunPcs
  <2>5. PICK n \in Procs : act' = [act EXCEPT ![p] = n] /\ n.pc = "play" /\ n.req = act[p].req
    BY <1>4, <2>4, GoesTo DEF LateLanded
  <2>6. cornerLock' = cornerLock BY <1>4 DEF LateLanded
  <2> QED
    BY <1>1, <1>2, <2>1, <2>2, <2>3, <2>4, <2>5, <2>6, Going DEF WorkPcs, StartPcs, EndPcs
<1>5. CASE LateEnded(p) \/ LateCancelled(p)
  <2>1. Interrupt /\ Returns(p, "interrupted") /\ plane' = plane /\ stopFor' = stopFor
    BY <1>5 DEF LateEnded, LateCancelled, Plane
  <2>2. st' \in Files /\ st'.status = "interrupted" /\ st'.req = st.req BY <2>1, FileWrites
  <2>3. receipt' \in Rows
    <3>1. CASE LateEnded(p) BY <1>3, <3>1 DEF LateEnded, Plane, Typed
    <3>2. CASE LateCancelled(p) BY <1>3, <3>2 DEF LateCancelled, Typed, Rows, Terminal
    <3> QED BY <1>5, <3>1, <3>2
  <2>4. RunWrites BY <1>3, <2>1, <2>2, <2>3 DEF RunWrites, Typed
  <2>5. Advances(p) BY <1>1, <2>2 DEF Advances, FileGoesOn, BUSY
  <2> QED BY <1>1, <1>2, <2>1, <2>4, <2>5, Answers, Returning
<1>6. CASE LateUnknown(p)
  <2>1. RunWrites /\ Advances(p) BY <1>6, Untouched DEF LateUnknown
  <2> QED BY <1>1, <1>2, <1>6, <2>1, Answers, Returning DEF LateUnknown
<1> QED BY <1>4, <1>5, <1>6

(* The answer of the switch, of a start or of the way back                 *)
LEMMA SubmitMoves ==
  ASSUME RotInv, NEW p \in Actors, SubmitStart(p) \/ SubmitRestore(p)
  PROVE  \E n : RunMoves(p, n)
<1>1. act[p].pc \in {"submit", "resubmit", "restore"} /\ act[p].pc \in RunPcs /\ act[p].pc \in WorkPcs
  BY DEF SubmitStart, SubmitRestore, At, RunPcs, WorkPcs, StartPcs, EndPcs
<1>2. Typed /\ act[p] \in Procs BY TypesSplit, ActFields DEF RotInv
<1>3. cornerLock = p /\ Unlocked(p) BY <1>1, RunPlaces DEF Unlocked
<1>4. PICK to \in Game : Enqueue(st.sw, to) BY <1>2 DEF SubmitStart, SubmitRestore, Typed, Files
<1>5. receipt' \in Rows BY <1>2, <1>4, EnqueueTyped DEF Typed
<1>6. /\ RunWrites /\ Advances(p) /\ OpEnds /\ st' = st /\ cornerLock' = cornerLock
  BY <1>2, <1>5
  DEF SubmitStart, SubmitRestore, RunWrites, Advances, FileStays, OpEnds, Typed
<1>7. PICK pc \in {"starting", "resuming", "restoring"} :
        /\ Goes(p, pc)
        /\ act[p].pc \in StartPcs => pc \in StartPcs
        /\ act[p].pc \in EndPcs => pc \in EndPcs
  BY <1>1 DEF SubmitStart, SubmitRestore, At, StartPcs, EndPcs
<1>8. pc \in Pcs /\ pc \in RunPcs /\ pc \in WorkPcs
  BY DEF Pcs, RunPcs, WorkPcs, StartPcs, EndPcs
<1>9. PICK n \in Procs : /\ act' = [act EXCEPT ![p] = n] /\ n.pc = pc
                         /\ n.req = act[p].req /\ n.stop = act[p].stop
  BY <1>7, <1>8, GoesTo
<1>10. pc \in StartPcs => act[p].pc \in StartPcs
  BY <1>1, <1>7 DEF StartPcs, EndPcs
<1>11. /\ pc \in StartPcs => st'.status = "starting"
       /\ pc \in EndPcs => st'.status = "restoring"
  BY <1>1, <1>6, <1>7, <1>10, RunPlaces DEF StartPcs, EndPcs
<1>12. p = "operator" => pc \in EndPcs /\ ~n.stop
  BY <1>1, <1>7, <1>9, RunPlaces DEF RotInv, AtWork, Stopping, EndPcs
<1>13. pc # "play" /\ pc \notin {"clear", "result"} OBVIOUS
<1> HIDE DEF RunWrites, Advances, OpEnds
<1> QED BY <1>1, <1>3, <1>6, <1>8, <1>9, <1>11, <1>12, <1>13, Going

LEMMA AnswerMoves ==
  ASSUME RotInv, NEW p \in Actors,
         StillQueued(p) \/ SwitchFails(p) \/ GoOnAir(p) \/ BindFails(p)
  PROVE  \E n : RunMoves(p, n)
<1>1. /\ act[p].pc \in {"starting", "resuming", "restoring"}
      /\ act[p].pc \in RunPcs /\ act[p].pc \in WorkPcs
  BY DEF StillQueued, SwitchFails, GoOnAir, BindFails, Awaits, Starts, RunPcs, WorkPcs,
         StartPcs, EndPcs
<1>2. Typed BY TypesSplit DEF RotInv
<1>3. cornerLock = p /\ Unlocked(p) BY <1>1, RunPlaces DEF Unlocked
<1>4. st.status \in BUSY BY <1>1, RunPlaces DEF StartPcs, EndPcs, BUSY
<1>5. p = "operator" => st.status = "restoring" BY <1>1, RunPlaces DEF EndPcs
<1>6. CASE StillQueued(p)
  <2>1. RunWrites /\ Advances(p) /\ OpEnds BY <1>6, Untouched DEF StillQueued
  <2> QED BY <1>1, <1>6, <2>1, Answers, Returning DEF StillQueued
<1>7. ASSUME NEW c \in Terminal \cup {"none"}, Fail(c), Returns(p, "raise"),
             UNCHANGED <<Plane, stopFor>>
      PROVE  \E n : RunMoves(p, n)
  <2>1. st' \in Files /\ st'.status = "failed" /\ st'.req = st.req BY <1>7, FileWrites
  <2>2. RunWrites BY <1>2, <1>7, <2>1 DEF RunWrites, Typed, Plane
  <2>3. Advances(p) BY <1>3, <1>4, <2>1 DEF Advances, FileGoesOn
  <2>4. p = "operator" => OpEnds BY <1>5, <2>1 DEF OpEnds
  <2> QED BY <1>1, <1>7, <2>2, <2>3, <2>4, Answers, Returning
<1>8. CASE SwitchFails(p) BY <1>7, <1>8 DEF SwitchFails
<1>9. CASE GoOnAir(p)
  <2>1. act[p].pc \in StartPcs BY <1>9 DEF GoOnAir, Starts, StartPcs
  <2>2. p = "holder" BY <1>1, <2>1, RunPlaces DEF Actors, StartPcs, EndPcs
  <2>3. st' \in Files /\ st'.status = "active" /\ st'.req = st.req
    BY <1>9, FileWrites, SwitchNames DEF GoOnAir, BUSY
  <2>4. RunWrites BY <1>2, <1>9, <2>3 DEF GoOnAir, RunWrites, Typed, Plane
  <2>5. Advances(p) BY <1>3, <1>4, <2>3 DEF Advances, FileGoesOn
  <2>6. "play" \in Pcs /\ "play" \in RunPcs BY DEF Pcs, RunPcs
  <2>7. PICK n \in Procs : act' = [act EXCEPT ![p] = n] /\ n.pc = "play" /\ n.req = act[p].req
    BY <1>9, <2>6, GoesTo DEF GoOnAir
  <2>8. cornerLock' = "none" BY <1>9 DEF GoOnAir
  <2> QED
    BY <1>1, <1>3, <2>2, <2>3, <2>4, <2>5, <2>6, <2>7, <2>8, Going DEF WorkPcs, StartPcs, EndPcs
<1>10. CASE BindFails(p)
  <2>1. CASE Fail("none") BY <1>7, <1>10, <2>1 DEF BindFails
  <2>2. CASE UNCHANGED st
    <3>1. RunWrites /\ Advances(p) /\ OpEnds BY <1>10, <2>2, Untouched DEF BindFails
    <3> QED BY <1>1, <1>10, <3>1, Answers, Returning DEF BindFails
  <2> QED BY <1>10, <2>1, <2>2 DEF BindFails
<1> QED BY <1>6, <1>8, <1>9, <1>10

(* A process that goes on and notes something beside its place.            *)
PutStop(p, pc, x)     == [act EXCEPT ![p].pc = pc, ![p].stop = x]
PutResult(p, pc, res) == [act EXCEPT ![p].pc = pc, ![p].res = res]

LEMMA NotesStop ==
  ASSUME RotInv, NEW p \in Actors, NEW pc \in Pcs, NEW x \in BOOLEAN,
         act' = PutStop(p, pc, x)
  PROVE  \E n \in Procs : /\ act' = [act EXCEPT ![p] = n] /\ n.pc = pc
                          /\ n.req = act[p].req /\ n.stop = x
<1>1. act \in [Actors -> Procs] /\ act[p] \in Procs BY ActFields DEF RotInv
<1> DEFINE n == [[act[p] EXCEPT !.pc = pc] EXCEPT !.stop = x]
<1>2. n \in Procs /\ n.pc = pc /\ n.req = act[p].req /\ n.stop = x BY <1>1 DEF Procs
<1>3. act' = [act EXCEPT ![p] = n] BY <1>1 DEF PutStop
<1> HIDE DEF n
<1> QED BY <1>2, <1>3

LEMMA NotesResult ==
  ASSUME RotInv, NEW p \in Actors, NEW pc \in Pcs, NEW res \in Outcomes,
         act' = PutResult(p, pc, res)
  PROVE  \E n \in Procs : /\ act' = [act EXCEPT ![p] = n] /\ n.pc = pc
                          /\ n.req = act[p].req /\ n.res = res
<1>1. act \in [Actors -> Procs] /\ act[p] \in Procs BY ActFields DEF RotInv
<1> DEFINE n == [[act[p] EXCEPT !.pc = pc] EXCEPT !.res = res]
<1>2. n \in Procs /\ n.pc = pc /\ n.req = act[p].req /\ n.res = res BY <1>1 DEF Procs
<1>3. act' = [act EXCEPT ![p] = n] BY <1>1 DEF PutResult
<1> HIDE DEF n
<1> QED BY <1>2, <1>3

(* The way to the end of a run, of whoever brings it about                 *)
LEMMA FinishMoves ==
  ASSUME RotInv, NEW p \in Actors, Finish(p)
  PROVE  \E n : RunMoves(p, n)
<1>1. /\ act[p].pc \in {"play", "stop"} /\ act[p].pc \in RunPcs \cup {"stop"}
      /\ st.status \in {"active", "restoring"} /\ Unlocked(p)
  BY DEF Finish, At, RunPcs
<1>2. Typed /\ st.req \in Req
  BY <1>1, TypesSplit DEF RotInv, AtWork, Begun
<1> DEFINE sw == IF st.sw = NoSw THEN <<st.req, Restore>> ELSE st.sw
           x == At(p, "play") /\ Requested
<1>3. sw \in Sw \cup {NoSw} BY <1>2, SwitchNames DEF Typed, Files
<1>4. st' = [st EXCEPT !.status = "restoring", !.sw = sw]
  BY <1>2 DEF Finish, Typed, Files
<1>5. x \in BOOLEAN /\ (p = "operator" => ~x)
  BY <1>1, RunPlaces DEF At, EndPcs
<1>6. act' = PutStop(p, "restore", x) BY DEF Finish, PutStop
<1> HIDE DEF sw, x
<1>7. st' \in Files /\ st'.status = "restoring" /\ st'.req = st.req
  BY <1>3, <1>4, FileWrites DEF BUSY
<1>8. "restore" \in Pcs /\ "restore" \in RunPcs BY DEF Pcs, RunPcs
<1>9. PICK n \in Procs : /\ act' = [act EXCEPT ![p] = n] /\ n.pc = "restore"
                         /\ n.req = act[p].req /\ n.stop = x
  BY <1>5, <1>6, <1>8, NotesStop
<1>10. RunWrites BY <1>2, <1>7 DEF Finish, RunWrites, Typed, Plane
<1>11. Advances(p) BY <1>1, <1>7 DEF Advances, FileGoesOn, BUSY
<1>12. OpEnds BY <1>1, <1>7 DEF OpEnds
<1>13. cornerLock' = p BY DEF Finish
<1>14. "restore" \in EndPcs /\ "restore" \notin StartPcs /\ "restore" \in WorkPcs
  BY DEF WorkPcs, StartPcs, EndPcs
<1> QED
  BY <1>1, <1>5, <1>7, <1>8, <1>9, <1>10, <1>11, <1>12, <1>13, <1>14, Going

LEMMA OverMoves ==
  ASSUME RotInv, NEW p \in Actors,
         FinishRaises(p) \/ PlayOver(p) \/ NothingToStop(p) \/ ClearStop(p)
  PROVE  \E n : RunMoves(p, n)
<1>1. act[p].pc \in {"play", "stop", "clear"} /\ act[p].pc \in RunPcs \cup {"stop"}
  BY DEF FinishRaises, PlayOver, NothingToStop, ClearStop, At, RunPcs
<1>2. /\ act[p].pc \notin WorkPcs /\ cornerLock # p
      /\ act[p].pc # "stop" => p = "holder" /\ Holder = act[p]
      /\ act[p].pc = "stop" => p = "operator"
  BY <1>1, RunPlaces DEF Actors, EndPcs, StartPcs, WorkPcs, RunPcs
<1>3. Typed /\ act[p] \in Procs BY TypesSplit, ActFields DEF RotInv
<1>4. RunWrites /\ Advances(p) /\ OpEnds
  BY Untouched DEF FinishRaises, PlayOver, NothingToStop, ClearStop
<1>5. CASE FinishRaises(p) BY <1>1, <1>4, <1>5, Answers, Returning DEF FinishRaises
<1>6. CASE PlayOver(p)
  <2>1. act[p].pc = "play" /\ p = "holder" /\ Holder.pc = "play" /\ UNCHANGED st
    BY <1>2, <1>6 DEF PlayOver, At
  <2>2. st.status \in {"failed", "restoring", "completed", "interrupted"}
    BY <1>3, <1>6, <2>1 DEF PlayOver, RotInv, Knows, Typed, Files, BUSY, Ended
  <2>3. st.status \in Outcomes BY <2>2, Answers
  <2>4. CASE Returns(p, st.status)
    BY <1>1, <1>4, <2>1, <2>3, <2>4, Returning DEF Ended
  <2>5. CASE /\ st.status \in {"completed", "interrupted"} /\ UNCHANGED cornerLock
             /\ act' = PutResult(p, "clear", st.status)
    <3>1. "clear" \in Pcs /\ "clear" \in RunPcs BY DEF Pcs, RunPcs
    <3>2. PICK n \in Procs : act' = [act EXCEPT ![p] = n] /\ n.pc = "clear" /\ n.req = act[p].req
      <4>1. PICK s \in Outcomes : act' = PutResult(p, "clear", s) BY <2>3, <2>5
      <4> QED BY <3>1, <4>1, NotesResult
    <3>3. st'.status \in Ended BY <2>1, <2>5 DEF Ended
    <3>4. "clear" \notin WorkPcs /\ "clear" \notin StartPcs /\ "clear" \notin EndPcs
      BY DEF WorkPcs, StartPcs, EndPcs
    <3> QED BY <1>1, <1>2, <1>4, <2>1, <2>5, <3>1, <3>2, <3>3, <3>4, Going
  <2> QED BY <1>6, <2>4, <2>5 DEF PlayOver, PutResult
<1>7. CASE NothingToStop(p)
  <2>1. act[p].pc = "stop" /\ p = "operator" BY <1>2, <1>7 DEF NothingToStop, At
  <2>2. Returns(p, "none") BY <1>7, <2>1 DEF NothingToStop, Returns
  <2> QED BY <1>1, <1>4, <2>1, <2>2, Answers, Returning
<1>8. CASE ClearStop(p)
  <2>1. act[p].pc = "clear" /\ p = "holder" /\ Holder = act[p] /\ UNCHANGED st
    BY <1>2, <1>8 DEF ClearStop, At
  <2>2. act[p].res = "completed" => st'.status \in Ended
    BY <2>1 DEF RotInv, Knows
  <2>3. act[p].res \in Outcomes /\ Returns(p, act[p].res)
    BY <1>3, <1>8 DEF ClearStop, Procs
  <2> QED BY <1>1, <1>4, <2>1, <2>2, <2>3, Returning
<1> QED BY <1>5, <1>6, <1>7, <1>8

LEMMA CompleteMoves ==
  ASSUME RotInv, NEW p \in Actors, Complete(p)
  PROVE  \E n : RunMoves(p, n)
<1>1. /\ act[p].pc = "restoring" /\ act[p].pc \in RunPcs
      /\ act[p].pc \in WorkPcs /\ act[p].pc \in EndPcs
  BY DEF Complete, At, RunPcs, WorkPcs, EndPcs
<1>2. Typed BY TypesSplit DEF RotInv
<1>3. cornerLock = p /\ Unlocked(p) /\ st.status = "restoring" BY <1>1, RunPlaces DEF Unlocked
<1>4. st' \in Files /\ st'.status = "completed" /\ st'.req = st.req
  BY FileWrites, SwitchNames DEF Complete, Ended
<1>5. RunWrites BY <1>2, <1>4 DEF Complete, RunWrites, Typed, Plane
<1>6. Advances(p) BY <1>3, <1>4 DEF Advances, FileGoesOn, BUSY
<1>7. OpEnds /\ st'.status \in Ended BY <1>3, <1>4 DEF OpEnds, Ended
<1>8. CASE act[p].stop
  <2>1. p = "holder"
    BY <1>1, <1>8, RunPlaces DEF RotInv, AtWork, Stopping, Actors
  <2>2. "clear" \in Pcs /\ "clear" \in RunPcs BY DEF Pcs, RunPcs
  <2>3. act' = PutResult(p, "clear", "completed") /\ cornerLock' = "none"
    BY <1>8 DEF Complete, PutResult
  <2>4. PICK n \in Procs : act' = [act EXCEPT ![p] = n] /\ n.pc = "clear" /\ n.req = act[p].req
    BY <2>2, <2>3, NotesResult, Answers
  <2>5. "clear" \notin WorkPcs /\ "clear" \notin StartPcs /\ "clear" \notin EndPcs
    BY DEF WorkPcs, StartPcs, EndPcs
  <2> QED BY <1>1, <1>3, <1>5, <1>6, <1>7, <2>1, <2>2, <2>3, <2>4, <2>5, Going
<1>9. CASE ~act[p].stop
  BY <1>1, <1>5, <1>6, <1>7, <1>9, Answers, Returning DEF Complete
<1> QED BY <1>8, <1>9

LEMMA RunStepMoves ==
  ASSUME RotInv, NEW p \in Actors, RunStep(p)
  PROVE  \E n : RunMoves(p, n)
<1>1. CASE Begin(p) BY <1>1, BeginMoves
<1>2. CASE \/ ReplayCompleted(p) \/ ReplayStart(p) \/ ReplayRestore(p)
           \/ ReplayActive(p) \/ Raises(p)
  BY <1>2, ReplaySteps
<1>3. CASE LateLanded(p) \/ LateEnded(p) \/ LateCancelled(p) \/ LateUnknown(p)
  BY <1>3, LateMoves
<1>4. CASE SubmitStart(p) \/ SubmitRestore(p) BY <1>4, SubmitMoves
<1>5. CASE StillQueued(p) \/ SwitchFails(p) \/ GoOnAir(p) \/ BindFails(p)
  BY <1>5, AnswerMoves
<1>6. CASE Finish(p) BY <1>6, FinishMoves
<1>7. CASE FinishRaises(p) \/ PlayOver(p) \/ NothingToStop(p) \/ ClearStop(p)
  BY <1>7, OverMoves
<1>8. CASE Complete(p) BY <1>8, CompleteMoves
<1> QED BY <1>1, <1>2, <1>3, <1>4, <1>5, <1>6, <1>7, <1>8 DEF RunStep

LEMMA RunKeeps ==
  ASSUME RotInv, NEW p \in Actors, Run(p)
  PROVE  RotInv'
<1>1. RunStep(p) /\ rotLock' \in {rotLock, "none"}
      /\ UNCHANGED <<ledger, mem, Outside, served, Ghosts>>
  BY DEF Run
<1> QED BY <1>1, RunStepMoves, RunMovesKeeps

-----------------------------------------------------------------------------
(* The invariant, and what it says                                         *)

LEMMA RotationInit == Init => RotInv
<1> SUFFICES ASSUME Init PROVE RotInv
  OBVIOUS
<1> USE DEF Init, RetroInit
<1>1. Cool \in Nat /\ Tries \in Nat /\ Crashes \in Nat /\ Stops \in Nat
  BY RetroAssumption, RotationAssumption
<1>2. act \in [Actors -> Procs] /\ \A p \in Actors : act[p] = Off BY OffTyped
<1>3. Holder = Off /\ Operator = Off BY <1>2 DEF Holder, Operator, Actors
<1>4. Typed
  <2>1. /\ plane \in Planes /\ receipt \in Rows
    BY DEF Planes, Rows, Game, Terminal
  <2>2. st \in Files BY <1>1 DEF Files, Game, BUSY, Ended
  <2>3. ledger \in Ledgers /\ mem \in Ledgers
    <3> DEFINE hist == [c \in Corner |-> 0]
    <3>1. hist \in [Corner -> 0..Cool] BY <1>1
    <3>2. ledger = [status |-> "ready", pending |-> NoPending, queued |-> NoRequest,
                    hist |-> hist, rel |-> {}, tries |-> 0, slot |-> 0]
      OBVIOUS
    <3> HIDE DEF hist
    <3> QED BY <1>1, <3>1, <3>2, PendingTyped DEF Ledgers
  <2>4. used \in [Corner -> 0..Cool] BY <1>1
  <2>5. inbox \in Requests BY PendingTyped
  <2> QED BY <1>1, <1>2, <2>1, <2>2, <2>3, <2>4, <2>5 DEF Typed, Planes
<1>5. TypeOK
  BY <1>4 DEF TypeOK, RetroTypeOK, Typed, Rows, Files, Procs, Pcs, HolderPcs, OuterPcs
<1>6. AtWork
  BY <1>2, <1>3, OffTyped
  DEF AtWork, Works, Begun, Stopping, Actors, WorkPcs, StartPcs, EndPcs
<1>7. Books BY DEF Books, Whole
<1>8. Knows BY <1>3, OffTyped DEF Knows, HolderPcs, ReservedPcs, RunPcs
<1>9. OneManual /\ ManualKept /\ RunReserved
  BY DEF OneManual, ManualKept, RunReserved, BUSY
<1> QED BY <1>5, <1>6, <1>7, <1>8, <1>9 DEF RotInv

LEMMA RotationStep == RotInv /\ [Next]_vars => RotInv'
<1> SUFFICES ASSUME RotInv, [Next]_vars PROVE RotInv'
  OBVIOUS
<1>1. CASE Tick BY <1>1, TickWorks, HolderWorksKeeps
<1>2. CASE HolderStep BY <1>2, HolderKeeps
<1>3. ASSUME NEW p \in Actors, Run(p) \/ Crash(p) PROVE RotInv'
  BY <1>3, RunKeeps, CrashKeeps
<1>4. CASE RecoverReconciled \/ RecoverResolved
  BY <1>4, RecoverReconciledWorks, RecoverResolvedWorks, HolderWorksKeeps
<1>5. ASSUME NEW m \in Manual, TriggerPasses(m) PROVE RotInv'
  BY <1>5, FlagsKeep
<1>6. ASSUME NEW m \in Manual, NEW c \in Corner, NEW timed \in BOOLEAN, QueueManual(m, c, timed)
      PROVE  RotInv'
  BY <1>6, InboxKeeps
<1>7. CASE CancelScheduled BY <1>7, InboxKeeps
<1>8. ASSUME NEW c \in Pausable, Pause(c) PROVE RotInv'
  BY <1>8, FlagsKeep
<1>9. CASE StopManual \/ WriteStop BY <1>9, StopManualKeeps, WriteStopKeeps
<1>10. CASE Day \/ PlaneMoves \/ SlotOver
  BY <1>10, DayKeeps, PlaneMovesKeeps, SlotOverKeeps
<1>11. CASE UNCHANGED vars
  <2>1. UNCHANGED <<plane, receipt, st, stopFor, cornerLock, act>>
    BY <1>11 DEF vars, retroVars
  <2>2. UNCHANGED rotVars BY <1>11 DEF vars
  <2>3. Typed' BY <2>1, <2>2, TypesSplit DEF RotInv, Typed, rotVars
  <2>4. SameBooks BY <2>2, BooksSame DEF rotVars
  <2> QED BY <2>1, <2>3, <2>4, OthersKeep
<1> QED
  BY <1>1, <1>2, <1>3, <1>4, <1>5, <1>6, <1>7, <1>8, <1>9, <1>10, <1>11 DEF Next

(* The invariant of the rotation: whatever dies, the ledger, its copy, the *)
(* corner's file and the inbox say the same of every request.              *)
THEOREM AlwaysRotation == Spec => []RotInv
<1>1. Init => RotInv BY RotationInit
<1>2. RotInv /\ [Next]_vars => RotInv' BY RotationStep
<1> QED BY <1>1, <1>2, PTL DEF Spec

(* Everything corner_rotation.py and retro_corner.py keep has its type; a  *)
(* ledger that is running names the request that runs, as load demands.    *)
THEOREM RotationTyped == Spec => []TypeOK
<1>1. RotInv => TypeOK BY DEF RotInv
<1> QED BY <1>1, AlwaysRotation, PTL

(* _import_manual_queue never meets a second request: what the inbox and   *)
(* the ledger's queue hold at once is the same, after any death half-way.  *)
THEOREM OneManualWaits == Spec => []OneManual
<1>1. RotInv => OneManual BY DEF RotInv
<1> QED BY <1>1, AlwaysRotation, PTL

(* What an operator was told is queued or scheduled is in the inbox, in    *)
(* the ledger's queue or reserved until it is settled or cancelled: the    *)
(* import saves before it unlinks, a reservation is one write.             *)
THEOREM ManualIsKept == Spec => []ManualKept
<1>1. RotInv => ManualKept BY DEF RotInv
<1> QED BY <1>1, AlwaysRotation, PTL

(* The unfinished run of the corner's file is the reservation of the       *)
(* ledger, or a run that was released on proof: no run is under way that   *)
(* the rotation does not know of.                                          *)
THEOREM RunIsReserved == Spec => []RunReserved
<1>1. RotInv => RunReserved BY DEF RotInv
<1> QED BY <1>1, AlwaysRotation, PTL

-----------------------------------------------------------------------------
(* The plane.  What is on air, what has been used and what is reserved, by *)
(* way of the switches of the run in the file.                             *)

(* A request is reserved once: what has been settled is not reserved,      *)
(* queued or asked for any more, and the number of a slot is used once.    *)
Taken == served \cup {ledger.pending.req}
Once ==
  /\ ledger.pending.req \notin served
  /\ ledger.queued.req # NoReq => ledger.queued.req \notin Taken
  /\ inbox.req # NoReq => inbox.req \notin Taken
  /\ \A r \in Taken \ {NoReq} : IF r \in Manual THEN r \in accepted ELSE r <= ledger.slot
  /\ {inbox.req, ledger.queued.req} \subseteq accepted \cup {NoReq}
  /\ st.req \in Taken \cup {NoReq}
  /\ ledger.pending.req # NoReq => ledger.pending.corner \in Corner

(* An import is over before the holder looks at the corners.               *)
Imported ==
  /\ inbox # NoRequest /\ ledger.queued # NoRequest => ~Waiting(inbox)
  /\ Holder.pc \in {"observe", "choose"} => inbox = NoRequest \/ ledger.queued = NoRequest

(* What the holder's copy and its run have from the ledger.                *)
Carries ==
  /\ Holder.pc # "off" => /\ mem.slot = ledger.slot
                          /\ \A c \in Corner : ledger.hist[c] <= mem.hist[c]
  /\ Holder.pc \in RunPcs => Holder.corner = mem.pending.corner
  /\ Holder.pc \in StartPcs => st.req = Holder.req
  /\ Holder.pc = "replay" => st.req = mem.pending.req /\ st.sw = <<st.req, Restore>>

(* The switches of the run in the file; all others have been answered.     *)
Answer(w) == receipt[<<st.req, w>>].status
Sent ==
  /\ \A r \in Req, w \in Ways : r # st.req /\ receipt[<<r, w>>].status # "none" =>
       r \in served /\ receipt[<<r, w>>].status # "queued"
  /\ plane.claim # NoSw => plane.phase = "draining" /\ receipt[plane.claim].status = "queued"
Open(w) == \/ w = Start /\ st.status = "starting" /\ st.req = ledger.pending.req
           \/ w = Restore /\ st.status = "restoring"
           \/ /\ w = Restore + st.retry /\ st.retry > 0
              /\ st.status = "failed" /\ st.sw = <<st.req, Restore>>
Switches ==
  st.req \in Req =>
    \A w \in Ways : Answer(w) # "none" =>
      /\ receipt[<<st.req, w>>].to = IF w = Start THEN st.corner ELSE Base
      /\ w # Start => Answer(Start) = "succeeded"
      /\ Answer(w) = "queued" => Open(w)
      /\ Answer(w) = "succeeded" /\ w # Start => plane.game = Base

(* What the status of the file says of its switches.                       *)
Stands ==
  /\ st.prev = Base
  /\ st.req \in Req => st.corner \in Corner
  /\ st.req \in Req /\ st.req = ledger.pending.req => st.corner = ledger.pending.corner
  /\ st.status = "starting" => st.sw = <<st.req, Start>>
  /\ st.status = "active" => st.sw = NoSw
  /\ st.status = "restoring" => st.sw = <<st.req, Restore>>
  /\ st.status \in {"active", "restoring"} => Answer(Start) = "succeeded"
  /\ st.status = "failed" =>
       \/ st.sw = <<st.req, Start>> /\ (st.code \in Terminal => Answer(Start) = st.code)
       \/ st.sw = <<st.req, Restore>>

(* A corner that is on the plane, or whose use the ledger does not count   *)
(* yet, is the one of the run in the file, and the run is not settled.     *)
Unsettled(c) == /\ st.req \in Req /\ st.corner = c /\ Answer(Start) = "succeeded"
                /\ st.req = ledger.pending.req \/ st.status = "failed"
OnPlane ==
  /\ \A c \in Corner : \/ plane.game # c /\ used[c] <= ledger.hist[c]
                       \/ Unsettled(c)
  /\ plane.game \in Corner => st.status \in BUSY

(* What is reserved automatically has cooled, until it is on the plane.    *)
Coming ==
  /\ ledger.pending.req \in Req \ Manual /\ st.req # ledger.pending.req =>
       used[ledger.pending.corner] = 0
  /\ ledger.pending.req \in Req /\ st.req # ledger.pending.req => st.status \in Ended
  /\ st.req \in Req \ Manual /\ st.status = "starting" /\ Answer(Start) \in {"none", "queued"} =>
       used[st.corner] = 0

InTheAir == Sent /\ Switches /\ Stands /\ OnPlane /\ Coming

-----------------------------------------------------------------------------
(* The ledger counts up: no step but a day takes a use back.               *)

Upward == /\ \A c \in Corner : ledger.hist[c] <= ledger'.hist[c]
          /\ Holder'.pc # "off" => /\ mem'.slot = ledger'.slot
                                   /\ \A c \in Corner : ledger'.hist[c] <= mem'.hist[c]
Steady == /\ Upward /\ ledger'.slot = ledger.slot
          /\ ledger'.pending.req = ledger.pending.req
          /\ ledger'.pending.corner = ledger.pending.corner

LEMMA HistTyped ==
  ASSUME RotInv
  PROVE  /\ \A c \in Corner : ledger.hist[c] \in 0..Cool /\ mem.hist[c] \in 0..Cool
         /\ \A c \in Corner : used[c] \in 0..Cool
         /\ ledger.slot \in Nat /\ mem.slot \in Nat
BY TypesSplit, LedgerFields DEF RotInv, Typed

LEMMA HolderOn == ASSUME HolderStep PROVE Holder.pc # "off"
BY HolderAt
DEF HolderStep, LatchReconciled, Reconciled, Reconciles, ResolveReservation, LatchReplay,
    ReplayAnswered, LatchReleased, LatchStays, ImportNothing, ImportSave, Importable, ImportUnlink,
    Observe, ObserveRetired, ObserveBusy, ReserveManual, ReserveAuto, NothingToReserve,
    ResumePending, ResumeWaits, Dispatch, ExecuteRun, ExecuteRefused, ExecuteQueued,
    RunCompleted, RunQueued, RunReleased, RunFailed, Latch, Result, Holder

(* What is saved has the uses of the copy, or more.                        *)
Tops(l) == l \in Ledgers /\ \A c \in Corner : mem.hist[c] <= l.hist[c]

LEMMA SavesUp ==
  ASSUME RotInv, Carries, Holder.pc # "off", NEW l, Tops(l), Saves(l)
  PROVE  Upward
<1>1. ledger' = l /\ mem' = l BY DEF Saves
<1>2. l.hist \in [Corner -> 0..Cool] BY LedgerFields DEF Tops
<1>3. \A c \in Corner : ledger.hist[c] <= l.hist[c]
  <2> SUFFICES ASSUME NEW c \in Corner PROVE ledger.hist[c] <= l.hist[c]
    OBVIOUS
  <2>1. ledger.hist[c] \in 0..Cool /\ mem.hist[c] \in 0..Cool /\ l.hist[c] \in 0..Cool
    BY <1>2, HistTyped
  <2>2. ledger.hist[c] <= mem.hist[c] /\ mem.hist[c] <= l.hist[c] BY DEF Carries, Tops
  <2> QED BY <2>1, <2>2
<1>4. \A c \in Corner : l.hist[c] <= l.hist[c] BY <1>2
<1> QED BY <1>1, <1>3, <1>4 DEF Upward

LEMMA NotesUp ==
  ASSUME RotInv, Carries, Holder.pc # "off", NEW l, Tops(l), l.slot = mem.slot,
         mem' = l, ledger' = ledger
  PROVE  Steady
<1>1. l.hist \in [Corner -> 0..Cool] BY LedgerFields DEF Tops
<1>2. \A c \in Corner : ledger.hist[c] <= l.hist[c]
  <2> SUFFICES ASSUME NEW c \in Corner PROVE ledger.hist[c] <= l.hist[c]
    OBVIOUS
  <2>1. ledger.hist[c] \in 0..Cool /\ mem.hist[c] \in 0..Cool /\ l.hist[c] \in 0..Cool
    BY <1>1, HistTyped
  <2>2. ledger.hist[c] <= mem.hist[c] /\ mem.hist[c] <= l.hist[c] BY DEF Carries, Tops
  <2> QED BY <2>1, <2>2
<1>3. \A c \in Corner : ledger.hist[c] <= ledger.hist[c] BY HistTyped
<1> QED BY <1>2, <1>3 DEF Steady, Upward, Carries

LEMMA SteadySaves ==
  ASSUME RotInv, Carries, Holder.pc # "off", NEW l, Tops(l), Saves(l), l.slot = mem.slot,
         l.pending.req = mem.pending.req, l.pending.corner = mem.pending.corner
  PROVE  Steady
<1>1. ledger' = l BY DEF Saves
<1>2. Agrees BY MemAgrees
<1> QED BY <1>1, <1>2, SavesUp DEF Steady, Carries, Agrees

LEMMA TopsSame ==
  ASSUME RotInv, Holder.pc # "off"
  PROVE  /\ Tops(mem) /\ Tops(Seen)
         /\ \A k, s : /\ Tops(k) /\ s \in {"ready", "waiting", "running", "recovery_required"}
                      => Tops([k EXCEPT !.status = s])
<1>1. Tops(mem) BY MemAgrees, HistTyped DEF Tops
<1>2. Tops(Seen) BY SeenFields DEF Tops, RotInv
<1>3. ASSUME NEW k, Tops(k), NEW s \in {"ready", "waiting", "running", "recovery_required"}
      PROVE  Tops([k EXCEPT !.status = s])
  <2> DEFINE n == [k EXCEPT !.status = s]
  <2>1. k \in Ledgers BY <1>3 DEF Tops
  <2>2. n \in Ledgers /\ n.hist = k.hist BY <2>1, StatusFields
  <2> HIDE DEF n
  <2>3. Tops(n) BY <1>3, <2>2 DEF Tops
  <2> QED BY <2>3 DEF n
<1> QED BY <1>1, <1>2, <1>3

LEMMA SteadyStatus ==
  ASSUME RotInv, Carries, Holder.pc # "off", NEW k, k = mem \/ k = Seen,
         NEW s \in {"ready", "waiting", "running", "recovery_required"},
         Saves([k EXCEPT !.status = s])
  PROVE  Steady
<1>1. /\ k \in Ledgers /\ Tops(k) /\ k.pending = mem.pending /\ k.slot = mem.slot
  BY MemAgrees, TopsSame, SeenFields DEF Tops, RotInv
<1> DEFINE n == [k EXCEPT !.status = s]
<1>2. n \in Ledgers /\ n.pending = k.pending /\ n.slot = k.slot BY <1>1, StatusFields
<1>3. Tops(n) /\ Saves(n) BY <1>1, TopsSame
<1> HIDE DEF n
<1> QED BY <1>1, <1>2, <1>3, SteadySaves

(* The holder's steps that neither reserve nor settle anything.            *)
SteadyStep ==
  \/ LatchReconciled \/ Reconciled \/ LatchReplay \/ LatchStays
  \/ ImportNothing \/ ImportSave \/ ImportUnlink
  \/ Observe \/ ObserveRetired \/ ObserveBusy \/ NothingToReserve
  \/ ResumePending \/ ResumeWaits \/ Dispatch \/ ExecuteRun \/ ExecuteRefused \/ ExecuteQueued
  \/ RunQueued \/ RunFailed \/ Latch

LEMMA StepsSteady ==
  ASSUME RotInv, Carries, SteadyStep
  PROVE  Steady /\ Holder.pc # "off"
<1>1. Holder.pc # "off" BY HolderOn DEF SteadyStep, HolderStep
<1>2. mem \in Ledgers BY <1>1, MemAgrees
<1>3. CASE UNCHANGED <<ledger, mem>> BY <1>1, <1>3, TopsSame, NotesUp
<1>4. CASE \/ LatchReconciled \/ Reconciled \/ ImportNothing \/ ImportUnlink
           \/ ResumePending \/ ExecuteRun \/ ExecuteRefused \/ RunFailed
  BY <1>3, <1>4
  DEF LatchReconciled, Reconciled, Reconciles, ImportNothing, ImportUnlink,
      ResumePending, ExecuteRun, ExecuteRefused, RunFailed
<1>5. CASE Observe \/ ObserveRetired
  <2>1. mem' = Seen /\ ledger' = ledger BY <1>5 DEF Observe, ObserveRetired
  <2> QED BY <1>1, <2>1, TopsSame, SeenFields, NotesUp DEF RotInv
<1>6. CASE NothingToReserve \/ ResumeWaits \/ ExecuteQueued \/ RunQueued
  <2>1. Saves([mem EXCEPT !.status = "waiting"])
    BY <1>6 DEF NothingToReserve, ResumeWaits, ExecuteQueued, RunQueued, Waits
  <2> QED BY <1>1, <2>1, SteadyStatus
<1>7. CASE Latch BY <1>1, <1>7, SteadyStatus DEF Latch
<1>8. CASE ObserveBusy BY <1>1, <1>8, SteadyStatus DEF ObserveBusy
<1>9. CASE LatchStays BY <1>1, <1>9, TopsSame, SteadySaves DEF LatchStays
<1>10. CASE Dispatch
  <2> DEFINE l == [mem EXCEPT !.status = "running", !.pending.phase = "dispatched",
                              !.hist[mem.pending.corner] = IF Fresh THEN Cool ELSE @]
  <2>1. /\ l \in Ledgers /\ l.pending.req = mem.pending.req /\ l.slot = mem.slot
        /\ l.pending.corner = mem.pending.corner
        /\ \A c \in Corner : mem.hist[c] <= l.hist[c]
    BY <1>2, DispatchFields
  <2>2. Saves(l) BY <1>10 DEF Dispatch, Pending
  <2> HIDE DEF l
  <2>3. Tops(l) BY <2>1 DEF Tops
  <2> QED BY <1>1, <2>1, <2>2, <2>3, SteadySaves
<1>11. CASE ImportSave
  <2> DEFINE l == [mem EXCEPT !.queued = inbox]
  <2>1. inbox \in Requests BY TypesSplit DEF RotInv, Typed
  <2>2. /\ l \in Ledgers /\ l.pending = mem.pending /\ l.slot = mem.slot /\ l.hist = mem.hist
    BY <1>2, <2>1 DEF Ledgers
  <2>3. Saves(l) BY <1>11 DEF ImportSave
  <2> HIDE DEF l
  <2>4. Tops(l) BY <1>1, <2>2, TopsSame DEF Tops
  <2> QED BY <1>1, <2>2, <2>3, <2>4, SteadySaves
<1>12. CASE LatchReplay
  <2> DEFINE n == mem.tries + 1
             l == [mem EXCEPT !.tries = n]
  <2>1. n \in 0..Tries
    BY <1>2, <1>12, LedgerFields, RetroAssumption DEF LatchReplay, ReplayDue
  <2>2. mem' = l /\ ledger' = ledger BY <1>12 DEF LatchReplay
  <2> HIDE DEF n
  <2>3. /\ l \in Ledgers /\ l.slot = mem.slot /\ l.hist = mem.hist
    BY <1>2, <2>1 DEF Ledgers
  <2> HIDE DEF l
  <2>4. Tops(l) BY <1>1, <2>3, TopsSame DEF Tops
  <2> QED BY <1>1, <2>2, <2>3, <2>4, NotesUp
<1> QED
  BY <1>1, <1>4, <1>5, <1>6, <1>7, <1>8, <1>9, <1>10, <1>11, <1>12 DEF SteadyStep

(* The holder's steps that settle the reservation                          *)
Settles ==
  /\ Upward /\ ledger'.slot = ledger.slot
  /\ ledger.pending.req \in Req /\ ledger'.pending = NoPending
  /\ served' = served \cup {ledger.pending.req}
  /\ ledger.pending.corner \in Corner => ledger'.hist[ledger.pending.corner] = Cool

LEMMA SpentTops ==
  ASSUME NEW l \in Ledgers
  PROVE  /\ \A c \in Corner : l.hist[c] <= Spent(l)[c]
         /\ l.pending.corner \in Corner => Spent(l)[l.pending.corner] = Cool
<1>1. l.hist \in [Corner -> 0..Cool] /\ Cool \in Nat BY LedgerFields, RetroAssumption
<1>2. \A c \in Corner : l.hist[c] \in Int /\ l.hist[c] <= Cool BY <1>1
<1> QED BY <1>1, <1>2 DEF Spent

LEMMA SavesSettled ==
  ASSUME RotInv, Carries, Holder.pc # "off", mem.pending.req \in Req,
         NEW l \in Ledgers, Saves(l), l.slot = mem.slot, l.pending = NoPending, l.hist = Spent(mem),
         served' = served \cup {mem.pending.req}
  PROVE  Settles
<1>1. ledger' = l /\ Agrees BY MemAgrees DEF Saves
<1>2. mem \in Ledgers BY MemAgrees
<1>3. Tops(l) BY <1>2, SpentTops DEF Tops
<1>4. Upward BY <1>3, SavesUp
<1> QED BY <1>1, <1>2, <1>4, SpentTops DEF Settles, Agrees, Carries

(* Who completes or resolves a reservation knows that its run has ended;   *)
(* who releases it has seen that the plane can be used again.              *)
SettlingStep == ResolveReservation \/ RunCompleted \/ RunReleased \/ LatchReleased

LEMMA ReleaseSettles ==
  ASSUME RotInv, Carries, Holder.pc # "off", mem.pending.req \in Req, NEW pc, Releases(pc)
  PROVE  Settles
<1> DEFINE l == [Closed(mem) EXCEPT !.status = "waiting", !.rel = @ \cup {mem.pending.req}]
<1>1. l \in Ledgers /\ l.pending = NoPending /\ l.slot = mem.slot /\ l.hist = Spent(mem)
  BY MemAgrees, ReleasedFields
<1>2. Saves(l) /\ served' = served \cup {mem.pending.req} BY DEF Releases, Pending
<1> HIDE DEF l
<1> QED BY <1>1, <1>2, SavesSettled

LEMMA CompleteSettles ==
  ASSUME RotInv, Carries, Holder.pc # "off", mem.pending.req \in Req,
         Saves([Closed(mem) EXCEPT !.status = "ready"]), served' = served \cup {mem.pending.req}
  PROVE  Settles
<1> DEFINE l == [Closed(mem) EXCEPT !.status = "ready"]
<1>1. l \in Ledgers /\ l.pending = NoPending /\ l.slot = mem.slot /\ l.hist = Spent(mem)
  BY MemAgrees, ResolvedFields
<1>2. Saves(l) OBVIOUS
<1> HIDE DEF l
<1> QED BY <1>1, <1>2, SavesSettled

LEMMA SettlingSettles ==
  ASSUME RotInv, Carries, SettlingStep
  PROVE  /\ Settles /\ UNCHANGED <<Plane, st, stopFor>>
         /\ st.status \in Ended \/ SlotReusable(ledger.pending.req, ledger.pending.corner)
<1>1. Holder.pc # "off" BY HolderOn DEF SettlingStep, HolderStep
<1>2. Agrees BY <1>1, MemAgrees
<1>3. CASE ResolveReservation
  <2>1. Holder.pc \in {"resolve", "settle"} BY <1>3 DEF ResolveReservation, Holder
  <2>2. mem.pending.req \in Req /\ st.status \in Ended
    BY <2>1, IsReserved DEF RotInv, Knows, ReservedPcs
  <2> QED BY <1>1, <1>3, <2>2, CompleteSettles DEF ResolveReservation, Pending
<1>4. CASE RunCompleted
  <2>1. Holder.pc = "result" /\ Holder.res = "completed"
    BY <1>4, HolderAt DEF RunCompleted, Result, Holder
  <2>2. mem.pending.req \in Req /\ st.status \in Ended
    BY <2>1, IsReserved DEF RotInv, Knows, ReservedPcs, RunPcs
  <2> QED BY <1>1, <1>4, <2>2, CompleteSettles DEF RunCompleted, Pending
<1>5. CASE RunReleased
  <2>1. Holder.pc \in {"result", "failed"} BY <1>5, HolderAt DEF RunReleased
  <2>2. mem.pending.req \in Req BY <2>1, IsReserved DEF ReservedPcs, RunPcs
  <2>3. Settles BY <1>1, <1>5, <2>2, ReleaseSettles DEF RunReleased
  <2> QED BY <1>2, <1>5, <2>3 DEF RunReleased, Abandonable, Pending, Agrees
<1>6. CASE LatchReleased
  <2>1. mem.pending.req \in Req BY <1>6, IsReserved DEF LatchReleased, Pending
  <2>2. Settles BY <1>1, <1>6, <2>1, ReleaseSettles DEF LatchReleased
  <2> QED BY <1>2, <1>6, <2>2 DEF LatchReleased, Pending, Agrees
<1> QED BY <1>3, <1>4, <1>5, <1>6 DEF SettlingStep

LEMMA ReplaySettles ==
  ASSUME RotInv, Carries, ReplayAnswered
  PROVE  \/ Steady /\ UNCHANGED served
         \/ Settles /\ SlotReusable(ledger.pending.req, ledger.pending.corner)
<1>1. Holder.pc = "replay" /\ Holder.pc # "off" BY HolderAt DEF ReplayAnswered
<1>2. Agrees /\ mem.pending.req \in Req BY <1>1, MemAgrees, IsReserved DEF ReservedPcs
<1>3. CASE SlotReusable(Pending.req, Pending.corner) /\ Releases("import")
  <2>1. Settles BY <1>1, <1>2, <1>3, ReleaseSettles
  <2> QED BY <1>2, <1>3, <2>1 DEF Pending, Agrees
<1>4. CASE Saves(mem) /\ UNCHANGED served BY <1>1, <1>4, TopsSame, SteadySaves
<1> QED BY <1>3, <1>4 DEF ReplayAnswered

(* The holder's steps that reserve                                         *)
Fits(r) == IF r \in Manual THEN r \in accepted ELSE r <= ledger'.slot
Reserving ==
  LET r == ledger'.pending.req
      c == ledger'.pending.corner
  IN /\ Upward /\ Takes /\ ledger'.slot = ledger.slot + 1
     /\ r \notin Taken /\ r # inbox.req /\ Fits(r) /\ c \in Corner
     /\ r \notin Manual => mem.hist[c] = 0
     /\ st.status \in Ended /\ UNCHANGED <<Plane, st, stopFor>>

LEMMA FileEnded ==
  ASSUME RotInv, Holder.pc # "off", mem.pending = NoPending, ~Foreign
  PROVE  st.status \in Ended
<1>1. st.status \in BUSY => st.req \in Req BY DEF RotInv, AtWork, Begun, BUSY
<1>2. st.status \in BUSY \cup Ended BY TypesSplit DEF RotInv, Typed, Files
<1> QED BY <1>1, <1>2, PendingTyped, RetroAssumption DEF Foreign, Pending

LEMMA ReservesReserving ==
  ASSUME RotInv, Carries, Holder.pc = "choose", mem.pending = NoPending,
         NEW r \in Req, NEW c \in Corner, Reserves(r, c), Go("dispatch"),
         UNCHANGED <<Plane, st, stopFor, cornerLock, Outside, served, Ghosts>>,
         ~Foreign, r \notin Taken, r # inbox.req,
         IF r \in Manual THEN r \in accepted ELSE r <= mem.slot + 1 /\ mem.hist[c] = 0
  PROVE  Reserving
<1> DEFINE l == Reserved(mem, r, c)
<1>1. /\ mem \in Ledgers /\ Agrees BY MemAgrees
<1>2. /\ l \in Ledgers /\ l.pending.req = r /\ l.pending.corner = c /\ l.slot = mem.slot + 1
      /\ l.hist = mem.hist /\ l.rel = mem.rel
      /\ l.queued = IF mem.queued.req = r THEN NoRequest ELSE mem.queued
  BY <1>1, ReservesFields
<1>3. Saves(l) BY DEF Reserves, Reserved
<1> HIDE DEF l
<1>4. ledger' = l BY <1>3 DEF Saves
<1>5. Tops(l) BY <1>2, TopsSame DEF Tops
<1>6. Upward BY <1>3, <1>5, SavesUp
<1>7. Takes BY <1>1, <1>2, <1>4 DEF Takes, Agrees, Outside
<1>8. st.status \in Ended BY FileEnded
<1>9. mem.slot = ledger.slot BY DEF Carries
<1> QED BY <1>2, <1>4, <1>6, <1>7, <1>8, <1>9 DEF Reserving, Fits

LEMMA StepsReserve ==
  ASSUME RotInv, Once, Imported, Carries, ReserveManual \/ ReserveAuto
  PROVE  Reserving
<1>1. Holder.pc = "choose" /\ mem.pending = NoPending
  BY HolderAt DEF ReserveManual, ReserveAuto, Pending
<1>2. /\ mem \in Ledgers /\ Whole(mem) /\ Agrees
      /\ mem.queued \in Requests /\ mem.slot \in Nat /\ mem.slot = ledger.slot
  BY <1>1, MemAgrees, LedgerFields DEF Carries
<1>3. /\ Req = 1..MaxSlot \cup Manual /\ MaxSlot \in Nat /\ NoReq \notin Req
      /\ \A m \in Manual : m \notin 1..MaxSlot
  BY RotationAssumption, RetroAssumption
<1>4. CASE ReserveManual
  <2> DEFINE r == mem.queued.req
  <2>1. r \in Manual /\ r \in Req BY <1>2, <1>3, <1>4 DEF ReserveManual, Whole, Requests
  <2>2. mem.queued.corner \in Corner /\ ~Foreign BY <1>4 DEF ReserveManual, Eligible
  <2>3. r # NoReq /\ r = ledger.queued.req BY <1>2, <1>3, <2>1 DEF Agrees
  <2>4. r \notin Taken /\ r \in accepted BY <2>3 DEF Once
  <2>5. inbox = NoRequest
    BY <1>1, <2>3, PendingTyped DEF Imported
  <2>6. r # inbox.req BY <2>3, <2>5, PendingTyped
  <2> QED
    BY <1>1, <1>4, <2>1, <2>2, <2>4, <2>6, ReservesReserving DEF ReserveManual
<1>5. CASE ReserveAuto
  <2> DEFINE r == mem.slot + 1
  <2>1. PICK c \in AutoCandidates : Reserves(r, c) BY <1>5 DEF ReserveAuto
  <2>2. r \in 1..MaxSlot BY <1>2, <1>3, <1>5 DEF ReserveAuto
  <2>3. r \in Req /\ r \notin Manual BY <1>3, <2>2
  <2>4. c \in Corner /\ ~Foreign /\ mem.hist[c] = 0
    BY DEF AutoCandidates, Cooled, Eligible
  <2>5. r \notin Taken
    <3>1. r # NoReq /\ ~(r <= ledger.slot) BY <1>2, <1>3, <2>3
    <3> QED BY <2>3, <3>1 DEF Once
  <2>6. r # inbox.req
    <3>1. inbox.req \in Manual \cup {NoReq}
      BY TypesSplit DEF RotInv, Typed, Requests
    <3> QED BY <1>3, <2>3, <3>1
  <2>7. r <= mem.slot + 1 BY <1>2
  <2>8. Go("dispatch") /\ UNCHANGED <<Plane, st, stopFor, cornerLock, Outside, served, Ghosts>>
    BY <1>5 DEF ReserveAuto
  <2> HIDE DEF r
  <2> QED BY <1>1, <2>1, <2>3, <2>4, <2>5, <2>6, <2>7, <2>8, ReservesReserving
<1> QED BY <1>4, <1>5

-----------------------------------------------------------------------------
(* A request is reserved once                                              *)

LEMMA OnceSame ==
  ASSUME RotInv, Once, Keeps \/ Imports \/ Empties, accepted' = accepted,
         ledger'.pending.corner = ledger.pending.corner, ledger'.slot = ledger.slot,
         st'.req = st.req \/ st'.req = ledger.pending.req
  PROVE  Once'
<1>1. Taken' = Taken /\ ledger'.pending.req = ledger.pending.req
  BY DEF Taken, Keeps, Imports, Empties
<1>2. NoRequest.req = NoReq BY PendingTyped
<1>3. ledger.pending.req \in Taken BY DEF Taken
<1>4. ledger'.pending.req \notin served' BY DEF Once, Keeps, Imports, Empties
<1>5. /\ ledger'.queued.req # NoReq => ledger'.queued.req \notin Taken'
      /\ inbox'.req # NoReq => inbox'.req \notin Taken'
      /\ {inbox'.req, ledger'.queued.req} \subseteq accepted' \cup {NoReq}
  BY <1>1, <1>2 DEF Once, Keeps, Imports, Empties
<1>6. \A r \in Taken' \ {NoReq} : IF r \in Manual THEN r \in accepted' ELSE r <= ledger'.slot
  BY <1>1 DEF Once
<1>7. st'.req \in Taken' \cup {NoReq} BY <1>1, <1>3 DEF Once
<1> QED BY <1>1, <1>4, <1>5, <1>6, <1>7 DEF Once

LEMMA OnceSettles ==
  ASSUME RotInv, Once, Accounts, Settles, accepted' = accepted, st'.req = st.req
  PROVE  Once'
<1>1. /\ ledger'.queued = ledger.queued /\ inbox' = inbox
  BY PendingTyped, RetroAssumption DEF Accounts, Settles, Keeps, Imports, Empties, Takes, Closes
<1>2. /\ ledger'.pending.req = NoReq /\ ledger'.slot = ledger.slot /\ NoReq \notin Req
      /\ Taken' = Taken \cup {NoReq} /\ served' = Taken
  BY PendingTyped, RetroAssumption DEF Taken, Settles
<1>3. NoReq \notin served' BY <1>2 DEF Settles, RotInv, TypeOK
<1>4. /\ ledger'.queued.req # NoReq => ledger'.queued.req \notin Taken'
      /\ inbox'.req # NoReq => inbox'.req \notin Taken'
      /\ {inbox'.req, ledger'.queued.req} \subseteq accepted' \cup {NoReq}
  BY <1>1, <1>2 DEF Once
<1>5. \A r \in Taken' \ {NoReq} : IF r \in Manual THEN r \in accepted' ELSE r <= ledger'.slot
  BY <1>2 DEF Once
<1>6. st'.req \in Taken' \cup {NoReq} BY <1>2 DEF Once
<1> QED BY <1>2, <1>3, <1>4, <1>5, <1>6 DEF Once

LEMMA OnceReserves ==
  ASSUME RotInv, Once, Reserving, accepted' = accepted, st'.req = st.req
  PROVE  Once'
<1> DEFINE r == ledger'.pending.req
<1>1. /\ r \in Req /\ r \notin Taken /\ r # inbox.req /\ Fits(r) /\ ledger'.slot = ledger.slot + 1
      /\ inbox' = inbox /\ served' = served /\ ledger'.pending.corner \in Corner
      /\ ledger'.queued = IF ledger.queued.req = r THEN NoRequest ELSE ledger.queued
  BY DEF Reserving, Takes
<1>2. ledger.pending.req = NoReq /\ NoRequest.req = NoReq /\ NoReq \notin Req
  BY PendingTyped, RetroAssumption DEF Reserving, Takes
<1>3. Taken = served \cup {NoReq} /\ Taken' = served \cup {r} BY <1>1, <1>2 DEF Taken
<1>4. r \notin served' BY <1>1, <1>3
<1>5. /\ ledger'.queued.req # NoReq => ledger'.queued.req \notin Taken'
      /\ inbox'.req # NoReq => inbox'.req \notin Taken'
      /\ {inbox'.req, ledger'.queued.req} \subseteq accepted' \cup {NoReq}
  BY <1>1, <1>2, <1>3 DEF Once
<1>6. \A q \in Taken' \ {NoReq} : IF q \in Manual THEN q \in accepted' ELSE q <= ledger'.slot
  <2> SUFFICES ASSUME NEW q \in Taken' \ {NoReq}
               PROVE  IF q \in Manual THEN q \in accepted ELSE q <= ledger'.slot
    OBVIOUS
  <2>1. CASE q = r BY <1>1, <2>1 DEF Fits
  <2>2. CASE q # r
    <3>1. q \in served /\ q \in Req BY <1>3, <2>2 DEF RotInv, TypeOK
    <3>2. IF q \in Manual THEN q \in accepted ELSE q <= ledger.slot
      BY <1>3, <3>1 DEF Once
    <3>3. q \notin Manual => q \in Int
      BY <3>1, RotationAssumption
    <3>4. ledger.slot \in Int BY HistTyped
    <3> QED BY <1>1, <3>2, <3>3, <3>4
  <2> QED BY <2>1, <2>2
<1>7. st'.req \in Taken' \cup {NoReq} BY <1>3 DEF Once
<1> QED BY <1>1, <1>4, <1>5, <1>6, <1>7 DEF Once

(* Where a step of the holder leads                                        *)
LEMMA GoPlaces == ASSUME RotInv, NEW pc \in HolderPcs, Go(pc) PROVE Holder'.pc = pc
BY GoFields DEF RotInv, Pcs

LEMMA HolderGoesOn ==
  ASSUME RotInv, HolderStep
  PROVE  /\ ~ExecuteRun => Holder'.pc \in HolderPcs
         /\ ExecuteRun => Holder'.pc = "enter" /\ Holder'.corner = mem.pending.corner
         /\ Holder'.pc = "observe" => ImportNothing \/ ImportUnlink
         /\ Holder'.pc = "choose" => Observe \/ ObserveRetired
         /\ Holder'.pc = "replay" => LatchReplay
<1>1. CASE ImportNothing \/ ImportUnlink
  <2>1. PICK c \in Game : act' = [act EXCEPT !.holder.pc = "observe", !.holder.corner = c]
    <3>1. inbox.corner \in Game /\ Base \in Game
      BY TypesSplit DEF RotInv, Typed, Requests, Game
    <3> QED BY <1>1, <3>1 DEF ImportNothing, ImportUnlink
  <2>2. "observe" \in Pcs BY DEF Pcs, HolderPcs
  <2>3. Holder'.pc = "observe" BY <2>1, <2>2, RemembersFields DEF RotInv
  <2>4. ~ExecuteRun
    BY <1>1, HolderAt DEF ImportNothing, ImportUnlink, ExecuteRun
  <2> QED BY <1>1, <2>3, <2>4 DEF HolderPcs
<1>2. CASE ExecuteRun
  <2> DEFINE h == [Off EXCEPT !.pc = "enter", !.req = Pending.req, !.corner = Pending.corner]
  <2>1. Holder.pc = "execute" BY <1>2, HolderAt DEF ExecuteRun
  <2>2. mem.pending.req \in Req /\ mem.pending.corner \in Game
    BY <2>1, IsReserved, MemAgrees, LedgerFields DEF ReservedPcs
  <2>3. h \in Procs /\ h.pc = "enter" /\ h.corner = mem.pending.corner
    BY <2>2 DEF Pending, Off, Procs, Pcs, RunPcs, Outcomes
  <2>4. act' = [act EXCEPT !["holder"] = h] BY <1>2 DEF ExecuteRun
  <2> HIDE DEF h
  <2>5. Holder' = h BY <2>3, <2>4, HolderBecomes DEF RotInv
  <2> QED BY <1>2, <2>3, <2>5
<1>3. CASE ~ExecuteRun /\ \E pc \in HolderPcs \ {"observe", "choose", "replay"} : Go(pc)
  BY <1>3, GoPlaces
<1>4. CASE Observe \/ ObserveRetired
  <2>1. Holder.pc = "observe" /\ Go("choose") BY <1>4, HolderAt DEF Observe, ObserveRetired
  <2>2. Holder'.pc = "choose" BY <2>1, GoPlaces DEF HolderPcs
  <2>3. ~ExecuteRun BY <2>1, HolderAt DEF ExecuteRun
  <2> QED BY <1>4, <2>2, <2>3 DEF HolderPcs
<1>5. CASE LatchReplay
  <2>1. Holder.pc = "latched" /\ Go("replay") BY <1>5, HolderAt DEF LatchReplay
  <2>2. Holder'.pc = "replay" BY <2>1, GoPlaces DEF HolderPcs
  <2>3. ~ExecuteRun BY <2>1, HolderAt DEF ExecuteRun
  <2> QED BY <1>5, <2>2, <2>3 DEF HolderPcs
<1>6. CASE LatchReconciled \/ Reconciled \/ ResolveReservation \/ ReplayAnswered \/ LatchReleased
           \/ LatchStays \/ ImportSave
  <2>1. \E pc \in HolderPcs \ {"observe", "choose", "replay"} : Go(pc)
    BY <1>6
    DEF LatchReconciled, Reconciled, Reconciles, ResolveReservation, ReplayAnswered,
        LatchReleased, LatchStays, ImportSave, Releases, HolderPcs
  <2>2. ~ExecuteRun
    BY <1>6, HolderAt
    DEF LatchReconciled, Reconciled, Reconciles, ResolveReservation, ReplayAnswered,
        LatchReleased, LatchStays, ImportSave, Importable, ExecuteRun, Holder
  <2> QED BY <1>3, <2>1, <2>2
<1>7. CASE ObserveBusy \/ ReserveManual \/ ReserveAuto \/ NothingToReserve \/ ResumePending
           \/ ResumeWaits \/ Dispatch \/ ExecuteRefused \/ ExecuteQueued
  <2>1. \E pc \in HolderPcs \ {"observe", "choose", "replay"} : Go(pc)
    BY <1>7
    DEF ObserveBusy, ReserveManual, ReserveAuto, NothingToReserve, ResumePending, ResumeWaits,
        Dispatch, ExecuteRefused, ExecuteQueued, Waits, HolderPcs
  <2> QED BY <1>2, <1>3, <2>1
<1>8. CASE RunCompleted \/ RunQueued \/ RunReleased \/ RunFailed \/ Latch
  <2>1. \E pc \in HolderPcs \ {"observe", "choose", "replay"} : Go(pc)
    BY <1>8
    DEF RunCompleted, RunQueued, RunReleased, RunFailed, Latch, Releases, Waits, HolderPcs
  <2> QED BY <1>2, <1>3, <2>1
<1> QED BY <1>1, <1>2, <1>4, <1>5, <1>6, <1>7, <1>8 DEF HolderStep

LEMMA ImportedKept ==
  ASSUME Imported, inbox' = inbox, due \subseteq due',
         ledger'.queued \in {ledger.queued, NoRequest},
         Holder'.pc \in {"observe", "choose"} => Holder.pc \in {"observe", "choose"}
  PROVE  Imported'
BY DEF Imported, Waiting

LEMMA HolderPlaces == \A pc \in HolderPcs : pc \notin RunPcs /\ pc \notin StartPcs
BY DEF HolderPcs, RunPcs, StartPcs

LEMMA CarriesOn ==
  ASSUME Upward, Holder'.pc \in HolderPcs,
         Holder'.pc = "replay" => st'.req = mem'.pending.req /\ st'.sw = <<st'.req, Restore>>
  PROVE  Carries'
BY HolderPlaces DEF Upward, Carries

LEMMA HolderKinds ==
  ASSUME HolderStep
  PROVE  SteadyStep \/ SettlingStep \/ ReplayAnswered \/ ReserveManual \/ ReserveAuto
BY DEF HolderStep, SteadyStep, SettlingStep

LEMMA SteadyKeeps ==
  ASSUME RotInv, Accounts, Steady
  PROVE  Keeps \/ Imports \/ Empties
BY PendingTyped, RetroAssumption DEF Accounts, Steady, Takes, Closes

LEMMA HolderUp ==
  ASSUME RotInv, Once, Imported, Carries, HolderStep
  PROVE  Upward
<1>1. CASE SteadyStep BY <1>1, StepsSteady DEF Steady
<1>2. CASE SettlingStep BY <1>2, SettlingSettles DEF Settles
<1>3. CASE ReplayAnswered BY <1>3, ReplaySettles DEF Steady, Settles
<1>4. CASE ReserveManual \/ ReserveAuto BY <1>4, StepsReserve DEF Reserving
<1> QED BY <1>1, <1>2, <1>3, <1>4, HolderKinds

LEMMA HolderOnce ==
  ASSUME RotInv, Once, Imported, Carries, HolderStep
  PROVE  Once'
<1>1. /\ Accounts /\ accepted' = accepted /\ st'.req = st.req
  BY HolderStepWorks DEF HolderWorks, Written, Ghosts, FileCloses
<1>2. CASE Steady
  <2>1. Keeps \/ Imports \/ Empties BY <1>1, <1>2, SteadyKeeps
  <2> QED BY <1>1, <1>2, <2>1, OnceSame DEF Steady
<1>3. CASE Settles BY <1>1, <1>3, OnceSettles
<1>4. CASE Reserving BY <1>1, <1>4, OnceReserves
<1> QED
  BY <1>2, <1>3, <1>4, HolderKinds, StepsSteady, SettlingSettles, ReplaySettles, StepsReserve

LEMMA HolderQueued ==
  ASSUME RotInv, Once, Imported, Carries, HolderStep, ~ImportSave, Accounts
  PROVE  ledger'.queued \in {ledger.queued, NoRequest}
<1>1. Holder.pc # "off" /\ Agrees /\ mem \in Ledgers BY HolderOn, MemAgrees
<1>2. CASE Settles \/ Reserving
  BY <1>2, PendingTyped, RetroAssumption
  DEF Accounts, Keeps, Imports, Empties, Takes, Closes, Settles, Reserving
<1>3. CASE ledger' = ledger \/ Saves(mem) BY <1>1, <1>3 DEF Saves, Agrees
<1>4. ASSUME NEW k, k = mem \/ k = Seen,
             NEW s \in {"ready", "waiting", "running", "recovery_required"},
             Saves([k EXCEPT !.status = s])
      PROVE  ledger'.queued = ledger.queued
  <2>1. k \in Ledgers /\ k.queued = ledger.queued
    BY <1>1, <1>4, SeenFields DEF Agrees, RotInv
  <2> DEFINE n == [k EXCEPT !.status = s]
  <2>2. n.queued = k.queued BY <2>1, StatusFields
  <2>3. Saves(n) BY <1>4
  <2> HIDE DEF n
  <2> QED BY <2>1, <2>2, <2>3 DEF Saves
<1>5. CASE SteadyStep
  <2>1. CASE \/ LatchReconciled \/ Reconciled \/ LatchReplay \/ ImportNothing \/ ImportUnlink
             \/ Observe \/ ObserveRetired \/ ResumePending \/ ExecuteRun \/ ExecuteRefused
             \/ RunFailed \/ LatchStays
    BY <1>3, <2>1
    DEF LatchReconciled, Reconciled, Reconciles, LatchReplay, ImportNothing, ImportUnlink, Observe,
        ObserveRetired, ResumePending, ExecuteRun, ExecuteRefused, RunFailed, LatchStays
  <2>2. CASE NothingToReserve \/ ResumeWaits \/ ExecuteQueued \/ RunQueued
    <3>1. Saves([mem EXCEPT !.status = "waiting"])
      BY <2>2 DEF NothingToReserve, ResumeWaits, ExecuteQueued, RunQueued, Waits
    <3> QED BY <1>4, <3>1
  <2>3. CASE Latch BY <1>4, <2>3 DEF Latch
  <2>4. CASE ObserveBusy BY <1>4, <2>4 DEF ObserveBusy
  <2>5. CASE Dispatch
    <3> DEFINE l == [mem EXCEPT !.status = "running", !.pending.phase = "dispatched",
                                !.hist[mem.pending.corner] = IF Fresh THEN Cool ELSE @]
    <3>1. l.queued = mem.queued BY <1>1, DispatchFields
    <3>2. Saves(l) BY <2>5 DEF Dispatch, Pending
    <3> HIDE DEF l
    <3> QED BY <1>1, <3>1, <3>2 DEF Saves, Agrees
  <2> QED BY <1>5, <2>1, <2>2, <2>3, <2>4, <2>5 DEF SteadyStep
<1>6. CASE ReplayAnswered /\ ~Settles
  <2>1. Saves(mem) \/ \E pc : Releases(pc) BY <1>6 DEF ReplayAnswered
  <2>2. ASSUME NEW pc, Releases(pc) PROVE Settles
    <3>1. Holder.pc = "replay" BY <1>6, HolderAt DEF ReplayAnswered
    <3>2. mem.pending.req \in Req BY <3>1, IsReserved DEF ReservedPcs
    <3> QED BY <1>1, <2>2, <3>2, ReleaseSettles
  <2> QED BY <1>3, <1>6, <2>1, <2>2
<1> QED
  BY <1>2, <1>5, <1>6, HolderKinds, SettlingSettles, StepsReserve

LEMMA HolderImported ==
  ASSUME RotInv, RotInv', Once, Imported, Carries, HolderStep
  PROVE  Imported'
<1>1. Accounts /\ due' = due BY HolderStepWorks DEF HolderWorks, Written
<1>2. Holder.pc # "off" /\ Agrees BY HolderOn, MemAgrees
<1>3. CASE ImportNothing
  <2>1. /\ inbox = NoRequest \/ Waiting(inbox)
        /\ ledger' = ledger /\ inbox' = inbox
    BY <1>3 DEF ImportNothing, Outside
  <2>2. inbox = NoRequest \/ ledger.queued = NoRequest BY <2>1 DEF Imported
  <2> QED BY <1>1, <2>1, <2>2 DEF Imported, Waiting
<1>4. CASE ImportUnlink
  <2>1. inbox' = NoRequest BY <1>4 DEF ImportUnlink
  <2> QED BY <2>1 DEF Imported
<1>5. CASE ImportSave
  <2>1. ~Waiting(inbox) /\ inbox' = inbox /\ Go("unlink")
    BY <1>5 DEF ImportSave, Importable, Outside
  <2>2. Holder'.pc = "unlink" BY <2>1, GoPlaces DEF HolderPcs
  <2> QED BY <1>1, <2>1, <2>2 DEF Imported, Waiting
<1>6. CASE ~ImportNothing /\ ~ImportUnlink /\ ~ImportSave
  <2>1. Holder'.pc \in {"observe", "choose"} => Holder.pc \in {"observe", "choose"}
    BY <1>6, HolderGoesOn, HolderAt DEF Observe, ObserveRetired
  <2>2. inbox' = inbox
    <3>1. CASE SteadyStep
      BY <1>6, <3>1
      DEF SteadyStep, LatchReconciled, Reconciled, Reconciles, LatchReplay, LatchStays, Observe,
          ObserveRetired, ObserveBusy, NothingToReserve, ResumePending, ResumeWaits, Dispatch,
          ExecuteRun, ExecuteRefused, ExecuteQueued, RunQueued, RunFailed, Latch, Outside
    <3>2. CASE SettlingStep \/ ReplayAnswered \/ ReserveManual \/ ReserveAuto
      BY <3>2
      DEF SettlingStep, ResolveReservation, RunCompleted, RunReleased, LatchReleased,
          ReplayAnswered, ReserveManual, ReserveAuto, Outside
    <3> QED BY <3>1, <3>2, HolderKinds
  <2>3. ledger'.queued \in {ledger.queued, NoRequest} BY <1>1, <1>6, HolderQueued
  <2> QED BY <1>1, <2>1, <2>2, <2>3, ImportedKept
<1> QED BY <1>3, <1>4, <1>5, <1>6

LEMMA HolderCarries ==
  ASSUME RotInv, RotInv', Once, Imported, Carries, HolderStep
  PROVE  Carries'
<1>1. Upward BY HolderUp
<1>2. CASE ExecuteRun
  <2>1. Holder'.pc = "enter" /\ Holder'.corner = mem'.pending.corner
    BY <1>2, HolderGoesOn DEF ExecuteRun
  <2> QED BY <1>1, <2>1 DEF Upward, Carries, StartPcs
<1>3. CASE LatchReplay
  <2>1. st.req = mem.pending.req /\ st.sw = <<st.req, Restore>>
    BY <1>3 DEF LatchReplay, ReplayDue, RestoreFailed, Pending
  <2>2. st'.req = st.req /\ st'.sw = st.sw
    BY <1>3, TypesSplit DEF LatchReplay, RotInv, Typed, Files
  <2>3. Holder.pc # "off" /\ Agrees BY HolderOn, MemAgrees
  <2>4. ledger' = ledger BY <1>3 DEF LatchReplay
  <2>5. Holder'.pc = "replay"
    <3>1. Go("replay") BY <1>3 DEF LatchReplay
    <3> QED BY <3>1, GoPlaces DEF HolderPcs
  <2>6. Agrees' BY <2>5 DEF RotInv, Knows
  <2>7. mem'.pending = mem.pending BY <2>3, <2>4, <2>6 DEF Agrees
  <2> QED BY <1>1, <2>1, <2>2, <2>5, <2>7, CarriesOn DEF HolderPcs
<1>4. CASE ~ExecuteRun /\ ~LatchReplay
  BY <1>1, <1>4, HolderGoesOn, CarriesOn
<1> QED BY <1>2, <1>3, <1>4

-----------------------------------------------------------------------------
(* The run keeps to the request and the corner it was called with.         *)

RunActs(p) ==
  \/ \E pc \in Pcs \ StartPcs : Goes(p, pc)
  \/ \E res \in Outcomes : Returns(p, res)
  \/ \E pc \in Pcs \ StartPcs, x \in BOOLEAN : act' = PutStop(p, pc, x)
  \/ \E pc \in Pcs \ StartPcs, res \in Outcomes : act' = PutResult(p, pc, res)
  \/ Begin(p) \/ ReplayStart(p) \/ SubmitStart(p)

LEMMA RunStepActs ==
  ASSUME RotInv, NEW p \in Actors, RunStep(p)
  PROVE  RunActs(p)
<1> USE DEF RunActs
<1>1. /\ {"restore", "play", "restoring", "clear", "result"} \subseteq Pcs \ StartPcs
  BY DEF Pcs, RunPcs, StartPcs
<1>2. act[p] \in Procs /\ st \in Files BY ActFields, TypesSplit DEF RotInv, Typed
<1>3. CASE ReplayCompleted(p) \/ ReplayRestore(p) \/ ReplayActive(p) \/ Raises(p)
  BY <1>1, <1>3, Answers DEF ReplayCompleted, ReplayRestore, ReplayActive, Raises
<1>4. CASE LateLanded(p) \/ LateEnded(p) \/ LateCancelled(p) \/ LateUnknown(p)
  BY <1>1, <1>4, Answers DEF LateLanded, LateEnded, LateCancelled, LateUnknown
<1>5. CASE StillQueued(p) \/ SwitchFails(p) \/ GoOnAir(p) \/ BindFails(p)
  BY <1>1, <1>5, Answers DEF StillQueued, SwitchFails, GoOnAir, BindFails
<1>6. CASE Finish(p)
  <2> DEFINE x == At(p, "play") /\ Requested
  <2>1. x \in BOOLEAN /\ act' = PutStop(p, "restore", x) BY <1>6 DEF Finish, PutStop
  <2> HIDE DEF x
  <2> QED BY <1>1, <2>1
<1>7. CASE FinishRaises(p) BY <1>7, Answers DEF FinishRaises
<1>8. CASE PlayOver(p)
  <2>1. act[p].pc = "play" BY <1>8 DEF PlayOver, At
  <2>2. p = "holder" BY <2>1, RunPlaces DEF Actors, RunPcs, EndPcs
  <2>3. Holder.pc = "play" BY <2>1, <2>2 DEF Holder
  <2>4. st.status \in {"failed", "restoring", "completed", "interrupted"}
    BY <1>2, <1>8, <2>3 DEF PlayOver, RotInv, Knows, Files, BUSY, Ended
  <2>5. st.status \in Outcomes BY <2>4, Answers
  <2>6. Returns(p, st.status) \/ act' = PutResult(p, "clear", st.status)
    BY <1>8 DEF PlayOver, PutResult
  <2> QED BY <1>1, <2>5, <2>6
<1>9. CASE NothingToStop(p)
  <2>1. act[p].pc = "stop" BY <1>9 DEF NothingToStop, At
  <2>2. p = "operator" BY <2>1, RunPlaces DEF Actors, RunPcs
  <2>3. Returns(p, "none") BY <1>9, <2>2 DEF NothingToStop, Returns
  <2> QED BY <2>3, Answers
<1>10. CASE SubmitRestore(p) BY <1>1, <1>10 DEF SubmitRestore
<1>11. CASE Complete(p)
  <2>1. Returns(p, "completed") \/ act' = PutResult(p, "clear", "completed")
    BY <1>11 DEF Complete, PutResult
  <2> QED BY <1>1, <2>1, Answers
<1>12. CASE ClearStop(p)
  <2>1. Returns(p, act[p].res) /\ act[p].res \in Outcomes BY <1>2, <1>12 DEF ClearStop, Procs
  <2> QED BY <2>1
<1> QED
  BY <1>3, <1>4, <1>5, <1>6, <1>7, <1>8, <1>9, <1>10, <1>11, <1>12 DEF RunStep

LEMMA RunHolder ==
  ASSUME RotInv, NEW p \in Actors, RunStep(p)
  PROVE  \/ p = "operator" /\ Holder' = Holder
         \/ /\ p = "holder" /\ Holder.pc \in RunPcs /\ Holder'.pc \in RunPcs
            /\ Holder'.corner = Holder.corner /\ Holder'.req = Holder.req
            /\ \/ Holder'.pc \notin StartPcs
               \/ Begin("holder") \/ ReplayStart("holder") \/ SubmitStart("holder")
<1>1. PICK n : RunMoves(p, n) BY RunStepMoves
<1>2. n \in Procs /\ act' = [act EXCEPT ![p] = n] BY <1>1 DEF RunMoves, Leaves
<1>3. CASE p = "operator"
  <2>1. Holder' = Holder BY <1>2, <1>3, OperatorBecomes DEF RotInv
  <2> QED BY <1>3, <2>1
<1>4. CASE p = "holder"
  <2>1. Holder' = n BY <1>2, <1>4, HolderBecomes DEF RotInv
  <2>2. Holder.pc \in RunPcs /\ Holder'.pc \in RunPcs /\ Holder'.req = Holder.req
    BY <1>1, <1>4, <2>1 DEF RunMoves, Learns
  <2>3. act \in [Actors -> Procs] /\ Holder \in Procs /\ "holder" \in Actors
    BY ActFields DEF RotInv, Actors
  <2>4. RunActs("holder") BY <1>4, RunStepActs
  <2>5. ASSUME NEW pc \in Pcs, Goes("holder", pc)
        PROVE  Holder'.corner = Holder.corner /\ Holder'.pc = pc
    BY <2>3, <2>5 DEF Goes, Holder, Procs
  <2>6. ASSUME NEW res \in Outcomes, Returns("holder", res)
        PROVE  Holder'.corner = Holder.corner /\ Holder'.pc = "result"
    BY <2>3, <2>6 DEF Returns, Holder, Procs
  <2>7. ASSUME NEW pc \in Pcs, NEW x \in BOOLEAN, act' = PutStop("holder", pc, x)
        PROVE  Holder'.corner = Holder.corner /\ Holder'.pc = pc
    BY <2>3, <2>7 DEF PutStop, Holder, Procs
  <2>8. ASSUME NEW pc \in Pcs, NEW res \in Outcomes, act' = PutResult("holder", pc, res)
        PROVE  Holder'.corner = Holder.corner /\ Holder'.pc = pc
    BY <2>3, <2>8 DEF PutResult, Holder, Procs
  <2>9. Begin("holder") \/ ReplayStart("holder") \/ SubmitStart("holder")
          => \E pc \in Pcs : Goes("holder", pc)
    <3>1. {"submit", "resubmit", "starting", "resuming"} \subseteq Pcs BY DEF Pcs, RunPcs
    <3> QED BY <3>1 DEF Begin, ReplayStart, SubmitStart
  <2>10. Holder'.corner = Holder.corner
    BY <2>4, <2>5, <2>6, <2>7, <2>8, <2>9 DEF RunActs
  <2>11. \/ Holder'.pc \notin StartPcs
         \/ Begin("holder") \/ ReplayStart("holder") \/ SubmitStart("holder")
    BY <2>4, <2>5, <2>6, <2>7, <2>8 DEF RunActs, StartPcs
  <2> QED BY <1>4, <2>2, <2>10, <2>11
<1> QED BY <1>3, <1>4 DEF Actors

LEMMA OperatorAlone ==
  ASSUME RotInv, RunStep("operator"), st.status = "failed"
  PROVE  st' = st
<1> DEFINE p == "operator"
<1>1. p \in Actors /\ act[p] = Operator BY DEF Actors, Operator
<1>2. act[p].pc \in {"off", "stop", "mark"} BY <1>1 DEF RotInv, AtWork, Works, Stopping
<1> QED
  BY <1>2
  DEF RunStep, Begin, ReplayCompleted, ReplayStart, ReplayRestore, ReplayActive, Raises, LateLanded,
      LateEnded, LateCancelled, LateUnknown, Late, Replays, Entered, At, SubmitStart, StillQueued,
      SwitchFails, GoOnAir, BindFails, Starts, Awaits, Finish, FinishRaises, PlayOver,
      NothingToStop, SubmitRestore, Complete, ClearStop

BookInv == Once /\ Imported /\ Carries

(* What the ledger and the inbox say of requests stays as it is.           *)
SamePlaces == /\ ledger'.pending = ledger.pending /\ ledger'.queued = ledger.queued
              /\ ledger'.rel = ledger.rel /\ ledger'.slot = ledger.slot
              /\ UNCHANGED <<inbox, served, accepted>>

LEMMA PlacesKept ==
  ASSUME RotInv, Once, Imported, SamePlaces, due \subseteq due',
         Holder'.pc \in {"observe", "choose"} => Holder.pc \in {"observe", "choose"},
         st'.req = st.req \/ st'.req = ledger.pending.req
  PROVE  Once' /\ Imported'
<1>1. Keeps BY DEF SamePlaces, Keeps
<1>2. Once' BY <1>1, OnceSame DEF SamePlaces
<1>3. Imported' BY ImportedKept DEF SamePlaces
<1> QED BY <1>2, <1>3

LEMMA RunBooks ==
  ASSUME RotInv, BookInv, NEW p \in Actors, Run(p)
  PROVE  /\ BookInv'
         /\ st'.req = st.req \/ st'.req = ledger.pending.req
<1>1. /\ RunStep(p) /\ UNCHANGED <<ledger, mem, inbox, due, served, accepted>>
  BY DEF Run, Outside, Ghosts
<1>2. SamePlaces BY <1>1 DEF SamePlaces
<1>3. PICK n : RunMoves(p, n) BY <1>1, RunStepMoves
<1>4. st'.req = st.req \/ (p = "holder" /\ st'.req = ledger.pending.req)
  BY <1>3
  DEF RunMoves, Advances, FileStays, FileGoesOn, FileBegins, RotInv, Knows, Agrees, RunPcs
<1>5. CASE p = "operator" /\ Holder' = Holder
  <2>1. Once' /\ Imported' BY <1>1, <1>2, <1>4, <1>5, PlacesKept DEF BookInv
  <2>2. Holder.pc = "replay" => st'.sw = st.sw
    BY <1>1, <1>5, OperatorAlone DEF RotInv, Knows
  <2>3. Carries' BY <1>1, <1>4, <1>5, <2>2 DEF BookInv, Carries
  <2> QED BY <1>4, <2>1, <2>3 DEF BookInv
<1>6. CASE /\ p = "holder" /\ Holder.pc \in RunPcs /\ Holder'.pc \in RunPcs
           /\ Holder'.corner = Holder.corner /\ Holder'.req = Holder.req
           /\ \/ Holder'.pc \notin StartPcs
              \/ Begin("holder") \/ ReplayStart("holder") \/ SubmitStart("holder")
  <2>1. /\ "off" \notin RunPcs /\ "observe" \notin RunPcs /\ "choose" \notin RunPcs
        /\ "replay" \notin RunPcs
    BY DEF RunPcs
  <2>2. Once' /\ Imported' BY <1>1, <1>2, <1>4, <1>6, <2>1, PlacesKept DEF BookInv
  <2>3. Holder'.pc \in StartPcs => st'.req = Holder.req
    <3>1. CASE Begin("holder")
      <4>1. st \in Files BY TypesSplit DEF RotInv, Typed
      <4> QED BY <3>1, <4>1 DEF Begin, Holder, Files
    <3>2. CASE ReplayStart("holder") BY <3>2 DEF ReplayStart, Replays, Mine, Holder
    <3>3. CASE SubmitStart("holder")
      BY <3>3 DEF SubmitStart, BookInv, Carries, Holder, StartPcs
    <3> QED BY <1>6, <3>1, <3>2, <3>3
  <2>4. Carries' BY <1>1, <1>6, <2>1, <2>3 DEF BookInv, Carries
  <2> QED BY <1>4, <2>2, <2>4 DEF BookInv
<1> QED BY <1>1, <1>5, <1>6, RunHolder

LEMMA TickBooks ==
  ASSUME RotInv, BookInv, Tick
  PROVE  BookInv' /\ Steady
<1> DEFINE pc == IF ledger.status = "recovery_required" THEN "latched" ELSE "import"
<1>1. pc \in HolderPcs /\ pc \in Pcs /\ pc \notin {"observe", "choose", "replay"}
  BY DEF HolderPcs, Pcs
<1>2. Goes("holder", pc) BY DEF Tick
<1> HIDE DEF pc
<1>3. Holder'.pc = pc BY <1>1, <1>2, GoesFields DEF RotInv, HolderGoes
<1>4. mem' = ledger /\ UNCHANGED <<ledger, inbox, due, served, accepted, st>>
  BY DEF Tick, Outside, Ghosts
<1>5. SamePlaces BY <1>4 DEF SamePlaces
<1>6. Once' /\ Imported' BY <1>1, <1>3, <1>4, <1>5, PlacesKept DEF BookInv
<1>7. Upward BY <1>4, HistTyped DEF Upward
<1>8. Carries' BY <1>1, <1>3, <1>7, CarriesOn
<1> QED BY <1>4, <1>6, <1>7, <1>8 DEF BookInv, Steady

LEMMA RecoverReconciledBooks ==
  ASSUME RotInv, BookInv, RecoverReconciled
  PROVE  BookInv' /\ Steady
<1>1. "resolve" \in HolderPcs /\ "resolve" \in Pcs BY DEF HolderPcs, Pcs
<1>2. Holder'.pc = "resolve" BY <1>1, GoesFields DEF RotInv, HolderGoes, RecoverReconciled
<1>3. mem' = ledger /\ UNCHANGED <<ledger, inbox, due, served, accepted>>
  BY DEF RecoverReconciled, Outside, Ghosts
<1>4. st'.req = st.req BY FileWrites DEF RecoverReconciled, RotInv
<1>5. SamePlaces BY <1>3 DEF SamePlaces
<1>6. Once' /\ Imported' BY <1>2, <1>3, <1>4, <1>5, PlacesKept DEF BookInv
<1>7. Upward BY <1>3, HistTyped DEF Upward
<1>8. Carries' BY <1>1, <1>2, <1>7, CarriesOn
<1> QED BY <1>3, <1>6, <1>7, <1>8 DEF BookInv, Steady

LEMMA RecoverResolvedBooks ==
  ASSUME RotInv, BookInv, RecoverResolved
  PROVE  /\ BookInv' /\ UNCHANGED <<plane, receipt, st, used>>
         /\ \/ Steady /\ UNCHANGED served
            \/ Settles /\ st.status \in Ended
<1> DEFINE r == ledger.pending.req
<1>1. Holder.pc = "off" BY HolderAt DEF RecoverResolved, Recoverable
<1>2. /\ UNCHANGED <<plane, receipt, st, used, inbox, due, accepted>> /\ Holder' = Holder
  BY DEF RecoverResolved, retroVars, Outside, Ghosts, Holder
<1>3. ledger \in Ledgers BY TypesSplit DEF RotInv, Typed
<1>4. Accounts BY RecoverResolvedWorks DEF HolderWorks
<1>5. CASE /\ st.req = r /\ r # NoReq /\ st.status \in Ended
           /\ Saves([Closed(ledger) EXCEPT !.status = "ready"])
           /\ served' = served \cup {r}
  <2> DEFINE l == [Closed(ledger) EXCEPT !.status = "ready"]
  <2>1. /\ l.pending = NoPending /\ l.slot = ledger.slot /\ l.hist = Spent(ledger)
        /\ l.queued = ledger.queued
    BY <1>3, ResolvedFields
  <2>2. ledger' = l BY <1>5 DEF Saves
  <2> HIDE DEF l
  <2>3. r \in Req BY <1>3, <1>5, LedgerFields
  <2>4. Upward BY <1>1, <1>2, <1>3, <2>1, <2>2, SpentTops DEF Upward
  <2>5. Settles BY <1>3, <1>5, <2>1, <2>2, <2>3, <2>4, SpentTops DEF Settles
  <2>6. Once' BY <1>2, <1>4, <2>5, OnceSettles DEF BookInv
  <2>7. Imported' BY <1>2, <2>1, <2>2, ImportedKept DEF BookInv
  <2>8. Carries' BY <1>1, <1>2, <2>4, CarriesOn DEF HolderPcs
  <2> QED BY <1>2, <1>5, <2>5, <2>6, <2>7, <2>8 DEF BookInv
<1>6. CASE Saves([ledger EXCEPT !.status = "waiting"]) /\ UNCHANGED served
  <2> DEFINE l == [ledger EXCEPT !.status = "waiting"]
  <2>1. /\ l.pending = ledger.pending /\ l.slot = ledger.slot /\ l.hist = ledger.hist
        /\ l.queued = ledger.queued /\ l.rel = ledger.rel
    BY <1>3, StatusFields
  <2>2. ledger' = l BY <1>6 DEF Saves
  <2> HIDE DEF l
  <2>3. Upward BY <1>1, <1>2, <2>1, <2>2, HistTyped DEF Upward
  <2>4. SamePlaces BY <1>2, <1>6, <2>1, <2>2 DEF SamePlaces
  <2>5. Once' /\ Imported' BY <1>1, <1>2, <2>4, PlacesKept DEF BookInv
  <2>6. Carries' BY <1>1, <1>2, <2>3, CarriesOn DEF HolderPcs
  <2> QED BY <1>2, <1>6, <2>1, <2>2, <2>3, <2>5, <2>6 DEF BookInv, Steady
<1> QED BY <1>5, <1>6 DEF RecoverResolved

(* The holder's copy stays where the ledger does.                          *)
LEMMA OtherBooks ==
  ASSUME RotInv, BookInv, SamePlaces, due \subseteq due',
         Holder' = Holder \/ Holder'.pc = "off",
         mem'.slot = mem.slot, mem'.pending = mem.pending,
         \A c \in Corner : ledger.hist[c] <= mem.hist[c] => ledger'.hist[c] <= mem'.hist[c],
         st'.req = st.req, st'.sw = st.sw
  PROVE  BookInv'
<1>1. Once' /\ Imported' BY PlacesKept DEF BookInv
<1>2. Carries' BY DEF BookInv, Carries, SamePlaces, RunPcs, StartPcs
<1> QED BY <1>1, <1>2 DEF BookInv

LEMMA InboxBooks ==
  ASSUME RotInv, BookInv
  PROVE  /\ \A m \in Manual, c \in Corner, timed \in BOOLEAN : QueueManual(m, c, timed) => BookInv'
         /\ CancelScheduled => BookInv'
<1>1. /\ NoReq \notin Manual /\ NoRequest.req = NoReq
  BY RotationAssumption, RetroAssumption, PendingTyped
<1>2. ASSUME NEW m \in Manual, NEW c \in Corner, NEW timed \in BOOLEAN, QueueManual(m, c, timed)
      PROVE  BookInv'
  <2>1. /\ inbox'.req = m /\ m \notin accepted /\ accepted' = accepted \cup {m}
        /\ ledger.queued = NoRequest /\ UNCHANGED <<ledger, mem, st, act, due, served>>
    BY <1>2 DEF QueueManual, retroVars
  <2>2. Taken' = Taken BY <2>1 DEF Taken
  <2>3. m \notin Taken BY <1>1, <2>1 DEF BookInv, Once
  <2>4. Once' BY <1>1, <2>1, <2>2, <2>3 DEF BookInv, Once
  <2>5. Imported' BY <2>1 DEF Imported
  <2>6. Carries' BY <2>1 DEF BookInv, Carries, Holder
  <2> QED BY <2>4, <2>5, <2>6 DEF BookInv
<1>3. ASSUME CancelScheduled PROVE BookInv'
  <2>1. inbox' = NoRequest /\ UNCHANGED <<ledger, mem, st, act, due, served, accepted>>
    BY <1>3 DEF CancelScheduled, retroVars
  <2>2. Taken' = Taken BY <2>1 DEF Taken
  <2>3. Once' BY <1>1, <2>1, <2>2 DEF BookInv, Once
  <2>4. Imported' BY <2>1 DEF Imported
  <2>5. Carries' BY <2>1 DEF BookInv, Carries, Holder
  <2> QED BY <2>3, <2>4, <2>5 DEF BookInv
<1> QED BY <1>2, <1>3

LEMMA SameLedgers ==
  ASSUME RotInv, BookInv, UNCHANGED <<ledger, mem, inbox, served, accepted>>, due \subseteq due',
         Holder' = Holder \/ Holder'.pc = "off", st'.req = st.req, st'.sw = st.sw
  PROVE  BookInv'
<1>1. SamePlaces BY DEF SamePlaces
<1> QED BY <1>1, OtherBooks

LEMMA FlagsBooks ==
  ASSUME RotInv, BookInv,
         \/ \E m \in Manual : TriggerPasses(m)
         \/ \E c \in Pausable : Pause(c)
         \/ StopManual \/ WriteStop \/ SlotOver \/ PlaneMoves \/ UNCHANGED vars
  PROVE  BookInv' /\ UNCHANGED <<ledger, mem, served>>
<1>1. /\ UNCHANGED <<ledger, mem, inbox, served, accepted>> /\ due \subseteq due'
  BY DEF TriggerPasses, Pause, StopManual, WriteStop, SlotOver, PlaneMoves, vars, rotVars,
         Outside, Ghosts
<1>2. st'.req = st.req /\ st'.sw = st.sw
  <2>1. CASE SlotOver
    <3>1. st \in Files BY TypesSplit DEF RotInv, Typed
    <3> QED BY <2>1, <3>1 DEF SlotOver, Overrun, Files
  <2>2. CASE PlaneMoves
    BY <2>2 DEF PlaneMoves, PlaneStep, Repair, Claim, Commit, RollBack, Refuse, Break, Reject, Settled
  <2> QED
    BY <2>1, <2>2 DEF TriggerPasses, Pause, StopManual, WriteStop, vars, retroVars
<1>3. Holder' = Holder
  <2>1. CASE StopManual \/ WriteStop
    <3>1. act \in [Actors -> Procs] BY ActFields DEF RotInv
    <3> QED BY <2>1, <3>1 DEF StopManual, WriteStop, Holder, Actors
  <2>2. CASE PlaneMoves
    BY <2>2
    DEF PlaneMoves, PlaneStep, Repair, Claim, Commit, RollBack, Refuse, Break, Reject, Settled, Holder
  <2> QED
    BY <2>1, <2>2 DEF TriggerPasses, Pause, SlotOver, Overrun, vars, retroVars, Holder
<1> QED BY <1>1, <1>2, <1>3, SameLedgers

LEMMA CrashBooks ==
  ASSUME RotInv, BookInv, NEW p \in Actors, Crash(p)
  PROVE  BookInv'
<1>1. act \in [Actors -> Procs] BY ActFields DEF RotInv
<1>2. Holder' = Holder \/ Holder'.pc = "off"
  BY <1>1, OffTyped DEF Crash, Holder, Actors
<1>3. UNCHANGED <<ledger, mem, inbox, served, accepted, due, st>> BY DEF Crash, Outside
<1> QED BY <1>2, <1>3, SameLedgers

LEMMA DayFields ==
  ASSUME RotInv, Day
  PROVE  /\ SamePlaces /\ mem'.slot = mem.slot /\ mem'.pending = mem.pending
         /\ \A c \in Corner : /\ ledger'.hist[c] = Less(ledger.hist[c])
                              /\ mem'.hist[c] = Less(mem.hist[c])
         /\ \A f \in {"status", "corner", "req", "prev", "sw", "code", "retry"} : st'[f] = st[f]
         /\ UNCHANGED <<plane, receipt, act, due, served>>
<1>1. ledger \in Ledgers /\ mem \in Ledgers /\ st \in Files BY TypesSplit DEF RotInv, Typed
<1> DEFINE l == [ledger EXCEPT !.hist = Aged(ledger.hist)]
           k == [mem EXCEPT !.hist = Aged(mem.hist)]
<1>2. /\ \A f \in {"pending", "queued", "rel", "status"} : l[f] = ledger[f]
      /\ l.slot = ledger.slot /\ l.hist = Aged(ledger.hist)
  BY <1>1, AgedFields
<1>3. /\ \A f \in {"pending", "queued", "rel", "status"} : k[f] = mem[f]
      /\ k.slot = mem.slot /\ k.hist = Aged(mem.hist)
  BY <1>1, AgedFields
<1>4. ledger' = l /\ mem' = k BY DEF Day
<1> HIDE DEF l, k
<1>5. /\ UNCHANGED <<inbox, served, accepted, due, plane, receipt, act>>
  BY DEF Day, Plane, Outside
<1>6. SamePlaces BY <1>2, <1>4, <1>5 DEF SamePlaces
<1>7. \A c \in Corner : /\ ledger'.hist[c] = Less(ledger.hist[c])
                        /\ mem'.hist[c] = Less(mem.hist[c])
  BY <1>2, <1>3, <1>4 DEF Aged
<1>8. \A f \in {"status", "corner", "req", "prev", "sw", "code", "retry"} : st'[f] = st[f]
  BY <1>1 DEF Day, Files
<1> QED BY <1>3, <1>4, <1>5, <1>6, <1>7, <1>8

LEMMA LessMonotone == \A a, b \in Nat : a <= b => Less(a) <= Less(b) /\ Less(a) \in Nat
BY DEF Less

LEMMA DayBooks ==
  ASSUME RotInv, BookInv, Day
  PROVE  BookInv'
<1>1. \A c \in Corner : ledger.hist[c] \in Nat /\ mem.hist[c] \in Nat
  BY HistTyped, RetroAssumption
<1>2. \A c \in Corner : ledger.hist[c] <= mem.hist[c] => ledger'.hist[c] <= mem'.hist[c]
  BY <1>1, DayFields, LessMonotone
<1> QED BY <1>2, DayFields, OtherBooks DEF Holder

LEMMA HolderStepBooks ==
  ASSUME RotInv, RotInv', BookInv, HolderStep
  PROVE  BookInv'
BY HolderOnce, HolderImported, HolderCarries DEF BookInv

-----------------------------------------------------------------------------
(* What is in the air: the steps that leave the plane and the switches     *)

Still     == plane' = plane /\ receipt' = receipt /\ used' = used /\ served \subseteq served'
SameNames == /\ st'.req = st.req /\ st'.corner = st.corner /\ st'.prev = st.prev
             /\ st'.retry = st.retry
Accounted(c) == plane.game # c /\ used[c] <= ledger.hist[c]

LEMMA AirTurns ==
  ASSUME InTheAir, Still, SameNames, Stands', Coming',
         \A w \in Ways : st.req \in Req /\ Answer(w) = "queued" => Open(w)',
         \A c \in Corner : Accounted(c) \/ Unsettled(c) => Accounted(c)' \/ Unsettled(c)',
         plane.game \in Corner => st'.status \in BUSY
  PROVE  InTheAir'
<1>1. Sent' BY DEF InTheAir, Sent, Still, SameNames
<1>2. \A w : Answer(w)' = Answer(w) BY DEF Answer, Still, SameNames
<1>3. Switches'
  <2> SUFFICES ASSUME st'.req \in Req, NEW w \in Ways, Answer(w)' # "none"
               PROVE  /\ receipt'[<<st'.req, w>>].to = IF w = Start THEN st'.corner ELSE Base
                      /\ w # Start => Answer(Start)' = "succeeded"
                      /\ Answer(w)' = "queued" => Open(w)'
                      /\ Answer(w)' = "succeeded" /\ w # Start => plane'.game = Base
    BY DEF Switches
  <2>1. st.req \in Req /\ st'.req = st.req /\ st'.corner = st.corner BY DEF SameNames
  <2>2. Answer(w)' = Answer(w) /\ Answer(Start)' = Answer(Start) BY <1>2
  <2>3. /\ receipt[<<st.req, w>>].to = IF w = Start THEN st.corner ELSE Base
        /\ w # Start => Answer(Start) = "succeeded"
        /\ Answer(w) = "succeeded" /\ w # Start => plane.game = Base
    BY <2>1, <2>2 DEF InTheAir, Switches
  <2>4. Answer(w)' = "queued" => Open(w)' BY <2>1, <2>2
  <2> QED BY <2>1, <2>2, <2>3, <2>4 DEF Still
<1>4. OnPlane' BY DEF InTheAir, OnPlane, Accounted, Still
<1> QED BY <1>1, <1>3, <1>4 DEF InTheAir

(* A use that is counted stays counted.                                    *)
LEMMA CountsUp ==
  ASSUME RotInv, RotInv', Still, NEW c \in Corner, ledger.hist[c] <= ledger'.hist[c], Accounted(c)
  PROVE  Accounted(c)'
<1>1. used[c] \in Int /\ ledger.hist[c] \in Int BY HistTyped, RetroAssumption
<1>2. ledger' \in Ledgers BY DEF RotInv, TypeOK
<1>3. ledger'.hist[c] \in Int BY <1>2, LedgerFields, RetroAssumption
<1> QED BY <1>1, <1>3 DEF Accounted, Still

(* The file stays where it is, and so does the reservation.                *)
SameRun == SameNames /\ st'.status = st.status /\ st'.sw = st.sw /\ st'.code = st.code
Holds   == /\ \A c \in Corner : ledger.hist[c] <= ledger'.hist[c]
           /\ ledger'.pending.req = ledger.pending.req
           /\ ledger'.pending.corner = ledger.pending.corner

LEMMA AirStill ==
  ASSUME RotInv, RotInv', InTheAir, Still, SameRun, Holds
  PROVE  InTheAir'
<1>1. \A w \in Ways : Answer(w)' = Answer(w) BY DEF Answer, Still, SameRun, SameNames
<1>2. Start \in Ways BY RetroAssumption DEF Ways, Start
<1>3. Stands' BY <1>1, <1>2 DEF InTheAir, Stands, SameRun, SameNames, Holds
<1>4. Coming' BY <1>1, <1>2 DEF InTheAir, Coming, SameRun, SameNames, Holds, Still
<1>5. \A w \in Ways : Open(w) => Open(w)' BY DEF Open, SameRun, SameNames, Holds
<1>6. \A w \in Ways : st.req \in Req /\ Answer(w) = "queued" => Open(w)'
  BY <1>5 DEF InTheAir, Switches
<1>7. \A c \in Corner : Unsettled(c) => Unsettled(c)'
  BY <1>1, <1>2 DEF Unsettled, SameRun, SameNames, Holds
<1>8. \A c \in Corner : Accounted(c) => Accounted(c)' BY CountsUp DEF Holds
<1>9. plane.game \in Corner => st'.status \in BUSY BY DEF InTheAir, OnPlane, SameRun
<1> QED BY <1>3, <1>4, <1>6, <1>7, <1>8, <1>9, AirTurns DEF SameRun

(* The holder's steps that leave the file                                  *)

LEMMA AirSettles ==
  ASSUME RotInv, RotInv', InTheAir, Still, st' = st, Settles,
         st.status \in Ended \/ SlotReusable(ledger.pending.req, ledger.pending.corner)
  PROVE  InTheAir'
<1>1. SameNames /\ \A w : Answer(w)' = Answer(w) BY DEF SameNames, Answer, Still
<1>2. ledger'.pending.req = NoReq /\ NoReq \notin Req
  BY PendingTyped, RetroAssumption DEF Settles
<1>3. Stands' BY <1>1, <1>2 DEF InTheAir, Stands
<1>4. Coming' BY <1>1, <1>2 DEF InTheAir, Coming, Still
<1>5. ASSUME NEW w \in Ways, st.req \in Req, Answer(w) = "queued"
      PROVE  Open(w)'
  <2>1. Open(w) BY <1>5 DEF InTheAir, Switches
  <2>2. ~(w = Start /\ st.status = "starting" /\ st.req = ledger.pending.req)
    BY <1>5 DEF SlotReusable, Answer, Ended
  <2> QED BY <2>1, <2>2 DEF Open
<1>6. ASSUME NEW c \in Corner, Unsettled(c)
      PROVE  Accounted(c)' \/ Unsettled(c)'
  <2>1. CASE st.status = "failed" BY <1>1, <1>6, <2>1 DEF Unsettled
  <2>2. CASE st.status # "failed"
    <3>1. st.req \in Req /\ st.req = ledger.pending.req /\ c = ledger.pending.corner
      BY <1>6, <2>2 DEF Unsettled, InTheAir, Stands
    <3>2. plane.game # c
      BY <2>2, <3>1 DEF InTheAir, OnPlane, SlotReusable, FinishedOwner, Ended, BUSY
    <3>3. used[c] <= Cool BY HistTyped, RetroAssumption
    <3> QED BY <3>1, <3>2, <3>3 DEF Accounted, Settles, Still
  <2> QED BY <2>1, <2>2
<1>7. \A c \in Corner : Accounted(c) => Accounted(c)' BY CountsUp DEF Settles, Upward
<1>8. plane.game \in Corner => st'.status \in BUSY BY DEF InTheAir, OnPlane
<1> QED BY <1>1, <1>3, <1>4, <1>5, <1>6, <1>7, <1>8, AirTurns

LEMMA AirReserves ==
  ASSUME RotInv, RotInv', BookInv, InTheAir, Still, st' = st, Reserving, Holder.pc # "off"
  PROVE  InTheAir'
<1> DEFINE r == ledger'.pending.req
           c == ledger'.pending.corner
<1>1. SameNames /\ \A w : Answer(w)' = Answer(w) BY DEF SameNames, Answer, Still
<1>2. /\ r \in Req /\ r # st.req /\ c \in Corner /\ st.status \in Ended
  BY RetroAssumption DEF Reserving, Takes, BookInv, Once
<1>3. ledger.pending.req = NoReq /\ NoReq \notin Req
  BY PendingTyped, RetroAssumption DEF Reserving, Takes
<1>4. st.status \notin BUSY BY <1>2 DEF Ended, BUSY
<1>5. \A d \in Corner : ~Unsettled(d) BY <1>3, <1>4 DEF Unsettled, BUSY
<1>6. \A d \in Corner : Accounted(d) BY <1>5 DEF InTheAir, OnPlane, Accounted
<1>7. \A d \in Corner : Accounted(d)' BY <1>6, CountsUp DEF Reserving, Upward
<1>8. Stands' BY <1>1, <1>2 DEF InTheAir, Stands
<1>9. r \notin Manual => used[c] = 0
  <2>1. used[c] <= ledger.hist[c] /\ ledger.hist[c] <= mem.hist[c]
    BY <1>2, <1>6 DEF Accounted, BookInv, Carries
  <2>2. used[c] \in Nat /\ ledger.hist[c] \in Nat BY <1>2, HistTyped, RetroAssumption
  <2> QED BY <2>1, <2>2 DEF Reserving
<1>10. Coming' BY <1>1, <1>2, <1>4, <1>9 DEF Coming, Still, BUSY
<1>11. \A w \in Ways : ~(st.req \in Req /\ Answer(w) = "queued")
  BY <1>4 DEF InTheAir, Switches, Open, BUSY
<1> QED
  BY <1>1, <1>4, <1>7, <1>8, <1>10, <1>11, AirTurns DEF InTheAir, OnPlane

-----------------------------------------------------------------------------
(* The steps that end the run in the file, or take it further              *)

LEMMA AirEnds ==
  ASSUME RotInv, RotInv', InTheAir, Still, SameNames, Holds \/ Settles, st'.status \in Ended,
         plane.game \notin Corner, \A w \in Ways : ~(st.req \in Req /\ Answer(w) = "queued"),
         \A c \in Corner : Unsettled(c) => st.req = ledger.pending.req
  PROVE  InTheAir'
<1>1. \A w : Answer(w)' = Answer(w) BY DEF SameNames, Answer, Still
<1>2. Settles => ledger'.pending.req = NoReq /\ NoReq \notin Req
  BY PendingTyped, RetroAssumption DEF Settles
<1>3. st'.status \notin BUSY BY DEF Ended, BUSY
<1>4. Stands' BY <1>1, <1>2, <1>3 DEF InTheAir, Stands, Holds, SameNames, BUSY
<1>5. Coming'
  <2>1. CASE Settles BY <1>2, <1>3, <2>1 DEF Coming, BUSY
  <2>2. CASE Holds BY <1>3, <2>2 DEF InTheAir, Coming, Holds, SameNames, BUSY, Still
  <2> QED BY <2>1, <2>2
<1>6. \A c \in Corner : Accounted(c) => Accounted(c)' BY CountsUp DEF Holds, Settles, Upward
<1>7. ASSUME NEW c \in Corner, Unsettled(c)
      PROVE  Accounted(c)' \/ Unsettled(c)'
  <2>1. st.req \in Req /\ st.req = ledger.pending.req /\ c = ledger.pending.corner /\ st.corner = c
    BY <1>7 DEF Unsettled, InTheAir, Stands
  <2>2. CASE Holds BY <1>1, <1>7, <2>1, <2>2 DEF Unsettled, Holds, SameNames
  <2>3. CASE Settles
    <3>1. used[c] <= Cool BY HistTyped, RetroAssumption
    <3> QED BY <2>1, <2>3, <3>1 DEF Accounted, Settles, Still
  <2> QED BY <2>2, <2>3
<1> QED BY <1>4, <1>5, <1>6, <1>7, AirTurns

(* A start that has been answered, and not by being on air.                *)
LEMMA NotLanded ==
  ASSUME InTheAir, st.req \in Req, Answer(Start) \in Terminal \ {"succeeded"}
  PROVE  /\ plane.game \notin Corner
         /\ \A w \in Ways : Answer(w) # "queued"
<1>1. plane.game \notin Corner BY DEF InTheAir, OnPlane, Unsettled
<1>2. \A w \in Ways : Answer(w) # "queued" BY DEF InTheAir, Switches, Terminal
<1> QED BY <1>1, <1>2

LEMMA AirAdvances ==
  ASSUME RotInv, RotInv', InTheAir, Still, SameNames, Holds, Stands',
         st.status \in {"starting", "active", "restoring"},
         st'.status \in {"active", "restoring", "failed"},
         \A w \in Ways : st.req \in Req /\ Answer(w) = "queued" => Open(w)'
  PROVE  InTheAir'
<1>1. \A w : Answer(w)' = Answer(w) BY DEF SameNames, Answer, Still
<1>2. st.status \notin Ended BY DEF Ended
<1>3. Coming' BY <1>2 DEF InTheAir, Coming, Holds, SameNames
<1>4. \A c \in Corner : Accounted(c) => Accounted(c)' BY CountsUp DEF Holds
<1>5. \A c \in Corner : Unsettled(c) => Unsettled(c)' BY <1>1 DEF Unsettled, Holds, SameNames
<1>6. st'.status \in BUSY BY DEF BUSY
<1> QED BY <1>3, <1>4, <1>5, <1>6, AirTurns

(* A new switch of the run in the file, or one sent again.                 *)
LEMMA AirSends ==
  ASSUME RotInv, InTheAir, st.req \in Req, NEW w \in Ways,
         Enqueue(<<st.req, w>>, IF w = Start THEN st.corner ELSE Base),
         plane' = plane, used' = used, served' = served, ledger'.pending = ledger.pending,
         \A c \in Corner : ledger'.hist[c] = ledger.hist[c],
         st'.req = st.req, st'.corner = st.corner, st'.prev = st.prev,
         st'.status = st.status, st'.sw = st.sw, st'.code = st.code, st'.retry \in Nat,
         w # Start => Answer(Start) = "succeeded", Open(w)',
         \A v \in Ways : v # w /\ Answer(v) = "queued" => Open(v)'
  PROVE  InTheAir'
<1>1. receipt \in Rows /\ <<st.req, w>> \in Sw /\ \A v \in Ways : <<st.req, v>> \in Sw
  BY TypesSplit DEF RotInv, Typed, Sw
<1>2. ASSUME NEW q \in Sw, q # <<st.req, w>> PROVE receipt'[q] = receipt[q]
  BY <1>1, <1>2 DEF Enqueue, Rows
<1>3. IF Answer(w) = "none"
      THEN receipt'[<<st.req, w>>].status = "queued"
           /\ receipt'[<<st.req, w>>].to = IF w = Start THEN st.corner ELSE Base
      ELSE receipt'[<<st.req, w>>] = receipt[<<st.req, w>>]
  BY <1>1 DEF Enqueue, Rows, Answer
<1>4. \A v \in Ways : v # w => Answer(v)' = Answer(v) BY <1>1, <1>2 DEF Answer
<1>5. Answer(w)' = IF Answer(w) = "none" THEN "queued" ELSE Answer(w) BY <1>3 DEF Answer
<1>6. Start \in Ways BY RetroAssumption DEF Ways, Start
<1>7. (Answer(Start) = "succeeded") <=> Answer(Start)' = "succeeded" BY <1>4, <1>5, <1>6
<1>8. Sent'
  <2>1. ASSUME NEW r \in Req, NEW v \in Ways, r # st.req
        PROVE  receipt'[<<r, v>>] = receipt[<<r, v>>]
    BY <1>2, <2>1 DEF Sw
  <2>2. plane.claim # NoSw => receipt'[plane.claim].status = "queued"
    <3>1. plane.claim \in Sw \cup {NoSw} BY TypesSplit DEF RotInv, Typed, Planes
    <3> QED BY <1>2, <1>3, <3>1 DEF InTheAir, Sent, Answer
  <2> QED BY <2>1, <2>2 DEF InTheAir, Sent
<1>9. Switches'
  <2> SUFFICES ASSUME NEW v \in Ways, Answer(v)' # "none"
               PROVE  /\ receipt'[<<st'.req, v>>].to = IF v = Start THEN st'.corner ELSE Base
                      /\ v # Start => Answer(Start)' = "succeeded"
                      /\ Answer(v)' = "queued" => Open(v)'
                      /\ Answer(v)' = "succeeded" /\ v # Start => plane'.game = Base
    BY DEF Switches
  <2>1. CASE v # w
    <3>1. Answer(v)' = Answer(v) /\ receipt'[<<st.req, v>>] = receipt[<<st.req, v>>]
      BY <1>1, <1>2, <1>4, <2>1
    <3> QED BY <1>7, <2>1, <3>1 DEF InTheAir, Switches
  <2>2. CASE v = w /\ Answer(w) # "none"
    <3>1. Answer(v)' = Answer(v) /\ receipt'[<<st.req, v>>] = receipt[<<st.req, v>>]
      BY <1>3, <1>5, <2>2
    <3> QED BY <1>7, <2>2, <3>1 DEF InTheAir, Switches
  <2>3. CASE v = w /\ Answer(w) = "none"
    BY <1>3, <1>5, <1>7, <2>3
  <2> QED BY <2>1, <2>2, <2>3
<1>10. w = Start => st.status = "starting"
  BY DEF Open, Start, Restore
<1>11. Stands'
  <2>1. CASE w # Start
    <3>1. Answer(Start)' = Answer(Start) BY <1>4, <1>6, <2>1
    <3> QED BY <3>1 DEF InTheAir, Stands
  <2>2. CASE w = Start BY <1>10, <2>2 DEF InTheAir, Stands
  <2> QED BY <2>1, <2>2
<1>12. OnPlane' BY <1>7 DEF InTheAir, OnPlane, Unsettled
<1>13. Coming'
  <2>1. Answer(Start)' \in {"none", "queued"} => Answer(Start) \in {"none", "queued"}
    BY <1>4, <1>5, <1>6
  <2> QED BY <2>1 DEF InTheAir, Coming
<1> QED BY <1>8, <1>9, <1>11, <1>12, <1>13 DEF InTheAir

LEMMA FilesTyped ==
  ASSUME RotInv
  PROVE  /\ st \in Files /\ receipt \in Rows /\ plane \in Planes
         /\ st.retry \in 0..Tries /\ Tries \in Nat
         /\ Start \in Ways /\ Restore \in Ways /\ Restore # Start /\ Start = 0 /\ Restore = 1
         /\ Base \notin Corner
         /\ st.status \in BUSY => st.req \in Req
<1>1. st \in Files /\ receipt \in Rows /\ plane \in Planes
  BY TypesSplit DEF RotInv, Typed, Planes
<1>2. st.retry \in 0..Tries BY <1>1 DEF Files
<1>3. st.status \in BUSY => st.req \in Req BY DEF RotInv, AtWork, Begun, BUSY
<1> QED BY <1>1, <1>2, <1>3, RetroAssumption DEF Ways, Start, Restore

(* A run that is given up was never on air, or is not there any more.      *)
LEMMA AirInterrupts ==
  ASSUME RotInv, RotInv', InTheAir, Still, Interrupt, Holds, NEW r \in Req,
         StartNeverLanded(r) \/ RefusedBeforeLaunch(r)
  PROVE  InTheAir'
<1>1. /\ SameNames /\ st'.status = "interrupted" BY FilesTyped DEF Interrupt, SameNames, Files
<1>2. st.req = r /\ st.sw = <<st.req, Start>> BY DEF StartNeverLanded, RefusedBeforeLaunch
<1>3. Answer(Start) \in Terminal \ {"succeeded"}
  <2>1. CASE StartNeverLanded(r)
    BY <1>2, <2>1 DEF StartNeverLanded, StartRec, Answer, Terminal
  <2>2. CASE RefusedBeforeLaunch(r)
    <3>1. st.status = "failed" /\ st.code = "refused" BY <2>2 DEF RefusedBeforeLaunch
    <3>2. st.sw # <<st.req, Restore>> BY <1>2, FilesTyped
    <3> QED BY <3>1, <3>2 DEF InTheAir, Stands, Terminal
  <2> QED BY <2>1, <2>2
<1>4. st'.status \in Ended BY <1>1 DEF Ended
<1>5. plane.game \notin Corner /\ \A w \in Ways : Answer(w) # "queued" BY <1>2, <1>3, NotLanded
<1>6. \A c : ~Unsettled(c) BY <1>3 DEF Unsettled
<1> QED BY <1>1, <1>4, <1>5, <1>6, AirEnds

(* The restore of a run that has failed has succeeded.                     *)
LEMMA AirReplayed ==
  ASSUME RotInv, RotInv', BookInv, InTheAir, Still, Holds \/ Settles,
         Holder.pc = "replay", receipt[<<st.req, Restore + st.retry>>].status = "succeeded",
         st' = [st EXCEPT !.status = "interrupted", !.never = FALSE]
  PROVE  InTheAir'
<1> DEFINE k == Restore + st.retry
<1>1. /\ st.status = "failed" /\ st.req \in Req /\ Agrees
      /\ st.req = ledger.pending.req
  BY FilesTyped, MemAgrees DEF RotInv, Knows, BookInv, Carries, Agrees, BUSY
<1>2. k \in Ways /\ k # Start BY FilesTyped DEF Ways
<1>3. Answer(k) = "succeeded" BY DEF Answer
<1> HIDE DEF k
<1>4. plane.game = Base BY <1>1, <1>2, <1>3 DEF InTheAir, Switches
<1>5. ASSUME NEW w \in Ways, Answer(w) = "queued" PROVE FALSE
  <2>1. Open(w) BY <1>1, <1>5 DEF InTheAir, Switches
  <2>2. w = k BY <1>1, <2>1 DEF Open, k
  <2> QED BY <1>3, <1>5, <2>2
<1>6. SameNames /\ st'.status \in Ended BY FilesTyped DEF SameNames, Files, Ended
<1> QED BY <1>1, <1>4, <1>5, <1>6, FilesTyped, AirEnds

LEMMA AirReplays ==
  ASSUME RotInv, RotInv', BookInv, InTheAir, ReplayAnswered
  PROVE  InTheAir'
<1>1. UNCHANGED <<plane, receipt, used>> /\ Holder.pc = "replay"
  BY HolderAt DEF ReplayAnswered, Plane, Ghosts
<1>2. \/ Steady /\ UNCHANGED served
      \/ Settles /\ SlotReusable(ledger.pending.req, ledger.pending.corner)
  BY ReplaySettles DEF BookInv
<1>3. Still BY <1>1, <1>2 DEF Still, Settles
<1>4. Holds \/ Settles BY <1>2 DEF Holds, Steady, Upward
<1>5. CASE /\ receipt[<<st.req, Restore + st.retry>>].status = "succeeded"
           /\ st' = [st EXCEPT !.status = "interrupted", !.never = FALSE]
  BY <1>1, <1>3, <1>4, <1>5, AirReplayed
<1>6. CASE st' = st
  <2>1. SameRun BY <1>6 DEF SameRun, SameNames
  <2>2. CASE Holds BY <1>3, <2>1, <2>2, AirStill
  <2>3. CASE Settles /\ SlotReusable(ledger.pending.req, ledger.pending.corner)
    BY <1>3, <1>6, <2>3, AirSettles
  <2> QED BY <1>2, <2>2, <2>3 DEF Holds, Steady, Upward
<1> QED BY <1>5, <1>6 DEF ReplayAnswered

LEMMA AirReplaysLatched ==
  ASSUME RotInv, RotInv', BookInv, InTheAir, LatchReplay
  PROVE  InTheAir'
<1> DEFINE k == IF st.retry = 0 \/ receipt[<<st.req, Restore + st.retry>>].status \in Terminal
                THEN st.retry + 1 ELSE st.retry
<1>1. /\ UNCHANGED <<plane, used, served, ledger>> /\ RestoreFailed(mem.pending.req)
  BY DEF LatchReplay, Ghosts, ReplayDue, Pending
<1>2. CASE UNCHANGED <<st, receipt>>
  BY <1>1, <1>2, HistTyped, RetroAssumption, AirStill
  DEF Still, SameRun, SameNames, Holds
<1>3. CASE /\ k <= Tries /\ st' = [st EXCEPT !.retry = k]
           /\ Enqueue(<<st.req, Restore + k>>, st.prev)
  <2>1. /\ k \in Nat /\ k > 0 /\ Restore + k \in Ways /\ Restore + k # Start
        /\ Restore + k # Restore
    BY <1>3, FilesTyped DEF Ways
  <2>2. /\ st'.retry = k /\ st'.req = st.req /\ st'.corner = st.corner /\ st'.prev = st.prev
        /\ st'.status = st.status /\ st'.sw = st.sw /\ st'.code = st.code
    BY <1>3, FilesTyped DEF Files
  <2>3. /\ st.status = "failed" /\ st.sw = <<st.req, Restore>> /\ st.req \in Req
        /\ Answer(Restore) \in Terminal
    BY <1>1, FilesTyped DEF RestoreFailed, BUSY, Answer
  <2>4. Answer(Start) = "succeeded"
    BY <2>3, FilesTyped DEF InTheAir, Switches, Terminal
  <2>5. st.prev = Base BY DEF InTheAir, Stands
  <2>6. ASSUME NEW v \in Ways, v # Restore + k PROVE Answer(v) # "queued"
    <3>1. SUFFICES ASSUME Answer(v) = "queued" PROVE FALSE OBVIOUS
    <3>2. Open(v) BY <2>3, <3>1 DEF InTheAir, Switches
    <3>3. v = Restore + st.retry /\ st.retry > 0 BY <2>3, <3>2 DEF Open
    <3>4. receipt[<<st.req, Restore + st.retry>>].status \notin Terminal
      BY <3>1, <3>3 DEF Answer, Terminal
    <3>5. k = st.retry BY <3>3, <3>4, FilesTyped
    <3> QED BY <2>6, <3>3, <3>5
  <2>7. PICK n \in Nat, w \in Ways : n = k /\ w = Restore + n BY <2>1
  <2>8. Enqueue(<<st.req, w>>, IF w = Start THEN st.corner ELSE Base)
    BY <1>3, <2>1, <2>5, <2>7
  <2>9. w # Start /\ n > 0 /\ st'.retry = n /\ \A v \in Ways : v # w => Answer(v) # "queued"
    BY <2>1, <2>2, <2>6, <2>7
  <2> HIDE DEF k
  <2>10. Open(w)' BY <2>2, <2>3, <2>7, <2>9 DEF Open
  <2>11. \A c \in Corner : ledger'.hist[c] = ledger.hist[c] BY <1>1
  <2> QED BY <1>1, <2>2, <2>3, <2>4, <2>8, <2>9, <2>10, <2>11, AirSends
<1> QED BY <1>2, <1>3 DEF LatchReplay

LEMMA HolderStepAir ==
  ASSUME RotInv, RotInv', BookInv, InTheAir, HolderStep
  PROVE  InTheAir'
<1>1. Holder.pc # "off" /\ Agrees BY HolderOn, MemAgrees
<1>2. CASE SteadyStep
  <2>1. Holds BY <1>2, StepsSteady DEF BookInv, Holds, Steady, Upward
  <2>2. UNCHANGED <<plane, used, served>>
    BY <1>2
    DEF SteadyStep, LatchReconciled, Reconciled, Reconciles, LatchReplay, LatchStays, ImportNothing,
        ImportSave, ImportUnlink, Observe, ObserveRetired, ObserveBusy, NothingToReserve,
        ResumePending, ResumeWaits, Dispatch, ExecuteRun, ExecuteRefused, ExecuteQueued,
        RunQueued, RunFailed, Latch, Plane, Ghosts
  <2>3. CASE LatchReconciled \/ Reconciled
    <3>1. receipt' = receipt /\ Interrupt /\ StartNeverLanded(mem.pending.req)
      BY <2>3 DEF LatchReconciled, Reconciled, Reconciles, Plane, Pending
    <3>2. mem.pending.req \in Req
      BY <2>3, IsReserved DEF LatchReconciled, Reconciled, Reconciles, Pending
    <3> QED BY <2>1, <2>2, <3>1, <3>2, AirInterrupts DEF Still
  <2>4. CASE ObserveRetired
    <3>1. receipt' = receipt /\ Interrupt /\ st.req \in Req
          /\ (RefusedBeforeLaunch(st.req) \/ StartNeverLanded(st.req))
      BY <2>4, FilesTyped DEF ObserveRetired, Plane, Foreign, Retires
    <3> QED BY <2>1, <2>2, <3>1, AirInterrupts DEF Still
  <2>5. CASE LatchReplay BY <2>5, AirReplaysLatched
  <2>6. CASE UNCHANGED <<receipt, st>>
    BY <2>1, <2>2, <2>6, AirStill DEF Still, SameRun, SameNames
  <2> QED
    BY <1>2, <2>3, <2>4, <2>5, <2>6
    DEF SteadyStep, LatchStays, ImportNothing, ImportSave, ImportUnlink, Observe, ObserveBusy,
        NothingToReserve, ResumePending, ResumeWaits, Dispatch, ExecuteRun, ExecuteRefused,
        ExecuteQueued, RunQueued, RunFailed, Latch, Plane
<1>3. CASE SettlingStep
  <2>1. /\ Settles /\ UNCHANGED <<plane, receipt, st>>
        /\ st.status \in Ended \/ SlotReusable(ledger.pending.req, ledger.pending.corner)
    BY <1>3, SettlingSettles DEF BookInv, Plane
  <2>2. used' = used
    BY <1>3 DEF SettlingStep, ResolveReservation, RunCompleted, RunReleased, LatchReleased, Ghosts
  <2>3. Still BY <2>1, <2>2 DEF Still, Settles
  <2> QED BY <2>1, <2>3, AirSettles
<1>4. CASE ReplayAnswered BY <1>4, AirReplays
<1>5. CASE ReserveManual \/ ReserveAuto
  <2>1. Reserving BY <1>5, StepsReserve DEF BookInv
  <2>2. Still /\ st' = st
    BY <1>5 DEF ReserveManual, ReserveAuto, Still, Plane, Ghosts
  <2> QED BY <1>1, <2>1, <2>2, AirReserves
<1> QED BY <1>2, <1>3, <1>4, <1>5, HolderKinds

-----------------------------------------------------------------------------
(* The steps of the run                                                    *)

LEMMA AtSwitch ==
  ASSUME RotInv, InTheAir, NEW p \in Actors
  PROVE  /\ act[p].pc \in StartPcs =>
              /\ st.status = "starting" /\ st.req \in Req /\ st.sw = <<st.req, Start>>
              /\ Answered(p) = Answer(Start)
         /\ act[p].pc \in EndPcs =>
              /\ st.status = "restoring" /\ st.req \in Req /\ st.sw = <<st.req, Restore>>
              /\ Answered(p) = Answer(Restore) /\ Answer(Start) = "succeeded"
<1>1. Works(p) BY DEF RotInv, AtWork
<1> QED BY <1>1, FilesTyped DEF Works, InTheAir, Stands, Answered, Answer, BUSY

(* A reservation whose run is begun has no switches yet.                   *)
LEMMA BeginAir ==
  ASSUME RotInv, BookInv, InTheAir, NEW p \in Actors, Begin(p),
         UNCHANGED <<ledger, used, served>>
  PROVE  InTheAir'
<1> DEFINE r == ledger.pending.req
           c == ledger.pending.corner
<1>1. act[p].pc = "enter" BY DEF Begin, Entered, At
<1>2. p = "holder" /\ Holder.pc \in RunPcs /\ act[p] = Holder
  <2>1. p = "holder" BY <1>1, RunPlaces DEF Actors, RunPcs, EndPcs
  <2> QED BY <1>1, <2>1 DEF Holder, RunPcs
<1>3. /\ act[p].req = r /\ act[p].corner = c /\ r \in Req /\ c \in Corner
  BY <1>2, IsReserved, RetroAssumption
  DEF RotInv, Knows, Agrees, BookInv, Carries, Once, RunPcs, ReservedPcs
<1>4. /\ st.status \in Ended /\ st.status \notin BUSY /\ st.req # r /\ r \notin served
      /\ UNCHANGED <<plane, receipt>>
  BY <1>3 DEF Begin, Mine, BookInv, Once, Plane, Ended, BUSY
<1>5. plane.game = Base BY <1>4, FilesTyped DEF Planes, Game, InTheAir, OnPlane
<1>6. /\ st'.status = "starting" /\ st'.corner = c /\ st'.req = r /\ st'.prev = Base
      /\ st'.sw = <<r, Start>>
  BY <1>3, <1>5, FilesTyped DEF Begin, Files
<1> HIDE DEF r, c
<1>7. ASSUME NEW q \in Req, NEW w \in Ways, q # st'.req, receipt'[<<q, w>>].status # "none"
      PROVE  q \in served' /\ receipt'[<<q, w>>].status # "queued"
  <2>1. CASE q # st.req BY <1>4, <1>7, <2>1 DEF InTheAir, Sent
  <2>2. CASE q = st.req
    <3>1. q \in served BY <1>4, <1>6, <1>7, <2>2, RetroAssumption DEF BookInv, Once, Taken, r
    <3>2. ~Open(w) BY <1>4 DEF Open, BUSY
    <3> QED BY <1>4, <1>7, <2>2, <3>1, <3>2 DEF InTheAir, Switches, Answer
  <2> QED BY <2>1, <2>2
<1>8. Sent' BY <1>4, <1>7 DEF InTheAir, Sent
<1>9. \A w \in Ways : Answer(w)' = "none"
  BY <1>3, <1>4, <1>6 DEF InTheAir, Sent, Answer
<1>10. Switches' BY <1>9 DEF Switches
<1>11. Stands' BY <1>3, <1>6 DEF Stands, c, r
<1>12. \A d \in Corner : Accounted(d)
  <2>1. \A d \in Corner : ~Unsettled(d) BY <1>4 DEF Unsettled, r, BUSY
  <2> QED BY <2>1 DEF InTheAir, OnPlane, Accounted
<1>13. OnPlane' BY <1>4, <1>5, <1>12, FilesTyped DEF OnPlane, Accounted
<1>14. Coming' BY <1>3, <1>4, <1>6 DEF InTheAir, Coming, c, r
<1> QED BY <1>8, <1>10, <1>11, <1>13, <1>14 DEF InTheAir

(* A start that nobody drives is cancelled.                                *)
LEMMA CancelAir ==
  ASSUME RotInv, InTheAir, NEW p \in Actors, LateCancelled(p), UNCHANGED <<ledger, used, served>>
  PROVE  InTheAir'
<1>1. /\ Answer(Start) = "queued" /\ plane.claim # <<st.req, Start>> /\ plane' = plane
      /\ st.status = "starting" /\ st.req \in Req
  BY FilesTyped DEF LateCancelled, Late, Replays, StartRec, Answer, BUSY
<1>2. st'.status = "interrupted" /\ SameNames
  BY FilesTyped DEF LateCancelled, Interrupt, SameNames, Files
<1>3. <<st.req, Start>> \in Sw BY <1>1, FilesTyped DEF Sw
<1>4. /\ \A q \in Sw : q # <<st.req, Start>> => receipt'[q] = receipt[q]
      /\ receipt'[<<st.req, Start>>].status = "refused"
      /\ receipt'[<<st.req, Start>>].to = receipt[<<st.req, Start>>].to
  BY <1>3, FilesTyped DEF LateCancelled, Rows
<1>5. \A q \in Req, w \in Ways : <<q, w>> \in Sw BY DEF Sw
<1>6. \A w \in Ways : w # Start => Answer(w) = "none"
  BY <1>1 DEF InTheAir, Switches
<1>7. /\ Answer(Start)' = "refused"
      /\ \A w \in Ways : w # Start => Answer(w)' = "none"
  BY <1>1, <1>2, <1>4, <1>5, <1>6 DEF Answer, SameNames
<1>8. Sent'
  <2>1. ASSUME NEW q \in Req, NEW w \in Ways, q # st.req PROVE receipt'[<<q, w>>] = receipt[<<q, w>>]
    BY <1>4, <1>5, <2>1
  <2>2. plane.claim # NoSw => receipt'[plane.claim] = receipt[plane.claim]
    BY <1>1, <1>4, FilesTyped DEF Planes
  <2> QED BY <1>1, <1>2, <2>1, <2>2 DEF InTheAir, Sent, SameNames
<1>9. Switches' BY <1>1, <1>2, <1>4, <1>7, FilesTyped DEF InTheAir, Switches, SameNames
<1>10. Stands' BY <1>2 DEF InTheAir, Stands, SameNames
<1>11. \A c \in Corner : ~Unsettled(c) BY <1>1 DEF Unsettled
<1>12. OnPlane' BY <1>1, <1>11 DEF InTheAir, OnPlane, Unsettled
<1>13. Coming' BY <1>2 DEF InTheAir, Coming, SameNames, Ended
<1> QED BY <1>8, <1>9, <1>10, <1>12, <1>13 DEF InTheAir

LEMMA RunAir ==
  ASSUME RotInv, RotInv', BookInv, InTheAir, NEW p \in Actors, Run(p)
  PROVE  InTheAir'
<1>1. RunStep(p) /\ UNCHANGED <<ledger, used, served>> BY DEF Run, Ghosts
<1>2. Holds BY <1>1, HistTyped, RetroAssumption DEF Holds
<1>3. CASE \/ ReplayCompleted(p) \/ ReplayStart(p) \/ ReplayRestore(p) \/ ReplayActive(p)
           \/ Raises(p) \/ LateUnknown(p) \/ StillQueued(p) \/ FinishRaises(p) \/ PlayOver(p)
           \/ NothingToStop(p) \/ ClearStop(p) \/ (BindFails(p) /\ UNCHANGED st)
  <2>1. UNCHANGED <<plane, receipt, st>>
    BY <1>3
    DEF ReplayCompleted, ReplayStart, ReplayRestore, ReplayActive, Raises, LateUnknown, StillQueued,
        FinishRaises, PlayOver, NothingToStop, ClearStop, BindFails, Plane
  <2> QED BY <1>1, <1>2, <2>1, AirStill DEF Still, SameRun, SameNames
<1>4. CASE Begin(p) BY <1>1, <1>4, BeginAir
<1>5. CASE LateCancelled(p) BY <1>1, <1>5, CancelAir
<1>6. CASE LateEnded(p)
  <2>1. Still BY <1>1, <1>6 DEF LateEnded, Still, Plane
  <2>2. SameNames /\ st'.status \in Ended
    BY <1>6, FilesTyped DEF LateEnded, Interrupt, SameNames, Files, Ended
  <2>3. st.status = "starting" /\ st.req \in Req /\ Answer(Start) \in Terminal \ {"succeeded"}
    BY <1>6, FilesTyped DEF LateEnded, Late, Replays, StartRec, Answer, BUSY, Terminal
  <2>4. \A c : ~Unsettled(c) BY <2>3 DEF Unsettled
  <2> QED BY <1>2, <2>1, <2>2, <2>3, <2>4, NotLanded, AirEnds
<1>7. CASE LateLanded(p) \/ GoOnAir(p)
  <2>1. Still /\ st.status = "starting" /\ Answer(Start) = "succeeded" /\ st.req \in Req
    <3>1. CASE LateLanded(p)
      BY <1>1, <3>1, FilesTyped DEF LateLanded, Late, Replays, StartRec, Answer, BUSY, Still, Plane
    <3>2. CASE GoOnAir(p)
      BY <1>1, <3>2, AtSwitch DEF GoOnAir, Starts, StartPcs, Still, Plane
    <3> QED BY <1>7, <3>1, <3>2
  <2>2. SameNames /\ st'.status = "active" /\ st'.sw = NoSw
    BY <1>7, FilesTyped DEF LateLanded, GoOnAir, SameNames, Files
  <2>3. Answer(Start)' = "succeeded" BY <2>1, <2>2 DEF Answer, Still, SameNames
  <2>4. Stands' BY <1>2, <2>2, <2>3 DEF InTheAir, Stands, SameNames, Holds
  <2>5. \A w \in Ways : Answer(w) # "queued"
    BY <2>1 DEF InTheAir, Switches, Open
  <2> QED BY <1>2, <2>1, <2>2, <2>4, <2>5, AirAdvances
<1>8. ASSUME SwitchFails(p) \/ (BindFails(p) /\ At(p, "starting")) PROVE InTheAir'
  <2>1. Still BY <1>1, <1>8 DEF SwitchFails, BindFails, Still, Plane
  <2>2. act[p].pc \in StartPcs \cup EndPcs
    BY <1>8 DEF SwitchFails, BindFails, Starts, Awaits, StartPcs, EndPcs
  <2>3. /\ st.status \in {"starting", "restoring"} /\ st.req \in Req
        /\ \/ st.status = "starting" /\ st.sw = <<st.req, Start>> /\ Answered(p) = Answer(Start)
           \/ /\ st.status = "restoring" /\ st.sw = <<st.req, Restore>>
              /\ Answered(p) = Answer(Restore)
    BY <2>2, AtSwitch
  <2>4. PICK code : Fail(code) /\ code \in {"none", Answered(p)} /\ Answered(p) \in Terminal
    BY <1>8 DEF SwitchFails, BindFails, Starts, Terminal
  <2>5. SameNames /\ st'.status = "failed" /\ st'.sw = st.sw /\ st'.code = code
    BY <2>4, FilesTyped DEF Fail, SameNames, Files
  <2>6. Answer(Start)' = Answer(Start) BY <2>1, <2>5 DEF Answer, Still, SameNames
  <2>7. Stands'
    BY <1>2, <2>3, <2>4, <2>5, <2>6 DEF InTheAir, Stands, SameNames, Holds, Terminal
  <2>8. \A w \in Ways : Answer(w) # "queued"
    BY <2>3, <2>4 DEF InTheAir, Switches, Open, Terminal
  <2> QED BY <1>2, <2>1, <2>3, <2>5, <2>7, <2>8, AirAdvances
<1>9. CASE Finish(p)
  <2>1. Still BY <1>1, <1>9 DEF Finish, Still, Plane
  <2>2. st.status \in {"active", "restoring"} /\ st.req \in Req
    BY <1>9, FilesTyped DEF Finish, BUSY
  <2>3. st.sw \in {NoSw, <<st.req, Restore>>} /\ Answer(Start) = "succeeded"
    BY <2>2 DEF InTheAir, Stands
  <2>4. SameNames /\ st'.status = "restoring" /\ st'.sw = <<st.req, Restore>>
    BY <1>9, <2>3, FilesTyped DEF Finish, SameNames, Files
  <2>5. Answer(Start)' = "succeeded" BY <2>1, <2>3, <2>4 DEF Answer, Still, SameNames
  <2>6. Stands' BY <1>2, <2>4, <2>5 DEF InTheAir, Stands, SameNames, Holds
  <2>7. \A w \in Ways : Answer(w) = "queued" => Open(w)'
    BY <2>2, <2>4 DEF InTheAir, Switches, Open
  <2> QED BY <1>2, <2>1, <2>2, <2>4, <2>6, <2>7, AirAdvances
<1>10. CASE Complete(p)
  <2>1. Still BY <1>1, <1>10 DEF Complete, Still, Plane
  <2>2. /\ st.status = "restoring" /\ st.req \in Req /\ Answer(Start) = "succeeded"
        /\ Answer(Restore) = "succeeded"
    BY <1>10, AtSwitch DEF Complete, At, EndPcs
  <2>3. SameNames /\ st'.status \in Ended
    BY <1>10, FilesTyped DEF Complete, SameNames, Files, Ended
  <2>4. plane.game = Base BY <2>2, FilesTyped DEF InTheAir, Switches
  <2>5. \A w \in Ways : Answer(w) # "queued"
    BY <2>2 DEF InTheAir, Switches, Open
  <2>6. \A c \in Corner : Unsettled(c) => st.req = ledger.pending.req
    BY <2>2 DEF Unsettled
  <2> QED BY <1>2, <2>1, <2>3, <2>4, <2>5, <2>6, FilesTyped, AirEnds
<1>11. CASE SubmitStart(p) \/ SubmitRestore(p)
  <2>1. /\ UNCHANGED <<plane, st>> /\ \A c \in Corner : ledger'.hist[c] = ledger.hist[c]
    BY <1>1, <1>11 DEF SubmitStart, SubmitRestore
  <2>2. CASE SubmitStart(p)
    <3>1. act[p].pc \in StartPcs BY <2>2 DEF SubmitStart, StartPcs
    <3>2. p = "holder" /\ Holder.pc \in StartPcs /\ Holder.pc \in RunPcs
      BY <3>1, RunPlaces DEF Holder, Actors, StartPcs, RunPcs, EndPcs
    <3>3. st.req = ledger.pending.req
      BY <3>2, MemAgrees DEF BookInv, Carries, RotInv, Knows, Agrees, StartPcs
    <3>4. /\ st.status = "starting" /\ st.req \in Req /\ st.sw = <<st.req, Start>>
      BY <3>1, AtSwitch
    <3>5. Open(Start)' BY <1>1, <2>1, <3>3, <3>4 DEF Open
    <3>6. Enqueue(<<st.req, Start>>, IF Start = Start THEN st.corner ELSE Base)
      BY <2>2, <3>4 DEF SubmitStart
    <3>7. \A v \in Ways : v # Start => Answer(v) # "queued"
      BY <3>4 DEF InTheAir, Switches, Open
    <3>8. st'.retry \in Nat BY <2>1, FilesTyped
    <3> QED BY <1>1, <2>1, <3>4, <3>5, <3>6, <3>7, <3>8, FilesTyped, AirSends
  <2>3. CASE SubmitRestore(p)
    <3>1. /\ st.status = "restoring" /\ st.req \in Req /\ st.sw = <<st.req, Restore>>
          /\ Answer(Start) = "succeeded"
      BY <2>3, AtSwitch DEF SubmitRestore, At, EndPcs
    <3>2. Open(Restore)' BY <2>1, <3>1 DEF Open
    <3>3. Enqueue(<<st.req, Restore>>, IF Restore = Start THEN st.corner ELSE Base)
      BY <2>3, <3>1, FilesTyped DEF SubmitRestore, InTheAir, Stands
    <3>4. \A v \in Ways : v # Restore => Answer(v) # "queued"
      BY <3>1 DEF InTheAir, Switches, Open
    <3>5. st'.retry \in Nat BY <2>1, FilesTyped
    <3> QED BY <1>1, <2>1, <3>1, <3>2, <3>3, <3>4, <3>5, FilesTyped, AirSends
  <2> QED BY <1>11, <2>2, <2>3
<1>12. BindFails(p) => UNCHANGED st \/ At(p, "starting") BY DEF BindFails
<1> QED
  BY <1>1, <1>3, <1>4, <1>5, <1>6, <1>7, <1>8, <1>9, <1>10, <1>11, <1>12 DEF RunStep

-----------------------------------------------------------------------------
(* The steps of the plane                                                  *)

Uses == \A c \in Corner : used'[c] = IF plane.game = c \/ plane'.game = c THEN Cool ELSE used[c]

LEMMA QueuedIsOpen ==
  ASSUME RotInv, InTheAir, NEW q \in Sw, receipt[q].status = "queued"
  PROVE  \E w \in Ways : q = <<st.req, w>> /\ Open(w) /\ Answer(w) = "queued" /\ st.req \in Req
<1>1. PICK r \in Req, w \in Ways : q = <<r, w>> BY DEF Sw
<1>2. r = st.req BY <1>1 DEF InTheAir, Sent
<1>3. Answer(w) = "queued" /\ st.req \in Req BY <1>1, <1>2 DEF Answer
<1>4. Open(w) BY <1>3 DEF InTheAir, Switches
<1> QED BY <1>1, <1>2, <1>3, <1>4

(* What is on the plane has been started: it is not what is to be started. *)
LEMMA OnPlaneIsStarted ==
  ASSUME BookInv, InTheAir
  PROVE  /\ ledger.pending.req \in Req /\ st.req # ledger.pending.req =>
              /\ ledger.pending.corner \in Corner /\ plane.game # ledger.pending.corner
         /\ st.req \in Req /\ Answer(Start) \in {"none", "queued"} => plane.game # st.corner
<1>1. ledger.pending.req \in Req => ledger.pending.corner \in Corner
  BY RetroAssumption DEF BookInv, Once
<1>2. ledger.pending.req \in Req /\ st.req # ledger.pending.req => plane.game \notin Corner
  BY DEF InTheAir, OnPlane, Coming, BUSY, Ended
<1>3. st.req \in Req => st.corner \in Corner BY DEF InTheAir, Stands
<1>4. Answer(Start) \in {"none", "queued"} => plane.game \notin Corner
  BY DEF InTheAir, OnPlane, Unsettled
<1> QED BY <1>1, <1>2, <1>3, <1>4

LEMMA PlaneKeepsAir ==
  ASSUME RotInv, BookInv, InTheAir, Uses, UNCHANGED <<ledger, st, served, receipt>>,
         plane'.game = plane.game,
         plane'.claim # NoSw => plane'.phase = "draining" /\ receipt[plane'.claim].status = "queued"
  PROVE  InTheAir'
<1>1. \A w : Answer(w)' = Answer(w) BY DEF Answer
<1>2. Sent' BY DEF InTheAir, Sent
<1>3. Switches' BY <1>1 DEF InTheAir, Switches, Open
<1>4. Stands' BY <1>1 DEF InTheAir, Stands
<1>5. OnPlane' BY <1>1 DEF InTheAir, OnPlane, Unsettled, Uses
<1>6. \A c \in Corner : plane.game # c => used'[c] = used[c] BY DEF Uses
<1>7. st.req \in Req => st.corner \in Corner BY DEF InTheAir, Stands
<1>8. Coming' BY <1>1, <1>6, <1>7, OnPlaneIsStarted DEF InTheAir, Coming
<1> QED BY <1>2, <1>3, <1>4, <1>5, <1>8 DEF InTheAir

LEMMA PlaneSettlesAir ==
  ASSUME RotInv, BookInv, InTheAir, Uses, UNCHANGED <<ledger, st, served>>,
         NEW q \in Sw, NEW s \in Terminal, receipt[q].status = "queued",
         plane'.game = IF s = "succeeded" THEN receipt[q].to ELSE plane.game, plane'.claim = NoSw,
         receipt'[q].status = s, receipt'[q].to = receipt[q].to,
         \A o \in Sw : o # q => receipt'[o] = receipt[o]
  PROVE  InTheAir'
<1>1. PICK w \in Ways : q = <<st.req, w>> /\ Open(w) /\ Answer(w) = "queued" /\ st.req \in Req
  BY QueuedIsOpen
<1>2. \A r \in Req, v \in Ways : <<r, v>> \in Sw BY DEF Sw
<1>3. /\ Answer(w)' = s /\ \A v \in Ways : v # w => Answer(v)' = Answer(v)
      /\ \A v \in Ways : receipt'[<<st.req, v>>].to = receipt[<<st.req, v>>].to
  BY <1>1, <1>2 DEF Answer
<1>4. /\ w = Start => st.status = "starting" /\ st.req = ledger.pending.req
      /\ w # Start => Answer(Start) = "succeeded"
      /\ w = Start => \A v \in Ways : v # Start => Answer(v) = "none"
      /\ receipt[q].to = IF w = Start THEN st.corner ELSE Base
  <2>1. w = Start => st.status = "starting" /\ st.req = ledger.pending.req
    BY <1>1, FilesTyped DEF Open
  <2>2. w # Start => Answer(Start) = "succeeded" BY <1>1 DEF InTheAir, Switches
  <2>3. w = Start => \A v \in Ways : v # Start => Answer(v) = "none"
    BY <1>1 DEF InTheAir, Switches
  <2>4. receipt[q].to = IF w = Start THEN st.corner ELSE Base BY <1>1 DEF InTheAir, Switches
  <2> QED BY <2>1, <2>2, <2>3, <2>4
<1>5. Start \in Ways /\ Base \notin Corner /\ s # "none" /\ s # "queued"
  BY FilesTyped DEF Terminal
<1>6. Sent'
  <2>1. ASSUME NEW r \in Req, NEW v \in Ways, r # st.req PROVE receipt'[<<r, v>>] = receipt[<<r, v>>]
    BY <1>1, <1>2, <2>1
  <2> QED BY <2>1 DEF InTheAir, Sent
<1>7. Switches'
  <2> SUFFICES ASSUME NEW v \in Ways, Answer(v)' # "none"
               PROVE  /\ receipt'[<<st.req, v>>].to = IF v = Start THEN st.corner ELSE Base
                      /\ v # Start => Answer(Start)' = "succeeded"
                      /\ Answer(v)' = "queued" => Open(v)'
                      /\ Answer(v)' = "succeeded" /\ v # Start => plane'.game = Base
    BY DEF Switches
  <2>1. CASE v = w
    <3>1. receipt'[<<st.req, v>>].to = IF v = Start THEN st.corner ELSE Base
      BY <1>1, <1>3, <1>4, <2>1
    <3> QED BY <1>3, <1>4, <1>5, <2>1, <3>1
  <2>2. CASE v # w
    <3>1. /\ Answer(v) # "none" /\ Answer(v)' = Answer(v)
          /\ receipt'[<<st.req, v>>].to = receipt[<<st.req, v>>].to
      BY <1>3, <2>2
    <3>2. w # Start /\ v # Start => plane'.game \in {plane.game, Base} BY <1>4
    <3>3. v # Start => w # Start BY <1>4, <2>2, <3>1
    <3>4. /\ receipt[<<st.req, v>>].to = IF v = Start THEN st.corner ELSE Base
          /\ Answer(v) = "queued" => Open(v)
          /\ Answer(v) = "succeeded" /\ v # Start => plane.game = Base
      BY <1>1, <3>1 DEF InTheAir, Switches
    <3>5. v # Start => Answer(Start)' = "succeeded" BY <1>3, <1>4, <1>5, <3>3
    <3>6. Open(v) => Open(v)' BY DEF Open
    <3> QED BY <3>1, <3>2, <3>3, <3>4, <3>5, <3>6
  <2> QED BY <2>1, <2>2
<1>8. Stands'
  <2>1. CASE w = Start BY <1>4, <2>1 DEF InTheAir, Stands
  <2>2. CASE w # Start
    <3>1. Answer(Start)' = Answer(Start) BY <1>3, <1>5, <2>2
    <3> QED BY <3>1 DEF InTheAir, Stands
  <2> QED BY <2>1, <2>2
<1>9. Answer(Start) = "succeeded" => Answer(Start)' = "succeeded" BY <1>1, <1>3, <1>5
<1>10. \A c : Unsettled(c) => Unsettled(c)' BY <1>9 DEF Unsettled
<1>11. st.corner \in Corner BY <1>1 DEF InTheAir, Stands
<1>12. CASE s # "succeeded" \/ w # Start
  <2>1. plane'.game \in {plane.game, Base} BY <1>4, <1>12
  <2>2. \A c \in Corner : plane.game # c => plane'.game # c /\ used'[c] = used[c]
    BY <1>5, <2>1 DEF Uses
  <2>3. OnPlane' BY <1>5, <1>10, <2>1, <2>2 DEF InTheAir, OnPlane
  <2>4. Answer(Start)' \in {"none", "queued"} => Answer(Start) \in {"none", "queued"}
    BY <1>1, <1>3, <1>5
  <2>5. Coming' BY <1>11, <2>2, <2>4, OnPlaneIsStarted DEF InTheAir, Coming
  <2> QED BY <1>6, <1>7, <1>8, <2>3, <2>5 DEF InTheAir
<1>13. CASE s = "succeeded" /\ w = Start
  <2>1. plane'.game = st.corner /\ Unsettled(st.corner)'
    BY <1>1, <1>3, <1>4, <1>13 DEF Unsettled
  <2>2. ASSUME NEW c \in Corner, c # st.corner PROVE plane'.game # c /\ used'[c] <= ledger'.hist[c]
    <3>1. ~Unsettled(c) BY <1>1, <1>13 DEF Unsettled
    <3>2. plane.game # c /\ used[c] <= ledger.hist[c] BY <3>1 DEF InTheAir, OnPlane
    <3> QED BY <2>1, <2>2, <3>2 DEF Uses
  <2>3. OnPlane' BY <1>4, <1>13, <2>1, <2>2 DEF OnPlane, BUSY
  <2>4. Coming' BY <1>3, <1>4, <1>13 DEF Coming
  <2> QED BY <1>6, <1>7, <1>8, <2>3, <2>4 DEF InTheAir
<1> QED BY <1>12, <1>13

LEMMA PlaneMovesAir ==
  ASSUME RotInv, BookInv, InTheAir, PlaneMoves
  PROVE  InTheAir'
<1>1. Uses /\ UNCHANGED <<ledger, st, served>>
  BY DEF PlaneMoves, Uses, PlaneStep, Repair, Claim, Commit, RollBack, Refuse, Break, Reject, Settled
<1>2. CASE Repair
  <2>1. /\ plane'.game = plane.game /\ plane'.claim = plane.claim /\ receipt' = receipt
        /\ plane.phase = "failed"
    BY <1>2, FilesTyped DEF Repair, Planes
  <2>2. plane'.claim = NoSw BY <2>1 DEF InTheAir, Sent
  <2> QED BY <1>1, <2>1, <2>2, PlaneKeepsAir
<1>3. ASSUME NEW q \in Sw, Claim(q) PROVE InTheAir'
  <2>1. /\ plane'.game = plane.game /\ plane'.claim = q /\ plane'.phase = "draining"
        /\ receipt' = receipt /\ receipt[q].status = "queued"
    BY <1>3, FilesTyped DEF Claim, Planes
  <2> QED BY <1>1, <2>1, PlaneKeepsAir
<1>4. ASSUME NEW q \in Sw, Commit(q) \/ RollBack(q) \/ Refuse(q) \/ Break(q)
      PROVE  InTheAir'
  <2>1. PICK s, x :
          s \in Terminal /\ Settled(q, s, x) /\ x = [plane EXCEPT !.phase = x.phase, !.run = x.run, !.game = x.game]
          /\ x.game = IF s = "succeeded" THEN receipt[q].to ELSE plane.game
    <3>1. plane \in Planes BY FilesTyped
    <3>2. {"succeeded", "rolled", "refused", "broken"} \subseteq Terminal BY DEF Terminal
    <3>3. CASE Commit(q)
      <4> DEFINE x == Landed(q)
      <4>1. x = [plane EXCEPT !.phase = x.phase, !.run = x.run, !.game = x.game]
            /\ x.game = receipt[q].to
        BY <3>1 DEF Planes, Landed
      <4> QED BY <3>2, <3>3, <4>1 DEF Commit
    <3>4. CASE RollBack(q)
      <4> DEFINE x == [plane EXCEPT !.phase = "ready", !.run = @ + 1]
      <4>1. x = [plane EXCEPT !.phase = x.phase, !.run = x.run, !.game = x.game]
            /\ x.game = plane.game
        BY <3>1 DEF Planes
      <4>2. Settled(q, "rolled", x) BY <3>4 DEF RollBack
      <4> QED BY <3>2, <4>1, <4>2
    <3>5. CASE Refuse(q)
      <4> DEFINE x == [plane EXCEPT !.phase = "ready"]
      <4>1. x = [plane EXCEPT !.phase = x.phase, !.run = x.run, !.game = x.game]
            /\ x.game = plane.game
        BY <3>1 DEF Planes
      <4>2. Settled(q, "refused", x) BY <3>5 DEF Refuse
      <4> QED BY <3>2, <4>1, <4>2
    <3>6. CASE Break(q)
      <4> DEFINE x == [plane EXCEPT !.phase = "failed"]
      <4>1. x = [plane EXCEPT !.phase = x.phase, !.run = x.run, !.game = x.game]
            /\ x.game = plane.game
        BY <3>1 DEF Planes
      <4>2. Settled(q, "broken", x) BY <3>6 DEF Break
      <4> QED BY <3>2, <4>1, <4>2
    <3> QED BY <1>4, <3>3, <3>4, <3>5, <3>6
  <2>2. q # NoSw /\ plane.claim = q BY <2>1 DEF Settled
  <2>3. receipt[q].status = "queued" BY <2>2 DEF InTheAir, Sent
  <2>4. plane'.game = x.game /\ plane'.claim = NoSw BY <2>1, FilesTyped DEF Settled, Planes
  <2>5. /\ receipt'[q].status = s /\ receipt'[q].to = receipt[q].to
        /\ \A o \in Sw : o # q => receipt'[o] = receipt[o]
    BY <2>1, FilesTyped DEF Settled, Rows
  <2> QED BY <1>1, <2>1, <2>3, <2>4, <2>5, PlaneSettlesAir
<1>5. ASSUME NEW q \in Sw, Reject(q) PROVE InTheAir'
  <2>1. plane' = plane /\ plane.phase = "failed" /\ receipt[q].status = "queued"
    BY <1>5 DEF Reject
  <2>2. plane'.claim = NoSw BY <2>1 DEF InTheAir, Sent
  <2>3. /\ receipt'[q].status = "refused" /\ receipt'[q].to = receipt[q].to
        /\ \A o \in Sw : o # q => receipt'[o] = receipt[o]
    BY <1>5, FilesTyped DEF Reject, Rows
  <2>4. "refused" \in Terminal /\ "refused" # "succeeded" BY DEF Terminal
  <2> QED BY <1>1, <2>1, <2>2, <2>3, <2>4, PlaneSettlesAir
<1> QED BY <1>2, <1>3, <1>4, <1>5 DEF PlaneMoves, PlaneStep

(* A day takes from what is used and from what is counted alike.           *)
LEMMA DayAir ==
  ASSUME RotInv, BookInv, InTheAir, Day
  PROVE  InTheAir'
<1>1. /\ UNCHANGED <<plane, receipt, served>> /\ ledger'.pending = ledger.pending
      /\ st'.status = st.status /\ st'.corner = st.corner /\ st'.req = st.req
      /\ st'.prev = st.prev /\ st'.sw = st.sw /\ st'.code = st.code /\ st'.retry = st.retry
  BY DayFields DEF SamePlaces
<1>2. \A c \in Corner : /\ used'[c] = IF plane.game = c THEN used[c] ELSE Less(used[c])
                        /\ ledger'.hist[c] = Less(ledger.hist[c])
                        /\ used[c] \in Nat /\ ledger.hist[c] \in Nat
  BY DayFields, HistTyped, RetroAssumption DEF Day
<1>3. \A w : Answer(w)' = Answer(w) BY <1>1 DEF Answer
<1>4. Sent' BY <1>1 DEF InTheAir, Sent
<1>5. Switches' BY <1>1, <1>3 DEF InTheAir, Switches, Open
<1>6. Stands' BY <1>1, <1>3 DEF InTheAir, Stands
<1>7. \A c : Unsettled(c)' <=> Unsettled(c) BY <1>1, <1>3 DEF Unsettled
<1>8. \A c \in Corner : plane.game # c /\ used[c] <= ledger.hist[c]
                          => plane'.game # c /\ used'[c] <= ledger'.hist[c]
  BY <1>1, <1>2, LessMonotone
<1>9. OnPlane' BY <1>1, <1>7, <1>8 DEF InTheAir, OnPlane
<1>10. \A c \in Corner : used[c] = 0 => used'[c] = 0 BY <1>2 DEF Less
<1>11. /\ st.req \in Req => st.corner \in Corner
       /\ ledger.pending.req \in Req => ledger.pending.corner \in Corner
  BY RetroAssumption DEF InTheAir, Stands, BookInv, Once
<1>12. Coming' BY <1>1, <1>3, <1>10, <1>11 DEF InTheAir, Coming
<1> QED BY <1>4, <1>5, <1>6, <1>9, <1>12 DEF InTheAir

-----------------------------------------------------------------------------
(* All the steps                                                           *)

AirInv == RotInv /\ BookInv /\ InTheAir

LEMMA QuietAir ==
  ASSUME RotInv, RotInv', InTheAir, UNCHANGED <<plane, receipt, used, ledger, served>>,
         st' = st \/ Overrun
  PROVE  InTheAir'
<1>1. SameRun BY FilesTyped DEF SameRun, SameNames, Overrun, Files
<1>2. Holds BY HistTyped, RetroAssumption DEF Holds
<1> QED BY <1>1, <1>2, AirStill DEF Still

LEMMA AirStep ==
  ASSUME AirInv, [Next]_vars
  PROVE  AirInv'
<1>1. RotInv /\ RotInv' /\ BookInv /\ InTheAir BY RotationStep DEF AirInv
<1> SUFFICES BookInv' /\ InTheAir' BY <1>1 DEF AirInv
<1>2. CASE Tick
  <2>1. UNCHANGED <<plane, receipt, used, ledger, served, st>> BY <1>2 DEF Tick, Plane, Ghosts
  <2> QED BY <1>1, <1>2, <2>1, TickBooks, QuietAir
<1>3. CASE HolderStep BY <1>1, <1>3, HolderStepBooks, HolderStepAir
<1>4. ASSUME NEW p \in Actors, Run(p) PROVE BookInv' /\ InTheAir'
  BY <1>1, <1>4, RunBooks, RunAir
<1>5. ASSUME NEW p \in Actors, Crash(p) PROVE BookInv' /\ InTheAir'
  <2>1. UNCHANGED <<plane, receipt, used, ledger, served, st>> BY <1>5 DEF Crash, Plane
  <2> QED BY <1>1, <1>5, <2>1, CrashBooks, QuietAir
<1>6. CASE RecoverReconciled
  <2>1. BookInv' /\ Steady BY <1>1, <1>6, RecoverReconciledBooks
  <2>2. Holds BY <2>1 DEF Holds, Steady, Upward
  <2>3. Still /\ Interrupt /\ StartNeverLanded(ledger.pending.req)
    BY <1>6 DEF RecoverReconciled, Still, Plane, Ghosts
  <2>4. ledger \in Ledgers /\ Whole(ledger) BY <1>1, TypesSplit DEF RotInv, Typed, Books
  <2>5. ledger.pending.req \in Req BY <1>6, <2>4, LedgerFields DEF RecoverReconciled, Whole
  <2> QED BY <1>1, <2>1, <2>2, <2>3, <2>5, AirInterrupts
<1>7. CASE RecoverResolved
  <2>1. /\ BookInv' /\ UNCHANGED <<plane, receipt, st, used>>
        /\ \/ Steady /\ UNCHANGED served
           \/ Settles /\ st.status \in Ended
    BY <1>1, <1>7, RecoverResolvedBooks
  <2>2. Still BY <2>1 DEF Still, Settles
  <2>3. CASE Steady
    <3>1. Holds /\ SameRun BY <2>1, <2>3 DEF Holds, Steady, Upward, SameRun, SameNames
    <3> QED BY <1>1, <2>1, <2>2, <3>1, AirStill
  <2>4. CASE Settles /\ st.status \in Ended BY <1>1, <2>1, <2>2, <2>4, AirSettles
  <2> QED BY <2>1, <2>3, <2>4
<1>8. ASSUME \/ \E m \in Manual, c \in Corner, timed \in BOOLEAN : QueueManual(m, c, timed)
             \/ CancelScheduled
      PROVE  BookInv' /\ InTheAir'
  <2>1. UNCHANGED <<plane, receipt, used, ledger, served, st>>
    BY <1>8 DEF QueueManual, CancelScheduled, retroVars
  <2> QED BY <1>1, <1>8, <2>1, InboxBooks, QuietAir
<1>9. ASSUME \/ \E m \in Manual : TriggerPasses(m)
             \/ \E c \in Pausable : Pause(c)
             \/ StopManual \/ WriteStop \/ SlotOver \/ UNCHANGED vars
      PROVE  BookInv' /\ InTheAir'
  <2>1. UNCHANGED <<plane, receipt, used, ledger, served>> /\ (st' = st \/ Overrun)
    BY <1>9
    DEF TriggerPasses, Pause, StopManual, WriteStop, SlotOver, Overrun, vars, retroVars, rotVars,
        Plane, Outside, Ghosts
  <2> QED BY <1>1, <1>9, <2>1, FlagsBooks, QuietAir
<1>10. CASE Day BY <1>1, <1>10, DayBooks, DayAir
<1>11. CASE PlaneMoves BY <1>1, <1>11, FlagsBooks, PlaneMovesAir
<1> QED
  BY <1>2, <1>3, <1>4, <1>5, <1>6, <1>7, <1>8, <1>9, <1>10, <1>11 DEF Next

LEMMA AirInit == Init => BookInv /\ InTheAir
<1> SUFFICES ASSUME Init PROVE BookInv /\ InTheAir OBVIOUS
<1>1. /\ plane.game = Base /\ plane.claim = NoSw /\ \A q \in Sw : receipt[q].status = "none"
      /\ st.status = "idle" /\ st.prev = Base /\ st.req = NoReq /\ st.retry = 0
      /\ Holder.pc = "off"
  BY OffTyped DEF Init, RetroInit, Holder, Actors, Off
<1>2. /\ ledger.pending = NoPending /\ ledger.queued = NoRequest /\ inbox = NoRequest
      /\ served = {} /\ accepted = {} /\ ledger.slot = 0
      /\ \A c \in Corner : ledger.hist[c] = 0 /\ used[c] = 0
  BY DEF Init
<1>3. NoPending.req = NoReq /\ NoRequest.req = NoReq /\ NoReq \notin Req /\ Base \notin Corner
  BY PendingTyped, RetroAssumption
<1>4. Once BY <1>1, <1>2, <1>3 DEF Once, Taken
<1>5. Imported BY <1>2 DEF Imported
<1>6. Carries BY <1>1 DEF Carries, RunPcs, StartPcs
<1>7. Sent BY <1>1 DEF Sent, Sw
<1>8. Switches BY <1>1, <1>3 DEF Switches
<1>9. Stands BY <1>1, <1>3 DEF Stands
<1>10. OnPlane BY <1>1, <1>2, <1>3 DEF OnPlane
<1>11. Coming BY <1>1, <1>2, <1>3 DEF Coming
<1> QED BY <1>4, <1>5, <1>6, <1>7, <1>8, <1>9, <1>10, <1>11 DEF BookInv, InTheAir

(* Under every interleaving of processes, operators and drivers, and their *)
(* deaths, the books and what is in the air fit together.                  *)
THEOREM AlwaysAir == Spec => []AirInv
<1>1. Init => AirInv BY RotationInit, AirInit DEF AirInv
<1>2. AirInv /\ [Next]_vars => AirInv' BY AirStep
<1> QED BY <1>1, <1>2, PTL DEF Spec

(* A corner that is on the plane has an unfinished run in the file.        *)
THEOREM OnAirIsAccounted == Spec => []OnAirAccounted
<1>1. AirInv => OnAirAccounted
  BY DEF AirInv, InTheAir, OnPlane, Unsettled, OnAirAccounted
<1> QED BY <1>1, AlwaysAir, PTL

(* No automatic start brings a corner on air that has not cooled.          *)
LEMMA CooldownStep ==
  ASSUME AirInv, [Next]_vars, NEW r \in Req \ Manual, NEW c \in Corner,
         plane.claim = <<r, Start>>, plane'.game = c, plane.game # c
  PROVE  used[c] = 0
<1>1. RotInv /\ InTheAir /\ plane' # plane BY DEF AirInv
<1>2. PlaneMoves
  <2>1. HolderStep => plane' = plane
    <3>1. HolderStep => \E pc : HolderWorks(pc) BY <1>1, HolderStepWorks
    <3> QED BY <3>1 DEF HolderWorks, FileCloses
  <2>2. ASSUME NEW p \in Actors, Run(p) PROVE plane' = plane
    <3>1. \E n : RunMoves(p, n) BY <1>1, <2>2, RunStepMoves DEF Run
    <3> QED BY <3>1 DEF RunMoves, Leaves
  <2> QED
    BY <1>1, <2>1, <2>2
    DEF Next, Tick, Crash, RecoverReconciled, RecoverResolved, TriggerPasses, QueueManual,
        CancelScheduled, Pause, StopManual, WriteStop, Day, SlotOver, Overrun, vars, retroVars, Plane
<1>3. <<r, Start>> \in Sw /\ <<r, Start>> # NoSw
  BY FilesTyped, <1>1, RetroAssumption DEF Sw, NoSw
<1>4. receipt[<<r, Start>>].status = "queued" /\ plane.phase = "draining"
  BY <1>1, <1>3 DEF InTheAir, Sent
<1>5. PICK w \in Ways : <<r, Start>> = <<st.req, w>> /\ Open(w) /\ Answer(w) = "queued"
  BY <1>1, <1>3, <1>4, QueuedIsOpen
<1>6. r = st.req /\ st.status = "starting" /\ Answer(Start) = "queued"
  BY <1>1, <1>5, FilesTyped DEF Open
<1>7. receipt[<<r, Start>>].to = st.corner BY <1>6, FilesTyped, <1>1 DEF InTheAir, Switches, Answer
<1>8. Commit(<<r, Start>>)
  <2>1. plane \in Planes BY <1>1, FilesTyped
  <2> QED
    BY <1>2, <2>1
    DEF PlaneMoves, PlaneStep, Repair, Claim, RollBack, Refuse, Break, Reject, Commit, Settled, Planes
<1>9. plane'.game = receipt[<<r, Start>>].to
  BY <1>1, <1>8, FilesTyped DEF Commit, Settled, Landed, Planes
<1> QED BY <1>1, <1>6, <1>7, <1>9 DEF InTheAir, Coming

(* An automatic start brings no corner on air within the cooldown of its   *)
(* last use, dispatches and crashes in between included.                   *)
THEOREM CooldownIsRespected == Spec => CooldownRespected
<1>1. AirInv /\ [Next]_vars
        => [\A r \in Req \ Manual, c \in Corner :
              (plane.claim = <<r, Start>> /\ plane'.game = c /\ plane.game # c) => used[c] = 0]_vars
  BY CooldownStep
<1> QED BY <1>1, AlwaysAir, PTL DEF Spec, CooldownRespected
=============================================================================
