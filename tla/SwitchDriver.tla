---------------------------- MODULE SwitchDriver ----------------------------
(***************************************************************************)
(* The processes that call the coordinator, the files they share, and the  *)
(* steps every part of the coordinator is written with.                    *)
(***************************************************************************)
EXTENDS CanonicalState

CONSTANTS Driver,        \* coordinator processes
          NoDriver,      \* nobody holds the exclusive lock
          BoundaryGames, \* games whose adapter has request_round_boundary
          StopBoundaryGames, \* games that drain before a stop as well
          CappedReq,     \* requests with a hard deadline (no extension)
          StartGame,     \* the game on air initially, or NoGame
          MaxGen,        \* bound: no request or restore goes past this generation
          MaxFaults      \* bound: failed calls, deaths and crashes in one behaviour

ASSUME DriverAssumption == NoDriver \notin Driver
ASSUME BoundaryAssumption == BoundaryGames \subseteq Games /\ StopBoundaryGames \subseteq Games
ASSUME CappedAssumption == CappedReq \subseteq Req
ASSUME StartAssumption == StartGame \in Games \cup {NoGame}
ASSUME BoundAssumption == MaxGen \in Nat /\ MaxFaults \in Nat

VARIABLES
  canon,      \* the canonical document on disk
  receipts,   \* the request receipts on disk
  lock,       \* holder of the exclusive game-switch lock
  proc,       \* what each driver is doing, and its local variables
  live,       \* runtimes whose game process runs
  committed,  \* history: the last_result of every commit write
  faults      \* bound: faults so far

vars == <<canon, receipts, lock, proc, live, committed, faults>>

(* Where a driver can be.  Waiting drivers do not hold the lock.           *)
WaitingPcs == {"await", "cancel", "expire", "resume"}
LockedPcs  == {"dispatch", "enqueue", "accept", "alloc", "allocated", "claim", "replay",
               "overdue", "run", "prepare", "stopOld", "quiesced", "materialize",
               "materialized", "probe", "commit", "retain", "retireDead",
               "stopAgent", "stopGame", "undo", "restore", "restartAgent", "restart",
               "publish", "lost", "abandon", "recover", "resolve", "finish",
               "finishLeave", "finishRedo", "finalize", "finalizeReady",
               "retryFailed", "reconcile"}

(* proc[d]: pc; mode, the entry point; req; goal, the target game; drain   *)
(* and old, the draining request and active runtime read before a wait;    *)
(* res, the terminal status to write; restoring, a restore run by recover, *)
(* which leaves the receipt alone.                                         *)
Off == [pc |-> "off", mode |-> "execute", req |-> NoReq, goal |-> NoGame,
        drain |-> NoReq, old |-> NoRt, res |-> "failed", restoring |-> FALSE]

Procs == [pc : {"off"} \cup WaitingPcs \cup LockedPcs,
          mode : {"execute", "recover", "maintain"}, req : Req \cup {NoReq},
          goal : Games \cup {NoGame}, drain : Req \cup {NoReq}, old : Runtimes,
          res : TerminalStatuses, restoring : BOOLEAN]

TypeOK == /\ canon \in Canonical
          /\ receipts \in [Req -> Receipts]
          /\ lock \in Driver \cup {NoDriver}
          /\ proc \in [Driver -> Procs]
          /\ live \subseteq Runtimes
          /\ committed \subseteq Results
          /\ faults \in Nat

InitialRuntime == IF StartGame = NoGame THEN NoRt ELSE [gen |-> 1, game |-> StartGame]

(* A fresh installation, or one whose game was started by a request whose  *)
(* terminal receipt has been pruned since.                                 *)
Init ==
  /\ canon = [phase |-> IF StartGame = NoGame THEN "idle" ELSE "ready", req |-> NoReq,
              nextGen |-> IF StartGame = NoGame THEN 1 ELSE 2,
              active |-> InitialRuntime, candidate |-> NoRt, previous |-> NoRt,
              retiring |-> {}, expired |-> FALSE, last |-> NoResult]
  /\ receipts = [r \in Req |-> NoReceipt]
  /\ lock = NoDriver
  /\ proc = [d \in Driver |-> Off]
  /\ live = {InitialRuntime} \ {NoRt}
  /\ committed = {}
  /\ faults = 0

-----------------------------------------------------------------------------
(* Steps of a driver that holds the lock                                   *)

At(d, pc)    == proc[d].pc = pc /\ lock = d
Goto(d, pc)  == proc' = [proc EXCEPT ![d].pc = pc] /\ UNCHANGED lock
Become(d, p) == proc' = [proc EXCEPT ![d] = p] /\ UNCHANGED lock
Leave(d)     == proc' = [proc EXCEPT ![d] = Off] /\ lock' = NoDriver
Release(d, p) == proc' = [proc EXCEPT ![d] = p] /\ lock' = NoDriver
Acquire(d, p) == lock = NoDriver /\ lock' = d /\ proc' = [proc EXCEPT ![d] = p]
FinishAs(d, pc, st) == Become(d, [proc[d] EXCEPT !.pc = pc, !.res = st])

Fault  == faults < MaxFaults /\ faults' = faults + 1
Benign == UNCHANGED faults
Disk   == <<canon, receipts>>
World  == <<live, committed>>

(* Two shapes of canonical.save: a phase transition that keeps its owner,  *)
(* and one that reaches a stable or failed phase and lets go of it.        *)
Transition(ph) == canon' = [canon EXCEPT !.phase = ph]
Settle(ph, act, prev, ret, lst) ==
  canon' = [canon EXCEPT !.phase = ph, !.req = NoReq, !.active = act,
                         !.candidate = NoRt, !.previous = prev, !.retiring = ret,
                         !.expired = FALSE, !.last = lst]

SetStatus(r, st) == receipts' = [receipts EXCEPT ![r].st = st]
Terminal(r)      == receipts[r].st \in TerminalStatuses

(* Wait for, or cancel, the round boundary of the draining request with    *)
(* the lock released, remembering what the drain looked like.              *)
WaitAt(d, p, pc) ==
  Release(d, [p EXCEPT !.pc = pc, !.drain = canon'.req, !.old = canon'.active])

(* Mutant of SameDrain: any drain will do.                                 *)
SomeDrain(d) == canon.phase = "draining"

SameDrain(d) == /\ canon.phase = "draining"
                /\ canon.req = proc[d].drain
                /\ canon.active = proc[d].old

(* An adapter that is asked to stop a runtime and then probed: gone only   *)
(* when the probe says so; otherwise the process may or may not be left.   *)
TornDown(rt)    == live' = live \ {rt} /\ Benign
NotTornDown(rt) == live' \in {live, live \ {rt}} /\ Fault

ExpiredDrain == canon.phase = "draining" /\ canon.expired
=============================================================================
