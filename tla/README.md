# docich: a verification project

`docich` is a Python platform that keeps a live stream on air around the clock: it starts and
replaces games, lets agents play them, schedules programme corners, speaks, answers comments and
streams the result. Most of it is many short-lived processes on one host that communicate through
small JSON files, advisory locks and `tmux` sessions. This directory holds TLA+ specifications of
the parts where those processes can hurt each other, the TLC instances that check them, and the
theorems TLAPS proves about them. Paths below are relative to the repository root, paths without a
directory to `src/docich/`; line numbers without a path are lines of `game_switch.py`.

- [The system](#the-system)
- [What is modelled](#what-is-modelled)
- [How the model corresponds to the code](#how-the-model-corresponds-to-the-code)
- [What each run checks](#what-each-run-checks)
- [Fairness](#fairness)
- [What is proved](#what-is-proved)
- [Findings](#findings)
- [Further disagreements](#further-disagreements)
- [What is not modelled](#what-is-not-modelled)
- [Plan](#plan)

## The system

| component | state it keeps | operations | hard behaviour | what makes it correct |
|---|---|---|---|---|
| **Game switch coordinator** `game_switch.py` | canonical document `game_switch.json` (phase, owner, active / candidate / previous / retiring runtimes, next generation, last result); one receipt per request id; an exclusive `flock` | `start`, `stop`, `switch`, `restart`, `rotate`, `recover`, `resume_queued`, `maintain_fifo` | concurrent processes, a lock that is released while a game finishes its round, crashes between any two durable writes, games that die, adapter calls that fail half way, resends of the same request id, a FIFO of waiting requests | one game on air; no game process forgotten; every request answered once, in order; nothing committed is denied or repeated; whatever fails, the document settles again |
| **Agent fence** `agent/fence.py`, `agent/loop.py` | the worker's identity (game, runtime, generation, lease) | compare with the canonical document under the shared lock; run, await or exit | the document moves between the check and the act | only the agent of the active runtime acts |
| **Agent processes** `watchdog.py`, `state.py` | pid, stop marker, restart count | restart loop, stop, watchdog | a stop races a restart; a stale pid | a stopped agent stays stopped, a crashed one returns |
| **Program slot** `corner_boundary.py`, `special_corner.py`, `corner_terminal.py` | file lock, registry of the owner's state file, one queue row per corner | wait for a boundary and for the turn, poll, claim, release a failed owner | the lock dies with its process and the registry does not; owners judged by reading each other's files; rows left by the dead | one corner has the programme; the line is kept; a caller that comes back is served |
| **Corner rotation** `corner_rotation.py`, `corner_adapters.py`, `corner_ownership.py` | the ledger (status, pending reservation, queued request, history, released requests), the manual inbox, pauses | tick, import, observe, reserve, dispatch, resolve, latch and its retries, recover; manual requests, cancellation, stop | a tick holds its lock for hours and may die at any step; two files change in two writes; a failed reservation is released on a proof read from other components' files | a request is answered once and kept till then; nothing runs that is not reserved; a latch clears itself |
| **Retro corner** `retro_corner.py` | one state file for all game corners (status, request, game of before, switch request, bound runtime), a stop request file | start, replay, play, finish and restore; late starts; stop; reconciliation of failed starts; the timer's restore replay | a client of the coordinator by request id: its switch may be queued, driven by somebody else, or lost | a corner on the plane has a run, and a run gives the plane back |
| **LLM dispatch** `llm/` | mkdir locks with an owner file; back-off and failure streak files | walk the chain of agents, acquire, reap a stale lock, release; record and clear failures | two reapers of one stale lock; unlocked read-modify-write; two locks held at once | one generation per lane and one call per agent; no lock left behind; every dispatch ends |
| **Stream supervisor** `stream_supervisor.py`, `stream_instance_lock.py`, `stream_pause.py` | instance lock, owner flag, pause marker | start, restart with back-off, pause, take over | a stream with two encoders, or none | one encoder, unless paused |
| **Overlay and comment queues** `overlay_queue.py`, `comment_queue.py` | bounded line files under a lock | append with de-duplication, delete | a repeat after the first has fallen out of the bound | no event twice, newest kept |
| **Presentation** `presentation.py`, `presentation_recovery.py` | what windows are observed | decide a recovery | observation is stale when acted on | - |
| **Adapters and tmux** `adapters/`, `tmux.py` | external processes | materialise, probe, quiesce, teardown, round boundary | time-outs and inconclusive probes | modelled by what the coordinator observes |
| **CLI and web UI** `cli.py`, `webui.py` | request ids | requests to the coordinator; a start that finds a game active becomes a switch with the same id (`cli.py:857`) | resends | - |
| **Game-playing agents, trading, radio, evaluation corners** | programme content | - | sequential heuristics, external services | - |

The parts meet at three points. Everything that changes the game on air goes through the coordinator
as a request with an id: the CLI, the web UI, the corner owners, and a systemd timer
(`scripts/systemd/docich-game-switch-fifo.timer`) that runs `maintain_fifo` every 30 seconds. And
every agent worker reads the coordinator's canonical document, under a shared lock, before it acts.
And every corner, of the rotation or started by hand, asks the program slot for its turn; the
rotation reads the corner's file, the coordinator's document and its receipts to decide what has
become of a run. So the coordinator is the core: it is the only component whose failure leaves the stream with two
games or none, and it is where most of the interleavings, crashes and time-outs are.

### The coordinator in one page

A request takes the exclusive lock without waiting (busy is an answer, 2740-2829), is dispatched
from the durable state alone (`_execute_locked`, 2924), and is then refused, queued, answered, or
accepted. Acceptance is three durable writes: the receipt as `allocating`, the canonical document in
phase `validating` with the request as its owner, the receipt as `accepted` (1293-1347); the head of
the queue is claimed by two (1094-1160). A switch then walks `preparing`, (`draining`), `quiescing`,
`starting`, `probing` and commits with one atomic write in which the candidate becomes `active` and
the old game is `retiring`, with a reference to the receipt that proves it may be collected (4518).
The terminal receipt is written after the commit, and the retired game is collected after that.
A game that plays in rounds is `draining` first: the lock is released while the game finishes, and
the driver reacquires it and compares what it finds with what it remembered (3735-3825).
A failure before the commit discards the candidate and restores the old game, alive or as a fresh
generation (4802-5246). `recover` does whatever is left after a crash, from the document alone
(5588-5941).

## What is modelled

| module | stands for |
|---|---|
| `CanonicalState` | the coordinator's data: canonical document, receipts, `validate_state` |
| `SwitchDriver` | the processes that call the coordinator, their local variables, the lock, the initial state, and the steps all others are written with |
| `SwitchRequests` | entry points, dispatch, FIFO queue, acceptance and claim |
| `SwitchSteps` | the switch, the round boundary with the lock released, the stop |
| `SwitchRecovery` | rollback and restore, terminal receipts, finalisation and collection, `recover` |
| `GameSwitch` | crashes and dying games, `Next`, fairness, the properties of the coordinator |
| `SwitchAgents` | the coordinator composed with the agents: their loop and fence, what each coordinator step does to them, the agent repair of the timer |
| `Programme` | abstract: one corner at a time has the programme, and it is free in between |
| `ProgramSlot` | the slot: waiting, polling under the file lock, registry, rows, releases, kills; implements `Programme` |
| `RetroRun` | one run of a retro corner, against a summary of the coordinator |
| `CornerRotation` | the ledger, the inbox, the tick and the operators, composed with `RetroRun` |
| `Dispatch` | the LLM dispatcher with its locks, back-offs and streaks |
| `MCGameSwitch`, `MCSwitchAgents`, `MCProgramSlot`, `MCCornerRotation`, `MCDispatch` | the instances for TLC |
| `GameSwitchProofs`, `OwnershipProofs`, `RuntimeProofs`, `CommitProofs` | theorems about the coordinator, one layer of its inductive invariant each |
| `SwitchAgentsProofs`, `DispatchProofs`, `ProgramSlotProofs`, `CornerRotationProofs` | theorems about the agents' composition, the dispatcher, the slot, the rotation with its run |

`CanonicalState`, `SwitchDriver`, `SwitchRequests`, `SwitchSteps`, `SwitchRecovery`, `GameSwitch` form
one chain of `EXTENDS`: the coordinator is one state machine over one pair of files and is not split
by variables. `SwitchAgents` adds the agents to each of its steps, `CornerRotation` adds the ledger
to each step of `RetroRun`.

## How the model corresponds to the code

### The coordinator

`canon` is `game_switch.json` and `receipts` the receipt files; both are replaced atomically
(`os.replace`), so every save is one step. `lock` is the holder of the exclusive flock, which the
kernel releases when its process dies. `proc[d]` is what one process is doing (`pc`) and the local
variables it carries across a wait. `live` is the set of game processes that really run: the
coordinator never reads it except through an adapter's probe. `committed` is a history variable: the
`last_result` of every commit write. `faults` counts what went wrong.

*Granularity.* One step is one durable write or one adapter call; the code between two of them runs
under the exclusive lock and touches nothing another process sees. Steps in which the lock is not
held are `await`, `cancel` and `expire` (around adapter calls on a draining game) and `resume`
(`resume_queued` lets go of the lock between reading the head and replaying it).

*Data.* A runtime is a generation and a game: the runtime id, directory, session and window names
derive from the generation. `last_result` is reduced to the request it names, its terminal status
and whether it carries a `source_runtime`, because nothing else of it is read by a decision.
`expired` is the drain deadline having passed. Payloads are reduced to the target game (`GoalOf`).

*Adapter calls.* A teardown is confirmed (`TornDown`: the process is gone) or not (`NotTornDown`: it
may or may not run, a fault). A materialisation that fails may still have left a process. A probe
may be inconclusive, which is never taken for death. These are the outcomes `_call_adapter`
(3520-3571) and `_runtime_confirmed_dead` (4585-4607) distinguish.

*Crashes.* `Crash(d)` may happen wherever `proc[d].pc # "off"`: the driver's variables and lock are
gone, the files and the games stay.

*Refused saves.* Where the code can compute a document its own `validate_state` refuses (`Starting`
with a generation already taken), the save raises and the driver dies: the model leaves the document
as it is. Everywhere else the invariant `CanonicalValid` shows that the check never fires.

*Bounds.* `MaxGen` bounds generations: a request or a restore that would need a later one is not
taken any further (`NoGenerationLeft`, `FreshRestorable`). `MaxFaults` bounds failed calls, deaths
and crashes in one behaviour. Nothing else is bounded; the state spaces are finite.

### The agents

`agents` are the processes of `run_agent` (`agent/loop.py`), each with its runtime and its place in the
loop: `idle` between two cycles, `run` after `resolve_fence` (which reads the document without a
lock), `acts` inside `shared_section`, which looks again. `FenceLost` is a `SystemExit`, so the restart
loop of `supervise.py` (164-199) lets it through and the agent is gone; any other end is `Exits`, a
fault. Observing and acting are the same section here. The coordinator's side is attached to its
steps: `Stopped(d)` and `Started(d)` say for which runtimes the step `d` is about to take calls
`stop_agent` and `start_agent`, and a step that counts a fault may leave any of these calls undone or
half done (`Calls`). `start_agent` does nothing when the window is there
(`adapters/cli_game.py:682`). The exclusive lock is not to be had while an agent is in its section, so
`Drive` and `Enters` need `Acting = {}` when the lock is free, and a driver that waits for a boundary
may be kept out until its deadline (`KeptOut`). `Repair` is `repair_active_agent` (2611-2736). The lease
of a fence is left out: a restore renews it only after it has stopped the agent of the old lease, so
the runtime alone tells the agents apart. `exited` is a history variable: the runtimes whose agent
died of itself and was not started since.

### The program slot

`pc` is where a corner's process is between `wait_for_corner_boundary` and the end of the body;
`flock` the holder of `docich_program.lock`, `registry` the corner whose state file
`docich_program_active.json` names, `file` the status in that file (`ended` is every status that is not
busy; `failed` is kept apart, because a view's failure is refuted by what is on air), `row` a corner's
file in the queue directory. A poll is four steps, because the owner's file, the rows and the
boundary are files of other processes: `OwnerIsFree`, `MyTurn`, then the second look at the boundary
and the claim, then the row (corner_boundary.py 160-260, 357-440). `Ask`, `Begin`, `Finish`,
`Suspend`, `Fail`, `Settle` are what the callers do with their turn (`special_corner.py`, the
rotation). `Release` is `release_program_owner`. The boundary itself (predictions, audio) is there or
not: a choice. `ahead` and `letGo` are history variables: who was in line before a corner joined, and
whose unfinished run was given up on proof. A row of a corner whose process was killed may become
old (`RowAges`), which only the polite look of `other_corner_busy` (326) respects.

### The rotation and its corner

`ledger` is the ledger on disk and `mem` the copy of the process that holds the rotation lock; the
code saves the copy at named points, and a death loses what was not saved. `inbox` has a lock of its
own. `st` is the one state file of the game corners, `stopFor` the stop request file with the run it
was written for (the file itself does not say), `act` where the holder and an operator are. The
coordinator is summarised by what its clients can observe: `plane` is phase, game and generation of
the document and `receipt` the receipt of each switch request, which is queued, claimed, and then
succeeds, is rolled back, refused, or breaks; this moves by itself, because any driver may finish it.
`CanBreak` allows a rollback that fails too, after which the plane is repaired. A unit of time passes
with `Day`: cooldowns shrink and the slot of a run is over (`late`). `used` is a history variable: how
much of its cooldown each corner has left by what was really on air. Bounds: `MaxSlot` automatic
reservations, `Crashes`, `Stops`, `Tries` restore replays; `Manual` are the operator's requests.

### The dispatcher

`dir` are the lock directories (there, the owner file's owner, older than `stale_sec`), `job` where each
worker is in `dispatch()`; `mkdir`, the owner file, the look at a lock in the way, its removal, the
look before a release and the removal are steps of their own, as in `llm/locks.py`. A directory grows
old only when nobody uses it, or its user is in `Slow`. `Mortal` workers may be killed at any step. A
back-off file is `live` or `expired`; `limited` remembers the back-offs that were recorded and have not
passed. A dispatch is one request per worker, so the state space is finite without a bound.

## What each run checks

A request of the coordinator is named for what it asks (`toB` is a switch to B).

| run | instance | checks |
|---|---|---|
| `queue` | `MCGameSwitch`: 2 drivers; `rotate` (capped), `toB`, `stop`; A on air; boundary at A, also before a stop; 5 generations, 2 faults; drivers symmetric | `TypeOK`, `CanonicalValid`, `OneGameOnAir`, `DriverOwnsCanonical`, `OneInFlight`, `FifoOrder` |
| `crash` | `MCSwitchAgents`: 1 driver and its agents; `startA`, `restart`, `toB`, `stop`; no game; boundary at A; 6 generations, 3 faults | `StartsAlone`, `NoOrphanGame`, `RetireesProvable`, `CommitsHonoured`, `RecoverableIdentity`, `NotRepeated`, `ReceiptsFinal`, `ActsOnAir`, `AgentReady` |
| `served` | `MCGameSwitch`: 2 fair drivers; `toB`, `toA`; A on air; boundary at A; 5 generations, 1 fault | `QueuedServed`, `InFlightEnds`, `Settles` |
| `heir` | `MCDispatch`: a comment and the radio worker, both mortal, one hurried, with an agent in common; fair | `TypeOK`, `OneHolder`, `DispatchEnds` |
| `slow` | `MCDispatch`: three workers of one lane, one mortal, two slower than `stale_sec` | `NothingLeft` |
| `reapers` | `MCDispatch`: a dead holder and two waiters | `OneHolder` **violated** |
| `slot` | `MCProgramSlot`: a corner of the rotation and a view, both mortal, 2 requests, 1 kill; fair | `TypeOK`, `RegistryTells`, `NotOvertaken`, `OneProgramme` (the refinement of `Programme`), `Served` |
| `leftover` | `MCProgramSlot`: the view does not come back | `TurnComes` **violated** |
| `crashes` | `MCCornerRotation`: 2 corners, 2 automatic slots, 1 death, cooldown 2, broken rollbacks, 1 replay | `TypeOK`, `OnAirAccounted`, `RunReserved`, `CooldownRespected` |
| `inbox` | `MCCornerRotation`: 1 corner, 2 manual requests, a pause, a stop, 1 death | `ManualKept`, `OneManual` |
| `settles` | `MCCornerRotation`: 2 corners, a manual and an automatic reservation, 1 replay; fair | `ReservationSettled` |
| `cancelled` | `MCCornerRotation`: a timed manual request, 1 death | `CancelledNeverRuns` **violated** |

*The bounds.* `queue` needs two drivers inside the coordinator at once: one waits for a boundary with
the lock released while the other dispatches, enqueues, expires or recovers; and a rule of the queue
never compares more than the request in flight, its head and one behind it. `crash` needs depth rather
than concurrency: three faults contain a crash in the middle of an operation, a crash in the middle of
its recovery, and a game or an agent that dies meanwhile, in every order; it starts from no game, where
a `start` and a `restart` differ. In `slot` one row can be in front of another and its owner dead;
the cfg `MCProgramSlot_line.cfg` beside it has three in line, for the safety properties, and the
theorems have no bound. In `crashes` the second slot begins after the first has ended, died, broken,
or been released, with one day or more of the cooldown of its corner left. In `heir` the common agent
makes a worker hold its lane's lock while it waits for the other's.

What they show:

- `CanonicalValid`: no step saves a document `validate_state` refuses, although active, previous and
  candidate are moved in separate writes and rollback starts from any of them.
- `OneGameOnAir`, `StartsAlone`: the three slots never play together, and nothing is started beside
  a runtime that has not been seen dead, also when the runtime's driver died.
- `NoOrphanGame`: every process that runs is in a slot or among the retirees, whatever failed.
- `DriverOwnsCanonical`: a driver back from an unlocked wait acts only if the document still belongs
  to its request; one that was overtaken touches nothing.
- `OneInFlight`, `FifoOrder`: one request in flight across crashes and resends, and nobody claims the
  document past the queue.
- `CommitsHonoured`, `NotRepeated`, `RetireesProvable`: once a commit has replaced a game its request
  is never answered as failed and never run again, although the receipt is written only afterwards;
  and the receipt a retiree is waiting for can always be settled.
- `RecoverableIdentity`: a failed switch with a game to restore names the request it failed for.
- `ReceiptsFinal`: an answer is never rewritten.
- `ActsOnAir`: an agent that has seen its runtime on air and waited for the lock acts only if that is
  still so, and never between two steps of a transition.
- `AgentReady`: a document that is `ready` has a game whose agent was started, by the switch, by the
  restore of a game that had survived, or before a crash, and has not been fenced out while its runtime
  stood in another slot; an agent that is missing has died of itself.
- `InFlightEnds`, `Settles`, `QueuedServed`: under the fairness below the system comes back after
  whatever single fault happens at whatever step. After two, a request may be orphaned for good (see
  `MCGameSwitch_orphan` and `MCGameSwitch_stuckstop`).
- `OneHolder`, `NothingLeft`, `DispatchEnds`: one process per lane and per agent as long as no more than
  one is left to reap (see `reapers`); no way out of a dispatch leaves a lock directory in its name;
  whoever dies, and between whichever two system calls, the others get through.
- `RegistryTells`, `OneProgramme`, `NotOvertaken`, `Served`: the registry names whoever has begun a run
  that is not over, although the lock it was written under is gone with its process; so one corner
  at a time has the programme; nobody who joined the line behind another gets it first; and a caller
  that comes back is served, unless a dead process stands in line for ever (`leftover`).
- `OnAirAccounted`, `RunReserved`: a corner on the plane has its run in the state file, unfinished also
  while a driver drains it or a rollback has broken, and the run in the file is the ledger's reservation or was released on proof, wherever the holder died.
- `CooldownRespected`: what the ledger believes about a corner's last use is never more lenient than
  what was on air.
- `ManualKept`, `OneManual`: an accepted request is in the inbox, in the ledger or reserved until it is
  settled or cancelled; a death between the two writes of an import leaves it in both, and no second
  request slips in.
- `ReservationSettled`: without deaths, every reservation ends, by its result or by a release that some
  later tick can prove; or its run hangs in `restoring`, see below.

Every passing property is backed by a mutant in `PROJECT.json`: a small change of the modelled code
(a dropped guard, a forgotten runtime, a missing proof) under which the same run finds it violated.
The mutated forms stand next to the definitions they replace, as `Mutant of ...`.

## Fairness

`FairSpec` assumes what the deployment provides:

- `WF` of every driver's own steps: each adapter call has a time-out (3520-3571), so a driver that
  has started goes on, or crashes. `SF` of reacquiring the lock after a wait: `reacquire_for_wait`
  (948-966) polls until a deadline, and lock holders come and go.
- `WF` of `Expire`: a drain has a wall-clock deadline.
- `SF` of the timer: it fires every 30 seconds for ever; some of its ticks find the lock free.
- `SF` of a needed `recover`, and of a resend of a request without a terminal answer: an operator, or
  the corner that owns the request, repeats it. Neither is fair in the code itself. Without the first
  a switch interrupted by a crash stays interrupted, because the timer touches only an expired drain
  (2398-2484); with a commit whose receipt was not written, the document is `ready` and the queue
  still waits, so `NeededRecover` includes that case.

Faults are bounded, so every behaviour has a fault-free suffix; liveness says what happens then.

The dispatcher: `WF` of each worker, because a provider call and a wait have time-outs and a poll
recurs, and of a directory's growing old, because nobody touches it any more. Neither lock is assumed
to be free for a given worker: a wait ends by its own cap or deadline, or because the holder ends.

The program slot: `WF` of what a running process does next and of a caller that still has a request
(the rotation's tick comes every minute); `SF` of finding the boundary, the lock and the claim, which
are polled for hours while they come and go; `SF` of the end of a wait, because a deadline passes
whatever else happens: an owner that comes back to end its run stands behind an earlier request that
waits for this owner, and only a deadline resolves that; `SF` of giving up a run, because the rotation
tries its release at every tick and an operator recovers the run of any other corner. `Served` also
assumes, as its left-hand side, that no row is left in line for ever.

The rotation: `WF` of the tick and of every running process, `WF` of the coordinator (`PlaneMoves`: the
theorem behind it is `Settles` and `InFlightEnds` above), `SF` of getting the program slot and the
coordinator's lock (`ExecuteRun`, `LateDecided`), which are awaited at each tick again. Nothing is
assumed of operators; `settles` has no deaths, because two of the proofs a latch waits for cannot
succeed after one (see `lateresume` below).

## What is proved

Each theorem holds for every value of the constants that the named `ASSUME`s of the modules allow: the
"none" values are not members, tables are total, bounds are natural numbers.

`GameSwitchProofs`, for every set of drivers, requests and games:

- `TypeCorrect`: `Spec => []TypeOK`. `TypeOK` is not inductive. The generation of a candidate is the
  receipt's, so the driver must know a request; and a driver's receipt must not change under it. The
  inductive invariant `TypeInv` is `Control /\ Data`. `Control` says that a driver is at a locked
  program counter exactly when it holds the lock, and that it knows its request wherever it may
  still dispatch or run it (`Asked`). `Data` types the files and the world. The proof has one lemma
  per group of actions and one case per action; the moves of a driver (`Goto`, `Leave`, `WaitAt`,
  ...) and the shapes of a save (`Settle`, `Transition`) are lemmas of their own.
- `AnswersKept`: `Spec => ReceiptsFinal`. Acceptance marks a receipt in a later step than the one
  that looked at it, so the guard alone does not protect it. The invariant `Pending` says what the
  receipt of a driver between those steps is, and it is kept because only the holder of the lock, or
  a driver that finds it free, writes a receipt (`Careful`): this is where `Control` is needed.

The other invariants of the coordinator need to know what the holder of the lock may rely on at each
program counter, because what it read of the document steps ago is acted on now. The inductive
invariant is built in layers, each kept with the help of the ones before it:

    Control /\ Data  ->  Pending  ->  Ownership  ->  Receipted  ->  Running  ->  Proven
       TypeInv                          OwnInv (with Receipted)      RunInv      CommitInv

`OwnershipProofs`:

- `Ownership` says what the slots, the owner and the last result are in each phase (`CanonShape`), and
  which of these the holder of the lock has found (`Holding`): a driver at `commit` is its document's
  owner and the phase is `probing`, one that restores has a game to restore and a request that is
  not a stop. It is kept because a driver that comes back from an unlocked wait compares what it finds
  with what it remembers before it goes on, and because no other driver writes while the lock is held.
- `Receipted` adds the receipts: what is in flight is backed by the document (its owner, or the
  result it still names) or by the driver that is just settling it.
- `OwnersAct`: `Spec => []DriverOwnsCanonical`; `SingleFlight`: `Spec => []OneInFlight`;
  `RestoreIsNamed`: `Spec => []RecoverableIdentity`; `ClaimsInOrder`: `Spec => FifoOrder`, for which
  `ClaimantAhead` goes through the steps that claim the document: an acceptance that found itself
  ahead of the queue, and the replay of its head.

`RuntimeProofs`:

- `Running` adds the runtimes: named generations are distinct and below the next one (`Sound`), a phase
  that plays has its slot (`Occupied`), every process that runs is named, and the predecessor of a
  candidate is dead (`Housed`). `Knowing` is what the holder has seen of them between a teardown and
  the save that relies on it.
- `SavesAreValid`: `Spec => []CanonicalValid`; `EveryGameIsNamed`: `Spec => []NoOrphanGame`;
  `OnlyOnePlays`: `Spec => []OneGameOnAir`; `CandidateStartsAlone`: `Spec => []StartsAlone`.

`CommitProofs`:

- `Proven` adds the commits: one that replaced a game is answered as succeeded, or a retiree is kept as
  its proof; and whatever is about to be answered as failed (by the holder, by the owner's rollback,
  by the result a recovery would finish) has no such proof.
- `ProofsSettle`: `Spec => []RetireesProvable`; `CommitsAreHonoured`: `Spec => []CommitsHonoured`;
  `CommitsRunOnce`: `Spec => NotRepeated`.

Each layer was checked by TLC as an invariant of all nine instances of the coordinator before it was
proved. None of them bounds generations or faults: `MaxGen` and `MaxFaults` are any numbers.

`SwitchAgentsProofs`, for every set of drivers, requests and games and any number of agents:

- `FenceHolds`: `AgentsSpec => []ActsOnAir`. A driver steps only while nobody acts
  (`DriversMeetNobody`): either some driver has the lock, and then nobody acts by the invariant, or it
  is free and the step needs the exclusive side. So what a step does to the document does not
  matter, and what it does to the agents brings idle ones only (`CallsBringIdle`). No typing of the
  coordinator is needed; the invariant adds that an agent is a record.
- `CoordinatorAmongAgents` and `HistoryAmongAgents`: everything proved of `Spec` above holds of
  `AgentsSpec`, which is not a restriction of it. `ComposedSteps` splits a step of the composition: the
  coordinator's, or the agents' alone, which at most counts a fault, or that of a driver the agents
  keep out of the lock until its deadline (`KeptOut`), which is no step of `Spec`, and leaves like a
  bystander. So the properties of the run `crash` are proved of the specification it checks.
- `OnAirIsPlayed`: `AgentsSpec /\ []RestoresFresh => []AgentReady`. `RestoresFresh` says that the
  generation a restore is about to take is not that of a request which may yet run. The comment in
  the code takes this for granted ("restore it as a fresh generation"), and `regenerate` shows that it
  is not: a receipt that a process wrote just before it died may hold that generation. The hypothesis
  cannot be dropped: without it TLC finds, after six faults, a `ready` document without an agent (see
  [Further disagreements](#further-disagreements)). The theorem says that this is the only way: nothing
  else, in any number of faults, leaves a game without its agent.

  The argument has two invariants above `CommitInv`. `AgeInv` is about generations: no two unfinished
  receipts hold the same one (`Apart`), and no runtime in `active` or `previous` has one that is still to
  be taken, but for a game on air whose own receipt has not been finished yet (`Taken`, `Unanswered`);
  and a candidate's generation is its own request's (`Minding`). `StaffInv` is about agents: the game
  on air has one, and so has a candidate that is about to be committed; the agent of a candidate waits;
  and an agent whose generation may be taken once more waits, or its own runtime is still named
  (`StaleWait`). That last part is what is needed when a request starts: `start_agent` does not
  start a second agent where it finds the window of a first, so the one it finds must not be about to
  fence itself out. What a driver's step does to the runtimes is summed up once, in `Course`, shown for
  every group of steps (`SwitchAged`, `BoundaryAged`, ...), and all the agents' part uses of it. TLC
  checked both invariants on instances like that of `crash`, under the hypothesis and with up to
  eight faults, before they were proved.

`DispatchProofs`, for any workers, chains, lanes and open agents:

- `DispatchTyped`: `Spec => []TypeOK`, and `LeavesNothing`: `Spec => []NothingLeft`. The invariant
  `Orderly` ties a worker's record to the owner files: every directory that names a worker is among
  the locks it has (`Answers`), it has no others than its place in the dispatch accounts for
  (`Carries`), and none outside of an attempt. A reaper may take a worker's directory away, so having a
  lock does not mean that its directory is there; leaving nothing needs the other direction only.
- `OneHolderAtATime`: `Undisturbed => (Spec => []OneHolder)`. Without the hypothesis the property is
  false: `reapers` is a counterexample with three takers of a lock one of whom is killed, and a worker
  slower than `stale_sec` is reaped alive. `Undisturbed` says just that: nobody is slower, and a lock
  that a mortal worker may take has at most two takers, so that whoever reaps a dead holder is the
  only one who looks. The instance `heir` satisfies it, and so does a deployment where the radio and
  one comment worker share an agent. The invariant `ShareInv` says that a directory that is there
  has a user who keeps it young, or a dead taker (`SharedOf`), and that a reaper at work has one
  (`ReapOf`).

`ProgramSlotProofs`, for every set of corners, every number of requests and kills:

- `TypeCorrect`: `Spec => []TypeOK`, with the discipline of the lock in it.
- `RegistryCorrect`: `Spec => []RegistryTells`. A claim overwrites the registry two steps after the
  look at the owner, so the invariant adds `Looked` (whoever is between the look and the claim has
  an owner that is over: nobody can begin meanwhile, because the lock is taken, and a run that has
  ended does not come back outside the slot) and `Named` (whoever is past the claim is the one named).
- `LineHolds`: `Spec => NotOvertaken`. `Behind` says that the corners a corner joined behind are in line
  with an earlier time; `Through` that one which passed the look at the rows has nobody before it. The
  look does not see the corners that join afterwards, and need not: they join behind.
- `Implements`: `Spec => OneProgramme`, the refinement. Every step leaves the abstract owner as it is,
  takes it from free, or gives it up; `Handover` shows with `RegistryTells` that at most one corner
  occupies the programme, so that the `CHOOSE` of the mapping is the one, and that a claim which sees a
  failed view as over gives the programme up before the next run takes it.

`CornerRotationProofs`, for any corners, requests, pauses, deaths and stops:

- `RotationTyped`: `Spec => []TypeOK`; `OneManualWaits`: `Spec => []OneManual`; `ManualIsKept`:
  `Spec => []ManualKept`; `RunIsReserved`: `Spec => []RunReserved`. None of them is inductive: an
  import, a reservation and a settlement are spread over steps between which the holder may die, and
  the file is written by the holder and by an operator's stop. The invariant `RotInv` adds three parts.
  `AtWork`: whoever is between a submission and its answer has the corner's lock, and the file's status
  is the one this process has put there. `Books`: a ledger holds whole requests. `Knows`: what the
  holder may rely on at each of its places (its copy agrees with the disk in what is reserved, queued
  and released; a run was started for the reservation; an answer "completed" means that the file's
  run has ended).
- `StepAccounts` is the argument: a request moves in five ways (`Accounts`: kept, imported, emptied from
  the inbox, taken as the reservation, closed), the run in the file goes on or begins for the
  reservation (`RunGoesOn`), and each of them keeps the three properties. Every step of the holder is
  shown to be one of the five (`HolderWorks`), every step of a run to keep the lock's discipline
  (`RunMoves`).

- `OnAirIsAccounted`: `Spec => []OnAirAccounted`; `CooldownIsRespected`: `Spec => CooldownRespected`. The
  plane moves by itself, so what is on it follows from the switches that were sent, and `AirInv` adds
  to `RotInv` what the books and the file say of those. `Once`: a request that has been settled is
  never reserved, queued or asked for again, and the number of a slot is used once, so a run that
  begins has no switches yet. `Imported` and `Carries`: an import is over before the holder looks at
  the corners, and its copy never counts less use of a corner than the disk. `InTheAir`: only the
  switches of the run in the file may be unanswered, and only the one its status is about (`Open`); a
  corner on the plane, or one whose use the ledger does not count yet, is that of the run in the file,
  which is not settled (`Unsettled`); and what is reserved automatically has cooled until it is on the
  plane (`Coming`). The hard steps are those that give a reservation up on a proof (`AirSettles`): a
  release reads the plane and the start's receipt, and what it has not read must follow from the file.
  No step but a day takes a use back, and a day takes it from both sides (`DayAir`).

The liveness properties stay with TLC: the prover does not treat fairness. Nothing here needs induction over data. The properties of the three
runs that expect a violation have no theorem, and neither have those of [Further
disagreements](#further-disagreements); `reapers` has one under the hypothesis it violates.

## Findings

Each is a run that TLC refutes, with a behaviour of the code behind it:

- `reapers` (`llm/locks.py:86`): a waiter decides that a lock directory is stale and removes it in a
  later call. Two waiters of a dead holder decide on the same directory; the first removes it and
  acquires, the second removes the lock just acquired, and two generations of one lane run at once.
- `cancelled` (`corner_rotation.py:507`): an import saves the ledger and then empties the inbox. After a
  death in between, a cancellation finds the request in the inbox, removes it and answers
  "cancelled", while the ledger's copy is reserved and run, against the docstring at 490.
- `leftover` (`corner_boundary.py:369`): the freshness bound of rows (281) is applied by
  `other_corner_busy` only; whoever waits for its turn counts every earlier row, however old. The row
  of a waiter that was killed keeps every later request out until the killed corner asks again.

## Further disagreements

These instances are kept beside the listed runs; each checks one property that the code does not keep,
and `tlc -config <Module>_<name>.cfg <Module>` shows the behaviour.

| cfg | property | what happens |
|---|---|---|
| `MCGameSwitch_repeat` | `CommittedNotRepeated` | a start from idle retires nothing, so after a crash past its commit, the death of its game and a recovery that overwrites `last_result`, a resend is queued again and runs a second time, against the comment at 1264-1266 |
| `MCGameSwitch_regenerate` | `GenerationsFresh` | a restore takes `next_generation` alone (5128), while acceptance takes the maximum with the receipts (1296); a receipt written just before a crash may hold that generation, its candidate later duplicates the restored runtime's, the save is refused after the old game was stopped, and the driver dies |
| `MCGameSwitch_refailed` | `FailedRestoreLeavesFailed` | a recover whose restore fails after its candidate was written leaves `rolling_back`, not `failed` (6200): the transition is from the phase `recover` read, and its `InvalidTransitionError` is swallowed; a later recover still copes (in this instance `Settles` holds under `FairSpec`) |
| `MCGameSwitch_stopnothing` | `StopMeansStopped` | a queued stop that is replayed while a switch is interrupted in `quiescing` is answered as succeeded (3111): only `active` is looked at, and the game is in `previous` |
| `MCGameSwitch_stuckstart` | `QueuedServed` | a queued start that finds another game active is answered without a terminal receipt (3058); it stays the head, and everything behind it waits for ever |
| `MCGameSwitch_stuckstop` | `InFlightEnds` | a stop that died between its first receipt and its claim, and whose game exited, is answered on resend without its receipt being finished (3113); it stays in flight, and every other request is refused |
| `MCGameSwitch_orphan` | `InFlightEnds` | an entry that gives up another's expired drain dies between the document and the receipt (5469-5586), and the game dies before a recovery reads the result: the recovery of the dead game writes an anonymous one over it (5758), nothing names the request any more (6281), and its receipt stays in flight and keeps the queue waiting (1194) |
| `MCDispatch_unlink` | `BackoffKept` | a back-off read as expired is unlinked without a second look (`llm/backoff.py:60`), together with the one another dispatch has recorded meanwhile |
| `MCCornerRotation_stuckrestore` | `RestoreFinished` | a restore that answers queued and is finished by another driver: every later attempt verifies first that the corner is still on the plane (`retro_corner.py:1828`), and the run stays in `restoring` |
| `MCCornerRotation_lateresume` | `ReservationSettled` | a process that dies between its state file and its switch request leaves no receipt; when the slot is over, each proof needs one (`retro_corner.py:2180`), and the reservation waits for ever |
| `MCCornerRotation_carryover` | `StopNotCarriedOver` | `stop_manual` writes its request outside of the locks and for the file, not the run (`corner_rotation.py:2163`): written late, it ends the next corner's run |

Where one of these shows a hazard of `PROJECT.json` and the listed run of the same property stays
clear of it (`served` has neither a start nor a stop, `settles` has no deaths), the hazard names no
property and its note names the cfg. `regenerate` likewise: a document with equal generations is never
saved, in the code as in the model, so `CanonicalValid` says nothing of it.

`regenerate` has a longer consequence, which bounds what `AgentReady` can be claimed for. With
six faults TLC finds a `ready` document whose runtime has no agent: a process dies between the receipt
that holds generation 3 and the document's next generation; a rollback then restores the old game as
the duplicate generation 3, and that game dies; the run of `restart` fails and restores generation 4,
leaving the agent of the dead runtime behind; its driver dies, generation 4 dies, and `recover` writes a
result that names nobody; so the resend of `restart` runs a second time, with generation 3 again as its
candidate. `start_agent` finds the window of the old agent and starts none (`adapters/cli_game.py:682`),
the old agent loses its fence before the commit, and the document is `ready` without an agent. The
timer's `repair_active_agent` starts one later.

## What is not modelled

*Coordinator.* The `expected_source` fence of a stop, the exception for a live singleton game, abandoned
program views, the terminal release of one particular game, `adopt_failed_candidate`, the in-process
cancel claim of two waiters of one boundary, pruning of terminal receipts, the payload hash and its
conflicts, the mirror file, the log, and disk errors other than a crash between two writes. The phases
`committing` and `recovery_required` are legal values that no transition writes.
`Finalize` settles the receipts first and then does every teardown with the save in one step, where
the code goes through the retirees one at a time (5315-5365): a death or an exit between two of them is
still a behaviour of the model, as a crash before the save and dying games, but it costs more than one
of the `MaxFaults`. `CollectDead` updates the present retirees, while the code rewrites the list it read
before the cancel (3950, 4163-4166); they are the same, since nobody else writes them while draining.

*Agents.* The unfenced loop of the command line, leases, the guarded NetHack brain, telemetry, and what
an agent decides. An adapter without an agent (`agent_enabled` false) has none to start. The watchdog's
schedule is `Repair` being possible; its back-off is left out.

*Program slot.* What makes a boundary (predictions, audio); a registry file that cannot be read;
`program_lock`, which nothing calls; the audit tool `stale_failed_owner_release.py`; a stop that ends a
run while its corner waits in line for it; requests with equal times.

*Rotation.* `run_manual` and `manual_pending`, the interval policy, clock regressions and the
quarantine, the heartbeat, notices and announcements, history compaction; adapters other than the
retro corner's. The program slot appears there as an execution that may answer "queued"
(`ExecuteQueued`), and the coordinator as `plane` and `receipt`: the composition of all three in one
state space is out of TLC's reach.

*Retro corner.* The second try of a switch inside one call, after a recovery of a failed document
(`retro_corner.py` 1517-1548): `SwitchFails` is the failure that is left after it, on a terminal
receipt, and the recovery itself is `Repair`, which any driver may do. `LatchReplay` counts
in `Tries` only the attempts that find a failed restore to repeat; the code also uses up its budget on
attempts that find none (`corner_rotation.py` 1402-1411), so the model allows more than the code. The manual and lottery ticks, the Hanjuku run with its resume, saves and start budget,
matches, improvement processes, the capture profile, the operator's `recover_failed` and
`recover_runtime`.

*Dispatcher.* The improvement gate, image and vercel filters, telemetry and side files, the provider
commands. The failure streak is counted without a lock: a lost count lengthens the next back-off
less, and no property depends on it.

*Other components* are listed with their reason in `PROJECT.json`: the stream supervisor, the overlay and
comment queues, presentation, captions, the resolver lease, adapters and tmux, the command line and
the web UI, the game-playing agents, and the corners' content. Together these are most of the
repository's 261 000 lines: heuristics over game memory, screens, programme content, wrappers of external
processes and diagnostics, which are sequential and share no protocol state. The share of lines the
modules map is small for that reason; the modules cover the files whose processes coordinate.

## Plan

1. *Done.* Coordinator; its composition with the agents; LLM dispatch; program slot with its abstract
   specification; rotation and retro run; the theorems above.
2. *Done.* Proofs: every safety property of a passing run is proved; `AgentReady` under the hypothesis
   that a restore's generation is fresh.
3. `RequestLedger` (each request is open, then answered once) as what the coordinator promises its
   clients, and the refinement from `GameSwitch`; then `plane` and `receipt` of `RetroRun` as a second
   refinement of the same abstraction, which would tie the two models together.
4. `OverlayQueue`: the bounded file with de-duplication against an abstract sequence of events.
   `StreamSupervisor`: instance lock, pause and take-over.
