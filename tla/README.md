# TLA+ project for AGC-in-Rust

AGC-in-Rust is a port of the Apollo Command Module guidance computer's
software. This directory holds TLA+ models of the parts of it whose
correctness is a matter of *order*: what the run loop, the timer interrupts,
the self-rescheduling tasks, the autopilot and the crew's keys do to each
other. TLC checks the models on small instances; TLAPS proves the most
important results for every value of the constants.

All paths below are relative to the repository; `core/` stands for
`agc-core/src/`.

## 1. Inventory

### How the program runs

There is one foreground loop, `Executive::run` (`core/executive/scheduler.rs:78`),
and no preemption of it by other software. Interrupt handlers only set one of
four atomic flags (`core/hal/runtime.rs`). An iteration of the loop:

1. arms T5 if the autopilot is on and T5 is not believed armed;
2. drains T6 (jets off), T5 (`dap_step`), T3 (one waitlist task), T4 (clock + 12 cs,
   gyro drift, display);
3. feeds key codes to the verb/noun machine, runs the highest job;
4. writes the staging fields (engine, jets, pyros) to the hardware;
5. re-arms T3 if the front of the waitlist changed.

So handlers are atomic with respect to each other, interrupts are not atomic
with respect to anything, and everything persists in one `AgcState` that each
handler may change while others have work pending on it. That is where the
bugs of such a program live.

### Components

| Component | State | Operations | Correct when | Module |
|---|---|---|---|---|
| Waitlist `executive/waitlist.rs` | 8 entries of (delta, task) | `schedule`, `pop_task`, `front_delta` | deltas are differences of due times, in range; tasks in order | `Waitlist`, spec `TimedTasks` |
| Run loop `executive/scheduler.rs`, board timers | flags, `last_armed_t3`, `t5_armed` | drain, lazy re-arm | no wake-up lost, waiting tasks served | `RunLoop` |
| SERVICER `services/average_g.rs` | active flag, exit hook, state vector | start, stop, cycle | one living chain while the flag is up | `NavCycles`, `Burn` |
| P02, P20, P22, P23 | major mode, waitlist entries | init, cycle, reschedule | a chain ends when its program is left | `NavCycles` |
| P40, P41, `guidance/maneuver.rs` | `burn`, `pending_maneuver`, V50 request | engage, arm, cut off | a lit engine is watched and cut off | `Burn` |
| DAP `control/dap.rs`, `rcs_logic.rs` | mode, staged jets | `dap_init`, `dap_step`, `dap_stop`, RCS staging, T6 | keeps cycling while on; ignites at TIG only; a jet turned on is turned off | `Burn`, `Jets` |
| P00, P06 | everything above | quench | engine off | `NavCycles`, `Burn` |
| FRESH START, RESTART `services/fresh_start.rs` | everything | reset | what is kept is consistent with what is lost | `NavCycles`, `Burn` |
| P30-P34, P37 | staged TIG, `pending_maneuver`, P33's arrival | take or read the TIG, aim, refuse | a TIG serves one target, P31's and P32's excepted | `Targeting`; effect on the burn in `Burn` |
| P11, P15, P47 | exit hook | monitor | - | `Burn` |
| P61-P67 entry | entry phase, pyros, roll mode | select, hook, stage | guided until the drogue; drogue once, not over an attached service module unannounced | `Entry`; seen from the burn in `Burn` |
| Mission clock | `time`, epoch, `last_drift_comp_time` | T4 step, SERVICER, V73/N24/N36/P27 | intervals taken from it are true ones | `Clock`; free in `Burn` |
| Keyboard `services/v_n.rs`, P27, uplink | `VnPhase`, state vector words | keys, verbs, loads, updates | a locked keyboard says so; the state vector stays in one frame | `Keyboard`, over `Targeting` |
| Jobs `executive/job.rs`, restart groups | 7 slots, 6 phases | create, drop, redispatch | - | not modelled (no production callers) |
| Link: `agc-protocol`, board `link/`, `agc-bridge-pico` | decoder, key queue | send, push, dispatch | keys in order, none twice; recovery after noise | `Link`, spec `KeyStream` |
| navigation, guidance, math, tables | - | floating point | - | out of TLC's reach |
| `agc-sim`, `agc-imu-platform`, `agc-test` | - | host simulation | - | not modelled |

### What is hard

- **Interleaving.** T3 and T5 can expire in any phase of an iteration; the flag
  they set may by then refer to a list that was cleared and refilled.
- **Stale caches.** `last_armed_t3` and `t5_armed` stand in for the timer's state.
- **Sequences of legal keys.** No handler removes a waitlist entry, a V50
  request or an exit hook that belongs to another program; V37, V46, V36, V69
  and PRO arrive in any order.
- **Partial cleaning.** P06, P00, P62 and RESTART each reset a different part of
  the burn state.
- **Limits.** The waitlist has 8 slots and its callers differ in what they do
  when it is full.
- **Arithmetic on time.** u16 deltas, a zero reload, a u32 clock that can go back.

`PROJECT.json` lists each hazard at its line with the properties that cover it.

## 2. Modules

    Waitlist ---- RunLoop ---- NavCycles    Burn   Entry   Jets   Clock   Keyboard   Link
       (values)     |                                                                 |
                 TimedTasks (abstract)                                Targeting  KeyStream (abstract)

Each of them but `Waitlist`, `TimedTasks`, `Targeting` and `KeyStream` has a module `...Proofs`
with its theorems; those of the waitlist's operators are in `RunLoopProofs`, those of
`Targeting` in `KeyboardProofs`.

**`Waitlist`** - the chain as a value and its operations as operators.
Besides the code's `delta`, each entry has two history fields: `sum`, the due
time measured from the head's last loading, and `due`, the time left until the
moment the caller asked for. No operation reads `due`.

**`TimedTasks`** - what `schedule` promises: tasks with the time left, in a list whose order
means nothing; a task may fire once its time is up.

**`RunLoop`** - the loop, T3's one-shot and its ISR. The phases of an iteration are `t3`
(about to swap the flag), `task` (popped, running), `work` (keys, jobs, up to
the re-arm). `Tick` lets a centisecond pass in any phase when `Latency` is
TRUE. Handlers may schedule with the given delays or clear the list.
`ArmT3(0)` is the wrapped reload of `agc-board-nucleo-f767/src/local/timers.rs`.

**`NavCycles`** - SERVICER, P02, P20, P22, P23 and V37, V46, V36, V69, one
action per handler, on top of `RunLoop` (its loop actions conjoined, each
handler an instance of `TaskCall` or `WorkCall`).

**`Burn`** - P40/P41, the autopilot's mode and T5 chain, the SERVICER's exit
hook, the separation of P62, and every program and verb that touches them. The
phases are `t5`, `t3`, `t4`, `keys`; the last ends with the staging that writes
engine and pyros. A burn's delta-V to go is counted in SERVICER cycles;
the accelerometers register thrust when the SPS discrete is on and may or may
not register something when it is off (jets, ullage, bias). The waitlist is
abstracted to the number of SERVICER entries; `Saturates` lets other tasks
have filled it. The clock is written by T4, SERVICER and the crew; the writers
other than T4 may set it to any value within the bound. P33, P34, P37, P40 and
P41 that refuse leave everything, the major mode too, as it was: a stuttering step.

**`Entry`** - P61-P67 with the same hook, SERVICER and autopilot seen from the
entry: five selections, the hook's cycle (threshold, `select_phase`, roll command,
drogue) and the pyro staging. A cycle's flight data is whether it senses 0.05 g and
one of three `Speeds`. The histories `separated`, `drogueOut` and `warned` record what the
pyros have done and whether a program complained since FRESH START.

**`Jets`** - a pulse from the control law to the end of it: the duration a cycle stages,
`fire_sm_jets` and `arm_t6` at the end of the iteration as two steps, T6's countdown and ISR in any
phase, `quench_all` at the top of a later iteration, the T5 chain, and the handlers by what they do to the
autopilot. `Reset` is a watchdog reset or a fault: timers and memory start over, the jets hold what they
were last told. The histories `stale` and `cycles` say whether T6's flag was already up when the
pulse was armed, and whether the autopilot has had a cycle since.

**`Clock`** - `time`, the state vector's epoch and `last_drift_comp_time` in
arithmetic modulo `Wrap`; T4's free-running timer and its one-bit flag; the
SERVICER's overwrite; every crew verb that writes the clock (`SetClock`), and FRESH
START and RESTART. SERVICER entries are a countdown per chain, `Retime` being the
effect other handlers have on it. The history `rhythm` says whether the
SERVICER has been running as one chain, on time, with no clock update.

**`Keyboard`** - `VnPhase` as crew and ground share it: VERB, NOUN, digits, CLR, RSET,
ENTR in each phase, the loads, V37, and the P27 updates V70-V73. Digits are
counted, and the number chosen when it is used. The state vector is the frame in
which each component is really given (`comps`) beside the frame it claims (`label`); a
SERVICER cycle can come between any two keys. The loads and the
program selections do to a target what `Targeting` says.

**`Targeting`** - a time of ignition from the load that stages it (`pendingTig`) through the target
(`maneuver`, which is `pending_maneuver`) to `burn`, the maneuver last engaged, whose `tig` the code's `BurnState` keeps after
the cut-off too. A TIG is known by the load it came from (`Tigs`), so that entering the same time twice is two loads, and
a centisecond lost in P33's conversion to seconds and back makes no new one. Of `TargetingMode` the model keeps whether P31 or P32 aimed the
maneuver; that of `burn` is a history. P33 and P34 take the TIG before they can fail, N81 before it looks whether the TIG has
passed; P31 and P32 read it, and fall back to the current time (`NoTig`) without one. `DropManeuver` is P30, P06 and P62.

**`Link`** - one step per byte on the wire, which arrives, arrives as another value, or does
not arrive; the decoder's phases, `dispatch`, the bounded key queue, the foreground's read, and a
`Reboot` of the AGC. The check sum is idealised as perfect: a frame passes exactly when its own bytes were
collected. **`KeyStream`** is what the link promises: keys in the order sent, each
at most once.

Each property has beside it, in the module of the code it is about, an operator
marked "Wrong on purpose": a plausible bug that the property catches.

## 3. Runs

| Run | Bounds | Shows |
|---|---|---|
| `runloop` | 2 tasks, 3 slots, delays 1-3, latency | `ChainSound`, `NoLostWakeup`, `ServedEventually` with arbitrary handlers |
| `runloop_tasks` | delays 2, 3, 5, no latency, keys schedule nothing | the loop implements `TimedTasks` |
| `nav` | SERVICER, P02, P22, P23, 3 slots, periods 1 and 2, latency | the composition implements `RunLoop`; `ServicerLostOnlyByRestart`; `NotDoubledWhileActive`; `EveryTaskServed`; `ChainsEnd` |
| `burn` | 2 chains, 2 cycles of thrust, times 0-1, a list that may be full | `StandbyIsSafe`, `AutopilotAlive`, `WatchLostOnlyBy`, `SteeringLostOnlyBy`, `CutoffFollows`, `IgnitionFollows` |
| `entry` | 2 chains | `DrogueCommandedOnce`, `NoDrogueUnannounced`, `GuidanceLostOnlyBy`, `DrogueFollows`, `RollFollows` |
| `clock` | 2 chains, wrap 16, T4 2, cycle 5 | `IntervalSound`, `CycleCorrectsByATick` |
| `keyboard` | 3 vector words, addresses 1-5, 3 loads of a TIG (symmetric) | `LockIsLit`, `TigSharedOnlyByCoelliptic`, `RefusedOnlyBySelector`, `TornOnlyByWord`, `BlockInstalls` |
| `link` | payloads to 4, bytes 0-7, 2 queue places, 4 keys | `ResyncAfterOne`, implements `KeyStream` |
| `jets` | a cycle of 8 counts, pulses 2-8, 16 counts a unit | `TimingLostOnlyByReset`, `CutOnlyByStaleFlag`, `StagedOffOnlyByRestart` |
| `burn_p41`, `burn_separation`, `jets_pulse` | | what a comment or a test says is violated (section 6) |

*Why the bounds are enough.* With three slots and three distinct delays the
list can be empty, full, and in between; an entry can go in front, in the middle, at
the end and beside an equal one; a list can be cleared and refilled within an
iteration. In `nav` the periods keep the tie (SERVICER and P22, 200 cs, are 1) and their order with the
longer ones (P02's 500 and P23's 1000 are 2); P20 is another P22, with the same period
and the same body as far as the waitlist goes. `ZeroReload` (the 42 950 s a wrapped
reload waits) is a value larger than every delay. `LateCap` stops the count of
lateness. In `Burn` two times give a TIG that is now, to come, and past; two
cycles of thrust separate "some delta-V gained" from "done"; two chains allow
the doubled SERVICER. In `Clock` the cycle is no multiple of T4's period, as 200 is
none of 12, so cycles hold two interrupts or three and the clock is corrected both
ways; the wrap is just above what `ClockAssumption` asks, so that the counter
overflows within a few cycles. In `Jets` a cycle is eight counts for 160 and the
pulses two to eight for 22 to 160; the factor 16 is the code's. In `Keyboard` three words are a first, a middle and a
last, and an address lies between the vector and the selector, so a block can
end before, at and beyond either; three loads let the burn and the maneuver have two and another be staged.
Nothing depends on which load is which, hence the symmetry; the run states safety only. In `Link` the four payload lengths include none and
the longest, byte values include the STX, every legal length, and values that are neither;
two places let a queue be empty, partly filled and full, and four keys overflow it and follow.
The theorems lift these bounds: for the safety properties altogether, for those of liveness up to the widths the
code gives its numbers (section 4).

*Fairness.* `FairSpec` and `FairNavSpec` assume that the loop takes its next
step and that the clock ticks: the loop never blocks (no handler waits) and the
timers are hardware. Crew actions and handlers' calls have none. In `Burn`,
`SF(DrainT3)` says that SERVICER's entry is served again and again; that is
`EveryTaskServed` of `NavCycles`, and it is not weak fairness because between
two SERVICER cycles the loop passes phase `t3` many times with other tasks or none.
`Entry` assumes the same of `DrainT3(TRUE, "terminal")`: the descent ends, with 1 g and
a low speed, and the SERVICER sees it. `Link`, `Keyboard`, `Jets` and `Clock` state safety only: nothing
obliges the line to deliver or the crew to type.
All runs check for deadlock: the system never stops.

## 4. Proofs

The eight modules `...Proofs` are checked by
TLAPS from the assumptions named `WaitlistAssumption`, `RunLoopAssumption`,
`NavAssumption`, `BurnAssumption`, `EntryAssumption`, `ClockAssumption`,
`JetsAssumption`, `KeyboardAssumption`, `TargetingAssumption` and `LinkAssumption`: constants have the right types and delays lie within the
range `schedule` documents.

- **The chain.** `Sound(list)` (well-formed, deltas are the differences of the
  sums, in range) is kept by `InsertAtPosition`, `PopTask` and `Age`. The walk of
  `schedule` stops at exactly one place (`SchedulePositionUnique`), because in a sound chain sums never
  decrease; the smallest position is found by well-founded induction on the naturals.
- **The loop.** `NoLostWakeup` is not inductive: the re-arm is skipped on the
  strength of the cache. `Inv` adds that a cached delta means a running timer
  or a posted interrupt, and what `next` says of the list during a task. From
  `Inv`: `RunLoopTypeCorrect`, `ChainAlwaysSound`, `WakeupNeverLost`.
- **The composition.** Every step of `NavCycles` is a step of `RunLoop` or leaves
  its variables alone (`NavImplementsRunLoop`), so the above carries over
  (`NavWakeupNeverLost`); `ServicerNeverLost` says the flag and the entry part
  at a RESTART only, `ServicerNeverDoubled` that a running SERVICER is not joined by a
  second one (the selection, the pop and the body's request counted by position in the list).
- **The burn.** `BurnInv` joins to the types: an active burn has something left
  to gain; in P06 the engine, the autopilot and the hook are off; `t5_armed`
  implies a running timer or a posted interrupt, and equals "autopilot on" right after
  the drain. It gives `BurnTypeCorrect`, `StandbyAlwaysSafe`,
  `AutopilotNeverStalls`, `WatchOnlyLostByListedSteps` and `SteeringOnlyLostByListedSteps`.
- **The entry.** `DrogueCommandedOnce` needs that a drogue that is out or pending has set the
  life-of-mission flag, and that the pending bit survives no staging; `NoDrogueUnannounced`, that every
  phase past the separation was reached with the pyro fired, staged, or a program warned.
- **The clock.** `IntervalSound` and `CycleCorrectsByATick` relate readings taken in
  different steps, so the invariant must say where the clock is in between:
  `KeepsTime(k, q)`, the clock is the epoch advanced by the time since chain `k`'s
  last cycle, plus the phase `q` that T4 had at that cycle, less what T4 lags
  now. In "steady" rhythm the drift reference is the clock itself, or the SERVICER
  has just moved the clock, which is then at the epoch and near the reference;
  a second cycle cannot come in that state because a cycle is longer than T4's
  period. It gives `ClockTypeCorrect`, `IntervalAlwaysSound` and
  `CycleAlwaysCorrectsByATick`.
- **The jets.** `JetsInv` adds to the types that between `fire_sm_jets` and `arm_t6` there is a duration to arm;
  with that, and with a product of positive numbers being positive, `TimingOnlyLostByReset` follows for every
  period, limit and unit. `CutOnlyByStale` is inductive by itself: only `arm_t6` starts a countdown, and it notes the flag.
- **The keyboard.** `KeyboardInv` joins to the types: an accepted block fits the address
  space, `LockIsLit`, and that the words of an Earth-frame block loaded so far without a
  cycle in between are in the vector. `TigSharedOnlyByCoelliptic` compares all three places a TIG can be in, and so is inductive by
  itself: a maneuver engaged takes its TIG, and its excuse, with it. It gives the properties of the run for every
  size of vector and address space and every set of loads.
- **The link.** The invariant says what the decoder has collected relative to the byte on the wire:
  a clean decoder is exactly where the sender is, and after one undisturbed frame it is idle or clean
  whatever it was before. It gives `ResyncAfterOne`; with the order of the queue (serial numbers
  increase, and lie between the last taken and the last sent) it gives the refinement of `KeyStream`.

- **The promise.** `PromptLoopKeepsPromise` is the refinement of `TimedTasks`, for a loop that takes no time (`Latency = FALSE`)
  and whose keys schedule nothing (`WorkDelays = {}`), which are the conditions under which it is true; a key handler's
  insertion can make its own task early (section 6). `PromptInv` adds to `Inv` that no entry is due later than the
  chain will dispatch it - by the timer where it was loaded for the present head, by the head's delta elsewhere - and that a posted
  interrupt belongs to the timer as last loaded. Each step is matched with the `Add`, `Fire`, `Clear` or `Pass` it
  is, by the position in the list at which it happens.
- **How long a pulse lasts.** `jets_pulse` refutes the claim that a pulse fits a cycle; `PulseOutlivesByOverrun` says what is true
  instead: it outlives its cycle by the length of the loaded pulse over a period, and by no more. `ShortPulsesEnd` concludes
  that the unit of the duration is the only reason: pulses no longer than a period would all end in time. `CycleInv` says that T5 runs one
  period at a time and that T6 lags it by the overrun at most.

**Liveness** is proved too, from fairness in a form that the prover can handle. `WF(A)` is `[]<>~ENABLED <<A>> \/ []<><<A>>`; the
theorems assume the same with the guard written out: `LoopRuns` (a step of the loop is always possible), `ClockRuns` (the
clock can tick while T3 runs), `T5Expires`, and for the two strong ones `ServicerServed` and `DescentServed` (a SERVICER entry at
phase `t3` can be served). That `FairSpec` implies these is a matter of `ENABLED`, out of the prover's reach: read the guards of
the actions, which is all there is to it. `ClockRuns` is that of `Latency = TRUE`.

- *The list.* A waiting list of which nothing is taken has a length that only grows, or from some point on a timer that only falls
  (`WaitingListIsServed`, which holds for every value of the constants). Neither can go on for ever: `WaitingListServed`.
- *Each task.* `TasksServed` and `LeftChainsEnd` rest on the distance of a task from the head: the sum of its first (or last)
  entry, and the number of entries at the head with nothing left to wait for. Every pop lowers it, and no insertion raises it, for a
  delay is at least one.
- *The burn and the entry.* `ArmedBurnIgnites` follows T5 from the timer to `dap_step`; `WatchedThrustIsCutOff` has the delta-V
  to go fall with each SERVICER cycle; `GuidedEntryEnds` and `GuidanceSteers` take one terminal cycle and, for the drogue, the staging after it.

A number that never rises and keeps falling cannot stay natural: that is an induction, which the installed provers do not do. The
proofs halve the range of the number instead, until one value is left. So they assume a width: `FlightWidths` (at most
`MAX_WAITLIST_TASKS` = 8 entries, delays of a `u16`, reloads of 32 bits, as the code has them and the runs' constants too) and
`BurnCycles < 65536`, at the 2 s of a cycle a day and a half of thrust.

Every property of a passing run is the conclusion of a theorem. Only model-checked: that the `WF` and `SF` of the
specifications give the fairness as the theorems assume it, and the violations of section 6.

## 5. What the results say

The loop's caches are right: no interleaving of handlers and interrupts loses
a wake-up or stalls the autopilot. Tasks scheduled by tasks never fire early.
Standby is safe although P06 leaves the burn armed. The list of steps by which an
engine that is lit, armed or one PRO from armed loses its watch (`WatchLoss`) is
complete, and it is longer than one would wish: P00 with the V50 request still open, P06
likewise, P11, P15 or P47 during a burn, RESTART, a full waitlist, and a target reached before
ignition. The clock is set back by the SERVICER in two cycles of three (by 4 cs, and
forward by 8 in the third), against the monotonicity that
`specs/types-module-spec.md` states; the `u32` subtraction of the drift
compensation survives it because T4 adds its 12 cs first. Both need the rhythm: after
P06 and V46, or any clock update, the next cycle moves the clock by
whatever the epoch is behind.

**Entry.** The drogue comes once, and never over an attached service module without an alarm. But the
guidance rests on the crew's order of keys: P64 and P67 raise an alarm or none and then rely on a hook that only P63
hangs, P63 relies on a SERVICER that somebody started, and P61 accepts any
predecessor although `EntryPhase` is documented to alarm. The hook is dropped at the drogue; the
comment on it speaks of P67's selection.

**Keyboard and uplink.** The lock is never dark; VERB and CLR leave it with the lamp still lit,
although its comment says only RSET clears it. A single P27 word on a Moon vector
relabels it as an Earth one with the other components left in the Moon's frame; a Moon vector can only be installed
by its words first and the selector after, with the SERVICER free to integrate in the wrong frame between
them. OPR ERR in the middle of a block leaves a partial load. Crew and ground share one
accumulator, so their digits mix. V22 and V23 commit the registers not loaded as 0. V37 keeps a
staged TIG, and a V50 request too. PROG shows 27 after V70-V73.

**Targets.** P31 and P32 read the staged TIG and leave it, so one N33 can serve P31, its burn, P32 and then N81, P33 or P34, each aimed at
the same instant unless the crew enters another. That is the only way: N81, P33 and P34 leave nothing for a second target,
and neither a refusal, a RESTART, nor a burn in between brings a TIG back. The price is that P33 or P34, refusing for a reason found late, has used
up the TIG, and the crew must enter it again. P34 uses P33's arrival however old it is; only FRESH START forgets it.

**Jets.** Whatever the interleaving, a jet that is on has a T6 running for it or a T6 interrupt waiting to be
drained, also after P06 or RESTART. Two things break this picture. A reset of the AGC stops T6 with the jets on, and nothing
on the way back to the loop speaks to them: they burn until the autopilot has fired another pulse and that one has
ended. RESTART turns the autopilot off after it has staged a pulse, which the same iteration then fires. A pulse can be cut
short at the next drain if the one before it expires just before it is armed, for `arm_t6` leaves `T6_PENDING` up.

**Link.** After any noise one undisturbed frame is enough, and one may be needed. A frame whose sequence number is
STX (every 256th) is always lost, and no sequence number is ever checked. Full queues drop in silence. On the
board `uplink_queue` is never drained: `poll_uplink` is called by `t4rupt_step`, which `Executive::run` does not call.

**Board.** `AGC_STATE` is an initialised static (`agc-board-nucleo-f767/src/bin/agc.rs:51`); `memory.x` says a
surviving subset will move to BKPSRAM. Today a reset equals a boot, whatever RESTART keeps,
and the models' `Init` covers both.

## 6. Where the code and its comments or tests disagree

Shown by runs that expect a violation:

1. `burn_p41`: the SPS can be lit in P41 (`core/programs/p40_p41.rs`, TC-P41-3).
2. `burn_separation`: P62 fires the separation pyro with the SPS on, against "If a burn was active we also
   have to quench it" (`core/programs/p61_p67.rs:284`).
3. `jets_pulse`: `process_rcs_staging` multiplies T6 counts by 16 as if they were centiseconds, so pulses documented to
   fit an autopilot cycle (at most 100 ms) last up to 1.6 s (`core/executive/scheduler.rs:262`, `core/control/rcs_logic.rs:53`).

Met while modelling, without a run of their own:

- `schedule` "to fire `centiseconds` from now" (`core/executive/waitlist.rs:50`) is early when a key handler
  schedules, for the head of the list has not aged.
- `start_servicer` is not idempotent after `stop_servicer` (`core/services/average_g.rs:118`), P06 then V46
  doubling the chain; RESTART re-queues nothing (`core/services/average_g.rs:119`).
- Drift of less than a pulse per interrupt is truncated and lost (`core/control/imu_control.rs:87`).
- `push` has the next STX start a fresh frame (`agc-protocol/src/frame.rs:100`), except while it waits for a length: a frame cut off
  after its STX, or one whose last check sum byte is STX, takes the next frame with it. `ResyncAfterOne` is what does hold.
- `specs/hal-spec.md:1161` and `:1184` have the jets off after a restart, and `quench_all` called from the hardware restart handler;
  neither the boot nor RESTART calls it. `specs/dap-spec.md:391` and `core/control/dap.rs:228` leave a pulse in progress at
  `dap_stop` to the shim, which does nothing about it: `disarm_t6` has no production caller, and T6 ends the pulse.
- `docs/external-peripheral-protocol.md:148` wants the bridge to quench jets by itself after 10 ms; `agc-bridge-pico` prints the messages only
  (and the shortest pulse is 13.75 ms).
- `fire_pulse` documents that T6 is armed before the jets are fired (`core/control/rcs_logic.rs:437`); the loop fires first.
- The entry's roll command fires the service module's jets, after the separation too: `fire_cm_jets` and `select_jets_cm` have no
  production caller (`core/control/dap.rs:572`).

## 7. Not modelled, and why

- **Numerics.** Navigation (conics, integration, W-matrix, marks), guidance (Lambert and rendezvous targeting, the entry
  profile, cross-product steering), the control laws, the choice of jets and the accelerometer and gyro scaling are floating
  point. The models take them as any result they can have, where a result steers the control flow.
- **Marks.** `p20_incorporate_...`, `p22_incorporate_...` and `p23_incorporate_...` have no caller in the flight program, only in
  the simulator's scenarios and the tests; what they do is a filter update. The programs are modelled as far as their
  chains on the waitlist, which is what runs.
- **Jobs and restart groups.** `create_job` has no production caller and the restart table is empty: there are no jobs, and
  no phase is acted on.
- **Display, lamps, alarms, downlink, backup.** They format state for people and write nothing back, except the lamps that `Keyboard`
  models. `poodoo` and the backup have no production callers.
- **The keyboard's values.** What a number means, beyond an address, a frame selector and a time; the monitor verbs; the extended verbs
  that set one parameter of a component not modelled.
- **The link, outbound.** Messages to the bridge and the hello handshake carry no state the AGC waits for.
- **An engine that gains too little.** `cutoff_time_met` is never set and `compute_cutoff_time` never called
  (`core/guidance/maneuver.rs:53`): nothing bounds such a burn by time, and `CutoffFollows` says what does hold, that an engine that thrusts
  is cut off.
- **Timers.** They are taken to honour the reload written last. The board sets ARPE
  (`agc-board-nucleo-f767/src/local/timers.rs:120`); what a buffered reload does to a stopped one-shot is a matter for the bench.
- **The simulator, the IMU platform and the test harness** are not part of the flight program.

The components are composed where they share a resource: `NavCycles` over `RunLoop` for the waitlist. `Burn`, `Entry` and `Clock` abstract that list
to the SERVICER's entries, with the fairness and the capacity that `NavCycles` justifies; one model of them all
would have no more behaviours of each, and is out of TLC's reach.
