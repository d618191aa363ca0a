# Specifications of the Simics 7 packages

The repository holds the sources of four Simics 7 packages: the base package
(`simics-7.57.0`: links, buses, sample devices, the DML library and the Python
front end), the RISC-V platform (`simics-risc-v-simple-7.12.0`), the training
package (`simics-training-7.0.0-pre.11`) and the QSP x86 platform
(`simics-qsp-x86-7.38.0`). The simulator core is not part of it. What the
packages have in common is the *device model*: an object with state that reacts
to calls of other objects (register accesses, interface calls, signals, link
messages, timer events), each call running to completion, in an order that no
device controls. The same holds for the parts of the Python front end that keep state between calls: script
branches, coroutines, instrumentation commands and blueprints are called in an order that a user or a
simulation decides. This directory specifies the device models and the Python modules whose correctness
depends on that order.

## Inventory

| Component | State | Operations | Interacts through |
|---|---|---|---|
| I2C link v2 (`i2c-link-v2.c`) | per endpoint: protocol state, owner, partner, counts and lists of answers still to come | `il_start`, `il_read`, `il_write`, `il_stop`, `il_acknowledge`, `il_read_response`, `deliver`, checkpoint | interface calls from devices, link messages between endpoints, callbacks `acknowledge`, `start`, ... |
| I2C wire (`i2c-wire.dml`) | none | forwards every call between two links | interface calls |
| PLIC (`plic.dml`) | per interrupt: raw, pending, active, priority; per context: enables, threshold, interrupt line | interrupt raise and lower, register writes, claim, complete, reset, clock disable | signals in, signals out, registers |
| CLINT (`clint.dml`) | msip bits, `mtimecmp`, time base, a posted event | register writes, time counter, timer event | signals out, simulated time |
| Accelerator control (`m-control-common.dml`) | start, status and done registers, per-unit done bits, the completion signal | start and done register writes, done ports of the units | interface `m_compute_control`, signals |
| Accelerator compute unit (`m-compute-common.dml`) | processing and done bits, a job, a worker thread with a condition variable | start and clear of an operation, completion event | signals, threads, memory |
| Synchronizer (`i-synchronizer.dml`, edge-to-level converter) | per-port arrival bits | arrival of a processor, release of all | signals |
| Mailbox (`i-mailbox.dml`) | message and full flag per direction | write, read, clear | registers, signals |
| LED system controller and I2C slaves (`led_system_controller_bb.dml`, `button-i2c`, `toggle-i2c`, `rgb-led-i2c`) | frame buffer of panel state, one I2C transaction at a time | polling and updating the panel | I2C link |
| Serial output multiplexer (`serial-out-mux`) | a partial line per input | character in, line out | serial interface |
| I3C link (`i3c-link.c`, cable, bus, wire, adapter) | as I2C, with in-band interrupts, hot join and address assignment | as I2C, and more | link messages |
| CAN, Ethernet, serial, signal, datagram, 802.15.4 links | little or none (switch: a learning table) | forwarding | link messages |
| PC platform devices, PCIe, NVMe, USB, virtio, network cards | registers | documented hardware | memory transactions, signals, DMA |
| Script branches (`script_branch.py`, commands) | waits, barriers, pipes, callbacks, objects waited for | create, wait, signal, interrupt, delete an object | haps, events, `SIM_run_alone`, the command line |
| Event loop (`sloop.py`) | the queue of the loop, futures, scopes, iterators | `quiesce`, await, timeout, cancel, yield | `SIM_run_alone`, snoopers, asyncio |
| Instrumentation (`instrumentation/*.py`) | registry of connections, filters, groups | add and remove tools, connections, filters, groups | commands, object deletion |
| Blueprints (`blueprints/*.py`) | two generations of values and bindings | read, write, alias, expand, iterate | functions of users |
| IO breakpoints, snoopers (`bp_commands.py`, `snoop.py`) | trackers and their callbacks | register, trigger, remove | haps, coroutines |
| DML compiler and library, rest of the command line | - | - | - |

**What is hard in them.** Devices are sequential, but they are many, and links
deliver messages with a delay: between the call that starts an operation and the
message that ends it, other devices act. That gives races of two I2C masters for
the bus, late answers to operations that were stopped, answers in any order that
are counted down by a byte, an interrupt that drops while it is being
claimed, a reset in the middle of an operation. A simulation may also be saved
and restored at any time, and everything that is not an attribute is lost. There
is no message loss and no duplication: the link library delivers every message
once, after a fixed latency.

In the Python code the hard part is that a wait can end in three ways (by what was waited for, by an
interruption, by the deletion of an object), which may overlap; that callbacks are deferred to `SIM_run_alone`
and find the world changed when they run; that a command over several objects can fail half
way; and that blueprints run in an order nobody fixes.

**What makes each component correct.** I2C link: at most one master in a
transaction, all endpoints agree who, requests meet their responses, a master
gets exactly one answer to each call, and the answer is right (ACK if and only
if somebody acknowledged). PLIC: an interrupt line says exactly whether something
enabled and important enough is pending; an interrupt is served by one
context at a time, and none is lost. CLINT: the timer signal follows the
comparison of time and `mtimecmp`, also when either is rewritten. Accelerator:
an operation completes when, and only when, all its units have, and the
completion signal follows the done flag. Synchronizer: nobody passes before all
have arrived. Mailbox: no message is overwritten or read twice. Script branches: nobody sleeps whose reason to wait
is gone, and nothing is left of a wait that ended. Event loop: values arrive once and in order, an interruption stays in its
scope, no wake-up is lost. Instrumentation: registry, filters and tools agree on
which connections there are. Blueprints: what was read is what was written, by the rules of priority.

## The I2C link

`I2CLink.tla` models `i2c-link-v2.c`. A link has endpoints, one per device. The
file has no global state at all: an endpoint's `state`, `current_master`,
`current_slave`, `pending_slaves`, `pending_start_responses`, `slave_list`,
`slave_list_counter`, `slave_list_ack` and `address_pattern` are the variables
of the same names, as functions of the endpoint. Two variables stand for what
is outside of the file:

- `net`, the messages in flight. All messages of a link have one latency, so the
  link library hands them out in the order in which they were sent; receivers
  with the same delivery time are served in any order. `net` is therefore one
  queue, and its first message carries the set `to` of receivers that have not
  taken it: a broadcast can be half delivered.
- `device`, the progress of each master device: idle, waiting for the answer to
  a start, free to read or write, refused, waiting for a read or a write. The
  devices are the environment. They are protocol-following: they call `read`
  after an acknowledged start for reading, `stop` or another start
  after a transfer, and so on. Constants add the exceptions one by one:
  `Aborting` masters also stop while an answer is outstanding, `Careless`
  ones open a transaction with a 10-bit read, and masters that are not in
  `Slaves` cannot see who has the bus and start whenever they like.

Actions correspond to functions, one per interface call (`Start`, `Read`,
`Write`, `Stop`, `AnswerStart`, `AnswerWrite`, `AnswerRead`) and one per case of
`deliver` (`DeliverOwnStart` ... `DeliverStop`). A call that the code makes from
within a handler is part of the action: `DeliverForeignStart` includes the
device's immediate answer, as the flag `waiting_for_synchronous_response`
makes the endpoint wait for it, or the `start_response_pending` message if there
is none. `Restore` is a save and restore of a checkpoint: attributes and
messages survive, `slave_list_ack` does not, because no attribute holds it.

Data are reduced to what the code branches on. Bytes read and written do not
matter, so read and write carry none. Addresses are real bytes, because the code
tells apart the general call, the high-speed codes, 10-bit prefixes and the
read bit; which slave has which address is left to the slaves, each of which may
answer ACK or NOACK to anything.

`I2CBus.tla` says what the link promises its masters: a single arbiter with one
owner, and clients that are idle, asking, or using the bus. `I2CLinkBus.tla` is
the refinement mapping: the abstract owner is the owner according to the endpoints that have
already taken the first message, and `ImplementsBus` requires every step of the
link to be a step of the arbiter, or none, and every start to be won, lost or answered.

### Runs

`MCI2CLink.tla` has the address sets. In every run the bound `MaxInFlight` stops
masters from making calls while the queue is that long; answers are never
stopped, and a protocol-following master that waits for its answer needs no deeper queue; the theorems below hold for any `MaxInFlight`.
In `i2c_abort` the bound is part of the question: with 1, the master stops, and starts again, only when nothing else is in flight,
so what it stops is a write that a slave is still working on, and what may come late is the response to it. With 2 the asserts fail (see the disagreements). `CounterSize` is 256, the real width.

| Run | Instance | Properties |
|---|---|---|
| `i2c_one_master` | one master, two slaves that may answer late, one bystander, all six kinds of address | `AssertsHold`, `TransferInOnePlace`, `ReceiversExact`, `CallsAccepted`, `StartAnswered`, `TransferAnswered` |
| `i2c_two_masters` | two masters that are slaves too, a third slave, late answers, checkpoints | `SameOwner`, `OwnersInStep`, `OneMasterAtATime`, `PendingExact`, `ImplementsBus` |
| `i2c_abort` | a master that stops a write its slave still works on, slaves that answer a start within the call, a bystander, no reads | `AssertsHold` |

`AssertsHold` collects the ASSERTs of `deliver`: they are what the author took
for granted about the order of messages. `TransferInOnePlace` is their reason: a
read or a write is on its way to the slave, at the slave, or on its way back,
and in only one of these places; for a broadcast write the counter equals the
number of responses to come. `PendingExact` is the same for starts.
`ReceiversExact` says that the bookkeeping of broadcasts does
not depend on the order of the answers. `CallsAccepted` says that the state checks at the head of each
interface function never hit a device that follows the protocol.

Two slaves are enough to have answers in both orders and a third endpoint that
neither asks nor answers; three participants with two masters are enough for
both orders of delivery of two competing starts at a winner, a loser and a third party.
`OwnersInStep`, which says more than `SameOwner`, is checked for masters that behave; that masters who stop whenever they like
keep it as well is proved below (`InStepAlways`), and TLC confirms it for two of them in `Masters = Aborting = {e1, e2}`, `Slaves = {e2, e3}`,
no late slaves, plain writes and `MaxInFlight = 3`.

Deadlock is checked in every run.

### Disagreements

While the module was written, TLC showed eight behaviours in which the code and what its comments or
assertions say part. No run repeats them, but each can be had again with the constants named here.

- With a master in `Aborting` and reads, `ReadResponseExpected` fails: the response to a read that was
  stopped runs into the assertion of the read response (line 554); late write responses are dropped instead.
- With checkpoints and a general call, `AckRemembered` fails: a checkpoint between two answers loses
  `slave_list_ack`, which no attribute holds.
- With a master that is not in `Slaves`, the bus is freed by one who does not own it: such a master does not hear of the start of
  another one, is refused, and its `stop` frees the bus of the active master (against the
  comments at lines 369-370 and 986-987, which say that it is ignored).
- With a master in `Careless`, a 10-bit read is taken up by the wrong slave: a new transaction opened with
  a 10-bit read, while the stop of the last one is in flight, is taken for the
  read part of the last transfer (against the comment at lines 1148-1150).
- With a master in `Aborting` and late slaves, `AssertsHold` fails: a stop during
  a start leaves an entry in `pending_start_responses`, which the next start trips over (lines 498-503).
- With a master in `Aborting` and `MaxInFlight = 2`, in the instance of `i2c_abort`, `AssertsHold` fails in two more ways. A
  late write response is dropped only while the endpoint is idle (lines 571-572): a master that
  stops a write and starts again before the response arrives is in `wait_remote_start_rsp`, and the response fails the assert of line 574.
  And a stop of a general-call write clears `slave_list_counter` at once, so a response that is already on its way
  is delivered ahead of the stop and fails the assert on the counter (line 579).
- With a master in `Aborting` and 10-bit reads, `SameOwner` fails: a 10-bit restart is
  sent to one slave only, and after a stop that overtakes it the endpoints
  disagree about the owner (against the comment at lines 1181-1185).

### Fairness

The link library delivers every message (weak fairness of `Deliver(e)`) and a
slave answers what it is asked (weak fairness of its answers). No call of a
master is fair: nothing makes a device start, go on or stop. So `StartAnswered`,
`TransferAnswered` and the liveness part of `ImplementsBus` are about the link
alone. Delivery is simulated time, which always advances.

### Proofs

`I2CLinkProofs.tla` (with a lemma on `RemoveFirst`, which the community module
does not state theorems about) proves, for any finite set of endpoints,
any masters, slaves and addresses and all the exceptions above:

- `TypeCorrect`: `Spec => []TypeOK`. One lemma per group of actions. It includes
  that the byte `slave_list_counter` stays in its width and that no message with
  an unknown receiver is ever sent.
- `InStepAlways`: `Spec => []OwnersInStep`, if no 10-bit read address is used.
  The invariant says why the endpoints agree: every start and stop is broadcast
  to all of them, and the queue is common, so two endpoints can differ only by the effect
  of the first message in it. It needs the clause on the messages further back
  in the queue (still addressed to everybody), without which the next message
  could be one that only some receive. The hypothesis is not an artefact:
  the disagreement about the 10-bit restart above is the counterexample without it.
- `SameOwnerAlways`: `SameOwner` follows. Neither theorem restricts what masters do.

`I2CProtocolProofs.tla` proves the safety properties of the runs `i2c_one_master` and `i2c_two_masters`, but for `OwnersInStep` with 10-bit reads, for any number
of endpoints, masters, slaves and addresses, with late answers, checkpoints and 10-bit transfers, under the
hypothesis `MastersBehave`: masters see each other's starts or there is only one of them, none is in `Careless`
or `Aborting`, and the slaves of a master are fewer than `CounterSize`. Both runs satisfy it, and every part of it is needed: the
list above has a counterexample for each of the first three, and the counter of a broadcast wraps without the last.

- `ProtocolKept`: `Spec => []ProtocolInv`. The inductive invariant says what each party owes and what the others
  know of it, in five parts:
  - the queue (`QueueOK`): every message is a start or stop for everybody, or one between a master and a slave;
    a second message between the same two may only be an announced answer behind its announcement; nothing follows a
    start that still has a receiver except from another master;
  - the bus (`Agree`, `StopsOK`, `StopFirst`, `RestOK`): devices differ in the owner they name by the effect of the first message at most, only
    the owner stops, and a master whose start will find the bus free again has not lost yet;
  - a master (`MasterOK`): where its start may be, what it collects while it is being answered, what its endpoint
    accepts when it is free to go on, and that a transfer is held by the network or by a slave;
  - a slave (`WorkOf`): a slave that works has an owner, no message to or from it is in flight, and its master
    waits for just that;
  - a pair of them (`PrivateOf`): a message between them means that the master waits for the answer to it.

  None of the parts is inductive alone: a master that counted one answer too few would stop while an answer is on its way, and this
  answer would then name a slave of another transfer. There is one lemma per action and three that carry most of them:
  `OtherMasters` (while one master leads, a step between it and its slaves disturbs no other master), `LeadKeeps` (the
  rest of the invariant then follows from the parts of this master) and `SettlesDown` (the same when
  the last answer arrives). The lemmas on the queue (`Delivered`, `SentFacts`, `RepliedFacts`) say
  which messages are in flight after a delivery, a call and an answer.
- `ArbitrationAlways`, `CountAlways`, `CallsAlways`, `PlacesAlways`, `ReceiversAlways`, `AssertsAlways`: the six invariants follow from it.

The last part proves the refinement, for the same masters:

- `LinkImplementsBus`: `Spec => Bus!Spec`. Besides `ProtocolInv` it needs that also the endpoints
  without a device agree on the owner (`EndpointsAgree`), because the arbiter's owner is read off whichever endpoint took
  the message first. `OwnerTakes` says how the owner moves when a message is taken, then each action is one action of the arbiter or none.
- `SameOwnerWithReads`: `SameOwner` once more, now with 10-bit reads.
- `BusExclusive`: in the arbiter two masters never use the bus at once (the invariant adds that the user is the owner).

Only model-checked: the liveness properties, including the fair part of `ImplementsBus`, which is out of the
prover's reach, and `AssertsHold` for a master that stops a write at the slave (run `i2c_abort`): for masters that abort at any time it is false.

### Not modelled

Connecting and disconnecting devices in a running simulation (`num_slaves` is
constant), calls that a device makes from within `acknowledge`, the encoding of
messages and attributes, log messages, and
256 slaves on one bus, where `slave_list_counter` would wrap.

## The PLIC

`PLIC.tla` models `plic.dml`. The registers that hold a bit per interrupt (`raw`, `pending`,
`active`, `enable`) are sets of interrupts; `eip[c]` is both the register `eip` and the level
of `irq_dev[c]`, which the code always changes together. The actions are the
calls that reach the device: a device raises or lowers an interrupt signal
(`Raise`, `Lower`), a context writes a priority, an enable word or its threshold
(`WritePriority`, `WriteEnable`, `WriteThreshold`), reads the claim register
(`Claim`) or writes it (`Complete`), and the platform drives the two control
signals (`RaiseReset`, `LowerReset`, `StopClock`, `StartClock`). Every
action updates exactly the lines that its handler looks at; that the result is
right for all of them is the property `LineExact`.

`serving` is not state of the device: it remembers what the software of each
context has claimed. Two constants say how well that software behaves.
A context in `Hasty` completes interrupts while the controller cannot hear it (reset, stopped
clock) or has the interrupt disabled; one in `Intruders` completes what others have claimed.
Neither matters for `LineExact`, `NoneLost`, `PulseKept` and `StoppedIsFrozen`;
both break `OneServer`: a completion that is not heard leaves an interrupt active
for ever, and nothing but a reset takes it out. `ServedOnce` is what hasty contexts leave of it: no interrupt
has two servers.

| Run | What it shows |
|---|---|
| `plic_any_software` | With hasty contexts, an intruder, hardwired enable bits, resets and clock stops: `LineExact`, `NoneLost` |
| `plic_served` | With contexts that complete what they claimed, and only that: `OneServer`, and under fairness `ServedAgain`: an interrupt whose signal stays high is claimed and completed again and again |

**Bounds.** Two contexts suffice for every property that relates contexts (who else has the line
high, who claims first). Two interrupts suffice for priorities, ties and thresholds;
31 and 32 have their enable bits in different registers, so a write to one word must
keep the other. Priorities are 0 to 3 and thresholds 0 or 1 (`max_threshold` per context), and
writing 2 or 5 shows the masking. Nothing is counted, so the state space needs no
further bound, and each run explores it completely.

`HardwiredStays` is not in a run: TLC refutes it as soon as a reset is possible, for bits that `enable_set`
hardwires as 1 read as 0 after a reset, until the next write to their register. `PulseKept`,
`StoppedIsFrozen` and `ServedOnce` are proved and therefore not checked again.

**Fairness.** A context claims when its line is high, and completes what it has
claimed; without that nothing is served. Devices, configuration writes, reset and
clock are not fair. `ServedAgain` is about an interrupt that from some time
on stays raised, enabled (also where it is being served) and the most urgent; the
property would be false without the enable where it is served, for
`complete_interrupt` silently drops such a completion.

**Proofs** (`PLICProofs.tla`), for any set of interrupts and contexts and any
written values: `TypeCorrect`, `LineAlwaysExact`, `NoneEverLost`, `PulseAlwaysKept`,
`StoppedAlwaysFrozen`, `AlwaysOneServer` for well-behaved software, and `AlwaysServedOnce` for hasty contexts as well. The
inductive invariant is `LineExact`, `NoneLost` and the disjointness of `active` and `pending`.
`LineExact` alone is not inductive: `Complete` looks only at lines that are low and
`WritePriority` only at interrupts that are pending, which is enough because an active
interrupt is not pending. `ServedAgain` is only model-checked, being liveness.

**Not modelled.** Attributes changed while the machine runs, accesses to reserved
registers (which have no effect), the other template-provided registers
of the bank (reads change nothing), and a target that accesses the controller from within its interrupt signal:
`irq_dev.raise` calls it before `eip` is set.

## The accelerator

`MCompute.tla` models a compute unit (`m-compute-common.dml`), `MControl.tla` the control
unit (`m-control-common.dml`) and the two together; `Operation.tla` is what they promise their
driver: a team of units begins, each unit finishes once, and completion is reported with the last one.

`processing` and `done` are the sets of units whose status bits are set, `level` and `done_bits` the
control unit's view of them: the level of each done port (`level_checked_signal`) and the
register `done`. `start`, `used`, `status_processing` and `status_done` are the registers
of the control unit, `operation_done` its outgoing signal. Calls between control unit and compute units are plain
calls, so a register write with everything that follows from it is one action: `Start`,
`RefusedStart`, `ClearDone`, and `ClearUnit` for the unit's own register.

The completion event of a serial unit is one action (`CompleteSerial`). A threaded unit has a
worker thread in the host, and here every call that synchronises is a step:
compute, lock, set the flag and signal, unlock for the worker; lock, test, wait, wake (with or
without a signal), leave for the simulation thread. `Running` says that the simulation thread is not
inside such an event; only then do other events happen. `Complete` joins the return from the wait
with the copying of the buffer and the call of the control unit: nothing else can act between them.
`written` remembers which units have their result in memory.

Three constants open the model to what the code must survive: `Careless` drivers write `start` out of range or
during an operation, `Meddling` drivers clear single units, and with `Checkpointing` the simulation
is saved and restored between events, which loses everything the code keeps in session variables.

| Run | What it shows |
|---|---|
| `accel_operation` | A driver that keeps to the rules, two serial and two threaded units: `NeverStuck`, `ResultReady`, `BlockEnds`, and `ImplementsOperation` with its liveness: every unit of an operation finishes |
| `accel_any_driver` | With all three constants `TRUE`: `HonestReport` and `ResultReady` hold all the same, the latter over checkpoints that lose the worker thread and its buffer |

Two more things TLC shows if the constants are opened for the properties of the first run. With `Careless`,
`NeverStuck` fails: a refused start changes the register `start` by which the next clear counts. A unit that the clear misses
stays done with a high signal; started again, its raise is taken for a repetition and the operation never ends. With
`Checkpointing`, `BlockEnds` fails: the completion event is restored, the thread is not, and the simulation waits
for ever, against the comment at lines 536-538 of `m-compute-common.dml`.

**Bounds.** Units do not share state except through the control unit, so two of each
variant show every pair, and three units show a start that is smaller or
larger than the last. `accel_any_driver` writes 0, 4 (out of range for three units), and 2 and 3. Nothing
is counted and each run explores all states. Values of `start` beyond 8 would index past
the array of units and are excluded by `ControlAssumption`.

**Fairness.** Simulated time goes on (weak fairness of the completion events) and the host runs both threads (weak
fairness of their steps). The worker's lock step is strongly fair: a condition variable that wakes up spuriously
again and again could otherwise keep the mutex from the worker for ever. The driver is not fair, and
spurious wakeups and restores are not either.

**Proofs** (`MControlProofs.tla`), for any number of units up to 8, any of them threaded, with checkpoints:
`TypeCorrect`, `ResultAlwaysReady` and `AlwaysHonest` for any driver; `SignalsAlwaysFollow`,
`NeverStuckAlways` and `OperationImplemented` for one that keeps to the rules (neither `Careless` nor
`Meddling`). `ResultReady` needs a strengthening (`ResultInv`) that says who holds the mutex (`LockExact`), that a set
flag means a complete buffer and that nobody waits for a unit without a job (`ThreadsExact`), and that a unit at
work is not done (`DoneExact`). `AlwaysHonest` adds `ReportInv`: without an ongoing operation no unit is at work,
and a unit at work has no bit in the register `done`. `BooksExact` is the invariant of the good driver: `used` is what `start`
says, and exactly the units that are done or at work. `OperationImplemented` is the safety part of
`ImplementsOperation`; the liveness part and `BlockEnds` are model-checked only.

**Not modelled.** Descriptors, pixels and delays (the order of completion events is arbitrary, which includes every
choice of delays), `individual_pixel_update`, units that are not connected, the attribute
`test_sending_intr`, PCIe and MSI-X, and the control unit that stalls readers of its status.

## The Python front end

Four parts of the Python code have state that several actors share, and are modelled. The simulator core
below them (`CORE_wake_script_branch`, `SIM_run_alone`, haps, events, object deletion) is not in the repository; the
modules take from it only what this code relies on, and name it where they do.

### Script branches

`ScriptBranch.tla` models `script_branch.py` and the commands built on it in `commands.py` and
`bp_commands.py`. A script branch is a thread of the command line; one runs at a time (`running`). A wait command
takes an identifier (`next_sb_wait_id`, or the number of a barrier or pipe), leaves something behind that will
signal it (a hap callback, an event, a function queued for the main branch: `hooks`, `toRun`) and suspends
(`wait`). A hap, a notifier, a log message or a time concerns any of those that wait for one of the object: which haps, indexes, patterns and times they named is abstracted. `Signal` marks everybody with that identifier as woken; `Resume` lets one of them go on and runs the
`finally` clauses of its command (`Leave`). `Interrupt` raises an exception in a suspended branch, which
runs at once; it may end, or go on with any command. `DeleteObject` .. `ObjectGone` are the steps of `del_object`:
between two of them an interrupted branch runs.

Taken from the core: an interrupted branch runs synchronously, a woken one later, a new one at once; time
events expire in the main branch.

Run `script_branches`: three branches, a barrier with a changing limit up to 3, a pipe, an object, two wait
identifiers, two branches lost at the barrier (465042 states up to symmetry of the branches; three identifiers with one lost branch were explored once, 3488984 states). Three branches are needed for one to take what another was woken for
while a third is waiting; two identifiers for two pending calls. It may stop: all branches may have ended.

- `BarrierExact`: the count of a barrier is the number of those who wait there *and of those who were interrupted
  or turned away*, for nobody takes them off. Nobody waits at a barrier that is full, even
  when its limit was changed.
- `NoReaderForgotten`: no branch sleeps at a pipe with data.
- `AnsweredOnce`: a call of `sb_run_in_main_branch` is woken by its own function, which runs once.
- `WaitersTracked`: the callbacks of haps and notifiers, `obj_branches` and the waiting branches agree, over
  interruptions and deletions.

Two more properties are in no run, for TLC refutes them in the same instance. Each is what a comment or the documentation says:

- `LimitAdmits`: no more branches wait at a barrier than its limit (`commands.py` 4567).
  The limit is stored before the error is raised (`script_branch.py` 111), and stays.
- `NobodyLeft`: when `del_object` has interrupted everybody, no branch is left in
  `obj_branches` ("should have been removed already", line 264). A branch that catches the interruption and waits again is.

What the model shows besides: an interrupted branch stays in the count, so that a barrier opens one branch early or
refuses the last one with "Too many branches"; a branch that waits for the object again during `del_object`
(`late`) and one that waits for a notifier of it are not interrupted, and wait until somebody does it by hand;
`wait-for-log` and the time commands leave their callback or event when they are interrupted.

`ScriptBranchProofs.tla` proves `TypeCorrect` and all four properties, for any finite set of branches and any
barriers, pipes, objects and bounds. The count is tracked by the cardinality of the set of
waiting branches, so the proof goes by how each action changes this set; identifiers being fresh (nothing pending, registered or
answered is as large as `nextId`) is the strengthening that `AnsweredOnce` and `WaitersTracked` need.

Left out: negative limits, `current_cmdinfo` and the locals of a branch, results that stay in
`hap_data_returned` after an interruption.

### The event loop for coroutines

`Sloop.tla` models `sloop.py`. The loop runs only while the simulation stands still, and sleeps otherwise: its queue is replaced by a
`SleepingDeque` whose `append` wakes it through `SIM_run_alone`. `alone` is the queue of `SIM_run_alone`, `ready` that of the loop. `quiesce`
(`RunAlone`, `QuiesceEnds`, `QuiesceRaises`) runs handles until there are none. One task
takes the values of a snooper through `SnoopAsyncIterator` (`AwaitNext`, `TakeNext`), waits for single events with `wait`
(`AwaitEvent`) and enters `CallbackScope`s and timeouts. Snoopers yield in two contexts: in global context, where callbacks
act at once, or from a cell, where they defer to `SIM_run_alone`. The state of futures and of task cancellation
(`fut`, `by`, `must`) is that of asyncio, modelled from how `sloop.py` uses it and marked external.

Run `sloop`: two values, two awaits, two nested scopes, two exceptions, one foreign cancel, three of them in
all (459347 states). Three events are enough for an exception, a timeout and a foreign cancel to meet at one
task; `MaxEvents = 4` was explored once without liveness (3.3 million states) and showed nothing else. It may stop, once the task is done.

- `IteratorInOrder`: the task gets the values in order; only a value on its way to an await that is
  cancelled is lost.
- `HandlesOwned`: the callback of a `wait` is cancelled once, by the wait or by the callback itself.
- `CancelContained`: the exception with which a scope interrupts its block does not get out of it, but for two
  cases, which `odd` collects: two exceptions for one scope before the task resumes (the scope forgets the first
  identifier), and an exception that comes while the task is in its own step, which may leave the scope before it is cancelled.
- `Delivered` (liveness): an await whose snooper has yielded resumes, unless `quiesce` was left by an exception.

**Fairness.** `WF_vars(LoopStep)`: the host goes on with a loop that has work. `SF_vars(RunAlone)`: what `SIM_run_alone` has queued is run when the
simulation stops, which it does again and again but not for good; without it the
simulation could always be running when it is looked at. Snoopers, cancels and `run_until_complete` are not fair.

`timeout` says that it interrupts a block that does not finish in time (lines 1115-1119), and does not always. Of
two nested timeouts that fire before the task resumes, one is lost: the task leaves the inner block, catches its `TimeoutError`, and
goes on in the outer one, which nothing will interrupt again (`TimeoutInterrupts`, in no run; TLC refutes it
with `MaxItems = 0`, `MaxAwaits = 2`, `MaxScopes = 2`, `MaxErrors = 0`, `MaxCancels = 0`, `MaxEvents = 2`).

What the model shows besides: when `KeyboardInterrupt` leaves `quiesce`, the queue stays awake, and no
later entry wakes the loop until `run_until_complete` is called (`broken`).

**Proofs.** `SloopProofs.tla` proves the type invariant `TypeOK` and the three invariants of the run for any bounds, from `BoundsAssumption` alone: `TypeCorrect`,
`InOrderAlways`, `HandlesOwnedAlways`, `CancelContainedAlways`. None is inductive. `IInv` adds what relates the queues to
the task: at most one handle resumes it, and only when its future is done (`WakesOnce`); what `SIM_run_alone` has queued for a future is
for the await of that kind, and a cancellation of a callback is queued once (`AnswersFit`); the iterator has a future only while the task
awaits it with nothing queued or on its way (`AwaitFits`); the values are in order over the three places where they can
be (`Stations`); an identifier that is about to reach the task belongs to an open scope or is one of the two cases (`CancelsKnown`); and
each request for an identifier stems from a timeout or an exception that was counted (`IdentifiersLeft`, which
bounds `unique` in `TypeOK`, by the cardinalities of the requests in both queues). There is one lemma for each action;
`HandlingKeepsWakes`, `HandlingKeepsAnswers` and `ScopeStepKeeps` hold the argument for all that put
entries into the queues. `Delivered` is only model-checked, being liveness.

Left out: `TaskGroup` (used before Python 3.11 only), tasks beyond one, snoopers that yield from within
`add_callback`.

### Instrumentation

`Instrumentation.tla` models the package `instrumentation` (`connections.py`, `filter.py`, `groups.py`, `commands.py`,
`cmd_factory.py`): the registry of connections between tools and providers, the filters applied to connections, and groups. `conns` is the
registry; `aggs`, `served` and `slaves` are what the other objects keep: the aggregator of a connection, what a tool was told to connect,
the connections each filter acts on. An action is one command with everything it does, its failure half way
included: `NewTool` and `AddInstrumentation` connect provider by provider, `AddInstrumentationToUnknownGroup` deletes the tool,
`RemoveByProviderTwice` fails at a connection that it has removed itself, `Detach` stops at the first connection without the filter. `DeleteToolObject`,
`DeleteProvider` and `DeleteConnection` are deletions behind the back of the framework, of which only
`_object_deleted` hears.

Run `instrumentation`: two tools, providers and filters, two connections, one group name used up to twice, one pair of
filter and provider that do not fit (586336 states up to symmetry of the tools). Every command works on one tool or on a set of
connections, so two of each give each pair of a target and a bystander.

- `RegisteredWhole`: a registered connection has its tool, provider, aggregator and a group with a name.
- `FiltersAgree`: connections and filters agree on who filters whom, once each, even after commands that failed half way.
- `NothingLeft`, `FiltersForget`: what is left of a connection that is gone is left by the deletion of one of its objects, or by the flaw below.

Run `instrumentation_dead_slave` (violated): `tool_connection.delete` says that all filters are informed that
the connection is removed. Its loop runs over the list that its body shortens, so that every other filter keeps
the deleted aggregator as a slave (`NoDeadSlave`).

`InstrumentationProofs.tla` proves the five invariants for any sets of objects, groups and bounds, from `InstrumentationAssumption` alone.
`RegisteredWhole` and `NothingLeft` are inductive together with `Numbers`, which says that connections are numbered in the order in which they are
made and groups within their bound; one lemma says what removing any set of connections keeps, and commands and deletions are cases of it.
`FiltersAgree` and `FiltersForget` need besides that a connection that has not been made has no filter and is nobody's slave (`Fresh`), or a
new connection would start with filters. The commands that change lists rest on what `list.remove` does to a list that has
nothing twice (`WithoutFirst`) and, as `remove-filter` is two nested loops over lists that its own calls shorten, on two lemmas
about loops: `Iterates`, that the states of a loop exist, and `LoopStays`, that what each round keeps holds in the end (by the first round that would
break it). The states of `remove-filter`, the one that it fails in included, are all `Fine`: both sides agree about
each registered connection, and no filter has gained a slave. `UntoldIsLate` says that a filter that
`tool_connection.delete` skips is not the first of its list, so that the list had two, which makes the connection `crowded`.

What the model shows besides: `add-instrumentation` with an unknown group deletes the tool, with its existing connections; `remove-filter` for a group
takes the filter off the whole tool, and fails at the first connection that does not have it; `remove-filter` without
group takes the filter only if an ungrouped connection has it; a bare `remove-filter` is not refused (`cmd_factory.py` 455 tests the function `filter` of Python, not the argument) and removes
all filters of ungrouped connections; a deleted object's connection leaves its aggregator behind.

Left out: the global commands that add and remove filters for all tools (the same operations per tool), enabling and disabling a
connection, and the limit of filter sources per connection.

### Blueprints

`Blueprint.tla` models the builder of the package `blueprints`. Blueprints are functions that build a
configuration together through shared state: values that are written with priorities, bindings of state to nodes of a tree,
aliases. The builder runs all of them again and again, each iteration with what the last one wrote (`vals`, `binds` for reading, `newVals`, `newBinds`
for writing), until both are equal. A blueprint is any function, so that the model takes each of its operations as a step and lets any other
follow it: `Write`, `WriteAlias`, `ReadValue`, `ExposeState`, `ReadState`, `AliasState`, `Expand`. `NextBlueprint` and
`NextIteration` are the loops of the builder, `Finish` and `GiveUp` their ends.

Run `blueprints`: a tree of two nodes, one of which may be an alias of the other; two values, all priorities, and a preset at one of the nodes or the other, with which overriding writes and the alias compete; up to three iterations (the
code allows ten), two blueprints and two writes or bindings in each, one read remembered (1962280 states). Three iterations are needed: one to write, one to
read, one to change by what was read. One read is enough, as every property is about single reads. It stops when the expansion does.

- `Settled`: when the builder accepts, what a blueprint has read is what all blueprints wrote in that iteration,
  also those that ran after it.
- `BoundAsExposed`: state that was looked up is the one exposed nearest, and is missed only where there is none.
- `PresetsWin`: the presets of a state decide what is read there and through its aliases, against overriding writes too.
- `AliasReaches`: writes through an alias reach its target, whether the alias was made before or after.

`BlueprintProofs.tla` proves all five for any tree, values and bounds, assuming that aliases lead to states that are no aliases
themselves. The inductive invariant says of both generations of values that each list has a best member and that aliases are recognised by
their priority, and of the new one that the presets come first (`PresetsFirst`), that writes of one priority agree unless an error was
reported (`Agreed`), and that only aliases and presets are written to a member known as an alias (`Forwarded`). `History` says
what reads were derived from, `AtEnd` that an expansion ends with both generations equal: these two carry a statement about what was read over to what was written.
`TypesAlways` proves `TypeOK` on top of it: what is read through an alias is a value and no node (`ValueType`, from the aliases and the best
members), what a lookup finds is a state or nothing (`LookupType`), and the blueprints that ran and that wait are no more than were
added (`seq + waiting <= MaxBlueprints + 1`).

What the model shows besides: a value with `Default` or `Override` loses its priority when it goes through an alias, and may then be reported as
a multiple write; two presets for one member are not reported, the larger value wins; a preset for a member that becomes an alias is ignored.

Left out: objects and their creation, members that accumulate (`List`, `Dict`, `Set`), aliases of aliases,
exceptions of blueprints.

## Plan

1. I2C link and its abstract arbiter, runs, type correctness, agreement on the owner (done).
2. PLIC: gateways, priorities, claim and complete, with its theorems (done).
3. Accelerator: control unit, compute unit with its worker thread, and their composition
   with an abstract specification of a multi-unit operation, and its theorems (done).
4. Python front end: script branches, event loop, instrumentation, blueprints, with their theorems (done).
5. CLINT with simulated time; synchronizer; mailbox; I2C wire between two links; serial multiplexer.
6. IO breakpoints (`bp_commands.py` 552-975) and snoopers (`snoop.py`) on top of the event loop.
7. Proofs: the protocol of the I2C link and the step refinement of `I2CBus` and every invariant of the front end
   (done); what remains true of the link when masters abort, beyond `InStepAlways`; the invariants of the components of steps 5 and 6.

Liveness properties stay with TLC throughout: the proof system does not reason about
fairness and `ENABLED`.

## Not modelled

Of the components in the inventory that have no module yet, reading the code gave these points to look for:

- IO breakpoints: `remove_ids` takes up monitoring again for a deleted object after `unmonitor_objects`; a tracker with a
  function number also matches accesses to ports; a branch that waits for a removed breakpoint waits
  for ever; `unbreak-io` for one device removes whole breakpoints.
- Snoopers: `Accumulate` yields an exception and afterwards a stale value; `Global` may yield after its cancellation; a
  second `cancel` of `Time.Handle` upsets its reference count.

Not planned: register-level models of documented hardware, whose correctness is
their data sheet; the DML compiler, which is a batch translator of several ten thousand lines without interaction; the parts of the
command line that format and look up (`cli/impl.py`, help, tables, target information), which are pure functions of
the state of a simulator core that the repository does not contain; the I3C link, which would be a project of its own. The
modules cover what has interacting state, and therefore only a small share of the lines of the repository.
