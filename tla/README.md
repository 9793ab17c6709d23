# TLA+ development for the CXL Type-3 admission control plane

The repository holds the RTL of the host-side admission path of a CXL Type-3 memory
device: a tracker of outstanding transactions, a multi-pool credit ledger, a
configuration controller that freezes, drains and commits, a read/write scheduler, a
behavioural memory, an HDM address decoder and the clock crossing around the memory
side. The repository tests the blocks with directed and random simulation and with
bounded or inductive proofs of single blocks at fixed small widths. It makes no
liveness claim, and few claims about blocks working together. Its strongest test is
differential: each block has a reference model in Python, written independently, and
random vectors from it are compared with the RTL at every port. This development
models the blocks from the RTL and the reference models from the Python, composes the
blocks, model-checks small instances with TLC, and proves the main invariants and the
agreement of RTL and reference model with TLAPS for every size.

Paths are relative to the repository; `tracker.sv:293` style references are to
`rtl/core/` and `rtl/csr/`.

## 1. Inventory

| part | state | operations | talks to |
|---|---|---|---|
| outstanding tracker, `core/outstanding_tracker.sv` | per slot: live, generation, stored fields, issue time, timed_out; occupancy, watermark, reclaim response, saturating counters, sticky error | one clock edge with four ports at once: allocate, response, reclaim request, reclaim response ready; timestamp | admission datapath |
| credit manager, `core/credit_manager.sv` | per pool: used, maximum, watermark; counters, first error | one edge: consume, return, commit of new maxima, clear of diagnostics | admission datapath, configuration controller |
| admission datapath, `core/admission_top.sv` | one-entry issue buffer | one edge: accept (allocate + consume + buffer), drain of the buffer, release of credits on retirement and reclaim | tracker and ledger inside; scheduler, memory side, recovery agent outside |
| configuration controller, `csr/config_ctrl.sv` | state, pending snapshot, active fields, response reason | accept, commit, respond, hold | requester; datapath through `req_accept_enable` and the shared commit edge |
| control plane, `core/control_plane_top.sv` | none of its own | the two blocks on one clock | - |
| read/write scheduler, `core/rw_scheduler.sv` | table of entries with valid, issued, done; age matrix | one edge: accept, issue, completion, response | admission side, memory |
| memory backend, `core/mem_backend.sv` | array, circular completion buffer with head, tail and count | one edge: push, pop | scheduler |
| memory subsystem, `core/mem_subsys_top.sv` | none of its own | the two blocks on one clock, `cmp_ready` tied high | - |
| clock crossing, `core/async_fifo.sv`, `core/sync_bits.sv`, `core/reset_sync.sv` | two pointers in two clock domains, synchroniser stages | write edge, read edge, reset of each domain | system top |
| system top, `core/system_top.sv` | none of its own | two FIFOs carry requests and responses between the link clock and the memory subsystem | - |
| HDM configuration, `csr/hdm_config.sv` | state, shadow, pending and active windows, epoch | shadow write, update request, drain, commit, respond | HDM decode |
| HDM decode, `core/hdm_decoder.sv`, `core/dpa_translator.sv`, `core/hdm_decode_top.sv` | none, combinational on the active windows | decode and translate an address | admission |
| reference models, `tb/models/*_model.py` | an object for each block, with the state of the registers in Python's terms | `outputs(inp)`, what a cycle shows before the edge; `step(inp)`, the object after it | wrap each other as the blocks do; `memsubsys_model.py` and `admission_model.py` check themselves |
| vector generators and benches, `tb/models/gen_*.py`, `tb/sv/` | the object; histories of granted tags | draw a beat, aim some of them at a rule ("TARGETED"), record what the model shows, step it; the bench plays it to the RTL and compares | models and RTL |

What is hard in it, and what makes each part correct:

* **Everything happens on one edge.** Allocation, a response, a reclaim and a timeout
  may meet on one edge and on one slot. The tracker keeps occupancy and counters beside
  the live bits and updates them from the same events by other code; the ledger gets
  credits back from two sources at once. Correct means: the copies agree, nothing is
  freed twice, and no credit is lost.
* **Late messages.** Responses are delayed, repeated and lost; the tag's generation,
  which wraps, tells the occupants of a slot apart. Correct means: no occupant is
  freed by a message about another.
* **Wrapping time.** Ages are differences modulo 2^TS_W.
* **Reconfiguration of a running datapath.** Correct means: one atomic change, of what
  was validated, when nothing old is left; and drains that end.
* **Reordering in the scheduler.** The age matrix keeps the bits of freed entries.
  Correct means: accesses to one address keep program order whatever slots are reused,
  a read returns the latest write accepted before it, each transaction is answered with
  its own completion, and a table that nothing new enters empties. The lowest slot always
  goes first, at both ports, and the repository promises no fairness: how far a stream of
  new entries can be from starving an old one depends on the size of the table.
* **Two clocks** in the FIFOs, with resets that are independent.
* **A second configuration machine** for HDM windows, with a shadow copy that may be
  rewritten while its snapshot drains.
* **Two implementations of each block.** The models are programs whose assignments take
  effect in sequence, the RTL reads all registers before the edge; the control plane's
  model finds out whether it is quiescent in a first pass over its datapath and commits
  in a second; the memory's model has a deque for the circle, the datapath's a ledger of
  its own. They differ on colliding events first, which random beats hardly reach.
  Correct means: after any sequence of beats both hold the same, and the directed beats
  do reach the rules they are made for.

`PROJECT.json` lists these at their lines under "hazards", with the properties that
cover each.

## 2. Modules

An edge of a block is an operator `...Edge(in)`: the `always_ff` block for the input
vector `in`, built from operators for the combinational logic it reads. Hierarchy in the
RTL becomes conjunction: `AdmissionEdge` is the tracker's edge and the ledger's edge on
the inputs that `admission_top` wires to them. Bit vectors are sets of slots, wires
that carry "at most one" are sets with at most one element, an input with a valid bit
is a value or `None`, a register with a valid bit likewise. Registers whose content is
not looked at until written again keep their old value, as in the RTL. Reset is
asynchronous and is a step of its own that can come at any time.

| module | models | notes |
|---|---|---|
| `Ports` | - | `None`, for valid/payload pairs |
| `OutstandingTracker` | `outstanding_tracker.sv` | the whole sequential block |
| `TrackerFabric` | - | the tracker against a wrapping clock, a response fabric and a recovery agent |
| `CreditManager` | `credit_manager.sv` | the whole sequential block |
| `AdmissionTop` | `admission_top.sv` | extends tracker and ledger |
| `ConfigCtrl` | `config_ctrl.sv` | one action for each transition of the machine |
| `ControlPlane` | `control_plane_top.sv` | extends `AdmissionTop` and `ConfigCtrl`; who must do their part for a drain to end |
| `MemoryPort` | the port between scheduler and memory | |
| `RwScheduler` | `rw_scheduler.sv` | the whole sequential block |
| `TaggedMemory` | - | abstract: a memory with a queue of owed completions |
| `MemBackend` | `mem_backend.sv` | implements `TaggedMemory` by refinement mapping |
| `MemSubsys` | `mem_subsys_top.sv` | extends scheduler and backend, adds two observers |
| `BoundedQueue` | - | abstract: a queue of bounded length that a reset empties |
| `AsyncFifo` | `async_fifo.sv`, `sync_bits.sv`, `reset_sync.sv` | implements `BoundedQueue` by refinement mapping |
| `HdmDecode` | validation in `hdm_config.sv`; `hdm_decoder.sv`, `dpa_translator.sv` | operators on a set of windows |
| `HdmConfig` | `hdm_config.sv` | one action for each transition of the machine |
| `HdmTraffic` | `hdm_decode_top.sv` | the block with traffic that keeps its published contract, and the comparison with `HdmModel` |
| `TrackerModel`, `CreditModel`, `AdmissionModel`, `ConfigModel`, `SchedulerModel`, `MemBackendModel`, `MemSubsysModel`, `AsyncFifoModel`, `HdmModel` | the Python module of that name in `tb/models/` | no variables: an object is a record, `New` the constructor, `outputs` and `step` the methods |
| `TrackerReplay`, `CreditReplay`, `AdmissionReplay`, `ControlPlaneReplay`, `MemSubsysReplay`, `AsyncFifoReplay` | the differential test of a block: `gen_*.py` with its bench | extends the block's module; the variable `ref` is the model's object |
| `OutstandingTrackerProofs`, `TrackerFabricProofs`, `CreditManagerProofs`, `ControlPlaneProofs`, `MemSubsysProofs`, `AsyncFifoProofs`, `HdmProofs` | - | theorems about the modules they extend; section 4 |
| `Numbers` | - | what the proofs need of arithmetic: least elements, induction, residues, division, powers of two |
| `MC...` | - | instances for TLC; `TrackerFabric` and `HdmTraffic` have their values at their end, the inputs of `CreditReplay` and `MemSubsys` are defined there (`Beats`, `ReadsTaken`), and `async_fifo` and `backend` need model values only |

State corresponds to the code by name: `live`, `gen`, `issue_ts`, `timed_out`,
`occupancy`, `used`, `cmax`, `hwm`, `vld`, `issd`, `done`, `older`, `head`, `tail`,
`cnt` are the registers so called (the ledger's with a suffix `_r`). `entry` is the
record of the slot's `epoch`, `op`, `meta` and `credit_vec`; `issue` is `issue_full_r`
with `issue_tag_r`; `txn` is a scheduler slot's tag, kind, address and write data;
`pending` and `active` are the controller's `p_*` and `active_*`. The controller has no
register of the active maxima: it hands its pending ones to the ledger on the commit
edge, and `active.cmax` records which.

In `AsyncFifo` a pointer in Gray code is the set of the bits that are 1. A step is an
edge of one clock or of both; on both, the first flop of each synchroniser takes each
bit that changes old or new, in any combination. async_fifo.sv:4-6 *assumes* that at
most one bit changes; here it is a consequence, and the run fails with binary pointers. A
domain leaves reset when the ones have passed its `reset_sync`. In the HDM modules
`shadow`, `pend` and `act` are the register groups `sh_*`, `pend_*` and `act_*`; sums with
guard bits are plain integers; a response says INVALID without its reason, which
`shadow_reason` gives for any windows.

### The replays

`tb_outstanding_tracker.sv` drives the RTL with the beats that drove the model and compares
the ports before each edge. `TrackerReplay` does this in one state machine: a step is one
beat, `ReplayEdge(in)`, in which the block takes `TrackerEdge(in)` and `ref` becomes
`step(ref, in)`; a reset with a new object starts another vector file. Nothing flows from
`ref` to the block, so every property of the block that a replay run checks is about the
block alone. `step` is written as the Python is, one operator for each group of assignments,
each taking the object the last one left: the order is part of the model, and what the
program captures before an assignment is captured before it here.

`TrackerMatchesModel` (and its like) says that the object and the registers hold the same:
`ModelOfRegisters` is the correspondence. Ports then agree too; for tracker, ledger and
decoder this is proved for every input (`TrackerPortsAgree`, `LedgerPortsAgree`,
`DecodingsAlwaysAgree`). The generators draw fields at random, which here is any input of
the instance. What restricts the draws is kept where the comparison depends on it: amounts
within the width of the consume port (`emits`) and tags not in use (`live_tags`). The
directed beats (`CrossingRetire`, `EarlyReclaim`, `Superseding`, `DualCommit`, `DrainStep`)
are operators on the model's state, as in the generators.

`AsyncFifoReplay` follows the RTL while single clocks tick, as the bench ticks them; on an
edge of both clocks the RTL's synchronisers may sample what the model cannot, and `ref` is
given up until the next reset. The HDM models have no object: validator and decoder are functions
(`HdmMatchesModel` in `HdmTraffic`), compared on the shadow windows software may leave, at every address.

Abstracted: `op` is left out of requests, since no block reads it; HDM base, size and
capacity are one opaque value of a configuration, of which the controller asks only
whether size and capacity are nonzero; debug ports are left out. Widths that matter are
kept as moduli and maxima (`GEN_MOD`, `TS_MOD`,
`CNT_MAX`, `COUNT_MAX`, `RET_MAX`).

Operators named after a definition with a suffix (`FreeSlot_Quarantined`) and marked
"Mutant" in their comment are not part of the model. Each is a plausible bug: with it
in place of the definition, the property `PROJECT.json` pairs it with fails.

## 3. Runs

| run | instance | what it shows |
|---|---|---|
| `tracker` | 2 slots, 2 generations, counters saturate at 3 | any beats on the three ports: RTL and model hold the same (`TrackerMatchesModel`), a live slot keeps its transaction, occupancy is exact, allocations equal retirements + reclaims + live; the directed beats hit their case (`DirectedBeatsHit`) |
| `tracker_fabric` | 1 slot of 2 slot numbers, 3 incarnations over 2 generations, timestamp modulo 8, threshold 3 | no aliasing, exactly one report per reclaim, quarantine exactly at the threshold |
| `credit` | 2 pools, 3-bit ledger, consumes of up to 2 bits | never over-committed; maxima move only in an unused ledger; ledger, watermark, counters and first error are the model's, clears included |
| `admission` | 2 slots, 2 pools | credits in use = credits held by live entries; the ledger refuses nothing the datapath presents; each accept issues the tag of its own slot; the model with its simpler ledger holds the same |
| `control_plane` | 1 slot, 3 configurations of which one is invalid, transactions with and without a credit | one shared commit of a validated snapshot; no entry or buffered tag crosses a commit; the two-pass model commits on the same edges |
| `control_plane_invalid` | the same | expected violation, see findings |
| `config_progress` | 1 slot, one arrival per edge | every request is answered if transactions are; drains end by timeout and reclaim if responses are lost |
| `backend` | 3 places, 2 addresses, 2 tags | the circular buffer implements a queue (`ImplementsTaggedMemory`) |
| `memory_order` | 3 scheduler slots, a completion buffer of one place, 2 addresses, writes and reads | age is a total order, program order per address; a completed read holds the last write accepted before it; the array is what was written once nothing is pending; the models of both blocks hold the same, the record of what each tag must return included; once nothing new is accepted the table empties (`TableDrains`) |
| `memory_progress` | 4 scheduler slots, a completion buffer of two, reads | every accepted transaction is answered under any stream of new ones (`Answered`); true up to four slots only |
| `async_fifo` | 4 places, 1-bit payloads, 2-flop synchronisers | full and empty are late but never wrong (`SyncedPointersTrail`); the FIFO is a bounded queue; what is written becomes visible and room returns, also when the other side has stopped; the model holds the same after any interleaving of single edges |
| `hdm_config` | 2 windows over 8 addresses in lines of 2, one transaction in flight | legal windows only are decoded against; no update overtakes a transaction; each update is answered truthfully and in the end; validator and decoder answer as the model, for every content of the shadow and every address |

All runs but `tracker_fabric`, `backend`, `memory_progress` and `hdm_config` are replays: their specification is the replay
module's, with fairness where progress is asked for.

Bounds, and why they are enough:

* Two slots let an allocation, a retirement and a reclaim share an edge in every
  combination (three events on three slots differ from it only in the number of
  bystanders, and the tracker's invariants are proved for every number). Two
  generations are the fewest a tag can have; reuse wraps them at once. Where slots do
  not interact (`tracker_fabric`), one suffices, and with two slot numbers it is also
  the size that is not a power of two, so that a tag can name no slot at all.
* `MAX_BORN` bounds how often a slot is reused in `tracker_fabric`: 3 is one more than
  the generations, so the third occupant has the first one's tag. `LIFETIME` is the
  documented condition on `GEN_W` (docs/tracker_contract.md, "fewer than 2^GEN_W"
  reuses): without it a message can always name a later occupant. Steps of 1 and 5
  around threshold 3 and modulus 8 reach every age modulo 8 and cross the wrap with and
  without crossing the threshold; `AGE_CAP` stops the true age at the threshold, from
  where nothing changes.
* `CNT_MAX` is 3 in `tracker`, one more than can be live; `MaxRefusals` stops runs
  after the second refused beat, which changes counters only. Elsewhere it is 0: the
  counters stay at their saturation value and no state is spent on them.
* `ref` adds no states where it agrees with the registers, so a replay is as large as the
  block's own state space, and larger only once a mutation makes them differ.
* Two pools are what all-or-nothing needs; amounts of one credit against maxima up to
  7 reach full, empty and partial availability, and `COUNT_MAX + 1` is a maximum that
  does not fit. The return port is one bit wider than the consume port, so that a return
  of `AMT_MAX + 1` exists for `emits` to keep out: without it the first error differs.
* Timestamps 0 and 1 with threshold 1 in the other runs: an entry is young or old.
  Input vectors that differ only in inputs the RTL ignores on that edge are presented once; the
  MC modules name each such restriction.
* The control plane asks the datapath for emptiness only, so one slot distinguishes
  what the controller can: it may be live, quarantined, being freed or about to be
  allocated when the request comes. Epochs and maxima differ in all configurations.
* Three scheduler slots are needed for transitivity of age, for an older entry in a
  higher slot than a younger one, and for an entry that two others overtake alternately.
  A buffer of two or more places never fills, as the scheduler takes completions at
  once; entries then issue the edge after they arrive and hardly ever wait together.
  `memory_order` therefore takes one place, which lets the memory accept every other
  edge only and builds the backlog that ordering is about. A fourth tag lets a
  transaction arrive at a full table. One address is contended for and the other only
  read.
* In `mem_subsys_top` at most one access is outstanding, since its completion is taken on
  the next edge. A memory that holds several and completes them in any order is met by the
  scheduler's theorems only, which allow any completion at any time.
* `memory_progress` has the default size of the table (`DEPTH = 4`), the largest that
  `mem_subsys_top` is built with, and it is the largest for which `Answered` holds. A slot
  that is served at once is busy for four edges (acceptance, issue, completion, response),
  so three others cannot hold the issue port on every edge and four can: with five slots,
  which the scheduler alone is built with, TLC finds slots 0 to 3 taking turns while slot 4
  waits for ever, after a pair of accesses to one address has left a gap in their rhythm.
  Two places in the completion buffer behave as any larger number does. Data are a single value
  and tags are slots (`SlotTag`), because progress depends on neither.
* Four places are the fewest `async_fifo` allows (`ADDR_W >= 2`), and its pointers wrap
  after eight steps. The instance of `hdm_config` has windows that are disabled, end at
  the top of the address space, end at the capacity, end past it, and overlap; an update
  may be asked for while the shadow is being written. One transaction in flight is
  enough to be overtaken; that any number drains is proved.

Deadlock is checked except in `tracker_fabric`, which stops when `MAX_BORN` is used up.

### Fairness

Hardware blocks take a step at every edge; what is not guaranteed is that others do
their part.

* `MemSubsysReplay`: weak fairness of the clock and of a presented response being taken,
  with the enabling conditions written out (which spares TLC searching for enabled steps). The
  memory always completes and `cmp_ready` is tied high in the RTL, so nothing is assumed of it.
  `TableDrains` needs no more: new entries may overtake old ones for ever, but not once they
  stop coming.
* `MemSubsys` (`Answered`): weak fairness of the clock, and responses taken at once. With a
  requester that stalls now and then, a high slot can be passed over at the response port, so
  `Answered` is about one that does not.
* `ControlPlane`: weak fairness of the clock, of the scheduler taking the buffered
  tag (while it takes none, nothing enters its table, which then empties: `TableDrains`)
  and of the requester taking its response. On top, each property names what it needs: `RequestAnswered` that each transaction handed
  over is answered; `RecoveryDrains` that time passes, and strong fairness of
  reclaiming a quarantined entry: the agent holds its request, as docs/tracker_contract.md
  asks of a valid/ready requester, but its port is not ready while a response waits in
  the one-entry register.

* `AsyncFifo`: weak fairness of each clock, counting an edge shared with the other one.
  Nothing is assumed of their ratio, nor that anybody writes or reads.
* `HdmTraffic`: weak fairness of the clock, of each transaction in flight being answered
  (or reclaimed), and of the requester taking its response. Admission goes on as long as
  `req_accept_enable` allows it.

## 4. Proofs

Theorems hold for every value of the constants under the named assumptions of the
modules (positive sizes, `SLOT_SPACE >= DEPTH`, input sets within the ports' types,
`None` different from the payloads, a reset configuration without a window).

* `OutstandingTrackerProofs`. `TrackerInv` is type correctness, exact occupancy and
  quarantine of live slots only. Occupancy is not inductive alone: that the decrement for
  a retirement and the one for a reclaim never fall on one slot comes from the
  precedence of the response (`ReclaimSetFacts`), and its range from its being a
  cardinality. Each selection is at most one slot (`AllocSetFacts`, ...), so
  `CardinalityAfterEdge` turns the set equation of the live bits into the arithmetic of
  `occ_next`. `LiveEntryKept` follows because allocation picks among slots not live
  before the edge. `TrackerAlwaysMatchesModel` shows edge and `step` equal on equal states,
  one statement at a time: `MarkedObj`, `RetiredObj`, ..., `OccupiedObj` say what each
  group of assignments of the model leaves, `SameDecisions` that both decide alike, and
  `EdgeMatches` compares the ends; `TrackerInv` is needed because the model frees by response and by reclaim
  one after the other where the RTL combines them, so that both must not name one slot.
  `DirectedBeatsAlwaysHit` takes the beats apart that the generator builds from the model's
  state: since the model agrees with the registers, each reaches the rule it aims at.
* `TrackerFabricProofs`. `FabricInv` ties what the tracker stores to what really happened: the
  generation of a slot is its number of births modulo `GEN_MOD` (`BirthsOK`), no message is
  older than `LIFETIME` births of its slot, and until an entry is marked its true age is what
  the tracker computes from the wrapped timestamps (`AgesOK`). A message that matches a slot in
  number and generation is then about its occupant, as two births less than a modulus apart
  with one residue are the same (`SameResidue`); and `TimeoutExact` holds because an age below
  the threshold cannot pass the modulus in one step of the clock (`AgeStep`), which is what the
  assumption on the threshold is for.
* `CreditManagerProofs`. `LedgerInv`: representable, within the maximum, below the
  watermark. Legality is decided against the registers before the edge, and the commit,
  which alone moves the maxima, finds every pool unused and blocks both ports.
  `LedgerAlwaysMatchesModel` needs `emits`: the RTL keeps an illegal amount in `AMT_W` bits.
  The first error names the lowest offending pool, a search upwards in the model; that the
  lowest exists for any number of pools is a lemma of `Numbers` (`LowestExists`).
* `MemSubsysProofs`, in four parts. *The scheduler.* `SchedulerInv` adds type correctness and
  "done implies issued implies valid" to the two orders. Program order is not inductive
  alone: an access is issued when no older entry blocks it, which means something only while
  age is a total order of the valid entries, and that survives reuse because acceptance wipes
  the row and the column of the slot. The environment is arbitrary: any tags, duplicates
  included, and any completions at any time. *The memory.* The refinement of `TaggedMemory`.
  `BackendInv` is types and `QueueConsistent`: the tail is `cnt` places after the head, around
  the end of the circle (`Wrapped`). Without it a push could land on an occupied place; with
  it `QueuedAfterEdge` shows that the sequence read off the circle loses its head on a pop
  and gains the new completion at its end on a push, for any depth and when both come at once.
  *Both together.* `SubsysInv` adds that completions queued and accesses outstanding
  correspond one to one by their tags (`OwedOneToOne`), with the data their responses need
  (`OwedData`), and says what an access still waiting will find in the array: the datum of the
  youngest write waiting before it, or, if there is none, what the array holds now (`Leaves`,
  in `WaitingReadsOK` and `ShadowOK`). The scheduler keeps this up, since it issues an access only
  when no older one to the address is incomplete; `ReadAfterWrite` and `QuiescentMemory` are its two
  ends. Tags are kept apart by the contract the arrivals obey (`TagsDiffer`). *The reference
  models* of both blocks and of the composed one agree with the RTL; the composed one's
  dictionary of expected data is the observer (`SubsysAlwaysMatchesModel`).
* `ControlPlaneProofs`, which uses the tracker's and the ledger's lemmas. *The datapath.*
  `AdmInv` says for each pool that the use in the ledger is the number of credits stored in
  live entries. Such a sum is counted as the cardinality of a set of pairs (`Held`: slot `s`
  with the numbers up to its amount), so that an edge that frees, reclaims and allocates at
  once is a union of disjoint sets. A return is legal because the entry it comes from is still
  counted, and the count is right because every return was legal: conservation and
  `LedgerNeverRefuses` are one induction. The datapath commits whatever it is told to, so its theorems
  have the hypothesis `CommitsFrozen`: no input presents a commit while it enables
  admission. *The control plane* is the same datapath driven by the controller, which keeps
  that contract by itself (admission is enabled in `S_IDLE` only); the same properties hold of it
  without a hypothesis (`CommitsKeepConservation`, `CommitsNeverRefuse`, `CommitsKeepOneAccept`).
  `CPInv` joins `AdmInv`, the tracker's `SlotsOK`, the controller's state and the properties of the
  run `control_plane`. The argument goes across three blocks: a commit waits for
  `occupancy = 0`; that *no entry is live* then follows from the tracker's invariant
  (`NoSlotLive`), so nothing of the old epoch is left; the ledger commits on the same edge
  because all of its reasons to refuse are excluded, use by quiescence and unrepresentable
  maxima by the controller's validation of the snapshot (`EdgeLedger`). *The reference models.*
  `AdmissionAlwaysMatchesModel` needs `AdmInv`: the model's ledger is a simpler one that never
  refuses. `ControlPlaneAlwaysMatchesModel` shows that the model's first pass, in which no
  commit is driven, finds the same occupancy as the RTL does.
* `AsyncFifoProofs`. A pointer is followed by its *position*, a number that does not wrap:
  `FifoInv` says that there are positions of the pointers and of every flop of both
  synchronisers, ordered as the news travels and never more than the FIFO's places apart
  (`Trail`), of which the registers hold the Gray codes modulo the pointers' range (`Shows`).
  What the code asks of the Gray code is proved from its bits, for every width: a step changes one bit
  (`SampledStep`), so that a flop which samples a moving pointer has the old or the new one; codes are
  unique (`GrayInjective`); and two codes differ in just the two top bits if and only if the
  pointers are half a turn apart (`GrayLap`), which is what `full` asks. Powers of two are
  uninterpreted in the provers: `2^(n+1) = 2 * 2^n` is proved in `Numbers` by counting subsets.
  `FifoImplementsQueue` then reads the contents off the positions. All this for any depth and
  any number of flops; agreement with the model needs the two flops that the code
  has (`TwoFlops`), as the model has two.

* `HdmProofs`. First arithmetic: windows that pass the validator of `hdm_config` never
  make decoder or translator fail closed, and a line they accept lies on the device
  (`LegalDecodes`), for every line size; that no line straddles the end of a window comes
  from the alignment of base and size (`NextLine`). Then the update sequence: `HdmInv`
  says that between snapshot and commit the pending update is a validated one and no
  response waits, and that the commit edge finds nothing in flight. `AdmittedStays` rests
  on the occupancy half of the drain condition. The other half (`alloc_fire`) guards against
  a transaction that enters on the same edge; under the contract on traffic (nothing is
  admitted while `req_accept_enable` is low) there is none in FREEZE, so here it is never
  exercised.
  Validator and decoder agree with `HdmModel` on every mapping, legal
  or not, and at every address. The reason is that of the lowest window which breaks a
  rule, where RTL and model search in opposite directions (`ReasonsAlwaysAgree`).

Some facts are proved and not run, as they follow from others or are plain: that each access
issued is owed one completion (`OwedOnce`), the tail pointer (`BackendQueue`), quarantine of
live slots only (`TrackerQuarantine`), that nothing is admitted while a configuration request is
in flight (`ConfiguringFreezes`), and "done implies issued" of the scheduler. The
composed modules have no type invariant of their own.

Diagnostic counters are part of the proofs where a property is about them
(`TrackerAccounts`).

Every invariant, action property and refinement the runs check is also proved, except the
one a run expects to be violated. Model-checked only is liveness
(`RequestAnswered`, `RecoveryDrains`, `TableDrains`, `Answered`, `NewsCrosses`, `UpdateEnds`), which is out of the prover's reach. The
assumptions left are those of the modules and the two hypotheses above, `CommitsFrozen` and
`TwoFlops`.

## 5. Findings

* **An invalid configuration request freezes traffic** (`control_plane_invalid`).
  docs/config_contract.md:17-19 and config_ctrl.sv:8-9 say it never does. Admission
  is enabled in IDLE only, and an invalid request leaves IDLE for RSP_INV until the
  requester takes the response. Nothing is drained or committed, but a requester that
  does not take its response keeps admission closed.

Five more statements were met that the code does not bear out. They are recorded
here without a run:

* outstanding_tracker.sv:16-17 says that an out-of-range threshold is treated as
  disabled and flagged. The tracker applies any nonzero threshold (line 209) and has no
  such flag; the controller's validation is what keeps the threshold below half of the
  range (`ActiveIsValid`, and the assumption on THRESH of `TrackerFabric`).
* docs/limitations.md:112-113 says that the tracker's timeout forces the progress of a
  drain. A timeout only quarantines: the entry stays live. `RecoveryDrains` fails
  without its `AllReclaimed` premise.
* docs/scheduler_contract.md:58-60 explains starvation by same-address accesses
  waiting for completions. An entry that nothing blocks can be passed over for ever as well,
  by new entries with other addresses in lower slots: with five slots, or with three slots
  and `CQ_DEPTH = 1`, where the memory takes an access every other edge only, `Answered`
  fails in the instance of `memory_progress`. Neither document nor code promises otherwise
  (rw_scheduler.sv:8 disclaims liveness).
* docs/scheduler_contract.md:24 says that the age matrix is "cleared on free".
  rw_scheduler.sv:162 frees a slot without touching `older`; only the next acceptance
  rewrites its row and column (171-174). `AgeTotalOrder` holds because of that.
* docs/interface_contract.md:71-73 says that a threshold that is nonzero and at least
  2^(TS_W-1) is rejected. hdm_config.sv:191-194 checks it only when timeouts are enabled
  (`to_legal`), and then rejects zero as well.

Four notes on the test code, met while modelling it:

* gen_vectors.py:105 and 127 call their configurations "valid non-overlapping" and "clean
  valid"; `rand_config` with `force_valid` (67-74) never compares the windows, so with more
  than one they may overlap and the address meant to be accepted is rejected. The vectors
  stay right, as the model is asked.
* hdm_model.py:29-31 describes bounds on the first byte and an acceptance without
  `line_oob`; the code (87-90, 102-113) looks at the whole line, and so does the RTL. The
  mutant of `HdmMatchesModel` is what the header says.
* gen_replay_vectors.py:51-53 means to probe the device's capacity inside a window of a
  larger size; the window then exceeds the capacity, its configuration is refused
  (`CAP_EXCEED`), and line 66 takes no probe from it. Only when both are equal do these
  probes exist, and then they are the window's own ends.
* config_model.py:81-90: `step` with `rst_n = 0` resets the controller's fields but steps the
  datapath's model, which has no reset. No generator drives `rst_n = 0` there; here a reset
  makes a new object.

The validator does not compare the device ranges of two windows: different addresses may
be mapped to one DPA. No document excludes it, and no property here does.

## 6. Not modelled

* `system_top.sv` is wiring without state: two FIFOs around the memory subsystem. The run
  of one FIFO and that of the subsystem each take about as many states as a run can
  have; their product with two FIFOs is out of reach at a size where either does
  anything. What would follow from it follows from the parts: the FIFO is shown to be a
  queue, and the subsystem's properties hold for arrivals at any time. Two questions stay
  open there, since the repository leaves them to whoever instantiates it: what a
  scheduler does with a buffered tag whose entry was reclaimed before it takes it (no
  module of the repository joins `control_plane_top` to the scheduler), and the reset of
  one clock domain alone. `AsyncFifo` models one reset for both domains, released in
  each by a `reset_sync`; system_top.sv has a reset per domain and instantiates no
  `reset_sync`, and with one domain reset alone the two pointers no longer belong together.
* Of the generators: probabilities, file formats and tallies, and the ones of scheduler
  and backend alone (`MemSubsysReplay` steps the models of both together). Of the benches: their
  directed sequences.
* The QEMU replay scripts have no state: captured windows become vectors of decoder and
  validator, and `HdmProofs` covers every window and address.
* The types package (declarations only), the formal harnesses, scripts and evidence files.
* Timing inside an edge, metastability beyond its effect on a synchroniser's delay, and
  physical design are outside what these models speak about.

Worth proving next: the agreement at every port (`TrackerPortsAgree` and its like) for the
composed blocks, whose ports are functions of the state that already agrees.
