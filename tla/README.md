# RISCVemu in TLA+

A verification project for RISCVemu, a RV32 system emulator in C: one hart, a
PLIC, a 16550 UART bound to the host terminal, a CLINT, Sv32 paging, atomics and
the privileged architecture an SBI firmware and Linux need. The modules model
the default build (no built-in debugger, no misaligned accesses, every other
extension on). Paths below are relative to the repository (`src/` there is
`src/src/` in `PROJECT.json`).

## 1. Inventory

The emulator is one thread around one loop (`src/emu.c`). Concurrency enters
through the guest program, which the devices interrupt between any two of its
instructions, through the host (typed bytes, end of file, signals), and through
the loop's own order of steps: dispatch interrupts, poll input, fetch and
execute, `pc += 4`, tick the devices and counters, look for a spinning test.

| Component | State | Operations | Hard part |
|---|---|---|---|
| PLIC `device/plic.c` | priorities, live lines, per-context enable, threshold, claim flags | register reads and writes, `plic_set_irq` | two contexts claim and complete the same level-triggered source |
| UART `device/uart.c` | receive ring, IER, LCR, transmitter countdown, cached line | register accesses, `uart_receive`, `uart_tick` | cached line going stale, ring limit, unsigned countdown |
| Console input `device/uart.c` | held escape byte, quit flag, terminal mode | `uart_poll_input`, signal handler, cleanup | an escape cut by `read()`, a signal inside a batch |
| Traps `extension/system.c` | privilege, pc, trap CSRs, reservations | exceptions, interrupts, mret, sret | nesting, delegation, the -4/+4 convention |
| CSRs `extension/zicsr_extension.c` | the CSR table | six CSR instructions, views (sstatus, sie, sip, mip) | live bits in read-modify-write, checks that do not stop |
| CLINT, Zicntr | mtime, mtimecmp, cycle, instret | byte stores, tick, CSR reads | 64-bit values through 32-bit accesses |
| Atomics `a_extension.h`, `mem.h` | reservation set | LR, SC, AMO, every store | reservation address against store address, width, faults |
| MMU `mmu.h` | (page tables in memory) | translate, reads, writes | faults in the middle of an instruction, superpages, MPRV |
| Run loop `emu.c` | spin detector, terminated | the loop | a heuristic that ends the emulation |
| Instructions `exec.c`, `basic_instructions.h`, `m_extension.c`, `c_extension.c`, `f_extension.c` | registers, memory, fcsr | one handler per instruction | early returns after a trap, hand-made pc corrections, C's undefined cases, NaNs |
| Triggers `sdtrig_extension.c` | slots, tselect, tcontrol | CSR writes, checks before fetch, load, store | a watched access must have no effect |
| Disassembler `disasm.c` | none | decodes a word to text | a second copy of exec's switch |
| Hash map `hashmap_u32.c` | slots, size, tombstones | put, get, remove, clear, rehash | probes that must end, a rehash that must lose nothing |
| Loader `emu.c` | memory, boot registers | map, check, copy images | order of copies and overlap checks |
| Device tree `device/fdt.c` | token stream | one builder call per node and property | cell counts that other properties fix |
| Debugger, logger, self test | | | not modelled (section 5) |

Interaction: the UART drives the PLIC line (`plic_set_irq`); `get_mip` reads the
PLIC and the CLINT live; `check_and_handle_interrupts` reads mip, mie, mideleg
and mstatus; the MMU raises exceptions from inside instructions; traps and
stores take reservations; a trap into M arms the spin detector.

The hazards, each at its line with the properties that would catch it, are in
`PROJECT.json`.

## 2. Modules

| Module | Models | Extends |
|---|---|---|
| `Plic` | `plic.c`; one action per register write, `Claim`, `plic_set_irq` | |
| `ByteFifo` | abstract: a bounded FIFO of bytes that drops when full | |
| `Uart` | `uart.c` registers, ring, transmitter; `RingIsFifo` maps the ring to `ByteFifo` | `Plic` |
| `Privileged` | the trap and CSR code as functions from hart to hart | |
| `Traps` | the run loop reduced to interrupt check and one instruction, over any guest | `Privileged` |
| `Machine` | run loop, hart, PLIC and UART with an interrupt-driven driver | `Uart`, `Privileged` |
| `Console` | `uart_poll_input`, signals, terminal | |
| `Atomics` | LR/SC, AMOs, stores, traps over page tables | |
| `Paging` | Sv32 walk, lw, sw, amoadd under a demand-paging kernel | `Privileged` |
| `Timer` | CLINT and Zicntr with a 32-bit driver | |
| `SpinDetector` | the end of the loop iteration | |
| `Alu` | integer arithmetic, multiplication, division, Zicond, as functions of words of `XLen` bits | |
| `Decode` | which operation `exec` performs, and which `disasm` names, for the fields of a word; the bits each format's immediate is made of, in both and in the compressed forms | |
| `Triggers` | Sdtrig slots and matching | |
| `BaseInstructions` | loads, stores, branches, jumps, ecall, ebreak as functions from machine to machine | `Privileged`, `Alu`, `Triggers` |
| `FloatOps` | one floating-point format: classification, min, max, comparison, conversions | |
| `Fpu` | the unit: `FloatOps` at each of four formats (`Float(fmt)`), boxed registers, fcsr, `insf_*` | `BaseInstructions` |
| `Compressed` | `exec_c_insn`, and the expansion it is checked against | `Fpu` |
| `Instructions` | one turn of the loop over a word or a halfword, CSR writes of triggers and FPU | `Compressed`, `Decode` |
| `Dictionary` | abstract: a map from keys to values | |
| `HashMap` | `hashmap_u32.c`; `ImplementsDictionary` maps the table to `Dictionary` | |
| `DeviceTree` | the builder's token stream, the tree of `fdt_build_riscvemu`, a reader (external) | |
| `Loader` | `main` from `init_mem` to the boot registers | `DeviceTree` |
| `DeviceProofs` | theorems about `Plic`, `Uart` and `Machine` | `Machine` |
| `HostProofs` | theorems about `Loader`, `SpinDetector` and `Console` (the last two say `SpinInit`, `ConsoleInit` and so on, to be extended together) | the three |
| `TrapsProofs`, `AtomicsProofs`, `HashMapProofs`, `TimerProofs`, `PagingProofs`, `InstructionsProofs` | theorems | their component |
| `MC*` | constants for TLC, where the `.cfg` cannot give them | |

Conventions. Definitions keep the C names; `h` is the hart record a function
takes and returns, so that "raise an exception and carry on" is a composition
of functions in the code's order. Registers that the code tests bit by bit are
sets of bit names. `Mut...` operators are plausible errors of the operator that
follows them; no specification uses them.

External parts are the guest (driver, kernel, programs) and the host. They are
as free as the question allows: `Plic`, `Uart`, `Traps`, `Atomics` let the guest
do anything it can; `Machine`, `Paging`, `Timer` fix a program whose correctness
depends on the emulator; `SpinDetector` any short program.

Correspondence of state, where the names differ:

- `Uart`: `ier` the set of enabled causes, `dlab` the only bit of LCR any handler
  tests, `rbr` the value the last data-register read returned.
- `Privileged`/`Traps`: `hart` is `g_state` and the trap CSRs; `mctx` and `sctx`
  record what the open machine and supervisor trap interrupted (history, never
  read by the code's actions); `phase` is the position in the iteration; `Live`
  bits of mip are inputs.
- `Atomics`: `mmu_flags` is the set of keys of the hash map; `target`, `stale` and
  `passed` record for each reserved word the physical word and whether it was
  written, as a word or as the first of a doubleword (`stale`), or as the second
  of one (`passed`).
- `Paging`: `m` is hart, registers and memory; `before` is the pc at which the
  current instruction was first attempted.
- `Instructions`: `m` is hart, registers, memory, triggers and FPU; a word is the
  record of its fields with its immediate already assembled. What the bits of the
  immediate are is the business of `Decode`, whose `ASSUME` compares the two
  decoders and checks that no bit of a compressed immediate is used twice. A
  compressed load or store keeps the bits of its offset (`b6`, `b5`, `b12_10`),
  since word and doubleword forms read them differently: the handler assembles
  them with `c_ls_uimm`, the expansion with the layout of its width.
  Floating-point memory is kept apart in whole lanes (`fmem`).
- `HashMap`: a rehash is a step per entry, `old_entries` the table it leaves;
  `Hash` is a constant function, so that collisions are chosen.
- `Loader`: a byte of memory holds the name of the image it came from; the device
  tree is `FdtSize` bytes and, beside it, the token stream `tree`.
- `Timer`: `at`, `high`, `low`, `deadline`, `old` are the driver's; `retired` is what
  minstret should hold.

## 3. Runs

Passing runs:

| Run | Shows |
|---|---|
| `plic` | the source offered is the most urgent deliverable one; a claim hides it from its own context only, until that context's own complete of that very source |
| `uart` | line, cached level and IIR agree; the countdown cannot wrap; the ring implements the FIFO |
| `traps` | nested M and S contexts survive, returns restore them, the M handler is not re-entered, nor the S handler while mideleg holds supervisor lines only, M never delegates, a trap lands on the vector entry of its own cause |
| `machine` | the handler finds the cause it was called for; received bytes are read; queued bytes are sent; the handler returns |
| `console` | the bytes the guest receives do not depend on how `read()` cuts them; a pipe passes unchanged; a quit leaves with the terminal restored, unless the epoll set-up failed |
| `atomics` | under any translation, a reservation that outlives a write of its word is of a word found at another address (second words of a doubleword apart); none is lost without cause |
| `paging` | with restartable instructions demand paging is invisible and the program finishes; over entries of every form a superpage is the table of its small pages and MPRV is the mode in MPP |
| `timer` | no torn time, MTIP and minstret exact |
| `spin` | the count is the length of the run of repeated fetches; endless short loops are concluded |
| `hashmap` | a probe always meets its key or a free slot; through collisions, tombstones and a rehash in progress the table implements a dictionary |
| `instructions` | an instruction that owes a trap takes it and does nothing else; a compressed instruction acts as its expansion; products, quotients, remainders, min, max, comparisons and conversions are exact; fflags only grow and results are boxed; `exec` and `disasm` agree but for `KnownDrift` |
| `loader` | a guest that starts finds program, tree and initrd whole where registers and tree say; every cell count and interrupt of the tree can be read back; only real conflicts are refused |

### Departures

Configurations of the same modules show what the code does against its own
comments or against the architecture. They are run by hand (`tlc -config X.cfg M`);
TLC reports a violation of each one's property (with `-continue`, of every property
of a configuration that has several):

| Configuration, module | Property | Shows |
|---|---|---|
| `MCTrapsDepart.cfg`, `MCTraps` | `IllegalSatpWriteHasNoEffect` | `check_csr_access` raises and returns, and the CSR instruction goes on: an S-mode write of satp under TVM traps and still writes. `zicsr_extension.h:171`: "When mstatus.TVM is set, S-mode reads/writes of satp are illegal." |
| `MCTrapsDepart.cfg`, `MCTraps` | `StipMirrorsTimer` | a csrrs or csrrc of sip stores the live timer bit in mip, `zicsr_extension.c:300` |
| `MCTrapsDepart.cfg`, `MCTraps` | `DelegatedStayPending` | a machine line set in mideleg is found by the machine path, which S-mode cannot mask, and then taken in S with SIE off, even inside the S handler, `system.c:388`. `system.c:383-385`: "delegated lines belong to the S path above and stay pending if S has interrupts disabled" |
| `MCAtomicsPaged.cfg`, `MCAtomics` | `NoStaleReservation` | LR.W reserves a virtual address and a store clears a physical one; and a 64-bit store, `mem.h:247`, clears the reservation of its first word only. Either is enough: `PageTables <- JustIdentity` leaves the second alone. `mem.h:31-33`: "so a stale SC.W can never succeed after another access modified the reserved word" |
| `MCPagingChase.cfg`, `MCPaging` | `DemandPagingTransparent` | a faulting lw writes 0 to rd, so `lw x1, 0(x1)` cannot be retried (`ChasePrograms`), nor can an AMO, which writes rd, and goes on to its store, after either fault, `a_extension.h:159` (`AmoPrograms`). `mmu.h:128-129`: "the OS handler sets it and retries" |
| `MCUartDlab.cfg`, `Uart` | `DivisorWriteKeepsIer` | a write to the high divisor latch (offset 1 with DLAB set) changes IER, `device/uart.c:217` |
| `MCHashMapNoMemory.cfg`, `MCHashMap` | `ProbeEnds` | when `calloc` fails in `rehash` the table fills up and `probe` falls through to slot 0, `hashmap_u32.c:81` |
| `MCInstructionsDepart.cfg`, `MCInstructions` | `AccessTrapsPrecise` | a compressed load or store whose trap vector is 4 bytes after it takes its trap for no trap, `c_extension.c:232` |
| `MCInstructionsDepart.cfg`, `MCInstructions` | `DoubleFormsExpand` | c.fld and c.fsd read their offset with the word layout `c_ls_uimm`, so bit 6 counts as offset bit 2 and not as offset bit 7, `c_extension.c:204`, `:248`. `c_extension.c:41-42`: "The bit mappings below follow the ratified RISC-V C extension" |
| `MCLoaderExtra.cfg`, `MCLoader` | `ExtrasOverlapNothing` | a `--load` image may overwrite the program or the initrd. `emu.c:477`: "Ranges are bounds- and overlap-checked" |
| `MCLoaderRam.cfg`, `MCLoader` | `OfferedRamExists` | the tree offers RAM up to 4 GiB, memory ends 4096 bytes earlier, `device/fdt.c:416` |

Five more departures follow from a single definition and have no configuration:

- a faulting LR.W still reserves (`insa_r_lr_w` of `Atomics`, `a_extension.h:100`);
- a lone Ctrl-] is held until another byte is read, for ever if none is (`Scan` of
  `Console`, `device/uart.c:422`);
- a loop that would end is taken for an endless one if it is short enough (`Count`
  of `SpinDetector`, `emu.c:791`);
- in the default build a floating-point load or store is matched against no
  trigger and takes no misaligned trap (`f_extension.c:1254-1376`), so `DueTrap` of
  `Instructions` asks neither of it;
- a conversion to quad precision does not merge the flags SoftFloat raised, an
  invalid one among them (`f_extension.c:1708-1734`, `Fpu`). `FpuStateKept` says
  that flags are never lost once in fcsr; it cannot see flags that never got there.

The passing runs leave out exactly what these show:

- `atomics`: `StaleOnlyIfMoved` and `ReservationLostForCause` except a word its LR.W
  found at another address, and the first does not count the second word of a
  stored doubleword. The run has both.
- `traps`: `HandlersNotReentered` speaks of S traps only while mideleg holds no machine
  line. The run has guests with and without one.
- `paging`: no program has a self-overwriting load or an AMO.
- `instructions`: `Departs` excepts the cases above and the other compressed forms
  that differ from their expansion (c.jr and c.jalr keep bit 0 of the target,
  c.jalr x1 jumps to its own link value, c.add x0 breaks, c.flw and its like ignore
  mstatus.FS, c.fld and c.fsd with bit 6 set).

`KnownDrift` is the exact set of words for which the disassembler's name is not
what `exec` does: feq and fle have each other's name, sfence.vma is looked for at
the 12-bit immediate 9, and some reserved encodings are named or index past a
table. Two further points `TreeReadable` and `FloatResultsExact` are stated
around: an initrd at address 0 is loaded and not announced, and a conversion
between formats keeps the sign of a NaN.

### Bounds

- `plic`: two sources, so that priorities tie and differ; values that only fit
  after masking; completes of 0, of either source and of an alias through the
  5-bit mask.
- `uart`: a ring of three entries wraps and overflows; two shift ticks; two byte
  values tell order apart.
- `machine`: four bytes typed into a ring of two, three bytes to send, a
  transmitter of six ticks, which falls due after the handler that filled it, and
  inside it when bytes keep arriving.
- `traps`: a 24-byte address space with the vectors at 4 and 8, where the slots of
  the lines that can be pending differ; delegation of machine and of supervisor
  lines, direct and vectored mode, two lines pending at once; the CSRs whose
  rewriting matters. A VIEW drops registers no enabled action reads.
- `console`: five typed bytes in batches of up to three: an escape can be cut,
  repeated, and followed by end of file.
- `atomics`: four words, bits as values, LR.W on each of them and FSD at the
  doubleword that holds the third and the fourth; identity and exchanged pages, a
  page missing and a page that is read-only.
- `paging`: two directory entries of two pages, three evictions at any moment.
  With the empty program the kernel writes one directory entry and one table
  entry, of every form the walk tells apart, aligned and misaligned.
- `timer`: registers of two words of two base-3 bytes; nineteen instructions carry
  from low to high word twice, and deadlines 0, 10 and 17 ahead let a driver
  replace one that is still in the future by a nearer one with a smaller high
  word. It stops there because mtime would wrap, which takes 2^64 instructions
  in the code.
- `hashmap`: a table of four slots that grows to eight, keys that share slots, two
  values: three of four slots used or deleted trigger the rehash.
- `instructions`: words of 8 bits, so that every pair of edge values is a pair of
  registers; formats of 6, 8, 9 and 10 bits, with every bit pattern of a lane in
  the conversions; compressed loads and stores with every offset bit set and clear;
  one instruction from each of a set of machines, three where CSR
  writes and instructions alternate. The decoders are compared on all opcodes,
  funct3 and funct7 with ten values of rs2, which tell all their cases apart.
- `loader`: eight bytes of memory, images of one and two bytes at every distance
  that touches, overlaps or leaves a gap, up to two extra images, files that
  cannot be mapped.
- `spin`: a ring of 2 and a limit of 4 for 8 and 64, loops shorter than, equal to
  and longer than the ring.

Deadlock is checked except where the modelled system ends (`console`, `spin`
conclude; `paging` finishes its program; `loader` ends with the guest started or the
command line refused; `instructions` takes a bounded number of steps) or a counter
reaches its bound (`timer`).

### Fairness

- `Machine`: weak fairness of the whole next-state relation. The loop has no
  statement that waits (`epoll_wait` has timeout 0).
- `Console`: weak fairness of `uart_poll_input`, which every iteration calls; none of
  the host.
- `Paging`: weak fairness of executing an instruction or the handler, for the same
  reason; none of the kernel's evictions.
- `SpinDetector`: weak fairness of the iteration.
- `Loader`: weak fairness of the next step; `main` waits for nothing.

## 4. Proofs

Each theorem holds for every value of the constants its module's `ASSUME` allows.

| Theorem | Property | Needs, beyond the `ASSUME` |
|---|---|---|
| `PlicBestSource`, `PlicClaimHides`, `PlicServiced` | `BestSourceIsMaximal`, `ClaimHidesOnlyFromItsContext`, `ServicedUntilOwnComplete` | |
| `UartLineCoherent`, `UartTxCountdown`, `UartRingIsFifo` | `LineCoherent`, `TxCountdown`, `RingIsFifo` | |
| `MachineHandlerFindsItsCause` | `HandlerFindsItsCause` | |
| `TrapsMachineContext`, `TrapsSupervisorContext`, `TrapsReturnsRestore` | `MachineContextSaved`, `SupervisorContextSaved`, `ReturnsRestore` | |
| `TrapsMachineNeverDelegates`, `TrapsLand` | `MachineNeverDelegates`, `TrapsLandOnVector` | |
| `TrapsNotReentered` | `HandlersNotReentered` | `ModesWritten` |
| `AtomicsStaleOnlyIfMoved`, `AtomicsLostForCause` | `StaleOnlyIfMoved`, `ReservationLostForCause` | |
| `HashMapProbeEnds`, `HashMapIsDictionary` | `ProbeEnds`, `ImplementsDictionary` | `~CallocFails` |
| `SpinCountsRepeats` | `CountsRepeatedFetches` | |
| `LoaderHandoffSound`, `LoaderTreeReadable` | `HandoffSound`, `TreeReadable` | |
| `ConsoleBatchingInvisible` | `BatchingInvisible` | |
| `TimerTimeNotTorn`, `TimerDeadlineExact`, `TimerInstretExact` | `TimeNotTorn`, `TimerExact`, `InstretExact` | |
| `PagingSuperpage`, `PagingMprv` | `SuperpageActsLikeItsTable`, `MprvActsForMpp` | |
| `PagingTransparent` | `DemandPagingTransparent` | `Retryable` |
| `TrapsArePrecise`, `CompressedAreExpansions` | `TrapsPrecise`, `CompressedIsExpansion` | |
| `MulDivIsExact`, `FloatResultsAreExact`, `FpuStateIsKept` | `MulDivExact`, `FloatResultsExact`, `FpuStateKept` | |
| `DecodersAlwaysAgree` | `DecodersAgree` | |

`PlicTyped`, `UartTyped`, `TrapsTyped`, `AtomicsTyped` and `TypeCorrect` (of
`Instructions`) are the typing theorems under them; no run lists `TypeOK`, since the proofs cover it for every instance.

### The arguments

*PLIC.* `plic_best_source` is a loop, here a recursive function. `ScanExists` shows
that the recursion has a solution, `ScanInvariant` what it has found after source
n, `BestMaximal` what it returns. `ClaimHides` and `CompleteReoffers` are then one
step per register access.

*UART.* `IInv == TypeOK /\ LineCoherent /\ TxCountdown` is inductive. `TypeOK` alone
is not: `--thr_ticks` stays a natural number only because a busy transmitter has
ticks left. `UpdateIrq` says that `uart_update_irq` makes the line coherent whatever
it was; every handler either calls it or changes nothing it depends on. The
refinement needs what the wrapping indices do to the queue they stand for:
`ReceiveIsPut` and `ReadIsGet`, on top of `RingSlot` (two entries never share a slot).

*Machine.* `GInv == HartOk /\ DevicesOk /\ EntryOk`: the set-up the driver made is
still in the CSRs and the PLIC, the UART's own invariant holds, and from the
dispatch to the claim the offer stands (`Raised`): bytes may arrive and the
transmitter may empty, but only the driver lowers the line. `Offered` turns that
into what the claim returns, through `BestMaximal`.

*Traps.* `IInv == TypeOK /\ MachineContextSaved /\ SupervisorContextSaved`. The two
context invariants need each other only through the frame facts `SameM` and `SameS`:
a machine trap or return moves no supervisor bit and conversely.
`TrapToMEnters`, `TrapToSEnters`, `MretFacts`, `SretFacts` establish them for the trap
code, `CsrWriteFacts` for CSR accesses; `NextIInv` has one step per action. The action
properties follow from the invariant and the same lemmas. `HandlersNotReentered`
needs one fact more, that the hart is in none but U, S and M and would return to
one of them (`KnownModes`): the code writes MPP as it is told, and a guest that
writes the reserved value 2 returns to a mode the interrupt check takes for one
below M. `ModesWritten` says that no configuration and no CSR operation of the guest
does so.

*Atomics.* `IInv == TypeOK /\ StaleOnlyIfMoved`, for every guest, every set of page
tables and every set of words it reserves or stores as doublewords. A store of a
physical word takes the key of that number out of `mmu_flags`; what it makes stale
and leaves reserved therefore has another name than its target, and an SC, a trap
or a new LR.W only takes from the stale reservations (`Write32NotStale`,
`ClearedNotStale`). `LostForCause` is the converse, one step per instruction.

*Hash map.* The counting invariant `CInv` relates `size` and `tombstone_count` to the
slots of either kind (`Counted`, by cardinalities) and leaves a free one (`Roomy`):
the load factor when idle, and during a rehash the number of entries moved so
far, against a table at least twice as large. `SlotAtOnto` (linear probing visits
every slot) then gives `ProbeEnds`. `DInv` adds that a key is live in one slot
(`Single`), that no free slot lies before it on its probe path (`Reach`), and that
what is still to be moved has not been (`Disjoint`). `NextDict` has one step per
operation; the entry a rehash moves is a stutter of the dictionary. Without
`~CallocFails` both are false (`MCHashMapNoMemory.cfg`).

*Spin detector.* `SInv`: the ring holds the latest fetches of the trace at the slots
`SlotOf` gives them (`Mirrors`), and `spin_count` is the length of the latest run of
repeats, up to the limit (`Run`).

*Loader.* `LInv` says, stage by stage, which images are whole in memory; `CopyWhole`
and `NoSharedByte` carry an image over a later copy that the overlap tests
allowed.

*Device tree.* Builder and reader are folds over the token stream. Neither is unfolded:
`Parsed(s, o, N, P)` says that a description leaves open what it found open (there is
a walk, the path of open nodes after each token), and that the reader collects the
nodes N and the properties P along it. `ParsedProps`, `ParsedConcat` and `ParsedNode`
compose such descriptions the way `fdt_build_riscvemu` composes its calls;
`CallsWrite` and `ReadIs` say, with the least-number principle in the place of
induction, that the builder writes a parsed description as it stands and the reader
gets its N and P. `TreeRead` is then the tree for any device layout and any initrd,
`Table` what each node says, and `NodesGood` the rules of `TreeReadable` node by node.

*Console.* What was received is always a prefix of what was typed, so `CInv` is
about its length: where the escape was met, or how far it has been excluded, and
that a held byte is a Ctrl-] at the end of what was read. The scan of a batch is a
loop over its bytes with three ways out; `StopExists` and `StopUnique` say where it
stops, `LoopIs` and `ScanIs` what it has delivered there, `ReadBatchKeeps` that this
carries `CInv` over any batch. That the first pair of the whole input is where the
batches met it (`CInvInvisible`) is then a fact about a sequence.

*Timer.* A word access of the bus is a loop over bytes and a register a number.
`ReadIsWord` and `WriteWord` show for every byte and word width that the loop reads,
and replaces, exactly the word. `TInv` has a part for the counters, one for the words
read so far and one for what `mtimecmp` holds at each step of the driver's
protocol. The assumptions on `MaxTime` and `Delays` say that neither mtime nor a
deadline wraps, which takes 2^64 instructions.

*Paging.* `PagingSuperpage` and `PagingMprv` compare two walks and only need the shape
of the tables (`TablesTyped`). `PagingTransparent` is about the program: `Computed(k)`
says that registers and memory are what k instructions of the program in bare
memory leave, but for the destination of a load that faulted and is to be
retried, and `PInv` that the program is always between two instructions with
`Computed` of its pc (`UserOk`) or in the handler with `Computed` of sepc (`KernelOk`).
`Retryable` asks for stores, and loads that keep their base register; the other
instructions are the departures of `MCPagingChase.cfg`. The kernel here is one that
maps a page to its own frame; which pages it maps, and when it takes them away, is
arbitrary.

*Instructions.* `TypeOK` is inductive as it stands, and everything else is about one
turn. Each handler has a lemma saying what it leaves: no trap, or the trap that is
due and nothing else (`Outcome`, `Trapped`), a floating-point handler a lane boxed
for its format and flags that only grow (`FpStep`). `ExecuteKeeps` and
`CompressedKeeps` collect them over the operations, `Body` is the turn up to the
advance of the pc and `Advanced` the rest.

- *Traps.* `OpDueIs` gives the cause an operation owes, `DueTrapIs` the property's
  choice among all that are due as the order of the loop's checks.
- *Compressed instructions.* `ActsAs` relates a handler of `c_extension.c` to that of
  its expansion before the pc moves, `Follows` after it, with the link register
  and the hand-made pc corrections; there is one lemma per group of handlers.
- *Products and quotients.* A high half is a quotient of the exact product by
  `WordMod` (`HighHalf`), for signed operands after adding a multiple of it; the C
  division rounds toward zero (`CDivides`), with zero and overflow as cases.
- *Floating point.* The order of two patterns follows from the weight of the sign
  bit (`OrderIs`); a conversion is a product with a power of two, or a quotient
  that `RoundSign` bounds on each side of zero, and `ConvertExact` adds the
  saturation and the flags.
- *Decoders.* One lemma per opcode, over every word of fields and not only the ten
  values of rs2 that TLC enumerates.

The properties ask that the pc lies in memory: past its end the fetch is fatal and
the turn is no instruction.

The assumptions on the constants of these modules are of two sorts. The widths are
related as in the code (a single is as wide as a register, a double wider, a half
narrower). `PowersOfTwo`, `WidePowersOfTwo` and `ScalesOfTwo` say that 2^(n+1) is
twice 2^n for the widths in use: true of every n, but the provers know no laws of
exponentiation. TLC evaluates all of them.

Induction. A fact about a loop is proved for the set of numbers for which it
holds, by the least element of its complement (`LeastNat`, `Induction`,
`NatInductive`). The same
argument shows that a recursive function over 0 .. n has a solution (`LoopRuns`,
`ScanExists`): a recursive definition by itself only says which function it would be.

### Model-checked only

Liveness, which needs fairness and ENABLED: `ReceivedIsRead`, `QueuedIsSent`,
`HandlerReturns`, `QuitLeaves`, `ProgramFinishes`, `SpinConcluded`,
`RefusedOnlyForConflict`.

## 5. Not modelled

- Logger, file mapping, option parsing and the self test: I/O or formatting.
- The debugger: off in the default build, an interactive command loop that parses
  and prints.
- The arithmetic of SoftFloat: an external library. `Fpu` takes any result and
  flags it may return; only conversions to integers, comparisons, min and max
  are computed.
- The text of the disassembler, and compressed words in it (it prints them as
  unknown).
- Routing of the bus by access width (`mem.h`), fetches across a page boundary,
  the CSRs no modelled code reads (PMP, counter enables, identification), the
  misaligned-access build.

## 6. Plan

All components of the core are modelled. What would come next:

1. `Bus`: routing by width and address of `mem.h` to CLINT, UART, PLIC and memory.
2. Fetches across a page boundary: `Instructions` over the translation of `Paging`.
3. `SpinDetector` with `Timer`: a periodic trap inside a spinning test.
4. `Debugger` run control as a variant of the loop.
