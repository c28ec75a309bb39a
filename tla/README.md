# Verification of the Tab5 NC1020/NC2000 port

This directory holds TLA+ models of the program in `src/`, an emulator of the
NC1020 and NC2000 electronic dictionaries on an M5Stack Tab5 (ESP32-P4), the TLC
configurations that check them on small instances, and theorems about them that
TLAPS checks for every size. Contents:

1. the system and its parts, 2. the modules and the code they model, 3. the runs,
their bounds and what they show, 4. fairness, 5. what is proved, 6. disagreements
found, 7. limits of the models, 8. what is left to do.

Paths are relative to `src/`; `nc2000/x` stands for `components/nc2000/x`.
`PROJECT.json` names for each definition the lines it models.

## 1. The system

`main/main.c` starts the application: `app_init` counts the start in against
crash loops, the card is mounted, the user picks a ROM in the file browser,
`nc2000_run` runs the emulator, and everything else leads back to the launcher.
The emulator is a desktop program (`nc2000/`) behind a narrow interface
(`nc2000_api.cpp`), called once a frame by the loop of `nc2000_run.c`: poll the
input, run a slice of the machine, draw, serve what the user asked for.

Nearly everything runs in the one main task. Concurrency comes from outside of
it: the timer service (`crash_clr`), the user, the keyboard's own queue, the
firmware that runs in the emulated machine and whose accesses of the ports come
in any order, and power, which may go at any moment.

| Component | State | Operations | What is hard | What makes it correct |
|---|---|---|---|---|
| NAND block cache (`nc2000/nand.cpp`) | `s_slots` (block, buffer, dirty, lru), `s_last_slot`, `s_lru_clock`, the `.nand` file | `nand_get_block` (fast path, scan, eviction, fetch), `nb_set`, `nb_erase_block`, `nand_flush_all`, `read_nand_file` | write-back order, a stale fast path, power loss within a block's write, failing card or allocation | the machine sees one array; the file lags behind but only ever takes a block's current contents; a finished save is durable |
| NAND chip (`nand.cpp`, `read_nand`, `nand_write`) | `nand_cmd`, `nand_addr`, `nand_data`, `nand_read_cnt` | command, address and data bytes, reads | three queues that outlive a warm reset; assertions compiled out on the device | an operation takes effect once, with its last access, and only where told; reads answer what was asked |
| NOR flash (`nc2000/nor.cpp`) | `fp_step`, `fp_type`, `nor_buff`, `nor_info_block` | `write_nor`, `read_nor`, reset | sequences cut short by a warm reset, reached through any memory map | no accidental erase or program; no state leaks into later reads |
| Boot and crash guard (`app_common.c`, `main.c`, `odroid_sdcard.c`) | `boot_cnt` in NVS, the grace timer, the boot partition | `crash_guard_check`, the timer's callback, `app_return_to_launcher`, the steps of `app_main` | a counter that survives resets, a timer in another task, a rollback of two writes that power may part, NVS that fails or is erased | exact counting; a crash loop ends; a healthy start is forgiven |
| Loading and saving (`nc2000.cpp`, `nc2000_api.cpp`, `nand.cpp`, `nor.cpp`) | four files, their images in memory | `LoadNC2k`, `nc2k_save` = `save_flash` then `save_state`, write-back in between | power loss between two files or within one; a file that does not open, unnoticed | the filed state never refers to flash that is not filed; saved contents are not lost |
| Input (`nc2000_run.c`, `kbd_hw.c`, `key_new.cpp`) | `hw_down`, `kb_state`, `s_ui_mode`, the `*_prev` flags, `.kbmode` | `kbd_hw_poll`, `nc2k_poll_input`, the loop's service of save and exit | more events than a poll reads; a layout that changes under a resting finger; restarts | the machine finds pressed what the user holds; no stuck key; one action per touch |
| Memory map (`nc2000/mem.cpp`, fast paths of `ansi/w65c02.h`) | `memmap[8]`, `ram40`, the bank registers | `super_switch` at every write of a bank register, `Load`, `Store`, `CPU_PEEK`, `CPU_POKE` | a bank that is not there leaves the last one mapped; accesses that bypass the flash's command machine | what is seen depends on the registers alone; the fast paths do what the slow ones do |
| 6502 core (`ansi/w65c02*`, `cpu.cpp`, `compare/c6502.cpp`) | the registers, `g_irq`, `g_nmi`, the cycle counts, twice | 256 opcodes, IRQ, NMI, BRK, the loops around them | nested interrupts, decimal carries, indices at page borders, a stack that wraps, two cores that are meant to agree | an interrupt is transparent; decimal is decimal; the cores do the same |
| File browser (`file_browser.c`) | the path, the list, the scroll offset, the press | scan, sort, cut, go up, scroll, tap, open | a list that scrolls under the finger, is cut at the array's end, or is read anew from a failing card | a tap opens what was drawn under it |
| Machine clock (`cpu_loop_new.cpp`, `iv_uart.cpp`, parts of `io_new.cpp`, `cpu.cpp`, `key_new.cpp`) | the time `TR_*`, the alarm `AR_*`, `RCR0`/`RCR1`, the vectors, `is_clk_off`, `do_warm_reset`, the pending interrupt | the batches of `cpu_run3`, ticks, warm reset, the firmware's register writes | falling asleep while something comes due; vectors that outlive the reset | a sleeper wakes and finds out why; only a sleeper is reset; no interrupt is lost; the time is right |

Not modelled, each with its reason in `PROJECT.json`: DSP commands and timer A,
timers 0 and 1 with the LCD registers (section 8), sound (empty functions on the
device, `tab5_stubs.cpp:18-24`), the ROM image (read once), the display path,
the panel drivers and board support, the audio output, the gamepad (a stub that
reports nothing) with virtual pad, settings and battery (not used by this
emulator), the desktop program with its legacy loops, LCD effects, and the host
tools.

By lines these are most of the repository, and no module could say anything of
them: the font of the browser alone (`cjk_font16.c`) has 25,459 lines, all data,
that of the emulator's console (`font.h`) 2,309; the codec and panel libraries
(`components/espressif__*`, `odroid/odroid_display.c`, register tables of chips
that are not fitted) are vendored; the desktop program is compiled out. The
modules stand for some 6,300 of the 67,000 lines, and for most of those
that keep state on the device.

How they interact:

    main.c -> app_common (BootGuard) -> file browser (FileBrowser) -> nc2000_run (KeyInput)
       nc2000_run -> nc2k_set_key -> key_new: the matrix; may wake (MachineClock)
                  -> nc2k_run_slice -> cpu_run3 (MachineClock)
                        cpu.cpp -> the core (Cpu), interrupts between instructions
                        firmware -> ports -> NandChip -> NandCache -> .nand
                                 -> memory map (MemMap) -> NorFlash
                  -> nc2k_save (Persistence) -> nand0, .nand, .nor, state
       esp_timer task -> crash_guard_timer_cb (BootGuard)

## 2. The modules

| Module | Models | State and actions against the code |
|---|---|---|
| `NandStore` | what the paged NAND promises | `store` (what the machine reads) and `disk`: `Update`, `WriteBack`, `Crash` |
| `NandCache` | paging in `nand.cpp` | `slot`, `oom`, `last`, `clock` are the static variables, `file`/`len` the `.nand` file. `AccessHit` and `AccessMiss` are one whole call of `nb_get`, `nb_set` or `nb_erase_block` with everything `nand_get_block` does for it: victim, flush, buffer, fetch, stamp. `Open` is `read_nand_file`, `SaveStep` one round of `nand_flush_all`, `Crash` a power loss, possibly with part of a block written |
| `NandChip` | port $29 and `$18` | one operator per kind of byte, as `nand_write` tells them apart; `Read` is `read_nand`. The assertions are the `...Expected` predicates |
| `NandDriver` | the machine's own routines at work on the chip | each access is a step; `Abandon` is a warm reset between two of them. The routines are in the machine's ROM, not in the repository: external, their sequences are those the code accepts and asserts |
| `NorFlash` | `write_nor0`, `read_nor` | `fp_step`, `fp_type` as in the code; one operator per branch of `write_nor0`; `Load`, `Store` and the fast paths beside them |
| `MemMap` | `super_switch` | `SuperSwitch` takes the machine, the registers and the old map to the new one; a page is a quarter of a bank of some memory |
| `NorDriver` | the machine's flash routines, through the map | as `NandDriver`; `SetRegister` writes a bank register between two routines, `Abandon` is a warm reset, which switches again |
| `BootGuard` | the boot counter and the life around it | `InitNvs`, `GuardPass` or `ClearCount` then `Rollback`, `InitDone` are the parts of `app_init`; a rollback's two durable writes are two steps (`app_common.c:62`, `185`); `TimerFires` the callback; `MountCard`, `Select`, `Return` the steps of `app_main`; `Crash` anything that ends it otherwise. `starts`, `cuts` (rollbacks that power cut short) and `faulted` are histories for the properties |
| `FileBrowser` | `file_browser.c` | `file_browser_init` and `Scanned` (read, cut, sort); a round of the loop is `Press`, `Hold` or `Release` with what it leads to: scroll, `go_up`, `Activate`. `finger` is a history: what was drawn under it, and whether it strayed |
| `AppLife` | `BootGuard` and `FileBrowser` together | `Mount` and `Browse` are joint steps, a reset forgets the browser's statics |
| `Persistence` | the four files | contents are version numbers, `Torn` where a write was cut short; a file is opened (`StartFile`, the truncation) and closed (`WriteEnds`) in two steps with power losses in between |
| `KeyInput` | a frame of the loop | `Poll` is the whole of `nc2k_poll_input` with `kbd_hw_poll`, the touch hit test, the swipe, the buttons and `nc2k_set_key`; `Serve` the rest of the loop; `User` what happens between two frames |
| `MachineClock` | `cpu_run3` | a batch is `Resume`/`Idle`, the firmware's writes, `EndBatch`, then `Tick` or `NoTick`; `WakingKey` and `SyncTime` come between batches |
| `Bytes`, `IllegalOps` | memory, the undocumented opcodes (`cpu.cpp`) | bytes, words and a sparse memory; length and cycles of every opcode that both loops skip |
| `W65C02`, `C6502` | the two cores | operators from a core to the core after an instruction or interrupt, one per instruction and per addressing mode, with tables from opcode to both |
| `Cpu` | `execute` and what it is called by | `AskIRQ`, `AskNMI`, `IRQNow` ask between batches; `Begin` starts a batch, `Place` chooses the firmware's next instruction, `Execute` is a round of the loop. `saved`, `deep` are histories |
| `NandCacheProofs`, `NandDriverProofs`, `NorDriverProofs`, `BootGuardProofs`, `PersistenceProofs`, `KeyInputProofs`, `MachineClockProofs`, `CpuProofs` | theorems | section 5 |
| `MC...` | instances for TLC | sizes and places; the rest is in the `.cfg` files |

Abstract specifications: `NandCache` implements `NandStore`, with `store[b]`
what the next access of block `b` would find and `disk[b]` the file; the slots,
the LRU order and the fast path disappear. `AppLife` implements `BootGuard`,
whose life knows of no browser. `Cpu` holds the core the device runs against the
other one, instruction by instruction (`Emux == INSTANCE C6502`).

Definitions whose comment begins with "Mutant" are variants of the definition
below them with a plausible mistake. No specification uses them; each is there
to show that some property notices it.

## 3. The runs

| Run | Distinct states | Question and bounds |
|---|---|---|
| `nand_cache` | 237,056 | Is the cache one array with a lagging disk, through evictions, saves and power losses in the middle of a block? Two slots, two blocks of the main array and one address beyond it, so that two blocks fight for a slot with one left over; two cells per block, so that a write may be half done; an LRU clock of one bit, so that it wraps all the time and victims are chosen by stale stamps |
| `nand_write_fault` | violation | A write of the card that fails: the slot is clean all the same |
| `nand_driver` | 2,638,286 | Reads of all three areas, full, partial and spare programs, erases, status, identifier, reset; up to three operations in a row, each cut short anywhere. A byte has two values, a page four main cells and one spare, a block two pages, and the chip eight pages, of which four are boot pages. Page 2 is in the boot pages and 4 is the first of the main array, so that both ways of counting blocks happen. Three operations are enough for one to be cut short, one to meet what it left, and one to show that the chip recovered |
| `nor_driver` | 1,014,352 | Ten kinds of operation and plain reads, complete or cut short anywhere, on two kinds of machine (with and without `pc1000mode`), through every map that eight settings of the bank registers give in any order: two banks of the flash, one that is not there, one of the ROM, a window of the flash or RAM in page 6, another RAM in page 1. Pages of two cells, sectors of one or two; the bytes are the commands and the bits 0, 4 and 5 tell apart those that matter when one is taken for data (0xF0 clears bit 0). Three operations, as in `nand_driver` |
| `boot_guard` | 155,826 | Crashes, power losses, returns, the timer, and failures of NVS, the timer and the boot partition's record in every order, with this application or a launcher in the factory partition. The limit is the code's own (3). One rollback in a row may be cut short between its two writes (`MaxCuts`), which is enough for the starts it forgets to be followed by a whole series and a rollback. The card has a directory that just fits the list with its way up, one with more entries than the list has, and an empty one; the screen a header, two rows and a strip below them, and any directory may fail to open |
| `boot_guard_no_launcher` | violation | Does a crash loop end? |
| `persistence` | 1,479,738 | Writes, evictions, saves, restarts, power losses, failing opens, buffers and writes. Two blocks (symmetric), two writes: enough for flash and state of different moments in any combination |
| `persistence_restart` | violation | Does the machine continue after a restart? |
| `key_input` | 1,449,630 | Three hardware keys of which two share a code, two events waiting where a poll reads one, two fingers, three places that mean different things in the two layouts (a toggle in one that is a key in the other, and conversely), two starts, a keyboard that may be missing, a file of the layout that may not open, for reading or writing, or not take the byte |
| `key_input_leave` | violation | Can the user leave? One finger, one place of every meaning in both layouts |
| `machine_clock` | 516,096 | Any firmware, waking keys, alarm and half-second interrupt, the host's time taken over once at any moment. A day of 2 hours of 2 minutes of 1 second of 4 ticks: every carry happens |
| `cpu` | 1,328,818 | Every documented opcode, and undocumented ones of each length, with operands where indexing crosses a page, wraps at the end of the zero page or finds a pointer at its end; decimal sums and differences of numbers with and without carries out of each digit; two starts, one with a full stack and one with a stack about to wrap. Before and after comes CLI, SED or BRK, and two interrupts of any kind are asked for at any time: they nest, three deep with BRK |

Deadlock is checked except where a bound ends the behaviour: `nand_driver` stops
after three operations, `cpu` at the end of its firmware, `key_input` and
`key_input_leave` after the last start.

The properties:

- **NandCache.** `OneSlotPerBlock`; `CleanMirrorsFile` (dropping a clean slot
  loses nothing); `OtherBlocksUntouched` (an access, with the eviction it causes,
  alters no other block); `SaveIsDurable`; `ImplementsStore`.
- **NandDriver.** `OperationsAsAsked` (an operation changes the array once, at
  its end, exactly as asked; one cut short never does, not even later, though
  its bytes are still queued; reads answer what was asked); `AssertionsHold` (the
  assertions that the device build leaves out hold until something is cut short,
  and again after the chip's own reset).
- **NorDriver.** `OperationsAsAsked` (for operations that follow a complete one);
  `NothingByAccident` (for all, whatever was cut short: no cell regains a bit but
  by an erase carried through, or loses one but by the program that names it);
  `StepsMatchTypes` (no step with a command it does not belong to);
  `MapFollowsRegisters` (what is seen depends on the registers alone where the
  bank exists, and through one that does not nothing in the flash is altered);
  `FastPathsAgree` (the inlined accesses do what `Load` and `Store` do).
- **BootGuard, AppLife.** `CounterKeepsCount` (the counter is exact unless
  something failed, less what a rollback forgot that power cut short; and it is
  never too high unless a rollback failed to clear it), `CrashLoopIsBroken` (no
  more than the limit of early crashes in a row, and as many again for each
  rollback cut short), `TapOpensWhatIsShown`; liveness: `HealthyStartIsForgiven`,
  `CrashLoopRollsBack`.
- **Persistence.** `StateNeverAheadOfFlash`, `NothingSavedIsLost`,
  `SavesReachCard` (a save in which nothing failed is complete, and the NAND
  blocks are saved whatever else fails).
- **KeyInput.** `MachineSeesWhatIsHeld`, `NoKeyIsStuck`, `ButtonsActOnce`,
  `LayoutIsRemembered`; liveness: `LettingGoIsSeen`.
- **MachineClock.** `TimeGoesOn`; liveness: `AlarmIsSeen`, `SleeperWakes`,
  `LeftVectorsInterrupt`. (`ResetOnlyAsleep` is proved and not run.)
- **Cpu.** `InterruptsAreTransparent` (what an interrupt or BRK interrupts goes on
  with its registers, flags, stack pointer and place, however many others nest);
  `DecimalIsDecimal`; `CoresAgree` (registers, flags, memory and cycles, but for
  the differences that `Differs` lists).

Every property of a passing run is violated when some definition of the model
is replaced by a plausible mistake ("mutants" in `PROJECT.json`).

## 4. Fairness

- **BootGuard**: the bootloader boots, the straight-line code of `app_init`
  proceeds, a rollback included, and the timer service delivers. Nothing is assumed of the user, of
  crashes, of the card or of the launcher: an application may stay in its file
  browser for ever.
- **KeyInput**: the loop goes round while the application runs: weak fairness of `Turn`,
  which is a poll (the only step from "poll" to "serve") or `Serve`. Nothing is assumed of the user: where a property needs one who acts, it
  says so in its premise (`UserCanLeave`, `LettingGoIsSeen`).
- **MachineClock**: `RunTimeSlice` calls `cpu_run3` again and again, a batch has
  a limit, so every stage of a batch ends (weak fairness). `Tick` is strongly
  fair: whether a tick is due depends on the cycles passed, which the model does
  not count; a batch's cycles always pass, executed or idle, so a tick comes due
  every few batches, though not in each. Nothing is assumed of the firmware, the
  keys or the host's time.

The other modules have safety properties only and state no fairness.

## 5. What is proved

| Theorem | For | Statement |
|---|---|---|
| `NandCacheProofs!TypeCorrect`, `NoBlockTwice` | all sizes, all faults | types; no block in two slots |
| `CleanSlotsMirrorFile` | all sizes, no faults, a whole file | a clean slot mirrors the file |
| `SavesAreDurable` | same | a finished save has filed every block |
| `AccessesAreLocal` | same | an access alters no other block |
| `CacheImplementsStore` | same | refinement of `NandStore` |
| `NandDriverProofs!TypeCorrect`, `DriverMeetsAssertions` | every size of page, block and array, any number of operations | types (a read never leaves the array); the assertions of `nand_write` |
| `OperationsDoAsAsked` | every size of chip whose boot pages are whole blocks, any number of operations | `OperationsAsAsked` |
| `NorDriverProofs!TypeCorrect`, `StepsMatch`, `FastPaths`, `MapFollows` | every number and size of banks, set of machines and of register contents | types (the map never shows a page that does not exist); `StepsMatchTypes`, `FastPathsAgree`, `MapFollowsRegisters` |
| `OperationsDoAsAsked`, `NoAccidents` | same | `OperationsAsAsked`, `NothingByAccident` |
| `BootGuardProofs!TypeCorrect`, `KeepsCount`, `CrashLoopsAreBroken` | every limit, grace period, number of attempts, set of faults and number of rollbacks cut short | the counter's invariants |
| `LifeImplementsGuard`, `LifeBreaksCrashLoops` | every card and screen | `AppLife` refines `BootGuard`, so the loop is broken in it too |
| `LifeTypeCorrect`, `TapOpensShown` | same, and every length of the list | `LifeTypeOK`, `TapOpensWhatIsShown` |
| `PersistenceProofs!TypeCorrect`, `StateIsBehindFlash`, `NothingIsLost`, `SavesAreComplete` | every set of blocks, number of writes and set of failures | the four properties of the run |
| `KeyInputProofs!TypeCorrect`, `ChoiceIsKept` | every keyboard, panel and pair of layouts, every failure | types; `LayoutIsRemembered` |
| `TouchActsOnce` | same, the panel's reports do not fail | `ButtonsActOnce` |
| `KeysAreLetGo` | same, the keyboard's reads do not fail | `NoKeyIsStuck` |
| `KeysAreSeen` | same, neither fails | `MachineSeesWhatIsHeld` |
| `MachineClockProofs!TypeCorrect`, `TimeCounts`, `RunningIsNeverReset` | every length of tick, second, minute, hour and day, every source, number of syncs | types (the time is always legal); `TimeGoesOn`; a warm reset only finds a clock that is off |
| `CpuProofs!TypeCorrect`, `DecimalArithmetic` | every memory and starting core, every firmware and number of interrupts | types (bytes stay bytes, addresses words; a round takes at most 15 cycles); `DecimalIsDecimal` |
| `CoresMatch` | same | `CoresAgree`: but for the listed differences the two cores make the same step |

**Assumptions.** Those the modules state of their constants
(`SizesAssumption`, `ChipAssumption`, `MemMapAssumption`, `GuardAssumption`,
...; TLC evaluates them on every run), for four theorems `Healthy`: no
fault and a `.nand` file of full size (`nand_write_fault` shows that
`CleanMirrorsFile` is false without it), and for `TouchActsOnce` a panel whose
reports do not fail (with it a button under a resting finger acts again). `KeysAreLetGo` needs a
keyboard whose reads do not fail: an event that is lost with a failing read
leaves its key down, which is hazard `kbd_hw.c:100`. The hardware keys are
finitely many, the two addresses a flash answers its identification at differ, the directories of a
card are closed under going up, and a core's registers are bytes, its pc a word
and its memory's cells bytes when it starts.
`OperationsDoAsAsked` needs boot pages that are whole blocks, which the code's 64
pages in blocks of 32 are: an erasure whose block began in the boot pages and
ended beyond them would do nothing.
`DriverAssumption` lets a read go as far as the end of the next page, which is
what the array's end leaves room for.

**The NAND argument.** `OneSlotPerBlock` is inductive with the types: a block is
fetched only after every slot was scanned for it. `CleanMirrorsFile` is not
inductive: a slot stays a mirror only if no other slot writes the same block
back, if the bytes are the slot's own, if the file is open and as long as the
array (a write beyond its end would fill the gap). `HealthyInv` adds these:
`TypeOK`, `OneSlotPerBlock`, `CleanMirrorsFile`, an open, full file, no slot on
the shared buffer, empty slots while the application is off, and, within a save,
that the slots the loop has passed are clean. `SaveIsDurable` is read off it at
the loop's last slot. For the refinement each kind of step gets a lemma about
what the machine reads before and after it (`HitView`, `MissView`, `SaveView`,
`CrashView`); a hit is an `Update` or a stutter, a miss an `Update` or a
`WriteBack`, a step of a save a `WriteBack` or a stutter, and a power loss within
a write the `Crash` of `NandStore` with the cells that got out.

**The NAND chip.** The queues grow byte by byte, so the invariant says where in
its sequence an operation is: what is left to do is the tail of `Script(op)`
(`ToDo`), and after k accesses of an operation that began properly the registers
are `Hold(op, k)` (`Ready`), of which the assertions are read off. Between
operations, if none was cut short, the chip expects a beginning. Programs of less
than a page leave their bytes behind, `PartialSeen` remembers. For what an
operation does, `Exact` adds that the queues hold the very bytes that were sent;
the address bytes then recompose to the page that was asked for (`PageFound`), and
the cells of a page are those whose number divided by its size is the page's
(`Division`). One lemma for each operation that stores (`ProgramStores`,
`SpareStores`, `EraseStores`) gives the array it leaves; `Effect` says that the last
access and no other does this, `Answer` what a read returns.

**The NOR flash.** The types with those of the accesses to come, `StepsMatchTypes`
and `MapAsAsked` (the map is the one the registers ask for, where they ask for
one) are inductive together: no routine is trusted for it, any access in any
order will do. That the map's pages exist is a lemma for each machine
(`WindowsOk`), from the ranges of the registers. What operations do needs the
command machine itself: `Suffix` says which accesses are behind an operation,
`Chip` that then, if none was cut short, the machine is `Poised` where they take
it, and at rest between operations. After one was cut short, the reset the next
begins with may be taken for the byte of a program: the chip is then `Stuck` in a
program that nothing reset, until the last reset of that operation, or, `Early`, until
a 0xF0 that is its byte.

**The crash guard.** `GuardInv` is `CounterKeepsCount`, the types and
`ClearedOnReturn`: between the two writes of a rollback the counter is 0, unless
clearing it failed. Each step is then checked by itself; `CrashLoopIsBroken`
follows, as the counter is refused at the limit. `Forgotten` is what makes the
invariant inductive: the starts that a rollback takes from the counter are still
held against the application till the boot partition is named, and stay so when
power is lost in between (`ClearKeepsCount`, `RollbackKeepsCount`,
`CrashKeepsCount`). That the invariant speaks of `faulted` is needed: a namespace
that does not open lets a start go uncounted, and a counter that a rollback could
not clear (`"kept"`) is more than the starts that follow. A step of `AppLife` is one
of `BootGuard` or none.

**The file browser.** `BrowserInv` is the types, with a list that is one of the
sorted lists of its directory (`Scanned`), and `TouchIsTracked`: while a finger is
down and has not strayed, the list has not moved since it came. That the row a
release computes is the row that was drawn there is arithmetic of rows and the
strip below them (`RowsOfTheScreen`).

**Loading and saving.** `Ordered` is the heart: unless something failed, neither
files nor memory fall behind the last filed state or the last save, and the files
are never ahead of the memory. It is inductive with `Filed`: what a save is through
with is on the card, the state last. `Writing` says that the state is written when
it is the only file left.

**The input.** A layout's file holds the layout last chosen, unless that choice
did not reach it (`Agrees`). For the buttons, `Once` relates the `*_prev` flags to the fingers: as
long as no finger moves, a button that is under one has its flag set, through
every change of the layout. What the machine sees is a fold over a queue of
events, and the properties speak of a queue that has been read. The invariant,
`Settled`, looks ahead: the codes that will be down when every waiting event is
read (`Down`) are all codes of held keys, and in the first life of the program a
key that shares its code with no other is held if and only if its code is among
them. An event appended to the queue and one taken from it both keep that. That the
fold has a value at all, and that it splits where the queue is cut, is proved by
induction over sets of numbers: of those for which a claim fails there is a least
one (`Least`, `Induction`, `Iterates`).

**The clock.** `ResetMeansAsleep`, "a reset is asked for only while the clock is
off, and not within a batch", is inductive: nothing switches the clock on
between the asking and the reset but the reset, because the firmware does not
run in between. `TimeCounts` is arithmetic: counting in digits of any size, a
carry from each into the next, adds one modulo their product.

**The processor.** `CoreInv` strengthens the types by the range each phase leaves
of the cycle count, and, since nothing bounds a stack pointer that an NMI took
below zero, keeps the registers at least integers then, so that memory still
holds bytes afterwards. There is one lemma for each addressing mode and each
instruction, over either range of the registers; the table of opcodes is taken
row by row (`Row0` to `RowF`), and the two are joined in a lemma about a round.
Decimal addition is done digit by digit: the carry of the lower digit and the
correction of each are small case distinctions over 0..9.
That the cores agree is proved on `Twin`, the record c6502 has for a core of
w65c02 and the cycles that went before. One lemma after the other shows that a
helper commutes with it (a read, a write, a flag, a push), then an instruction
(`TwinRuns`), an operand with what indexing costs (`TwinOperand`, `TwinCycles`),
the rows of the two tables, opcode by opcode (`SameOpcode`), and each kind of
interrupt (`TwinIRQ`, `TwinNMI`, `TwinBRK`); `TwinInstruction` and `TwinRound` put
them together. Each exception of `DiffersAt` is the hypothesis of one of these
lemmas.

**Model-checked only.** All liveness (out of the prover's reach, with `ENABLED`),
which includes the half of `AlarmIsSeen` that says the machine wakes. Of `Cpu`,
`InterruptsAreTransparent`, which depends on what the handlers in the memory of
`Starts` do. No module uses a `RECURSIVE` operator.

## 6. Where the code and its own words disagree

Each is a run that TLC finds violated.

1. **A failed write marks the slot clean** (`nand_write_fault`,
   `nand.cpp:80-84`). `nand_flush_slot` clears the dirty flag whether or not
   `fseek` and `fwrite` succeeded. The block is dropped at the next eviction and
   the save that was to "flush every dirty cache slot" (`nand.cpp:142`) skips it.
2. **Rolling back goes to the same application** (`boot_guard_no_launcher`,
   `app_common.c:181`). The factory partition of `partitions_ota.csv:8` holds
   this very application, so a crash loop starts again with the counter at 0.
   With a launcher there (`LauncherEndsCrashLoop`) it does end.
3. **The filed state is never loaded** (`persistence_restart`,
   `nc2000.cpp:102`). `nc2k_save` files the state, and only the desktop's
   settings turn its loading on; `PORTING.md:163` lists as a test that the
   machine continues after a restart.
4. **There is no way out of the emulator** (`key_input_leave`,
   `nc2000_run.c:105, 125`). `KEY_EXIT` is in neither layout, and the menu
   button belongs to a gamepad that reports nothing.

Not a disagreement, but worth knowing: leaving in order within five seconds does
not clear the boot counter (`app_common.c:178`), so three quick returns count as
the "consecutive crashes" of line 60. A power loss between clearing the counter
(`app_common.c:62`) and naming the factory partition (`app_common.c:185`) forgets a
series of `CRASH_GUARD_MAX` starts without a rollback, and a rollback whose
clearing of the counter fails, which the code does not look at, is followed by
another at the next start, however that went: the model has both, and
`CrashLoopIsBroken` and `CounterKeepsCount` say exactly how much they cost.

## 7. Limits of the models

Behaviour that the models have and the passing runs leave out, because the
properties fail with it and no text in the repository promises otherwise (each
is a hazard in `PROJECT.json`):

- two slots whose buffers were refused share one (`nand.cpp:102`), a short
  `.nand` file (`nand.cpp:80`), a NOR that was loaded blank for want of a buffer
  and is saved blank (`nor.cpp:51`);
- a keyboard event lost with a failing I2C read (`kbd_hw.c:100`), a failing read
  of the panel under a resting finger;
- a key shared by two hardware keys is let go with the first of them;
- an NMI that finds less than three bytes of stack: its pushes do not wrap
  (`w65c02op.cpp:1496`, where `PUSH` of `w65c02macro.h:77` does, and
  `w65c02.h:244` calls the stack pointer 8 bits wide), and its handler returns
  anywhere. The history `deep` marks what follows.

The two cores differ, and `CoresAgree` leaves out (`Cpu!Differs`): only the 65C02
adds decimally, clears D on an interrupt and takes a zero page pointer at 0xff
from 0x100 on; only the other one takes the high byte of `JMP`'s pointer from the
same page, takes an IRQ within CLI and RTI, and counts two requests of an
IRQ; the status an NMI pushes has a B that a BRK left; and the cycles of
undocumented opcodes, of BVS, and of STA (zp),Y into another page.

Others:

- `NandCache` runs with whole files; `Persistence` with `HasNand`. A machine
  without NAND has a subset of these files.
- `NandChip` writes a flat array; how its blocks are kept is `NandCache`. The
  two are not composed: the array's type is the interface.
- `NorDriver` runs a routine only where all of its accesses reach the flash, or
  none: a routine in a map that shows half of it is an error of the firmware. It
  begins an operation that follows a cut one with the chip's reset.
  Without it the first operation after a warm reset may meet a half-finished
  unlock sequence; a routine that does not reset first can then erase or
  program otherwise than asked. What the ROM's routines do is not known here.
- `NandDriver` and `NorDriver` write a program's bytes in order and read a few
  bytes; the firmware's own errors are not modelled, except partial programs and
  being cut short.
- `MachineClock` lets the firmware write legal times only; the carries compare
  for equality, so an illegal value would run on to 255. Days are not counted.
  Timers 0 and 1 and the time base are "other timers may make an interrupt
  pending"; NMI is in `Cpu` only.
- `Cpu` runs over plain memory; the map is `MemMap`'s. The handlers are fixed, the
  firmware is not. The 65C02's own instructions, WAI and STP among them, never
  reach the core: the table of undocumented opcodes skips them first. In
  `FileBrowser` drawing says where an entry is and no more; names are numbers in
  the order of the sort. The disassembler and the trace of the cores are left out.
- A tap on the strip below the last row opens the entry that would be drawn next
  (`file_browser.c:505`); `TapOpensWhatIsShown` allows that entry and no other.
- `KeyInput` looks at the user once a frame: a stroke on the panel shorter than
  a frame is not seen, as in the code. `MachineSeesWhatIsHeld` leaves out keys
  held across a restart, which the program cannot know of.
- A layout that was chosen while `.kbmode` did not open, or did not take the byte,
  is not remembered, and a start that cannot open the file takes the keyboard's
  default (`nc2000_run.c:474, 635`). Both are in the model (`"file"` in `Faults`);
  `LayoutIsRemembered` leaves out exactly these and the power loss while the file
  is open.
- The nc3000 has no identification of its flash at $8000 (the assertion of
  `nor.cpp:150` is compiled out, and no value is assigned): `Maker` answers
  anything there. The runs have the nc1020 and the pc1000; the theorems hold for
  every machine.
- Brightness is in steps; that saving puts the backlight to full without telling
  `s_brightness` is in the model (`Serve`) and no property is about it.
- Undefined behaviour: the address bytes that are missing at an erase are
  whatever the queue's memory holds (`PaddedAddress`). `SaveNor` through a null
  file is a crash (`Persistence!Crash`).

## 8. Plan

What a next step could take, in this order:

1. **Timers** (timers 0 and 1 of `NekoDriverIO.cpp`, timer A, NMI): composed into
   `MachineClock` in place of "other timers may make an interrupt pending".
2. **DspProtocol** (`io_new.cpp`: the DSP's command states and status flags).
3. **NandSystem**: `NandChip` over `NandCache`, with the array of the one mapped
   to the blocks of the other.
4. **Lost keyboard events**: what the next poll of a keyboard that lost a release
   could do about it, if the code takes it up.
5. **Proofs**: the refinement of an abstract card by `Persistence`, on which a save takes
   effect file by file.

## 9. Running

    tlc -workers 2 -config NandCache.cfg MCNandCache.tla
    tlapm NandCacheProofs.tla

Each run takes less than three minutes with two workers (`nor_driver`,
`key_input`, `machine_clock` and `cpu` one and a half to two, the others less than
one and a half), each proof module one to three, `CpuProofs` eight.
