# udisk in TLA+

udisk is a UNIBUS disk controller: a quad-width board on which a CPLD handles the
bus handshake, an AT91SAM7 ARM plays the role of an RL11 (or RK11) controller, and a
CompactFlash card or IDE disk holds the packs. A boot loader in the ARM's flash replaces
the firmware over USB, with a tool on a PC. This directory models the CPLD, the firmware,
the loader and the tool, checks the models with TLC and proves theorems about them with
TLAPS.

## Inventory

| Component | Source | State it keeps | Operations | Interacts with |
|---|---|---|---|---|
| CPLD | `cpld/udisk_cpld.v` | one-hot slave (`ustate_s`) and master (`ustate_m`) machines, synchronised MSYN/SSYN/BBSY, `addr_out`, `bus_data_hold`, `assert_pin`, `pass_thru`, `dma_mode`, `cpu_release`, `cpu_int_internal`, pending DMA bits | one clock; the ARM's register reads and writes | UNIBUS, ARM pins |
| ARM/CPLD port | `code/bus.h`, `code/cpld.h`, `code/bus.c` | PIO pins (address, data, RD, WR, direction), shadow `cpld_asserting`, interrupt mask | `bus_read`, `bus_write`, the long and safe variants | main loop and ISR share the pins |
| Register ISR | `code/isr2.c`, `code/main.c`, `code/irq.c`, `code/start.S` | PIO change flag, AIC latch, locals of `cpld_isr` | one bus cycle to a register | CPLD, RL11 registers |
| RL11 personality | `code/rl.c`, `code/rl11.h` | `cs`, `ba`, `da`, `mp[3]`, drives, pending flags, seek timer | register reads and writes (ISR), `rl11_poll`, reset, restart | ISR, UNIBUS master, disk |
| UNIBUS master | `code/unibus.c` | position in a DMA or interrupt sequence | `unibus_dma_buffer`, `unibus_interrupt` | CPLD, arbiter |
| Disk | `code/disk.c` | partition table, sector buffer | `read_disk_block256`, `write_disk_block256`, `disk_setup` | RL11, IDE |
| IDE/CF | `code/ide.c` | the card's status, command and sectors; the busy wait | reset, identify, read and write of a sector | CPLD port, card |
| RK11 personality | `code/rk.c` | RK registers | like the RL11; not in the Makefile | same |
| CLI and USART | `code/cli.c`, `code/usart.c` | input ring, line buffer | commands | everything |
| Boot loader | `loader/main.c`, `usb.c`, `samba.c` | mode of the monitor, banks and events of the USB port, flash | monitor commands; start of the firmware | PC |
| Host tools | `sam7utils/` | step of a command, last answer | a session: connect, read, write, unlock, program, read back | loader |
| | `gfixer/` | files | edits Gerber files | nothing |

The CLI's `restart` command is the only event besides the bus that reaches the RL11
code from outside; the UNIBUS INIT line is compiled out (`main.c:183-191`).

### What is hard here, and what makes each part correct

* **CPLD.** Two state machines share the address and data registers and are advanced
  by three parties that know no common clock. Correct: never both at once; a release
  by the ARM does not wait for a later cycle (one that comes in the very clock in which
  the next cycle begins answers that one: the firmware must not be late); the lines the
  board drives do not move under MSYN or SSYN.
* **Register cycle.** An edge-triggered interrupt is acknowledged at three places
  (CPLD, PIO, AIC) by code that can be overtaken by the next cycle. Correct: every
  cycle is served exactly once, and is answered.
* **Port.** One set of pins, used by the main loop and by the ISR that preempts it.
  Correct: the CPLD sees whole accesses only; the shadow of the write-only assert
  register is right whenever it is used.
* **RL11.** `rl11_poll` and the ISR write the same registers with no lock, and
  `cs |= x` is a load and a store. Correct: the driver's view, a command executed
  once on the drive it names, then ready, then one interrupt.
* **UNIBUS master.** Grants are a daisy chain that this board breaks with a register
  write; arbitration, DMA and interrupt vectors are sequences "by hand". Correct: one
  master at a time, no grant invented, every word at its place, nothing left asserted,
  and every call returns.
* **Disk, IDE.** Two 256-byte blocks to a sector (read, change half, write), a busy
  wait with a limit, an error flag that stays set, a card that works on after the call has
  returned, fails, hangs or is pulled. Correct: a call that returns 0 has done what
  it says to its block and to no other, one that returns -1 says that the card
  failed, every call returns, and a controller that stays in its partitions never
  changes the partition table.
* **Loader and tool.** Commands cross USB through two banks that driver and port fill and
  empty in turn; writes are posted; the line and the power can go at any moment, and the
  next session finds what the last one left. Correct: every word lands once and in
  order, nothing is executed for a later session, the flash holds the file, commands end.

The full list of hazards, each at its line, is `hazards` in `PROJECT.json`.

## Modules

| Module | Models | Composes |
|---|---|---|
| `Cpld` | the registers of `udisk_cpld.v` and one clock edge, `Clk(bus, op)`, as a function of the bus levels and of what the ARM strobes | - |
| `CpldFree` | the CPLD between a bus and an ARM that may do anything | `Cpld` |
| `CpldProofs` | theorems about `CpldFree` | `CpldFree` |
| `HostAccess` | abstract: a register access of a host is served once, atomically, and answered | - |
| `RegisterCycle` | a host's bus cycle, the CPLD, the PIO flag and AIC latch, `cpld_isr` access by access | `Cpld`; implements `HostAccess` |
| `CycleProofs` | theorems about `RegisterCycle` | `RegisterCycle` |
| `PioBus` | the stores of `bus_read`/`bus_write`, the wrappers of `cpld.h`, the interrupt mask, preemption | - |
| `PioProofs` | theorems about `PioBus` | `PioBus` |
| `BusMaster` | `unibus_dma_buffer` and `unibus_interrupt`, arbiter, processor, memory, second board | `Cpld` |
| `MasterProofs` | theorems about `BusMaster` | `BusMaster` |
| `Controller` | abstract: the RL11 through CRDY and its interrupt | - |
| `Rl11` | `rl11_poll`, `cmd_done`, reset, restart, and the register writes that interrupt them | implements `Controller` |
| `Rl11Proofs` | theorems about `Rl11` | `Rl11` |
| `RlTransfer` | the arithmetic of READ, WRITE, WRITECHK | - |
| `TransferProofs` | theorems about `RlTransfer` | `RlTransfer` |
| `BlockStore` | abstract: blocks read and written one call at a time, on a card that may fail | - |
| `Ide` | the card, and the calls of `ide.c` that poll it | - |
| `Disk` | `disk.c`, the partition table, set-up and the CLI's commands to the card | `Ide`; implements `BlockStore` |
| `DiskProofs` | theorems about `Disk` | `Disk` |
| `RemoteMemory` | abstract: a cell of memory behind a line that may fail | - |
| `Samba` | the loader's monitor and the chip: RAM, flash and its controller | - |
| `Usb` | the loader's USB driver and main loop, the device port | `Samba` |
| `Loader` | a session of sam7utils, the line and the power | `Usb`; implements `RemoteMemory` |
| `LoaderProofs` | theorems about `Loader` | `Loader` |

### How state and actions correspond to the code

`Cpld` keeps the Verilog names: `ustate_s` and `ustate_m` are the sets of the bits
that are set in the two shift registers, `SS(i)` and `MS(i)` test one; one `always`
block is one `...Next` operator, and `Clk` is the edge that updates all. `assert_pin`
and `pass_thru` are sets of names. The ARM's strobe is an operation (`Rd`, `Wr`,
`NoOp`) that the CPLD sees in the clock of its edge.

In `RegisterCycle` and `BusMaster` the ARM's place in the C code is the string in `isr`
or `pc`, named for the access that comes next; `Access(at, op, next)` is one access.
`Tick` is a clock without an access, and `lag` keeps at least `ClocksPerAccess` clocks
between two accesses (the CPLD runs at 48 MHz and an access takes more than ten
clocks; three in the runs of `RegisterCycle` and one in that of `BusMaster` are less than
that, so the models allow more interleavings than the hardware).

In `PioBus` an access is a sequence of stores (`Stores`), the stack of frames is what
the ARM executes, and an interrupt may come before any store while `masked` is false.

In `Rl11` one access of the ISR is one step, because the ISR runs to its end with
interrupts disabled; `rl11_poll` is split at every point where an ISR in between
makes a difference: `poll` is the place, `r` the copy of `cs` in a register between
the load and the store of `cs |= x`. A reset is three steps (flags, registers, drives),
for the same reason. Word counts are in sectors and BA is left out; `RlTransfer` has
both, with the widths of `short`, `u_char` and `u_short` as constants, so that every
wrap happens at a size TLC can enumerate. A DATI of CS, as a driver polls it, is answered
from `cs` as it is by the short circuit of `cpld_isr` and changes nothing, so it is no
action. The read of a DATIP, or of CS at another address of the window, calls
`update_cs` (`ReadCs`); it may fall anywhere, in `rl_polite` too. The model starts where
`main` enables interrupts, before the drives are online (`Boot`).

`Ide` has the card and the driver side by side. `hd` is the call of the driver and the step
it is at (`pre` and `wait` are the two busy waits, before and after the command), `count`
the local of `hd_busy_wait`. The card works by itself: `command` is what it is at, and
a write is `COMMIT` from the last word until the card is ready again, which may be after
the driver has returned, since `LastStatus` does not wait; `store` changes only then. A
sector is a pair of halves. The card refuses a sector that it does not have by ERROR, the
only bit of the status that the driver looks at: a card that sets nothing but `WRITE_FAULT`
(`ide.h:10`) would be taken for one that succeeded, and is left out. `Disk` keeps the names of
`disk.c`; `pc` says which of its calls waits for the driver. The controllers ask for any
block of any unit, since nothing on the way looks at the size or the presence of a
partition; `strayed` remembers that they wrote to one outside. The blocks of `BlockStore`
are the half sectors of the card, and its content is what the sectors will be once the
card has done what it took (`Committed`), and `durable` what they are now; a failure may
put the first back to the second, and no more.

`Samba` has a command as a record and an answer as a sequence of packets: a line with
or without prompt in the interactive mode, the raw words in the other. `Usb` is the
driver: `port`, `event`, `bank`, `rx` and `tx` are the device port, and `pc` is the loop
that the firmware waits in (`poll`, `read`, `samba`, `write`), all of which look for
events by `usb_isconfigured`. `Loader` has the tool: `at` is the step of its command and
the page and word, `Command` what the step sends, `AfterPost` and `AfterAnswer` what
follows. The lock bits of the flash's status are the set `locks`, and `Shifted` is
`val >>= 1` on it.

Operators whose comment begins with "Mutant:" are deliberate errors. They stand before
the definition they replace in a mutation run, and nothing uses them otherwise.

## Runs

| Run | Question | Outcome |
|---|---|---|
| `cpld_free` | Can any bus or firmware confuse the CPLD? | pass |
| `cycle_patient` | Is each register cycle served once and answered, by a patient host? | pass |
| `cycle_fast` | And by any host? | `EveryCycleAnswered` violated |
| `pio_masked` | Can main loop and ISR spoil each other's accesses? | pass |
| `pio_tail` | Also at the one access that is not masked? | `StrobesIntact` violated |
| `master` | Do DMA and interrupts keep the rules of the bus, and end? | pass |
| `rl_polite` | Does the firmware implement the RL11 that a driver relies on? | pass |
| `rl_restart` | Can any host, or an operator, leave it busy for ever? | pass, READ NO HEADER apart |
| `transfer` | Is the arithmetic right where the driver stays on a track? | pass |
| `rl_residue` | Is the rest of a short block zeroed? | `ResidueZeroed` violated |
| `disk` | Can the controllers rely on the blocks, whatever the card does and whichever block they ask for? | pass |
| `loader` | Does a session program what it was told to, unless the line or the power cut it short? | pass |

Every property of a passing run has a mutant of the code that it catches
(`mutants` in `PROJECT.json`).

### Bounds

* `cpld_free`: two data words, two windows of two addresses, every level of every
  line, the strobes the state machines read. The machines look at the address only
  through the matcher, so one address inside and one outside the window suffice.
* `cycle_*`: a window of eight words of which `cpld_isr` tells four apart, so that CS and one
  more register appear twice (as at offset 020 of the board), with a hole, and a word of
  memory; the high and low halves of the address differ in it.
* `pio_*`: two data bits, BBSY and another; four addresses whose bits overlap, so that a
  cleared bit turns one register into another; one or two accesses per ISR.
* `master`: a buffer of two words, which takes the loop, the second arbitration and
  the address increment; three words of memory, so that the read past the buffer
  stays in memory; two different words to write and a third in memory.
* `rl_polite`, `rl_restart`: two drives, two cylinders, seeks of two passes (one that
  does not end and one that does), counts of two sectors on tracks of one, so that
  transfers are cut short. A second seek, or a command in between, needs no more.
  In `rl_polite` the host reads MP too, and WRITECHK stands for the transfers: it does what
  a READ does and sets an error in between. `rl_restart` allows one restart; it has one disk
  address and no MP, because the question does not depend on them.
* `transfer`: words of 6 bits, characters of 4, blocks of 4 words and tracks of 3 sectors;
  all 64 word counts; addresses below, at and above each carry. The sector field is
  wider than the track as in the code (64 and 40). Deadlock is not checked: a transfer
  ends.
* `disk`: a card of three sectors, with a table and two partitions of one sector or without
  a table. Blocks 1 and 2 of a unit are an odd and an even half: block 1 is in the
  partition, or in the sector of the table as long as the unit has none; block 2 is in the
  other unit's partition, behind the card, or in the sector after the table. Old data are one
  value and written ones another, so that old, new and neighbouring data differ. The
  operator shows sector 1 or the identification. The limit of the
  busy wait is three rounds: none busy, one, and out of time. Card failures, pulls and
  operator commands are not bounded.
* `loader`: two pages of two words that differ, each page a lock region; two values and the two of
  erased and spoilt flash. Two words are what both banks hold, and two pages take every
  step of the loops once as the first and once as the last. Bus resets, power cycles and
  sessions are not bounded. `Chips` is a flash without locks that takes its time, and two
  that are ready before the next command comes: one with region 0 locked and a GPNVM bit
  set, one with both regions locked. Others fail, see the known defects. A flash that is
  both locked and slow is hardly met: the loader's code is fetched from the same flash and
  stands still while that is programmed.

### Assumptions about the environment

Four constants say what the other side is assumed to do. They are hypotheses about
the PDP-11 and the card, and what happens without them was tried:

* `PatientHost` (`RegisterCycle`): a host's next cycle to the board comes after
  `cpld_isr` has returned. A processor needs microseconds between two cycles to one
  device and the tail of the ISR is about one; nothing enforces it, and `cycle_fast`
  shows what happens otherwise.
* `PoliteHost` (`Rl11`): the driver waits for CRDY, and for its interrupt if it enabled
  it, before it writes a register or reads MP, as RL11 drivers do; and it comes after the
  start-up. Until `rl11_poll` has brought the drives online and reset the registers
  (`main.c:257-267`, `rl.c:539-544`) CRDY is set as if the controller were ready, and a
  command given then is lost. `rl_restart` drops both.
* `Prompt` (`BusMaster`): the second board, the slave that a cycle addressed and the
  processor that waits for our register react within one access of the ARM. With
  `"device"` left out `OneMaster` fails: a grant that was passed on just before
  `PASS_THRU` was written is still high when `unibus.c:41` tests its level, and two
  boards take the bus (`docs/spec.txt:137` expects a disconnected grant to keep the
  others off). With `"slave"` left out `BufferMoved` fails: `unibus.c:57` waits for no
  BBSY but, unlike the sequence in `udisk_cpld.v:225-227`, not for no SSYN, and takes
  the SSYN of the cycle before for its own. With `"cpu"` left out `CallsReturn` fails: a
  cycle to our register that holds BBSY waits for an ISR that is masked from SACK on.
* `PromptCard` (`Ide`): a card that answers at all does so before the busy wait gives up
  (500000 polls). Without it `ImplementsBlockStore` fails, see below.

`Loader` has no constant for these: the operator reads the flash back when it is at rest
(`Begin`; nothing in the tool waits for the last page), the requests that follow a bus
reset come when the loader is back in its main loop (`SetConfiguration`; they come
milliseconds later), the tool ends with its line and is not killed otherwise, the file is whole pages, a
command is one packet (all are below 64 bytes) and the update of an endpoint's register
is one step. The pauses of 2 ms (`io.h:37`) are left out, so that commands may follow each
other as closely as the banks allow.

### Known defects without a run of their own

The three runs that expect a violation show three. The others below were found in the
same way, by a configuration or a property that fails; the runs avoid them as said.

* `isr2.c:123`: enabling interrupts on a ready controller gives none, because `cs` already
  has the new IE (`WriteCs` has the test as it stands).
* `rl.c:420`: a sector field of 41 to 63 wraps `max_sectors`, and the transfer runs
  into other tracks. `StaysOnTrack` fails with a `StartDa` beyond the track.
* `rl.c:426`: a word count over 32767 is negative in `wlen`; nothing is moved, and the
  driver gets OPI without the CS_ERR that summarises it. `ShortMeansOpi` says so.
* `rl.c:390`, `disk.c:48`, `:66`: nothing checks that the unit is there and the block in its
  partition (`disk_part_valid` is only asked when drives come online). Block 0 of a unit
  without a partition is the sector of the table, and a write puts its data there:
  `TableKept` without `~strayed` fails. A block behind the card is refused with ERROR, which
  stays set, so that every later call fails before it gives a command (`ide.c:210`), until
  the operator resets the card.
* `disk.c:69`: with `PromptCard` FALSE a read that timed out is followed by a write that
  succeeds, and the other half of the sector is lost.
* `cmd.c:598` (also 375, 391): `while(!val & 0x1)` is `(!val) & 1`. With a lock bit, a GPNVM
  bit or SECURITY set and a flash that takes its time the words of a page are lost, and
  `FlashHoldsFile` fails. A flash without any hides it, because FRDY is then the only bit
  (`Waits`).
* `io.h:82`, `sam7utils/samba.c:354`: a line that is hung up reads as 0 bytes, which is not
  `< 0`: a command whose last answer is lost that way ends without an error, `locks` or a page
  read back being whatever was in memory (`SessionLost`). `EndsAsAsked` without `at # Off`
  fails. `main.c:99` and `:105` do not look at the result and go on with the next command.
* `cmd.c:399`: `val` is read again in the loop that shifts it. With three pages and
  `Chips` locked in {1, 2}, `UnlocksAll` fails: region 2 stays locked.
* `loader/usb.c:177`: a bus reset puts the port back to bank 0 and leaves
  `currentRcvBank`. `BanksAgree` without `~replugged`, and `CommandsEnd` without `Misbanked`,
  fail: plugged in again after an odd number of commands, the loader does not answer
  until the power goes.

`BusMaster` also shows, by inspection of its states, that a DMA read runs one master
cycle past the buffer: the access that samples a word starts the next cycle. At the
end of memory nothing answers it, and the wait of `unibus.c:96` has no timeout; the
memory of the run has a word there.

### Fairness

* `Tick` (weak): the CPLD's clock runs.
* `IsrStep`/`Main`/`Serve`: the ARM executes. Strong for `Main` and `Serve`, because a step
  of theirs is enabled in every `ClocksPerAccess`-th clock and disabled by an access of
  the other, and because a loop that polls a line sees it in one of its levels
  only if it is polled for ever; the ARM polls without end.
* `Pass` (weak): `main` calls `controller_poll` for ever.
* `GrantNpg`, `EndGrant`, `CpuGoesOn`, `Slave`, `DevGoesOn` (weak): the arbiter answers, a master
  ends its cycle, memory answers. `GrantBg5` (strong): the processor's priority falls
  below 5 again and again, between instructions.
* `MainLoop` of `Disk` (weak): the main loop runs. `CardAnswers` (weak): a card that has not
  hung or failed ends what it is at. `CallsReturn` needs the second in the run, where
  `PromptCard` ties the last poll to the card's answer; the limit of the busy wait alone
  ends the calls on a card that has hung.
* `Board`, `Flash` of `Loader` (weak): the loader's loop runs and the flash gets ready;
  `Arrive` (weak): the PC polls the line; `Post`, `Ask`, `io_read` (weak): the tool goes on with a
  command it has begun.
* No fairness is assumed of a host that starts something (`CpuStarts`, `DevAsks`, `Host`,
  `HostAsks`), of `Call`, of `Restart`, of what the operator does to the card or with the
  tool, of a card that fails, or of line and power, bad or good.

## Proofs

A theorem holds for every value of the constants that satisfies the module's assumption
(`...Assumption`, which TLC evaluates) and the hypotheses that the theorem names. The
argument is the same everywhere: an inductive invariant, first checked by TLC on the run's
instance, one lemma for each action of the model, and the property as its consequence. The
safety properties of a run are seldom inductive; what each invariant adds is said here.

**`CpldProofs`**: for all word sizes, address spaces, windows and sets of strobes and levels.
Because the environment of `CpldFree` is free, the results hold in every composition.

* `TypeCorrect`: `TypeOK` is inductive. The work is in `AddrRange`: each way of loading
  `addr_out` (bus, increment, either half) stays within the 18 bits.
* `OneMachineAlways`: each shift register is one-hot because it only starts from empty
  (`ShiftOneHot`); the slave starts only with the master idle and `dma_mode` clear, the
  master only with the slave idle and `dma_mode` set. In one clock both cannot start
  since they disagree on `dma_mode`; that is why the starting conditions, and not the
  states alone, carry the argument.
* `ReleaseNeverInherited` (an action property) rests on the invariant `ReleaseShortLived`, which
  mentions `cpu_edge`: outside SS1 and SS2 `cpu_release` is set only in the clock that saw the
  ARM's strobe, and the next clock, which cannot see another, clears it.
* `DrivenAlwaysStable`: with `OneMachine`, each thing that loads `addr_out` or
  `bus_data_hold` needs a state of a machine in which it does not drive MSYN or SSYN.

**`CycleProofs`**: for all register maps, windows and addresses, with `Patient`: `PatientHost`
and two clocks between accesses, the time a release needs to cross the slave machine.
`CycleInv` says where `cpld_isr` is relative to the cycle. Its parts: `PlaceInv` (before
the service the CPLD waits in SS1 for this cycle, afterwards the release is on its
way or through), `PinInv` (the interrupt's flip-flop, the PIO and the AIC agree when no ISR
runs), `HalfInv` (the second half of a DATIP may have begun already), `LocalsInv` (what
is in the ISR's variables is of this cycle and no other) and `ValueInv` (what the board
drives is what the service returned). From it:

* `CycleTypeCorrect`, `SsynAlwaysServed`, `InterruptNeverLost`: the three invariants of
  `cycle_patient`.
* `AccessSimulated`: every clock and every access is a step or a stutter of `HostAccess`, so
  a register access takes effect once, atomically, with its own address and data. This
  is the safety part of `ServesExactlyOnce`; its fairness stays with TLC.

Two conjuncts of `CycleAssumption` came out of the proof: an idle bus (address 0) must
not read as the board's, and a window must not straddle the low half of the address
that `isr2.c` reads by itself. Both are true of 0774400 and 16 bits.

**`PioProofs`**: for all register codes, data bits and lengths of the ISR, with
`Unprotected = FALSE`, that is, without the one access of `pio_tail`.
`PioTypeCorrect`, `StrobesAlwaysIntact`, `NeverCollides`, `ShadowAlwaysAgrees`. A frame of the
stack is a list of accesses and the place in the first one, so the invariant must first
say which lists there are (`Open`: interrupts are enabled; `Closed`: they are disabled) and that
the mask goes with them (`MainInv`); that the ISR stands only on a main loop that is
between two accesses (`IsrInv`); and what the pins are before each store (`PinInv`).
ASSERT is another register than those that are written with interrupts enabled, and
BBSY another line than the second one, or the shadow would be wrong (`PioAssumption`).

**`MasterProofs`**: for all buffers, memories, address splits and windows.

* `GrantNeverForged` needs `Timely` only (the second board and the slave are prompt and there
  is a clock between two accesses): the assert bit of a grant is set exactly while its
  pass-through may be off (`ArmInv`), so what the board passes on and what it holds
  back never add up to a grant of its own.
* `OneMasterAlways`, `MasterTypeCorrect`, `BufferAlwaysMoved`, `VectorAlwaysTaken`,
  `AlwaysCleanAfter`, and the action property `WordAlwaysInPlace` also need `Placed`: buffer and
  the word after it are in memory, memory is not in the board's window. `MasterInv`
  gives for each access what the ARM has written (`ArmInv`), who may have a grant or
  the bus (`BusInv`), where the master machine can be (`MachineInv`), that the processor's
  cycle to the board is over (`SlaveInv`), whose SSYN is on the bus (`SsynInv`), how buffer,
  CPLD and memory go together (`BufferInv`, `WordInv`), and from which access on the
  processor has taken the vector (`TookInv`).

**`Rl11Proofs`**: for all numbers of drives, geometries, seek times, functions and values.

* `BusyHasWorkAlways`: for any host and any number of restarts. `BusyHasWork` is not
  inductive: between the load of CS and its store a write of the host can be undone,
  and the function that is then executed need not be the one in `cs`. `WorkInv` adds what
  holds at those three steps: where the copy `r` and `cs` disagree, the write that made
  them disagree has left a command pending, or set CRDY.
* The others are with `PoliteHost` and no restart. `CopyIsCurrentAlways` and
  `SeekIsSelectedAlways` follow from `PoliteInv`: a waiting command, a command in hand, a
  waiting seek and a reset exclude each other, and CRDY tells them apart; so a host that
  writes only while CRDY is set (`PoliteHostStep`) never meets a copy that is about to be
  stored. `RlTypeCorrect` adds the types of drives and locals; `ReadsBackPositionAlways` is
  the action property about MP.
* `ControllerSimulated`: every step is a step or a stutter of `Controller` (the safety part of
  `ImplementsController`). `ControllerInv` says which of the abstract steps have happened
  at each place of `rl11_poll`.

**`TransferProofs`**: for all widths and sizes, with `SectorOfTrack`: the sectors of a track fit
a `u_char` and the host names a sector of the track (see below for what a host does
that does not). `TransferTypeCorrect`, `AddressAlwaysFollows`, `WordsAlwaysCopied`,
`ShortAlwaysOpi`, `AlwaysStaysOnTrack`. `TransferInv` says after each block how many words
have been moved, where each is, and what the registers are, modulo their widths; its part
`StatusInv`, when OPI and CS_ERR are set and that only a count that is `Refused` leaves `wlen`
negative.

**`DiskProofs`**: for all sizes of card, tables and limits of the busy wait, for any unit and
block that a controller asks for, and whatever the card does.

* `DiskTypeCorrect`: `DiskInv` is inductive. It says which sector the driver's command in hand
  is for (`CallInv`) and that a read that has ended well has read what is still on the
  card (`CardInv`).
* `TableKeptAlways` (an action property), with `Partitioned`: no partition begins at the sector of
  the table. `TableInv` says, for as long as no write has strayed, that the write in hand is for a
  block of a partition, hence not for the table (`InsideMissesTable`), and that on a card
  without a table no buffer of a write holds one, so that none can appear.
* `BlockStoreImplemented`, with `PromptCard`: every step is a step or a stutter of `BlockStore`.
  No assumption on the table is needed, because the abstract blocks are the half sectors. As
  `BlockStore` has no fairness this is all of `ImplementsBlockStore`.

**`LoaderProofs`**: for all flashes, files and values, and any failures of line and power, with
`NoneIsApart`: `None` is no value, packet or command. `LoaderInv` follows the tool's command
through the port: `SessionInv` says that the tool rests, or waits for a command that is
the last one on its way (`AskedLast`), or for an answer whose packets add up to what it
expects (`Answering`); `BankInv` which bank is filled, read and free (`InSync`), and how the two
can part company after a bus reset (`Lost`); `ModeInv` that the monitor is interactive
exactly where the tool expects it.

* `LoaderTypeCorrect`: `LoaderTypeOK`. An answer that is too long would show in `Len(inq)`.
* `BanksAlwaysAgree`: `BanksAgree` follows from `InSync`.
* `RemoteMemoryImplemented`: every step is a step or a stutter of `RemoteMemory`, which has no
  fairness: this is all of `ImplementsRemoteMemory`. The queue of the abstract memory is
  what the three places for a command hold of the RAM commands; `QueueGiven`, `QueueMoved` and
  `QueueTaken` say that a packet enters last, that the banks keep the order, and that the
  monitor takes the first.
* `AlwaysEndsAsAsked`: `EndsAsAsked`, for flashes that are `Programmable`: no lock or GPNVM bit is set
  where the flash takes its time, and at most one region besides 0 is locked where it does
  not. Beyond these the two defects of `cmd.c` (598 and 399, with TLC's counterexamples above)
  bite, so the theorem does not say that they do no harm. Every
  flash of `MCChips` is `Programmable`. The file, the numbers of pages and words, and what the
  line and the power do before are arbitrary; once the line has hung up under the tool
  (`at = Off`) nothing is claimed, as a command can then end without an error and without its
  answer. Writes are posted, so nothing can be said of the chip
  while they are under way: the proof is about `Final`, what latch, flash and locks will be
  when the flash is ready and the commands in the port are executed. A fetch, an
  execution and the end of a flash operation leave `Final` alone (`FinalMoved`,
  `FinalTaken`, `FinishSettled`); a command that is sent changes it at once (`SendFinal`).
  That needs `FlowInv` and `ReadyInv`: where the flash takes its time, no word and no
  command reaches it before the tool has read FRDY. `StatusInv` says that the status the
  tool is getting is still true when it gets it, because it is sent after the posts and waited
  for; `ProgramInv` and `UnlockInv` how far the tool is in file and locks, `ReadInv`
  that the words of a page, wherever they are between chip and tool, are those of the flash.

Only model-checked: `EveryCycleAnswered`, `CallsReturn` (twice), `CommandsEnd`, liveness of
`Rl11` and the fairness of the refinements of `HostAccess` and `Controller`, because liveness
under fairness is out of the prover's reach.

## Not modelled

* Firmware: the RK11 personality (`rk.c`, `isr1.c`), which the Makefile does not build; the
  line editor, the hardware tests, the dumps, the boot images (`boots.c`, data) and
  `printf`; start-up code and clocks. The write-protect branch of `rl11_poll` (nothing
  sets `write_prot`). Byte writes as inputs of their own: to an odd address they change
  nothing, because the switch of `isr2.c:107` looks at bit 0 too; to an even one they
  store a word that is covered by the word writes.
* CPLD: the second matcher, CF strobes, identification, LED. Electrical matters: skew,
  metastability (inputs are sampled once by the clock, as the Verilog says).
* Between `main.c:257` and `:261` the matcher runs and grants are not passed on:
  `BusMaster` starts after it.
* Loader: its CLI and `flash.c`, S, G and the interactive R. Tool: `flash`, which
  depends on S, `boot_from_flash`, `lock_regions` and the Mac and Windows lines. `gfixer`.
  Board, traces, PDP-11 programs.

More than a third of the repository's lines of C are the register definitions of the
AT91SAM7 (four headers); with start-up, `printf`, boot images and operator tools the larger
part of the code has no state that a property could be about.

Noted while reading, at one line each and with no property that the line could break: the
ISR leaves without `CPU_RELEASE` when the high address bits differ (`isr2.c:52`, dead as
long as the address holds) and puts an uninitialised word on the bus for an offset that is
no register (`:58`); `cmd_done` sets DRDY whatever the drive (`rl.c:266`); a transfer takes the
head for the status from bit 4 of DA, where a seek has it (`rl.c:403`); a packet that arrives while the
endpoint's register is updated can lose its flag (`usb.c:229`), and `usb_sendzlp` waits
without looking for a bus reset (`usb.c:320`); a tool that is killed while it waits leaves its
answer to the next (`io.h:49`), which also stores a zero past the response (`io.h:88`).

## Plan

1. The console: characters that arrive while a command runs.
2. The requests to endpoint 0 one by one, with `usb_sendzlp` and its wait.
