# A verification project for kudzu

kudzu detects hardware at boot.  It probes every bus, compares what it finds
with the list the last boot left in `/etc/sysconfig/hwconf`, removes the
configuration of hardware that is gone, adds that of hardware that is new, and
writes the list again.  It is a sequential C program, but one that runs while
the machine boots: it can be killed, and the machine reset, between any two of
its system calls; what it wrote at one boot is what it reads at the next; and
hardware changes in between.  Its loops walk linked lists that they, or the
functions they call, are changing.  On the serial ports it talks to devices that
answer late or not at all, and to learn of the monitor it runs the video BIOS, in
an emulator of its own.

This directory holds TLA+ modules that model the program, configurations that
model-check them with TLC, and proofs that TLAPS checks.  `PROJECT.json` lists
the components, the runs, the theorems, the hazards each property is for, the
findings, and for every definition the lines of the source it stands for.

## Inventory

| Part | Source | State | Operations | Interacts with |
|---|---|---|---|---|
| modprobe.conf editing | `modules.c` | `lines` with NULL slots, `madebackup`, the file and its `~` backup | read, join continued lines, add/remove a line, an alias, options, look an alias up, write | called by `hwconf.c`, `module_upgrade.c` |
| Device lists | `kudzu.c` | linked list through `next`, NULL-terminated arrays, hwconf | `listCompare`, `listRemove`, `readDevices`, `writeDevices` | `hwconf.c`, every bus |
| Device comparison | `kudzu.c`, one function per bus | none | `compareDevice` | the lists |
| Network device names | `kudzu.c` | `device` field of each network device, the kernel's names, ifcfg files | `sortNetDevices`, `matchNetDevices` | `probeDevices`, `hwconf.c` |
| Configuration of a device | `hwconf.c` | `currentDevs`, modprobe.conf | `isConfigurable`, `isConfigured`, `configure`, `unconfigure`, `configMenu` | `modules.c`, the lists |
| Main program | `hwconf.c` | `storedDevs`, `currentDevs`, hwconf | `main` | all of the above |
| Probing | `kudzu.c` | the device list, the console log level | `probeDevices`, `filterNetDevices`, `fbProbe` | the bus probes |
| Bus probes | `pci.c`, `usb.c`, `isapnp.c`, `ide.c`, `scsi.c`, ... | tables of drivers | one probe per bus | the kernel |
| Serial probing | `serial.c` | the attributes of a port, a buffer, what is on the line | Plug and Play sequences, ATI9, legacy mice and modems, parsing of a name | the port, `probeDevices` |
| x86 emulator | `ddcprobe/x86emu`, `ddcprobe/thunk.c` | registers, flags, modes, 1 MB of memory | one handler per operation code, interrupts, `X86EMU_exec`, the call of an interrupt | the DDC probe, the video BIOS |
| DDC probe | `ddcprobe/vbe.c`, `common.c`, `lrmi.c` | none | asks the video BIOS about the card and the monitor | the emulator or virtual 8086 mode |
| inittab and securetty | `hwconf.c` | `/etc/inittab`, `/etc/inittab-`, `/etc/securetty` | `checkInittab`, `rewriteInittab`, `rewriteSecuretty` | `configure`, `isConfigured` |
| Renaming of modules | `module_upgrade.c` | a table of renamed modules, modprobe.conf, hwconf | rewrite both | `modules.c`, `kudzu.c` |
| Alias tables | `alias.c`, `modules.c` | a tree of patterns | read, match | `pci.c`, `usb.c`, `pcmcia.c` |

The parts call each other; nothing runs concurrently within kudzu.  They share
the linked lists, the global `currentDevs`, and two files: modprobe.conf, which
is read and written anew for every device that is configured or unconfigured,
and hwconf, which is read at the start of a run and written at its end.

What is hard, and what makes each part correct:

- **modprobe.conf editing.**  A file that belongs to the administrator is
  replaced by a rename and a line by line write whose failures nobody looks at.
  Correct: the administrator's lines are always in the file or in its backup;
  what was written reads back as it was meant.
- **Device lists.**  Two nested walks unlink devices from the lists they walk.
  Correct: each device is paired at most once, no pair is left, and exactly what
  was not paired is returned, in order.
- **Network device names.**  Three passes hand names out and take them from
  others.  Correct: no name is given twice, nor taken from a device that has it
  by right; the passes end.
- **Configuration.**  Devices are taken off the lists by *comparing equal*,
  while the lists are walked; each device's lines are edited in a file of their
  own reading.  Correct: exactly what is gone is unconfigured and what is new
  and wanted is configured; no removal undoes what another device needs.
- **inittab and securetty.**  A file without which the machine does not boot is
  unlinked and replaced, line by line decisions depend on earlier lines.  Correct:
  no line of the administrator is lost wherever it stops; a serial console has a
  getty and may be logged in to.
- **Probing and serial probing.**  Both return from the middle, and what a device
  says is told apart by pauses.  Correct: each device that answers in time is found,
  as what it is; nothing of one port is taken for another's; the console's log
  level and the ports are left as they were; the probe ends.
- **x86 emulator.**  Some four hundred handlers, most written out for each width.
  Correct: they agree with each other, as they would on a processor: what is
  multiplied can be divided again, what is compared decides a jump, what is pushed
  is popped, a repetition covers what it should, and what one instruction leaves in
  the mode bits does not reach the next.
- **Main program.**  Its state is what is left on disk from run to run.
  Correct: after a completed run the machine is configured, nothing is left of
  what is gone, hwconf describes the machine, and a run on an unchanged machine
  changes nothing, even when an earlier run was cut short.

## Modules

`ConfModules` holds the operations of `modules.c` on the lines in memory.  A
line is a record: its kind (`alias`, `options`, `remove`, or `user` for what
only the administrator writes), the name it is about, a value, whether it ends
in a backslash, and the lines joined to it.  A name is a tuple, so that
`<<"snd-card-", 0>>` begins with `"snd-card-"` as the text does; `isAliased()`
looks at such prefixes.  NIL is an empty slot, or no file.  `BUF` is the line
that `addLine()` keeps by reference when it is given a buffer.

`ConfFile` is the file on disk: one action per system call or loop step of
`readConfModules()` and `writeConfModules()`, sessions that follow each other,
kills between any two steps, and calls that fail.  `readConfModules()` returns NULL
both when there is no file and when it cannot open or read the one that is there, and
`hwconf.c` goes on with no lines in either case: `ReadFails` is the second.  Three
variables record what the properties speak of: `unread`, that the lines in hand come
from such a failure; `incomplete`, that a write was cut short or made from such lines;
`lost`, that a later write then made that file the backup.  `MCConfFile` gives the files
to start from.  `ConfFileProofs` holds the proofs.

`DeviceMatching` says what `listCompare()` promises: devices are paired while
two compare equal, and the rest is returned.  `ListCompare` is the function, a
step per assignment of its loops, with links, heads, `prev` pointers and the
flag `notfound`; it implements `DeviceMatching`.  `Pairing` says which pairs it
makes, as a function; `ListCompare` checks that, and `Kudzu` uses it in place of
the loops.  `MCListCompare` and `ListCompareProofs` go with it.

`NetDevices` is `sortNetDevices()`, which relinks the list so that devices of a
driver are neighbours, and then `matchNetDevices()`: pass 1 gives names by
hardware address, pass 2 by driver, pass 4 numbers what is left (the source has
no pass 3).  `MCNetDevices` and `NetDevicesProofs` go with it.

`Devices` holds `struct device`, the comparison of each bus, and what `hwconf.c`
decides and edits for one device.  It has no variables.

`ConfigMenu` is `configMenu()`: the walk of the old list with its inner search,
the walk of the new list, and the two loops that unconfigure and configure; the
actions are named after what a turn of a loop does (`DropOld`, `KeepDetached`,
`OnlyDriver`, `KeepNew`, ...).  `unconfigure()` and `configure()` read the file
(`ReadConf`), edit it (`UnconfigureDevice`, `ConfigureDevice`) and write it
(`Rename`, `Write`).  The lists are arrays of links, because a walk goes on from
the `next` field of a device that was taken off.  `MCConfigMenu` gives the lists;
the proofs are in `KudzuProofs`.

`Kudzu` extends `ConfigMenu` with `main()`: `Boot` probes the machine, reads
hwconf, compares, and makes the lists; `Menu` is any step of `configMenu()`;
`OpenDevices`, `CloseDevices` and `NoDevices` are `writeDevices()`; `Crash` ends
a run anywhere.  `Segfault` is a run that stops on a hwconf it cannot read.
`MCKudzu` gives the machines, `KudzuProofs` holds the proofs of both modules.

`Inittab` is what `configure()` does for a console.  A line of inittab is a record:
its id, what it runs, the # in front of it, the terminal, the speed.
`CheckInittab` is `checkInittab()`, `Rewritten` what becomes of a line, and one
action each is the opening, a turn of the loop, the close, the unlink, the rename
and the edit of securetty.  `MCInittab` gives the files;
`InittabProofs` holds the proofs.

`SerialPnp` is `parse_pnp_string()` and what `serialProbe()` reads off its result,
as operators on sequences of bytes: `Up` wraps as an unsigned char does, and `StrPBrk`
stops at a 0.  An extension after the first whose closing byte follows at once has a
length below zero in the code, which hands it to `memcpy()`; the model goes on with an
empty field (`serial.c:774`).  `Serial` is `serialProbe()`, a byte at a time:
opening a port, the sequences that drop and raise its lines, prodding with AT, the
waits, each of which ends with a byte, a timeout or a failed call, and the searches
for legacy mice and modems.  The device is in the model too: what it sends when its
lines come up, after AT and after ATI9.  `ProbeDevices` extends it with
`probeDevices()` around it: the log level, the loop over the buses, the filter of
network devices, the two ways out.  The probe of another bus is one step.
`MCSerial` gives the devices and the machines.

The emulator is a function of a machine, a record of registers, segments, flags,
modes and memory.  `X86Decode` has the registers, memory, ModRM and SIB bytes and
the stack; `X86Prims` the arithmetic of `prim_ops.c`; `X86Data` and `X86Ops` the
handlers of `ops.c` and `fpu.c`, `X86Ops2` those of the second table, under the
names they have in the source; handlers that differ only in the width or the
register share one operator with that as a parameter.  `X86emu` has the two tables,
the loop of `X86EMU_exec()` and the interrupts, one action per instruction, and the
call of `thunk.c` around it.  `MCX86emu` gives the code that is called,
`X86emuProofs` holds the proofs.

`Inductions` has what the proofs need of induction: a set with 0 and the successor of
each of its members has every natural number, a set of numbers has a least member, and
a recursive function of so many steps is what its definition says.

`ConfFile` and `Kudzu` model the same write at two grains.  `ConfFile` has every
write and every failure but edits freely; `Kudzu` has one step from the file
that was renamed away to the one that is complete, a crash between the two
leaving any first part of it.  Neither has the reading of hwconf line by line;
`Kudzu` has what comes out of a file that was cut short (`Parts`, `Half`,
`Torn`).  A file cut before the description of its last device counts as one
that cannot be read, which is not so when that device is the only one.

## Runs

Passing:

- `conf_file`: sessions over a file with the administrator's lines, one of them
  twice and one continued, and up to two kills or failed calls anywhere, those of the
  reading included.
  `UserLinesKept`: at every instant the lines are in the file or in the backup,
  unless a write left the file incomplete and another followed it: one that was cut
  short, or one after the file could not be read.  `EditsKeepUserLines`: only such a
  write takes one out of the file.  `LoadsEachLineOnce`,
  `AliasesReadBack`: what `toArray()` keeps, and that holes, duplicates and joined
  lines change no alias on the way to the file and back.
- `list_compare`: all pairs of lists of three devices under all 512 relations
  "compares equal", transitive or not (compareDevice is not, a missing field
  being equal to anything).  `ReturnedAreLeft`, `NoPairLeft`, `PairedOnce`,
  `PairsFirstWithFirst`, the refinement `MatchingSpec`, and termination (`Returns`).
- `net_names`: three Ethernet devices, two names, two drivers, up to two ifcfg
  files; and five devices, any stretch of them network devices.
  `OneDevicePerName`, `NamesGivenAreKept`, `PinnedWhenRenamed`: the names configured
  by address are right in the case the passes were made for.  `SortedByModule` and
  `Returns`.
- `menu_filter`: `configMenu()` on up to three of seven old devices against up to
  three of eight new ones: a driver that changes, a card that goes, Cardbus,
  sound cards with equal ids, a device nobody configures, a driver that is not
  there, a screen, a console, a parallel port card; four modprobe.conf.
  `FilterExact`: which devices are acted on.  `NewIsConfigured`: in the end each
  of them is.  `GoneIsUnconfigured`: in the end no alias is
  left of a device that is gone, whatever the removals and additions before and after
  its own did to the numbers of the sound cards.
  `WalksGoForward`: every walk ends, as it only goes down its list.
- `kudzu_boots`: two lives of a machine.  In one, two network cards, a sound card
  and a disk come and go, down to nothing, boot after boot, with runs with `-b scsi`
  between them and one run cut short anywhere, in the middle of a line of hwconf
  too.  In the other, its devices are hard to tell apart: a bare `eth`, a renamed
  card, a Cardbus card, two equal sound cards, a console.  `MachineConfigured`,
  `AliasesHaveOwners`, `DatabaseDescribes` after each complete run over all buses;
  `QuietWhenUnchanged`: a boot on an unchanged machine touches neither modprobe.conf
  nor its backup, whatever was cut short before.
- `inittab`: serial consoles configured one after the other, with and without a
  video card, over every file made of some of five lines in either order, four
  securettys, and one kill or failed call anywhere.  `LinesKept`: the
  administrator's lines are in inittab, or in inittab- while there is none.
  `ConsoleReady`: the console has a getty and is in securetty, and no mingetty is
  left that would fail without a screen.
- `serial_probe`: 23 machines with mice, modems, a printer, a scale that speaks six
  bits, a device that never stops talking and one that answers ERROR; some late, with
  calls that fail, with one device asked for, and with ports to be left alone.
  `FoundUnlessLate`: where nothing was late and nothing failed, exactly the devices
  that are there are found, under their names.  `NothingOfAnotherPort`: whatever was
  late or failed, a name is made of bytes of its own port.  `Restored`: log level and
  ports are as before on every way out.  `Returns`: the probe ends.
- `x86_calls`: some ten thousand calls of BIOS code: every operation code with
  operands of every kind, alone and after prefixes, and short programs at the edges
  of arithmetic, rotation, repetition and the stack.  `FlagsTellOfResult`,
  `CompareAndJump`, `DecimalAdjust`, `DivUndoesMul`, `RotationsAddUp`: what one
  instruction computes is what another, or arithmetic, says of it.  `RepCopiesAll`,
  `RepStopsAtFirst`: repetitions.  `BalancedCodeRestores`: the stack, one of the
  caller's own and one that wraps around its segment included.
  `NoStackSegmentLeft`, `NarrowCodeKeepsHigh`, `FaultHasNoEffect`: what an
  instruction must leave alone.  The first leaves out a machine that followed a null
  pointer, which does not get to `DECODE_CLEAR_SEGOVR()`; the second names what does
  change the upper half of a register without a prefix, MOVZX and MOVSX of a word
  (`Extends`) and the push of a software interrupt that wraps ESP (`Wraps`), as
  `pushw()` counts the whole of it down.

Violated by the code, each against a sentence of the documentation or of a
comment, which `PROJECT.json` quotes under "findings":

- `conf_backup` (`BackupOncePerSession`): the backup is replaced at every write
  of a session, so the second write loses the original.
- `net_unique` (`NamesUnique`): a device is left without a number.
- `kudzu_index` (`MachineConfigured`): a new sound card takes the number, and
  the alias, of the one that was there.
- `kudzu_option` (`SoundHasIndex`): a sound card put in again has no index
  option, because `addLine()` keeps a buffer that is formatted again.

## Where the properties stop

The passing runs leave out, by a premise of the property or by the devices they
are given, some behaviour that the code has and that the models have too:

- A modprobe.conf that is there and cannot be opened or read (`modules.c:122`) is to
  `hwconf.c` as none: the next write renames it to the backup and writes kudzu's lines
  only, and the write after that, be it in the same run, replaces the backup.
  `ConfFile` has it, as `ReadFails`; its properties stop there.
- `ConfigMenu` and `Kudzu` have runs that are cut short, but no call that fails: a
  hwconf that cannot be opened for writing (`kudzu.c:741`) and a full disk are left out.
- When two sound cards go at once, the removal of the first may leave a number without
  an alias before that of the second, whose search then stops too early and leaves its
  alias (`hwconf.c:649`): the premise of `GoneIsUnconfigured`, `SoundGone`.  So does a
  modprobe.conf in which the administrator has left a number out.
- A line continued twice is joined once, and the slot between is the first that
  `addLine()` fills: an alias put there is lost (`modules.c:133`).
- A device that the kernel gave the name an ifcfg file gives it loses it when
  another device of the driver comes first in pass 2 (`kudzu.c:1007`): the
  premise of `PinnedWhenRenamed`.
- When one card gives way to two equal ones with another driver, both are
  ignored (`hwconf.c:724`); the same holds of a card whose vendor's number is two
  above the old one's, as a difference of 2 reads as "only the driver changed"
  (`pci.c:79`), and of any ISA card with another driver (`isapnp.c:82`); and of a card
  replaced by one of the same model with another driver and another address, since
  the driver is compared before the address (`kudzu.c:255`).
- A network card known by its address that is renamed gets no alias under its new
  name when the device that had the name is removed (`kudzu.c:245`): `NamesLast`.
- When one of two sound cards with one driver is removed, the alias and options of the
  other go too, needed or not (`hwconf.c:665`): `MCKudzu` has no such two cards where
  devices keep their names.
- A card that was unconfigured by a run that was then cut short, and is in again
  at the next boot, is not configured (`hwconf.c:974`): `Boot` finds the same machine
  after a run cut short.
- A run that finds nothing unconfigures every device and leaves them in hwconf
  (`kudzu.c:739`); a run with `-b` unconfigures the devices of the other buses
  (`hwconf.c:951`).  The next full run makes up for the second, not for the
  first: `stale`.
- A hwconf cut in the middle of a line stops every later run (`kudzu.c:356`):
  `Segfault`.
- A getty behind `##`, or on ttyS10 when the console is ttyS1, counts as the
  console's in `checkInittab()`, and an inittab without a mingetty gets no getty
  (`hwconf.c:306`): the premises of `ConsoleReady`.  Configuring a second serial
  console takes the getty of the first away (`hwconf.c:349`).
- A getty that is uncommented gets the device and two characters of what follows it
  before its speed, as the length is that of "console" (`hwconf.c:337`): the model
  has it as the speed `"garbled"`, and no property is about it.
- A run that ends between unlink and rename leaves no inittab, and the next finds
  nothing to do (`hwconf.c:354`).
- A mouse that says just M, as the oldest do, is not found (`serial.c:987`), and
  neither is it when the byte was late: `ToBeFound`.
- A silent port may be taken for a mouse, and ten bytes of answer for a modem, as
  both look at bytes nobody wrote (`serial.c:504`, `serial.c:583`): `guessed`.
- A device that pauses within its name may be listed under the beginning of it, or
  under a name put together of two tries (`serial.c:611`): `late`.
- With the console on ttyS1 it is ttyS2 that is left alone (`serial.c:905`).
- With a handler installed, as `thunk.c` does for every interrupt, the handler of a
  divide error is entered again before each instruction (`decode.c:53`): a division
  that faults is followed for one instruction.
- JNL and SETNL have the condition of JL (`ops2.c:133`, `ops2.c:226`):
  `CompareAndJump` leaves them out.  BTS does not set the bit (`ops2.c:2714`); BSF and
  BSR count in the register they may be searching (`ops2.c:2221`); REP and REPNE undo
  a segment override before them (`ops.c:9804`); IMUL of words sets the carry for small
  negative products (`prim_ops.c:2078`), and a product of longs has no upper half
  (`prim_ops.c:2181`), which `DivUndoesMul` leaves out; a long rotated by 32 through the
  carry is shifted by 32 (`prim_ops.c:943`), which C does not define: the model has
  both outcomes, and `RotationsAddUp` is of bytes and words.  The model does what the
  code does, and no property says otherwise.

## Bounds

- `ConfFile`: two faults, so that one may hit the recovery from another; one
  alias and two modules, since edits of different names touch different lines,
  and the files have lines before, between and after those edited.
- `ListCompare`: three devices a side give a first, an inner and a last device
  to take off, and a list that becomes empty while the other is walked.  The
  proofs cover any length.
- `NetDevices`: a name, its rightful owner and two devices that may be given it;
  sorting needs two devices of a driver with another between and one after, so
  five.  All names are of one family; the safety proofs cover any number of
  devices and families.
- `ConfigMenu`: three devices a list, so that the one taken off may be before,
  at or behind the place of the walk.
- `Kudzu`: `maxCrashes` is one run cut short.  Boots are not bounded: the files
  are finite in kind, and TLC visits every sequence of boots.
- `Inittab`: `MaxFaults` is one.  A getty, a mingetty, a protected line, the run level
  and another respawn, each before and after the others, are what the loop tells
  apart.  `Texts` is what the lines of `MCInittab` are made of.  A write that fails
  keeps whole lines; lines are without leading blanks and
  shorter than the buffer, and reading does not fail in the middle of the file.
- `Serial`: a device's `maxLate` is one wait it misses with more to say, `maxFaults` up
  to two failed calls, so that a read fails in both sequences before prodding; both are
  fields of a machine, as only a few machines need them.  Bytes sent when a port is
  opened, and garbage at the wrong speed, are left out, and so is an extension of
  fewer than two bytes in a name; `sysctl()` succeeds.
- `X86emu`: a long has `LongBits` = 24 bits instead of 32, which TLC's integers do not
  hold; three bytes still tell a word from a long.  `MemSize` is the 1 MB the code
  checks for; `MaxSteps` = 16 instructions are more than any of the programs has.
  Memory that was never written is 0 or 255.  ENTER nested deeper than the stack is
  left out.
- Deadlock is not checked for `ListCompare`, `NetDevices`, `ConfigMenu`,
  `ProbeDevices` and `X86emu`: each is a function that returns.

## Fairness

`ListCompare`, `NetDevices` and `ProbeDevices` have weak fairness of the whole
next-state relation.  Each is a function called in the only thread of the program:
while it has not returned it goes on.  The first two wait for nothing; the waits of
`serial.c` are calls of `select()` with a timeout, so that a step is possible
whatever the device does, even one that sends for ever.  Nothing is assumed of the
devices.  `ConfFile`, `Kudzu` and `Inittab` have no fairness and no liveness
properties, since a run may be killed; that the walks of `ConfigMenu` end is stated as
`WalksGoForward`, which needs none, and neither do the properties of `X86emu`, where
code that is called may loop for ever.

## Proofs

The theorems hold for every value of the constants that the named assumptions
allow.  Each rests on an inductive invariant, which TLC was given before it was
proved.

- `ConfFileProofs`: `ConfFileKeepsUserLines`, `EditsKeepTheUserLines`, for every initial
  file without continued lines (`NoContinuation`: a line continued twice is lost, see
  above), every set of aliases and modules, and any number of faults.  The two
  properties say nothing of the lines in memory, nor of how far a loop is; `IInv` adds
  where the administrator's lines are at each point of a session (`Placement`): in the
  file unless it is incomplete or being written, then in the backup until `lost`, and in
  memory unless the file could not be read.  It adds too that
  what was read so far is in memory and what was written so far is in the file, and
  that no line is continued.  Lemmas say of each edit that it keeps `user` lines.
  `ConfFileTypeOK` and `EachLineLoadedOnce` hold for every initial file: `LoadInv` says
  that what the loop of `toArray()` has loaded are the first occurrences of the lines
  it has passed, each once and in order.  `WrittenAliasesReadBack` takes
  `NoContinuation` again.  `ReadBackInv` says that no two slots have the same line
  and that the file is what is written of a first part of the slots; from that the
  aliases are found in the file at places in the order of the slots, so that the
  first line of a name in memory is the first that is read again.
- `ListCompareProofs`: `ListCompareTypeOK`, `ListCompareReturnsTheRest`,
  `ListCompareLeavesNoPair`, `ListComparePairsOnce`, `ListComparePairsFirstWithFirst`,
  and `ListCompareImplementsMatching`, the refinement, for lists of any lengths and
  any relation.  `IInv` says that heads and links chain exactly the devices not
  paired (`Chains`), where `prev1` and `prev2` are in the chains, and what has
  been compared already.  The delicate part is `notfound`, which is stale once
  the second list is empty; then nothing is taken off any more.  `PairInv` ties what
  is left of the second list to the recursive function of `Pairing`, one device of the
  first list after the other; that function is shown to be what it says by an
  induction.
- `NetDevicesProofs`, first part: `NetDevicesTypeOK`, `NetDevicesOneDevicePerName`,
  `NetDevicesNamesKept`, for any number of devices, names, drivers and files.
  The invariant adds that the names in `devicelist` are the ones handed out and
  each has one device, and what pass 4 still may number.  `QsortAssumption` is that
  the network devices come in one stretch, as `probeDevices()` sorts by class first.
- `NetDevicesProofs`, second part: `NetDevicesOrder`, `NetDevicesSortedByModule`,
  `NetDevicesPinnedWhenRenamed`.  `OrderInv` says that there is a permutation the links
  run through (`Order`), which differs from the first order within the network
  devices only, that those before the place of the sort are grouped by driver, and
  where the pointers of its loops are in it (`Sorting`, `Grouping`).  The one step
  that matters is the move of a device behind another (`MoveKeepsOrder`,
  `MoveGroups`).  `PinInv` follows the same order in pass 1: the devices before it have
  the names of their files, and these are in `devicelist`, so that no later pass gives
  them to others.
- `KudzuProofs`, first part: `MenuType`, `MenuWalksGoForward` and `MenuFilterExact`, for lists of
  any lengths and any devices.  `ListsAssumption` says that the lists are sequences and
  that the fields that `pci.c` and `pcmcia.c` subtract are numbers, without which no
  device would compare equal to itself.  `MenuTypeOK` has that links go forward, which
  survives whatever `listRemove()` takes off (`RemoveForward`).  `FilterInv` has for each
  walk which devices the links chain: when the devices of a list can be told apart it
  is those not yet looked at and those that were kept, in their order, while the device
  the walk is at may be one just taken off, whose own link is still right
  (`UnlinkLinks`).  `MembersAre` shows that the recursive `Walk` meets just those.
- `KudzuProofs`, second part: `KudzuRunInv` and `KudzuDatabaseDescribes`, for any machines, buses, first
  modprobe.conf and number of runs cut short.  `LivesAssumption` says that a machine is
  a list of devices not yet numbered, and that no bus has the name that a run for all
  of them has here.  While a full run goes on, the devices in hand begin with those of
  the machine and go on with detached ones that were in hwconf (`InHand`); what was in
  hwconf has the fields of a device, also when its last lines were lost (`PartsAre`),
  and stays a list of them through the sort (`SortedAre`) and the comparison
  (`ThoseAre`).  That `configMenu()` takes a device of hwconf over, and no other, needs
  that its walk is in the list (`WalksOK`), which the first part shows for lists of
  any origin (`WalksStep`).
- `ProbeDevicesProofs`: `ProbeRestores`, for every machine, whatever the devices on
  its ports send or keep to themselves, and for any number of late answers and failed
  calls.  `Restored` speaks of the end only; `IInv` says at which points of
  `serialProbe()` no port is open, that at the others all ports but the one it is at
  are as they were (`PortsOK`), and where the machine's log level is kept while the
  console's is 1 (`LevelOK`).  One lemma covers all the ways a device is found, as
  `serialProbe()` returns from the middle of each when one device was asked for.
  `ProbeNamesByOwnBytes` is about strings of any bytes (`PortsAssumption`), and about
  other buses that list no device of a serial port (`OthersAssumption`).  The buffer
  may hold the name of the port before, behind the length; `OwnBytes` says that up to
  the length it holds what the open port sent, which survives a read that fails
  halfway and lies over the rest (`ReadKeeps`).  `LettersOfString` then shows that
  `parse_pnp_string()` takes the letters from within the string.  That needs a place
  of the end that the extensions cannot fall short of: an extension may end a byte
  before it began, where a closing byte follows at once, but at most three do
  (`Beyond`).
- `InittabProofs`: `InittabKeepsLines`, for every inittab, securetty and set of
  consoles, and any number of failed calls and runs cut short.  The invariant is
  `TypesOK` and `MatchedOK`: a function takes the administrator's lines of one file
  to those of the other in their order (`Matched`), from the first inittab to the
  file that is in force, and within the loop from inittab to what is written and
  what is left to read.  `Matched` composes, which `SameLines`, in terms of
  positions, does not do by itself; a lemma shows that it implies `SameLines`.  One
  turn of the loop is `RewrittenStands` (what becomes of a line is the line, changed,
  with or without one of kudzu's own before it) and `OneLine` (such a change in the
  middle of a file keeps it matched).
  `ConsoleIsReady` follows from `TypesOK` and `ReadyOK`.  What has to
  be known within the loop is `Halfway`: what is written has no getty of the console
  behind one #; while bit 1 of the answer of `checkInittab()` is set, a getty is
  written or is still to come; while it is not, no mingetty that is in use was
  written.  `WaysThrough` lists what may become of a line.
- `X86emuProofs`: `MachineStaysTyped`, `StackBitClears`, `FaultsKeepMachine` and
  `NarrowStaysLow`, for any code, memory and calls (`CallAssumption`: registers,
  segments and bytes fit their widths, and no call starts with the stack's mark) and
  any width of a long of at least three bytes (`WidthAssumption`), so for the 32 bits
  that TLC does not count.  The entries of the two tables are gone through once
  for all four.  `Closed(K, W)` says of a set K of machines that it has, with each
  machine, what the elementary effects of an operation make of it: a register of a
  width in W or a segment written, flags or memory changed, IP moved, a halt, a null
  pointer followed.  From the lemmas on arithmetic, decoding and the shapes of the
  handlers it follows that an operation on a machine of such a K ends in K
  (`Ended(K)`).  Prefixes, illegal codes and faults do less than that: `StepType` puts
  an iteration together from a K, a set F closed under fetching code only and a set R
  closed under decoding an operand, and says that its result is a machine of K that
  ended; or one of F halted or with one more prefix; or one of R with an interrupt
  raised; or is by an operation that always writes a long, which W need not have.
  What is left for each theorem is to choose the sets.  `MachinesClosed`: the typed
  machines are one for all widths, and so `Inv` is inductive, `TypeOK` with what
  `StackBitClears` says, for which F is `Unmarked`.  For a fault K is `Calm`, machines
  with no interrupt raised, and R is `Like(m)`, those that have the data of the machine
  m that the instruction found: what has an interrupt can only have come from R.  For
  the upper halves K is `Narrow(m)`, without the prefix and with the upper halves of m,
  and W is 8 and 16 bits: writing a word in a register keeps what is above it
  (`WrittenType`), and the three words of an interrupt do when SP has room for them
  (`DownType`).

## Only model-checked

- Liveness (`Returns`, of three functions): there are no rules for ENABLED here.
- `FoundUnlessLate` of `ProbeDevices`: it takes devices that say what `serial.c` waits
  for, and is about what `parse_pnp_string()` computes from it.
- The properties of `X86emu` about what particular code computes (`CompareAndJump`,
  `FlagsTellOfResult`, `DecimalAdjust`, `DivUndoesMul`, `RotationsAddUp`, `RepCopiesAll`,
  `RepStopsAtFirst`, `BalancedCodeRestores`): they are about runs of several
  instructions read from memory, arithmetic modulo powers of two, and iterations over
  the bits of a number or the repetitions of an instruction, where what comes out would
  have to be found by induction over data.
- `NewIsConfigured` and `GoneIsUnconfigured` of `ConfigMenu`, which do not hold for
  every two lists: two network devices of one name are enough against the first, and a
  modprobe.conf without snd-card-0 against the second.
- `MachineConfigured`, `AliasesHaveOwners` and `QuietWhenUnchanged` of `Kudzu`.  The first
  does not hold for every machine, as the two sound cards above show.  The others
  depend on which devices of all machines `compareDevice()` takes for equal, and it is
  not transitive: a device may be paired with another than itself.

## Not modelled

- Xconfig (`hwconf.c`), which runs another program and reads its exit status, and
  telinit: `ConfigMenu` records in `outside` that a device was handed to what is
  outside modprobe.conf.  For a console what happens then is in `Inittab`.
- The bus probes other than `serial.c` and `fbProbe()`: each reads what the kernel says
  in /proc and /sys and keeps nothing between calls.  What they return is the input of
  the other models (`Machines`, `OldLists`, `NewLists`, `others`).
- `vbe.c`, `common.c` and `lrmi.c` of the DDC probe: they fill in the registers of a
  BIOS call and copy what it leaves in memory, or enter virtual 8086 mode by a system
  call whose effect is the processor's.
- `isLoaded()`, `loadModule()` and `removeModule()`: they call insmod and read
  /proc/modules.
- The alias tables: text patterns whose result, a driver, is an input elsewhere.
- `module_upgrade.c`: a program of its own that uses the operations of `modules.c`
  and the lists, which are modelled.
- The format of a device in hwconf, line by line.
- `--file`, `--socket`, `--class`, `--probe`: other sources or sinks of the same
  lists; `-b` is modelled.
- SCSI, RAID and IDE in `isConfigured()`: `isConfigurable()` rejects those
  classes before.
- In the emulator, the printing of its debugger, and the x87 instructions, which the
  code decodes and does not execute.
- Descriptions, logging, translations, the python bindings, packaging.
- `compareDevice()` on texts other than names and drivers: the ids of serial,
  parallel and ISA PnP devices are one value that differs or not.

## Plan

What is left, in the order of what it would add:

1. `Inittab` composed with `ConfigMenu` in place of `outside`.
2. hwconf line by line: `writeDevice()` and `readDevice()` as a pure algorithm
   that must read back what was written, and `Half` and `Torn` derived from it.
3. `module_upgrade.c`: renaming in modprobe.conf and hwconf and the runs of kudzu
   that follow it.
4. `alias.c`: the tree of patterns and its lookup against a reference definition.
