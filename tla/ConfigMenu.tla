------------------------------ MODULE ConfigMenu ------------------------------
(***************************************************************************)
(* configMenu() of hwconf.c, link by link: which of the devices that       *)
(* disappeared it unconfigures, which of the new ones it configures, and   *)
(* what becomes of modprobe.conf.                                          *)
(*                                                                         *)
(* Devices are known by their positions in oldDevs and newDevs, the arrays *)
(* listCompare() returned; 0 is NULL.  The lists are walked while          *)
(* listRemove() takes devices off them, the one the walk is at included.   *)
(* listRemove() looks for a device that compares equal.                    *)
(***************************************************************************)
EXTENDS Devices

CONSTANTS
  OldLists, NewLists,   \* what listCompare() may return
  Confs                 \* modprobe.conf before: NIL or its lines

\* The lists are sequences, and the fields that the buses subtract are numbers.
ASSUME ListsAssumption ==
  \A devs \in OldLists \cup NewLists :
    /\ devs \in Seq({devs[x] : x \in DOMAIN devs})
    /\ \A x \in DOMAIN devs :
         /\ devs[x].bus = "PCI"    => devs[x].id \in [1..4 -> Nat] /\ devs[x].part \in Nat
         /\ devs[x].bus = "PCMCIA" => devs[x].id \in [1..2 -> Nat] /\ devs[x].part \in Nat

Null == 0

VARIABLES
  currentDevs,
  oldDevs, newDevs,     \* the devices of the two lists
  old, new,             \* the lists: the head and the next fields
  dev, tmpdev,
  runFirst,             \* no hwconf was found
  conf, bak,            \* modprobe.conf and modprobe.conf~
  outside,              \* the devices configured without modprobe.conf
  cf,                   \* the lines of the device being configured
  wpc,                  \* where writeConfModules() is
  pc

menu     == <<oldDevs, newDevs, old, new>>
files    == <<conf, bak, outside>>
menuVars == <<currentDevs, menu, dev, tmpdev, runFirst, files, cf, wpc, pc>>

-----------------------------------------------------------------------------
(* Lists *)

\* A mutant: the last device points to the first.
LinkedInRing(devs) ==
  [head |-> IF devs = <<>> THEN Null ELSE 1,
   next |-> [x \in DOMAIN devs |-> IF x = Len(devs) THEN 1 ELSE x + 1]]

Linked(devs) ==
  [head |-> IF devs = <<>> THEN Null ELSE 1,
   next |-> [x \in DOMAIN devs |-> IF x = Len(devs) THEN Null ELSE x + 1]]

\* The devices of a list in the order of its links, then NULL.
Walk(list) ==
  LET at[x \in 0..Cardinality(DOMAIN list.next)] ==
        IF x = 0 THEN list.head
        ELSE LET last == at[x - 1]
             IN IF last = Null THEN Null ELSE list.next[last]
  IN at

Members(list) == {Walk(list)[x] : x \in DOMAIN Walk(list)} \ {Null}

Unlink(list, x) ==
  IF x = list.head THEN [list EXCEPT !.head = list.next[x]]
  ELSE [list EXCEPT !.next = [y \in DOMAIN @ |-> IF y \in Members(list) /\ @[y] = x
                                                 THEN @[x] ELSE @[y]]]

\* A mutant: what compareDevice() returned is taken for a truth value.
ListRemoveTruth(list, devs, d) ==
  LET at == Walk(list)
      equal == {x \in DOMAIN at : at[x] # Null /\ Compare(devs[at[x]], d) # 0}
  IN IF equal = {} THEN list
     ELSE Unlink(list, at[CHOOSE x \in equal : \A y \in equal : x <= y])

ListRemove(list, devs, d) ==
  LET at == Walk(list)
      equal == {x \in DOMAIN at : at[x] # Null /\ Compare(devs[at[x]], d) = 0}
  IN IF equal = {} THEN list
     ELSE Unlink(list, at[CHOOSE x \in equal : \A y \in equal : x <= y])

\* The lists listCompare() left, and modprobe.conf; some devices of the
\* machine may be in neither.
MenuInit ==
  /\ oldDevs \in OldLists /\ newDevs \in NewLists
  /\ \A x \in DOMAIN oldDevs, y \in DOMAIN newDevs : Compare(oldDevs[x], newDevs[y]) # 0
  /\ currentDevs = newDevs
  /\ old = Linked(oldDevs) /\ new = Linked(newDevs)
  /\ dev = old.head /\ tmpdev = Null
  /\ runFirst \in BOOLEAN /\ (runFirst => oldDevs = <<>>)
  /\ conf \in Confs /\ bak = NIL /\ outside = {}
  /\ cf = <<>> /\ wpc = "none"
  /\ pc = "old"

-----------------------------------------------------------------------------
(* "First, make sure we have work to do..." *)

DropOld ==
  /\ pc = "old" /\ dev # Null /\ ~ToConfigure(oldDevs[dev])
  /\ old' = ListRemove(old, oldDevs, oldDevs[dev])
  /\ dev' = old'.next[dev]
  /\ UNCHANGED <<currentDevs, oldDevs, newDevs, new, tmpdev, runFirst, files, cf, wpc, pc>>

\* "Add detached devices to current list"
KeepDetached ==
  /\ pc = "old" /\ dev # Null /\ ToConfigure(oldDevs[dev]) /\ oldDevs[dev].detached
  /\ currentDevs' = Append(currentDevs, oldDevs[dev])
  /\ old' = ListRemove(old, oldDevs, oldDevs[dev])
  /\ dev' = old'.next[dev]
  /\ UNCHANGED <<oldDevs, newDevs, new, tmpdev, runFirst, files, cf, wpc, pc>>

StartSearch ==
  /\ pc = "old" /\ dev # Null /\ ToConfigure(oldDevs[dev]) /\ ~oldDevs[dev].detached
  /\ tmpdev' = new.head /\ pc' = "search"
  /\ UNCHANGED <<currentDevs, menu, dev, runFirst, files, cf, wpc>>

\* A mutant: the new device stays in its list.
OnlyDriverOfOld ==
  /\ pc = "search" /\ tmpdev # Null /\ Compare(newDevs[tmpdev], oldDevs[dev]) = 2
  /\ old' = ListRemove(old, oldDevs, oldDevs[dev])
  /\ tmpdev' = new.next[tmpdev]
  /\ UNCHANGED <<currentDevs, oldDevs, newDevs, new, dev, runFirst, files, cf, wpc, pc>>

\* "If the device only changed in the driver used, ignore it"
OnlyDriver ==
  /\ pc = "search" /\ tmpdev # Null /\ Compare(newDevs[tmpdev], oldDevs[dev]) = 2
  /\ old' = ListRemove(old, oldDevs, oldDevs[dev])
  /\ new' = ListRemove(new, newDevs, newDevs[tmpdev])
  /\ tmpdev' = new'.next[tmpdev]
  /\ UNCHANGED <<currentDevs, oldDevs, newDevs, dev, runFirst, files, cf, wpc, pc>>

Another ==
  /\ pc = "search" /\ tmpdev # Null /\ Compare(newDevs[tmpdev], oldDevs[dev]) # 2
  /\ tmpdev' = new.next[tmpdev]
  /\ UNCHANGED <<currentDevs, menu, dev, runFirst, files, cf, wpc, pc>>

EndSearch ==
  /\ pc = "search" /\ tmpdev = Null
  /\ dev' = old.next[dev] /\ pc' = "old"
  /\ UNCHANGED <<currentDevs, menu, tmpdev, runFirst, files, cf, wpc>>

EndOld ==
  /\ pc = "old" /\ dev = Null
  /\ dev' = new.head /\ pc' = "new"
  /\ UNCHANGED <<currentDevs, menu, tmpdev, runFirst, files, cf, wpc>>

\* A new device worth configuring.
Wanted(d) ==
  /\ ToConfigure(d)
  /\ runFirst => ~IsConfigured(d, LoadConf(conf))
  /\ d.type \in {Network, Audio} => IsAvailable(d.driver)

KeepNew ==
  /\ pc = "new" /\ dev # Null /\ Wanted(newDevs[dev])
  /\ dev' = new.next[dev]
  /\ UNCHANGED <<currentDevs, menu, tmpdev, runFirst, files, cf, wpc, pc>>

DropNew ==
  /\ pc = "new" /\ dev # Null /\ ~Wanted(newDevs[dev])
  /\ new' = ListRemove(new, newDevs, newDevs[dev])
  /\ dev' = new'.next[dev]
  /\ UNCHANGED <<currentDevs, oldDevs, newDevs, old, tmpdev, runFirst, files, cf, wpc, pc>>

EndNew ==
  /\ pc = "new" /\ dev = Null
  /\ IF old.head = Null /\ new.head = Null
     THEN pc' = "return" /\ dev' = dev
     ELSE pc' = "unconfigure" /\ dev' = old.head
  /\ UNCHANGED <<currentDevs, menu, tmpdev, runFirst, files, cf, wpc>>

-----------------------------------------------------------------------------
(* unconfigure() and configure(): each reads the file and writes it again *)

ReadConf ==
  /\ pc \in {"unconfigure", "configure"} /\ dev # Null /\ wpc = "none"
  /\ cf' = LoadConf(conf) /\ wpc' = "edit"
  /\ UNCHANGED <<currentDevs, menu, dev, tmpdev, runFirst, files, pc>>

UnconfigureDevice ==
  /\ pc = "unconfigure" /\ wpc = "edit"
  /\ IF NothingToUndo(oldDevs[dev])
     THEN dev' = old.next[dev] /\ cf' = <<>> /\ wpc' = "none"
     ELSE /\ cf' = Unconfigured(oldDevs[dev], cf, currentDevs)
          /\ wpc' = "rename" /\ dev' = dev
  /\ UNCHANGED <<currentDevs, menu, tmpdev, runFirst, files, pc>>

EndUnconfigure ==
  /\ pc = "unconfigure" /\ dev = Null
  /\ pc' = "configure" /\ dev' = new.head
  /\ UNCHANGED <<currentDevs, menu, tmpdev, runFirst, files, cf, wpc>>

ConfigureDevice ==
  /\ pc = "configure" /\ wpc = "edit"
  /\ IF NothingToDo(newDevs[dev], cf)
     THEN dev' = new.next[dev] /\ cf' = <<>> /\ wpc' = "none"
     ELSE /\ cf' = Configured(newDevs[dev], cf)
          /\ wpc' = "rename" /\ dev' = dev
  /\ outside' = IF ConfiguredOutside(newDevs[dev]) THEN outside \cup {newDevs[dev]} ELSE outside
  /\ UNCHANGED <<currentDevs, menu, tmpdev, runFirst, conf, bak, pc>>

EndConfigure ==
  /\ pc = "configure" /\ dev = Null
  /\ pc' = "return"
  /\ UNCHANGED <<currentDevs, menu, dev, tmpdev, runFirst, files, cf, wpc>>

\* writeConfModules(): the rename to the backup, then the new file.
Rename ==
  /\ wpc = "rename"
  /\ bak' = IF conf = NIL THEN bak ELSE conf
  /\ conf' = NIL
  /\ wpc' = "write"
  /\ UNCHANGED <<currentDevs, menu, dev, tmpdev, runFirst, outside, cf, pc>>

Write ==
  /\ wpc = "write"
  /\ conf' = WrittenLines(cf)
  /\ dev' = IF pc = "unconfigure" THEN old.next[dev] ELSE new.next[dev]
  /\ cf' = <<>> /\ wpc' = "none"
  /\ UNCHANGED <<currentDevs, menu, tmpdev, runFirst, bak, outside, pc>>

MenuNext ==
  \/ DropOld \/ KeepDetached \/ StartSearch
  \/ OnlyDriver \/ Another \/ EndSearch \/ EndOld
  \/ KeepNew \/ DropNew \/ EndNew
  \/ ReadConf \/ UnconfigureDevice \/ EndUnconfigure \/ ConfigureDevice \/ EndConfigure
  \/ Rename \/ Write

MenuSpec == MenuInit /\ [][MenuNext]_menuVars

-----------------------------------------------------------------------------
(* Properties *)

\* No two devices of a list compare equal.
Unambiguous(devs) == \A x, y \in DOMAIN devs : x # y => Compare(devs[x], devs[y]) # 0

Searched(x) == ToConfigure(oldDevs[x]) /\ ~oldDevs[x].detached

\* The new devices that differ from x in the driver only, and not from a
\* device searched for before.
ChangedFrom(x) ==
  {y \in DOMAIN newDevs :
     /\ Compare(newDevs[y], oldDevs[x]) = 2
     /\ \A z \in 1..(x - 1) : Searched(z) => Compare(newDevs[y], oldDevs[z]) # 2}

Filtered == pc \in {"unconfigure", "configure", "return"}

\* What is unconfigured and configured, when the devices of the lists can be
\* told apart: the devices that are gone for good and whose driver did not
\* just change, and the new ones that are wanted and are not one of those.
FilterExact ==
  pc = "unconfigure" /\ Unambiguous(oldDevs) /\ Unambiguous(newDevs) =>
    /\ Members(old) = {x \in DOMAIN oldDevs : Searched(x) /\ ChangedFrom(x) = {}}
    /\ dev = old.head /\ wpc = "none" =>
         Members(new) = {y \in DOMAIN newDevs :
                           /\ Wanted(newDevs[y])
                           /\ \A x \in DOMAIN oldDevs : Searched(x) => y \notin ChangedFrom(x)}

\* In the end a new device is configured: configure() would find nothing to
\* do in modprobe.conf, or has had it done elsewhere.  Neither the removal of
\* another device, nor another of the same type, nor the holes that removals
\* leave take that back.
NewIsConfigured ==
  pc = "return" => \A y \in Members(new) :
    /\ newDevs[y].driver = ParportSerial \/ NothingToDo(newDevs[y], LoadConf(conf))
    /\ ConfiguredOutside(newDevs[y]) => newDevs[y] \in outside

SoundGone == {x \in Members(old) : oldDevs[x].driver # ParportSerial /\ oldDevs[x].type = Audio}

\* The names under which modprobe.conf has the driver of d for d.
AliasesOf(d, lines) ==
  IF d.driver = ParportSerial THEN {<<"parport_lowlevel">>}
  ELSE CASE d.type = Network -> {d.device}
         [] d.type = Audio   -> {SndCard(n) : n \in 0..Len(lines)}
         [] OTHER            -> {}

\* In the end the driver of a device that is gone has no alias left that was
\* for it, unless a new device has that alias with that driver, or a device of
\* the machine needs the driver's port.  The numbers of the sound cards are
\* passed one by one, those of other drivers too; a number that is missing
\* stops the search, and so when two sound cards go the first may hide the
\* second: SoundGone has one at most.
GoneIsUnconfigured ==
  pc = "return" /\ Cardinality(SoundGone) <= 1 =>
    \A x \in Members(old) :
      LET d == oldDevs[x]
          lines == LoadConf(conf)
      IN d.driver # NIL => \A a \in AliasesOf(d, lines) :
           \/ GetAlias(lines, a) # d.driver
           \/ \E y \in Members(new) :
                newDevs[y].driver = d.driver /\ a \in AliasesOf(newDevs[y], lines)
           \/ d.driver = ParportSerial /\ Needed(d, currentDevs)

Forward(x, y) == y = Null \/ y > x

\* Every walk ends: it only goes on to devices further down, though it goes
\* on from devices that are no longer in the list.
WalksGoForward ==
  [][/\ pc \in {"old", "search"} /\ pc' = "old" => Forward(dev, dev')
     /\ pc = "new" /\ pc' = "new" => Forward(dev, dev')
     /\ pc = "search" /\ pc' = "search" => Forward(tmpdev, tmpdev')
     /\ wpc # "none" /\ wpc' = "none" => Forward(dev, dev')]_menuVars
=============================================================================
