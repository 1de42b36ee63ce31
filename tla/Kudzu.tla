-------------------------------- MODULE Kudzu ---------------------------------
(***************************************************************************)
(* kudzu run after run: main() of hwconf.c.  Each boot probes the machine  *)
(* it finds, compares it with the devices of /etc/sysconfig/hwconf, lets   *)
(* configMenu() see to what went and what came, and writes hwconf again.   *)
(*                                                                         *)
(* Between two boots the machine may change.  A run may be cut short by a  *)
(* power failure or a kill: what it had in memory is gone, and a file that *)
(* was open for writing keeps part of what was to go into it.              *)
(***************************************************************************)
EXTENDS ConfigMenu, Pairing

CONSTANTS
  Lives,        \* what a machine may go through: machines, what a probe of the whole
                \* of it may find, in its order; buses, what -b may name, NIL when it is
                \* not given; confs, the first modprobe.conf; and maxCrashes, how many
                \* runs may be cut short
  DevOrder      \* all devices, in the order of devCmp()

\* A machine is a list of devices that have not been numbered yet, and no bus
\* is called as a run for all of them is called here.
Fields ==
  {"type", "bus", "device", "driver", "hwaddr", "detached", "id", "part", "slot", "index"}

ForgetIndex(d) == [d EXCEPT !.index = 0]

ASSUME LivesAssumption ==
  \A l \in Lives :
    /\ "all" \notin l.buses
    /\ \A machine \in l.machines :
         /\ machine \in Seq({machine[x] : x \in DOMAIN machine})
         /\ \A x \in DOMAIN machine :
              Fields \subseteq DOMAIN machine[x] /\ machine[x] = ForgetIndex(machine[x])

VARIABLES
  life,         \* the one of Lives
  hwconf,       \* NIL, or its devices and whether its last line is cut
  present,      \* the machine of the last boot
  last,         \* how the last run ended
  crashes,
  lost,         \* modprobe.conf was cut short
  stale,        \* devices that a run may have unconfigured are still in hwconf
  unchanged     \* this boot finds what the last one left

world  == <<life, hwconf, present, last, crashes, lost, stale, unchanged>>
memory == <<currentDevs, menu, dev, tmpdev, runFirst, cf, wpc>>
vars   == <<menuVars, world>>

Elements(s) == {s[x] : x \in DOMAIN s}

\* The devices at the places S, in their order.
Those(devs, S) ==
  LET kept[n \in 0..Len(devs)] ==
        IF n = 0 THEN <<>>
        ELSE IF n \in S THEN Append(kept[n - 1], devs[n]) ELSE kept[n - 1]
  IN kept[Len(devs)]

\* What writeDevice() writes of the devices.
Stored(devs) == [x \in DOMAIN devs |-> ForgetIndex(devs[x])]

\* What readDevice() makes of a device whose lines end after the first n of
\* its numbers, or before its hardware address: the others are those of
\* pciNewDevice(), which are 0 and no subvendor.
Half(d, n) ==
  [d EXCEPT !.id = [x \in DOMAIN @ |-> IF x <= n THEN @[x]
                                      ELSE IF d.bus = "PCI" /\ x = 3 THEN NoSubId ELSE 0],
            !.part = 0]
Halves(d) == {[Half(d, 0) EXCEPT !.hwaddr = NIL]} \cup {Half(d, n) : n \in 0..Len(d.id)}

\* devCmp() goes by the type, the device and the description.
Rank(d) ==
  CHOOSE x \in DOMAIN DevOrder :
    \A f \in {"type", "bus", "device", "driver", "slot"} : DevOrder[x][f] = d[f]

\* qsort() leaves devices that devCmp() takes for equal in their order: each
\* comes after all those that are not greater.
Inserted(sorted, d) ==
  LET n == Cardinality({x \in DOMAIN sorted : Rank(sorted[x]) <= Rank(d)})
  IN SubSeq(sorted, 1, n) \o <<d>> \o SubSeq(sorted, n + 1, Len(sorted))

Sorted(devs) ==
  LET sorted[n \in 0..Len(devs)] ==
        IF n = 0 THEN <<>> ELSE Inserted(sorted[n - 1], devs[n])
  IN sorted[Len(devs)]

ReadDevices(file) == IF file = NIL THEN <<>> ELSE Indexed(Sorted(file.devs))

\* The file ends in the middle of a line, or before the description of its
\* last device.
Torn == hwconf # NIL /\ hwconf.cut

ProbeDevices(machine, bus) ==
  Indexed(IF bus = NIL THEN machine
          ELSE Those(machine, {x \in DOMAIN machine : machine[x].bus = bus}))

Same(devs1, devs2) ==
  {p \in (DOMAIN devs1) \X (DOMAIN devs2) : Compare(devs1[p[1]], devs2[p[2]]) = 0}

NoList == [head |-> Null, next |-> <<>>]

Init ==
  /\ currentDevs = <<>> /\ oldDevs = <<>> /\ newDevs = <<>>
  /\ old = NoList /\ new = NoList
  /\ dev = Null /\ tmpdev = Null /\ runFirst = FALSE
  /\ cf = <<>> /\ wpc = "none" /\ pc = "done"
  /\ life \in Lives /\ conf \in life.confs /\ bak = NIL /\ outside = {}
  /\ hwconf = NIL /\ present = <<>>
  /\ last = "never" /\ crashes = 0 /\ lost = FALSE /\ stale = FALSE /\ unchanged = FALSE

\* The process is gone.
Gone ==
  /\ currentDevs' = <<>> /\ oldDevs' = <<>> /\ newDevs' = <<>>
  /\ old' = NoList /\ new' = NoList
  /\ dev' = Null /\ tmpdev' = Null /\ runFirst' = FALSE
  /\ cf' = <<>> /\ wpc' = "none" /\ pc' = "done"

-----------------------------------------------------------------------------
(* main() *)

\* Up to listCompare(), and to the lists configMenu() is given.
Start(machine, bus) ==
  LET current == ProbeDevices(machine, bus)
      stored  == ReadDevices(hwconf)
      same    == Same(stored, current)
  IN /\ currentDevs' = current
     /\ oldDevs' = Those(stored, Unpaired1(same, Len(stored), Len(current)))
     /\ newDevs' = Those(current, Unpaired2(same, Len(stored), Len(current)))
     /\ old' = Linked(oldDevs') /\ new' = Linked(newDevs')
     /\ dev' = old'.head /\ tmpdev' = Null
     /\ runFirst' = (hwconf = NIL)
     /\ pc' = IF oldDevs' = <<>> /\ newDevs' = <<>> THEN "return" ELSE "old"

\* A mutant: what is found goes to hwconf before it is configured.
BootSavesFirst ==
  /\ pc = "done" /\ ~Torn
  /\ \E machine \in life.machines, bus \in life.buses :
       /\ last = "crash" => machine = present /\ bus = NIL
       /\ Start(machine, bus)
       /\ hwconf' = [devs |-> Stored(machine), cut |-> FALSE]
       /\ present' = machine
       /\ unchanged' = (last = "complete" /\ machine = present /\ bus = NIL)
       /\ last' = IF bus = NIL THEN "all" ELSE bus
  /\ UNCHANGED <<life, files, cf, wpc, crashes, lost, stale>>

Boot ==
  /\ pc = "done" /\ ~Torn
  /\ \E machine \in life.machines, bus \in life.buses :
       /\ last = "crash" => machine = present /\ bus = NIL
       /\ Start(machine, bus)
       /\ present' = machine
       /\ unchanged' = (last = "complete" /\ machine = present /\ bus = NIL)
       /\ last' = IF bus = NIL THEN "all" ELSE bus
  /\ UNCHANGED <<life, files, cf, wpc, hwconf, crashes, lost, stale>>

\* readDevice() follows the NULL that rindex() returned, devCmp() the one of
\* the description.
Segfault ==
  /\ pc = "done" /\ Torn
  /\ last' = "segfault" /\ unchanged' = FALSE
  /\ UNCHANGED <<menuVars, life, hwconf, present, crashes, lost, stale>>

Menu == pc \notin {"done", "return", "flush"} /\ MenuNext /\ UNCHANGED world

\* writeDevices(): fopen() empties the file, fclose() fills it.
OpenDevices ==
  /\ pc = "return" /\ currentDevs # <<>>
  /\ hwconf' = [devs |-> <<>>, cut |-> FALSE]
  /\ pc' = "flush"
  /\ UNCHANGED <<memory, life, files, present, last, crashes, lost, stale, unchanged>>

Exit ==
  /\ Gone
  /\ last' = IF last = "all" THEN "complete" ELSE "partial"

\* A mutant: only the devices that were compared go back.
CloseOnlyNew ==
  /\ pc = "flush"
  /\ hwconf' = [devs |-> Stored(newDevs), cut |-> FALSE]
  /\ Exit
  /\ UNCHANGED <<life, files, present, crashes, lost, stale, unchanged>>

CloseDevices ==
  /\ pc = "flush"
  /\ hwconf' = [devs |-> Stored(currentDevs), cut |-> FALSE]
  /\ Exit
  /\ UNCHANGED <<life, files, present, crashes, lost, stale, unchanged>>

NoDevices ==
  /\ pc = "return" /\ currentDevs = <<>>
  /\ stale' = (stale \/ hwconf # NIL)
  /\ Exit
  /\ UNCHANGED <<life, files, hwconf, present, crashes, lost, unchanged>>

\* What a file holds when the run ends while it is being written.
Parts(lines) == {SubSeq(lines, 1, n) : n \in 0..Len(lines)}

PartsOfDevices(devs) ==
  Parts(devs) \cup UNION {{Append(SubSeq(devs, 1, n - 1), half) : half \in Halves(devs[n])} :
                           n \in DOMAIN devs}

Crash ==
  /\ pc # "done" /\ crashes < life.maxCrashes
  /\ IF wpc = "write" THEN conf' \in {NIL} \cup Parts(WrittenLines(cf)) ELSE conf' = conf
  /\ IF pc = "flush"
     THEN \E devs \in PartsOfDevices(Stored(currentDevs)), cut \in BOOLEAN :
            hwconf' = [devs |-> devs, cut |-> cut]
     ELSE hwconf' = hwconf
  /\ Gone
  /\ last' = "crash" /\ crashes' = crashes + 1 /\ lost' = (lost \/ wpc = "write")
  /\ stale' = (stale \/ last # "all")
  /\ UNCHANGED <<life, bak, outside, present, unchanged>>

Next ==
  \/ Boot \/ Segfault \/ Menu
  \/ OpenDevices \/ CloseDevices \/ NoDevices
  \/ Crash

Spec == Init /\ [][Next]_vars

-----------------------------------------------------------------------------
(* Properties *)

Completed == pc = "done" /\ last = "complete"

Worth(d) ==
  /\ ToConfigure(d) /\ d.driver # ParportSerial
  /\ d.type \in {Network, Audio} => IsAvailable(d.driver)

\* A device has the same name at each boot of this life.  (One that has not is
\* known by its address, and gets no alias under its new name.)
NamesLast ==
  \A m1, m2 \in life.machines : \A d \in Elements(m1), e \in Elements(m2) :
    Compare(d, e) = 0 => d.device = e.device

\* After a run every device of the machine is configured, the new ones by this
\* run, the others by an earlier one: nothing that came, went or was cut short
\* since took that back, short of modprobe.conf itself, of a run that found
\* nothing and of one with -b: these unconfigure devices that are there, and
\* the first, or the second when it is cut, leaves them in hwconf.
MachineConfigured ==
  Completed /\ ~lost /\ ~stale /\ NamesLast =>
    \A d \in Elements(Indexed(present)) : Worth(d) =>
      /\ NothingToDo(d, LoadConf(conf)) \/ IsConfigured(d, LoadConf(conf))
      /\ ConfiguredOutside(d) => d.type \in Ready \/ \E e \in outside : Compare(d, e) = 0

Owned(l, devs) ==
  CASE l.name = <<"parport_lowlevel">> -> \E d \in devs : d.driver = l.val
    [] Len(l.name) = 2 /\ l.name[1] = "eth" -> \E d \in devs : d.driver = l.val /\ d.device = l.name
    [] Len(l.name) = 2 /\ l.name[1] = "snd-card-" -> \E d \in devs : d.driver = l.val
    [] OTHER -> TRUE

InitialLine(l) == \E c \in life.confs : c # NIL /\ l \in Elements(c)

\* What may own an alias: the devices of the machine, and those that can be
\* put in and out.
Owners ==
  Elements(present) \cup (IF hwconf = NIL THEN {} ELSE {d \in Elements(hwconf.devs) : d.detached})

\* After a run no alias that a run added is left of a device that is gone.
AliasesHaveOwners ==
  Completed /\ ~lost /\ conf # NIL /\ NamesLast =>
    \A l \in Elements(conf) : l.kind = "alias" => InitialLine(l) \/ Owned(l, Owners)

\* After a run that found something hwconf describes the machine: each device
\* of it, and the detached ones that were in it before.
DatabaseDescribes ==
  Completed /\ present # <<>> =>
    /\ Elements(present) \subseteq Elements(hwconf.devs)
    /\ \A d \in Elements(hwconf.devs) \ Elements(present) : d.detached /\ ToConfigure(d)

\* A run on the machine the last one left changes nothing but hwconf, whatever
\* was cut short before that one.  (When a run found nothing it left hwconf, and the
\* next one unconfigures what is in it again.)
QuietWhenUnchanged == [][unchanged /\ ~stale => UNCHANGED files]_vars

\* A sound card that has its alias has the option that gives it its index:
\* "adds an option to modprobe.conf to specify an index for ALSA" (README).
SoundHasIndex ==
  Completed /\ ~lost =>
    \A d \in Elements(Indexed(present)) :
      d.type = Audio /\ IsAvailable(d.driver) /\ conf # NIL
        /\ GetAlias(LoadConf(conf), SndCard(d.index)) = d.driver =>
          IndexOption(<<d.driver>>, d.index) \in Elements(conf)
=============================================================================
