------------------------------- MODULE Devices --------------------------------
(***************************************************************************)
(* struct device, the comparisons of its buses, and what hwconf.c does to  *)
(* modprobe.conf for one device: the operations without the loops that     *)
(* call them.                                                              *)
(*                                                                         *)
(* A device keeps what some decision of the program depends on.  id holds  *)
(* the numbers by which its bus tells cards apart: vendorId, deviceId,     *)
(* subVendorId and subDeviceId for PCI, as many as it has for another bus. *)
(* part is pciType for PCI and function for PCMCIA, which are the same     *)
(* word of the two structures.  slot tells two equal cards apart, and      *)
(* nothing in the program looks at it.                                     *)
(***************************************************************************)
EXTENDS ConfModules

CONSTANTS
  Available,      \* the drivers modules.dep lists
  XInstalled,     \* system-config-display and an X server are installed
  Ready           \* what needs no configuring on a first run: VIDEO when there
                  \* is an xorg.conf, KEYBOARD when checkInittab() is content

Network  == "NETWORK"
Audio    == "AUDIO"
Video    == "VIDEO"
Keyboard == "KEYBOARD"
Other    == "OTHER"

Cardbus   == 2
NoSubId   == 65535
ParportSerial == "parport_serial"

ASSUME DeviceAssumption ==
  NIL \notin Available /\ XInstalled \in BOOLEAN /\ Ready \subseteq {Video, Keyboard}

BareNames == {<<"eth">>, <<"tr">>, <<"fddi">>}

Differ(x, y) == x # NIL /\ y # NIL /\ x # y

SameHwaddr(d, e) ==
  /\ d.type = Network /\ e.type = Network
  /\ d.hwaddr # NIL /\ d.hwaddr = e.hwaddr

-----------------------------------------------------------------------------
(* 0: the same device; 2: only the driver differs; anything else: another   *)

\* compareDevice().  A missing field is equal to any.
CompareDevice(d, e) ==
  LET renamed == Differ(d.device, e.device)
  IN CASE d.type # e.type \/ d.bus # e.bus -> 1
       [] d.type = e.type /\ d.bus = e.bus /\ renamed /\ SameHwaddr(d, e) -> 0
       [] d.type = e.type /\ d.bus = e.bus /\ renamed /\ ~SameHwaddr(d, e)
            /\ {d.device, e.device} \cap BareNames = {} -> 1
       [] OTHER ->
            IF Differ(d.driver, e.driver) THEN 2
            ELSE IF d.type = Network /\ Differ(d.hwaddr, e.hwaddr) THEN 1
            ELSE 0

\* devCmp2() of pci.c: the first difference of two numbers, as it is.
PciDevCmp(d, e) ==
  LET x == d.id[1] - e.id[1]
      y == d.id[2] - e.id[2]
      xx == d.id[3] - e.id[3]
      yy == d.id[4] - e.id[4]
      z == IF d.part # 0 /\ e.part # 0 THEN d.part - e.part ELSE 0
      withSub == d.id[3] # NoSubId /\ e.id[3] # NoSubId
  IN IF x # 0 THEN x ELSE IF y # 0 THEN y
     ELSE IF withSub /\ xx # 0 THEN xx ELSE IF withSub /\ yy # 0 THEN yy ELSE z

\* devCmp() of pcmcia.c.
PcmciaDevCmp(d, e) ==
  LET x == d.id[1] - e.id[1]
      y == d.id[2] - e.id[2]
  IN IF x # 0 THEN x ELSE IF y # 0 THEN y ELSE d.part - e.part

\* The function of d's bus.  The ids of two ISA PnP cards are not looked at
\* when the drivers differ, those of two USB devices never.  1 stands for what
\* strcmp() says of the ids of a serial, parallel or ISA PnP device; the ids
\* of a SCSI device are its address, those of an SBUS one its screen.
Compare(d, e) ==
  LET c == CompareDevice(d, e)
      ByIds == {"SERIAL", "PARALLEL", "SCSI", "SBUS"}
  IN CASE d.bus = "PCI"    /\ c \in {0, 2} /\ PciDevCmp(d, e) # 0    -> PciDevCmp(d, e)
       [] d.bus = "PCMCIA" /\ c \in {0, 2} /\ PcmciaDevCmp(d, e) # 0 -> PcmciaDevCmp(d, e)
       [] d.bus \in ByIds  /\ c \in {0, 2} /\ d.id # e.id            -> 1
       [] d.bus = "ISAPNP" /\ c = 0         /\ d.id # e.id            -> 1
       [] OTHER -> c

-----------------------------------------------------------------------------
(* hwconf.c *)

IsConfigurable(d) ==
  \/ d.driver = ParportSerial
  \/ d.type \in {Network, Keyboard, Audio}
  \/ d.type = Video /\ XInstalled

\* The first check of both loops of configMenu().
ToConfigure(d) == IsConfigurable(d) /\ ~(d.bus = "PCI" /\ d.driver = NIL)

IsAvailable(driver) == driver \in Available

OnCardbus(d) == d.part = Cardbus

SoundAliases == {<<"sound">>, <<"sound-card-">>, <<"sound-slot-">>, <<"snd-card-">>}

IsConfigured(d, lines) ==
  CASE d.type = Network ->
         \/ d.driver = NIL
         \/ /\ d.bus # "PCMCIA" /\ ~(d.bus = "PCI" /\ OnCardbus(d))
            /\ d.device # NIL /\ IsAliased(lines, d.device, d.driver) # -1
    [] d.type = Audio ->
         d.driver = NIL \/ \E a \in SoundAliases : IsAliased(lines, a, d.driver) # -1
    [] d.type = Video    -> d.driver = NIL \/ Video \in Ready
    [] d.type = Keyboard -> Keyboard \in Ready
    [] OTHER -> TRUE

SndCard(n) == <<"snd-card-", n>>

IndexOption(name, n)  == OptionsLine(name, n)
RemoveRule(driver, n) == Line("remove", <<driver>>, n)

\* The three lines configure() formats one after the other in path[].
AddSoundLines(lines, driver, n) ==
  LET one   == AddBufferLine(lines, IndexOption(SndCard(n), n))
      two   == AddBufferLine(one, IndexOption(<<driver>>, n))
      three == AddBufferLine(two, RemoveRule(driver, n))
  IN BufferReads(three, RemoveRule(driver, n))

\* configure() leaves modprobe.conf to others: system-config-display, or
\* rewriteInittab() and rewriteSecuretty().
ConfiguredOutside(d) ==
  d.driver # ParportSerial /\ (d.type = Keyboard \/ (d.type = Video /\ d.driver # NIL))

\* configure() does not write modprobe.conf.
NothingToDo(d, lines) ==
  IF d.driver = ParportSerial THEN FALSE
  ELSE CASE d.type = Network ->
              \/ d.device = NIL \/ d.driver = NIL
              \/ IsAliased(lines, d.device, d.driver) = 0
              \/ d.bus \in {"PCI", "PCMCIA"} /\ OnCardbus(d)
         [] d.type = Audio ->
              \/ d.driver = NIL
              \/ \E a \in SoundAliases \ {<<"sound">>} : IsAliased(lines, a, d.driver) # -1
         [] OTHER -> TRUE

\* What configure() writes otherwise.
Configured(d, lines) ==
  IF d.driver = ParportSerial THEN AddAlias(lines, <<"parport_lowlevel">>, ParportSerial)
  ELSE IF d.type = Network THEN AddAlias(lines, d.device, d.driver)
  ELSE AddSoundLines(AddAlias(lines, SndCard(d.index), d.driver), d.driver, d.index)

Needed(d, currentDevs) == \E x \in DOMAIN currentDevs : currentDevs[x].driver = d.driver

\* A mutant: sound cards are not unconfigured.
NothingToUndoSound(d) ==
  IF d.driver = ParportSerial THEN FALSE
  ELSE d.type = Network => d.driver = NIL \/ d.device = NIL

\* unconfigure() leaves the file alone.
NothingToUndo(d) ==
  IF d.driver = ParportSerial THEN FALSE
  ELSE CASE d.type = Network -> d.driver = NIL \/ d.device = NIL
         [] d.type = Audio   -> d.driver = NIL
         [] OTHER -> TRUE

\* A mutant: the search ends at the first alias of another driver.
FirstOtherNumber(lines, driver) ==
  CHOOSE n \in 0..Len(lines) : /\ GetAlias(lines, SndCard(n)) # driver
                               /\ \A k \in 0..(n - 1) : GetAlias(lines, SndCard(k)) = driver

\* Where the search for the aliases of a driver ends.
FirstFreeNumber(lines, driver) ==
  CHOOSE n \in 0..Len(lines) : /\ GetAlias(lines, SndCard(n)) = NIL
                               /\ \A k \in 0..(n - 1) : GetAlias(lines, SndCard(k)) # NIL

\* Every snd-card alias of the driver up to the first number that has none
\* goes, needed or not, and its options with it.
UnconfiguredSound(d, lines, currentDevs) ==
  LET end  == FirstFreeNumber(lines, d.driver)
      hits == {n \in 0..(end - 1) : GetAlias(lines, SndCard(n)) = d.driver}
      bare == RemoveWhere(lines, LAMBDA l : l.kind \in {"alias", "options"}
                                            /\ \E n \in hits : l.name = SndCard(n))
      rest == IF hits = {} \/ Needed(d, currentDevs) THEN bare
              ELSE RemoveLine(RemoveLine(bare, IndexOption(SndCard(d.index), d.index)),
                              RemoveRule(d.driver, NIL))
      synth == <<"synth", end>>
  IN IF GetAlias(rest, synth) = d.driver /\ ~Needed(d, currentDevs)
     THEN RemoveAlias(rest, synth) ELSE rest

\* What unconfigure() writes otherwise.
Unconfigured(d, lines, currentDevs) ==
  IF d.driver = ParportSerial
  THEN IF Needed(d, currentDevs) THEN lines ELSE RemoveAlias(lines, <<"parport_lowlevel">>)
  ELSE IF d.type = Network
  THEN IF IsAliased(lines, d.device, d.driver) = 0 THEN RemoveAlias(lines, d.device) ELSE lines
  ELSE UnconfiguredSound(d, lines, currentDevs)

\* dev->index: its place among the devices of its type, in the sorted list.
Indexed(devs) ==
  [x \in DOMAIN devs |->
     [devs[x] EXCEPT !.index = Cardinality({y \in 1..(x - 1) : devs[y].type = devs[x].type})]]
=============================================================================
