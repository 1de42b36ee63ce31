------------------------------- MODULE MCKudzu --------------------------------
(* Instances of Kudzu for TLC. *)
EXTENDS Kudzu

CONSTANTS e100, tulip, emu, ymf, h1, h2

Device(type, bus, device, driver, id) ==
  [type |-> type, bus |-> bus, device |-> device, driver |-> driver, hwaddr |-> NIL,
   detached |-> FALSE, id |-> id, part |-> IF bus = "PCI" THEN 1 ELSE 0, slot |-> 0,
   index |-> 0]

Eth(n) == <<"eth", n>>
Pci(v) == <<v, 1, NoSubId, NoSubId>>
Nic(n, driver, hw, v) == [Device(Network, "PCI", Eth(n), driver, Pci(v)) EXCEPT !.hwaddr = hw]
Sound(driver, v) == Device(Audio, "PCI", NIL, driver, Pci(v))

Nic0    == Nic(0, e100, h1, 1)
Nic1    == Nic(1, tulip, h2, 4)
Cardbus2 == [Nic(2, tulip, NIL, 5) EXCEPT !.part = Cardbus, !.detached = TRUE]
Bare == [Nic(0, e100, NIL, 1) EXCEPT !.device = <<"eth">>]
Nic1e100 == Nic(1, e100, h1, 1)
Twin1 == [Sound(ymf, 8) EXCEPT !.slot = 1]
Twin2 == [Sound(ymf, 8) EXCEPT !.slot = 2]
Console == Device(Keyboard, "KEYBOARD", <<"hvc0">>, NIL, <<0>>)
Disk    == Device(Other, "SCSI", <<"sda">>, NIL, <<0>>)

\* Every choice of some devices of a list, with the disk.
SomeOf(devs) == {Append(Those(devs, S), Disk) : S \in SUBSET DOMAIN devs}

AnyOrder == <<Bare, Nic0, Nic1, Nic1e100, Cardbus2, Sound(ymf, 6), Sound(emu, 7),
              Twin1, Twin2, Console, Disk>>

\* Cards that come and go, down to none, and a disk.
Cards ==
  {Those(<<Nic0, Nic1, Sound(emu, 7), Disk>>, S) : S \in {{}, {2}, {1, 3}, {2, 3}, {1, 2, 4}}}

\* Devices that are hard to tell apart, or that come and go by themselves.
Lookalikes ==
  SomeOf(<<Bare, Nic1e100, Cardbus2>>)
    \cup {Those(<<Twin1, Twin2, Console, Disk>>, S \cup {3, 4}) : S \in SUBSET {1, 2}}

\* A sound card that comes before the one that is there.
TwoSounds == {<<Sound(emu, 7), Disk>>, <<Sound(ymf, 6), Sound(emu, 7), Disk>>}

\* A sound card that comes and goes.
OneSound == {<<Disk>>, <<Sound(emu, 7), Disk>>}

UserConf == <<AliasLine(<<"usb-controller">>, "uhci"), AliasLine(<<"sound">>, emu)>>
OwnConf == <<OptionsLine(<<e100>>, 1), AliasLine(Eth(0), e100)>>

Quiet(machines) == [machines |-> machines, buses |-> {NIL}, confs |-> {NIL}, maxCrashes |-> 0]

\* Boots with -b scsi between them, over a modprobe.conf of somebody's own, and one
\* run cut short; and boots of machines whose devices are hard to tell apart.
LongLives ==
  {[machines |-> Cards, buses |-> {NIL, "SCSI"}, confs |-> {NIL, OwnConf \o UserConf},
    maxCrashes |-> 1], Quiet(Lookalikes)}
LivesOfTwoSounds == {Quiet(TwoSounds)}
LivesOfOneSound  == {Quiet(OneSound)}
=============================================================================
