----------------------------- MODULE MCConfigMenu -----------------------------
(* Instances of ConfigMenu for TLC. *)
EXTENDS ConfigMenu

CONSTANTS e100, tulip, emu, ymf, gone, vesa, h1, h2

Dev(type, bus, device, driver, id) ==
  [type |-> type, bus |-> bus, device |-> device, driver |-> driver, hwaddr |-> NIL,
   detached |-> FALSE, id |-> id, part |-> IF bus = "PCI" THEN 1 ELSE 0, slot |-> 0,
   index |-> 0]

Eth(n) == <<"eth", n>>
Pci(v) == <<v, 1, NoSubId, NoSubId>>

Nic(n, driver, hw, v) == [Dev(Network, "PCI", Eth(n), driver, Pci(v)) EXCEPT !.hwaddr = hw]
InCardbus(d) == [d EXCEPT !.part = Cardbus, !.detached = TRUE]
PciSound(driver, v) == Dev(Audio, "PCI", NIL, driver, Pci(v))
Screen == Dev(Video, "PCI", NIL, vesa, Pci(11))
Console == Dev(Keyboard, "KEYBOARD", <<"hvc0">>, NIL, <<0>>)
Disk == Dev(Other, "SCSI", <<"sda">>, NIL, <<0>>)
Ports(v) == Dev(Other, "PCI", NIL, ParportSerial, Pci(v))

\* The lists of some of the devices of a universe, in its order.
Chosen(universe, S) ==
  LET places == SelectSeq([x \in DOMAIN universe |-> x], LAMBDA x : x \in S)
  IN Indexed([x \in DOMAIN places |-> universe[places[x]]])
SubLists(universe) == {Chosen(universe, S) : S \in SUBSET DOMAIN universe}

\* What was there: a card whose driver changes, one that goes, one that can be
\* put in and out, two sound cards, a parallel port, a device nobody configures.
OldDevices ==
  <<Nic(0, e100, h1, 1), Nic(1, tulip, h2, 4), InCardbus(Nic(2, tulip, NIL, 5)),
    PciSound(emu, 7), Disk, Ports(9),
    PciSound(ymf, 12)>>
NewDevices ==
  <<Nic(0, tulip, h1, 1), Nic(1, e100, h2, 1), Nic(3, gone, NIL, 8),
    PciSound(ymf, 7), PciSound(emu, 10), Screen, Console, Ports(13)>>

AtMost(n, lists) == {l \in lists : Len(l) <= n}
AllOld == AtMost(3, SubLists(OldDevices))
AllNew == AtMost(3, SubLists(NewDevices))

SoundConf ==
  <<AliasLine(SndCard(0), emu), IndexOption(SndCard(0), 0), IndexOption(<<emu>>, 0),
    RemoveRule(emu, 0), AliasLine(Eth(1), tulip), AliasLine(<<"synth", 1>>, emu),
    AliasLine(<<"parport_lowlevel">>, ParportSerial)>>
\* The same with a second card.
TwoSoundsConf == SoundConf \o <<AliasLine(SndCard(1), ymf), IndexOption(SndCard(1), 1)>>

SomeConfs == {NIL, TwoSoundsConf, <<AliasLine(Eth(0), e100), AliasLine(Eth(1), e100)>>, SoundConf}
=============================================================================
