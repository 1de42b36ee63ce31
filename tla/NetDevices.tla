------------------------------ MODULE NetDevices ------------------------------
(***************************************************************************)
(* The network devices of the probed list: sortNetDevices() and            *)
(* matchNetDevices() of kudzu.c, as probeDevices() runs them one after the *)
(* other, and main() the second alone on a list read from a socket.        *)
(*                                                                         *)
(* The devices are 1..N in the order qsort() left them; 0 is NULL.  A      *)
(* network device whose driver is loaded comes with the kernel's name for  *)
(* it and its hardware address, unless that could not be read; any other   *)
(* comes with its family alone ("eth", "tr"), a bare name, and no address. *)
(* confdevs holds what the ifcfg files say of an interface: its name, its  *)
(* HWADDR, and the driver modprobe.conf has as the alias of the name.      *)
(***************************************************************************)
EXTENDS Integers, Sequences, FiniteSets

CONSTANTS
  N,            \* the number of devices
  Nets,         \* the stretches of the list that may be network devices
  FamilyOrder,  \* the families of names, in the order of strcmp()
  Numbers,      \* the numbers in the kernel's and the configured names
  Drivers, NoDriver,
  MaxConf       \* bound on the number of ifcfg files

Null   == 0
NoAddr == 0
Bare   == -1
Eth    == "eth"

Devs     == 1..N
Families == {FamilyOrder[x] : x \in DOMAIN FamilyOrder}

\* The families pass 4 numbers.
Numbered == {"eth", "tr", "fddi"}

ASSUME NetAssumption ==
  /\ N \in Nat /\ Nets \subseteq SUBSET Devs /\ Numbers \subseteq Nat
  /\ Eth \in Families /\ Bare \notin Nat /\ NoDriver \notin Drivers

\* qsort() puts the devices of a type next to each other.
ASSUME QsortAssumption ==
  \A devs \in Nets : \A x, z \in devs, y \in Devs : x < y /\ y < z => y \in devs

Name(f, k)  == [fam |-> f, num |-> k]
BareName(f) == Name(f, Bare)
IsBare(n)   == n.num = Bare

FullNames   == [fam : Families, num : Nat]
BareNames   == [fam : Families, num : {Bare}]
KernelNames == [fam : Families, num : Numbers]

\* Each file names one interface, and says its address or has an alias.  The
\* address of device d is d; that of a device that has none stands for an
\* address no device of the list has.
ConfDevs ==
  {c \in [dev : KernelNames, hwaddr : Devs \cup {NoAddr}, driver : Drivers \cup {NoDriver}] :
     c.hwaddr # NoAddr \/ c.driver # NoDriver}

\* No interface and no address is configured twice.  isCfg() is there to skip
\* the copies of a file, but takes one called ifcfg-eth0.bak.
Distinct(files) ==
  \A x, y \in DOMAIN files : x # y =>
    /\ files[x].dev # files[y].dev
    /\ files[x].hwaddr = files[y].hwaddr => files[x].hwaddr = NoAddr

\* devCmp() orders the devices of a type by their names.
NotAfter(n, m) ==
  LET Place(f) == CHOOSE x \in DOMAIN FamilyOrder : FamilyOrder[x] = f
  IN \/ Place(n.fam) < Place(m.fam)
     \/ n.fam = m.fam /\ n.num <= m.num

VARIABLES
  net, kname, hwaddr, driver,   \* what the probes found
  confdevs,                     \* what is configured
  next,                         \* the next fields
  cur, nxt, tmp,                \* cur, next and tmp of sortNetDevices()
  device,                       \* the names given so far
  devicelist,                   \* the names handed out
  last,                         \* lasteth, lasttr, lastfddi
  pc, dev, tmpdev

found   == <<net, kname, hwaddr, driver, confdevs>>
sorting == <<cur, nxt, tmp>>
names   == <<device, devicelist, last>>
vars    == <<found, next, sorting, names, pc, dev, tmpdev>>

\* A mutant: the last device points to itself.
LinkedToItself == [d \in Devs |-> IF d = N THEN N ELSE d + 1]

Linked == [d \in Devs |-> IF d = N THEN Null ELSE d + 1]
FirstDev == IF N = 0 THEN Null ELSE 1

Init ==
  /\ net \in Nets
  /\ kname \in [Devs -> KernelNames \cup BareNames]
  /\ \A d \in Devs \ net : kname[d] = BareName(Eth)
  /\ \A d, e \in net : d # e /\ ~IsBare(kname[d]) => kname[d] # kname[e]
  /\ \A d, e \in net : d < e => NotAfter(kname[d], kname[e])
  /\ hwaddr \in {[d \in Devs |-> IF d \in known THEN d ELSE NoAddr] :
                   known \in SUBSET {d \in net : ~IsBare(kname[d])}}
  /\ driver \in [Devs -> Drivers \cup {NoDriver}]
  /\ confdevs \in UNION {[1..n -> ConfDevs] : n \in 0..MaxConf}
  /\ next = Linked
  /\ cur = FirstDev /\ nxt = Null /\ tmp = Null
  /\ device = kname /\ devicelist = {} /\ last = [f \in Numbered |-> 0]
  /\ pc \in {"find", "pass1"} /\ dev = FirstDev /\ tmpdev = 1

\* A mutant: the type of the device is not looked at.
AnyDevice(d) == d # Null

IsNet(d) == d # Null /\ d \in net

-----------------------------------------------------------------------------
(* sortNetDevices(): "We need to sort the network devices by module name."  *)

FindNet ==
  /\ pc = "find"
  /\ IF cur # Null /\ ~IsNet(cur) THEN cur' = next[cur] /\ pc' = pc
                                  ELSE cur' = cur /\ pc' = "group"
  /\ UNCHANGED <<found, next, nxt, tmp, names, dev, tmpdev>>

Group ==
  /\ pc = "group"
  /\ IF IsNet(cur) /\ IsNet(next[cur])
     THEN nxt' = next[cur] /\ tmp' = next[next[cur]] /\ pc' = "scan"
     ELSE pc' = "pass1" /\ UNCHANGED <<nxt, tmp>>
  /\ UNCHANGED <<found, next, cur, names, dev, tmpdev>>

SameModule(d, e) == driver[d] # NoDriver /\ driver[d] = driver[e]

\* The links once tmp is moved from after nxt to after cur.
Moved ==
  LET out == [next EXCEPT ![nxt] = next[tmp]]
      in  == [out EXCEPT ![tmp] = out[cur]]
  IN [in EXCEPT ![cur] = tmp]

Scan ==
  /\ pc = "scan" /\ IsNet(tmp)
  /\ next' = IF SameModule(cur, tmp) THEN Moved ELSE next
  /\ cur' = IF SameModule(cur, tmp) THEN tmp ELSE cur
  /\ nxt' = tmp /\ tmp' = next'[tmp]
  /\ UNCHANGED <<found, names, pc, dev, tmpdev>>

EndScan ==
  /\ pc = "scan" /\ ~IsNet(tmp)
  /\ cur' = next[cur] /\ pc' = "group"
  /\ UNCHANGED <<found, next, nxt, tmp, names, dev, tmpdev>>

-----------------------------------------------------------------------------
(* matchNetDevices() *)

NextDevice == dev' = next[dev] /\ tmpdev' = 1

\* A pass over all devices ends, and the next one starts.
EndPass ==
  /\ pc \in {"pass1", "pass2", "pass4"} /\ dev = Null
  /\ pc' = CASE pc = "pass1" -> "pass2" [] pc = "pass2" -> "pass4" [] pc = "pass4" -> "done"
  /\ dev' = FirstDev /\ tmpdev' = 1
  /\ UNCHANGED <<found, next, sorting, names>>

Visiting(p) == pc = p /\ IsNet(dev)

OtherType ==
  /\ pc \in {"pass1", "pass2", "pass4"} /\ dev # Null /\ ~IsNet(dev)
  /\ NextDevice
  /\ UNCHANGED <<found, next, sorting, names, pc>>

\* removeMatchingDevices(): every other network device of that name is left
\* with its family, or with "eth" when pass 4 does not number the family.
BareNameOf(n) == BareName(IF n.fam \in Numbered THEN n.fam ELSE Eth)

\* A mutant: a device that has the name already keeps it.
OthersKeepName(given, d) == given

RemoveMatchingDevices(given, d) ==
  [e \in Devs |-> IF e # d /\ e \in net /\ given[e] = given[d] THEN BareNameOf(given[e])
                                                               ELSE given[e]]

Give(d, n) ==
  /\ device' = RemoveMatchingDevices([device EXCEPT ![d] = n], d)
  /\ devicelist' = devicelist \cup {n}

\* Pass 1; fix any device names that are configured
Pinned(d, c) == hwaddr[d] # NoAddr /\ c.hwaddr = hwaddr[d]

Pass1 ==
  /\ Visiting("pass1") /\ tmpdev <= Len(confdevs)
  /\ LET c == confdevs[tmpdev]
     IN IF Pinned(dev, c) /\ device[dev] # c.dev
        THEN Give(dev, c.dev)
        ELSE UNCHANGED <<device, devicelist>>
  /\ tmpdev' = tmpdev + 1
  /\ UNCHANGED <<found, next, sorting, last, pc, dev>>

\* A mutant: names already handed out are not looked up.
GuessedAnyName(d, c) == driver[d] # NoDriver /\ c.driver = driver[d]

\* Pass 2; guess by driver
Guessed(d, c) == driver[d] # NoDriver /\ c.driver = driver[d] /\ c.dev \notin devicelist

Pass2 ==
  /\ Visiting("pass2") /\ tmpdev <= Len(confdevs)
  /\ LET c == confdevs[tmpdev]
     IN IF Guessed(dev, c)
        THEN Give(dev, c.dev) /\ NextDevice
        ELSE UNCHANGED <<device, devicelist, dev>> /\ tmpdev' = tmpdev + 1
  /\ UNCHANGED <<found, next, sorting, last, pc>>

NoConfLeft ==
  /\ Visiting("pass1") \/ Visiting("pass2")
  /\ tmpdev > Len(confdevs)
  /\ NextDevice
  /\ UNCHANGED <<found, next, sorting, names, pc>>

\* Pass 4: everything else
Nameless(d) == IsBare(device[d]) /\ device[d].fam \in Numbered

Pass4Named ==
  /\ Visiting("pass4") /\ ~Nameless(dev)
  /\ NextDevice
  /\ UNCHANGED <<found, next, sorting, names, pc>>

NextName(f) == Name(f, last[f])

Pass4Taken ==
  /\ Visiting("pass4") /\ Nameless(dev)
  /\ LET f == device[dev].fam
     IN NextName(f) \in devicelist /\ last' = [last EXCEPT ![f] = @ + 1]
  /\ UNCHANGED <<found, next, sorting, device, devicelist, pc, dev, tmpdev>>

Pass4 ==
  /\ Visiting("pass4") /\ Nameless(dev)
  /\ LET f == device[dev].fam
     IN /\ NextName(f) \notin devicelist
        /\ Give(dev, NextName(f))
        /\ last' = [last EXCEPT ![f] = @ + 1]
  /\ NextDevice
  /\ UNCHANGED <<found, next, sorting, pc>>

Next ==
  \/ FindNet \/ Group \/ Scan \/ EndScan
  \/ EndPass \/ OtherType
  \/ Pass1 \/ Pass2 \/ NoConfLeft
  \/ Pass4Named \/ Pass4Taken \/ Pass4

Spec == Init /\ [][Next]_vars /\ WF_vars(Next)

-----------------------------------------------------------------------------
(* Properties *)

\* Links, positions and names are what they should be.
TypeOK ==
  /\ next \in [Devs -> Devs \cup {Null}]
  /\ {cur, nxt, tmp, dev} \subseteq Devs \cup {Null}
  /\ device \in [Devs -> FullNames \cup BareNames]
  /\ devicelist \subseteq FullNames
  /\ last \in [Numbered -> Nat]
  /\ pc \in {"find", "group", "scan", "pass1", "pass2", "pass4", "done"}
  /\ tmpdev \in 1..(Len(confdevs) + 1)

\* The devices in the order of the links.
List ==
  LET at[x \in Devs] == IF x = 1 THEN FirstDev ELSE IF at[x - 1] = Null THEN Null ELSE next[at[x - 1]]
  IN at

\* Sorting loses no device, moves none but network devices, and leaves those
\* of a module next to each other.  probeDevices() then follows numDevs links
\* to fill its array again.
SortedByModule ==
  pc = "pass1" /\ cur # FirstDev =>
    /\ {List[x] : x \in Devs} = Devs
    /\ N > 0 => next[List[N]] = Null
    /\ \A x \in Devs : List[x] \notin net => List[x] = x
    /\ \A x, y, z \in Devs :
         x < y /\ y < z /\ {List[x], List[y], List[z]} \subseteq net =>
           (SameModule(List[x], List[z]) => SameModule(List[x], List[y]))

\* No two devices ever have the same full name: configure() would alias it to
\* the drivers of both, one after the other.
OneDevicePerName ==
  \A d, e \in net : device[d] = device[e] => d = e \/ IsBare(device[d])

\* A name handed out by one of the passes stays with its device: only the
\* device pass 1 or 2 is looking at can give its name up, for another one.
NamesGivenAreKept ==
  [][Distinct(confdevs) => \A d \in net : device[d] \in devicelist /\ device'[d] # device[d] =>
       d = dev /\ pc \in {"pass1", "pass2"}]_vars

\* Both functions return: the links they follow end, and pass 4 finds a
\* number that is free.
Returns == <>(pc = "done")

\* "Match network devices in devlist with their configured names" (kudzu.h):
\* in the end a device whose address is configured has the configured name.
PinnedNames ==
  pc = "done" /\ Distinct(confdevs) =>
    \A d \in net, x \in DOMAIN confdevs :
      Pinned(d, confdevs[x]) => device[d] = confdevs[x].dev

\* That holds when all that is configured is the address of a device that the
\* kernel gave another name: then pass 1 handed every configured name out.
PinnedWhenRenamed ==
  (\A x \in DOMAIN confdevs : \E d \in net :
     Pinned(d, confdevs[x]) /\ kname[d] # confdevs[x].dev) =>
    PinnedNames

\* "guarantee uniqueness of network device names" (kudzu.spec): in the end
\* no two devices have the same name.
NamesUnique == pc = "done" => \A d, e \in net : device[d] = device[e] => d = e
=============================================================================
