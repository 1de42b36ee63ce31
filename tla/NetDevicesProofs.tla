--------------------------- MODULE NetDevicesProofs ---------------------------
(***************************************************************************)
(* Proofs about sortNetDevices() and matchNetDevices() for any number of   *)
(* devices, names, drivers and ifcfg files.                                *)
(***************************************************************************)
EXTENDS NetDevices, Inductions

USE NetAssumption

-----------------------------------------------------------------------------
(* The inductive invariant *)

\* What the probes found and what is configured, which nothing changes.
FoundOK ==
  /\ net \in Nets /\ net \subseteq Devs
  /\ kname \in [Devs -> FullNames \cup BareNames]
  /\ \A d, e \in net : hwaddr[d] = hwaddr[e] => d = e \/ hwaddr[d] = NoAddr
  /\ confdevs \in Seq([dev : FullNames, hwaddr : Devs \cup {NoAddr}, driver : Drivers \cup {NoDriver}])

\* The scan has a device to link to, the passes 1 and 2 one to name.
PositionsOK == pc = "scan" => cur \in Devs

\* In pass 1 whoever has a name handed out is configured to have it.
PinnedGiven ==
  pc = "pass1" => \A d \in net : device[d] \in devicelist =>
    \E x \in DOMAIN confdevs : Pinned(d, confdevs[x]) /\ confdevs[x].dev = device[d]

\* No name is handed out while the list is sorted.
NoneYet == pc \in {"find", "group", "scan"} => devicelist = {}

IInv == NoneYet /\ TypeOK /\ FoundOK /\ PositionsOK /\ PinnedGiven /\ OneDevicePerName

LEMMA NamesOK ==
  /\ FullNames \cap BareNames = {}
  /\ \A n \in FullNames : ~IsBare(n) /\ BareNameOf(n) \in BareNames
  /\ \A n \in BareNames : IsBare(n) /\ BareNameOf(n) \in BareNames
BY DEF FullNames, BareNames, IsBare, BareNameOf, BareName, Name, Bare

\* Giving a device a full name: the others keep theirs or are left bare.
LEMMA GiveOK ==
  ASSUME TypeOK, FoundOK, OneDevicePerName, NEW d \in net, NEW n \in FullNames, Give(d, n)
  PROVE  /\ device' \in [Devs -> FullNames \cup BareNames]
         /\ devicelist' \subseteq FullNames
         /\ device'[d] = n
         /\ \A e \in net : e # d => device'[e] = IF device[e] = n THEN BareNameOf(n) ELSE device[e]
         /\ \A e, f \in net : device'[e] = device'[f] => e = f \/ IsBare(device'[e])
<1> DEFINE given == [device EXCEPT ![d] = n]
<1>1. /\ d \in Devs /\ given \in [Devs -> FullNames \cup BareNames] /\ given[d] = n
      /\ \A e \in Devs : e # d => given[e] = device[e]
  BY DEF TypeOK, FoundOK
<1>2. device' = [e \in Devs |-> IF e # d /\ e \in net /\ given[e] = given[d]
                                THEN BareNameOf(given[e]) ELSE given[e]]
  BY DEF Give, RemoveMatchingDevices
<1> HIDE DEF given
<1>3. \A e \in Devs : given[e] \in FullNames \cup BareNames /\ BareNameOf(given[e]) \in BareNames
  BY <1>1, NamesOK
<1>4. device' \in [Devs -> FullNames \cup BareNames] /\ device'[d] = n
  BY <1>1, <1>2, <1>3
<1>5. \A e \in net : e # d => device'[e] = IF device[e] = n THEN BareNameOf(n) ELSE device[e]
  BY <1>1, <1>2 DEF FoundOK
<1>6. devicelist' \subseteq FullNames
  BY DEF Give, TypeOK
<1>7. ASSUME NEW e \in net, NEW f \in net, device'[e] = device'[f], e # f
      PROVE  IsBare(device'[e])
  <2>1. IsBare(BareNameOf(n)) /\ ~IsBare(n)
    BY NamesOK
  <2>2. CASE e # d /\ f # d
    BY <1>5, <1>7, <2>1, <2>2 DEF OneDevicePerName
  <2>3. CASE e = d \/ f = d
    BY <1>4, <1>5, <1>7, <2>1, <2>3
  <2>4. QED
    BY <2>2, <2>3
<1>8. QED
  BY <1>4, <1>5, <1>6, <1>7

LEMMA FunctionIsSeq ==
  ASSUME NEW S, NEW n \in Nat, NEW f \in [1..n -> S]
  PROVE  f \in Seq(S) /\ Len(f) \in Nat
OBVIOUS

LEMMA ConfDevOK ==
  ASSUME FoundOK, NEW x \in 1..Len(confdevs)
  PROVE  x \in DOMAIN confdevs /\ confdevs[x].dev \in FullNames
<1> DEFINE S == [dev : FullNames, hwaddr : Devs \cup {NoAddr}, driver : Drivers \cup {NoDriver}]
<1>1. confdevs \in Seq(S)
  BY DEF FoundOK
<1>2. DOMAIN confdevs = 1..Len(confdevs) /\ confdevs[x] \in S
  <2> HIDE DEF S
  <2>1. QED
    BY <1>1
<1>3. QED
  BY <1>2

LEMMA InitIInv == Init => IInv
<1> SUFFICES ASSUME Init PROVE IInv
  OBVIOUS
<1>1. KernelNames \subseteq FullNames /\ BareName(Eth) \in BareNames
  BY DEF KernelNames, FullNames, BareNames, BareName, Name
<1>2. net \in Nets /\ net \subseteq Devs /\ kname \in [Devs -> FullNames \cup BareNames]
  BY <1>1 DEF Init
<1>3. \A d, e \in net : hwaddr[d] = hwaddr[e] => d = e \/ hwaddr[d] = NoAddr
  <2>1. PICK known \in SUBSET {d \in net : ~IsBare(kname[d])} :
                hwaddr = [d \in Devs |-> IF d \in known THEN d ELSE NoAddr]
    BY DEF Init
  <2>2. \A d \in net : hwaddr[d] = IF d \in known THEN d ELSE NoAddr
    BY <1>2, <2>1
  <2>3. QED
    BY <2>2
<1>4. /\ confdevs \in Seq([dev : FullNames, hwaddr : Devs \cup {NoAddr}, driver : Drivers \cup {NoDriver}])
      /\ Len(confdevs) \in Nat
  <2>1. PICK n \in 0..MaxConf : confdevs \in [1..n -> ConfDevs]
    BY DEF Init
  <2>2. n \in Nat
    BY <2>1
  <2>3. ConfDevs \subseteq [dev : FullNames, hwaddr : Devs \cup {NoAddr}, driver : Drivers \cup {NoDriver}]
    BY <1>1 DEF ConfDevs
  <2>4. confdevs \in [1..n -> [dev : FullNames, hwaddr : Devs \cup {NoAddr}, driver : Drivers \cup {NoDriver}]]
    BY <2>1, <2>3
  <2>5. /\ confdevs \in Seq([dev : FullNames, hwaddr : Devs \cup {NoAddr}, driver : Drivers \cup {NoDriver}])
        /\ Len(confdevs) \in Nat
    BY <2>2, <2>4, FunctionIsSeq
  <2>6. QED
    BY <2>5
<1>5. FirstDev \in Devs \cup {Null} /\ Linked \in [Devs -> Devs \cup {Null}]
  BY DEF FirstDev, Linked, Devs, Null
<1>6. TypeOK
  BY <1>2, <1>4, <1>5 DEF Init, TypeOK
<1>7. OneDevicePerName
  BY <1>2 DEF Init, OneDevicePerName
<1>8. QED
  BY <1>2, <1>3, <1>4, <1>6, <1>7 DEF Init, IInv, NoneYet, FoundOK, PositionsOK, PinnedGiven

\* A step that gives no name.
LEMMA QuietStep ==
  ASSUME IInv, TypeOK', PositionsOK', NoneYet', UNCHANGED <<found, device, devicelist>>,
         pc' = "pass1" => pc = "pass1" \/ devicelist = {}
  PROVE  IInv'
<1>1. FoundOK' /\ OneDevicePerName'
  BY DEF found, IInv, FoundOK, OneDevicePerName
<1>2. PinnedGiven'
  BY DEF found, IInv, PinnedGiven, Pinned
<1>3. QED
  BY <1>1, <1>2 DEF IInv

\* A step that gives device d a full name, which nobody else holds if it was
\* handed out before.
LEMMA NamingStep ==
  ASSUME IInv, TypeOK', PositionsOK', NoneYet', UNCHANGED found,
         NEW d \in net, NEW n \in FullNames, Give(d, n),
         pc' = "pass1" => pc = "pass1" /\ \E x \in DOMAIN confdevs : Pinned(d, confdevs[x]) /\ confdevs[x].dev = n
  PROVE  IInv'
<1>1. /\ device'[d] = n
      /\ \A e \in net : e # d => device'[e] = IF device[e] = n THEN BareNameOf(n) ELSE device[e]
      /\ \A e, f \in net : device'[e] = device'[f] => e = f \/ IsBare(device'[e])
  BY GiveOK DEF IInv
<1>2. FoundOK' /\ OneDevicePerName'
  BY <1>1 DEF found, IInv, FoundOK, OneDevicePerName
<1>3. ASSUME pc' = "pass1", NEW e \in net, device'[e] \in devicelist'
      PROVE  \E x \in DOMAIN confdevs : Pinned(e, confdevs[x]) /\ confdevs[x].dev = device'[e]
  <2>1. CASE e = d
    BY <1>1, <1>3, <2>1
  <2>2. CASE e # d
    <3>1. device'[e] \in FullNames
      BY <1>3 DEF TypeOK
    <3>2. device'[e] = device[e] /\ device[e] # n
      BY <1>1, <2>2, <3>1, NamesOK
    <3>3. device[e] \in devicelist
      BY <1>3, <3>2 DEF Give
    <3>4. QED
      BY <1>3, <3>2, <3>3 DEF IInv, PinnedGiven
  <2>3. QED
    BY <2>1, <2>2
<1>4. PinnedGiven'
  BY <1>3 DEF found, PinnedGiven, Pinned
<1>5. QED
  BY <1>2, <1>4 DEF IInv

LEMMA StepIInv == IInv /\ [Next]_vars => IInv'
<1> SUFFICES ASSUME IInv, [Next]_vars PROVE IInv'
  OBVIOUS
<1> USE DEF Null, names, sorting
<1>0. /\ TypeOK /\ FoundOK /\ PositionsOK /\ NoneYet
      /\ next \in [Devs -> Devs \cup {Null}]
      /\ {cur, nxt, tmp, dev} \subseteq Devs \cup {Null}
      /\ net \subseteq Devs /\ 0 \notin Devs
      /\ Len(confdevs) \in Nat
      /\ FirstDev \in Devs \cup {Null}
  BY DEF IInv, TypeOK, FoundOK, Devs, FirstDev
<1>1. CASE FindNet
  <2>1. TypeOK' /\ PositionsOK' /\ NoneYet'
    BY <1>0, <1>1 DEF FindNet, TypeOK, PositionsOK, NoneYet, IsNet, found
  <2>2. QED
    BY <1>1, <2>1, QuietStep DEF FindNet
<1>2. CASE Group
  <2>1. TypeOK' /\ PositionsOK' /\ NoneYet'
    BY <1>0, <1>2 DEF Group, TypeOK, PositionsOK, NoneYet, IsNet, found
  <2>2. QED
    BY <1>0, <1>2, <2>1, QuietStep DEF Group, NoneYet
<1>3. CASE Scan
  <2>1. cur \in Devs /\ tmp \in Devs
    BY <1>0, <1>3 DEF Scan, PositionsOK, IsNet
  <2>2. next' \in [Devs -> Devs \cup {Null}]
    BY <1>0, <1>3, <2>1 DEF Scan, Moved
  <2>3. TypeOK' /\ PositionsOK' /\ NoneYet'
    BY <1>0, <1>3, <2>1, <2>2 DEF Scan, TypeOK, PositionsOK, NoneYet, found
  <2>4. QED
    BY <1>3, <2>3, QuietStep DEF Scan
<1>4. CASE EndScan
  <2>1. TypeOK' /\ PositionsOK' /\ NoneYet'
    BY <1>0, <1>4 DEF EndScan, TypeOK, PositionsOK, NoneYet, found
  <2>2. QED
    BY <1>4, <2>1, QuietStep DEF EndScan
<1>5. CASE EndPass
  <2>1. TypeOK' /\ PositionsOK' /\ NoneYet' /\ pc' # "pass1"
    BY <1>0, <1>5 DEF EndPass, TypeOK, PositionsOK, NoneYet, found
  <2>2. QED
    BY <1>5, <2>1, QuietStep DEF EndPass
<1>6. CASE OtherType
  <2>1. TypeOK' /\ PositionsOK' /\ NoneYet'
    BY <1>0, <1>6 DEF OtherType, NextDevice, TypeOK, PositionsOK, NoneYet, found
  <2>2. QED
    BY <1>6, <2>1, QuietStep DEF OtherType
<1>7. CASE Pass1
  <2> DEFINE c == confdevs[tmpdev]
  <2>1. dev \in net /\ tmpdev \in DOMAIN confdevs /\ c.dev \in FullNames /\ tmpdev \in 1..Len(confdevs)
    <3>1. dev \in net /\ tmpdev <= Len(confdevs)
      BY <1>7 DEF Pass1, Visiting, IsNet
    <3>2. tmpdev \in 1..(Len(confdevs) + 1)
      BY <1>0 DEF TypeOK
    <3>3. tmpdev \in 1..Len(confdevs)
      BY <1>0, <3>1, <3>2
    <3>4. QED
      BY <3>1, <3>3, ConfDevOK DEF IInv
  <2>2. CASE Pinned(dev, c) /\ device[dev] # c.dev
    <3>1. Give(dev, c.dev)
      BY <1>7, <2>2 DEF Pass1
    <3>2. device' \in [Devs -> FullNames \cup BareNames] /\ devicelist' \subseteq FullNames
      BY <2>1, <3>1, GiveOK DEF IInv
    <3>3. TypeOK' /\ PositionsOK' /\ NoneYet'
      BY <1>0, <1>7, <2>1, <3>2 DEF Pass1, Visiting, TypeOK, PositionsOK, NoneYet, found
    <3>4. QED
      BY <1>7, <2>1, <2>2, <3>1, <3>3, NamingStep DEF Pass1, Visiting
  <2>3. CASE ~(Pinned(dev, c) /\ device[dev] # c.dev)
    <3>1. UNCHANGED <<device, devicelist>>
      BY <1>7, <2>3 DEF Pass1
    <3>2. TypeOK' /\ PositionsOK' /\ NoneYet'
      BY <1>0, <1>7, <2>1, <3>1 DEF Pass1, Visiting, TypeOK, PositionsOK, NoneYet, found
    <3>3. QED
      BY <1>7, <3>1, <3>2, QuietStep DEF Pass1, Visiting
  <2>4. QED
    BY <2>2, <2>3
<1>8. CASE Pass2
  <2> DEFINE c == confdevs[tmpdev]
  <2>1. dev \in net /\ tmpdev \in DOMAIN confdevs /\ c.dev \in FullNames /\ tmpdev \in 1..Len(confdevs)
    <3>1. dev \in net /\ tmpdev <= Len(confdevs)
      BY <1>8 DEF Pass2, Visiting, IsNet
    <3>2. tmpdev \in 1..(Len(confdevs) + 1)
      BY <1>0 DEF TypeOK
    <3>3. tmpdev \in 1..Len(confdevs)
      BY <1>0, <3>1, <3>2
    <3>4. QED
      BY <3>1, <3>3, ConfDevOK DEF IInv
  <2>2. CASE Guessed(dev, c)
    <3>1. Give(dev, c.dev)
      BY <1>8, <2>2 DEF Pass2
    <3>2. device' \in [Devs -> FullNames \cup BareNames] /\ devicelist' \subseteq FullNames
      BY <2>1, <3>1, GiveOK DEF IInv
    <3>3. TypeOK' /\ PositionsOK' /\ NoneYet' /\ pc' # "pass1"
      BY <1>0, <1>8, <2>1, <2>2, <3>2 DEF Pass2, NextDevice, Visiting, TypeOK, PositionsOK, NoneYet, found
    <3>4. QED
      BY <1>8, <2>1, <2>2, <3>1, <3>3, NamingStep DEF Pass2, Visiting
  <2>3. CASE ~Guessed(dev, c)
    <3>1. UNCHANGED <<device, devicelist>>
      BY <1>8, <2>3 DEF Pass2
    <3>2. TypeOK' /\ PositionsOK' /\ NoneYet' /\ pc' # "pass1"
      BY <1>0, <1>8, <2>1, <2>3, <3>1 DEF Pass2, Visiting, TypeOK, PositionsOK, NoneYet, found
    <3>3. QED
      BY <1>8, <3>1, <3>2, QuietStep DEF Pass2, Visiting
  <2>4. QED
    BY <2>2, <2>3
<1>9. CASE NoConfLeft
  <2>1. TypeOK' /\ PositionsOK' /\ NoneYet'
    BY <1>0, <1>9 DEF NoConfLeft, NextDevice, Visiting, IsNet, TypeOK, PositionsOK, NoneYet, found
  <2>2. QED
    BY <1>9, <2>1, QuietStep DEF NoConfLeft
<1>10. CASE Pass4Named
  <2>1. TypeOK' /\ PositionsOK' /\ NoneYet' /\ pc' # "pass1"
    BY <1>0, <1>10 DEF Pass4Named, NextDevice, Visiting, IsNet, TypeOK, PositionsOK, NoneYet, found
  <2>2. QED
    BY <1>10, <2>1, QuietStep DEF Pass4Named
<1>11. CASE Pass4Taken
  <2>1. device[dev].fam \in Numbered
    BY <1>11 DEF Pass4Taken, Nameless
  <2>2. last' \in [Numbered -> Nat]
    BY <1>0, <1>11, <2>1 DEF Pass4Taken, TypeOK
  <2>3. TypeOK' /\ PositionsOK' /\ NoneYet' /\ pc' # "pass1"
    BY <1>0, <1>11, <2>2 DEF Pass4Taken, Visiting, TypeOK, PositionsOK, NoneYet, found
  <2>4. QED
    BY <1>11, <2>3, QuietStep DEF Pass4Taken
<1>12. CASE Pass4
  <2> DEFINE f == device[dev].fam
  <2>1. dev \in net /\ f \in Numbered
    BY <1>12 DEF Pass4, Visiting, IsNet, Nameless
  <2>2. f \in Families
    BY <1>0, <2>1 DEF TypeOK, FullNames, BareNames
  <2>3. NextName(f) \in FullNames /\ last' \in [Numbered -> Nat]
    BY <1>0, <1>12, <2>1, <2>2 DEF Pass4, TypeOK, NextName, Name, FullNames
  <2>4. Give(dev, NextName(f))
    BY <1>12 DEF Pass4
  <2>5. device' \in [Devs -> FullNames \cup BareNames] /\ devicelist' \subseteq FullNames
    BY <2>1, <2>3, <2>4, GiveOK DEF IInv
  <2>6. TypeOK' /\ PositionsOK' /\ NoneYet' /\ pc' # "pass1"
    BY <1>0, <1>12, <2>1, <2>3, <2>5 DEF Pass4, NextDevice, Visiting, TypeOK, PositionsOK, NoneYet, found
  <2>7. QED
    BY <1>12, <2>1, <2>3, <2>4, <2>6, NamingStep DEF Pass4
<1>13. CASE UNCHANGED vars
  <2>1. TypeOK' /\ PositionsOK' /\ NoneYet'
    BY <1>0, <1>13 DEF vars, TypeOK, PositionsOK, NoneYet, found
  <2>2. QED
    BY <1>13, <2>1, QuietStep DEF vars
<1>14. QED
  BY <1>1, <1>2, <1>3, <1>4, <1>5, <1>6, <1>7, <1>8, <1>9, <1>10, <1>11, <1>12, <1>13 DEF Next

-----------------------------------------------------------------------------
(* Theorems *)

\* The invariant holds of every run of the two functions.
THEOREM NetDevicesIInv == Spec => []IInv
BY InitIInv, StepIInv, PTL DEF Spec

\* The links of the list, the positions in it and the names are always what
\* sortNetDevices() and matchNetDevices() take them for.
THEOREM NetDevicesTypeOK == Spec => []TypeOK
<1>1. IInv => TypeOK
  BY DEF IInv
<1>2. QED
  BY <1>1, NetDevicesIInv, PTL

\* matchNetDevices() and removeMatchingDevices() never leave two network
\* devices with the same full name, between any two of their steps.
THEOREM NetDevicesOneDevicePerName == Spec => []OneDevicePerName
<1>1. IInv => OneDevicePerName
  BY DEF IInv
<1>2. QED
  BY <1>1, NetDevicesIInv, PTL

NamesKept ==
  Distinct(confdevs) => \A d \in net : device[d] \in devicelist /\ device'[d] # device[d] =>
    d = dev /\ pc \in {"pass1", "pass2"}

\* No device but d has the name n when d is given it.
LEMMA GivingKeepsNames ==
  ASSUME IInv, NEW d \in net, NEW n \in FullNames, Give(d, n), n \notin devicelist
  PROVE  \A e \in net : device[e] \in devicelist /\ device'[e] # device[e] => e = d
<1>1. \A e \in net : e # d => device'[e] = IF device[e] = n THEN BareNameOf(n) ELSE device[e]
  BY GiveOK DEF IInv
<1>2. QED
  BY <1>1

\* A name that one of the passes of matchNetDevices() has handed out stays
\* with its device: a step takes it only from the device the pass is at.
THEOREM NetDevicesNamesKept == Spec => NamesGivenAreKept
<1>1. ASSUME IInv, [Next]_vars PROVE [NamesKept]_vars
  <2> USE DEF names, NamesKept
  <2>1. CASE Pass1
    <3> DEFINE c == confdevs[tmpdev]
    <3>1. /\ dev \in net /\ tmpdev <= Len(confdevs) /\ pc = "pass1"
          /\ tmpdev \in 1..(Len(confdevs) + 1) /\ Len(confdevs) \in Nat
      BY <1>1, <2>1 DEF Pass1, Visiting, IsNet, IInv, TypeOK, FoundOK
    <3>2. tmpdev \in 1..Len(confdevs)
      BY <3>1
    <3>3. tmpdev \in DOMAIN confdevs /\ c.dev \in FullNames
      BY <1>1, <3>2, ConfDevOK DEF IInv
    <3>4. CASE Pinned(dev, c) /\ device[dev] # c.dev
      <4>1. Give(dev, c.dev)
        BY <2>1, <3>4 DEF Pass1
      <4>2. \A e \in net : e # dev => device'[e] = IF device[e] = c.dev THEN BareNameOf(c.dev) ELSE device[e]
        BY <1>1, <3>1, <3>3, <4>1, GiveOK DEF IInv
      <4>3. ASSUME Distinct(confdevs), NEW e \in net, e # dev, device[e] \in devicelist, device[e] = c.dev
            PROVE  FALSE
        <5>1. PICK x \in DOMAIN confdevs : Pinned(e, confdevs[x]) /\ confdevs[x].dev = c.dev
          BY <1>1, <3>1, <4>3 DEF IInv, PinnedGiven
        <5>2. x = tmpdev
          BY <3>3, <4>3, <5>1 DEF Distinct
        <5>3. hwaddr[e] = hwaddr[dev] /\ hwaddr[e] # NoAddr
          BY <3>4, <5>1, <5>2 DEF Pinned
        <5>4. QED
          BY <1>1, <3>1, <4>3, <5>3 DEF IInv, FoundOK
      <4>4. QED
        BY <3>1, <4>2, <4>3
    <3>5. CASE ~(Pinned(dev, c) /\ device[dev] # c.dev)
      BY <2>1, <3>5 DEF Pass1
    <3>6. QED
      BY <3>4, <3>5
  <2>2. CASE Pass2
    <3> DEFINE c == confdevs[tmpdev]
    <3>1. /\ dev \in net /\ tmpdev <= Len(confdevs) /\ pc = "pass2"
          /\ tmpdev \in 1..(Len(confdevs) + 1) /\ Len(confdevs) \in Nat
      BY <1>1, <2>2 DEF Pass2, Visiting, IsNet, IInv, TypeOK, FoundOK
    <3>2. tmpdev \in 1..Len(confdevs)
      BY <3>1
    <3>3. tmpdev \in DOMAIN confdevs /\ c.dev \in FullNames
      BY <1>1, <3>2, ConfDevOK DEF IInv
    <3>4. CASE Guessed(dev, c)
      <4>1. Give(dev, c.dev) /\ c.dev \notin devicelist
        BY <2>2, <3>4 DEF Pass2, Guessed
      <4>2. QED
        BY <1>1, <3>1, <3>3, <4>1, GivingKeepsNames
    <3>5. CASE ~Guessed(dev, c)
      BY <2>2, <3>5 DEF Pass2
    <3>6. QED
      BY <3>4, <3>5
  <2>3. CASE Pass4
    <3> DEFINE f == device[dev].fam
    <3>1. dev \in net /\ IsBare(device[dev]) /\ f \in Numbered
      BY <2>3 DEF Pass4, Visiting, IsNet, Nameless
    <3>2. NextName(f) \in FullNames
      BY <1>1, <3>1 DEF IInv, TypeOK, FoundOK, NextName, Name, FullNames, BareNames
    <3>3. Give(dev, NextName(f)) /\ NextName(f) \notin devicelist
      BY <2>3 DEF Pass4
    <3>4. device[dev] \notin devicelist
      BY <1>1, <3>1, NamesOK DEF IInv, TypeOK
    <3>5. QED
      BY <1>1, <3>1, <3>2, <3>3, <3>4, GivingKeepsNames
  <2>4. CASE UNCHANGED device
    BY <2>4
  <2>5. QED
    BY <1>1, <2>1, <2>2, <2>3, <2>4
    DEF Next, vars, FindNet, Group, Scan, EndScan, EndPass, OtherType, NoConfLeft, Pass4Named, Pass4Taken
<1>2. QED
  BY <1>1, NetDevicesIInv, PTL DEF Spec, NamesGivenAreKept, NamesKept

-----------------------------------------------------------------------------
(***************************************************************************)
(* The order sortNetDevices() leaves the devices in, and the configured    *)
(* names that pass 1 of matchNetDevices() hands out along that order.      *)
(***************************************************************************)
HIDE NetAssumption

-----------------------------------------------------------------------------
(* The order of the links *)

\* The links chain all devices, at[x] being at place x: the network devices
\* share the places of network devices, any other is where qsort() put it.
Order(nx, at) ==
  /\ at \in [Devs -> Devs]
  /\ \A x, y \in Devs : at[x] = at[y] => x = y
  /\ \A d \in Devs : \E x \in Devs : at[x] = d
  /\ \A x \in Devs : IF x \in net THEN at[x] \in net ELSE at[x] = x
  /\ \A x \in Devs : nx[at[x]] = IF x = N THEN Null ELSE at[x + 1]
  /\ N > 0 => at[1] = 1

IsAt(at, x, d) == IF x = N + 1 THEN d = Null ELSE x \in Devs /\ d = at[x]

\* No device of another module stands between one before place n and a later
\* one of its module.
Grouped(at, n) ==
  \A x, y, z \in net :
    x < n /\ x < y /\ y < z /\ SameModule(at[x], at[z]) => SameModule(at[x], at[y])

\* The same but for the module of cur, whose devices are being put behind it:
\* those it has stand together up to cur, and up to nxt no other follows but
\* perhaps the next one.
Grouping(at, i, j) ==
  /\ \A x, y, z \in net :
       x < i /\ x < y /\ y < z /\ SameModule(at[x], at[z]) /\ ~SameModule(at[x], at[i]) =>
         SameModule(at[x], at[y])
  /\ \A x, y \in net : x < y /\ y <= i /\ SameModule(at[x], at[i]) => SameModule(at[y], at[i])
  /\ \A y \in net : i + 1 < y /\ y <= j => ~SameModule(at[i], at[y])

\* cur is at place i, nxt at place j.
Sorting(at, i, j) ==
  /\ pc \in {"find", "group", "scan"} => IsAt(at, i, cur)
  /\ pc = "find" => \A x \in net : i <= x
  /\ pc = "group" => Grouped(at, i) /\ (i \in net \/ \A x \in net : x < i)
  /\ pc = "scan" => /\ i \in net /\ j \in net /\ i <= j
                    /\ nxt = at[j] /\ tmp = next[nxt]
                    /\ Grouping(at, i, j)
  /\ pc = "pass1" /\ cur # FirstDev => Grouped(at, N + 1)

OrderInv == \E at \in [Devs -> Devs], i, j \in 1..(N + 1) : Order(next, at) /\ Sorting(at, i, j)

\* Of the addresses configured, those of the devices before place p, and of
\* the one there those of the files before tmpdev, have got their names.
Seen(at, p, d, x) == (\E q \in Devs : q < p /\ at[q] = d) \/ (d = dev /\ x < tmpdev)

AllRenamed ==
  /\ Distinct(confdevs)
  /\ \A x \in DOMAIN confdevs : \E d \in net :
       Pinned(d, confdevs[x]) /\ kname[d] # confdevs[x].dev

Has(d, x) == device[d] = confdevs[x].dev /\ confdevs[x].dev \in devicelist

Pinning(at, p) ==
  /\ IsAt(at, p, dev)
  /\ \A d \in net, x \in DOMAIN confdevs : Pinned(d, confdevs[x]) =>
       IF Seen(at, p, d, x) THEN Has(d, x) ELSE device[d] \in {kname[d]} \cup BareNames

PinInv ==
  AllRenamed =>
    /\ pc \in {"find", "group", "scan"} => device = kname /\ dev = FirstDev /\ tmpdev = 1
    /\ pc = "pass1" => \E at \in [Devs -> Devs], p \in 1..(N + 1) : Order(next, at) /\ Pinning(at, p)
    /\ pc \in {"pass2", "pass4", "done"} =>
         \A d \in net, x \in DOMAIN confdevs : Pinned(d, confdevs[x]) => Has(d, x)

-----------------------------------------------------------------------------
(* Moving a device *)

LEMMA DevsAre == N \in Nat /\ Devs = 1..N /\ Null = 0 /\ 0 \notin Devs
BY NetAssumption DEF Devs, Null

LEMMA NetStretch ==
  ASSUME FoundOK, NEW x \in net, NEW z \in net, NEW y \in Devs, x < y, y < z
  PROVE  y \in net
BY QsortAssumption DEF FoundOK

LEMMA SameModuleIsEquivalence ==
  /\ \A d, e \in Devs : SameModule(d, e) => SameModule(e, d) /\ SameModule(d, d) /\ SameModule(e, e)
  /\ \A d, e, f \in Devs : SameModule(d, e) /\ SameModule(e, f) => SameModule(d, f)
BY DEF SameModule

\* The place of the device a link leads to.
LEMMA NextPlace ==
  ASSUME net \subseteq Devs, NEW at, Order(next, at), NEW x \in Devs
  PROVE  /\ at[x] \in Devs /\ x + 1 \in 1..(N + 1) /\ IsAt(at, x + 1, next[at[x]])
         /\ IsNet(at[x]) <=> x \in net
         /\ IsNet(next[at[x]]) <=> x + 1 \in net
<1>0. /\ N \in Nat /\ x \in 1..N /\ net \subseteq 1..N /\ 0 \notin net
      /\ at \in [1..N -> 1..N]
      /\ \A y \in 1..N : IF y \in net THEN at[y] \in net ELSE at[y] = y
      /\ next[at[x]] = IF x = N THEN 0 ELSE at[x + 1]
  BY DevsAre DEF Order
<1>1. at[x] \in Devs /\ x + 1 \in 1..(N + 1) /\ at[x] # 0
  BY <1>0, DevsAre
<1>2. IsAt(at, x + 1, next[at[x]])
  BY <1>0, DevsAre DEF IsAt
<1>3. IsNet(at[x]) <=> x \in net
  BY <1>0, <1>1, DevsAre DEF IsNet
<1>4. IsNet(next[at[x]]) <=> x + 1 \in net
  <2>1. CASE x = N
    <3>1. next[at[x]] = 0 /\ x + 1 \notin net
      BY <1>0, <2>1
    <3>2. QED
      BY <3>1, DevsAre DEF IsNet
  <2>2. CASE x # N
    <3>1. next[at[x]] = at[x + 1] /\ x + 1 \in 1..N
      BY <1>0, <2>2
    <3>2. at[x + 1] # 0 /\ IF x + 1 \in net THEN at[x + 1] \in net ELSE at[x + 1] = x + 1
      BY <1>0, <3>1
    <3>3. QED
      BY <3>1, <3>2, DevsAre DEF IsNet
  <2>3. QED
    BY <2>1, <2>2
<1>5. QED
  BY <1>1, <1>2, <1>3, <1>4

\* Where the devices are once the one at place j + 1 is moved behind the one
\* at place i, and the place each place's device comes from.
MovedFrom(i, j, x) == IF x = i + 1 THEN j + 1
                      ELSE IF i + 1 < x /\ x <= j + 1 THEN x - 1 ELSE x
MovedTo(at, i, j) == [x \in Devs |-> at[MovedFrom(i, j, x)]]

LEMMA MovePlaces ==
  ASSUME NEW n \in Nat, NEW i \in 1..n, NEW j \in 1..n, i <= j, j + 1 <= n
  PROVE  /\ \A x \in 1..n : MovedFrom(i, j, x) \in 1..n
         /\ \A x, y \in 1..n : MovedFrom(i, j, x) = MovedFrom(i, j, y) => x = y
         /\ \A y \in 1..n : \E x \in 1..n : MovedFrom(i, j, x) = y
<1>1. \A x \in 1..n : MovedFrom(i, j, x) \in 1..n
  BY DEF MovedFrom
<1>2. \A x, y \in 1..n : MovedFrom(i, j, x) = MovedFrom(i, j, y) => x = y
  BY DEF MovedFrom
<1>3. ASSUME NEW y \in 1..n
      PROVE  \E x \in 1..n : MovedFrom(i, j, x) = y
  <2>1. CASE y = j + 1
    <3>1. MovedFrom(i, j, i + 1) = y /\ i + 1 \in 1..n
      BY <2>1 DEF MovedFrom
    <3>2. QED
      BY <3>1
  <2>2. CASE i + 1 <= y /\ y <= j
    <3>1. MovedFrom(i, j, y + 1) = y /\ y + 1 \in 1..n
      BY <2>2 DEF MovedFrom
    <3>2. QED
      BY <3>1
  <2>3. CASE y <= i \/ y > j + 1
    <3>1. MovedFrom(i, j, y) = y
      BY <2>3 DEF MovedFrom
    <3>2. QED
      BY <3>1
  <2>4. QED
    BY <2>1, <2>2, <2>3
<1>4. QED
  BY <1>1, <1>2, <1>3

\* The links of Scan are those of the new places.
LEMMA MoveLinks ==
  ASSUME FoundOK, next \in [Devs -> Devs \cup {Null}], NEW at, Order(next, at),
         NEW i \in net, NEW j \in net, i <= j, j + 1 \in net,
         cur = at[i], nxt = at[j], tmp = at[j + 1], NEW x \in Devs
  PROVE  Moved[at[MovedFrom(i, j, x)]] = IF x = N THEN Null ELSE at[MovedFrom(i, j, x + 1)]
<1>a. net \subseteq Devs
  BY DEF FoundOK
<1>0. /\ N \in Nat /\ Devs = 1..N /\ i \in Nat /\ j \in Nat /\ x \in Nat
      /\ 1 <= i /\ i <= j /\ j + 1 <= N /\ 1 <= x /\ x <= N
  BY <1>a, DevsAre
<1>b. /\ at \in [Devs -> Devs]
      /\ \A d, e \in Devs : at[d] = at[e] => d = e
      /\ \A d \in Devs : next[at[d]] = IF d = N THEN Null ELSE at[d + 1]
  BY DEF Order
<1>1. /\ i \in Devs /\ j \in Devs /\ i + 1 \in Devs /\ j + 1 \in Devs
      /\ cur \in Devs /\ nxt \in Devs /\ tmp \in Devs
  BY <1>0, <1>b
<1>2. tmp # cur /\ tmp # nxt /\ (i # j => cur # nxt)
  <2>1. i # j + 1 /\ j # j + 1
    BY <1>0
  <2>2. QED
    BY <1>b, <1>1, <2>1
<1>3. next[cur] = at[i + 1] /\ next[tmp] = IF j + 1 = N THEN Null ELSE at[j + 1 + 1]
  <2>1. next[cur] = at[i + 1]
    BY <1>0, <1>b, <1>1
  <2>2. next[tmp] = IF j + 1 = N THEN Null ELSE at[j + 1 + 1]
    BY <1>b, <1>1
  <2>3. QED
    BY <2>1, <2>2
<1>4. \A d \in Devs : Moved[d] = IF d = cur THEN tmp
                                 ELSE IF d = tmp THEN (IF cur = nxt THEN next[tmp] ELSE next[cur])
                                 ELSE IF d = nxt THEN next[tmp] ELSE next[d]
  <2> DEFINE out == [next EXCEPT ![nxt] = next[tmp]]
             in  == [out EXCEPT ![tmp] = out[cur]]
  <2>1. \A d \in Devs : out[d] = IF d = nxt THEN next[tmp] ELSE next[d]
    OBVIOUS
  <2>2. DOMAIN out = Devs
    OBVIOUS
  <2>3. Moved = [in EXCEPT ![cur] = tmp]
    BY DEF Moved
  <2> HIDE DEF out
  <2>4. \A d \in Devs : in[d] = IF d = tmp THEN out[cur] ELSE out[d]
    BY <2>2
  <2>5. DOMAIN in = Devs
    BY <2>2
  <2> HIDE DEF in
  <2>6. \A d \in Devs : Moved[d] = IF d = cur THEN tmp ELSE in[d]
    BY <2>3, <2>5
  <2>7. QED
    BY <1>1, <1>2, <2>1, <2>4, <2>6
<1>5. Moved[at[i]] = at[j + 1]
  BY <1>1, <1>4
<1>6. ASSUME i # j
      PROVE  Moved[at[j + 1]] = at[i + 1] /\ Moved[at[j]] = IF j + 1 = N THEN Null ELSE at[j + 1 + 1]
  BY <1>1, <1>2, <1>3, <1>4, <1>6
<1>7. ASSUME i = j
      PROVE  Moved[at[j + 1]] = IF j + 1 = N THEN Null ELSE at[j + 1 + 1]
  BY <1>1, <1>2, <1>3, <1>4, <1>7
<1>8. ASSUME NEW p \in Devs, p # i, p # j, p # j + 1
      PROVE  Moved[at[p]] = IF p = N THEN Null ELSE at[p + 1]
  <2>1. at[p] # cur /\ at[p] # tmp /\ at[p] # nxt /\ at[p] \in Devs
    BY <1>b, <1>1, <1>8
  <2>2. Moved[at[p]] = next[at[p]]
    BY <1>4, <2>1
  <2>3. QED
    BY <1>b, <2>2
<1> DEFINE m == MovedFrom(i, j, x)
           k == MovedFrom(i, j, x + 1)
<1>9. CASE x < i
  <2>1. m = x /\ k = x + 1 /\ x # N /\ x # i /\ x # j /\ x # j + 1
    BY ONLY <1>0, <1>9 DEF MovedFrom
  <2>2. QED
    BY <1>8, <2>1
<1>10. CASE x = i
  <2>1. m = i /\ k = j + 1 /\ x # N
    BY ONLY <1>0, <1>10 DEF MovedFrom
  <2>2. QED
    BY <1>5, <1>10, <2>1
<1>11. CASE x = i + 1
  <2>1. m = j + 1 /\ (x # N /\ i # j => k = i + 1) /\ (i = j => k = j + 1 + 1) /\ (i # j => x # N)
    <3>1. m = j + 1
      BY ONLY <1>0, <1>11 DEF MovedFrom
    <3>2. i # j => x # N /\ k = i + 1
      BY ONLY <1>0, <1>11 DEF MovedFrom
    <3>3. i = j => k = j + 1 + 1
      BY ONLY <1>0, <1>11 DEF MovedFrom
    <3>4. QED
      BY <3>1, <3>2, <3>3
  <2>2. CASE i = j
    BY <1>7, <1>11, <2>1, <2>2
  <2>3. CASE i # j
    BY <1>6, <2>1, <2>3
  <2>4. QED
    BY <2>2, <2>3
<1>12. CASE i + 1 < x /\ x <= j
  <2>1. m = x - 1 /\ k = x /\ x # N /\ x - 1 # i /\ x - 1 # j /\ x - 1 # j + 1 /\ x - 1 \in Devs /\ x - 1 # N
        /\ x - 1 + 1 = x
    BY ONLY <1>0, <1>12 DEF MovedFrom
  <2>2. Moved[at[x - 1]] = IF x - 1 = N THEN Null ELSE at[x - 1 + 1]
    BY <1>8, <2>1
  <2>3. QED
    BY <2>1, <2>2
<1>13. CASE x = j + 1 /\ i # j
  <2>1. m = j /\ k = j + 1 + 1
    BY ONLY <1>0, <1>13 DEF MovedFrom
  <2>2. QED
    BY <1>6, <1>13, <2>1
<1>14. CASE x > j + 1
  <2>1. m = x /\ k = x + 1 /\ x # i /\ x # j /\ x # j + 1
    BY ONLY <1>0, <1>14 DEF MovedFrom
  <2>2. QED
    BY <1>8, <2>1
<1>15. x < i \/ x = i \/ x = i + 1 \/ (i + 1 < x /\ x <= j) \/ (x = j + 1 /\ i # j) \/ x > j + 1
  BY ONLY <1>0
<1>16. QED
  BY <1>9, <1>10, <1>11, <1>12, <1>13, <1>14, <1>15

LEMMA MoveKeepsOrder ==
  ASSUME FoundOK, next \in [Devs -> Devs \cup {Null}], NEW at, Order(next, at),
         NEW i \in net, NEW j \in net, i <= j, j + 1 \in net,
         cur = at[i], nxt = at[j], tmp = at[j + 1]
  PROVE  Order(Moved, MovedTo(at, i, j))
<1> DEFINE From(x) == MovedFrom(i, j, x)
           new     == MovedTo(at, i, j)
<1>1. net \subseteq Devs
  BY DEF FoundOK
<1>2. /\ N \in Nat /\ Devs = 1..N
      /\ i \in 1..N /\ j \in 1..N /\ i \in Nat /\ j + 1 <= N
  BY <1>1, DevsAre
<1>3. /\ at \in [Devs -> Devs]
      /\ \A x, y \in Devs : at[x] = at[y] => x = y
      /\ \A d \in Devs : \E x \in Devs : at[x] = d
      /\ \A x \in Devs : IF x \in net THEN at[x] \in net ELSE at[x] = x
      /\ \A x \in Devs : next[at[x]] = IF x = N THEN Null ELSE at[x + 1]
      /\ N > 0 => at[1] = 1
  BY DEF Order
<1>4. /\ \A x \in Devs : From(x) \in Devs
      /\ \A x, y \in Devs : From(x) = From(y) => x = y
      /\ \A y \in Devs : \E x \in Devs : From(x) = y
  <2>1. /\ \A x \in 1..N : MovedFrom(i, j, x) \in 1..N
        /\ \A x, y \in 1..N : MovedFrom(i, j, x) = MovedFrom(i, j, y) => x = y
        /\ \A y \in 1..N : \E x \in 1..N : MovedFrom(i, j, x) = y
    BY ONLY <1>2, i <= j, MovePlaces
  <2>2. QED
    BY ONLY <1>2, <2>1
<1>5. \A x \in Devs : Moved[at[From(x)]] = IF x = N THEN Null ELSE at[From(x + 1)]
  <2> SUFFICES ASSUME NEW x \in Devs
               PROVE  Moved[at[MovedFrom(i, j, x)]] = IF x = N THEN Null ELSE at[MovedFrom(i, j, x + 1)]
    OBVIOUS
  <2>1. QED
    BY MoveLinks
<1>6. \A x \in Devs : IF x \in net THEN From(x) \in net ELSE From(x) = x
  <2>1. \A y \in Devs : i <= y /\ y <= j + 1 => y \in net
    <3> SUFFICES ASSUME NEW y \in Devs, i <= y, y <= j + 1 PROVE y \in net
      OBVIOUS
    <3>1. y = i \/ y = j + 1 \/ (i < y /\ y < j + 1)
      BY <1>2
    <3>2. QED
      BY <3>1, NetStretch
  <2> SUFFICES ASSUME NEW x \in Devs PROVE IF x \in net THEN From(x) \in net ELSE From(x) = x
    OBVIOUS
  <2>2. CASE i + 1 <= x /\ x <= j + 1
    <3>1. x \in 1..N /\ i <= x - 1 /\ x - 1 <= j + 1 /\ x - 1 \in Devs /\ i <= x
      BY <1>2, <2>2
    <3>2. x \in net /\ x - 1 \in net
      BY <2>1, <2>2, <3>1
    <3>3. From(x) = j + 1 \/ From(x) = x - 1
      BY <1>2, <2>2, <3>1 DEF MovedFrom
    <3>4. QED
      BY <3>2, <3>3
  <2>3. CASE ~(i + 1 <= x /\ x <= j + 1)
    <3>1. From(x) = x
      BY <1>2, <2>3 DEF MovedFrom
    <3>2. QED
      BY <3>1
  <2>4. QED
    BY <2>2, <2>3
<1>7. N > 0 => 1 \in Devs /\ From(1) = 1
  BY <1>2 DEF MovedFrom
<1> HIDE DEF From
<1>8. new = [x \in Devs |-> at[From(x)]]
  BY DEF MovedTo, From
<1> HIDE DEF new
<1>9. new \in [Devs -> Devs] /\ \A x \in Devs : new[x] = at[From(x)]
  BY <1>3, <1>4, <1>8
<1>10. \A x, y \in Devs : new[x] = new[y] => x = y
  BY <1>3, <1>4, <1>9
<1>11. \A d \in Devs : \E x \in Devs : new[x] = d
  BY <1>3, <1>4, <1>9
<1>12. \A x \in Devs : IF x \in net THEN new[x] \in net ELSE new[x] = x
  BY <1>1, <1>3, <1>4, <1>6, <1>9
<1>13. \A x \in Devs : Moved[new[x]] = IF x = N THEN Null ELSE new[x + 1]
  <2>1. \A x \in Devs : x # N => x + 1 \in Devs
    BY <1>2
  <2>2. QED
    BY <1>5, <1>9, <2>1
<1>14. N > 0 => new[1] = 1
  BY <1>3, <1>7, <1>9
<1>15. QED
  BY <1>9, <1>10, <1>11, <1>12, <1>13, <1>14 DEF Order, new

\* The move puts tmp behind the devices of its module.
LEMMA MoveGroups ==
  ASSUME FoundOK, NEW at, Order(next, at), NEW i \in net, NEW j \in net, i <= j, j + 1 \in net,
         SameModule(at[i], at[j + 1]), Grouping(at, i, j)
  PROVE  i + 1 \in net /\ Grouping(MovedTo(at, i, j), i + 1, i + 1)
<1> DEFINE new    == MovedTo(at, i, j)
           Was(x) == MovedFrom(i, j, x)
<1>a. net \subseteq Devs /\ at \in [Devs -> Devs]
  BY DEF FoundOK, Order
<1>0. /\ N \in Nat /\ net \subseteq 1..N /\ Devs = 1..N
      /\ i \in Nat /\ j \in Nat /\ 1 <= i /\ i <= j /\ j + 1 <= N
  BY <1>a, DevsAre
<1>b. \A x \in net : at[x] \in Devs
  BY <1>a
<1>1. \A y \in Devs : i <= y /\ y <= j + 1 => y \in net
  <2> SUFFICES ASSUME NEW y \in Devs, i <= y, y <= j + 1 PROVE y \in net
    OBVIOUS
  <2>1. y = i \/ y = j + 1 \/ (i < y /\ y < j + 1)
    BY <1>0
  <2>2. QED
    BY <2>1, NetStretch
<1>2. i + 1 \in net
  BY <1>0, <1>1
<1>3. \A x \in net : new[x] = at[Was(x)] /\ Was(x) \in net
  <2> SUFFICES ASSUME NEW x \in net PROVE new[x] = at[Was(x)] /\ Was(x) \in net
    OBVIOUS
  <2>1. new[x] = at[Was(x)]
    BY <1>a DEF MovedTo
  <2>2. CASE i + 1 < x /\ x <= j + 1
    <3>1. Was(x) = x - 1 /\ x - 1 \in Devs /\ i <= x - 1 /\ x - 1 <= j + 1
      BY <1>0, <2>2 DEF MovedFrom
    <3>2. QED
      BY <1>1, <2>1, <3>1
  <2>3. CASE ~(i + 1 < x /\ x <= j + 1)
    BY <2>1, <2>3 DEF MovedFrom
  <2>4. QED
    BY <2>2, <2>3
<1>4. \A x, y \in net : x < y /\ y # i + 1 /\ x # i + 1 => Was(x) < Was(y)
  BY ONLY <1>0 DEF MovedFrom
<1>5. \A x \in net : x <= i => Was(x) = x
  BY ONLY <1>0 DEF MovedFrom
<1>6. \A x \in net : x > i + 1 => Was(x) > i
  BY ONLY <1>0 DEF MovedFrom
<1>7. Was(i + 1) = j + 1
  BY DEF MovedFrom
<1>8. /\ \A x, y, z \in net :
           x < i /\ x < y /\ y < z /\ SameModule(at[x], at[z]) /\ ~SameModule(at[x], at[i]) =>
             SameModule(at[x], at[y])
      /\ \A x, y \in net : x < y /\ y <= i /\ SameModule(at[x], at[i]) => SameModule(at[y], at[i])
  BY DEF Grouping
<1> HIDE DEF new, Was
<1>9. ASSUME NEW x \in net, NEW y \in net, NEW z \in net, x < i + 1, x < y, y < z,
             SameModule(new[x], new[z]), ~SameModule(new[x], new[i + 1])
      PROVE  SameModule(new[x], new[y])
  <2>0. x <= i /\ x \in Nat /\ y \in Nat /\ z \in Nat
    <3>1. x \in 1..N /\ y \in 1..N /\ z \in 1..N
      BY <1>0
    <3>2. QED
      BY <1>0, <1>9, <3>1
  <2>1. new[x] = at[x] /\ ~SameModule(at[x], at[j + 1]) /\ at[x] \in Devs
    BY <1>b, <1>2, <1>3, <1>5, <1>7, <1>9, <2>0
  <2>2. ~SameModule(at[x], at[i])
    <3>1. at[i] \in Devs /\ at[j + 1] \in Devs
      BY <1>b
    <3>2. QED
      BY <2>1, <3>1, SameModuleIsEquivalence
  <2>3. z # i + 1
    BY <1>9
  <2>4. x < i
    <3>1. x # i
      <4>1. SUFFICES ASSUME x = i PROVE FALSE
        OBVIOUS
      <4>2. at[i] \in Devs /\ at[j + 1] \in Devs
        BY <1>b
      <4>3. SameModule(at[i], at[i])
        BY <4>2, SameModuleIsEquivalence
      <4>4. QED
        BY <2>2, <4>1, <4>3
    <3>2. QED
      BY <1>0, <2>0, <3>1
  <2>5. y # i + 1
    <3>1. SUFFICES ASSUME y = i + 1 PROVE FALSE
      OBVIOUS
    <3>2. i < Was(z) /\ Was(z) \in net /\ new[z] = at[Was(z)]
      BY <1>0, <1>3, <1>6, <1>9, <3>1
    <3>3. SameModule(at[x], at[i])
      BY <1>8, <1>9, <2>1, <2>2, <2>4, <3>2
    <3>4. QED
      BY <2>2, <3>3
  <2>6. x < Was(y) /\ Was(y) < Was(z)
    <3>1. x # i + 1 /\ Was(x) = x
      BY <1>0, <1>5, <2>0
    <3>2. QED
      BY <1>4, <1>9, <2>3, <2>5, <3>1
  <2>7. Was(y) \in net /\ Was(z) \in net /\ new[y] = at[Was(y)] /\ new[z] = at[Was(z)]
    BY <1>3
  <2>8. SameModule(at[x], at[Was(z)])
    BY <1>9, <2>1, <2>7
  <2>9. SameModule(at[x], at[Was(y)])
    BY <1>8, <2>2, <2>4, <2>6, <2>7, <2>8
  <2>10. QED
    BY <2>1, <2>7, <2>9
<1>10. ASSUME NEW x \in net, NEW y \in net, x < y, y <= i + 1, SameModule(new[x], new[i + 1])
       PROVE  SameModule(new[y], new[i + 1])
  <2>1. new[i + 1] = at[j + 1] /\ at[j + 1] \in Devs /\ at[i] \in Devs
    BY <1>b, <1>2, <1>3, <1>7
  <2>2. CASE y = i + 1
    <3>1. new[x] \in Devs
      BY <1>b, <1>3
    <3>2. QED
      BY <1>10, <2>1, <2>2, <3>1, SameModuleIsEquivalence
  <2>3. CASE y <= i
    <3>0. x <= i
      BY <1>0, <1>10, <2>3
    <3>1. new[x] = at[x] /\ new[y] = at[y] /\ at[x] \in Devs /\ at[y] \in Devs
      BY <1>b, <1>3, <1>5, <2>3, <3>0
    <3>2. SameModule(at[x], at[i])
      BY <1>10, <2>1, <3>1, SameModuleIsEquivalence
    <3>3. SameModule(at[y], at[i])
      BY <1>8, <1>10, <2>3, <3>2
    <3>4. SameModule(at[y], at[j + 1])
      BY <2>1, <3>1, <3>3, SameModuleIsEquivalence
    <3>5. QED
      BY <2>1, <3>1, <3>4
  <2>4. y = i + 1 \/ y <= i
    BY <1>0, <1>10
  <2>5. QED
    BY <2>2, <2>3, <2>4
<1>11. \A y \in net : ~(i + 1 + 1 < y /\ y <= i + 1)
  BY ONLY <1>0
<1>12. QED
  BY <1>2, <1>9, <1>10, <1>11 DEF Grouping, new

-----------------------------------------------------------------------------
(* The order the links are in *)

\* What the links chain is what List says.
LEMMA ListIsOrder ==
  ASSUME NEW at, Order(next, at)
  PROVE  List = at
<1> DEFINE From(g) == [x \in Devs |-> IF x = 1 THEN FirstDev
                                      ELSE IF g[x - 1] = Null THEN Null ELSE next[g[x - 1]]]
           list == CHOOSE g : g = From(g)
<1>0. N \in Nat /\ Devs = 1..N /\ 0 \notin Devs /\ Null = 0
  BY DevsAre
<1>1. /\ at \in [Devs -> Devs] /\ (N > 0 => at[1] = 1)
      /\ \A x \in Devs : next[at[x]] = IF x = N THEN Null ELSE at[x + 1]
  BY DEF Order
<1>2. at = From(at)
  <2>1. ASSUME NEW x \in Devs
        PROVE  at[x] = From(at)[x]
    <3>1. CASE x = 1
      BY <1>0, <1>1, <3>1 DEF FirstDev
    <3>2. CASE x # 1
      <4>1. x - 1 \in Devs /\ x - 1 # N /\ x - 1 + 1 = x
        BY <1>0, <3>2
      <4>2. at[x - 1] # Null /\ next[at[x - 1]] = at[x]
        BY <1>0, <1>1, <4>1
      <4>3. QED
        BY <3>2, <4>2
    <3>3. QED
      BY <3>1, <3>2
  <2>2. From(at) = [x \in Devs |-> From(at)[x]]
    OBVIOUS
  <2> HIDE DEF From
  <2>3. QED
    BY <1>1, <2>1, <2>2
<1>3. list = From(list)
  BY <1>2
<1>4. List = list
  BY DEF List
<1> HIDE DEF list
<1>5. list = [x \in Devs |-> list[x]]
  BY <1>3
<1>6. \A x \in Devs : list[x] = at[x]
  <2> DEFINE S == {x \in Nat : x + 1 <= N => list[x + 1] = at[x + 1]}
  <2>1. 0 \in S
    <3>1. N > 0 => 1 \in Devs /\ list[1] = FirstDev /\ FirstDev = 1
      BY <1>0, <1>3 DEF FirstDev
    <3>2. QED
      BY <1>0, <1>1, <3>1
  <2>2. ASSUME NEW x \in Nat, x \in S PROVE x + 1 \in S
    <3> SUFFICES ASSUME x + 1 + 1 <= N PROVE list[x + 1 + 1] = at[x + 1 + 1]
      OBVIOUS
    <3>1. /\ x + 1 \in Devs /\ x + 1 + 1 \in Devs /\ x + 1 + 1 # 1 /\ x + 1 + 1 - 1 = x + 1
          /\ x + 1 # N /\ x + 1 <= N
      BY <1>0
    <3>2. list[x + 1] = at[x + 1]
      BY <2>2, <3>1
    <3>3. at[x + 1] # Null /\ next[at[x + 1]] = at[x + 1 + 1]
      BY <1>0, <1>1, <3>1
    <3>4. list[x + 1 + 1] = IF list[x + 1 + 1 - 1] = Null THEN Null ELSE next[list[x + 1 + 1 - 1]]
      BY <1>3, <3>1
    <3>5. QED
      BY <3>1, <3>2, <3>3, <3>4
  <2> HIDE DEF S
  <2>3. \A x \in Nat : x \in S
    BY <2>1, <2>2, ReachedFromZero
  <2>4. ASSUME NEW x \in Devs PROVE list[x] = at[x]
    <3>1. x - 1 \in Nat /\ x - 1 + 1 = x /\ x <= N
      BY <1>0
    <3>2. x - 1 \in S
      BY <2>3, <3>1
    <3>3. QED
      BY <3>1, <3>2 DEF S
  <2>5. QED
    BY <2>4
<1>7. at = [x \in Devs |-> at[x]]
  BY <1>1
<1>8. QED
  BY <1>4, <1>5, <1>6, <1>7

LEMMA InitOrderInv == Init => OrderInv
<1> SUFFICES ASSUME Init PROVE OrderInv
  OBVIOUS
<1> DEFINE at == [x \in Devs |-> x]
<1>0. N \in Nat /\ Devs = 1..N /\ Null = 0 /\ net \subseteq Devs
  <2>1. net \subseteq Devs
    BY InitIInv DEF IInv, FoundOK
  <2>2. QED
    BY <2>1, DevsAre
<1>1. at \in [Devs -> Devs] /\ \A x \in Devs : at[x] = x
  OBVIOUS
<1>2. next = Linked /\ cur = FirstDev /\ pc \in {"find", "pass1"}
  BY DEF Init
<1> HIDE DEF at
<1>3. \A x \in Devs : next[at[x]] = IF x = N THEN Null ELSE at[x + 1]
  <2>1. \A x \in Devs : x # N => x + 1 \in Devs
    BY <1>0
  <2>2. QED
    BY <1>1, <1>2, <2>1 DEF Linked
<1>4. N > 0 => at[1] = 1
  BY <1>0, <1>1
<1>5. Order(next, at)
  BY <1>1, <1>3, <1>4 DEF Order
<1>6. IsAt(at, 1, cur)
  BY <1>0, <1>1, <1>2 DEF IsAt, FirstDev
<1>7. \A x \in net : 1 <= x
  BY <1>0
<1>8. Sorting(at, 1, 1)
  BY <1>2, <1>6, <1>7 DEF Sorting
<1>9. 1 \in 1..(N + 1)
  BY <1>0
<1>10. QED
  BY <1>1, <1>5, <1>8, <1>9 DEF OrderInv

\* A step that neither sorts nor begins pass 1 keeps the order.
LEMMA OrderKept ==
  ASSUME OrderInv, UNCHANGED <<net, driver, next, cur>>, pc' \notin {"find", "group", "scan"},
         pc' = "pass1" => pc = "pass1"
  PROVE  OrderInv'
<1>1. PICK at \in [Devs -> Devs], i \in 1..(N + 1), j \in 1..(N + 1) : Order(next, at) /\ Sorting(at, i, j)
  BY DEF OrderInv
<1>2. Order(next, at)'
  BY <1>1 DEF Order
<1>3. Grouped(at, N + 1) => Grouped(at, N + 1)'
  BY DEF Grouped, SameModule
<1>4. Sorting(at, i, j)'
  BY <1>1, <1>3 DEF Sorting
<1>5. QED
  BY <1>2, <1>4 DEF OrderInv

\* The facts of an order and of the network devices' places that the steps use.
LEMMA StretchBefore ==
  ASSUME FoundOK, NEW i \in net, NEW x \in net, i + 1 \notin net
  PROVE  x < i + 1
<1>1. net \subseteq 1..N /\ N \in Nat /\ Devs = 1..N
  BY DevsAre DEF FoundOK
<1>2. x \in 1..N /\ i \in 1..N
  BY <1>1
<1>3. SUFFICES ASSUME i + 1 < x PROVE FALSE
  BY <1>1, <1>2
<1>4. i + 1 \in Devs /\ i < i + 1
  BY <1>1, <1>2, <1>3
<1>5. QED
  BY <1>3, <1>4, NetStretch

LEMMA FindOrder ==
  ASSUME IInv, NEW at \in [Devs -> Devs], NEW i \in 1..(N + 1), NEW j \in 1..(N + 1),
         Order(next, at), Sorting(at, i, j), FindNet
  PROVE  OrderInv'
<1>0. /\ FoundOK /\ net \subseteq Devs /\ N \in Nat /\ Devs = 1..N /\ Null = 0 /\ 0 \notin Devs
      /\ pc = "find" /\ IsAt(at, i, cur) /\ next' = next /\ net' = net /\ driver' = driver
  BY DevsAre DEF IInv, FoundOK, FindNet, Sorting, found
<1>1. \A x \in net : i <= x
  BY <1>0 DEF Sorting
<1>2. Order(next, at)'
  BY <1>0 DEF Order
<1>3. CASE cur # Null /\ ~IsNet(cur)
  <2>1. cur' = next[cur] /\ pc' = "find"
    BY <1>0, <1>3 DEF FindNet
  <2>2. i \in Devs /\ cur = at[i]
    BY <1>0, <1>3 DEF IsAt
  <2>3. i \notin net /\ i + 1 \in 1..(N + 1) /\ IsAt(at, i + 1, cur')
    BY <1>0, <1>3, <2>1, <2>2, NextPlace
  <2>4. \A x \in net : i + 1 <= x
    <3>1. \A x \in net : x \in 1..N /\ x # i /\ i <= x
      BY <1>0, <1>1, <2>3
    <3>2. QED
      BY <3>1
  <2>5. Sorting(at, i + 1, j)'
    BY <1>0, <2>1, <2>3, <2>4 DEF Sorting, IsAt
  <2>6. QED
    BY <1>2, <2>3, <2>5 DEF OrderInv
<1>4. CASE ~(cur # Null /\ ~IsNet(cur))
  <2>1. cur' = cur /\ pc' = "group"
    BY <1>0, <1>4 DEF FindNet
  <2>2. i \in net \/ \A x \in net : x < i
    <3>1. CASE cur = Null
      <4>1. i = N + 1
        BY <1>0, <3>1 DEF IsAt
      <4>2. \A x \in net : x \in 1..N
        BY <1>0
      <4>3. QED
        BY <1>0, <4>1, <4>2
    <3>2. CASE IsNet(cur)
      <4>1. i \in Devs /\ cur = at[i]
        BY <1>0, <3>2 DEF IsAt, IsNet
      <4>2. QED
        BY <1>0, <3>2, <4>1, NextPlace
    <3>3. QED
      BY <1>4, <3>1, <3>2
  <2>3. Grouped(at, i)'
    <3>1. \A x \in net : ~(x < i)
      <4>1. \A x \in net : x \in 1..N /\ i <= x
        BY <1>0, <1>1
      <4>2. QED
        BY <4>1
    <3>2. QED
      BY <1>0, <3>1 DEF Grouped
  <2>4. Sorting(at, i, j)'
    BY <1>0, <2>1, <2>2, <2>3 DEF Sorting, IsAt
  <2>5. QED
    BY <1>2, <2>4 DEF OrderInv
<1>5. QED
  BY <1>3, <1>4

\* When no network device follows those that are grouped, all are.
LEMMA AllGrouped ==
  ASSUME FoundOK, NEW at, NEW i, Grouped(at, i),
         (i \in net /\ i + 1 \notin net) \/ \A x \in net : x < i
  PROVE  Grouped(at, N + 1)
<1>1. net \subseteq 1..N /\ N \in Nat
  BY DevsAre DEF FoundOK
<1>2. ASSUME NEW x \in net, NEW y \in net, x < y
      PROVE  x < i
  <2>1. x \in 1..N /\ y \in 1..N
    BY <1>1
  <2>2. CASE i \in net /\ i + 1 \notin net
    <3>1. y < i + 1 /\ i \in 1..N
      BY <1>1, <2>2, StretchBefore
    <3>2. QED
      BY <1>2, <2>1, <3>1
  <2>3. QED
    BY <2>2
<1>3. QED
  BY <1>2 DEF Grouped

\* The devices before cur are grouped, those of its module among them behind
\* each other up to cur.
LEMMA StartGrouping ==
  ASSUME FoundOK, NEW at \in [Devs -> Devs], NEW i \in net, Grouped(at, i)
  PROVE  Grouping(at, i, i + 1)
<1>1. net \subseteq 1..N /\ N \in Nat /\ net \subseteq Devs
  BY DevsAre DEF FoundOK
<1>2. \A x \in net : at[x] \in Devs
  BY <1>1
<1>3. ASSUME NEW x \in net, NEW y \in net, x < y, y <= i, SameModule(at[x], at[i])
      PROVE  SameModule(at[y], at[i])
  <2>1. CASE y = i
    BY <1>2, <1>3, <2>1, SameModuleIsEquivalence
  <2>2. CASE y # i
    <3>1. x < i /\ y < i
      BY <1>1, <1>3, <2>2
    <3>2. SameModule(at[x], at[y])
      BY <1>3, <3>1 DEF Grouped
    <3>3. at[x] \in Devs /\ at[y] \in Devs /\ at[i] \in Devs
      BY <1>2
    <3>4. QED
      BY <1>3, <3>2, <3>3, SameModuleIsEquivalence
  <2>3. QED
    BY <2>1, <2>2
<1>4. \A y \in net : ~(i + 1 < y /\ y <= i + 1)
  <2>1. \A y \in net : y \in 1..N
    BY <1>1
  <2>2. i \in 1..N
    BY <1>1
  <2>3. QED
    BY <1>1, <2>1, <2>2
<1>5. QED
  BY <1>3, <1>4 DEF Grouped, Grouping

LEMMA GroupOrder ==
  ASSUME IInv, NEW at \in [Devs -> Devs], NEW i \in 1..(N + 1), NEW j \in 1..(N + 1),
         Order(next, at), Sorting(at, i, j), Group
  PROVE  OrderInv'
<1>0. /\ FoundOK /\ net \subseteq Devs /\ N \in Nat /\ Devs = 1..N /\ Null = 0 /\ 0 \notin Devs
      /\ pc = "group" /\ IsAt(at, i, cur) /\ next' = next /\ net' = net /\ driver' = driver /\ cur' = cur
  BY DevsAre DEF IInv, FoundOK, Group, Sorting, found
<1>1. Grouped(at, i) /\ (i \in net \/ \A x \in net : x < i)
  BY <1>0 DEF Sorting
<1>2. Order(next, at)'
  BY <1>0 DEF Order
<1>3. IsNet(cur) => i \in Devs /\ cur = at[i] /\ i \in net
  <2>1. SUFFICES ASSUME IsNet(cur) PROVE i \in Devs /\ cur = at[i] /\ i \in net
    OBVIOUS
  <2>2. i \in Devs /\ cur = at[i]
    BY <1>0, <2>1 DEF IsAt, IsNet
  <2>3. QED
    BY <1>0, <2>1, <2>2, NextPlace
<1>4. i \in net => IsNet(cur)
  <2>1. SUFFICES ASSUME i \in net PROVE IsNet(cur)
    OBVIOUS
  <2>2. i \in Devs /\ cur = at[i]
    BY <1>0, <2>1 DEF IsAt
  <2>3. QED
    BY <1>0, <2>1, <2>2, NextPlace
<1>5. CASE IsNet(cur) /\ IsNet(next[cur])
  <2>1. pc' = "scan" /\ nxt' = next[cur] /\ tmp' = next[next[cur]]
    BY <1>5 DEF Group
  <2>2. i \in net /\ i \in Devs /\ cur = at[i]
    BY <1>3, <1>5
  <2>3. i + 1 \in net /\ i + 1 \in 1..(N + 1) /\ IsAt(at, i + 1, next[cur])
    BY <1>0, <1>5, <2>2, NextPlace
  <2>4. nxt' = at[i + 1] /\ tmp' = next'[nxt']
    BY <1>0, <1>5, <2>1, <2>3 DEF IsAt, IsNet
  <2>5. Grouping(at, i, i + 1)
    BY <1>0, <1>1, <2>2, StartGrouping
  <2>6. Grouping(at, i, i + 1)'
    BY <1>0, <2>5 DEF Grouping, SameModule
  <2>7. i <= i + 1
    BY <1>0
  <2>8. Sorting(at, i, i + 1)'
    BY <1>0, <2>1, <2>2, <2>3, <2>4, <2>6, <2>7 DEF Sorting, IsAt
  <2>9. QED
    BY <1>0, <1>2, <2>3, <2>8 DEF OrderInv
<1>6. CASE ~(IsNet(cur) /\ IsNet(next[cur]))
  <2>1. pc' = "pass1"
    BY <1>6 DEF Group
  <2>2. (i \in net /\ i + 1 \notin net) \/ \A x \in net : x < i
    <3>1. CASE i \in net
      <4>1. i \in Devs /\ cur = at[i] /\ ~IsNet(next[cur])
        BY <1>3, <1>4, <1>6, <3>1
      <4>2. i + 1 \notin net
        BY <1>0, <4>1, NextPlace
      <4>3. QED
        BY <3>1, <4>2
    <3>2. QED
      BY <1>1, <3>1
  <2>3. Grouped(at, N + 1)
    BY <1>0, <1>1, <2>2, AllGrouped
  <2>4. Grouped(at, N + 1)'
    BY <1>0, <2>3 DEF Grouped, SameModule
  <2>5. Sorting(at, i, j)'
    BY <2>1, <2>4 DEF Sorting
  <2>6. QED
    BY <1>0, <1>2, <2>5 DEF OrderInv
<1>7. QED
  BY <1>5, <1>6

LEMMA ScanOrder ==
  ASSUME IInv, NEW at \in [Devs -> Devs], NEW i \in 1..(N + 1), NEW j \in 1..(N + 1),
         Order(next, at), Sorting(at, i, j), Scan
  PROVE  OrderInv'
<1>0. /\ FoundOK /\ net \subseteq Devs /\ N \in Nat /\ Devs = 1..N /\ Null = 0 /\ 0 \notin Devs
      /\ next \in [Devs -> Devs \cup {Null}]
      /\ pc = "scan" /\ pc' = "scan" /\ net' = net /\ driver' = driver
      /\ nxt' = tmp /\ tmp' = next'[tmp]
  BY DevsAre DEF IInv, TypeOK, FoundOK, Scan, found
<1>1. /\ i \in net /\ j \in net /\ i <= j /\ nxt = at[j] /\ tmp = next[nxt] /\ Grouping(at, i, j)
      /\ IsAt(at, i, cur)
  BY <1>0 DEF Sorting
<1>2. i \in 1..N /\ j \in 1..N /\ i + 1 \in 1..(N + 1) /\ j + 1 \in 1..(N + 1) /\ i <= j + 1 /\ i + 1 <= i + 1
  BY <1>0, <1>1
<1>3. cur = at[i]
  BY <1>0, <1>1, <1>2 DEF IsAt
<1>4. j + 1 \in net /\ IsAt(at, j + 1, tmp)
  <2>1. IsNet(tmp)
    BY DEF Scan
  <2>2. j \in Devs
    BY <1>0, <1>1
  <2>3. QED
    BY <1>0, <1>1, <2>1, <2>2, NextPlace
<1>5. tmp = at[j + 1]
  BY <1>0, <1>4 DEF IsAt
<1>6. CASE SameModule(cur, tmp)
  <2> DEFINE new == MovedTo(at, i, j)
  <2>1. next' = Moved /\ cur' = tmp
    BY <1>6 DEF Scan
  <2>2. Order(Moved, new)
    BY <1>0, <1>1, <1>3, <1>4, <1>5, MoveKeepsOrder
  <2>3. i + 1 \in net /\ Grouping(new, i + 1, i + 1)
    BY <1>0, <1>1, <1>3, <1>4, <1>5, <1>6, MoveGroups
  <2>4. new[i + 1] = tmp
    BY <1>0, <1>5, <2>3 DEF MovedTo, MovedFrom
  <2> HIDE DEF new
  <2>5. Order(next, new)' /\ new \in [Devs -> Devs]
    BY <1>0, <2>1, <2>2 DEF Order
  <2>6. Grouping(new, i + 1, i + 1)'
    BY <1>0, <2>3 DEF Grouping, SameModule
  <2>7. IsAt(new, i + 1, cur)'
    BY <1>0, <2>1, <2>3, <2>4 DEF IsAt
  <2>8. Sorting(new, i + 1, i + 1)'
    BY <1>0, <1>2, <2>3, <2>4, <2>6, <2>7 DEF Sorting
  <2>9. QED
    BY <1>2, <2>5, <2>8 DEF OrderInv
<1>7. CASE ~SameModule(cur, tmp)
  <2>1. next' = next /\ cur' = cur
    BY <1>7 DEF Scan
  <2>2. Order(next, at)'
    BY <1>0, <2>1 DEF Order
  <2>3. \A y \in net : i + 1 < y /\ y <= j + 1 => ~SameModule(at[i], at[y])
    <3>1. \A y \in net : y <= j + 1 => y <= j \/ y = j + 1
      <4>1. \A y \in net : y \in 1..N
        BY <1>0
      <4>2. QED
        BY <1>2, <4>1
    <3>2. QED
      BY <1>1, <1>3, <1>5, <1>7, <3>1 DEF Grouping
  <2>4. Grouping(at, i, j + 1)
    BY <1>1, <2>3 DEF Grouping
  <2>5. Grouping(at, i, j + 1)'
    BY <1>0, <2>4 DEF Grouping, SameModule
  <2>6. IsAt(at, i, cur)'
    BY <1>0, <1>1, <2>1 DEF IsAt
  <2>7. Sorting(at, i, j + 1)'
    BY <1>0, <1>1, <1>2, <1>4, <1>5, <2>5, <2>6 DEF Sorting
  <2>8. QED
    BY <1>0, <1>2, <2>2, <2>7 DEF OrderInv
<1>8. QED
  BY <1>6, <1>7

LEMMA EndScanOrder ==
  ASSUME IInv, NEW at \in [Devs -> Devs], NEW i \in 1..(N + 1), NEW j \in 1..(N + 1),
         Order(next, at), Sorting(at, i, j), EndScan
  PROVE  OrderInv'
<1>0. /\ FoundOK /\ net \subseteq Devs /\ N \in Nat /\ Devs = 1..N /\ Null = 0 /\ 0 \notin Devs
      /\ pc = "scan" /\ pc' = "group" /\ net' = net /\ driver' = driver /\ next' = next /\ cur' = next[cur]
  BY DevsAre DEF IInv, TypeOK, FoundOK, EndScan, found
<1>1. /\ i \in net /\ j \in net /\ i <= j /\ nxt = at[j] /\ tmp = next[nxt] /\ Grouping(at, i, j)
      /\ IsAt(at, i, cur)
  BY <1>0 DEF Sorting
<1>2. i \in 1..N /\ j \in 1..N /\ i \in Devs /\ j \in Devs
  BY <1>0, <1>1
<1>3. cur = at[i]
  BY <1>0, <1>1, <1>2 DEF IsAt
<1>4. j + 1 \notin net
  <2>1. ~IsNet(tmp)
    BY DEF EndScan
  <2>2. QED
    BY <1>0, <1>1, <1>2, <2>1, NextPlace
<1>5. i + 1 \in 1..(N + 1) /\ IsAt(at, i + 1, cur')
  BY <1>0, <1>2, <1>3, NextPlace
<1>6. Order(next, at)'
  BY <1>0 DEF Order
<1>7. i + 1 \in net \/ \A x \in net : x < i + 1
  BY <1>0, <1>1, StretchBefore
<1>8. \A x \in net : x \in 1..N /\ x < j + 1 /\ x <= j
  <2> SUFFICES ASSUME NEW x \in net PROVE x \in 1..N /\ x < j + 1 /\ x <= j
    OBVIOUS
  <2>1. x \in 1..N /\ x < j + 1
    BY <1>0, <1>1, <1>4, StretchBefore
  <2>2. QED
    BY <1>2, <2>1
<1>9. \A x \in net : at[x] \in Devs
  BY <1>0
<1>10. ASSUME NEW x \in net, NEW y \in net, NEW z \in net, x < i + 1, x < y, y < z, SameModule(at[x], at[z])
       PROVE  SameModule(at[x], at[y])
  <2>1. x \in 1..N /\ y \in 1..N /\ z \in 1..N /\ z <= j /\ at[x] \in Devs /\ at[y] \in Devs /\ at[z] \in Devs
        /\ at[i] \in Devs
    BY <1>1, <1>8, <1>9
  <2>2. CASE ~SameModule(at[x], at[i])
    <3>1. x # i
      <4>1. SameModule(at[x], at[x])
        BY <1>10, <2>1, SameModuleIsEquivalence
      <4>2. QED
        BY <2>2, <4>1
    <3>2. x < i
      BY <1>2, <1>10, <2>1, <3>1
    <3>3. QED
      BY <1>1, <1>10, <2>2, <3>2 DEF Grouping
  <2>3. CASE SameModule(at[x], at[i])
    <3>1. SameModule(at[i], at[z])
      <4>1. SameModule(at[i], at[x])
        BY <2>1, <2>3, SameModuleIsEquivalence
      <4>2. QED
        BY <1>10, <2>1, <4>1, SameModuleIsEquivalence
    <3>2. ~(i + 1 < z)
      BY <1>1, <2>1, <3>1 DEF Grouping
    <3>3. y <= i
      BY <1>2, <1>10, <2>1, <3>2
    <3>4. SameModule(at[y], at[i])
      BY <1>1, <1>10, <2>3, <3>3 DEF Grouping
    <3>5. SameModule(at[i], at[y])
      BY <2>1, <3>4, SameModuleIsEquivalence
    <3>6. QED
      BY <2>1, <2>3, <3>5, SameModuleIsEquivalence
  <2>4. QED
    BY <2>2, <2>3
<1>11. Grouped(at, i + 1)'
  BY <1>0, <1>10 DEF Grouped, SameModule
<1>12. IsAt(at, i + 1, cur)'
  BY <1>0, <1>5 DEF IsAt
<1>13. Sorting(at, i + 1, j)'
  BY <1>0, <1>7, <1>11, <1>12 DEF Sorting
<1>14. QED
  BY <1>5, <1>6, <1>13 DEF OrderInv

LEMMA StepOrderInv == IInv /\ OrderInv /\ [Next]_vars => OrderInv'
<1> SUFFICES ASSUME IInv, OrderInv, [Next]_vars PROVE OrderInv'
  OBVIOUS
<1>1. PICK at \in [Devs -> Devs], i \in 1..(N + 1), j \in 1..(N + 1) : Order(next, at) /\ Sorting(at, i, j)
  BY DEF OrderInv
<1>2. CASE FindNet
  BY <1>1, <1>2, FindOrder
<1>3. CASE Group
  BY <1>1, <1>3, GroupOrder
<1>4. CASE Scan
  BY <1>1, <1>4, ScanOrder
<1>5. CASE EndScan
  BY <1>1, <1>5, EndScanOrder
<1>6. CASE EndPass
  BY <1>6, OrderKept DEF EndPass, found, sorting
<1>7. CASE OtherType \/ NoConfLeft \/ Pass4Named \/ Pass4Taken
  BY <1>7, OrderKept DEF OtherType, NoConfLeft, Pass4Named, Pass4Taken, Visiting, found, sorting
<1>8. CASE Pass1 \/ Pass2 \/ Pass4
  BY <1>8, OrderKept DEF Pass1, Pass2, Pass4, Visiting, found, sorting
<1>9. CASE UNCHANGED vars
  <2>1. Order(next, at)'
    BY <1>1, <1>9 DEF Order, vars, found
  <2>2. Sorting(at, i, j)'
    BY <1>1, <1>9 DEF Sorting, IsAt, Grouped, Grouping, SameModule, vars, found, sorting
  <2>3. QED
    BY <2>1, <2>2 DEF OrderInv
<1>10. QED
  BY <1>2, <1>3, <1>4, <1>5, <1>6, <1>7, <1>8, <1>9 DEF Next

\* The links are in order at every moment of the sort and of the passes.
THEOREM NetDevicesOrder == Spec => []OrderInv
BY InitOrderInv, StepOrderInv, NetDevicesIInv, PTL DEF Spec

LEMMA OrderInvImplies == OrderInv => SortedByModule
<1> SUFFICES ASSUME OrderInv, pc = "pass1", cur # FirstDev
    PROVE  /\ {List[x] : x \in Devs} = Devs
           /\ N > 0 => next[List[N]] = Null
           /\ \A x \in Devs : List[x] \notin net => List[x] = x
           /\ \A x, y, z \in Devs :
                x < y /\ y < z /\ {List[x], List[y], List[z]} \subseteq net =>
                  (SameModule(List[x], List[z]) => SameModule(List[x], List[y]))
  BY DEF SortedByModule
<1>1. PICK at \in [Devs -> Devs], i \in 1..(N + 1), j \in 1..(N + 1) : Order(next, at) /\ Sorting(at, i, j)
  BY DEF OrderInv
<1>2. List = at
  BY <1>1, ListIsOrder
<1>3. {at[x] : x \in Devs} = Devs
  BY <1>1 DEF Order
<1>4. N > 0 => next[at[N]] = Null
  <2>1. N > 0 => N \in Devs
    BY DevsAre
  <2>2. QED
    BY <1>1, <2>1 DEF Order
<1>5. \A x \in Devs : at[x] \in net <=> x \in net
  BY <1>1 DEF Order
<1>6. \A x \in Devs : at[x] \notin net => at[x] = x
  BY <1>1, <1>5 DEF Order
<1>7. Grouped(at, N + 1)
  BY <1>1 DEF Sorting
<1>8. \A x \in Devs : x < N + 1
  BY DevsAre
<1>9. \A x, y, z \in Devs :
        x < y /\ y < z /\ {at[x], at[y], at[z]} \subseteq net =>
          (SameModule(at[x], at[z]) => SameModule(at[x], at[y]))
  BY <1>5, <1>7, <1>8 DEF Grouped
<1>10. QED
  BY <1>2, <1>3, <1>4, <1>6, <1>9

\* sortNetDevices() loses no device, moves none but network devices and
\* leaves those of a module next to each other, however many there are.
THEOREM NetDevicesSortedByModule == Spec => []SortedByModule
BY NetDevicesOrder, OrderInvImplies, PTL

-----------------------------------------------------------------------------
(* The names pass 1 hands out *)

\* An address is that of one device, and one file pins it.
LEMMA PinnedOnce ==
  ASSUME FoundOK, Distinct(confdevs), NEW d \in net, NEW e \in net,
         NEW x \in DOMAIN confdevs, NEW y \in DOMAIN confdevs,
         Pinned(d, confdevs[x]), Pinned(e, confdevs[y])
  PROVE  /\ x = y <=> d = e
         /\ confdevs[x].dev = confdevs[y].dev => x = y
<1>1. /\ hwaddr[d] # NoAddr /\ confdevs[x].hwaddr = hwaddr[d]
      /\ hwaddr[e] # NoAddr /\ confdevs[y].hwaddr = hwaddr[e]
  BY DEF Pinned
<1>2. x = y => d = e
  BY <1>1 DEF FoundOK
<1>3. d = e => x = y
  BY <1>1 DEF Distinct
<1>4. confdevs[x].dev = confdevs[y].dev => x = y
  BY DEF Distinct
<1>5. QED
  BY <1>2, <1>3, <1>4

\* The device at place p has not been given the name of file x before.
LEMMA RenamedWhenSeen ==
  ASSUME FoundOK, AllRenamed, NEW d \in net, NEW x \in DOMAIN confdevs, Pinned(d, confdevs[x]),
         confdevs[x].dev \in FullNames, device[d] \in {kname[d]} \cup BareNames
  PROVE  device[d] # confdevs[x].dev
<1>1. PICK e \in net : Pinned(e, confdevs[x]) /\ kname[e] # confdevs[x].dev
  BY DEF AllRenamed
<1>2. e = d
  BY <1>1, PinnedOnce DEF AllRenamed
<1>3. QED
  BY <1>1, <1>2, NamesOK

\* Pass 1 begins with nothing seen.
LEMMA StartPinning ==
  ASSUME FoundOK, NEW at \in [Devs -> Devs], N > 0 => at[1] = 1,
         device = kname, dev = FirstDev, tmpdev = 1
  PROVE  /\ Pinning(at, 1) /\ 1 \in 1..(N + 1)
         /\ \A d \in net, x \in DOMAIN confdevs : ~Seen(at, 1, d, x)
<1>1. N \in Nat /\ Devs = 1..N /\ Null = 0 /\ net \subseteq Devs
  BY DevsAre DEF FoundOK
<1>2. IsAt(at, 1, dev)
  BY <1>1 DEF IsAt, FirstDev
<1>3. ASSUME NEW d \in net, NEW x \in DOMAIN confdevs
      PROVE  ~Seen(at, 1, d, x)
  <2>1. x \in 1..Len(confdevs) /\ Len(confdevs) \in Nat
    BY DEF FoundOK
  <2>2. ~(x < tmpdev)
    BY <2>1
  <2>3. \A q \in Devs : ~(q < 1)
    BY <1>1
  <2>4. QED
    BY <2>2, <2>3 DEF Seen
<1>4. QED
  BY <1>1, <1>2, <1>3 DEF Pinning

LEMMA InitPinInv == Init => PinInv
<1> SUFFICES ASSUME Init PROVE PinInv
  OBVIOUS
<1>1. FoundOK /\ OrderInv
  BY InitIInv, InitOrderInv DEF IInv
<1>2. PICK at \in [Devs -> Devs] : Order(next, at)
  BY <1>1 DEF OrderInv
<1>3. device = kname /\ dev = FirstDev /\ tmpdev = 1 /\ pc \in {"find", "pass1"}
  BY DEF Init
<1>4. Pinning(at, 1) /\ 1 \in 1..(N + 1)
  BY <1>1, <1>2, <1>3, StartPinning DEF Order
<1>5. QED
  BY <1>2, <1>3, <1>4 DEF PinInv

\* A step of the sort, which may be its last.
LEMMA SortingPins ==
  ASSUME IInv, PinInv, OrderInv', UNCHANGED <<found, device, dev, tmpdev>>,
         pc \in {"find", "group", "scan"}, pc' \in {"find", "group", "scan", "pass1"}
  PROVE  PinInv'
<1> SUFFICES ASSUME AllRenamed' PROVE
      /\ pc' \in {"find", "group", "scan"} => device' = kname' /\ dev' = FirstDev /\ tmpdev' = 1
      /\ pc' = "pass1" => \E at \in [Devs -> Devs], p \in 1..(N + 1) : Order(next, at)' /\ Pinning(at, p)'
      /\ pc' \in {"pass2", "pass4", "done"} =>
           \A d \in net', x \in DOMAIN confdevs' : Pinned(d, confdevs[x])' => Has(d, x)'
  BY DEF PinInv, FirstDev
<1>1. AllRenamed
  BY DEF AllRenamed, Distinct, Pinned, found
<1>2. device' = kname' /\ dev' = FirstDev /\ tmpdev' = 1
  BY <1>1 DEF PinInv, found
<1>3. PICK at \in [Devs -> Devs] : Order(next, at)'
  BY DEF OrderInv
<1>4. N > 0 => at[1] = 1
  BY <1>3 DEF Order
<1>5. /\ Pinning(at, 1) /\ 1 \in 1..(N + 1)
      /\ \A d \in net, x \in DOMAIN confdevs : ~Seen(at, 1, d, x)
  BY <1>1, <1>4, StartPinning DEF PinInv, IInv
<1>6. Pinning(at, 1)'
  <2>1. /\ dev' = dev /\ tmpdev' = tmpdev /\ device' = device
        /\ net' = net /\ kname' = kname /\ hwaddr' = hwaddr /\ confdevs' = confdevs
    BY DEF found
  <2>2. IsAt(at, 1, dev)'
    BY <1>5, <2>1 DEF Pinning, IsAt
  <2>3. ASSUME NEW d \in net, NEW x \in DOMAIN confdevs, Pinned(d, confdevs[x])
        PROVE  ~Seen(at, 1, d, x)' /\ device'[d] \in {kname'[d]} \cup BareNames
    <3>1. ~Seen(at, 1, d, x)
      BY <1>5
    <3>2. ~Seen(at, 1, d, x)'
      BY <2>1, <3>1 DEF Seen
    <3>3. QED
      BY <1>2, <2>1, <3>2
  <2>4. QED
    BY <2>1, <2>2, <2>3 DEF Pinning, Pinned
<1>7. QED
  BY <1>2, <1>3, <1>5, <1>6

\* Once pass 1 is over a step that keeps the names handed out.
LEMMA PinsKept ==
  ASSUME PinInv, UNCHANGED found, pc \in {"pass2", "pass4", "done"}, pc' \in {"pass2", "pass4", "done"},
         \A d \in net, x \in DOMAIN confdevs : AllRenamed /\ Pinned(d, confdevs[x]) /\ Has(d, x) => Has(d, x)'
  PROVE  PinInv'
<1> SUFFICES ASSUME AllRenamed'
             PROVE  \A d \in net, x \in DOMAIN confdevs : Pinned(d, confdevs[x]) => Has(d, x)'
  BY DEF PinInv, Pinned, found
<1>1. AllRenamed
  BY DEF AllRenamed, Distinct, Pinned, found
<1>2. QED
  BY <1>1 DEF PinInv

\* A step of pass 1 that gives no name: the device at place p is or becomes
\* the one looked at, and whatever has been seen is the same.
LEMMA PinningOn ==
  ASSUME PinInv, UNCHANGED <<found, next, device, devicelist>>, pc = "pass1", pc' = "pass1",
         \A at \in [Devs -> Devs], p \in 1..(N + 1) :
           AllRenamed /\ Order(next, at) /\ Pinning(at, p) =>
             \E q \in 1..(N + 1) :
               /\ IsAt(at, q, dev')
               /\ \A d \in net, x \in DOMAIN confdevs :
                    Pinned(d, confdevs[x]) => (Seen(at, q, d, x)' <=> Seen(at, p, d, x))
  PROVE  PinInv'
<1> SUFFICES ASSUME AllRenamed'
             PROVE  \E at \in [Devs -> Devs], q \in 1..(N + 1) : Order(next, at)' /\ Pinning(at, q)'
  BY DEF PinInv
<1>1. AllRenamed
  BY DEF AllRenamed, Distinct, Pinned, found
<1>2. PICK at \in [Devs -> Devs], p \in 1..(N + 1) : Order(next, at) /\ Pinning(at, p)
  BY <1>1 DEF PinInv
<1>3. PICK q \in 1..(N + 1) :
        /\ IsAt(at, q, dev')
        /\ \A d \in net, x \in DOMAIN confdevs :
             Pinned(d, confdevs[x]) => (Seen(at, q, d, x)' <=> Seen(at, p, d, x))
  BY <1>1, <1>2
<1>4. Order(next, at)'
  BY <1>2 DEF Order, found
<1>5. ASSUME NEW d \in net, NEW x \in DOMAIN confdevs, Pinned(d, confdevs[x])
      PROVE  IF Seen(at, q, d, x)' THEN Has(d, x)' ELSE device'[d] \in {kname'[d]} \cup BareNames
  <2>1. IF Seen(at, p, d, x) THEN Has(d, x) ELSE device[d] \in {kname[d]} \cup BareNames
    BY <1>2, <1>5 DEF Pinning
  <2>2. Has(d, x)' <=> Has(d, x)
    BY DEF Has, found
  <2>3. QED
    BY <1>3, <1>5, <2>1, <2>2 DEF found
<1>6. Pinning(at, q)'
  BY <1>3, <1>5 DEF Pinning, IsAt, Pinned, found
<1>7. QED
  BY <1>4, <1>6

\* The next device is at the next place, and what was seen is the same when
\* all files have been, or the device is of another type.
LEMMA NextDevicePins ==
  ASSUME IInv, PinInv, UNCHANGED <<found, next, device, devicelist>>, pc = "pass1", pc' = "pass1",
         NextDevice, dev # Null, dev \in net => tmpdev > Len(confdevs)
  PROVE  PinInv'
<1>0. /\ FoundOK /\ N \in Nat /\ Devs = 1..N /\ Null = 0 /\ net \subseteq Devs
      /\ dev' = next[dev] /\ tmpdev' = 1
  BY DevsAre DEF IInv, FoundOK, NextDevice
<1>1. \A x \in DOMAIN confdevs : x \in 1..Len(confdevs) /\ Len(confdevs) \in Nat
  BY <1>0 DEF FoundOK
<1>2. ASSUME NEW at \in [Devs -> Devs], NEW p \in 1..(N + 1), Order(next, at), Pinning(at, p)
      PROVE  /\ p + 1 \in 1..(N + 1) /\ IsAt(at, p + 1, dev')
             /\ \A d \in net, x \in DOMAIN confdevs : Seen(at, p + 1, d, x)' <=> Seen(at, p, d, x)
  <2>1. p \in Devs /\ dev = at[p]
    BY <1>0, <1>2 DEF Pinning, IsAt
  <2>2. p + 1 \in 1..(N + 1) /\ IsAt(at, p + 1, dev')
    BY <1>0, <1>2, <2>1, NextPlace
  <2>3. ASSUME NEW d \in net, NEW x \in DOMAIN confdevs
        PROVE  Seen(at, p + 1, d, x)' <=> Seen(at, p, d, x)
    <3>1. ~(x < tmpdev')
      BY <1>0, <1>1
    <3>2. Seen(at, p + 1, d, x)' <=> \E q \in Devs : q < p + 1 /\ at[q] = d
      BY <3>1 DEF Seen
    <3>3. d = dev => x < tmpdev
      <4>1. SUFFICES ASSUME d = dev PROVE x < tmpdev
        OBVIOUS
      <4>2. tmpdev > Len(confdevs) /\ tmpdev \in Int
        BY <4>1 DEF IInv, TypeOK
      <4>3. QED
        BY <1>1, <4>2
    <3>4. Seen(at, p, d, x) <=> (\E q \in Devs : q < p /\ at[q] = d) \/ d = dev
      BY <3>3 DEF Seen
    <3>5. \A q \in Devs : q < p + 1 <=> (q < p \/ q = p)
      BY <1>0
    <3>6. QED
      BY <2>1, <3>2, <3>4, <3>5
  <2>4. QED
    BY <2>2, <2>3
<1>3. QED
  BY <1>2, PinningOn

LEMMA Pass1Pins ==
  ASSUME IInv, PinInv, Pass1
  PROVE  PinInv'
<1> DEFINE c == confdevs[tmpdev]
<1>0. /\ FoundOK /\ N \in Nat /\ Devs = 1..N /\ Null = 0 /\ net \subseteq Devs
      /\ pc = "pass1" /\ pc' = "pass1" /\ dev \in net /\ dev' = dev /\ tmpdev' = tmpdev + 1
      /\ next' = next /\ UNCHANGED found
  BY DevsAre DEF IInv, FoundOK, Pass1, Visiting, IsNet
<1>1. tmpdev \in 1..Len(confdevs) /\ Len(confdevs) \in Nat
  <2>1. tmpdev <= Len(confdevs) /\ tmpdev \in 1..(Len(confdevs) + 1) /\ Len(confdevs) \in Nat
    BY <1>0 DEF IInv, TypeOK, FoundOK, Pass1
  <2>2. QED
    BY <2>1
<1>2. tmpdev \in DOMAIN confdevs /\ c.dev \in FullNames
  BY <1>0, <1>1, ConfDevOK
<1>3. \A x \in DOMAIN confdevs : x \in 1..Len(confdevs)
  BY <1>0 DEF FoundOK
<1>4. \A x \in DOMAIN confdevs : x < tmpdev + 1 <=> x < tmpdev \/ x = tmpdev
  BY <1>1, <1>3
<1>5. \A at, p : \A d \in net, x \in DOMAIN confdevs :
        Seen(at, p, d, x)' <=> Seen(at, p, d, x) \/ (d = dev /\ x = tmpdev)
  BY <1>0, <1>4 DEF Seen
<1>6. CASE ~Pinned(dev, c)
  <2>1. UNCHANGED <<device, devicelist>>
    BY <1>6 DEF Pass1
  <2>2. ASSUME NEW at \in [Devs -> Devs], NEW p \in 1..(N + 1), Pinning(at, p)
        PROVE  /\ IsAt(at, p, dev')
               /\ \A d \in net, x \in DOMAIN confdevs :
                    Pinned(d, confdevs[x]) => (Seen(at, p, d, x)' <=> Seen(at, p, d, x))
    BY <1>0, <1>5, <1>6, <2>2 DEF Pinning
  <2>3. QED
    BY <1>0, <2>1, <2>2, PinningOn
<1>7. CASE Pinned(dev, c)
  <2> SUFFICES ASSUME AllRenamed'
               PROVE  \E at \in [Devs -> Devs], p \in 1..(N + 1) : Order(next, at)' /\ Pinning(at, p)'
    BY <1>0 DEF PinInv
  <2>1. AllRenamed
    BY <1>0 DEF AllRenamed, Distinct, Pinned, found
  <2>2. PICK at \in [Devs -> Devs], p \in 1..(N + 1) : Order(next, at) /\ Pinning(at, p)
    BY <1>0, <2>1 DEF PinInv
  <2>3. p \in Devs /\ dev = at[p]
    BY <1>0, <2>2 DEF Pinning, IsAt
  <2>4. ~Seen(at, p, dev, tmpdev)
    <3>1. \A q \in Devs : at[q] = at[p] => q = p
      BY <2>2, <2>3 DEF Order
    <3>2. \A q \in Devs : q < p => q # p
      BY <1>0
    <3>3. ~(tmpdev < tmpdev)
      BY <1>1
    <3>4. QED
      BY <2>3, <3>1, <3>2, <3>3 DEF Seen
  <2>5. device[dev] \in {kname[dev]} \cup BareNames
    BY <1>0, <1>2, <1>7, <2>2, <2>4 DEF Pinning
  <2>6. device[dev] # c.dev
    BY <1>0, <1>2, <1>7, <2>1, <2>5, RenamedWhenSeen
  <2>7. Give(dev, c.dev)
    BY <1>7, <2>6 DEF Pass1
  <2>8. /\ device'[dev] = c.dev
        /\ \A e \in net : e # dev => device'[e] = IF device[e] = c.dev THEN BareNameOf(c.dev) ELSE device[e]
        /\ devicelist' = devicelist \cup {c.dev}
    BY <1>0, <1>2, <2>7, GiveOK DEF IInv, Give
  <2>9. Order(next, at)'
    BY <1>0, <2>2 DEF Order, found
  <2>10. ASSUME NEW d \in net, NEW x \in DOMAIN confdevs, Pinned(d, confdevs[x])
         PROVE  IF Seen(at, p, d, x)' THEN Has(d, x)' ELSE device'[d] \in {kname[d]} \cup BareNames
    <3>1. /\ x = tmpdev <=> d = dev
          /\ confdevs[x].dev = c.dev => x = tmpdev
      BY <1>0, <1>2, <1>7, <2>1, <2>10, PinnedOnce DEF AllRenamed
    <3>2. CASE d = dev
      <4>1. x = tmpdev /\ Has(d, x)'
        BY <1>0, <2>8, <3>1, <3>2 DEF Has, found
      <4>2. Seen(at, p, d, x)'
        BY <1>5, <3>2, <4>1
      <4>3. QED
        BY <4>1, <4>2
    <3>3. CASE d # dev
      <4>1. Seen(at, p, d, x)' <=> Seen(at, p, d, x)
        BY <1>5, <3>3
      <4>2. CASE Seen(at, p, d, x)
        <5>1. device[d] = confdevs[x].dev /\ confdevs[x].dev \in devicelist
          BY <2>2, <2>10, <4>2 DEF Pinning, Has
        <5>2. device[d] # c.dev
          BY <3>1, <3>3, <5>1
        <5>3. Has(d, x)'
          BY <1>0, <2>8, <3>3, <5>1, <5>2 DEF Has, found
        <5>4. QED
          BY <4>1, <4>2, <5>3
      <4>3. CASE ~Seen(at, p, d, x)
        <5>1. device[d] \in {kname[d]} \cup BareNames
          BY <2>2, <2>10, <4>3 DEF Pinning
        <5>2. BareNameOf(c.dev) \in BareNames
          BY <1>2, NamesOK
        <5>3. device'[d] \in {kname[d]} \cup BareNames
          BY <2>8, <3>3, <5>1, <5>2
        <5>4. QED
          BY <4>1, <4>3, <5>3
      <4>4. QED
        BY <4>2, <4>3
    <3>4. QED
      BY <3>2, <3>3
  <2>11. IsAt(at, p, dev)'
    BY <1>0, <2>2 DEF Pinning, IsAt
  <2>12. Pinning(at, p)'
    BY <1>0, <2>10, <2>11 DEF Pinning, Pinned, found
  <2>13. QED
    BY <2>9, <2>12
<1>8. QED
  BY <1>6, <1>7

\* A configured name that is handed out is neither guessed nor numbered.
LEMMA HandedOutKept ==
  ASSUME IInv, UNCHANGED found, NEW e \in net, NEW n \in FullNames, Give(e, n), n \notin devicelist,
         device[e] \notin devicelist,
         NEW d \in net, NEW x \in DOMAIN confdevs, Has(d, x)
  PROVE  Has(d, x)'
<1>1. /\ \A b \in net : b # e => device'[b] = IF device[b] = n THEN BareNameOf(n) ELSE device[b]
      /\ devicelist' = devicelist \cup {n}
  BY GiveOK DEF IInv, Give
<1>2. d # e /\ device[d] # n
  BY DEF Has
<1>3. QED
  BY <1>1, <1>2 DEF Has, found

LEMMA StepPinInv == IInv /\ OrderInv /\ OrderInv' /\ PinInv /\ [Next]_vars => PinInv'
<1> SUFFICES ASSUME IInv, OrderInv, OrderInv', PinInv, [Next]_vars PROVE PinInv'
  OBVIOUS
<1> USE DEF names
<1>0. FoundOK /\ TypeOK /\ N \in Nat /\ Devs = 1..N /\ Null = 0 /\ net \subseteq Devs
  BY DevsAre DEF IInv, FoundOK
<1>1. CASE FindNet \/ Group \/ Scan \/ EndScan
  <2>1. /\ UNCHANGED <<found, device, dev, tmpdev>>
        /\ pc \in {"find", "group", "scan"} /\ pc' \in {"find", "group", "scan", "pass1"}
    BY <1>1 DEF FindNet, Group, Scan, EndScan
  <2>2. QED
    BY <2>1, SortingPins
<1>2. CASE EndPass /\ pc = "pass1"
  <2>1. pc' = "pass2" /\ dev = Null /\ UNCHANGED <<found, device, devicelist>>
    BY <1>2 DEF EndPass
  <2> SUFFICES ASSUME AllRenamed', NEW d \in net, NEW x \in DOMAIN confdevs, Pinned(d, confdevs[x])
               PROVE  Has(d, x)'
    BY <2>1 DEF PinInv, Pinned, found
  <2>2. AllRenamed
    BY <2>1 DEF AllRenamed, Distinct, Pinned, found
  <2>3. PICK at \in [Devs -> Devs], p \in 1..(N + 1) : Order(next, at) /\ Pinning(at, p)
    BY <1>2, <2>2 DEF PinInv
  <2>4. p = N + 1
    BY <1>0, <2>1, <2>3 DEF Pinning, IsAt
  <2>5. PICK q \in Devs : at[q] = d
    BY <1>0, <2>3 DEF Order
  <2>6. q < p
    BY <1>0, <2>4
  <2>7. Has(d, x)
    BY <2>3, <2>5, <2>6 DEF Pinning, Seen
  <2>8. QED
    BY <2>1, <2>7 DEF Has, found
<1>3. CASE EndPass /\ pc # "pass1"
  <2>1. pc \in {"pass2", "pass4"} /\ pc' \in {"pass4", "done"} /\ UNCHANGED <<found, device, devicelist>>
    BY <1>3 DEF EndPass
  <2>2. QED
    BY <2>1, PinsKept DEF Has, found
<1>4. CASE OtherType /\ pc = "pass1"
  <2>1. /\ UNCHANGED <<found, next, device, devicelist>> /\ pc' = "pass1" /\ NextDevice
        /\ dev # Null /\ dev \notin net
    BY <1>4 DEF OtherType, IsNet
  <2>2. QED
    BY <1>4, <2>1, NextDevicePins
<1>5. CASE NoConfLeft /\ pc = "pass1"
  <2>1. /\ UNCHANGED <<found, next, device, devicelist>> /\ pc' = "pass1" /\ NextDevice
        /\ dev # Null /\ tmpdev > Len(confdevs)
    BY <1>5 DEF NoConfLeft, Visiting, IsNet
  <2>2. QED
    BY <1>5, <2>1, NextDevicePins
<1>6. CASE (OtherType \/ NoConfLeft) /\ pc # "pass1"
  <2>1. pc \in {"pass2", "pass4"} /\ pc' = pc /\ UNCHANGED <<found, device, devicelist>>
    BY <1>6 DEF OtherType, NoConfLeft, Visiting
  <2>2. QED
    BY <2>1, PinsKept DEF Has, found
<1>7. CASE Pass1
  BY <1>7, Pass1Pins
<1>8. CASE Pass2
  <2> DEFINE c == confdevs[tmpdev]
  <2>1. pc = "pass2" /\ pc' = "pass2" /\ UNCHANGED found /\ dev \in net
    BY <1>8 DEF Pass2, Visiting, IsNet
  <2>2. tmpdev \in DOMAIN confdevs
    <3>1. tmpdev <= Len(confdevs) /\ tmpdev \in 1..(Len(confdevs) + 1) /\ Len(confdevs) \in Nat
      BY <1>0, <1>8 DEF TypeOK, FoundOK, Pass2
    <3>2. tmpdev \in 1..Len(confdevs)
      BY <3>1
    <3>3. QED
      BY <1>0, <3>2, ConfDevOK
  <2>3. AllRenamed => UNCHANGED <<device, devicelist>>
    <3> SUFFICES ASSUME AllRenamed PROVE UNCHANGED <<device, devicelist>>
      OBVIOUS
    <3>1. PICK d \in net : Pinned(d, c)
      BY <2>2 DEF AllRenamed
    <3>2. c.dev \in devicelist
      BY <2>1, <2>2, <3>1 DEF PinInv, Has
    <3>3. ~Guessed(dev, c)
      BY <3>2 DEF Guessed
    <3>4. QED
      BY <1>8, <3>3 DEF Pass2
  <2>4. \A d \in net, x \in DOMAIN confdevs : AllRenamed /\ Has(d, x) => Has(d, x)'
    BY <2>1, <2>3 DEF Has, found
  <2>5. QED
    BY <2>1, <2>4, PinsKept
<1>9. CASE Pass4Named \/ Pass4Taken
  <2>1. pc = "pass4" /\ pc' = "pass4" /\ UNCHANGED <<found, device, devicelist>>
    BY <1>9 DEF Pass4Named, Pass4Taken, Visiting
  <2>2. QED
    BY <2>1, PinsKept DEF Has, found
<1>10. CASE Pass4
  <2> DEFINE f == device[dev].fam
  <2>1. pc = "pass4" /\ pc' = "pass4" /\ UNCHANGED found /\ dev \in net /\ IsBare(device[dev]) /\ f \in Numbered
    BY <1>10 DEF Pass4, Visiting, IsNet, Nameless
  <2>2. NextName(f) \in FullNames
    BY <1>0, <2>1 DEF TypeOK, NextName, Name, FullNames, BareNames
  <2>3. Give(dev, NextName(f)) /\ NextName(f) \notin devicelist
    BY <1>10 DEF Pass4
  <2>4. device[dev] \notin devicelist
    BY <1>0, <2>1, NamesOK DEF TypeOK
  <2>5. \A d \in net, x \in DOMAIN confdevs : Has(d, x) => Has(d, x)'
    BY <2>1, <2>2, <2>3, <2>4, HandedOutKept
  <2>6. QED
    BY <2>1, <2>5, PinsKept
<1>11. CASE UNCHANGED vars
  <2>1. /\ UNCHANGED <<found, next, device, devicelist, dev, tmpdev, pc>>
    BY <1>11 DEF vars
  <2> SUFFICES ASSUME AllRenamed'
      PROVE  /\ pc' \in {"find", "group", "scan"} => device' = kname' /\ dev' = FirstDev /\ tmpdev' = 1
             /\ pc' = "pass1" => \E at \in [Devs -> Devs], p \in 1..(N + 1) : Order(next, at)' /\ Pinning(at, p)'
             /\ pc' \in {"pass2", "pass4", "done"} =>
                  \A d \in net', x \in DOMAIN confdevs' : Pinned(d, confdevs[x])' => Has(d, x)'
    BY DEF PinInv, FirstDev
  <2>2. AllRenamed
    BY <2>1 DEF AllRenamed, Distinct, Pinned, found
  <2>3. CASE pc = "pass1"
    <3>1. PICK at \in [Devs -> Devs], p \in 1..(N + 1) : Order(next, at) /\ Pinning(at, p)
      BY <2>2, <2>3 DEF PinInv
    <3>2. Order(next, at)'
      BY <2>1, <3>1 DEF Order, found
    <3>3. Pinning(at, p)'
      BY <2>1, <3>1 DEF Pinning, IsAt, Seen, Has, Pinned, found
    <3>4. QED
      BY <2>1, <2>3, <3>2, <3>3
  <2>4. CASE pc # "pass1"
    BY <2>1, <2>2, <2>4 DEF PinInv, Has, Pinned, found
  <2>5. QED
    BY <2>3, <2>4
<1>12. QED
  BY <1>1, <1>2, <1>3, <1>4, <1>5, <1>6, <1>7, <1>8, <1>9, <1>10, <1>11 DEF Next

\* What pass 1 hands out along the order, the passes after it leave alone.
THEOREM NetDevicesPinInv == Spec => []PinInv
BY InitPinInv, StepPinInv, NetDevicesOrder, NetDevicesIInv, PTL DEF Spec

LEMMA PinInvImplies == PinInv => PinnedWhenRenamed
BY DEF PinInv, PinnedWhenRenamed, PinnedNames, AllRenamed, Has

\* When all that the files configure is the address of a device the kernel
\* named otherwise, matchNetDevices() leaves each such device with the name
\* configured for it.
THEOREM NetDevicesPinnedWhenRenamed == Spec => []PinnedWhenRenamed
BY NetDevicesPinInv, PinInvImplies, PTL
===============================================================================
