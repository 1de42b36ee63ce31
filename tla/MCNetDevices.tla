----------------------------- MODULE MCNetDevices -----------------------------
(* Instances of NetDevices for TLC. *)
EXTENDS NetDevices, TLC

CONSTANTS d1, d2

Ethernet == <<"eth">>

AllNet     == {Devs}
AnyStretch == {lo..hi : lo \in 1..N, hi \in 0..N}

AllBare == [d \in Devs |-> BareName(Eth)]

\* Three devices to name.  Drivers are only compared with each other: the first
\* device has the first one, or none.
Named == 1..3
SomeNames ==
  {f \in [Devs -> KernelNames \cup BareNames] :
     /\ \A d \in Devs \ Named : f[d] = BareName(Eth)
     /\ \A d, e \in Named : d < e => NotAfter(f[d], f[e])}
SomeDrivers ==
  {f \in [Devs -> Drivers \cup {NoDriver}] :
     /\ \A d \in Devs \ Named : f[d] = NoDriver
     /\ f[1] \in {d1, NoDriver} /\ (f[1] = NoDriver => f[2] \in {d1, NoDriver})}
FilesOf(n) == [1..n -> {c \in ConfDevs : c.hwaddr \in Named \cup {NoAddr}}]

\* Any stretch of the list to sort; or three devices to name, after a sort when
\* there is one file, and as main() has them from a socket when there are two.
MCInit ==
  \/ /\ confdevs = <<>> /\ kname = AllBare /\ pc = "find"
     /\ Init
  \/ /\ net = Named
     /\ \E n \in 1..MaxConf :
          confdevs \in FilesOf(n) /\ pc = IF n = 1 THEN "find" ELSE "pass1"
     /\ driver \in SomeDrivers /\ kname \in SomeNames
     /\ Init

MCSpec == MCInit /\ [][Next]_vars /\ WF_vars(Next)

\* Drivers are only compared with each other.
Interchangeable == Permutations(Drivers)
=============================================================================
