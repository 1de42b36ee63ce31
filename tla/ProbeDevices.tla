------------------------------ MODULE ProbeDevices -----------------------------
(***************************************************************************)
(* probeDevices() of kudzu.c, around serialProbe(): the kernel is told to  *)
(* be quiet on the console, every bus that is asked for is probed, and the *)
(* level of the console's log is put back on each way out.  A probe of     *)
(* another bus is one step that adds what the machine has there.  How the  *)
(* list is sorted, named and numbered afterwards is in NetDevices.         *)
(***************************************************************************)
EXTENDS Serial

VARIABLES
  ppc,       \* where probeDevices() is
  bus,       \* the bus it is at
  level,     \* the kernel's log level for the console
  logLevel,  \* what it was before
  result     \* the devices given back

probing   == <<ppc, bus, level, logLevel, result>>
probeVars == <<vars, probing>>

buses == <<"OTHER", "PCI", "SBUS", "USB", "PSAUX", "SERIAL", "PARALLEL", "SCSI", "IDE", "KEYBOARD",
           "DDC", "ISAPNP", "MISC", "FIREWIRE", "PCMCIA", "ADB", "MACIO", "VIO", "S390", "XEN">>

ProbeInit ==
  /\ Init
  /\ ppc = "call" /\ bus = 1 /\ level = machine.level /\ logLevel = -1 /\ result = <<>>

Call ==
  /\ ppc = "call"
  /\ logLevel' = level /\ level' = 1
  /\ ppc' = "bus"
  /\ UNCHANGED <<vars, bus, result>>

Asked(b) == b \in machine.probeBus /\ ~(b = "DDC" /\ machine.probeBus = ToSet(buses))

\* The devices of another bus are at no serial port.
ASSUME OthersAssumption ==
  \A m \in Machines : m.others \in [ToSet(buses) -> Seq([port : {-1}, class : STRING, loaded : BOOLEAN])]

\* They come in front of those that were found before.
Others(b) == IF Asked(b) THEN machine.others[b] \o devlist ELSE devlist

\* The next bus, unless one device is all that was asked for.
NextBus(devs) == bus' = bus + 1 /\ ppc' = IF machine.one /\ devs # <<>> THEN "probed" ELSE "bus"

ProbeOther ==
  /\ ppc = "bus" /\ bus \in DOMAIN buses
  /\ buses[bus] # "SERIAL" \/ ~Asked("SERIAL")
  /\ devlist' = Others(buses[bus]) /\ NextBus(devlist')
  /\ UNCHANGED <<machine, pc, x, opened, attr, reading, history, level, logLevel, result>>

ProbeSerial ==
  /\ ppc = "bus" /\ bus \in DOMAIN buses
  /\ buses[bus] = "SERIAL" /\ Asked("SERIAL")
  /\ ppc' = "serial"
  /\ UNCHANGED <<vars, bus, level, logLevel, result>>

SerialStep == ppc = "serial" /\ SerialNext /\ UNCHANGED probing

SerialReturns ==
  /\ ppc = "serial" /\ pc = "done"
  /\ NextBus(devlist)
  /\ UNCHANGED <<vars, level, logLevel, result>>

Probed == ppc = "probed" \/ (ppc = "bus" /\ bus \notin DOMAIN buses)

\* A mutant: with nothing to return, the console stays quiet.
NothingFoundStaysQuiet ==
  /\ Probed /\ devlist = <<>>
  /\ ppc' = "returned"
  /\ UNCHANGED <<vars, bus, level, logLevel, result>>

NothingFound ==
  /\ Probed /\ devlist = <<>>
  /\ level' = logLevel
  /\ ppc' = "returned"
  /\ UNCHANGED <<vars, bus, logLevel, result>>

filterNetDevices(devs) == SelectSeq(devs, LAMBDA d : d.class = "NETWORK" => d.loaded)

SomeFound ==
  /\ Probed /\ devlist # <<>>
  /\ level' = logLevel
  /\ result' = IF "NETWORK" \in machine.class /\ machine.loaded THEN filterNetDevices(devlist)
               ELSE devlist
  /\ ppc' = "returned"
  /\ UNCHANGED <<vars, bus, logLevel>>

Next ==
  \/ Call \/ ProbeOther \/ ProbeSerial \/ SerialStep \/ SerialReturns
  \/ NothingFound \/ SomeFound

\* The program has one thread, and each of its waits has an end.
Spec == ProbeInit /\ [][Next]_probeVars /\ WF_probeVars(Next)

-----------------------------------------------------------------------------
(* Properties *)

Returned == ppc = "returned"

\* Serial devices in a list, and what tells them apart.
SerialOf(devs) == SelectSeq(devs, LAMBDA d : d.port \in Ports)
Name(id)       == IF id.ok THEN <<id.eisa_id, id.product_id, id.class_name>> ELSE <<>>

Reached == "SERIAL" \in machine.probeBus /\ ~machine.safe

\* A device that is there to be found.  A mouse that says just M is left out:
\* attempt_pnp_retrieve() takes that M for an answer, and serialProbe() gives up
\* on it where it does not parse, before it looks for a legacy mouse.
ToBeFound(p) ==
  /\ Reached /\ ~Skipped(p) /\ p \notin guessed
  /\ machine.ports[p].kind \in machine.class
  /\ machine.ports[p].power # <<77>>

\* Where no wait was too short and no call failed, each device is found on its
\* port as what it is, under the name it gives itself, and nothing else is found,
\* but for the ports where serial.c looked at bytes nobody sent.  It takes a
\* search that ends too early, a question asked on the wrong line settings, or
\* something of an earlier answer left over, to break this.
FoundUnlessLate ==
  Returned /\ late = 0 /\ faults = 0 =>
    /\ \A d \in ToSet(SerialOf(result)) : d.port \notin guessed =>
         /\ ToBeFound(d.port)
         /\ d.class = machine.ports[d.port].kind
         /\ Name(d.id) = Name(parse_pnp_string(machine.ports[d.port].id))
    /\ \A p \in Ports : ToBeFound(p) =>
         \/ \E d \in ToSet(SerialOf(result)) : d.port = p
         \/ machine.one /\ \E d \in ToSet(devlist) : d.port < p
    /\ \A i, j \in DOMAIN SerialOf(result) :
         SerialOf(result)[i].port = SerialOf(result)[j].port => i = j

\* Whatever comes late and whatever fails: the name of a device is made of
\* bytes that its own port sent.  The buffer of serialProbe() holds the name of
\* the port before when a read fails; that it is not used hangs on the length,
\* which is set in another function.
NothingOfAnotherPort ==
  \A d \in ToSet(devlist) : d.port \in Ports /\ d.id.ok =>
    LET dev  == machine.ports[d.port]
        sent == ToSet(dev.power \o dev.at \o dev.ati9)
    IN ToSet(d.id.eisa_id) \subseteq sent \cup {Up(b) : b \in sent}

\* On every way out the console has its log level again, and each port is
\* closed and set as it was: probeDevices() and serialProbe() both return
\* from the middle.
Restored ==
  Returned => /\ level = machine.level
              /\ ~opened /\ \A p \in Ports : attr[p] = "orig"

\* The probe comes to an end, whatever the devices say, even without end, and
\* though every failed attempt is followed by another.
Returns == <>Returned
=============================================================================
