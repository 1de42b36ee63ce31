------------------------------- MODULE MCSerial --------------------------------
(* Instances of ProbeDevices for TLC. *)
EXTENDS ProbeDevices

\* An identification: its letters and its number, and, with its class, the checksum.
Plain(mfr, model) == <<BeginPnP1, 1, 36>> \o mfr \o model \o <<EndPnP1>>
Checked(mfr, model, class) ==
  LET body == <<BeginPnP1, 1, 36>> \o mfr \o model \o <<92, 92>> \o class
      sum  == (FoldLeft(LAMBDA n, b : n + b, 0, body) + EndPnP1) % 256
  IN body \o <<Hex(sum \div 16), Hex(sum % 16), EndPnP1>>
SixBit(s) == <<BeginPnP2, 1, 36>> \o [i \in DOMAIN s |-> s[i] - 32] \o <<EndPnP2>>

Nobody == [kind |-> "none", id |-> <<>>, power |-> <<>>, at |-> <<>>, ati9 |-> <<>>,
           wakes |-> FALSE, babbles |-> FALSE]

OkAnswer    == <<65, 84, 13, 13, 10, 79, 75, 13, 10>>               \* AT OK
ErrorAnswer == <<65, 84, 13, 13, 10, 69, 82, 82, 79, 82, 13, 10>>   \* AT ERROR

OldMouse == [Nobody EXCEPT !.kind = "MOUSE", !.power = <<77>>]
M3Mouse  == [Nobody EXCEPT !.kind = "MOUSE", !.power = <<77, 51>>]

LgiId    == Checked(<<76, 71, 73>>, <<56, 48, 48, 49>>, MOUSE)
PnpMouse == [Nobody EXCEPT !.kind = "MOUSE", !.id = LgiId, !.power = <<77>> \o LgiId]

UsrId    == Plain(<<85, 83, 88>>, <<67, 49, 48, 48>>)
PnpModem == [Nobody EXCEPT !.kind = "MODEM", !.id = UsrId, !.power = UsrId, !.at = OkAnswer,
                           !.wakes = TRUE]

ZyxId    == Checked(<<90, 89, 90>>, <<49, 50, 51, 52>>, MODEM)
ZyxModem == [Nobody EXCEPT !.kind = "MODEM", !.id = ZyxId, !.at = OkAnswer,
                           !.ati9 = ATI9 \o ZyxId \o <<13, 10, 79, 75, 13, 10>>]

OldModem == [Nobody EXCEPT !.kind = "MODEM", !.at = OkAnswer, !.ati9 = ATI9 \o <<13, 10, 79, 75>>]
Stubborn == [Nobody EXCEPT !.at = ErrorAnswer]
Talker   == [Nobody EXCEPT !.power = <<85>>, !.babbles = TRUE]

BtxId    == SixBit(<<66, 84, 87, 50, 50, 50, 50>>)
Scale    == [Nobody EXCEPT !.kind = "OTHER", !.id = BtxId, !.power = BtxId]
PrnId    == Checked(<<80, 82, 81>>, <<51, 51, 51, 51>>, PRINTER)
Printer  == [Nobody EXCEPT !.kind = "PRINTER", !.id = PrnId, !.power = PrnId]

Nic(loaded) == [port |-> -1, class |-> "NETWORK", loaded |-> loaded]

Machine(p0, p1, p2, p3) ==
  [ports |-> (0 :> p0) @@ (1 :> p1) @@ (2 :> p2) @@ (3 :> p3),
   console |-> -1, stdin |-> -1, locked |-> {}, level |-> 6,
   class |-> Classes \cup {"NETWORK"}, one |-> FALSE, safe |-> FALSE, loaded |-> TRUE,
   probeBus |-> {"PCI", "SERIAL"}, others |-> [b \in ToSet(buses) |-> <<>>], maxLate |-> 0, maxFaults |-> 0,
   faulty |-> Ports]

Pairs == {<<PnpMouse, ZyxModem>>, <<PnpModem, PnpMouse>>, <<M3Mouse, PnpModem>>, <<OldModem, Scale>>,
          <<Printer, Stubborn>>, <<Talker, OldMouse>>}

Only(dev) == Machine(dev, NoPort, NoPort, NoPort)

\* Two devices; a call that wants less than everything; devices that are late, and
\* calls that fail.
SomeMachines ==
  LET busy == Machine(PnpMouse, Scale, M3Mouse, Printer)
  IN {Machine(p[1], p[2], NoPort, NoPort) : p \in Pairs}
     \cup {[busy EXCEPT !.one = TRUE, !.others["PCI"] = <<Nic(FALSE)>>],
           [busy EXCEPT !.one = TRUE, !.class = {"PRINTER"}],
           [Machine(M3Mouse, Stubborn, OldModem, Scale) EXCEPT !.one = TRUE, !.class = {"MODEM"}],
           [busy EXCEPT !.console = 0, !.stdin = 1, !.locked = {1}, !.probeBus = ToSet(buses)],
           [busy EXCEPT !.probeBus = {"PCI"}, !.others["PCI"] = <<Nic(TRUE), Nic(FALSE)>>],
           [busy EXCEPT !.safe = TRUE]}
     \cup {[Only(dev) EXCEPT !.maxLate = 1] : dev \in {PnpMouse, PnpModem, OldModem}}
     \cup {[Only(dev) EXCEPT !.maxLate = 1, !.maxFaults = 1] : dev \in {M3Mouse, OldMouse}}
     \cup {[Only(dev) EXCEPT !.maxFaults = 1] : dev \in {ZyxModem, OldModem}}
     \cup {[Machine(Scale, dev, NoPort, NoPort) EXCEPT !.maxFaults = 2, !.faulty = {1}] :
             dev \in {Nobody, M3Mouse, OldModem}}
     \cup {[Machine(Scale, PnpModem, NoPort, NoPort) EXCEPT !.maxFaults = 1, !.faulty = {1}]}
===============================================================================
