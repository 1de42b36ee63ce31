--------------------------------- MODULE Serial --------------------------------
(***************************************************************************)
(* serialProbe() of serial.c: who is on /dev/ttyS0 to ttyS3?  A port is    *)
(* opened, its lines are dropped and raised, and what the device then says *)
(* is read a byte at a time: its Plug and Play identification, the M of an *)
(* old mouse, or a modem's answer to AT.                                   *)
(*                                                                         *)
(* The devices and the kernel's buffer run beside the program.  What was   *)
(* sent and not read yet is "pending"; when the lines drop, the rest of    *)
(* what is being sent is lost and what has arrived is kept.                *)
(***************************************************************************)
EXTENDS SerialPnp

CONSTANTS
  Machines,  \* the ports, how the program is called, and the bounds: maxLate, on the
             \* waits a device misses though it has more to say, and maxFaults, on the
             \* failures of ioctl() and read() at the ports of faulty
  NoPort     \* a port that does not open

ASSUME BoundsAssumption == \A m \in Machines : m.maxLate \in Nat /\ m.maxFaults \in Nat

Ports   == 0..3
Byte    == 0..255

\* What is at a port says bytes: by itself, on AT, and on ATI9.
Devices == [kind : STRING, id : Seq(Byte), power : Seq(Byte), at : Seq(Byte), ati9 : Seq(Byte),
            wakes : BOOLEAN, babbles : BOOLEAN]
ASSUME PortsAssumption == \A m \in Machines : m.ports \in [Ports -> Devices \cup {NoPort}]

PnpSize == 99      \* sizeof(pnp_string) - 1
Classes == {"OTHER", "MOUSE", "MODEM", "PRINTER"}

VARIABLES
  machine,    \* the ports, and the arguments of serialProbe()
  pc,         \* where serialProbe() is
  x,          \* the port it is at
  opened,     \* fd is the port's
  attr,       \* how each port is set: "orig", or for 7 or for 8 bits
  pending,    \* what the device sent and nobody has read
  woken,      \* the device has seen AT
  pnp_string, \* the buffer
  pnp_strlen, \* how much of it the last whole read wrote
  got,        \* what the current read put into the buffer, or into resp
  why,        \* what the current read waits for
  tried_at_prodding,
  devlist,    \* the devices found, the last one first
  guessed,    \* ports whose answer was read beyond what was received
  late,       \* how often a device was too late
  faults      \* how many calls failed

reading == <<pending, woken, pnp_string, pnp_strlen, got, why, tried_at_prodding>>
history == <<guessed, late, faults>>
vars == <<machine, pc, x, opened, attr, reading, devlist, history>>

Init ==
  /\ machine \in Machines
  /\ pc = "begin" /\ x = 0 /\ opened = FALSE /\ attr = [p \in Ports |-> "orig"]
  /\ pending = <<>> /\ woken = FALSE /\ pnp_string = <<>> /\ pnp_strlen = 0
  /\ got = <<>> /\ why = "none" /\ tried_at_prodding = FALSE
  /\ devlist = <<>> /\ guessed = {} /\ late = 0 /\ faults = 0

Goto(label) == pc' = label
Port   == UNCHANGED <<machine, x, opened>>
Device == machine.ports[x]

-----------------------------------------------------------------------------
(* The device. *)

\* What it says when its lines come up: some modems have to see AT once before.
Speech == IF Device.wakes /\ ~woken THEN <<>> ELSE Device.power

\* The lines drop and come up.
Raised(answer) == \E kept \in Prefixes(pending) : pending' = kept \o Speech \o answer

\* A device that never stops talking sends the next byte.
Heard == pending' = IF Device.babbles THEN Append(Tail(pending), Head(pending)) ELSE Tail(pending)

\* The wait for a byte ends with nothing to read: after a quarter of a second, or
\* when the two, three or five seconds are over.
NothingHeard ==
  /\ late' = IF pending = <<>> THEN late ELSE late + 1
  /\ late' <= machine.maxLate

Fault ==
  /\ x \in machine.faulty /\ faults < machine.maxFaults
  /\ faults' = faults + 1 /\ UNCHANGED <<guessed, late>>

-----------------------------------------------------------------------------
(* serialProbe(): which ports. *)

LineOf(line) == IF line > 0 THEN 2^line ELSE line

Begin ==
  /\ pc = "begin"
  /\ IF machine.safe \/ machine.class \cap Classes = {} THEN Goto("done") ELSE Goto("port")
  /\ UNCHANGED <<machine, x, opened, attr, reading, devlist, history>>

Skipped(p) ==
  \/ p \in {LineOf(machine.console), LineOf(machine.stdin)}
  \/ p \in machine.locked
  \/ machine.ports[p] = NoPort

SkipPort ==
  /\ pc = "port" /\ x \in Ports /\ Skipped(x)
  /\ x' = x + 1
  /\ UNCHANGED <<machine, pc, opened, attr, reading, devlist, history>>

\* A mutant: the modem on the port before was prodded.
OpenPortKeepsProdding ==
  /\ pc = "port" /\ x \in Ports /\ ~Skipped(x)
  /\ opened' = TRUE /\ pending' = <<>> /\ woken' = FALSE
  /\ pnp_strlen' = 0
  /\ Goto("seq1")
  /\ UNCHANGED <<machine, x, attr, pnp_string, got, why, tried_at_prodding, devlist, history>>

\* A mutant: the length of the port before is kept.
OpenPortKeepsLength ==
  /\ pc = "port" /\ x \in Ports /\ ~Skipped(x)
  /\ opened' = TRUE /\ pending' = <<>> /\ woken' = FALSE
  /\ tried_at_prodding' = FALSE
  /\ Goto("seq1")
  /\ UNCHANGED <<machine, x, attr, pnp_string, pnp_strlen, got, why, devlist, history>>

OpenPort ==
  /\ pc = "port" /\ x \in Ports /\ ~Skipped(x)
  /\ opened' = TRUE /\ pending' = <<>> /\ woken' = FALSE
  /\ pnp_strlen' = 0 /\ tried_at_prodding' = FALSE
  /\ Goto("seq1")
  /\ UNCHANGED <<machine, x, attr, pnp_string, got, why, devlist, history>>

LastPort ==
  /\ pc = "port" /\ x \notin Ports
  /\ Goto("done")
  /\ UNCHANGED <<machine, x, opened, attr, reading, devlist, history>>

-----------------------------------------------------------------------------
(* attempt_pnp_retrieve() *)

Set(bits) == attr' = [attr EXCEPT ![x] = bits]

Read(reason) == Goto("read") /\ got' = <<>> /\ why' = reason

init_pnp_com_seq1 ==
  /\ pc = "seq1"
  /\ Set("seven") /\ Raised(<<>>) /\ Read("seq1") /\ Port
  /\ UNCHANGED <<woken, pnp_string, pnp_strlen, tried_at_prodding, devlist, history>>

\* The first ioctl() may fail, or the second, when the attributes are init_port()'s.
Seq1Fails ==
  /\ pc = "seq1" /\ Fault
  /\ \E bits \in {attr[x], "init"} : Set(bits)
  /\ Goto("endprobe") /\ Port
  /\ UNCHANGED <<reading, devlist>>

init_pnp_com_seq2 ==
  /\ pc = "seq2"
  /\ Raised(<<>>) /\ Read("seq2") /\ Port
  /\ UNCHANGED <<attr, woken, pnp_string, pnp_strlen, tried_at_prodding, devlist, history>>

\* The identification is complete: its first opening byte has its closing one.
Complete(s) ==
  LET open == FirstIn(s, 1, {BeginPnP1, BeginPnP2})
  IN open # 0 /\ FirstIn(s, open, {IF s[open] = BeginPnP1 THEN EndPnP1 ELSE EndPnP2}) # 0

ReadEnds ==
  /\ pnp_string' = got' /\ pnp_strlen' = Len(got')
  /\ Goto(IF why = "ati9" THEN "judgeATI9" ELSE "judge")

ReadByte ==
  /\ pc = "read" /\ pending # <<>>
  /\ Heard
  /\ got' = Append(got, Head(pending))
  /\ IF Complete(got') \/ Len(got') >= PnpSize THEN ReadEnds
     ELSE UNCHANGED <<pc, pnp_string, pnp_strlen>>
  /\ Port
  /\ UNCHANGED <<attr, woken, why, tried_at_prodding, devlist, history>>

ReadTimesOut ==
  /\ pc = "read" /\ NothingHeard
  /\ got' = got /\ ReadEnds /\ Port
  /\ UNCHANGED <<attr, pending, woken, why, tried_at_prodding, devlist, guessed, faults>>

\* What was read lies over what was in the buffer; the length is not set.
ReadFails ==
  /\ pc = "read" /\ Fault
  /\ pnp_string' = got \o SubSeq(pnp_string, Len(got) + 1, Len(pnp_string))
  /\ Goto(CASE why = "seq1" -> "seq2" [] why = "seq2" -> "judge" [] why = "ati9" -> "judgeATI9")
  /\ Port
  /\ UNCHANGED <<attr, pending, woken, pnp_strlen, got, why, tried_at_prodding, devlist>>

\* The only thing a legacy mouse says.
JustM == pnp_strlen = 1 /\ pnp_string # <<>> /\ pnp_string[1] = 77

Id     == parse_pnp_string(SubSeq(pnp_string, 1, pnp_strlen))
Parsed == Id.ok

Retrieved ==
  /\ pc = "judge" /\ (JustM \/ Parsed)
  /\ Goto("identify") /\ Port
  /\ UNCHANGED <<attr, reading, devlist, history>>

\* A mutant: it is not remembered that the modem was prodded.
ProdAgain ==
  /\ pc = "judge" /\ ~JustM /\ ~Parsed /\ ~tried_at_prodding
  /\ pending' = pending \o Device.at /\ woken' = TRUE
  /\ Goto("seq1") /\ Port
  /\ UNCHANGED <<attr, pnp_string, pnp_strlen, got, why, tried_at_prodding, devlist, history>>

Prod ==
  /\ pc = "judge" /\ ~JustM /\ ~Parsed /\ ~tried_at_prodding
  /\ tried_at_prodding' = TRUE
  /\ pending' = pending \o Device.at /\ woken' = TRUE
  /\ Goto("seq1") /\ Port
  /\ UNCHANGED <<attr, pnp_string, pnp_strlen, got, why, devlist, history>>

\* init_pnp_com_ati9(), up to where it waits for its own command.
init_pnp_com_ati9 ==
  /\ pc = "judge" /\ ~JustM /\ ~Parsed /\ tried_at_prodding
  /\ Set("eight") /\ Raised(Device.ati9) /\ woken' = TRUE
  /\ Goto("echo") /\ got' = <<>> /\ Port
  /\ UNCHANGED <<pnp_string, pnp_strlen, why, tried_at_prodding, devlist, history>>

\* Its failures are not looked at: the answer is waited for all the same.
ATI9Fails ==
  /\ pc = "judge" /\ ~JustM /\ ~Parsed /\ tried_at_prodding
  /\ Fault /\ Raised(<<>>) /\ Read("ati9") /\ Port
  /\ UNCHANGED <<attr, woken, pnp_string, pnp_strlen, tried_at_prodding, devlist>>

ATI9 == <<65, 84, 73, 57, 13>>

EchoByte ==
  /\ pc = "echo" /\ pending # <<>>
  /\ Heard
  /\ LET resp == Append(got, Head(pending))
     IN IF IsSuffix(ATI9, resp) \/ Len(resp) > 6 THEN Read("ati9")
        ELSE got' = resp /\ UNCHANGED <<pc, why>>
  /\ Port
  /\ UNCHANGED <<attr, woken, pnp_string, pnp_strlen, tried_at_prodding, devlist, history>>

EchoTimesOut ==
  /\ pc = "echo" /\ NothingHeard
  /\ Read("ati9") /\ Port
  /\ UNCHANGED <<attr, pending, woken, pnp_string, pnp_strlen, tried_at_prodding, devlist,
                 guessed, faults>>

EchoFails ==
  /\ pc = "echo" /\ Fault
  /\ Read("ati9") /\ Port
  /\ UNCHANGED <<attr, pending, woken, pnp_string, pnp_strlen, tried_at_prodding, devlist>>

RetrievedByATI9 ==
  /\ pc = "judgeATI9" /\ Parsed
  /\ Goto("identify") /\ Port
  /\ UNCHANGED <<attr, reading, devlist, history>>

NothingRetrieved ==
  /\ pc = "judgeATI9" /\ ~Parsed
  /\ pnp_string' = <<>> /\ pnp_strlen' = 0
  /\ Goto("identify") /\ Port
  /\ UNCHANGED <<attr, pending, woken, got, why, tried_at_prodding, devlist, history>>

-----------------------------------------------------------------------------
(* serialProbe(): what was found. *)

Found(class, id) ==
  IF class \notin machine.class
  THEN Goto("endprobe") /\ Port /\ UNCHANGED <<attr, devlist>>
  ELSE /\ devlist' = <<[port |-> x, class |-> class, id |-> id]>> \o devlist
       /\ IF machine.one
          THEN Set("orig") /\ opened' = FALSE /\ Goto("done") /\ UNCHANGED <<machine, x>>
          ELSE Goto("endprobe") /\ Port /\ UNCHANGED attr

\* "Got PNP data back, but failed to parse.  Aborting"
Abort ==
  /\ pc = "identify" /\ pnp_strlen # 0 /\ ~Parsed
  /\ Goto("endprobe") /\ Port
  /\ UNCHANGED <<attr, reading, devlist, history>>

FoundPnP ==
  /\ pc = "identify" /\ pnp_strlen # 0 /\ Parsed
  /\ \E id \in {Id} : Found(DeviceClass(id), id)
  /\ UNCHANGED <<reading, history>>

-----------------------------------------------------------------------------
(* find_legacy_mouse() and find_legacy_modem() *)

find_legacy_mouse ==
  /\ pc = "identify" /\ pnp_strlen = 0
  /\ Set("seven") /\ Raised(<<>>)
  /\ Goto("mouse") /\ Port
  /\ UNCHANGED <<woken, pnp_string, pnp_strlen, got, why, tried_at_prodding, devlist, history>>

\* tcgetattr() or tcsetattr() fails in either.
LegacyFails ==
  /\ (pc = "identify" /\ pnp_strlen = 0) \/ pc = "modem"
  /\ Fault
  /\ Goto("endprobe") /\ Port
  /\ UNCHANGED <<attr, reading, devlist>>

LegacyMouse == Found("MOUSE", NoId)
NoMouse     == Goto("modem") /\ Port /\ UNCHANGED <<attr, devlist>>

MouseAnswers ==
  /\ pc = "mouse" /\ pending # <<>>
  /\ Heard
  /\ IF Head(pending) = 77 THEN LegacyMouse ELSE NoMouse
  /\ UNCHANGED <<woken, pnp_string, pnp_strlen, got, why, tried_at_prodding, history>>

\* The byte that is looked at was never written.
MouseTimesOut ==
  /\ pc = "mouse" /\ NothingHeard
  /\ \/ LegacyMouse /\ guessed' = guessed \cup {x}
     \/ NoMouse /\ guessed' = guessed
  /\ UNCHANGED <<reading, faults>>

AnswerFails ==
  /\ pc \in {"mouse", "answer"} /\ Fault
  /\ Goto("endprobe") /\ Port
  /\ UNCHANGED <<attr, reading, devlist>>

find_legacy_modem ==
  /\ pc = "modem"
  /\ Set("eight") /\ pending' = pending \o Device.at /\ woken' = TRUE
  /\ Goto("answer") /\ got' = <<>> /\ Port
  /\ UNCHANGED <<pnp_string, pnp_strlen, why, tried_at_prodding, devlist, history>>

HasOK(s) == \E i \in 1..Len(s) - 1 : s[i] = 79 /\ s[i + 1] = 75

\* Ten bytes leave no room for the NUL: strstr() goes on behind them.
AnswerEnds(resp) ==
  \/ /\ HasOK(resp)
     /\ Found("MODEM", NoId) /\ guessed' = guessed
  \/ /\ ~HasOK(resp)
     /\ Goto("endprobe") /\ Port /\ UNCHANGED <<attr, devlist, guessed>>
  \/ /\ ~HasOK(resp) /\ Len(resp) = 10
     /\ Found("MODEM", NoId) /\ guessed' = guessed \cup {x}

AnswerByte ==
  /\ pc = "answer" /\ pending # <<>>
  /\ Heard
  /\ got' = Append(got, Head(pending))
  /\ IF Len(got') > 9 THEN AnswerEnds(got')
     ELSE Port /\ UNCHANGED <<pc, attr, devlist, guessed>>
  /\ UNCHANGED <<woken, pnp_string, pnp_strlen, why, tried_at_prodding, late, faults>>

AnswerTimesOut ==
  /\ pc = "answer" /\ NothingHeard
  /\ AnswerEnds(got)
  /\ UNCHANGED <<reading, faults>>

-----------------------------------------------------------------------------

EndProbe ==
  /\ pc = "endprobe"
  /\ Set("orig") /\ opened' = FALSE /\ pending' = <<>>
  /\ x' = x + 1 /\ Goto("port")
  /\ got' = <<>> /\ why' = "none"
  /\ UNCHANGED <<machine, woken, pnp_string, pnp_strlen, tried_at_prodding, devlist, history>>

\* A step of serialProbe().
SerialNext ==
  \/ Begin \/ SkipPort \/ OpenPort \/ LastPort
  \/ init_pnp_com_seq1 \/ Seq1Fails \/ init_pnp_com_seq2
  \/ ReadByte \/ ReadTimesOut \/ ReadFails
  \/ Retrieved \/ Prod \/ init_pnp_com_ati9 \/ ATI9Fails
  \/ EchoByte \/ EchoTimesOut \/ EchoFails
  \/ RetrievedByATI9 \/ NothingRetrieved
  \/ Abort \/ FoundPnP
  \/ find_legacy_mouse \/ LegacyFails \/ MouseAnswers \/ MouseTimesOut \/ AnswerFails
  \/ find_legacy_modem \/ AnswerByte \/ AnswerTimesOut
  \/ EndProbe
=============================================================================
