-------------------------------- MODULE Inittab -------------------------------
(***************************************************************************)
(* What configure() of hwconf.c does for a console: rewriteInittab() makes *)
(* /etc/inittab run a getty on it, by way of /etc/inittab-, and            *)
(* rewriteSecuretty() lets root log in there.  Consoles are configured one *)
(* after the other; a run may be cut short between two steps, and calls    *)
(* whose results nobody looks at may fail.                                 *)
(***************************************************************************)
EXTENDS Integers, Sequences, FiniteSets, SequencesExt

CONSTANTS
  NIL,        \* no such file, no such device
  Texts,      \* what ids, names and speeds are made of
  Files,      \* inittab before: its lines
  Securettys, \* securetty before: its lines, and whether the last one is ended
  Consoles,   \* what may have to be configured
  MaxFaults   \* how many calls fail and runs are cut short

\* A line of inittab: its id, what it runs ("mingetty", "getty" for agetty and
\* mgetty, "respawn" for another program that is started again, "default5" and
\* "default3" for the run level, "other"), the # in front of it (2 for two or
\* more), the terminal a getty is on, and the speed.  The name of a terminal is a
\* tuple, so that <<"ttyS", "1">> begins <<"ttyS", "1", "0">> as the text does.
\* "default5" is a line that begins id:5: and so has the id id.
Terminals == Seq(Texts)
Runs      == {"mingetty", "getty", "respawn", "default5", "default3", "other"}
Lines ==
  {l \in [id : Texts, runs : Runs, marks : 0..2, tty : Terminals \cup {NIL},
          speed : Texts \cup {NIL}] : l.runs = "default5" => l.id = "id" /\ l.tty = NIL}

ASSUME InittabAssumption ==
  /\ {"co", "id", "garbled"} \subseteq Texts
  /\ Files \subseteq Seq(Lines) /\ NIL \notin Seq(Lines)
  /\ Securettys \subseteq [lines : Seq(Terminals), ended : BOOLEAN] \cup {NIL}
  /\ Consoles \subseteq [device : Terminals \cup {NIL}, length : Nat, speed : Texts \cup {NIL}]
  /\ MaxFaults \in Nat

Co(d)    == [id |-> "co", runs |-> "getty", marks |-> 0, tty |-> d.device, speed |-> d.speed]
Default3 == [id |-> "id", runs |-> "default3", marks |-> 0, tty |-> NIL, speed |-> NIL]

VARIABLES
  inittab, spare,  \* inittab and inittab-
  securetty,
  pc,
  dev, hasVideo,   \* the device, and whether there is a video card
  check,           \* what checkInittab() answered
  text,            \* the file that is read, and the lines of it that are left
  out,             \* what was written
  faults,
  short,           \* a write was cut short and its file used
  original         \* the first inittab

files   == <<inittab, spare, securetty>>
reading == <<check, text, out>>
history == <<faults, short, original>>
vars    == <<files, pc, dev, hasVideo, reading, history>>

Init ==
  /\ inittab \in Files /\ spare = NIL /\ securetty \in Securettys
  /\ pc = "idle" /\ dev = NIL /\ hasVideo = FALSE
  /\ check = {} /\ text = <<>> /\ out = <<>>
  /\ faults = 0 /\ short = FALSE /\ original = inittab

-----------------------------------------------------------------------------

IsSerialish(d) == d.device # NIL /\ d.device[1] \in {"console", "ttyS", "hvc0", "hvsi"}

\* strstr(): ttyS1 is named by a line about ttyS10 too.
Names(l, d) == l.runs = "getty" /\ d.device # NIL /\ IsPrefix(d.device, l.tty)

\* Bit 0, 1 here: a line needs commenting out, or there is no getty.  Bit 1, 2
\* here: there is a getty, but commented out.
CheckInittab(lines, d, video) ==
  LET L == ToSet(lines)
      wrong(l) == \/ l.runs = "mingetty" /\ l.marks = 0 /\ IsSerialish(d) /\ ~video
                  \/ Names(l, d) /\ l.marks = 0 /\ ~IsSerialish(d)
      none     == IsSerialish(d) /\ \A l \in L : ~Names(l, d)
      off(l)   == Names(l, d) /\ l.marks > 0 /\ IsSerialish(d)
  IN IF lines = NIL THEN {}
     ELSE {b \in {1} : none \/ \E l \in L : wrong(l)} \cup {b \in {2} : \E l \in L : off(l)}

\* The seven characters of "console" are copied whatever the name is: for one of
\* fewer than six some of what follows stays in front of the speed.
Uncommented(l, d) ==
  [l EXCEPT !.marks = 0, !.speed = IF d.length \in {6, 7} THEN d.speed ELSE "garbled"]

\* What is not handled is copied, but for the console line of a serial console.
Copied(l, d) == IF IsSerialish(d) /\ l.id = "co" /\ l.marks = 0 THEN <<>> ELSE <<l>>

\* A mutant: only the mingetty that the getty is put in front of is commented out.
MingettyOnce(l, d, video, bits) ==
  IF IsSerialish(d)
  THEN IF 2 \in bits THEN <<l>>
       ELSE <<Co(d), IF l.marks = 0 /\ ~video THEN [l EXCEPT !.marks = 1] ELSE l>>
  ELSE <<[l EXCEPT !.marks = 0]>>

Mingetty(l, d, video, bits) ==
  IF IsSerialish(d)
  THEN (IF 2 \in bits THEN <<>> ELSE <<Co(d)>>)
         \o <<IF l.marks = 0 /\ ~video THEN [l EXCEPT !.marks = 1] ELSE l>>
  ELSE <<[l EXCEPT !.marks = 0]>>

Getty(l, d) ==
  CASE Names(l, d) /\ ~IsSerialish(d) /\ l.marks = 0 -> <<[l EXCEPT !.marks = 1]>>
    [] Names(l, d) /\ IsSerialish(d) /\ l.marks = 1  -> <<Uncommented(l, d)>>
    [] OTHER                                         -> Copied(l, d)

\* What becomes of a line.  A line with ## is the administrator's.
Rewritten(l, d, video, bits) ==
  CASE l.marks = 2 \/ l.runs \in {"other", "default3"} -> <<l>>
    [] l.marks < 2 /\ l.runs = "default5" -> IF IsSerialish(d) /\ ~video THEN <<Default3>> ELSE <<l>>
    [] l.marks < 2 /\ l.runs = "mingetty" -> Mingetty(l, d, video, bits)
    [] l.marks < 2 /\ l.runs = "getty"    -> Getty(l, d)
    [] l.marks < 2 /\ l.runs = "respawn"  -> Copied(l, d)

-----------------------------------------------------------------------------

Fault == faults < MaxFaults /\ faults' = faults + 1 /\ UNCHANGED original

Goto(label) == pc' = label

\* Without an inittab checkInittab() is content.
Configure ==
  /\ pc = "idle"
  /\ \E d \in Consoles, video \in BOOLEAN :
       /\ dev' = d /\ hasVideo' = video
       /\ check' = CheckInittab(inittab, d, video)
  /\ Goto(IF check' = {} THEN "securetty" ELSE "open")
  /\ UNCHANGED <<files, text, out, history>>

\* A mutant: the old file is unlinked as soon as both are open.
OpenUnlinks ==
  /\ pc = "open"
  /\ spare' = <<>> /\ text' = inittab /\ out' = <<>> /\ inittab' = NIL
  /\ Goto("copy")
  /\ UNCHANGED <<securetty, dev, hasVideo, check, history>>

Open ==
  /\ pc = "open"
  /\ spare' = <<>> /\ text' = inittab /\ out' = <<>>
  /\ Goto("copy")
  /\ UNCHANGED <<inittab, securetty, dev, hasVideo, check, history>>

OpenFails ==
  /\ pc = "open" /\ Fault
  /\ Goto("securetty")
  /\ UNCHANGED <<files, dev, hasVideo, reading, short>>

CopyLine ==
  /\ pc = "copy" /\ text # <<>>
  /\ LET l == Head(text)
     IN /\ out' = out \o Rewritten(l, dev, hasVideo, check)
        /\ check' = IF l.runs = "mingetty" /\ l.marks < 2 /\ IsSerialish(dev) THEN check \cup {2}
                    ELSE check
  /\ text' = Tail(text)
  /\ UNCHANGED <<files, pc, dev, hasVideo, history>>

Close ==
  /\ pc = "copy" /\ text = <<>>
  /\ spare' = out
  /\ Goto("unlink")
  /\ UNCHANGED <<inittab, securetty, dev, hasVideo, reading, history>>

\* The disk is full.
CloseShort ==
  /\ pc = "copy" /\ text = <<>> /\ Fault
  /\ spare' \in Prefixes(out) /\ short' = TRUE
  /\ Goto("unlink")
  /\ UNCHANGED <<inittab, securetty, dev, hasVideo, reading>>

Unlink ==
  /\ pc = "unlink"
  /\ inittab' = NIL
  /\ Goto("rename")
  /\ UNCHANGED <<spare, securetty, dev, hasVideo, reading, history>>

Rename ==
  /\ pc = "rename"
  /\ inittab' = spare /\ spare' = NIL
  /\ Goto("securetty")
  /\ UNCHANGED <<securetty, dev, hasVideo, reading, history>>

RenameFails ==
  /\ pc = "rename" /\ Fault
  /\ Goto("securetty")
  /\ UNCHANGED <<files, dev, hasVideo, reading, short>>

Listed(d) == \E x \in DOMAIN securetty.lines :
               securetty.lines[x] = d.device /\ (x = Len(securetty.lines) => securetty.ended)

\* A file without lines gets an empty one.
RewriteSecuretty ==
  /\ pc = "securetty"
  /\ IF IsSerialish(dev) /\ securetty # NIL /\ ~Listed(dev)
     THEN securetty' = [lines |-> securetty.lines
                                    \o (IF securetty.lines = <<>> THEN <<<<>>>> ELSE <<>>)
                                    \o <<dev.device>>,
                        ended |-> TRUE]
     ELSE UNCHANGED securetty
  /\ Goto("configured")
  /\ UNCHANGED <<inittab, spare, dev, hasVideo, reading, history>>

Exit ==
  /\ pc = "configured"
  /\ dev' = NIL /\ hasVideo' = FALSE /\ check' = {} /\ text' = <<>> /\ out' = <<>>
  /\ Goto("idle")
  /\ UNCHANGED <<files, history>>

\* What was written may have reached the disk or not.
Crash ==
  /\ pc \notin {"idle", "configured"} /\ Fault
  /\ IF pc = "copy" THEN spare' \in Prefixes(out) ELSE spare' = spare
  /\ dev' = NIL /\ hasVideo' = FALSE /\ check' = {} /\ text' = <<>> /\ out' = <<>>
  /\ Goto("idle")
  /\ UNCHANGED <<inittab, securetty, short>>

Next ==
  \/ Configure
  \/ Open \/ OpenFails \/ CopyLine \/ Close \/ CloseShort \/ Unlink \/ Rename \/ RenameFails
  \/ RewriteSecuretty \/ Exit \/ Crash

Spec == Init /\ [][Next]_vars

-----------------------------------------------------------------------------
(* Properties *)

\* What a line is for, whether it is commented out or not; the lines kudzu may
\* write for itself, and take away, have the id co.
Purpose(l) == [id |-> l.id, tty |-> l.tty,
               runs |-> IF l.runs = "default5" THEN "default3" ELSE l.runs]
Own(lines)        == {x \in DOMAIN lines : lines[x].id # "co"}
Position(lines, x) == Cardinality({y \in Own(lines) : y <= x})

\* One has as many lines of the administrator as the other, and the first is for
\* what the first is for, the second for what the second is for.
SameLines(a, b) ==
  /\ Cardinality(Own(a)) = Cardinality(Own(b))
  /\ \A x \in Own(a), y \in Own(b) : Position(a, x) = Position(b, y) => Purpose(a[x]) = Purpose(b[y])

\* Whenever a run is cut short or a call fails, the administrator's lines are
\* all there, in their order: in inittab, or in inittab- while there is no
\* inittab.  Only a write that stopped half way, and whose file is renamed all
\* the same, breaks that.  rewriteInittab() unlinks the file before it renames
\* the other; it takes a wrong order of its last steps, or a line that one of
\* its eight ways through a line forgets, to violate this.
LinesKept ==
  ~short => SameLines(original, IF inittab # NIL THEN inittab ELSE spare)

\* A line that stands in the way of what rewriteInittab() does: a getty with ##
\* counts as one that only needs uncommenting, and is left alone; so does one on
\* a terminal whose name begins like the console's.
InTheWay(l) == Names(l, dev) /\ (l.marks = 2 \/ l.tty # dev.device)

\* After configure() a serial console has what the README says: a getty on it in
\* inittab, none that is commented out, no mingetty that would fail without a
\* screen, and a line in securetty, whatever was in the files before, in what
\* order, and whatever console was configured before.
\* The getty is put in front of the first mingetty: there has to be one.
ConsoleReady ==
  pc = "configured" /\ faults = 0 /\ IsSerialish(dev)
    /\ (\E l \in ToSet(inittab) : l.runs = "mingetty" /\ l.marks < 2)
    /\ (\A l \in ToSet(inittab) : ~InTheWay(l)) =>
      /\ \E l \in ToSet(inittab) : Names(l, dev) /\ l.marks = 0
      /\ \A l \in ToSet(inittab) : Names(l, dev) => l.marks = 0
      /\ ~hasVideo => \A l \in ToSet(inittab) : l.runs = "mingetty" => l.marks > 0
      /\ securetty # NIL => Listed(dev)
===============================================================================
