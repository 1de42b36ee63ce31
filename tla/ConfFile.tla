------------------------------- MODULE ConfFile -------------------------------
(***************************************************************************)
(* modprobe.conf on disk: the read and write loops of modules.c, run by a  *)
(* process that may be killed between any two of their system calls, and   *)
(* whose open(), malloc(), read(), rename() and write() may fail.          *)
(*                                                                         *)
(* A session is one run of kudzu or module_upgrade.  It reads the file,    *)
(* edits the lines, and writes them back: stat(), rename() to the "~"      *)
(* backup, open(O_EXCL|O_CREAT), then one write() per line.                *)
(***************************************************************************)
EXTENDS ConfModules

CONSTANTS
  InitConf,     \* modprobe.conf before the first session: NIL or its lines
  Aliases,      \* alias names the sessions edit
  Modules,      \* module names
  MaxFaults     \* bound on kills and failed system calls

InitLines == IF InitConf = NIL THEN {} ELSE {InitConf[x] : x \in DOMAIN InitConf}

Kinds == {"user", "alias", "options"}
Names == Aliases \cup {l.name : l \in InitLines}
Vals  == {NIL} \cup Modules \cup {l.val : l \in InitLines}
Lines == [kind : Kinds, name : Names, val : Vals, cont : BOOLEAN,
          tail : Seq([kind : Kinds, name : Names, val : Vals])]

ASSUME ConfAssumption ==
  /\ InitConf = NIL \/ InitConf \in Seq(Lines)
  /\ NIL \notin Lines /\ NIL \notin Seq(Lines \cup {NIL})
  /\ MaxFaults \in Nat

\* The lines nobody but the administrator writes.
UserLines == {l \in InitLines : l.kind = "user"}

VARIABLES
  conf, bak,    \* modprobe.conf and modprobe.conf~: NIL or a sequence of lines
  cf,           \* cf->lines of the session
  wpc,          \* where the session is
  pos,          \* x of the loop it is in
  madebak,      \* cf->madebackup, and the static madebak it is kept in
  written,      \* has the session completed a writeConfModules()?
  unread,       \* are the lines in hand none, as the file could not be read?
  incomplete,   \* has a write been cut short, or made from such lines?
  lost,         \* has a later write then renamed the incomplete file over the backup?
  faults

disk   == <<conf, bak>>
ghosts == <<written, unread, incomplete, lost, faults>>
vars   == <<disk, cf, wpc, pos, madebak, ghosts>>

Holds(lines, L) == lines # NIL /\ \A l \in L : \E x \in DOMAIN lines : lines[x] = l

Writing == wpc \in {"create", "write"}

Init ==
  /\ conf = InitConf /\ bak = NIL
  /\ cf = <<>> /\ wpc = "off" /\ pos = 0 /\ madebak = 0
  /\ written = FALSE /\ unread = FALSE /\ incomplete = FALSE /\ lost = FALSE /\ faults = 0

StartSession ==
  /\ wpc = "off"
  /\ wpc' = "idle" /\ madebak' = 0
  /\ written' = FALSE
  /\ UNCHANGED <<disk, cf, pos, unread, incomplete, lost, faults>>

EndSession ==
  /\ wpc = "idle"
  /\ wpc' = "off"
  /\ UNCHANGED <<disk, cf, pos, madebak, ghosts>>

-----------------------------------------------------------------------------
(* readConfModules() *)

OpenConf ==
  /\ wpc = "idle"
  /\ cf' = <<>> /\ pos' = 1
  /\ wpc' = IF conf = NIL THEN "edit" ELSE "read"
  /\ unread' = FALSE
  /\ UNCHANGED <<disk, madebak, written, incomplete, lost, faults>>

\* A mutant: toArray() without its search for a duplicate.
ReadLineKeepingDuplicates ==
  /\ wpc = "read" /\ pos <= Len(conf)
  /\ cf' = Append(cf, conf[pos])
  /\ pos' = pos + 1
  /\ UNCHANGED <<disk, wpc, madebak, ghosts>>

ReadLine ==
  /\ wpc = "read" /\ pos <= Len(conf)
  /\ cf' = IF \E x \in DOMAIN cf : cf[x] = conf[pos] THEN cf ELSE Append(cf, conf[pos])
  /\ pos' = pos + 1
  /\ UNCHANGED <<disk, wpc, madebak, ghosts>>

\* A mutant: the reading loop stops one line early.
JoinLinesOneEarly ==
  /\ wpc = "read" /\ pos >= Len(conf)
  /\ cf' = JoinContinued(cf) /\ wpc' = "edit"
  /\ UNCHANGED <<disk, pos, madebak, ghosts>>

JoinLines ==
  /\ wpc = "read" /\ pos > Len(conf)
  /\ cf' = JoinContinued(cf) /\ wpc' = "edit"
  /\ UNCHANGED <<disk, pos, madebak, ghosts>>

\* A reader that has nothing to write.
FreeConf ==
  /\ wpc = "edit"
  /\ wpc' = "idle" /\ cf' = <<>> /\ pos' = 0
  /\ UNCHANGED <<disk, madebak, ghosts>>

Edit ==
  /\ wpc = "edit"
  /\ \E a \in Aliases, m \in Modules :
       cf' \in {AddAlias(cf, a, m), RemoveAlias(cf, a),
                AddOptions(cf, a, m), RemoveOptions(cf, a),
                AddLine(cf, OptionsLine(a, m)), RemoveLine(cf, OptionsLine(a, m))}
  /\ UNCHANGED <<disk, wpc, pos, madebak, ghosts>>

-----------------------------------------------------------------------------
(* writeConfModules() *)

\* A mutant: the old file is removed, not renamed.
RenameRemoves ==
  /\ wpc = "edit"
  /\ wpc' = "create"
  /\ conf' = NIL
  /\ UNCHANGED <<bak, lost, cf, pos, madebak, written, unread, incomplete, faults>>

Rename ==
  /\ wpc = "edit"
  /\ wpc' = "create"
  /\ IF conf # NIL /\ madebak = 0
     THEN bak' = conf /\ conf' = NIL /\ lost' = (lost \/ incomplete)
     ELSE UNCHANGED <<disk, lost>>
  /\ UNCHANGED <<cf, pos, madebak, written, unread, incomplete, faults>>

Create ==
  /\ wpc = "create" /\ conf = NIL
  /\ conf' = <<>> /\ pos' = 1 /\ wpc' = "write"
  /\ UNCHANGED <<bak, cf, madebak, ghosts>>

\* A mutant: the writing loop stops at the first empty slot.
WriteSlotToFirstHole ==
  /\ wpc = "write" /\ pos <= Len(cf)
  /\ conf' = IF cf[pos] = NIL THEN conf ELSE Append(conf, cf[pos])
  /\ pos' = IF cf[pos] = NIL THEN Len(cf) + 1 ELSE pos + 1
  /\ UNCHANGED <<bak, cf, wpc, madebak, ghosts>>

WriteSlot ==
  /\ wpc = "write" /\ pos <= Len(cf)
  /\ conf' = IF cf[pos] = NIL THEN conf ELSE Append(conf, cf[pos])
  /\ pos' = pos + 1
  /\ UNCHANGED <<bak, cf, wpc, madebak, ghosts>>

FinishWrite ==
  /\ wpc = "write" /\ pos > Len(cf)
  /\ wpc' = "idle" /\ written' = TRUE
  /\ cf' = <<>> /\ pos' = 0
  /\ incomplete' = (incomplete \/ unread)
  /\ UNCHANGED <<disk, madebak, unread, lost, faults>>

-----------------------------------------------------------------------------
(* Faults.  The callers ignore what writeConfModules() returns, and it      *)
(* ignores what write() returns.  A NULL from readConfModules() is to them  *)
(* that there is no file, and they go on with newConfModules().             *)

Fault == faults < MaxFaults /\ faults' = faults + 1

\* open(), malloc() or read() fails, or read() gets less than there is.
ReadFails ==
  /\ wpc = "idle" /\ conf # NIL /\ Fault
  /\ wpc' = "edit" /\ cf' = <<>> /\ pos' = 1
  /\ unread' = TRUE
  /\ UNCHANGED <<disk, madebak, written, incomplete, lost>>

RenameFails ==
  /\ wpc = "edit" /\ conf # NIL /\ madebak = 0 /\ Fault
  /\ wpc' = "idle" /\ cf' = <<>> /\ pos' = 0
  /\ UNCHANGED <<disk, madebak, written, unread, incomplete, lost>>

CreateFails ==
  /\ wpc = "create" /\ Fault
  /\ wpc' = "idle" /\ incomplete' = TRUE /\ cf' = <<>> /\ pos' = 0
  /\ UNCHANGED <<disk, madebak, written, unread, lost>>

WriteFails ==
  /\ wpc = "write" /\ pos <= Len(cf) /\ cf[pos] # NIL /\ Fault
  /\ pos' = pos + 1 /\ incomplete' = TRUE
  /\ UNCHANGED <<disk, cf, wpc, madebak, written, unread, lost>>

Crash ==
  /\ wpc # "off" /\ Fault
  /\ wpc' = "off" /\ cf' = <<>> /\ pos' = 0
  /\ incomplete' = (incomplete \/ Writing)
  /\ UNCHANGED <<disk, madebak, written, unread, lost>>

Next ==
  \/ StartSession \/ EndSession
  \/ OpenConf \/ ReadLine \/ JoinLines \/ FreeConf \/ Edit
  \/ Rename \/ Create \/ WriteSlot \/ FinishWrite
  \/ ReadFails \/ RenameFails \/ CreateFails \/ WriteFails \/ Crash

Spec == Init /\ [][Next]_vars

-----------------------------------------------------------------------------
(* Properties *)

\* The files hold lines, the slots of a session lines and holes.
TypeOK ==
  /\ conf = NIL \/ conf \in Seq(Lines)
  /\ bak = NIL \/ bak \in Seq(Lines)
  /\ cf \in Seq(Lines \cup {NIL})
  /\ wpc \in {"off", "idle", "read", "edit", "create", "write"}
  /\ pos \in Nat /\ madebak \in {0, 1}
  /\ written \in BOOLEAN /\ unread \in BOOLEAN /\ incomplete \in BOOLEAN /\ lost \in BOOLEAN
  /\ faults \in 0..MaxFaults

\* writeConfModules() renames the file before it creates the new one, so at
\* every instant the administrator's lines are all in modprobe.conf or all in
\* its backup, until two things have happened: a write left modprobe.conf
\* incomplete, because it was cut short or because the file that was there
\* could not be read before it, and a later write made that file the backup.
UserLinesKept == lost \/ Holds(conf, UserLines) \/ Holds(bak, UserLines) \/ InitConf = NIL

\* An administrator's line leaves modprobe.conf itself only by a write cut
\* short or by one after a read that failed: no edit takes one, and a completed
\* write of what was read has them all.
EditsKeepUserLines == incomplete \/ Writing \/ InitConf = NIL \/ Holds(conf, UserLines)

\* The inductive invariant behind the two: which copy holds the
\* administrator's lines at each point of a session, and that no slot read
\* or written so far has lost one.  Plain says that no line is continued.
Plain(lines) == lines # NIL => \A x \in DOMAIN lines : lines[x] # NIL => ~lines[x].cont

CopiedTo(lines, n, copy) ==
  \A x \in DOMAIN lines : x < n /\ lines[x] \in UserLines => \E y \in DOMAIN copy : copy[y] = lines[x]

Placement ==
  /\ ~incomplete /\ ~Writing => Holds(conf, UserLines)
  /\ (incomplete \/ Writing) /\ ~lost => Holds(bak, UserLines)
  /\ wpc \in {"edit", "create", "write"} /\ ~incomplete /\ ~unread => Holds(cf, UserLines)
  /\ wpc = "read" => CopiedTo(conf, pos, cf)
  /\ wpc = "write" /\ ~incomplete => CopiedTo(cf, pos, conf)

IInv ==
  /\ TypeOK
  /\ madebak = 0
  /\ wpc = "read" => conf # NIL /\ cf \in Seq(Lines) /\ pos >= 1
  /\ wpc = "create" => conf = NIL
  /\ wpc = "write" => conf # NIL /\ pos >= 1
  /\ Plain(conf) /\ Plain(bak) /\ Plain(cf)
  /\ Placement

\* toArray() loads every line of the file once, in the order in which the
\* lines first appear: a session that edits nothing reorders nothing.
LoadsEachLineOnce ==
  wpc = "read" /\ pos > Len(conf) =>
    LET First(l) == CHOOSE x \in DOMAIN conf : conf[x] = l /\ \A y \in 1..(x - 1) : conf[y] # l
    IN /\ {cf[x] : x \in DOMAIN cf} = {conf[x] : x \in DOMAIN conf}
       /\ \A x, y \in DOMAIN cf : x < y => First(cf[x]) < First(cf[y])

\* What a write put in the file reads back with the aliases the session
\* meant: a hole that a line was put in, a duplicate dropped or a continued
\* line joined on the way changes none of them.
AliasesReadBack ==
  wpc = "write" /\ pos > Len(cf) /\ ~incomplete =>
    \A a \in Aliases : GetAlias(LoadConf(conf), a) = GetAlias(cf, a)

\* modules.h says of madebackup: "We only want to do this once per 'session'":
\* a session that has written the file does not replace the backup again.
BackupOncePerSession == [][bak' # bak => ~written]_vars
=============================================================================
