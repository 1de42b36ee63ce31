----------------------------- MODULE ConfModules -----------------------------
(***************************************************************************)
(* The editing operations of modules.c on an in-memory modprobe.conf.      *)
(*                                                                         *)
(* struct confModules is the sequence of its slots: a slot is a line or    *)
(* NIL, the NULL a removal or a joined continuation leaves behind.  A line *)
(* keeps what the code tells apart: its keyword, the name and the value    *)
(* after it, whether it ends in a backslash, and the lines joined to it.   *)
(* A name is a sequence, so that "eth0" is <<"eth", 0>> and the numbered   *)
(* aliases isAliased() builds from a name are that name with one number    *)
(* appended.                                                               *)
(***************************************************************************)
EXTENDS Integers, Sequences, FiniteSets

CONSTANT NIL        \* C's NULL: an empty slot, a missing file, no alias

Line(kind, name, val) ==
  [kind |-> kind, name |-> name, val |-> val, cont |-> FALSE, tail |-> <<>>]

AliasLine(alias, module) == Line("alias", alias, module)
OptionsLine(name, val)   == Line("options", name, val)

(***************************************************************************)
(* A slot filled by addLine() with the caller's own buffer.                *)
(***************************************************************************)
BUF == Line("buf", <<>>, NIL)

(***************************************************************************)
(* Reading.  toArray() drops a line equal to an earlier one.  Then a line  *)
(* ending in a backslash takes in the next one, whose slot becomes NULL;   *)
(* a slot taken in is skipped, so a third line of a continuation is not    *)
(* joined.                                                                 *)
(***************************************************************************)
ToArray(file) ==
  LET kept[n \in 0..Len(file)] ==
        IF n = 0 THEN <<>>
        ELSE LET k == kept[n - 1]
             IN IF \E i \in DOMAIN k : k[i] = file[n] THEN k ELSE Append(k, file[n])
  IN kept[Len(file)]

Join(l, m) ==
  [l EXCEPT !.cont = m.cont,
            !.tail = @ \o <<[kind |-> m.kind, name |-> m.name, val |-> m.val]>> \o m.tail]

JoinContinued(lines) ==
  LET taken[x \in 0..Len(lines)] ==
        x > 1 /\ lines[x - 1].cont /\ ~taken[x - 1]
  IN [x \in DOMAIN lines |->
        IF taken[x] THEN NIL
        ELSE IF lines[x].cont /\ x < Len(lines) THEN Join(lines[x], lines[x + 1])
        ELSE lines[x]]

ReadConfModules(file) == JoinContinued(ToArray(file))

(***************************************************************************)
(* A missing file is an empty configuration to every caller: they follow   *)
(* a NULL from readConfModules() with newConfModules().                    *)
(***************************************************************************)
LoadConf(file) == IF file = NIL THEN <<>> ELSE ReadConfModules(file)

\* What writeConfModules() puts in the file when nothing goes wrong.
WrittenLines(lines) == SelectSeq(lines, LAMBDA l : l # NIL)

(***************************************************************************)
(* Removing and adding, with CM_REPLACE, the one flag the programs pass.   *)
(***************************************************************************)
RemoveWhere(lines, Drop(_)) ==
  [x \in DOMAIN lines |-> IF lines[x] # NIL /\ Drop(lines[x]) THEN NIL ELSE lines[x]]

RemoveLine(lines, line)    == RemoveWhere(lines, LAMBDA l : l = line)
RemoveAlias(lines, alias)  == RemoveWhere(lines, LAMBDA l : l.kind = "alias" /\ l.name = alias)
RemoveOptions(lines, name) == RemoveWhere(lines, LAMBDA l : l.kind = "options" /\ l.name = name)

IsFirstHole(lines, x) == lines[x] = NIL /\ \A y \in 1..(x - 1) : lines[y] # NIL

FillOrAppend(lines, filler, line) ==
  IF \E x \in DOMAIN lines : IsFirstHole(lines, x)
  THEN [lines EXCEPT ![CHOOSE x \in DOMAIN lines : IsFirstHole(lines, x)] = filler]
  ELSE Append(lines, line)

AddLine(lines, line) == FillOrAppend(RemoveLine(lines, line), line, line)

\* A mutant: the old lines of the alias are removed last.
AddAliasThenRemove(lines, alias, module) ==
  RemoveAlias(AddLine(lines, AliasLine(alias, module)), alias)

AddAlias(lines, alias, module) ==
  AddLine(RemoveAlias(lines, alias), AliasLine(alias, module))

AddOptions(lines, name, val) ==
  AddLine(RemoveOptions(lines, name), OptionsLine(name, val))

(***************************************************************************)
(* addLine() of text the caller formatted in a local buffer: a hole is     *)
(* given the buffer itself, only an appended line is copied.  Slots that   *)
(* already hold the buffer read as the new text, so the removal that comes *)
(* first empties them.  When the file is written they read as the last     *)
(* text the buffer received.                                               *)
(***************************************************************************)
AddBufferLine(lines, line) ==
  FillOrAppend(RemoveWhere(lines, LAMBDA l : l = line \/ l = BUF), BUF, line)

BufferReads(lines, line) == [x \in DOMAIN lines |-> IF lines[x] = BUF THEN line ELSE lines[x]]

(***************************************************************************)
(* Looking up.  The last alias line of a name wins; the text of a line     *)
(* with a continuation equals no module name, so the line stands for it.   *)
(***************************************************************************)
AliasText(l) == IF l.cont \/ l.tail # <<>> THEN l ELSE l.val

GetAlias(lines, alias) ==
  LET hits == {x \in DOMAIN lines : lines[x] # NIL /\ lines[x].kind = "alias"
                                                   /\ lines[x].name = alias}
  IN IF hits = {} THEN NIL
     ELSE AliasText(lines[CHOOSE x \in hits : \A y \in hits : y <= x])

\* -1: no alias; 0: the name itself, or its number 0; n: its number n.  The
\* search goes past a missing number 0 but stops at any other.
IsAliased(lines, alias, module) ==
  LET numbered == {x \in 0..Len(lines) :
                     /\ GetAlias(lines, Append(alias, x)) = module
                     /\ \A y \in 1..(x - 1) : GetAlias(lines, Append(alias, y)) # NIL}
  IN CASE GetAlias(lines, alias) = module -> 0
       [] GetAlias(lines, alias) # module /\ numbered # {} ->
            CHOOSE x \in numbered : \A y \in numbered : x <= y
       [] OTHER -> -1
=============================================================================
