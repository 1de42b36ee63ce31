------------------------------- MODULE MCInittab -------------------------------
(* Instances of Inittab for TLC. *)
EXTENDS Inittab

Line(id, runs, marks, tty, speed) ==
  [id |-> id, runs |-> runs, marks |-> marks, tty |-> tty, speed |-> speed]

ttyS0   == <<"ttyS", "0">>
ttyS1   == <<"ttyS", "1">>
ttyS10  == <<"ttyS", "1", "0">>
console == <<"console">>

SomeTexts ==
  {"co", "id", "garbled", "x", "1", "0", "S0", "S1", "S10", "ttyS", "tty", "console", "9600", "19200",
   "38400", "115200"}

SomeConsoles ==
  {[device |-> ttyS0, length |-> 5, speed |-> "115200"], [device |-> ttyS1, length |-> 5, speed |-> "9600"],
   [device |-> console, length |-> 7, speed |-> "38400"], [device |-> NIL, length |-> 0, speed |-> NIL]}

Level     == Line("id", "default5", 0, NIL, NIL)
X         == Line("x", "respawn", 0, NIL, NIL)
Screen(n) == Line("1", "mingetty", n, NIL, NIL)
Modem(n)  == Line("S1", "getty", n, ttyS1, "19200")
Sun(n)    == Line("co", "getty", n, console, "9600")
Second    == Line("S0", "getty", 1, ttyS0, "38400")
Far       == Line("S10", "getty", 1, ttyS10, "9600")

\* Every file with some of these lines, in this order and the other way round.
Some(lines) == {SelectSeq(lines, LAMBDA l : l \in S) : S \in SUBSET ToSet(lines)}
Orders(lines) == Some(lines) \cup {Reverse(f) : f \in Some(lines)}

SomeFiles ==
  Orders(<<Level, Screen(0), Modem(1), Sun(0), X>>)
    \cup Orders(<<Screen(1), Sun(1), Screen(0), Modem(2)>>)
    \cup Orders(<<Screen(2), Second, Sun(2), Modem(0), Far>>)

SomeSecurettys ==
  {NIL, [lines |-> <<>>, ended |-> TRUE], [lines |-> <<<<"tty", "1">>, ttyS1>>, ended |-> FALSE],
   [lines |-> <<ttyS0>>, ended |-> TRUE]}
===============================================================================
