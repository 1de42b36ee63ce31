------------------------------ MODULE MCConfFile ------------------------------
(* Instances of ConfFile for TLC. *)
EXTENDS ConfFile

CONSTANTS u1, u2, d1, d2

Eth0 == <<"eth", 0>>
Snd0 == <<"snd-card-", 0>>

User(n)      == Line("user", <<n>>, NIL)
Continued(l) == [l EXCEPT !.cont = TRUE]

\* One of the lines, an option, is continued once, and what continues it stands
\* once more by itself.
ContinuedConf ==
  <<User(u1), Continued(OptionsLine(Eth0, d2)), OptionsLine(Snd0, d2), AliasLine(Eth0, d2),
    User(u2), User(u1), OptionsLine(Snd0, d2)>>

MCAliases == {Eth0}
=============================================================================
