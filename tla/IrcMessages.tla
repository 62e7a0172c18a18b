----------------------------- MODULE IrcMessages -----------------------------
(***************************************************************************)
(* Messages, and the patterns tests match them with (irctest/patma.py and  *)
(* messageDiffers() of irctest/cases.py).                                  *)
(*                                                                         *)
(* A message is a record.  `src` is the nick of its source, or "server".   *)
(* `args` are its parameters; numerics have the name irctest/numerics.py   *)
(* gives them.  `tags` and `items` are sets of pairs: message tags with    *)
(* their values, and parameters that are lists (the nicks of RPL_NAMREPLY  *)
(* with their prefixes, the flags of RPL_WHOREPLY).  A mode change has its *)
(* sign, its letter and its argument in parameters of their own, and a     *)
(* mask is a kind and a name.                                              *)
(***************************************************************************)
EXTENDS Naturals, Sequences

ANYSTR  == "ANYSTR"    \* any parameter
ANYLIST == "ANYLIST"   \* as the last parameter: any others

Line(src, cmd, args) ==
    [src |-> src, cmd |-> cmd, args |-> args, tags |-> {}, items |-> {}]

Tagged(m, tags) == [m EXCEPT !.tags = @ \cup tags]
Listing(m, items) == [m EXCEPT !.items = items]

\* A pattern; `cmds` empty stands for any command.
Pattern(src, cmds, args) ==
    [src |-> src, cmds |-> cmds, args |-> args, with |-> {}, without |-> {}, only |-> FALSE,
     either |-> {}]

Msg(cmd, args)       == Pattern(ANYSTR, {cmd}, args)
From(src, cmd, args) == Pattern(src, {cmd}, args)
Cmd(cmd)             == Pattern(ANYSTR, {cmd}, <<ANYLIST>>)
OneOf(cmds)          == Pattern(ANYSTR, cmds, <<ANYLIST>>)

\* Pairs the message must have, their value perhaps ANYSTR, and names of
\* pairs it must not have.
With(p, pairs)    == [p EXCEPT !.with = @ \cup pairs]
Without(p, names) == [p EXCEPT !.without = @ \cup names]
Only(p)           == [p EXCEPT !.only = TRUE]       \* no pair but those it has

\* Parameter i is what the pattern says, or this.
Either(p, i, option) == [p EXCEPT !.either = @ \cup {<<i, option>>}]

MatchString(got, expected) == expected \in {ANYSTR, got}

\* Faulty variant: parameters beyond those expected are ignored.
MatchPrefixOnly(got, expected) ==
    /\ Len(got) >= Len(expected) - 1
    /\ \A i \in DOMAIN expected :
          i \in DOMAIN got => MatchString(got[i], expected[i])

MatchList(got, expected) ==
    LET open == expected # <<>> /\ expected[Len(expected)] = ANYLIST
        fixed == IF open THEN Len(expected) - 1 ELSE Len(expected)
    IN  /\ IF open THEN Len(got) >= fixed ELSE Len(got) = fixed
        /\ \A i \in 1..fixed : MatchString(got[i], expected[i])

MatchDict(got, with, without, only) ==
    /\ \A w \in with : \E g \in got : g[1] = w[1] /\ MatchString(g[2], w[2])
    /\ \A g \in got : g[1] \notin without
    /\ only => \A g \in got : \E w \in with : g[1] = w[1]

\* The parameters a pattern expects of this message, its options taken.
Expected(p, got) ==
    [i \in DOMAIN p.args |-> IF i \in DOMAIN got /\ <<i, got[i]>> \in p.either THEN got[i] ELSE p.args[i]]

\* ~messageDiffers(m, ...)
MessageMatches(m, p) ==
    /\ p.cmds = {} \/ m.cmd \in p.cmds
    /\ MatchString(m.src, p.src)
    /\ MatchList(m.args, Expected(p, m.args))
    /\ MatchDict(m.tags \cup m.items, p.with, p.without, p.only)

=============================================================================
