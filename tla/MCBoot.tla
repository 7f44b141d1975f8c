-------------------------------- MODULE MCBoot --------------------------------
(* Constants of Boot for TLC. *)
EXTENDS Boot, TLC

CONSTANTS
  a, X, Y, Z, HOME, TERM,          \* names of arguments and variables
  sbin_init, sh, rd, prog,   \* programs: "/init" is rd
  early, unpack, probe       \* initcalls

CONSTANT MaxLine   \* the length of the command line

MCName == {a, X, Y, Z, HOME, TERM, sbin_init, sh, rd, prog, early, unpack, probe}
MCVal == 0 .. MaxLine + 2

\* The value of a word is its place, which tells it from the others.
Make(k, n) == [kind |-> k, name |-> n, val |-> 0]
Lines(W, n) ==
  {[k \in 1 .. n |-> [s[k] EXCEPT !.val = k]] : s \in [1 .. n -> W]}

\* Words of all kinds, and those that fill the arrays.
Filling == {Make("arg", a), Make("env", X), Make("env", Y), Make("init", prog),
            Make("dashes", a)}
Words == Filling \cup {Make("env", HOME), Make("rdinit", prog), Make("blacklist", unpack),
                    Make("invalid", a)}
Short == UNION {Lines(Words, n) : n \in 0 .. MaxLine - 1}
Long == Lines(Filling, MaxLine)

\* The boot configuration has a variable for the kernel and an argument for init.
Kernel == <<[Make("env", Z) EXCEPT !.val = MaxLine + 1]>>
Extra == <<[Make("arg", a) EXCEPT !.val = MaxLine + 2]>>
WithConfig(l) == [line |-> <<Make("bootconfig", a)>> \o l, kernel |-> Kernel, init |-> Extra]

MCCommands ==
  {[line |-> l, kernel |-> <<>>, init |-> <<>>] : l \in Short \cup Long}
    \cup {WithConfig(l) : l \in UNION {Lines(Words, n) : n \in 0 .. MaxLine - 2}}

MCLevels == <<<<early>>, <<unpack, probe>>>>
MCFallback == <<sbin_init, sh>>

\* What runs: the early program, the one of init=, one of the last.
MCMachines ==
  {[ramfs |-> {rd, prog}, root |-> {}, broken |-> {}],
   [ramfs |-> {rd, sh}, root |-> {sbin_init}, broken |-> {rd}],
   [ramfs |-> {}, root |-> {prog, sh, sbin_init}, broken |-> {prog, sbin_init}]}
=============================================================================
