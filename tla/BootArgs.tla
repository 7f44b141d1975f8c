------------------------------- MODULE BootArgs -------------------------------
(***************************************************************************)
(* How start_kernel (init/main.c) turns the command line, and the boot     *)
(* configuration that may come with the initial ramdisk, into the          *)
(* arguments and the environment of the first program.                     *)
(*                                                                         *)
(* The command line is a sequence of words.  Words that a parameter of the *)
(* kernel or a setup function other than the ones below takes, and module  *)
(* parameters, change nothing here and are left out; one with a value that *)
(* its parameter refuses is of the kind "invalid".  parse_args itself is   *)
(* in lib/params.c, which is not in src: it goes on after such a value,    *)
(* and returns the error instead of the rest of the line.  argv_init[0],   *)
(* the name of the program, is the variable pid1 of Boot: the slots of     *)
(* argv_init start at 1, those of envp_init at 0.                          *)
(***************************************************************************)
EXTENDS Integers, Sequences, FiniteSets

CONSTANTS
  MaxArgs,   \* MAX_INIT_ARGS
  MaxEnvs,   \* MAX_INIT_ENVS
  Name,      \* the names in words: of arguments, variables, programs, initcalls
  Val,       \* the values of environment variables
  NULL,
  HomeName, TermName,  \* "HOME" and "TERM"
  Default,   \* the values that HOME and TERM have at the start
  RamdiskInit,   \* "/init"
  Commands   \* the possible command lines, with the boot configuration

Kind == {"arg", "env", "init", "rdinit", "dashes", "bootconfig", "blacklist",
         "invalid"}

Word == [kind : Kind, name : Name, val : Val]
Command == [line : Seq(Word), kernel : Seq(Word), init : Seq(Word)]

Variable(n) == [kind |-> "env", name |-> n, val |-> Default]

ASSUME ArgsAssumption ==
  /\ MaxArgs \in Nat \ {0} /\ MaxEnvs \in Nat \ {0, 1}
  /\ NULL \notin Word \cup {"init", "env"}
  /\ {HomeName, TermName, RamdiskInit} \subseteq Name /\ NULL \notin Name
  /\ HomeName # TermName
  /\ Default \in Val
  /\ Commands \subseteq Command

ArgSlot == 1 .. MaxArgs + 1
EnvSlot == 0 .. MaxEnvs + 1

VARIABLES
  cmd,      \* the command line and the boot configuration
  stage,    \* which parse_args of start_kernel is at work
  line,     \* the words it has still to read
  parse_error,   \* the parse_args of the kernel's part has met a refused value
  extra_init_args,
  argv_init, envp_init,
  panic_later,
  execute_command, ramdisk_execute_command,
  blacklisted_initcalls

optVars == <<execute_command, ramdisk_execute_command, blacklisted_initcalls>>
argsVars == <<cmd, stage, line, parse_error, extra_init_args, argv_init, envp_init,
              panic_later, optVars>>

-----------------------------------------------------------------------------
\* The option "bootconfig" is on the command line, before the dashes.
BootconfigFound ==
  \E k \in 1 .. Len(cmd.line) :
    /\ cmd.line[k].kind = "bootconfig"
    /\ \A j \in 1 .. k - 1 : cmd.line[j].kind # "dashes"

\* The words of start_kernel's first parse_args, dashes and init arguments
\* included: the keys "kernel" of the boot configuration come first.
FullLine == IF BootconfigFound THEN cmd.kernel \o cmd.line ELSE cmd.line
ExtraArgs == IF BootconfigFound THEN cmd.init ELSE <<>>

\* The steps that panic without memory: setup_command_line, and
\* initcall_blacklist.
Allocates ==
  stage = "setup" \/ (stage = "kernel" /\ line # <<>> /\ Head(line).kind = "blacklist")

\* setup_boot_config and setup_command_line.
SetupCommandLine ==
  /\ stage = "setup"
  /\ stage' = "kernel"
  /\ line' = FullLine
  /\ extra_init_args' = ExtraArgs
  /\ UNCHANGED <<cmd, parse_error, argv_init, envp_init, panic_later, optVars>>

\* parse_args hands the next word to a handler, and remembers an error.
NextWord(s, kinds) ==
  /\ stage = s /\ line # <<>> /\ Head(line).kind \in kinds
  /\ line' = Tail(line)
  /\ parse_error' = (parse_error \/ (s = "kernel" /\ Head(line).kind = "invalid"))
  /\ UNCHANGED <<cmd, stage, extra_init_args>>

\* Slot k is where the loop over argv_init stops: the first free one.
FreeArg(k) == argv_init[k] = NULL /\ \A j \in 1 .. k - 1 : argv_init[j] # NULL

\* Slot k is where the loop over envp_init stops: the first that is free or
\* holds the variable n.
EnvFor(k, n) ==
  /\ envp_init[k] # NULL => envp_init[k].name = n
  /\ \A j \in 0 .. k - 1 : envp_init[j] # NULL /\ envp_init[j].name # n

\* The loop over argv_init passes the last slot without a panic.
UnknownArgUnbounded ==
  /\ NextWord("kernel", {"arg"})
  /\ panic_later = NULL
  /\ \E k \in ArgSlot : FreeArg(k) /\ argv_init' = [argv_init EXCEPT ![k] = Head(line)]
  /\ UNCHANGED <<envp_init, panic_later, optVars>>

\* unknown_bootoption of a word without a value.
UnknownArg ==
  /\ NextWord("kernel", {"arg"})
  /\ panic_later = NULL
  /\ \E k \in ArgSlot :
       /\ FreeArg(k)
       /\ argv_init' = [argv_init EXCEPT ![k] = Head(line)]
       /\ panic_later' = IF k > MaxArgs THEN "init" ELSE NULL
  /\ UNCHANGED <<envp_init, optVars>>

\* Every variable takes a slot of its own.
UnknownEnvAppends ==
  /\ NextWord("kernel", {"env"})
  /\ panic_later = NULL
  /\ \E k \in EnvSlot :
       /\ envp_init[k] = NULL /\ \A j \in 0 .. k - 1 : envp_init[j] # NULL
       /\ envp_init' = [envp_init EXCEPT ![k] = Head(line)]
       /\ panic_later' = IF k > MaxEnvs THEN "env" ELSE NULL
  /\ UNCHANGED <<argv_init, optVars>>

\* unknown_bootoption of name=value.  The loop plans a panic when it finds
\* the slot MaxEnvs taken, also when that is the variable it looks for.
UnknownEnv ==
  /\ NextWord("kernel", {"env"})
  /\ panic_later = NULL
  /\ \E k \in EnvSlot :
       /\ EnvFor(k, Head(line).name)
       /\ envp_init' = [envp_init EXCEPT ![k] = Head(line)]
       /\ panic_later' = IF k >= MaxEnvs /\ envp_init[MaxEnvs] # NULL THEN "env" ELSE NULL
  /\ UNCHANGED <<argv_init, optVars>>

\* The early return of unknown_bootoption; "bootconfig", which
\* bootconfig_params has handled; and a value that its parameter refuses.
SkipWord ==
  /\ \/ NextWord("kernel", {"arg", "env"}) /\ panic_later # NULL
     \/ NextWord("kernel", {"bootconfig", "invalid"})
  /\ UNCHANGED <<argv_init, envp_init, panic_later, optVars>>

\* The loop runs from slot 0 to slot MaxArgs.
ClearedWide == [k \in 0 .. MaxArgs + 1 |-> IF k <= MaxArgs THEN NULL ELSE argv_init[k]]

\* The loop of init_setup and rdinit_setup: slots 1 to MaxArgs - 1.
Cleared == [k \in ArgSlot |-> IF k < MaxArgs THEN NULL ELSE argv_init[k]]

\* The arguments before init= are kept.
InitSetupKeeps ==
  /\ NextWord("kernel", {"init"})
  /\ execute_command' = Head(line).name
  /\ UNCHANGED <<argv_init, envp_init, panic_later, ramdisk_execute_command,
                 blacklisted_initcalls>>

InitSetup ==
  /\ NextWord("kernel", {"init"})
  /\ execute_command' = Head(line).name
  /\ argv_init' = Cleared
  /\ UNCHANGED <<envp_init, panic_later, ramdisk_execute_command, blacklisted_initcalls>>

RdinitSetup ==
  /\ NextWord("kernel", {"rdinit"})
  /\ ramdisk_execute_command' = Head(line).name
  /\ argv_init' = Cleared
  /\ UNCHANGED <<envp_init, panic_later, execute_command, blacklisted_initcalls>>

\* initcall_blacklist=, one name of it.
InitcallBlacklist ==
  /\ NextWord("kernel", {"blacklist"})
  /\ blacklisted_initcalls' = blacklisted_initcalls \cup {Head(line).name}
  /\ UNCHANGED <<argv_init, envp_init, panic_later, execute_command,
                 ramdisk_execute_command>>

\* set_init_arg: any word after the dashes, whatever it looks like.
SetInitArg ==
  /\ \E s \in {"init", "extra"} : NextWord(s, Kind \ {"dashes"})
  /\ IF panic_later # NULL THEN UNCHANGED <<argv_init, panic_later>>
     ELSE \E k \in ArgSlot :
            /\ FreeArg(k)
            /\ IF k > MaxArgs
               THEN panic_later' = "init" /\ UNCHANGED argv_init
               ELSE argv_init' = [argv_init EXCEPT ![k] = Head(line)]
                    /\ UNCHANGED panic_later
  /\ UNCHANGED <<envp_init, optVars>>

AtDashes == line # <<>> /\ Head(line).kind = "dashes"

\* start_kernel goes on to init's part at the dashes whatever parse_args returns.
EndOfLineAnyway ==
  /\ \/ /\ stage = "kernel" /\ AtDashes
        /\ stage' = "init" /\ line' = Tail(line)
     \/ /\ stage = "init" \/ (stage = "kernel" /\ ~ AtDashes)
        /\ line = <<>> \/ AtDashes
        /\ stage' = "extra" /\ line' = extra_init_args
     \/ /\ stage = "extra" /\ (line = <<>> \/ AtDashes)
        /\ stage' = "done" /\ line' = <<>>
  /\ UNCHANGED <<cmd, parse_error, extra_init_args, argv_init, envp_init, panic_later, optVars>>

\* A parse_args ends at the dashes or with its line, and start_kernel goes on
\* to the next one: the words after the dashes, unless the first parse_args
\* returned an error, then extra_init_args.
EndOfLine ==
  /\ \/ /\ stage = "kernel" /\ AtDashes /\ ~ parse_error
        /\ stage' = "init" /\ line' = Tail(line)
     \/ /\ stage = "init" \/ (stage = "kernel" /\ (AtDashes => parse_error))
        /\ line = <<>> \/ AtDashes
        /\ stage' = "extra" /\ line' = extra_init_args
     \/ /\ stage = "extra" /\ (line = <<>> \/ AtDashes)
        /\ stage' = "done" /\ line' = <<>>
  /\ UNCHANGED <<cmd, parse_error, extra_init_args, argv_init, envp_init, panic_later, optVars>>

ArgsStep ==
  \/ SetupCommandLine \/ UnknownArg \/ UnknownEnv \/ SkipWord
  \/ InitSetup \/ RdinitSetup \/ InitcallBlacklist \/ SetInitArg \/ EndOfLine

-----------------------------------------------------------------------------
ArgsInit ==
  /\ cmd \in Commands
  /\ stage = "setup"
  /\ line = <<>>
  /\ parse_error = FALSE
  /\ extra_init_args = <<>>
  /\ argv_init = [k \in ArgSlot |-> NULL]
  /\ envp_init = [k \in EnvSlot |-> IF k = 0 THEN Variable(HomeName)
                                    ELSE IF k = 1 THEN Variable(TermName) ELSE NULL]
  /\ panic_later = NULL
  /\ execute_command = NULL
  /\ ramdisk_execute_command = RamdiskInit
  /\ blacklisted_initcalls = {}

ArgsTypeOK ==
  /\ cmd \in Command
  /\ stage \in {"setup", "kernel", "init", "extra", "done"}
  /\ line \in Seq(Word)
  /\ parse_error \in BOOLEAN
  /\ extra_init_args \in Seq(Word)
  /\ argv_init \in [ArgSlot -> Word \cup {NULL}]
  /\ envp_init \in [EnvSlot -> Word \cup {NULL}]
  /\ panic_later \in {NULL, "init", "env"}
  /\ execute_command \in Name \cup {NULL}
  /\ ramdisk_execute_command \in Name \cup {NULL}
  /\ blacklisted_initcalls \subseteq Name

-----------------------------------------------------------------------------
(* Properties *)

\* Unless the kernel is going to panic, the last slot of both arrays is NULL,
\* so that no loop over them (main.c:514, 554, 566, 847, 1357) and no exec runs
\* past the end; and the variables come before the NULLs, so that none is
\* lost.
ArraysTerminated ==
  panic_later = NULL =>
    /\ argv_init[MaxArgs + 1] = NULL
    /\ envp_init[MaxEnvs + 1] = NULL
    /\ \A k \in EnvSlot : envp_init[k] = NULL =>
         \A j \in k .. MaxEnvs + 1 : envp_init[j] = NULL

\* The position of the first dashes in s, or the one after its end.
Dashes(s) ==
  LET d == {k \in 1 .. Len(s) : s[k].kind = "dashes"}
  IN  IF d = {} THEN Len(s) + 1 ELSE CHOOSE k \in d : \A j \in d : k <= j

UpToDashes(s) == SubSeq(s, 1, Dashes(s) - 1)
KernelWords == UpToDashes(FullLine)

\* The place of the last init= or rdinit= among the kernel's words.
LastInit ==
  LET s == {k \in 1 .. Len(KernelWords) : KernelWords[k].kind \in {"init", "rdinit"}}
  IN  IF s = {} THEN 0 ELSE CHOOSE k \in s : \A j \in s : j <= k

\* Some parameter refuses its value.
Refused == \E k \in 1 .. Len(KernelWords) : KernelWords[k].kind = "invalid"

\* The words that init gets from behind the dashes: up to a second one, and
\* none at all after a refused value.
InitWords ==
  IF Refused THEN <<>>
  ELSE UpToDashes(SubSeq(FullLine, Dashes(FullLine) + 1, Len(FullLine)))
ExtraWords == UpToDashes(ExtraArgs)

\* Of the first n words: the places of the arguments from place l on, the
\* names of the variables, and the last assignment to each of them.
ArgPlaces(l, n) == {k \in l + 1 .. n : FullLine[k].kind = "arg"}
EnvPlaces(n) == {k \in 1 .. n : FullLine[k].kind = "env"}
Variables(n) == {FullLine[k].name : k \in EnvPlaces(n)} \cup {HomeName, TermName}
Assignments(n) ==
  {FullLine[k] : k \in {m \in EnvPlaces(n) :
                          \A j \in EnvPlaces(n) : FullLine[j].name = FullLine[m].name => j <= m}}
  \cup {Variable(v) : v \in {u \in {HomeName, TermName} :
                               \A j \in EnvPlaces(n) : FullLine[j].name # u}}

\* After n words of the kernel's part, with the last init= at l, and `words`
\* for init: they are within the limits; argv_init has the arguments after l,
\* in order, then `words`, and no more; envp_init has the assignments, and
\* every variable once.
Fits(l, n, words) ==
  /\ Cardinality(ArgPlaces(0, l)) < MaxArgs
  /\ Cardinality(ArgPlaces(l, n)) + Len(words) <= MaxArgs
  /\ Cardinality(Variables(n)) <= MaxEnvs

ArgvHas(l, n, words) ==
  LET args == ArgPlaces(l, n) IN
  /\ \A k \in args : argv_init[Cardinality({j \in args : j <= k})] = FullLine[k]
  /\ \A k \in 1 .. Len(words) : argv_init[Cardinality(args) + k] = words[k]
  /\ \A k \in ArgSlot : argv_init[k] = NULL <=> k > Cardinality(args) + Len(words)

EnvpHas(n) ==
  /\ {envp_init[k] : k \in EnvSlot} \ {NULL} = Assignments(n)
  /\ \A j, k \in EnvSlot : j # k /\ envp_init[j] # NULL /\ envp_init[k] # NULL =>
       envp_init[j].name # envp_init[k].name

Given(l, n, words) ==
  Fits(l, n, words) => panic_later = NULL /\ ArgvHas(l, n, words) /\ EnvpHas(n)

\* Within the limits, init gets, in order, the arguments of the kernel's part
\* of the line that come after the last init=, the words after the dashes, and
\* those of the boot configuration, nothing else; and every variable once, with
\* the value given last; and the kernel does not panic.  This is less than
\* the comment at main.c:503 says, "arguments ... between [dashes] and the end of
\* the command line": the words after a second -- are lost, and when some
\* parameter of the kernel's part refuses its value, before or after an init=,
\* all the words after the first -- are (main.c:919, parse_args returns an error).
InitGetsItsArguments ==
  stage = "done" => Given(LastInit, Len(KernelWords), InitWords \o ExtraWords)
=============================================================================
