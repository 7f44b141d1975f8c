------------------------------ MODULE BootProofs ------------------------------
(* The boot threads: types, the arrays of init's arguments, the order in     *)
(* which the threads take over from each other, the program that runs as     *)
(* process 1, and the arguments and variables it is given.                   *)
EXTENDS Boot, FiniteSetTheorems, TLAPS

-----------------------------------------------------------------------------
(* Types *)

LEMMA SeqSteps ==
  ASSUME NEW S, NEW s \in Seq(S), s # <<>>
  PROVE  Head(s) \in S /\ Tail(s) \in Seq(S)
OBVIOUS

LEMMA FullLineType ==
  ASSUME TypeOK
  PROVE  FullLine \in Seq(Word) /\ ExtraArgs \in Seq(Word)
<1>1. cmd \in Command
  BY DEF TypeOK, ArgsTypeOK
<1> QED BY <1>1 DEF FullLine, ExtraArgs, Command

\* The next word is a word, and what is left is a line.
LEMMA NextWordType ==
  ASSUME TypeOK, NEW s, NEW K, NextWord(s, K)
  PROVE  /\ Head(line) \in Word /\ line' \in Seq(Word)
         /\ Head(line).name \in Name
         /\ UNCHANGED <<cmd, stage, extra_init_args>>
<1>1. line \in Seq(Word) /\ line # <<>>
  BY DEF TypeOK, ArgsTypeOK, NextWord
<1>2. Head(line) \in Word /\ Tail(line) \in Seq(Word)
  BY <1>1, SeqSteps
<1> QED BY <1>2 DEF NextWord, Word

\* An error is remembered or not.
LEMMA ErrorType ==
  ASSUME TypeOK, NEW s, NEW K, NextWord(s, K)
  PROVE  parse_error' \in BOOLEAN
<1>1. parse_error \in BOOLEAN
  BY DEF TypeOK, ArgsTypeOK
<1>2. parse_error' = (parse_error \/ (s = "kernel" /\ Head(line).kind = "invalid"))
  BY DEF NextWord
<1>3. QED BY <1>1, <1>2, Zenon

LEMMA ArgsInitTypes == ArgsInit => ArgsTypeOK
<1> SUFFICES ASSUME ArgsInit PROVE ArgsTypeOK
  OBVIOUS
<1>1. cmd \in Command
  BY ArgsAssumption DEF ArgsInit
<1>2. \A n \in {HomeName, TermName} : Variable(n) \in Word
  BY ArgsAssumption DEF Variable, Word, Kind
<1>3. envp_init \in [EnvSlot -> Word \cup {NULL}]
  BY <1>2 DEF ArgsInit
<1>4. argv_init \in [ArgSlot -> Word \cup {NULL}]
  BY DEF ArgsInit
<1>5. ramdisk_execute_command \in Name
  BY ArgsAssumption DEF ArgsInit
<1>6. parse_error \in BOOLEAN
  BY DEF ArgsInit
<1>7. line \in Seq(Word) /\ extra_init_args \in Seq(Word)
  BY DEF ArgsInit
<1> QED BY <1>1, <1>3, <1>4, <1>5, <1>6, <1>7 DEF ArgsInit, ArgsTypeOK

\* A handler of a word keeps the types.
LEMMA WordTypes ==
  ASSUME TypeOK,
         UnknownArg \/ UnknownEnv \/ SkipWord \/ InitSetup \/ RdinitSetup
           \/ InitcallBlacklist \/ SetInitArg
  PROVE  ArgsTypeOK'
<1> USE DEF ArgsTypeOK, optVars
<1>1. TypeOK => ArgsTypeOK
  BY DEF TypeOK
<1>2. Cleared \in [ArgSlot -> Word \cup {NULL}]
  BY DEF Cleared, TypeOK
<1>3. CASE UnknownArg
  BY <1>3, <1>1, NextWordType, ErrorType DEF UnknownArg
<1>4. CASE UnknownEnv
  BY <1>4, <1>1, NextWordType, ErrorType DEF UnknownEnv
<1>5. CASE SkipWord
  BY <1>5, <1>1, NextWordType, ErrorType DEF SkipWord
<1>6. CASE InitSetup
  BY <1>6, <1>1, <1>2, NextWordType, ErrorType DEF InitSetup
<1>7. CASE RdinitSetup
  BY <1>7, <1>1, <1>2, NextWordType, ErrorType DEF RdinitSetup
<1>8. CASE InitcallBlacklist
  BY <1>8, <1>1, NextWordType, ErrorType DEF InitcallBlacklist
<1>9. CASE SetInitArg
  BY <1>9, <1>1, NextWordType, ErrorType DEF SetInitArg
<1> QED BY <1>3, <1>4, <1>5, <1>6, <1>7, <1>8, <1>9

LEMMA ArgsStepTypes == TypeOK /\ ArgsStep => ArgsTypeOK'
<1> SUFFICES ASSUME TypeOK, ArgsStep PROVE ArgsTypeOK'
  OBVIOUS
<1>1. CASE SetupCommandLine
  BY <1>1, FullLineType DEF SetupCommandLine, TypeOK, ArgsTypeOK, optVars
<1>2. CASE EndOfLine
  <2>1. line \in Seq(Word) /\ extra_init_args \in Seq(Word)
    BY DEF TypeOK, ArgsTypeOK
  <2>2. AtDashes => Tail(line) \in Seq(Word)
    BY <2>1, SeqSteps DEF AtDashes
  <2>3. line' \in Seq(Word) /\ stage' \in {"init", "extra", "done"}
    BY <1>2, <2>1, <2>2, <<>> \in Seq(Word) DEF EndOfLine
  <2> QED BY <1>2, <2>3 DEF EndOfLine, TypeOK, ArgsTypeOK, optVars
<1> QED BY <1>1, <1>2, WordTypes DEF ArgsStep

LEMMA InitTypes == Init => TypeOK
<1> SUFFICES ASSUME Init PROVE TypeOK
  OBVIOUS
<1>1. ArgsTypeOK
  BY ArgsInitTypes DEF Init
<1>2. job \in [Async -> {"none", "queued", "running", "done"}]
  BY DEF Init
<1> QED BY <1>1, <1>2 DEF Init, TypeOK, State

\* The words are left alone by every other step of the threads.
LEMMA ArgsKept ==
  ASSUME TypeOK, UNCHANGED argsVars
  PROVE  ArgsTypeOK'
BY DEF TypeOK, ArgsTypeOK, argsVars, optVars

LEMMA BootTypes ==
  ASSUME TypeOK, BootStep
  PROVE  TypeOK'
<1> USE DEF TypeOK, bootVars, memVars, execVars, callVars
<1>1. CASE ParseCommandLine
  <2>1. panicked' \in BOOLEAN
    BY <1>1, Zenon DEF ParseCommandLine
  <2>2. ArgsTypeOK' /\ boot' \in {"args", "console"}
    BY <1>1, ArgsStepTypes DEF ParseCommandLine
  <2> QED BY <1>1, <2>1, <2>2 DEF ParseCommandLine
<1>2. CASE ConsoleInit
  BY <1>2, ArgsKept DEF ConsoleInit, BootAt
<1>3. CASE SpawnInit
  BY <1>3, ArgsKept DEF SpawnInit, BootAt
<1>4. CASE SpawnKthreadd
  BY <1>4, ArgsKept DEF SpawnKthreadd, BootAt
<1>5. CASE FindKthreadd
  BY <1>5, ArgsKept DEF FindKthreadd, BootAt
<1>6. CASE SetScheduling
  BY <1>6, ArgsKept DEF SetScheduling, BootAt, State
<1>7. CASE CompleteKthreadd
  BY <1>7, ArgsKept DEF CompleteKthreadd, BootAt
<1> QED BY <1>1, <1>2, <1>3, <1>4, <1>5, <1>6, <1>7 DEF BootStep

LEMMA RunTypes ==
  ASSUME TypeOK, NEW p \in Name, NEW l \in {"exec_command", "exec_fallback"},
         RunInitProcess(p, l)
  PROVE  /\ ArgsTypeOK' /\ pid1' \in Name \cup {NULL}
         /\ init' \in {"user", "exec_command", "exec_fallback"}
         /\ UNCHANGED <<machine, bootVars, kthreadd_done, request, callVars, memVars, mounted>>
<1>1. ArgsTypeOK'
  BY ArgsKept DEF RunInitProcess
<1> QED BY <1>1 DEF RunInitProcess, TypeOK

LEMMA InitStepTypes ==
  ASSUME TypeOK, InitStep
  PROVE  TypeOK'
<1> USE DEF TypeOK, bootVars, memVars, execVars, callVars, Freeable
<1>1. CASE WaitKthreadd
  BY <1>1, ArgsKept DEF WaitKthreadd, InitAt
<1>2. CASE WorkqueueInit
  BY <1>2, ArgsKept DEF WorkqueueInit, InitAt
<1>3. CASE WorkersReady
  BY <1>3, ArgsKept DEF WorkersReady, InitAt
<1>4. CASE CallInitcall
  <2>1. ArgsTypeOK' /\ call' \in Nat
    BY <1>4, ArgsKept DEF CallInitcall
  <2>2. job' \in [Async -> {"none", "queued", "running", "done"}]
    BY <1>4 DEF CallInitcall
  <2> QED BY <1>4, <2>1, <2>2 DEF CallInitcall
<1>5. CASE NextLevel
  <2>1. ArgsTypeOK' /\ level' \in Nat /\ call' \in Nat
    BY <1>5, ArgsKept DEF NextLevel
  <2>2. panicked' \in BOOLEAN
    BY <1>5, Zenon DEF NextLevel
  <2>3. init' \in {"initramfs", "initcalls"}
    BY <1>5 DEF NextLevel
  <2> QED BY <1>5, <2>1, <2>2, <2>3 DEF NextLevel
<1>6. CASE WaitInitramfs
  BY <1>6, ArgsKept DEF WaitInitramfs, InitAt
<1>7. CASE CheckRamdiskInit
  <2>1. ArgsTypeOK'
    BY <1>7 DEF CheckRamdiskInit, ArgsTypeOK
  <2> QED BY <1>7, <2>1 DEF CheckRamdiskInit, InitAt
<1>8. CASE Synchronize
  BY <1>8, ArgsKept DEF Synchronize, InitAt, State
<1>9. CASE FreeInitmem
  BY <1>9, ArgsKept DEF FreeInitmem, InitAt
<1>10. CASE SetRunning
  BY <1>10, ArgsKept DEF SetRunning, InitAt, State
<1>11. ramdisk_execute_command \in Name \cup {NULL} /\ execute_command \in Name \cup {NULL}
  BY DEF ArgsTypeOK
<1>12. CASE ExecRamdisk
  BY <1>12, <1>11, ArgsKept, RunTypes DEF ExecRamdisk
<1>13. CASE ExecCommand
  <2>1. panicked' \in BOOLEAN
    BY <1>13, Zenon DEF ExecCommand
  <2>2. CASE execute_command # NULL
    BY <1>13, <1>11, <2>1, <2>2, RunTypes DEF ExecCommand
  <2>3. CASE execute_command = NULL
    BY <1>13, <2>3, ArgsKept DEF ExecCommand
  <2> QED BY <2>2, <2>3
<1>14. CASE ExecFallback
  <2>1. \A k \in 1 .. Len(Fallback) : Fallback[k] \in Name
    BY BootAssumption
  <2> QED BY <1>14, <2>1, ArgsKept, RunTypes DEF ExecFallback
<1> QED
  BY <1>1, <1>2, <1>3, <1>4, <1>5, <1>6, <1>7, <1>8, <1>9, <1>10, <1>12, <1>13, <1>14
  DEF InitStep

LEMMA OtherTypes ==
  ASSUME TypeOK, MakeThread \/ \E j \in Async : RunJob(j)
  PROVE  TypeOK'
<1> USE DEF TypeOK, bootVars, memVars, execVars, callVars
<1>1. CASE MakeThread
  BY <1>1, ArgsKept DEF MakeThread
<1>2. CASE \E j \in Async : RunJob(j)
  BY <1>2, ArgsKept DEF RunJob
<1> QED BY <1>1, <1>2

LEMMA TypesKept == TypeOK /\ [Next]_vars => TypeOK'
<1> SUFFICES ASSUME TypeOK, [Next]_vars PROVE TypeOK'
  OBVIOUS
<1>1. CASE UNCHANGED vars
  BY <1>1, ArgsKept DEF vars, threadVars, TypeOK, bootVars, memVars, execVars, callVars
<1> QED BY <1>1, BootTypes, InitStepTypes, OtherTypes DEF Next

\* Type correctness, for every command line and every list of initcalls.
THEOREM BootTypeCorrect == Spec => []TypeOK
BY InitTypes, TypesKept, PTL DEF Spec

-----------------------------------------------------------------------------
(* The arrays *)

LEMMA InitTerminated == Init => ArraysTerminated
<1> SUFFICES ASSUME Init PROVE ArraysTerminated
  OBVIOUS
<1>1. MaxArgs + 1 \in ArgSlot /\ MaxEnvs + 1 \in EnvSlot /\ MaxEnvs + 1 \notin {0, 1}
  BY ArgsAssumption DEF ArgSlot, EnvSlot
<1>2. \A n \in {HomeName, TermName} : Variable(n) # NULL
  <2>1. \A n \in {HomeName, TermName} : Variable(n) \in Word
    BY ArgsAssumption DEF Variable, Word, Kind
  <2> QED BY <2>1, ArgsAssumption
<1>3. \A k \in EnvSlot : envp_init[k] = NULL <=> k \notin {0, 1}
  BY <1>2 DEF Init, ArgsInit
<1>4. \A k \in EnvSlot : k \notin {0, 1} => \A j \in k .. MaxEnvs + 1 : j \in EnvSlot /\ j \notin {0, 1}
  BY ArgsAssumption DEF EnvSlot
<1> QED BY <1>1, <1>3, <1>4 DEF Init, ArgsInit, ArraysTerminated

LEMMA ArgsTerminated ==
  ASSUME TypeOK, ArraysTerminated, ArgsStep
  PROVE  ArraysTerminated'
<1>0. /\ MaxArgs + 1 \in ArgSlot /\ MaxEnvs + 1 \in EnvSlot
      /\ argv_init \in [ArgSlot -> Word \cup {NULL}]
      /\ envp_init \in [EnvSlot -> Word \cup {NULL}]
      /\ MaxArgs \in Nat \ {0} /\ MaxEnvs \in Nat
  BY ArgsAssumption DEF ArgSlot, EnvSlot, TypeOK, ArgsTypeOK
<1>1. CASE UNCHANGED <<argv_init, envp_init, panic_later>>
  BY <1>1 DEF ArraysTerminated
<1>2. CASE panic_later' # NULL
  BY <1>2 DEF ArraysTerminated
<1>3. ASSUME argv_init' = Cleared, UNCHANGED <<envp_init, panic_later>>
      PROVE  ArraysTerminated'
  <2>1. panic_later = NULL => argv_init'[MaxArgs + 1] = NULL
    BY <1>0, <1>3 DEF Cleared, ArraysTerminated
  <2> QED BY <1>3, <2>1 DEF ArraysTerminated
<1>4. CASE UnknownArg
  <2>1. PICK k \in ArgSlot :
          /\ argv_init' = [argv_init EXCEPT ![k] = Head(line)]
          /\ panic_later' = IF k > MaxArgs THEN "init" ELSE NULL
    BY <1>4 DEF UnknownArg
  <2>2. CASE k <= MaxArgs
    <3>1. argv_init'[MaxArgs + 1] = argv_init[MaxArgs + 1]
      BY <1>0, <2>1, <2>2
    <3>2. panic_later = NULL /\ UNCHANGED envp_init
      BY <1>4 DEF UnknownArg
    <3> QED BY <3>1, <3>2 DEF ArraysTerminated
  <2>3. CASE k > MaxArgs
    BY <1>2, <2>1, <2>3, ArgsAssumption
  <2> QED BY <1>0, <2>2, <2>3 DEF ArgSlot
<1>5. CASE SetInitArg
  <2>1. CASE panic_later = NULL /\ panic_later' = NULL
    <3>1. PICK k \in ArgSlot : k <= MaxArgs /\ argv_init' = [argv_init EXCEPT ![k] = Head(line)]
      <4>1. PICK k \in ArgSlot :
              IF k > MaxArgs THEN panic_later' = "init" /\ UNCHANGED argv_init
              ELSE argv_init' = [argv_init EXCEPT ![k] = Head(line)] /\ UNCHANGED panic_later
        BY <1>5, <2>1 DEF SetInitArg
      <4>2. CASE k > MaxArgs
        BY <1>2, <2>1, <4>1, <4>2, ArgsAssumption
      <4> QED BY <1>0, <4>1, <4>2 DEF ArgSlot
    <3>2. argv_init'[MaxArgs + 1] = argv_init[MaxArgs + 1]
      BY <1>0, <3>1
    <3>3. UNCHANGED envp_init
      BY <1>5 DEF SetInitArg
    <3> QED BY <2>1, <3>2, <3>3 DEF ArraysTerminated
  <2>2. CASE panic_later # NULL
    BY <1>1, <1>5, <2>2 DEF SetInitArg
  <2> QED BY <1>2, <2>1, <2>2
<1>6. CASE UnknownEnv
  <2>1. PICK k \in EnvSlot :
          /\ EnvFor(k, Head(line).name)
          /\ envp_init' = [envp_init EXCEPT ![k] = Head(line)]
          /\ panic_later' = IF k >= MaxEnvs /\ envp_init[MaxEnvs] # NULL THEN "env" ELSE NULL
    BY <1>6 DEF UnknownEnv
  <2>2. panic_later = NULL /\ UNCHANGED argv_init /\ Head(line) \in Word
    BY <1>6, NextWordType DEF UnknownEnv
  <2>3. CASE k = MaxEnvs + 1
    <3>1. envp_init[MaxEnvs] # NULL
      BY <1>0, <2>1, <2>3 DEF EnvFor
    <3> QED BY <1>0, <1>2, <2>1, <2>3, <3>1, ArgsAssumption
  <2>4. CASE k <= MaxEnvs
    <3>1. envp_init'[MaxEnvs + 1] = NULL
      BY <1>0, <2>1, <2>2, <2>4 DEF ArraysTerminated
    <3>2. ASSUME NEW m \in EnvSlot, envp_init'[m] = NULL, NEW j \in m .. MaxEnvs + 1
          PROVE  envp_init'[j] = NULL
      <4>1. m # k
        BY <1>0, <2>1, <2>2, <3>2, ArgsAssumption
      <4>2. envp_init[m] = NULL
        BY <1>0, <2>1, <3>2, <4>1
      <4>3. m > k
        BY <1>0, <2>1, <4>1, <4>2 DEF EnvFor, EnvSlot
      <4>4. j # k /\ j \in EnvSlot
        BY <1>0, <4>3 DEF EnvSlot
      <4> QED BY <1>0, <2>1, <2>2, <4>2, <4>4 DEF ArraysTerminated
    <3> QED BY <2>2, <3>1, <3>2 DEF ArraysTerminated
  <2> QED BY <1>0, <2>3, <2>4 DEF EnvSlot
<1> QED
  BY <1>1, <1>3, <1>4, <1>5, <1>6
  DEF ArgsStep, SetupCommandLine, SkipWord, InitSetup, RdinitSetup, InitcallBlacklist,
      EndOfLine

\* The loops over the arguments and the environment of init stay in their
\* arrays, for every command line.
THEOREM BootArraysTerminated == Spec => []ArraysTerminated
<1>1. TypeOK /\ ArraysTerminated /\ [Next]_vars => ArraysTerminated'
  <2> SUFFICES ASSUME TypeOK, ArraysTerminated, [Next]_vars PROVE ArraysTerminated'
    OBVIOUS
  <2>1. CASE ParseCommandLine
    BY <2>1, ArgsTerminated DEF ParseCommandLine
  <2>2. CASE UNCHANGED <<argv_init, envp_init, panic_later>>
    BY <2>2 DEF ArraysTerminated
  <2>3. [Next]_vars /\ ~ParseCommandLine => UNCHANGED <<argv_init, envp_init, panic_later>>
    BY DEF Next, BootStep, InitStep, ConsoleInit, SpawnInit, SpawnKthreadd, FindKthreadd,
           SetScheduling, CompleteKthreadd, WaitKthreadd, WorkqueueInit, WorkersReady,
           CallInitcall, NextLevel, WaitInitramfs, CheckRamdiskInit, Synchronize, FreeInitmem,
           SetRunning, ExecRamdisk, ExecCommand, ExecFallback, RunInitProcess, MakeThread,
           RunJob, vars, argsVars
  <2> QED BY <2>1, <2>2, <2>3
<1> QED BY <1>1, InitTerminated, BootTypeCorrect, PTL DEF Spec

-----------------------------------------------------------------------------
(* The order of the threads *)

Exec == {"exec_ramdisk", "exec_command", "exec_fallback", "user"}

\* How far the boot thread has got when kernel_init is where it is.
Handover ==
  /\ boot \in {"args", "console", "spawn_init"} => init = "none"
  /\ boot \in {"find_kthreadd", "scheduling", "complete", "idle"} => kthreadd
  /\ boot \in {"scheduling", "complete", "idle"} => kthreadd_task
  /\ kthreadd_done => boot = "idle"
  /\ init \notin {"none", "wait"} => kthreadd_done
  /\ request # "none" => init \notin {"none", "wait", "workqueue"}

\* The value of system_state at each point of the two threads that write it.
StateOf ==
  /\ boot \in {"args", "console", "spawn_init", "spawn_kthreadd", "find_kthreadd",
               "scheduling"} => system_state = "BOOTING"
  /\ boot \in {"complete", "idle"} /\ init \in Freeable \cup {"none", "wait", "sync"} =>
       system_state = "SCHEDULING"
  /\ init \in {"free", "running"} => system_state = "FREEING_INITMEM"
  /\ init \in Exec => system_state = "RUNNING"

\* When the jobs are done and when the memory goes.
Finished ==
  /\ init \in {"free", "running"} \cup Exec =>
       \A j \in Async : job[j] \notin {"queued", "running"}
  /\ ~initmem => init \in {"running"} \cup Exec

Order == Handover /\ StateOf /\ Finished

LEMMA InitOrder == Init => Order
BY DEF Init, Order, Handover, StateOf, Finished, Freeable, Exec

LEMMA BootOrder ==
  ASSUME TypeOK, Order, BootStep
  PROVE  Order'
<1> USE DEF Order, Handover, StateOf, Finished, Freeable, Exec, BootAt, execVars, memVars, callVars
<1>1. CASE ParseCommandLine
  BY <1>1 DEF ParseCommandLine
<1>2. CASE ConsoleInit
  BY <1>2 DEF ConsoleInit
<1>3. CASE SpawnInit
  BY <1>3 DEF SpawnInit
<1>4. CASE SpawnKthreadd
  BY <1>4 DEF SpawnKthreadd
<1>5. CASE FindKthreadd
  BY <1>5 DEF FindKthreadd
<1>6. CASE SetScheduling
  BY <1>6 DEF SetScheduling
<1>7. CASE CompleteKthreadd
  BY <1>7 DEF CompleteKthreadd
<1> QED BY <1>1, <1>2, <1>3, <1>4, <1>5, <1>6, <1>7 DEF BootStep

LEMMA RunOrder ==
  ASSUME TypeOK, Order, NEW p, NEW l \in {"exec_command", "exec_fallback"},
         init \in Exec, RunInitProcess(p, l)
  PROVE  Order'
BY DEF Order, Handover, StateOf, Finished, Freeable, Exec, RunInitProcess, bootVars, memVars,
       callVars

LEMMA InitStepOrder ==
  ASSUME TypeOK, Order, InitStep
  PROVE  Order'
<1> USE DEF Order, Handover, StateOf, Finished, Freeable, Exec, InitAt, bootVars, execVars,
            memVars, callVars
<1>0. boot \in {"args", "console", "spawn_init", "spawn_kthreadd", "find_kthreadd",
                "scheduling", "complete", "idle"}
  BY DEF TypeOK
<1>1. CASE WaitKthreadd
  BY <1>0, <1>1 DEF WaitKthreadd
<1>2. CASE WorkqueueInit
  BY <1>0, <1>2 DEF WorkqueueInit
<1>3. CASE WorkersReady
  BY <1>0, <1>3 DEF WorkersReady
<1>4. CASE CallInitcall
  BY <1>0, <1>4 DEF CallInitcall
<1>5. CASE NextLevel
  BY <1>0, <1>5 DEF NextLevel
<1>6. CASE WaitInitramfs
  BY <1>0, <1>6 DEF WaitInitramfs
<1>7. CASE CheckRamdiskInit
  BY <1>0, <1>7 DEF CheckRamdiskInit
<1>8. CASE Synchronize
  BY <1>0, <1>8 DEF Synchronize
<1>9. CASE FreeInitmem
  BY <1>0, <1>9 DEF FreeInitmem
<1>10. CASE SetRunning
  BY <1>0, <1>10 DEF SetRunning
<1>11. CASE ExecRamdisk
  BY <1>0, <1>11, RunOrder DEF ExecRamdisk
<1>12. CASE ExecCommand
  BY <1>0, <1>12, RunOrder DEF ExecCommand
<1>13. CASE ExecFallback
  <2>1. CASE \E k \in 1 .. Len(Fallback) : RunInitProcess(Fallback[k], "exec_fallback")
    <3>1. init \in Exec
      BY <1>13 DEF ExecFallback
    <3> QED BY <2>1, <3>1, RunOrder
  <2>2. CASE UNCHANGED <<argsVars, machine, bootVars, init, kthreadd_done, request, callVars,
                         memVars, mounted, pid1>>
    BY <2>2
  <2> QED BY <1>13, <2>1, <2>2 DEF ExecFallback
<1> QED
  BY <1>1, <1>2, <1>3, <1>4, <1>5, <1>6, <1>7, <1>8, <1>9, <1>10, <1>11, <1>12, <1>13
  DEF InitStep

\* A job that is done is not started again.
LEMMA OtherOrder ==
  ASSUME TypeOK, Order, MakeThread \/ \E j \in Async : RunJob(j)
  PROVE  Order'
<1> USE DEF Order, Handover, StateOf, Finished, Freeable, Exec, bootVars, execVars, memVars,
            callVars
<1>1. CASE MakeThread
  <2>1. request # "none" /\ UNCHANGED <<boot, init, kthreadd, kthreadd_task, kthreadd_done>>
    BY <1>1 DEF MakeThread
  <2>2. UNCHANGED <<system_state, initmem, job>>
    BY <1>1 DEF MakeThread
  <2> QED BY <2>1, <2>2
<1>2. ASSUME NEW j \in Async, RunJob(j)
      PROVE  Order'
  <2>1. init \notin {"free", "running"} \cup Exec
    BY <1>2 DEF RunJob
  <2>2. UNCHANGED <<boot, init, kthreadd, kthreadd_task, kthreadd_done, request, system_state,
                    initmem>>
    BY <1>2 DEF RunJob
  <2> QED BY <2>1, <2>2
<1> QED BY <1>1, <1>2

LEMMA OrderKept == TypeOK /\ Order /\ [Next]_vars => Order'
<1> SUFFICES ASSUME TypeOK, Order, [Next]_vars PROVE Order'
  OBVIOUS
<1>1. CASE UNCHANGED vars
  BY <1>1 DEF Order, Handover, StateOf, Finished, vars, threadVars, bootVars, memVars, callVars
<1> QED BY <1>1, BootOrder, InitStepOrder, OtherOrder DEF Next

LEMMA Ordered == Spec => [](TypeOK /\ Order)
BY InitTypes, InitOrder, TypesKept, OrderKept, PTL DEF Spec

\* No thread is in the code of the init sections when their memory is freed,
\* for any number of initcalls and jobs and any order of the threads.
THEOREM InitCodeSafe == Spec => []NoInitCodeAfterFree
<1>1. TypeOK /\ Order => NoInitCodeAfterFree
  BY DEF Order, Handover, Finished, NoInitCodeAfterFree, Freeable, Exec
<1> QED BY <1>1, Ordered, PTL

\* kernel_init never asks for a thread before kthreadd is known.
THEOREM KthreaddSafe == Spec => []KthreaddKnown
<1>1. TypeOK /\ Order => KthreaddKnown
  BY DEF Order, Handover, KthreaddKnown
<1> QED BY <1>1, Ordered, PTL

\* The two writers of system_state never take it back.
THEOREM StateOnlyAdvances == Spec => StateAdvances
<1>1. TypeOK /\ Order /\ [Next]_vars => [Rank[system_state'] >= Rank[system_state]]_system_state
  <2> SUFFICES ASSUME TypeOK, Order, [Next]_vars, system_state' # system_state
               PROVE  Rank[system_state'] >= Rank[system_state]
    OBVIOUS
  <2> USE DEF Rank
  <2>1. CASE SetScheduling
    BY <2>1 DEF SetScheduling, BootAt, Order, StateOf
  <2>2. CASE Synchronize
    <3>1. boot \in {"complete", "idle"} /\ init = "sync"
      BY <2>2 DEF Synchronize, InitAt, Order, Handover
    <3> QED BY <2>2, <3>1 DEF Synchronize, Order, StateOf
  <2>3. CASE SetRunning
    BY <2>3 DEF SetRunning, InitAt, Order, StateOf
  <2>4. SetScheduling \/ Synchronize \/ SetRunning
    BY DEF Next, BootStep, InitStep, ParseCommandLine, ConsoleInit, SpawnInit, SpawnKthreadd,
           FindKthreadd, CompleteKthreadd, WaitKthreadd, WorkqueueInit, WorkersReady,
           CallInitcall, NextLevel, WaitInitramfs, CheckRamdiskInit, FreeInitmem,
           ExecRamdisk, ExecCommand, ExecFallback, RunInitProcess, MakeThread,
           RunJob, vars, threadVars, memVars
  <2> QED BY <2>1, <2>2, <2>3, <2>4
<1> QED BY <1>1, Ordered, PTL DEF Spec, StateAdvances

-----------------------------------------------------------------------------
(* The program that runs *)

\* v is what the first n words of the line ask for: the name of the last of that
\* kind, or what holds without one.
LastAsked(n, kind, default, v) ==
  \/ v = default /\ \A k \in 1 .. n : FullLine[k].kind # kind
  \/ \E k \in 1 .. n : /\ FullLine[k].kind = kind /\ v = FullLine[k].name
                       /\ \A j \in 1 .. n : FullLine[j].kind = kind => j <= k

\* The first parse_args has read n words, none of them dashes.
ReadTo(n) ==
  /\ n <= Len(FullLine) /\ Len(line) = Len(FullLine) - n
  /\ \A i \in 1 .. Len(line) : line[i] = FullLine[n + i]
  /\ \A k \in 1 .. n : FullLine[k].kind # "dashes"
  /\ LastAsked(n, "rdinit", RamdiskInit, ramdisk_execute_command)
  /\ LastAsked(n, "init", NULL, execute_command)

BeforeAccess == Freeable \cup {"none", "wait"}

\* What the command line has asked for so far; the early program is dropped
\* later if it is not there.
Reads ==
  /\ boot = "args" <=> stage # "done"
  /\ stage = "setup" => ramdisk_execute_command = RamdiskInit /\ execute_command = NULL
  /\ stage = "kernel" => \E n \in Nat : ReadTo(n)
  /\ stage \notin {"setup", "kernel"} =>
       /\ execute_command = Requested
       /\ init \in BeforeAccess => ramdisk_execute_command = Early

\* The initcall that unpacks the initramfs has been called.
Passed ==
  \E l \in 1 .. Len(Levels) : \E k \in 1 .. Len(Levels[l]) :
    Levels[l][k] = Unpack /\ (l < level \/ (l = level /\ k < call))

AfterAccess == {"sync", "free", "running"} \cup Exec

\* Once the initcalls are made the initramfs has a job, unless that initcall is
\* blacklisted, and after the wait for it the job is done.
Unpacks ==
  /\ job[Unpack] # "none" => boot # "args" /\ ~ Blacklisted(Unpack)
  /\ Passed => job[Unpack] # "none" \/ Blacklisted(Unpack)
  /\ init \in {"initramfs", "access"} \cup AfterAccess => job[Unpack] # "none" \/ Blacklisted(Unpack)
  /\ init \in {"access"} \cup AfterAccess => job[Unpack] \in {"none", "done"}

Runs(p) == p \in RootFs \ machine.broken

\* The early program was there: then nothing is mounted.  Each program that is
\* tried was asked for, and those before it do not run.
Chosen ==
  /\ init \in BeforeAccess => ~ mounted
  /\ init \in AfterAccess /\ ~ panicked =>
       /\ Present = RootFs
       /\ ramdisk_execute_command = IF Early \in Initramfs THEN Early ELSE NULL
  /\ init # "user" => pid1 = NULL
  /\ init \in {"exec_command", "exec_fallback"} => ~ (Early \in Initramfs /\ Runs(Early))
  /\ init = "exec_fallback" => Requested = NULL

Choice == TypeOK /\ Order /\ Reads /\ Unpacks /\ Chosen /\ RunsWhatWasAsked

\* What is asked for does not change, nor what there is.
LEMMA AsksStay ==
  ASSUME UNCHANGED cmd
  PROVE  FullLine' = FullLine /\ Early' = Early /\ Requested' = Requested
BY DEF FullLine, BootconfigFound, Early, Requested, Asked, KernelWords, UpToDashes, Dashes

LEMMA FilesStay ==
  ASSUME UNCHANGED <<cmd, machine, blacklisted_initcalls>>
  PROVE  /\ Initramfs' = Initramfs /\ RootFs' = RootFs /\ Blacklisted(Unpack)' = Blacklisted(Unpack)
         /\ \A p : Runs(p)' = Runs(p)
BY AsksStay DEF Initramfs, RootFs, Blacklisted, Runs

\* The next word.
LEMMA ReadNext ==
  ASSUME TypeOK, NEW n \in Nat, ReadTo(n), line # <<>>
  PROVE  /\ n + 1 <= Len(FullLine) /\ Head(line) = FullLine[n + 1]
         /\ Len(Tail(line)) = Len(FullLine) - (n + 1)
         /\ \A i \in 1 .. Len(Tail(line)) : Tail(line)[i] = FullLine[n + 1 + i]
<1>1. line \in Seq(Word) /\ FullLine \in Seq(Word)
  BY FullLineType DEF TypeOK, ArgsTypeOK
<1> DEFINE full == FullLine
<1>2. n <= Len(full) /\ Len(line) = Len(full) - n /\ \A i \in 1 .. Len(line) : line[i] = full[n + i]
  BY DEF ReadTo
<1> HIDE DEF full
<1>3. full \in Seq(Word)
  BY <1>1 DEF full
<1>4. Len(line) >= 1 /\ Len(full) \in Nat /\ Len(line) \in Nat
  BY <1>1, <1>3
<1>5. Head(line) = line[1] /\ Len(Tail(line)) = Len(line) - 1
      /\ \A i \in 1 .. Len(line) - 1 : Tail(line)[i] = line[i + 1]
  BY <1>1, <1>4
<1>6. ASSUME NEW i \in 1 .. Len(line) - 1 PROVE Tail(line)[i] = full[n + 1 + i]
  <2>1. i + 1 \in 1 .. Len(line) /\ n + (i + 1) = n + 1 + i
    BY <1>4
  <2>2. line[i + 1] = full[n + (i + 1)]
    BY <1>2, <2>1
  <2>3. QED BY <1>5, <2>1, <2>2
<1>7. QED BY <1>2, <1>4, <1>5, <1>6 DEF full

LEMMA AskedNext ==
  ASSUME NEW n \in Nat, NEW kind, NEW default, NEW v, LastAsked(n, kind, default, v)
  PROVE  /\ FullLine[n + 1].kind # kind => LastAsked(n + 1, kind, default, v)
         /\ FullLine[n + 1].kind = kind => LastAsked(n + 1, kind, default, FullLine[n + 1].name)
<1>1. \A k \in 1 .. n + 1 : k \in 1 .. n \/ k = n + 1
  OBVIOUS
<1>2. \A k \in 1 .. n : k \in 1 .. n + 1
  OBVIOUS
<1>3. ASSUME FullLine[n + 1].kind = kind
      PROVE  LastAsked(n + 1, kind, default, FullLine[n + 1].name)
  <2>1. n + 1 \in 1 .. n + 1 /\ \A j \in 1 .. n + 1 : j <= n + 1
    OBVIOUS
  <2>2. QED BY <1>3, <2>1 DEF LastAsked
<1>4. ASSUME FullLine[n + 1].kind # kind
      PROVE  LastAsked(n + 1, kind, default, v)
  <2>1. CASE v = default /\ \A k \in 1 .. n : FullLine[k].kind # kind
    BY <1>1, <1>4, <2>1 DEF LastAsked
  <2>2. ASSUME NEW k \in 1 .. n, FullLine[k].kind = kind, v = FullLine[k].name,
               \A j \in 1 .. n : FullLine[j].kind = kind => j <= k
        PROVE  LastAsked(n + 1, kind, default, v)
    <3>1. \A j \in 1 .. n + 1 : FullLine[j].kind = kind => j <= k
      BY <1>1, <1>4, <2>2
    <3>2. QED BY <1>2, <2>2, <3>1 DEF LastAsked
  <2>3. QED BY <2>1, <2>2 DEF LastAsked
<1>5. QED BY <1>3, <1>4

\* The words of s that come before the dashes.
LEMMA DashesAt ==
  ASSUME NEW s \in Seq(Word), NEW n \in Nat, n <= Len(s), \A k \in 1 .. n : s[k].kind # "dashes",
         n = Len(s) \/ s[n + 1].kind = "dashes"
  PROVE  /\ Dashes(s) = n + 1
         /\ UpToDashes(s) \in Seq(Word) /\ Len(UpToDashes(s)) = n
         /\ \A k \in 1 .. n : UpToDashes(s)[k] = s[k]
<1> DEFINE d == {k \in 1 .. Len(s) : s[k].kind = "dashes"}
<1>1. Len(s) \in Nat
  OBVIOUS
<1>2. Dashes(s) = n + 1
  <2>1. CASE n = Len(s)
    <3>1. d = {}
      BY <2>1
    <3>2. QED BY <2>1, <3>1 DEF Dashes
  <2>2. CASE n # Len(s)
    <3>1. n + 1 \in d
      BY <1>1, <2>2
    <3>2. \A k \in d : n + 1 <= k
      BY <1>1
    <3>3. \A k \in d : (\A j \in d : k <= j) => k = n + 1
      BY <1>1, <3>1, <3>2
    <3>4. (CHOOSE k \in d : \A j \in d : k <= j) = n + 1
      BY <3>1, <3>2, <3>3
    <3>5. Dashes(s) = IF d = {} THEN Len(s) + 1 ELSE CHOOSE k \in d : \A j \in d : k <= j
      BY DEF Dashes
    <3>6. QED BY <3>1, <3>4, <3>5
  <2>3. QED BY <2>1, <2>2
<1>3. UpToDashes(s) = SubSeq(s, 1, n)
  BY <1>2 DEF UpToDashes
<1>4. SubSeq(s, 1, n) \in Seq(Word) /\ Len(SubSeq(s, 1, n)) = n
      /\ \A k \in 1 .. n : SubSeq(s, 1, n)[k] = s[k]
  BY <1>1
<1>5. QED BY <1>2, <1>3, <1>4

\* Where the first parse_args ends, all that comes before the dashes was read.
LEMMA AskedAll ==
  ASSUME TypeOK, NEW n \in Nat, n <= Len(FullLine), \A k \in 1 .. n : FullLine[k].kind # "dashes",
         n = Len(FullLine) \/ FullLine[n + 1].kind = "dashes",
         NEW kind, NEW default, NEW v, LastAsked(n, kind, default, v)
  PROVE  Asked(kind, default) = v
<1> DEFINE full == FullLine
<1>1. full \in Seq(Word)
  BY FullLineType
<1>2. Len(KernelWords) = n /\ \A k \in 1 .. n : KernelWords[k] = full[k]
  BY <1>1, DashesAt DEF KernelWords
<1> DEFINE s == {k \in 1 .. Len(KernelWords) : KernelWords[k].kind = kind}
<1>5. Asked(kind, default) =
        IF s = {} THEN default ELSE KernelWords[CHOOSE k \in s : \A j \in s : j <= k].name
  BY DEF Asked
<1>9. \A k : k \in s <=> k \in 1 .. n /\ full[k].kind = kind
  BY <1>2
<1> HIDE DEF s
<1>6. CASE v = default /\ \A k \in 1 .. n : full[k].kind # kind
  <2>1. s = {}
    BY <1>6, <1>9
  <2>2. QED BY <1>5, <1>6, <2>1
<1>7. ASSUME NEW k \in 1 .. n, full[k].kind = kind, v = full[k].name,
             \A j \in 1 .. n : full[j].kind = kind => j <= k
      PROVE  Asked(kind, default) = v
  <2>1. k \in s /\ (\A j \in s : j <= k) /\ \A j \in s : j \in 1 .. n
    BY <1>7, <1>9
  <2>2. \A m \in s : (\A j \in s : j <= m) => m = k
    BY <2>1
  <2>3. (CHOOSE m \in s : \A j \in s : j <= m) = k
    BY <2>1, <2>2
  <2>4. KernelWords[k] = full[k]
    BY <1>2
  <2>5. QED BY <1>5, <1>7, <2>1, <2>3, <2>4
<1>8. QED BY <1>6, <1>7 DEF LastAsked

LEMMA ReadsInit == Init => Reads
BY DEF Init, ArgsInit, Reads

\* A handler of a word that comes before the dashes.
LEMMA WordReads ==
  ASSUME TypeOK, NEW n \in Nat, ReadTo(n), NEW K, NextWord("kernel", K), "dashes" \notin K,
         execute_command' = IF Head(line).kind = "init" THEN Head(line).name
                                                        ELSE execute_command,
         ramdisk_execute_command' = IF Head(line).kind = "rdinit" THEN Head(line).name
                                                                 ELSE ramdisk_execute_command
  PROVE  ReadTo(n + 1)'
<1>1. line # <<>> /\ line' = Tail(line) /\ Head(line).kind # "dashes" /\ UNCHANGED cmd
  BY DEF NextWord
<1>2. /\ n + 1 <= Len(FullLine) /\ Head(line) = FullLine[n + 1]
      /\ Len(line') = Len(FullLine) - (n + 1)
      /\ \A i \in 1 .. Len(line') : line'[i] = FullLine[n + 1 + i]
  BY <1>1, ReadNext
<1>3. \A k \in 1 .. n + 1 : FullLine[k].kind # "dashes"
  <2>1. \A k \in 1 .. n + 1 : k \in 1 .. n \/ k = n + 1
    OBVIOUS
  <2>2. QED BY <1>1, <1>2, <2>1 DEF ReadTo
<1>4. LastAsked(n + 1, "init", NULL, execute_command')
  BY <1>2, AskedNext DEF ReadTo
<1>5. LastAsked(n + 1, "rdinit", RamdiskInit, ramdisk_execute_command')
  BY <1>2, AskedNext DEF ReadTo
<1>6. FullLine' = FullLine
  BY <1>1, AsksStay
<1>7. LastAsked(n + 1, "init", NULL, execute_command)'
  BY <1>4, <1>6 DEF LastAsked
<1>8. LastAsked(n + 1, "rdinit", RamdiskInit, ramdisk_execute_command)'
  BY <1>5, <1>6 DEF LastAsked
<1>9. QED BY <1>2, <1>3, <1>6, <1>7, <1>8 DEF ReadTo

\* The first parse_args ends there.
LEMMA LineEnds ==
  ASSUME TypeOK, NEW n \in Nat, ReadTo(n), line = <<>> \/ AtDashes
  PROVE  /\ n = Len(FullLine) \/ FullLine[n + 1].kind = "dashes"
         /\ n = Len(KernelWords) /\ Dashes(FullLine) = n + 1
         /\ \A k \in 1 .. n : KernelWords[k] = FullLine[k]
<1>1. line \in Seq(Word) /\ FullLine \in Seq(Word)
  BY FullLineType DEF TypeOK, ArgsTypeOK
<1>2. n = Len(FullLine) \/ FullLine[n + 1].kind = "dashes"
  <2>1. CASE line = <<>>
    <3>1. Len(line) = 0 /\ Len(FullLine) \in Nat
      BY <1>1, <2>1
    <3>2. Len(line) = Len(FullLine) - n
      BY DEF ReadTo
    <3>3. QED BY <3>1, <3>2
  <2>2. CASE AtDashes
    BY <2>2, ReadNext DEF AtDashes
  <2>3. QED BY <2>1, <2>2
<1>3. n <= Len(FullLine) /\ \A k \in 1 .. n : FullLine[k].kind # "dashes"
  BY DEF ReadTo
<1>4. QED BY <1>1, <1>2, <1>3, DashesAt DEF KernelWords

\* The first parse_args has ended.
LEMMA AllRead ==
  ASSUME TypeOK, NEW n \in Nat, ReadTo(n), line = <<>> \/ AtDashes
  PROVE  execute_command = Requested /\ ramdisk_execute_command = Early
BY LineEnds, AskedAll DEF ReadTo, Early, Requested

\* The word that a handler of the kernel's part has got.
NextIs(n, kinds) ==
  FullLine[n + 1] = Head(line) /\ FullLine[n + 1] \in Word /\ FullLine[n + 1].kind \in kinds

\* A handler of a word of the kernel's part.
WordHandler ==
  UnknownArg \/ UnknownEnv \/ SkipWord \/ InitSetup \/ RdinitSetup \/ InitcallBlacklist

LEMMA HandlerReads ==
  ASSUME TypeOK, NEW n \in Nat, ReadTo(n), WordHandler
  PROVE  /\ ReadTo(n + 1)' /\ n + 1 \in Nat /\ NextIs(n, Kind)
         /\ stage = "kernel" /\ UNCHANGED <<cmd, stage, extra_init_args>>
         /\ parse_error' <=> parse_error \/ FullLine[n + 1].kind = "invalid"
<1>1. PICK K \in SUBSET (Kind \ {"dashes"}) :
        /\ NextWord("kernel", K)
        /\ execute_command' = IF Head(line).kind = "init" THEN Head(line).name
                                                          ELSE execute_command
        /\ ramdisk_execute_command' = IF Head(line).kind = "rdinit" THEN Head(line).name
                                                                   ELSE ramdisk_execute_command
  <2>1. CASE UnknownArg
    <3>1. NextWord("kernel", {"arg"}) /\ UNCHANGED optVars /\ {"arg"} \in SUBSET (Kind \ {"dashes"})
      BY <2>1 DEF UnknownArg, Kind
    <3>2. QED BY <3>1 DEF NextWord, optVars
  <2>2. CASE UnknownEnv
    <3>1. NextWord("kernel", {"env"}) /\ UNCHANGED optVars /\ {"env"} \in SUBSET (Kind \ {"dashes"})
      BY <2>2 DEF UnknownEnv, Kind
    <3>2. QED BY <3>1 DEF NextWord, optVars
  <2>3. CASE SkipWord
    <3>1. /\ NextWord("kernel", {"arg", "env"}) \/ NextWord("kernel", {"bootconfig", "invalid"})
          /\ UNCHANGED optVars
          /\ {"arg", "env"} \in SUBSET (Kind \ {"dashes"})
          /\ {"bootconfig", "invalid"} \in SUBSET (Kind \ {"dashes"})
      BY <2>3 DEF SkipWord, Kind
    <3>2. QED BY <3>1 DEF NextWord, optVars
  <2>4. CASE InitSetup
    <3>1. /\ NextWord("kernel", {"init"}) /\ execute_command' = Head(line).name
          /\ UNCHANGED ramdisk_execute_command /\ {"init"} \in SUBSET (Kind \ {"dashes"})
      BY <2>4 DEF InitSetup, Kind
    <3>2. QED BY <3>1 DEF NextWord
  <2>5. CASE RdinitSetup
    <3>1. /\ NextWord("kernel", {"rdinit"}) /\ ramdisk_execute_command' = Head(line).name
          /\ UNCHANGED execute_command /\ {"rdinit"} \in SUBSET (Kind \ {"dashes"})
      BY <2>5 DEF RdinitSetup, Kind
    <3>2. QED BY <3>1 DEF NextWord
  <2>6. CASE InitcallBlacklist
    <3>1. /\ NextWord("kernel", {"blacklist"})
          /\ UNCHANGED <<execute_command, ramdisk_execute_command>>
          /\ {"blacklist"} \in SUBSET (Kind \ {"dashes"})
      BY <2>6 DEF InitcallBlacklist, Kind
    <3>2. QED BY <3>1 DEF NextWord
  <2>7. QED BY <2>1, <2>2, <2>3, <2>4, <2>5, <2>6 DEF WordHandler
<1>2. ReadTo(n + 1)' /\ n + 1 \in Nat
  BY <1>1, WordReads
<1>3. line # <<>> /\ line \in Seq(Word) /\ stage = "kernel" /\ UNCHANGED <<cmd, stage, extra_init_args>>
  BY <1>1 DEF NextWord, TypeOK, ArgsTypeOK
<1>4. Head(line) = FullLine[n + 1] /\ Head(line) \in Word
  BY <1>3, ReadNext, SeqSteps
<1>5. Head(line).kind \in Kind
  BY <1>1 DEF NextWord
<1>6. parse_error' <=> parse_error \/ Head(line).kind = "invalid"
  BY <1>1 DEF NextWord
<1>7. QED BY <1>2, <1>3, <1>4, <1>5, <1>6 DEF NextIs

LEMMA SetupReads ==
  ASSUME TypeOK, Reads, SetupCommandLine
  PROVE  ReadTo(0)'
<1>1. /\ stage = "setup" /\ line' = FullLine
      /\ UNCHANGED <<cmd, execute_command, ramdisk_execute_command>>
  BY DEF SetupCommandLine, optVars
<1>2. ramdisk_execute_command' = RamdiskInit /\ execute_command' = NULL
  BY <1>1 DEF Reads
<1>3. FullLine \in Seq(Word) /\ FullLine' = FullLine
  BY <1>1, FullLineType, AsksStay
<1>4. /\ 0 <= Len(FullLine) /\ Len(FullLine) = Len(FullLine) - 0 /\ 1 .. 0 = {}
      /\ \A i \in 1 .. Len(FullLine) : 0 + i = i
  BY <1>3
<1>5. QED BY <1>1, <1>2, <1>3, <1>4 DEF ReadTo, LastAsked

LEMMA StepReads ==
  ASSUME TypeOK, Order, Reads, ParseCommandLine
  PROVE  Reads'
<1>1. /\ boot = "args" /\ init = "none" /\ UNCHANGED <<cmd, init>> /\ stage # "done"
      /\ boot' = "args" <=> stage' # "done"
  <2>1. boot = "args" /\ init = "none" /\ UNCHANGED init /\ ArgsStep
        /\ boot' = IF stage' = "done" THEN "console" ELSE "args"
    BY DEF ParseCommandLine, Order, Handover
  <2>2. UNCHANGED cmd
    BY <2>1 DEF ArgsStep, SetupCommandLine, UnknownArg, UnknownEnv, SkipWord, InitSetup,
                RdinitSetup, InitcallBlacklist, SetInitArg, EndOfLine, NextWord
  <2>3. QED BY <2>1, <2>2 DEF Reads
<1>2. FullLine' = FullLine /\ Early' = Early /\ Requested' = Requested
  BY <1>1, AsksStay
<1>3. ASSUME UNCHANGED <<execute_command, ramdisk_execute_command>>,
             stage \notin {"setup", "kernel"}, stage' \notin {"setup", "kernel"}
      PROVE  Reads'
  BY <1>1, <1>2, <1>3 DEF Reads
<1>4. CASE WordHandler
  <2>0. stage = "kernel"
    BY <1>4 DEF WordHandler, UnknownArg, UnknownEnv, SkipWord, InitSetup, RdinitSetup,
                InitcallBlacklist, NextWord
  <2>1. PICK n \in Nat : ReadTo(n)
    BY <2>0 DEF Reads
  <2>2. ReadTo(n + 1)' /\ n + 1 \in Nat /\ UNCHANGED stage
    BY <1>4, <2>1, HandlerReads
  <2>3. \E m \in Nat : ReadTo(m)'
    BY <2>2
  <2>4. QED BY <1>1, <2>0, <2>2, <2>3 DEF Reads
<1>5. CASE SetupCommandLine
  <2>1. stage = "setup" /\ stage' = "kernel"
    BY <1>5 DEF SetupCommandLine
  <2>2. \E m \in Nat : ReadTo(m)'
    BY <1>5, SetupReads
  <2>3. QED BY <1>1, <2>1, <2>2 DEF Reads
<1>9. CASE SetInitArg
  <2>1. stage \in {"init", "extra"} /\ UNCHANGED <<stage, execute_command, ramdisk_execute_command>>
    BY <1>9 DEF SetInitArg, NextWord, optVars
  <2>2. QED BY <1>3, <2>1
<1>10. CASE EndOfLine
  <2>1. /\ stage' \notin {"setup", "kernel"} /\ UNCHANGED <<execute_command, ramdisk_execute_command>>
        /\ stage = "kernel" => line = <<>> \/ AtDashes
        /\ stage # "setup"
    BY <1>10 DEF EndOfLine, optVars
  <2>2. CASE stage = "kernel"
    <3>1. PICK n \in Nat : ReadTo(n)
      BY <2>2 DEF Reads
    <3>2. execute_command = Requested /\ ramdisk_execute_command = Early
      BY <2>1, <2>2, <3>1, AllRead
    <3>3. QED BY <1>1, <1>2, <2>1, <3>2 DEF Reads
  <2>3. QED BY <1>3, <2>1, <2>2
<1>11. QED BY <1>4, <1>5, <1>9, <1>10 DEF ParseCommandLine, ArgsStep, WordHandler

\* After the command line: only the early program changes, when it is not there.
LEMMA OtherReads ==
  ASSUME TypeOK, Order, Reads, [Next]_vars, ~ ParseCommandLine
  PROVE  Reads'
<1>1. CASE UNCHANGED vars
  <2>1. /\ UNCHANGED <<cmd, stage, line, execute_command, ramdisk_execute_command, boot, init>>
    BY <1>1 DEF vars, argsVars, optVars, threadVars, bootVars
  <2>2. FullLine' = FullLine /\ Early' = Early /\ Requested' = Requested
    BY <2>1, AsksStay
  <2>3. \A n \in Nat : ReadTo(n) => ReadTo(n)'
    BY <2>1, <2>2 DEF ReadTo, LastAsked
  <2>4. QED BY <2>1, <2>2, <2>3 DEF Reads
<1>2. ASSUME boot # "args", boot' # "args", UNCHANGED <<cmd, stage, execute_command>>,
             init' \in BeforeAccess => init \in BeforeAccess /\ UNCHANGED ramdisk_execute_command
      PROVE  Reads'
  <2>1. Early' = Early /\ Requested' = Requested
    BY <1>2, AsksStay
  <2>2. QED BY <1>2, <2>1 DEF Reads
<1>3. CASE ConsoleInit \/ SpawnInit \/ SpawnKthreadd \/ FindKthreadd \/ SetScheduling \/ CompleteKthreadd
  <2>1. boot # "args" /\ boot' # "args" /\ UNCHANGED argsVars /\ (UNCHANGED init \/ init = "none")
    BY <1>3 DEF ConsoleInit, SpawnInit, SpawnKthreadd, FindKthreadd, SetScheduling,
                CompleteKthreadd, BootAt, Order, Handover
  <2>2. UNCHANGED <<cmd, stage, execute_command, ramdisk_execute_command>>
    BY <2>1 DEF argsVars, optVars
  <2>3. QED BY <1>2, <2>1, <2>2 DEF BeforeAccess
<1>4. CASE InitStep
  <2>1. boot # "args" /\ UNCHANGED boot
    <3>1. UNCHANGED boot /\ init # "none"
      BY <1>4 DEF InitStep, WaitKthreadd, WorkqueueInit, WorkersReady, CallInitcall, NextLevel,
                  WaitInitramfs, CheckRamdiskInit, Synchronize, FreeInitmem, SetRunning,
                  ExecRamdisk, ExecCommand, ExecFallback, RunInitProcess, InitAt, bootVars
    <3>2. QED BY <3>1 DEF Order, Handover
  <2>2. UNCHANGED <<cmd, stage, execute_command>>
    BY <1>4 DEF InitStep, WaitKthreadd, WorkqueueInit, WorkersReady, CallInitcall, NextLevel,
                WaitInitramfs, CheckRamdiskInit, Synchronize, FreeInitmem, SetRunning,
                ExecRamdisk, ExecCommand, ExecFallback, RunInitProcess, argsVars, optVars
  <2>3. init' \in BeforeAccess => init \in BeforeAccess /\ UNCHANGED ramdisk_execute_command
    BY <1>4 DEF InitStep, WaitKthreadd, WorkqueueInit, WorkersReady, CallInitcall, NextLevel,
                WaitInitramfs, CheckRamdiskInit, Synchronize, FreeInitmem, SetRunning,
                ExecRamdisk, ExecCommand, ExecFallback, RunInitProcess, argsVars, optVars,
                InitAt, BeforeAccess, Freeable
  <2>4. QED BY <1>2, <2>1, <2>2, <2>3
<1>5. CASE MakeThread \/ (\E j \in Async : RunJob(j))
  <2>1. UNCHANGED <<boot, init, cmd, stage, execute_command, ramdisk_execute_command>> /\ request # "none"
    BY <1>5 DEF MakeThread, RunJob, bootVars, argsVars, optVars
  <2>2. boot # "args"
    BY <2>1 DEF Order, Handover
  <2>3. QED BY <1>2, <2>1, <2>2
<1>6. QED BY <1>1, <1>3, <1>4, <1>5 DEF Next, BootStep

LEMMA UnpacksInit == Init => Unpacks
<1> SUFFICES ASSUME Init PROVE Unpacks
  OBVIOUS
<1>1. Unpack \in Async /\ job[Unpack] = "none" /\ level = 1 /\ call = 1 /\ init = "none"
  BY BootAssumption DEF Init
<1>2. ~ Passed
  BY <1>1 DEF Passed
<1>3. QED BY <1>1, <1>2 DEF Unpacks, AfterAccess, Exec

\* Only the initcalls and the jobs change what Unpacks says.
LEMMA UnpacksStay ==
  ASSUME Unpacks, UNCHANGED <<blacklisted_initcalls, level, call, job>>,
         boot # "args" => boot' # "args",
         init' \in {"initramfs", "access"} \cup AfterAccess =>
           init \in {"initramfs", "access"} \cup AfterAccess,
         init' \in {"access"} \cup AfterAccess =>
           init \in {"access"} \cup AfterAccess \/ job[Unpack] \in {"none", "done"}
  PROVE  Unpacks'
BY DEF Unpacks, Passed, Blacklisted

LEMMA BootUnpacks ==
  ASSUME TypeOK, Order, Unpacks, BootStep
  PROVE  Unpacks'
<1>1. CASE ParseCommandLine
  <2>1. boot = "args" /\ init = "none" /\ UNCHANGED <<init, level, call, job>>
    BY <1>1 DEF ParseCommandLine, callVars, Order, Handover
  <2>2. job[Unpack] = "none"
    BY <2>1 DEF Unpacks
  <2>3. blacklisted_initcalls \subseteq blacklisted_initcalls'
    BY <1>1 DEF ParseCommandLine, ArgsStep, SetupCommandLine, UnknownArg, UnknownEnv, SkipWord,
                InitSetup, RdinitSetup, InitcallBlacklist, SetInitArg, EndOfLine, optVars
  <2>4. QED BY <2>1, <2>2, <2>3 DEF Unpacks, Passed, Blacklisted, AfterAccess, Exec
<1>2. CASE ~ ParseCommandLine
  <2>1. /\ UNCHANGED <<level, call, job, blacklisted_initcalls>>
        /\ boot' # "args" /\ (UNCHANGED init \/ init' = "wait")
    BY <1>2 DEF BootStep, ConsoleInit, SpawnInit, SpawnKthreadd, FindKthreadd, SetScheduling,
                CompleteKthreadd, BootAt, callVars, argsVars, optVars
  <2>2. QED BY <2>1, UnpacksStay DEF AfterAccess, Exec
<1>3. QED BY <1>1, <1>2

LEMMA CallUnpacks ==
  ASSUME TypeOK, Order, Unpacks, CallInitcall
  PROVE  Unpacks'
<1> DEFINE f == Levels[level][call]
<1>1. /\ init = "initcalls" /\ call' = call + 1
      /\ UNCHANGED <<level, init, boot, blacklisted_initcalls>>
      /\ IF f \in Async /\ ~Blacklisted(f)
         THEN \E s \in {"queued", "done"} : job' = [job EXCEPT ![f] = s]
         ELSE UNCHANGED job
  BY DEF CallInitcall, bootVars, argsVars, optVars
<1>2. job \in [Async -> {"none", "queued", "running", "done"}] /\ level \in Nat /\ call \in Nat
      /\ Unpack \in Async
  BY BootAssumption DEF TypeOK
<1> HIDE DEF f
<1>3. job'[Unpack] # "none" => job[Unpack] # "none" \/ (f = Unpack /\ ~ Blacklisted(Unpack))
  <2>1. CASE f = Unpack
    BY <1>1, <2>1
  <2>2. CASE f # Unpack
    BY <1>1, <1>2, <2>2
  <2>3. QED BY <2>1, <2>2
<1>4. f = Unpack => job'[Unpack] # "none" \/ Blacklisted(Unpack)
  BY <1>1, <1>2
<1>5. job[Unpack] # "none" => job'[Unpack] # "none"
  BY <1>1, <1>2
<1>6. boot # "args"
  BY <1>1 DEF Order, Handover
<1>7. Passed' => Passed \/ f = Unpack
  <2>1. SUFFICES ASSUME NEW l \in 1 .. Len(Levels), NEW k \in 1 .. Len(Levels[l]),
                        Levels[l][k] = Unpack, l < level \/ (l = level /\ k < call + 1)
                 PROVE  Passed \/ f = Unpack
    BY <1>1 DEF Passed
  <2>2. Len(Levels[l]) \in Nat
    BY BootAssumption
  <2>3. l < level \/ (l = level /\ k < call) \/ (l = level /\ k = call)
    BY <1>2, <2>1, <2>2
  <2>4. QED BY <2>1, <2>3 DEF Passed, f
<1>8. QED BY <1>1, <1>3, <1>4, <1>5, <1>6, <1>7 DEF Unpacks, Blacklisted, AfterAccess, Exec

LEMMA LevelUnpacks ==
  ASSUME TypeOK, Order, Unpacks, NextLevel
  PROVE  Unpacks'
<1>1. /\ init = "initcalls" /\ level' = level + 1 /\ call' = 1
      /\ call > Len(Levels[level]) /\ level <= Len(Levels)
      /\ UNCHANGED <<job, boot, blacklisted_initcalls>>
      /\ init' = IF level = Len(Levels) THEN "initramfs" ELSE "initcalls"
  BY DEF NextLevel, bootVars, argsVars, optVars
<1>2. level \in Nat /\ call \in Nat /\ Len(Levels) \in Nat
      /\ \A l \in 1 .. Len(Levels) : Len(Levels[l]) \in Nat
  BY BootAssumption DEF TypeOK
<1>3. ASSUME NEW l \in 1 .. Len(Levels), NEW k \in 1 .. Len(Levels[l]), Levels[l][k] = Unpack,
             l < level + 1
      PROVE  Passed
  <2>1. l < level \/ (l = level /\ k < call)
    BY <1>1, <1>2, <1>3
  <2>2. QED BY <1>3, <2>1 DEF Passed
<1>4. Passed' => Passed
  <2>1. SUFFICES ASSUME NEW l \in 1 .. Len(Levels), NEW k \in 1 .. Len(Levels[l]),
                        Levels[l][k] = Unpack, l < level + 1 \/ (l = level + 1 /\ k < 1)
                 PROVE  Passed
    BY <1>1 DEF Passed
  <2>2. k >= 1
    BY <1>2
  <2>3. QED BY <1>3, <2>1, <2>2
<1>5. level = Len(Levels) => Passed
  <2>1. PICK l \in 1 .. Len(Levels) : \E k \in 1 .. Len(Levels[l]) : Levels[l][k] = Unpack
    BY BootAssumption
  <2>2. level = Len(Levels) => l < level + 1
    BY <1>2
  <2>3. QED BY <1>3, <2>1, <2>2
<1>6. QED BY <1>1, <1>4, <1>5 DEF Unpacks, Blacklisted, AfterAccess, Exec

LEMMA InitStepUnpacks ==
  ASSUME TypeOK, Order, Unpacks, InitStep
  PROVE  Unpacks'
<1>1. CASE ~ CallInitcall /\ ~ NextLevel
  <2>1. UNCHANGED <<blacklisted_initcalls, level, call, job, boot>>
    BY <1>1 DEF InitStep, WaitKthreadd, WorkqueueInit, WorkersReady, WaitInitramfs,
                CheckRamdiskInit, Synchronize, FreeInitmem, SetRunning, ExecRamdisk,
                ExecCommand, ExecFallback, RunInitProcess, InitAt, argsVars, optVars, bootVars,
                callVars
  <2>2. /\ init' \in {"initramfs", "access"} \cup AfterAccess =>
             init \in {"initramfs", "access"} \cup AfterAccess
        /\ init' \in {"access"} \cup AfterAccess =>
             init \in {"access"} \cup AfterAccess \/ job[Unpack] \in {"none", "done"}
    BY <1>1 DEF InitStep, WaitKthreadd, WorkqueueInit, WorkersReady, WaitInitramfs,
                CheckRamdiskInit, Synchronize, FreeInitmem, SetRunning, ExecRamdisk,
                ExecCommand, ExecFallback, RunInitProcess, InitAt, AfterAccess, Exec
  <2>3. QED BY <2>1, <2>2, UnpacksStay
<1>2. QED BY <1>1, CallUnpacks, LevelUnpacks

LEMMA JobUnpacks ==
  ASSUME TypeOK, Order, Unpacks, NEW j \in Async, RunJob(j)
  PROVE  Unpacks'
<1>1. /\ UNCHANGED <<boot, init, level, call, blacklisted_initcalls>>
      /\ \/ job[j] = "queued" /\ job' = [job EXCEPT ![j] = "running"]
         \/ job[j] = "running" /\ job' = [job EXCEPT ![j] = "done"]
  BY DEF RunJob, bootVars, argsVars, optVars
<1>2. job \in [Async -> {"none", "queued", "running", "done"}] /\ Unpack \in Async
  BY BootAssumption DEF TypeOK
<1>3. /\ job[Unpack] = "none" <=> job'[Unpack] = "none"
      /\ job[Unpack] \in {"none", "done"} => UNCHANGED job[Unpack]
  BY <1>1, <1>2
<1>4. QED BY <1>1, <1>3 DEF Unpacks, Passed, Blacklisted

LEMMA UnpacksKept == TypeOK /\ Order /\ Unpacks /\ [Next]_vars => Unpacks'
<1> SUFFICES ASSUME TypeOK, Order, Unpacks, [Next]_vars PROVE Unpacks'
  OBVIOUS
<1>1. CASE UNCHANGED vars
  <2>1. UNCHANGED <<blacklisted_initcalls, level, call, job, boot, init>>
    BY <1>1 DEF vars, argsVars, optVars, threadVars, bootVars, callVars
  <2>2. QED BY <2>1, UnpacksStay
<1>2. CASE MakeThread
  <2>1. UNCHANGED <<blacklisted_initcalls, level, call, job, boot, init>>
    BY <1>2 DEF MakeThread, argsVars, optVars, threadVars, bootVars, callVars
  <2>2. QED BY <2>1, UnpacksStay
<1>3. QED BY <1>1, <1>2, BootUnpacks, InitStepUnpacks, JobUnpacks DEF Next

LEMMA ChosenInit == Init => Chosen /\ RunsWhatWasAsked
BY DEF Init, Chosen, RunsWhatWasAsked, AfterAccess, Exec

LEMMA FilesHere ==
  ASSUME TypeOK
  PROVE  Initramfs \subseteq Name /\ NULL \notin Name
BY BootAssumption, ArgsAssumption DEF TypeOK, Initramfs, Machine

\* kernel_init has started: the command line is read.
LEMMA LineRead ==
  ASSUME Order, Reads, init \notin {"none"}
  PROVE  execute_command = Requested /\ (init \in BeforeAccess => ramdisk_execute_command = Early)
<1>1. boot # "args"
  BY DEF Order, Handover
<1>2. QED BY <1>1 DEF Reads

\* Before the initramfs is looked at nothing runs.
LEMMA ChosenBefore ==
  ASSUME Chosen, RunsWhatWasAsked, init \in BeforeAccess, init' \in BeforeAccess,
         UNCHANGED <<mounted, pid1>>
  PROVE  Chosen' /\ RunsWhatWasAsked'
<1>1. init # "user" /\ init' # "user" /\ init' \notin AfterAccess
  BY DEF BeforeAccess, AfterAccess, Freeable, Exec
<1>2. pid1' = NULL /\ ~ mounted'
  BY <1>1 DEF Chosen
<1>3. QED BY <1>1, <1>2 DEF Chosen, RunsWhatWasAsked, AfterAccess, Exec

\* What is there, what was asked and what runs are left alone.
LEMMA ChosenStay ==
  ASSUME Chosen, RunsWhatWasAsked, UNCHANGED <<cmd, machine, blacklisted_initcalls>>,
         UNCHANGED <<ramdisk_execute_command, mounted, pid1>>,
         init \in AfterAccess, init' \in AfterAccess,
         init' = "user" <=> init = "user",
         init' \in {"exec_command", "exec_fallback"} <=> init \in {"exec_command", "exec_fallback"},
         init' = "exec_fallback" <=> init = "exec_fallback",
         ~ panicked' => ~ panicked,
         job[Unpack] = "done" <=> job'[Unpack] = "done"
  PROVE  Chosen' /\ RunsWhatWasAsked'
<1>1. Early' = Early /\ Requested' = Requested /\ Initramfs' = Initramfs /\ RootFs' = RootFs
      /\ \A p : Runs(p)' = Runs(p)
  BY AsksStay, FilesStay
<1>2. Present' = Present
  BY DEF Present
<1>3. init' \notin BeforeAccess
  BY DEF BeforeAccess, AfterAccess, Freeable, Exec
<1>4. Chosen'
  BY <1>1, <1>2, <1>3 DEF Chosen
<1>5. RunsWhatWasAsked'
  BY <1>1 DEF RunsWhatWasAsked
<1>6. QED BY <1>4, <1>5

\* The early program is looked for in the unpacked initramfs.
LEMMA AccessChosen ==
  ASSUME TypeOK, Order, Reads, Unpacks, Chosen, RunsWhatWasAsked, CheckRamdiskInit
  PROVE  Chosen' /\ RunsWhatWasAsked'
<1>1. /\ init = "access" /\ init' = "sync"
      /\ UNCHANGED <<cmd, machine, blacklisted_initcalls, job, pid1>>
      /\ IF ramdisk_execute_command \in Present
         THEN UNCHANGED <<ramdisk_execute_command, mounted, panicked>>
         ELSE /\ ramdisk_execute_command' = NULL
              /\ mounted' = TRUE \/ panicked' = TRUE
  BY DEF CheckRamdiskInit, InitAt, callVars
<1>2. ramdisk_execute_command = Early /\ ~ mounted /\ pid1 = NULL
  BY <1>1, LineRead DEF Chosen, BeforeAccess, Freeable
<1>3. Present = Initramfs
  <2>1. /\ job[Unpack] \in {"none", "done"}
        /\ job[Unpack] # "none" => ~ Blacklisted(Unpack)
        /\ job[Unpack] # "none" \/ Blacklisted(Unpack)
    BY <1>1 DEF Unpacks
  <2>2. QED BY <1>2, <2>1 DEF Present, Initramfs
<1>4. Early' = Early /\ Initramfs' = Initramfs /\ RootFs' = RootFs
  BY <1>1, AsksStay, FilesStay
<1>5. CASE Early \in Initramfs
  <2>1. UNCHANGED <<ramdisk_execute_command, mounted>>
    BY <1>1, <1>2, <1>3, <1>5
  <2>2. Present' = RootFs'
    BY <1>1, <1>3, <1>4, <1>5, <2>1 DEF Present, RootFs
  <2>3. QED BY <1>1, <1>2, <1>4, <1>5, <2>1, <2>2
           DEF Chosen, RunsWhatWasAsked, BeforeAccess, Freeable
<1>6. CASE Early \notin Initramfs
  <2>1. ramdisk_execute_command' = NULL /\ (mounted' = TRUE \/ panicked' = TRUE)
    BY <1>1, <1>2, <1>3, <1>6
  <2>2. mounted' = TRUE => Present' = RootFs'
    BY <1>1, <1>4, <1>6 DEF Present, RootFs
  <2>3. QED BY <1>1, <1>2, <1>4, <1>6, <2>1, <2>2
           DEF Chosen, RunsWhatWasAsked, BeforeAccess, Freeable
<1>7. QED BY <1>5, <1>6

\* A program is tried.
LEMMA TryFrame ==
  ASSUME NEW p, NEW l, RunInitProcess(p, l)
  PROVE  /\ UNCHANGED <<cmd, machine, blacklisted_initcalls, ramdisk_execute_command,
                        execute_command, mounted, job>>
         /\ p \in Runnable => init' = "user" /\ pid1' = p
         /\ p \notin Runnable => init' = l /\ UNCHANGED pid1
BY DEF RunInitProcess, argsVars, optVars, callVars

LEMMA TryStays ==
  ASSUME Chosen, init \in AfterAccess, ~ panicked, init' \in Exec,
         UNCHANGED <<cmd, machine, blacklisted_initcalls, ramdisk_execute_command, mounted, job>>
  PROVE  /\ Early' = Early /\ Requested' = Requested /\ Initramfs' = Initramfs /\ RootFs' = RootFs
         /\ \A p : Runs(p)' = Runs(p)
         /\ \A p : Runs(p) <=> p \in Runnable
         /\ ramdisk_execute_command' = IF Early \in Initramfs THEN Early ELSE NULL
         /\ Present' = RootFs'
         /\ init' \notin BeforeAccess
<1>1. Early' = Early /\ Requested' = Requested /\ Initramfs' = Initramfs /\ RootFs' = RootFs
      /\ \A p : Runs(p)' = Runs(p)
  BY AsksStay, FilesStay
<1>2. Present' = Present
  BY DEF Present
<1>3. Present = RootFs /\ ramdisk_execute_command = IF Early \in Initramfs THEN Early ELSE NULL
  BY DEF Chosen
<1>4. \A p : Runs(p) <=> p \in Runnable
  BY <1>3 DEF Runs, Runnable
<1>5. init' \notin BeforeAccess
  BY DEF BeforeAccess, Freeable, Exec
<1>6. QED BY <1>1, <1>2, <1>3, <1>4, <1>5

LEMMA ExecChosen ==
  ASSUME TypeOK, Order, Reads, Chosen, RunsWhatWasAsked, ExecRamdisk \/ ExecCommand \/ ExecFallback
  PROVE  Chosen' /\ RunsWhatWasAsked'
<1>1. /\ init \in {"exec_ramdisk", "exec_command", "exec_fallback"} /\ ~ panicked
      /\ pid1 = NULL
  BY DEF ExecRamdisk, ExecCommand, ExecFallback, Chosen
<1>2. init \in AfterAccess /\ init' \in Exec
  BY DEF ExecRamdisk, ExecCommand, ExecFallback, RunInitProcess, AfterAccess, Exec
<1>3. UNCHANGED <<cmd, machine, blacklisted_initcalls, ramdisk_execute_command, mounted, job>>
  BY TryFrame DEF ExecRamdisk, ExecCommand, ExecFallback, RunInitProcess, argsVars, optVars, callVars
<1>4. /\ Early' = Early /\ Requested' = Requested /\ Initramfs' = Initramfs /\ RootFs' = RootFs
      /\ \A p : Runs(p)' = Runs(p)
      /\ \A p : Runs(p) <=> p \in Runnable
      /\ ramdisk_execute_command' = IF Early \in Initramfs THEN Early ELSE NULL
      /\ Present' = RootFs'
      /\ init' \notin BeforeAccess
  BY <1>1, <1>2, <1>3, TryStays
<1>5. execute_command = Requested
  BY <1>1, LineRead
<1>6. Initramfs \subseteq Name /\ NULL \notin Name
  BY FilesHere
<1>7. ramdisk_execute_command = IF Early \in Initramfs THEN Early ELSE NULL
  BY <1>1, <1>2 DEF Chosen
<1>8. ASSUME pid1' = NULL, init' # "user",
             init' \in {"exec_command", "exec_fallback"} => ~ (Early \in Initramfs /\ Runs(Early)),
             init' = "exec_fallback" => Requested = NULL
      PROVE  Chosen' /\ RunsWhatWasAsked'
  <2>1. RunsWhatWasAsked'
    BY <1>8 DEF RunsWhatWasAsked
  <2>2. Chosen'
    BY <1>4, <1>8 DEF Chosen
  <2>3. QED BY <2>1, <2>2
<1>9. ASSUME init' = "user", Runs(pid1'),
             IF Early \in Initramfs /\ Runs(Early) THEN pid1' = Early
             ELSE IF Requested # NULL THEN pid1' = Requested
             ELSE \E k \in 1 .. Len(Fallback) :
                    pid1' = Fallback[k] /\ \A j \in 1 .. k - 1 : ~ Runs(Fallback[j])
      PROVE  Chosen' /\ RunsWhatWasAsked'
  <2>1. RunsWhatWasAsked'
    BY <1>3, <1>4, <1>9 DEF RunsWhatWasAsked, Runs
  <2>2. Chosen'
    BY <1>4, <1>9 DEF Chosen
  <2>3. QED BY <2>1, <2>2
<1>10. CASE ExecRamdisk
  <2>1. CASE Early \in Initramfs
    <3>1. Early # NULL /\ ramdisk_execute_command = Early
      BY <1>6, <1>7, <2>1
    <3>2. RunInitProcess(Early, "exec_command")
      BY <1>10, <3>1 DEF ExecRamdisk
    <3>3. CASE Early \in Runnable
      <4>1. init' = "user" /\ pid1' = Early
        BY <3>2, <3>3, TryFrame
      <4>2. QED BY <1>4, <1>9, <2>1, <3>3, <4>1
    <3>4. CASE Early \notin Runnable
      <4>1. init' = "exec_command" /\ pid1' = NULL
        BY <1>1, <3>2, <3>4, TryFrame
      <4>2. QED BY <1>4, <1>8, <3>4, <4>1
    <3>5. QED BY <3>3, <3>4
  <2>2. CASE Early \notin Initramfs
    <3>1. init' = "exec_command" /\ pid1' = NULL
      BY <1>1, <1>7, <1>10, <2>2 DEF ExecRamdisk
    <3>2. QED BY <1>8, <2>2, <3>1
  <2>3. QED BY <2>1, <2>2
<1>11. init \in {"exec_command", "exec_fallback"} => ~ (Early \in Initramfs /\ Runs(Early))
  BY DEF Chosen
<1>12. CASE ExecCommand
  <2>1. init = "exec_command"
    BY <1>12 DEF ExecCommand
  <2>2. CASE Requested # NULL
    <3>1. RunInitProcess(Requested, "exec_command")
      BY <1>5, <1>12, <2>2 DEF ExecCommand
    <3>2. CASE Requested \in Runnable
      <4>1. init' = "user" /\ pid1' = Requested
        BY <3>1, <3>2, TryFrame
      <4>2. QED BY <1>4, <1>9, <1>11, <2>1, <2>2, <3>2, <4>1
    <3>3. CASE Requested \notin Runnable
      <4>1. init' = "exec_command" /\ pid1' = NULL
        BY <1>1, <3>1, <3>3, TryFrame
      <4>2. QED BY <1>8, <1>11, <2>1, <4>1
    <3>4. QED BY <3>2, <3>3
  <2>3. CASE Requested = NULL
    <3>1. init' = "exec_fallback" /\ pid1' = NULL
      BY <1>1, <1>5, <1>12, <2>3 DEF ExecCommand
    <3>2. QED BY <1>8, <1>11, <2>1, <2>3, <3>1
  <2>4. QED BY <2>2, <2>3
<1>13. CASE ExecFallback
  <2>1. init = "exec_fallback" /\ Requested = NULL
    BY <1>13 DEF ExecFallback, Chosen
  <2>2. ASSUME NEW k \in 1 .. Len(Fallback), Fallback[k] \in Runnable,
               \A j \in 1 .. k - 1 : Fallback[j] \notin Runnable,
               RunInitProcess(Fallback[k], "exec_fallback")
        PROVE  Chosen' /\ RunsWhatWasAsked'
    <3>1. init' = "user" /\ pid1' = Fallback[k]
      BY <2>2, TryFrame
    <3>2. \A j \in 1 .. k - 1 : ~ Runs(Fallback[j])
      BY <1>4, <2>2
    <3>3. Runs(pid1')
      BY <1>4, <2>2, <3>1
    <3>4. QED BY <1>9, <1>11, <2>1, <2>2, <3>1, <3>2, <3>3
  <2>3. CASE UNCHANGED <<init, pid1>>
    BY <1>1, <1>8, <1>11, <2>1, <2>3
  <2>4. QED BY <1>13, <2>2, <2>3 DEF ExecFallback
<1>14. QED BY <1>10, <1>12, <1>13

LEMMA InitStepChosen ==
  ASSUME TypeOK, Order, Reads, Unpacks, Chosen, RunsWhatWasAsked, InitStep
  PROVE  Chosen' /\ RunsWhatWasAsked'
<1>1. CASE WaitKthreadd \/ WorkqueueInit \/ WorkersReady \/ CallInitcall \/ NextLevel \/ WaitInitramfs
  <2>1. init \in BeforeAccess /\ init' \in BeforeAccess /\ UNCHANGED <<mounted, pid1>>
    BY <1>1 DEF WaitKthreadd, WorkqueueInit, WorkersReady, CallInitcall, NextLevel, WaitInitramfs,
                InitAt, BeforeAccess, Freeable, execVars
  <2>2. QED BY <2>1, ChosenBefore
<1>2. CASE Synchronize \/ FreeInitmem \/ SetRunning
  <2>1. /\ UNCHANGED <<cmd, machine, blacklisted_initcalls>>
        /\ UNCHANGED <<ramdisk_execute_command, mounted, pid1>> /\ UNCHANGED <<job, panicked>>
    BY <1>2 DEF Synchronize, FreeInitmem, SetRunning, argsVars, optVars, execVars, callVars
  <2>2. /\ init \in {"sync", "free", "running"}
        /\ init' \in {"free", "running", "exec_ramdisk"}
    BY <1>2 DEF Synchronize, FreeInitmem, SetRunning, InitAt
  <2>3. QED BY <2>1, <2>2, ChosenStay DEF AfterAccess, Exec
<1>3. QED BY <1>1, <1>2, AccessChosen, ExecChosen DEF InitStep

LEMMA OtherChosen ==
  ASSUME TypeOK, Order, Unpacks, Chosen, RunsWhatWasAsked,
         UNCHANGED vars \/ BootStep \/ MakeThread \/ (\E j \in Async : RunJob(j))
  PROVE  Chosen' /\ RunsWhatWasAsked'
<1>1. UNCHANGED <<machine, mounted, pid1>> /\ (~ panicked' => ~ panicked)
  <2>1. CASE ParseCommandLine
    <3>1. UNCHANGED <<machine, mounted, pid1>>
      BY <2>1 DEF ParseCommandLine
    <3>2. ~ panicked
      BY <2>1 DEF ParseCommandLine
    <3>3. QED BY <3>1, <3>2
  <2>2. CASE ~ ParseCommandLine
    BY <2>2 DEF BootStep, ConsoleInit, SpawnInit, SpawnKthreadd, FindKthreadd, SetScheduling,
                CompleteKthreadd, BootAt, MakeThread, RunJob, vars, threadVars, execVars
  <2>3. QED BY <2>1, <2>2
<1>2. UNCHANGED init \/ (init = "none" /\ init' = "wait")
  BY DEF BootStep, ParseCommandLine, ConsoleInit, SpawnInit, SpawnKthreadd, FindKthreadd,
         SetScheduling, CompleteKthreadd, BootAt, MakeThread, RunJob, vars, threadVars,
         Order, Handover
<1>3. CASE init \in BeforeAccess
  <2>1. init' \in BeforeAccess
    BY <1>2, <1>3 DEF BeforeAccess
  <2>2. QED BY <1>1, <1>3, <2>1, ChosenBefore
<1>4. CASE init \notin BeforeAccess
  <2>1. init \in AfterAccess /\ UNCHANGED init
    BY <1>2, <1>4 DEF TypeOK, BeforeAccess, AfterAccess, Exec
  <2>2. boot # "args"
    BY <1>4 DEF Order, Handover, BeforeAccess
  <2>3. UNCHANGED <<cmd, blacklisted_initcalls, ramdisk_execute_command>>
    BY <2>2 DEF BootStep, ParseCommandLine, ConsoleInit, SpawnInit, SpawnKthreadd, FindKthreadd,
           SetScheduling, CompleteKthreadd, MakeThread, RunJob, vars, argsVars, optVars
  <2>4. job[Unpack] = "done" <=> job'[Unpack] = "done"
    <3>1. job[Unpack] \in {"none", "done"}
      BY <2>1 DEF Unpacks
    <3>2. CASE UNCHANGED job
      BY <3>2
    <3>3. ASSUME NEW j \in Async, RunJob(j)
          PROVE  job[Unpack] = job'[Unpack]
      <4>1. job \in [Async -> {"none", "queued", "running", "done"}]
        BY DEF TypeOK
      <4>2. Unpack \in Async
        BY BootAssumption
      <4>3. QED BY <3>1, <3>3, <4>1, <4>2 DEF RunJob
    <3>4. UNCHANGED job \/ \E j \in Async : RunJob(j)
      BY DEF BootStep, ParseCommandLine, ConsoleInit, SpawnInit, SpawnKthreadd, FindKthreadd,
         SetScheduling, CompleteKthreadd, MakeThread, vars, threadVars, callVars
    <3>5. QED BY <3>2, <3>3, <3>4
  <2>5. QED BY <1>1, <2>1, <2>3, <2>4, ChosenStay
<1>5. QED BY <1>3, <1>4

LEMMA ChoiceKept == Choice /\ [Next]_vars => Choice'
<1> SUFFICES ASSUME Choice, [Next]_vars PROVE Choice'
  OBVIOUS
<1>1. TypeOK /\ Order /\ Reads /\ Unpacks /\ Chosen /\ RunsWhatWasAsked
  BY DEF Choice
<1>2. TypeOK' /\ Order' /\ Unpacks'
  BY <1>1, TypesKept, OrderKept, UnpacksKept
<1>3. Reads'
  BY <1>1, StepReads, OtherReads
<1>4. Chosen' /\ RunsWhatWasAsked'
  BY <1>1, InitStepChosen, OtherChosen DEF Next
<1>5. QED BY <1>2, <1>3, <1>4 DEF Choice

\* Process 1 is the program that the command line asked for, for every command
\* line, every content of the file systems and every order of the jobs.
THEOREM BootRunsAsked == Spec => []RunsWhatWasAsked
<1>1. Init => Choice
  BY InitTypes, InitOrder, ReadsInit, UnpacksInit, ChosenInit DEF Choice
<1>2. Choice => RunsWhatWasAsked
  BY DEF Choice
<1>3. QED BY <1>1, <1>2, ChoiceKept, PTL DEF Spec

-----------------------------------------------------------------------------
(* What init is given *)

\* The last init= of the first n words is at l.
LastIn(l, n) ==
  /\ l \in 0 .. n
  /\ l # 0 => FullLine[l].kind \in {"init", "rdinit"}
  /\ \A j \in l + 1 .. n : FullLine[j].kind \notin {"init", "rdinit"}

GivenTo(l, n, words) ==
  LastIn(l, n) /\ words \in Seq(Word) /\ IsFiniteSet(Variables(n)) /\ Given(l, n, words)

\* What comes after the dashes of the command line.
AfterDashes == SubSeq(FullLine, Dashes(FullLine) + 1, Len(FullLine))

\* One of the first n words has a value that its parameter refuses.
RefusedIn(n) == \E k \in 1 .. n : FullLine[k].kind = "invalid"

\* set_init_arg has had the words w of s, and the others are still to come.
Taken(s, w) ==
  /\ w \in Seq(Word) /\ Len(w) <= Len(s) /\ Len(line) = Len(s) - Len(w)
  /\ \A i \in 1 .. Len(w) : w[i] = s[i] /\ s[i].kind # "dashes"
  /\ \A i \in 1 .. Len(line) : line[i] = s[Len(w) + i]

\* What init has been given in each parse_args: the line is read to n; then the
\* words w after the dashes, s, are taken; then those of the boot configuration.
Whole(n) == n = Len(KernelWords) /\ \A k \in 1 .. n : KernelWords[k] = FullLine[k]
KernelPart(l, n) == ReadTo(n) /\ GivenTo(l, n, <<>>) /\ (parse_error <=> RefusedIn(n))
InitPart(l, n, w, s) ==
  Whole(n) /\ ~ Refused /\ s = AfterDashes /\ s \in Seq(Word) /\ Taken(s, w) /\ GivenTo(l, n, w)
ExtraPart(l, n, w, s, words) ==
  /\ Whole(n) /\ s = ExtraArgs /\ Taken(s, w)
  /\ words = InitWords \o w /\ InitWords \in Seq(Word) /\ GivenTo(l, n, words)
WholeLine(l, n, words) ==
  Whole(n) /\ words = InitWords \o ExtraWords /\ GivenTo(l, n, words)

Gets ==
  /\ stage = "setup" => GivenTo(0, 0, <<>>) /\ ~ parse_error
  /\ stage = "kernel" => \E l : \E n \in Nat : KernelPart(l, n)
  /\ stage = "init" => \E l, w, s : \E n \in Nat : InitPart(l, n, w, s)
  /\ stage = "extra" => \E l, w, s, words : \E n \in Nat : ExtraPart(l, n, w, s, words)
  /\ stage = "done" => \E l, words : \E n \in Nat : WholeLine(l, n, words)
  /\ stage \in {"kernel", "init"} => extra_init_args = ExtraArgs

LEMMA PlacesStay ==
  ASSUME UNCHANGED cmd
  PROVE  /\ ExtraArgs' = ExtraArgs /\ KernelWords' = KernelWords
         /\ InitWords' = InitWords /\ ExtraWords' = ExtraWords /\ Refused' = Refused
         /\ \A n : RefusedIn(n)' = RefusedIn(n)
         /\ \A l, n : ArgPlaces(l, n)' = ArgPlaces(l, n)
         /\ \A n : Variables(n)' = Variables(n) /\ Assignments(n)' = Assignments(n)
         /\ \A l, n : LastIn(l, n)' = LastIn(l, n)
         /\ \A l, n, words : Fits(l, n, words)' = Fits(l, n, words)
<1>1. FullLine' = FullLine
  BY AsksStay
<1>2. ExtraArgs' = ExtraArgs
  BY DEF ExtraArgs, BootconfigFound
<1>3. KernelWords' = KernelWords
  BY <1>1 DEF KernelWords, UpToDashes, Dashes
<1>13. Refused' = Refused
  BY <1>3 DEF Refused
<1>14. \A n : RefusedIn(n)' = RefusedIn(n)
  BY <1>1 DEF RefusedIn
<1>4. InitWords' = InitWords
  BY <1>1, <1>13 DEF InitWords, UpToDashes, Dashes
<1>5. ExtraWords' = ExtraWords
  BY <1>2 DEF ExtraWords, UpToDashes, Dashes
<1>6. \A l, n : ArgPlaces(l, n)' = ArgPlaces(l, n)
  BY <1>1 DEF ArgPlaces
<1>7. \A n : EnvPlaces(n)' = EnvPlaces(n)
  BY <1>1 DEF EnvPlaces
<1>8. \A n : Variables(n)' = Variables(n)
  BY <1>1, <1>7 DEF Variables
<1>9. \A n : Assignments(n)' = Assignments(n)
  BY <1>1, <1>7 DEF Assignments
<1>10. \A l, n : LastIn(l, n)' = LastIn(l, n)
  BY <1>1 DEF LastIn
<1>11. \A l, n, words : Fits(l, n, words)' = Fits(l, n, words)
  BY <1>6, <1>8 DEF Fits
<1>12. QED BY <1>2, <1>3, <1>4, <1>5, <1>6, <1>8, <1>9, <1>10, <1>11, <1>13, <1>14

LEMMA RefusedWhole ==
  ASSUME NEW n, Whole(n)
  PROVE  Refused <=> RefusedIn(n)
BY DEF Whole, Refused, RefusedIn

-----------------------------------------------------------------------------
(* The places *)

LEMMA PlacesFinite ==
  ASSUME NEW l \in Nat, NEW n \in Nat
  PROVE  /\ IsFiniteSet(ArgPlaces(l, n)) /\ Cardinality(ArgPlaces(l, n)) \in Nat
         /\ ArgPlaces(l, n) \subseteq l + 1 .. n
         /\ \A k : /\ IsFiniteSet({j \in ArgPlaces(l, n) : j <= k})
                   /\ Cardinality({j \in ArgPlaces(l, n) : j <= k}) \in 0 .. Cardinality(ArgPlaces(l, n))
<1>1. IsFiniteSet(l + 1 .. n)
  BY FS_Interval
<1>2. ArgPlaces(l, n) \in SUBSET (l + 1 .. n)
  BY DEF ArgPlaces
<1>3. IsFiniteSet(ArgPlaces(l, n))
  BY <1>1, <1>2, FS_Subset
<1>4. Cardinality(ArgPlaces(l, n)) \in Nat
  BY <1>3, FS_CardinalityType
<1>5. ASSUME NEW k
      PROVE  /\ IsFiniteSet({j \in ArgPlaces(l, n) : j <= k})
             /\ Cardinality({j \in ArgPlaces(l, n) : j <= k}) \in 0 .. Cardinality(ArgPlaces(l, n))
  <2> DEFINE s == {j \in ArgPlaces(l, n) : j <= k}
  <2>1. s \in SUBSET ArgPlaces(l, n)
    OBVIOUS
  <2> HIDE DEF s
  <2>2. IsFiniteSet(s) /\ Cardinality(s) <= Cardinality(ArgPlaces(l, n))
    BY <1>3, <2>1, FS_Subset
  <2>3. Cardinality(s) \in Nat
    BY <2>2, FS_CardinalityType
  <2>4. IsFiniteSet(s) /\ Cardinality(s) \in 0 .. Cardinality(ArgPlaces(l, n))
    BY <1>4, <2>2, <2>3
  <2>5. QED BY <2>4 DEF s
<1>6. QED BY <1>2, <1>3, <1>4, <1>5

\* One word more.
LEMMA PlacesNext ==
  ASSUME NEW l \in Nat, NEW n \in Nat, l <= n
  PROVE  /\ FullLine[n + 1].kind # "arg" => ArgPlaces(l, n + 1) = ArgPlaces(l, n)
         /\ FullLine[n + 1].kind = "arg" =>
              /\ ArgPlaces(l, n + 1) = ArgPlaces(l, n) \cup {n + 1}
              /\ n + 1 \notin ArgPlaces(l, n)
              /\ Cardinality(ArgPlaces(l, n + 1)) = Cardinality(ArgPlaces(l, n)) + 1
         /\ ArgPlaces(n + 1, n + 1) = {}
<1>1. l + 1 .. n + 1 = (l + 1 .. n) \cup {n + 1} /\ n + 1 \notin l + 1 .. n
  OBVIOUS
<1>2. (n + 1) + 1 .. n + 1 = {}
  OBVIOUS
<1>3. FullLine[n + 1].kind # "arg" => ArgPlaces(l, n + 1) = ArgPlaces(l, n)
  BY <1>1 DEF ArgPlaces
<1>4. FullLine[n + 1].kind = "arg" => ArgPlaces(l, n + 1) = ArgPlaces(l, n) \cup {n + 1}
  BY <1>1 DEF ArgPlaces
<1>5. n + 1 \notin ArgPlaces(l, n)
  BY <1>1 DEF ArgPlaces
<1>6. Cardinality(ArgPlaces(l, n) \cup {n + 1}) = Cardinality(ArgPlaces(l, n)) + 1
  BY <1>5, PlacesFinite, FS_AddElement
<1>7. ArgPlaces(n + 1, n + 1) = {}
  BY <1>2 DEF ArgPlaces
<1>8. QED BY <1>3, <1>4, <1>5, <1>6, <1>7

LEMMA VariablesNext ==
  ASSUME NEW n \in Nat
  PROVE  /\ FullLine[n + 1].kind # "env" =>
              Variables(n + 1) = Variables(n) /\ Assignments(n + 1) = Assignments(n)
         /\ FullLine[n + 1].kind = "env" =>
              Variables(n + 1) = Variables(n) \cup {FullLine[n + 1].name}
<1>1. 1 .. n + 1 = (1 .. n) \cup {n + 1}
  OBVIOUS
<1>2. FullLine[n + 1].kind # "env" => EnvPlaces(n + 1) = EnvPlaces(n)
  BY <1>1 DEF EnvPlaces
<1>3. FullLine[n + 1].kind = "env" => EnvPlaces(n + 1) = EnvPlaces(n) \cup {n + 1}
  BY <1>1 DEF EnvPlaces
<1>4. FullLine[n + 1].kind = "env" =>
        Variables(n + 1) = Variables(n) \cup {FullLine[n + 1].name}
  BY <1>3 DEF Variables
<1>5. QED BY <1>2, <1>4 DEF Variables, Assignments

LEMMA VariablesCount ==
  ASSUME NEW n \in Nat, IsFiniteSet(Variables(n))
  PROVE  /\ IsFiniteSet(Variables(n + 1))
         /\ Cardinality(Variables(n)) \in Nat /\ Cardinality(Variables(n + 1)) \in Nat
         /\ Cardinality(Variables(n)) <= Cardinality(Variables(n + 1))
<1>1. IsFiniteSet(Variables(n + 1))
  <2>1. IsFiniteSet(Variables(n) \cup {FullLine[n + 1].name})
    BY FS_AddElement
  <2>2. QED BY <2>1, VariablesNext
<1>2. Variables(n) \in SUBSET Variables(n + 1)
  BY VariablesNext
<1>3. QED BY <1>1, <1>2, FS_Subset, FS_CardinalityType

LEMMA PlacesCount ==
  ASSUME NEW l \in Nat, NEW n \in Nat
  PROVE  Cardinality(ArgPlaces(l, n)) \in Nat
BY PlacesFinite

LEMMA NoWords == <<>> \in Seq(Word) /\ Len(<<>>) = 0 /\ 1 .. 0 = {}
OBVIOUS

\* A slot can be counted.
LEMMA SlotNumber ==
  ASSUME NEW t \in Nat, t < MaxArgs
  PROVE  t + 1 \in ArgSlot /\ MaxArgs \in Nat
BY ArgsAssumption DEF ArgSlot

\* What fits with one word more fitted without it.
LEMMA FitsNext ==
  ASSUME NEW l \in Nat, NEW n \in Nat, l <= n, IsFiniteSet(Variables(n)), Fits(l, n + 1, <<>>)
  PROVE  /\ Fits(l, n, <<>>)
         /\ FullLine[n + 1].kind = "arg" => Cardinality(ArgPlaces(l, n)) < MaxArgs
<1>1. /\ Cardinality(ArgPlaces(l, n)) \in Nat /\ Cardinality(ArgPlaces(l, n + 1)) \in Nat
      /\ Len(<<>>) = 0 /\ MaxArgs \in Nat /\ MaxEnvs \in Nat
  BY PlacesFinite, ArgsAssumption
<1>2. /\ Cardinality(ArgPlaces(l, n)) <= Cardinality(ArgPlaces(l, n + 1))
      /\ FullLine[n + 1].kind = "arg" =>
           Cardinality(ArgPlaces(l, n)) < Cardinality(ArgPlaces(l, n + 1))
  <2>1. /\ FullLine[n + 1].kind # "arg" => ArgPlaces(l, n + 1) = ArgPlaces(l, n)
        /\ FullLine[n + 1].kind = "arg" =>
             Cardinality(ArgPlaces(l, n + 1)) = Cardinality(ArgPlaces(l, n)) + 1
    BY PlacesNext
  <2>2. QED BY <1>1, <2>1
<1>3. QED BY <1>1, <1>2, VariablesCount DEF Fits

\* Before init= there was room for all that it clears.
LEMMA FitsInit ==
  ASSUME NEW l \in Nat, NEW n \in Nat, l <= n, IsFiniteSet(Variables(n)),
         FullLine[n + 1].kind \in {"init", "rdinit"}, Fits(n + 1, n + 1, <<>>)
  PROVE  Fits(l, n, <<>>) /\ Cardinality(ArgPlaces(l, n)) < MaxArgs
<1> DEFINE b == ArgPlaces(0, n + 1)
<1>1. /\ Cardinality(b) < MaxArgs /\ Cardinality(Variables(n + 1)) <= MaxEnvs
  BY DEF Fits
<1>2. /\ IsFiniteSet(b) /\ Cardinality(b) \in Nat
      /\ Cardinality(ArgPlaces(l, n)) \in Nat /\ Cardinality(ArgPlaces(0, l)) \in Nat
  <2>1. 0 \in Nat /\ n + 1 \in Nat
    OBVIOUS
  <2>2. IsFiniteSet(ArgPlaces(0, n + 1))
    BY <2>1, PlacesFinite
  <2>3. QED BY <2>1, <2>2, PlacesCount
<1>3. ArgPlaces(l, n) \in SUBSET b /\ ArgPlaces(0, l) \in SUBSET b
  <2>1. l + 1 .. n \subseteq 0 + 1 .. n + 1 /\ 0 + 1 .. l \subseteq 0 + 1 .. n + 1
    OBVIOUS
  <2>2. QED BY <2>1 DEF ArgPlaces
<1> HIDE DEF b
<1>4. Cardinality(ArgPlaces(l, n)) <= Cardinality(b) /\ Cardinality(ArgPlaces(0, l)) <= Cardinality(b)
  BY <1>2, <1>3, FS_Subset
<1>5. Cardinality(ArgPlaces(l, n)) < MaxArgs /\ Cardinality(ArgPlaces(0, l)) < MaxArgs
  BY <1>1, <1>2, <1>4, ArgsAssumption
<1>6. Cardinality(Variables(n)) <= MaxEnvs
  BY <1>1, VariablesCount, ArgsAssumption
<1>7. Cardinality(ArgPlaces(l, n)) + Len(<<>>) <= MaxArgs
  BY <1>2, <1>5, ArgsAssumption
<1>8. QED BY <1>5, <1>6, <1>7 DEF Fits

LEMMA FitsWord ==
  ASSUME NEW l \in Nat, NEW n \in Nat, NEW words \in Seq(Word), NEW x \in Word,
         Fits(l, n, Append(words, x))
  PROVE  Fits(l, n, words) /\ Cardinality(ArgPlaces(l, n)) + Len(words) < MaxArgs
<1>1. Cardinality(ArgPlaces(l, n)) \in Nat /\ Len(words) \in Nat
      /\ Len(Append(words, x)) = Len(words) + 1
  BY PlacesFinite
<1>2. QED BY <1>1, ArgsAssumption DEF Fits

\* The slot that the loop over argv_init finds.
LEMMA FreeSlot ==
  ASSUME TypeOK, NEW l \in Nat, NEW n \in Nat, NEW words \in Seq(Word), ArgvHas(l, n, words),
         Cardinality(ArgPlaces(l, n)) + Len(words) < MaxArgs, NEW k \in ArgSlot, FreeArg(k)
  PROVE  k = Cardinality(ArgPlaces(l, n)) + Len(words) + 1
<1> DEFINE t == Cardinality(ArgPlaces(l, n)) + Len(words)
<1>1. t \in Nat /\ MaxArgs \in Nat /\ t + 1 \in ArgSlot /\ k \in Int
  <2>1. Cardinality(ArgPlaces(l, n)) \in Nat /\ Len(words) \in Nat
    BY PlacesCount
  <2>2. t \in Nat /\ t < MaxArgs
    BY <2>1
  <2>3. k \in Int
    BY ArgsAssumption DEF ArgSlot
  <2> HIDE DEF t
  <2>4. QED BY <2>2, <2>3, SlotNumber
<1>2. \A m \in ArgSlot : argv_init[m] = NULL <=> m > t
  BY DEF ArgvHas
<1> HIDE DEF t
<1>3. k > t
  BY <1>2 DEF FreeArg
<1>4. ~ (t + 1 < k)
  <2>1. SUFFICES ASSUME t + 1 < k PROVE FALSE
    OBVIOUS
  <2>2. t + 1 \in 1 .. k - 1
    BY <1>1, <2>1 DEF ArgSlot
  <2>3. argv_init[t + 1] # NULL
    BY <2>2 DEF FreeArg
  <2>4. argv_init[t + 1] = NULL
    BY <1>1, <1>2
  <2>5. QED BY <2>3, <2>4
<1>5. k = t + 1
  BY <1>1, <1>3, <1>4
<1>6. QED BY <1>5 DEF t

\* An argument of the kernel's part goes into the slot after the others.
LEMMA ArgvArg ==
  ASSUME TypeOK, UNCHANGED cmd, NEW l \in Nat, NEW n \in Nat, l <= n, ArgvHas(l, n, <<>>),
         Cardinality(ArgPlaces(l, n)) < MaxArgs,
         FullLine[n + 1].kind = "arg", FullLine[n + 1] \in Word,
         NEW k \in ArgSlot, FreeArg(k), argv_init' = [argv_init EXCEPT ![k] = FullLine[n + 1]]
  PROVE  ArgvHas(l, n + 1, <<>>)' /\ k <= MaxArgs
<1> DEFINE p == ArgPlaces(l, n)
           q == ArgPlaces(l, n + 1)
           t == Cardinality(p)
<1>1. t \in Nat /\ MaxArgs \in Nat /\ t + 1 \in ArgSlot /\ Len(<<>>) = 0 /\ t < MaxArgs
  BY PlacesCount, SlotNumber, NoWords
<1>2. k = t + 1
  <2>1. Cardinality(ArgPlaces(l, n)) + Len(<<>>) < MaxArgs
    BY <1>1
  <2>2. k = Cardinality(ArgPlaces(l, n)) + Len(<<>>) + 1
    BY <2>1, FreeSlot, NoWords
  <2>3. QED BY <1>1, <2>2
<1>3. q = p \cup {n + 1} /\ n + 1 \notin p /\ Cardinality(q) = t + 1
  BY PlacesNext
<1>4. p \subseteq l + 1 .. n
  BY PlacesFinite
<1>5. argv_init \in [ArgSlot -> Word \cup {NULL}] /\ FullLine[n + 1] # NULL
  BY ArgsAssumption DEF TypeOK, ArgsTypeOK
<1>6. \A m \in ArgSlot : argv_init'[m] = IF m = k THEN FullLine[n + 1] ELSE argv_init[m]
  BY <1>5
<1>7. FullLine' = FullLine /\ ArgPlaces(l, n + 1)' = q
  BY AsksStay, PlacesStay
<1>8. /\ \A j \in p : argv_init[Cardinality({i \in p : i <= j})] = FullLine[j]
      /\ \A j \in ArgSlot : argv_init[j] = NULL <=> j > t
  BY <1>1 DEF ArgvHas
<1>9. \A j : Cardinality({i \in p : i <= j}) \in 0 .. t
  BY PlacesFinite
<1> HIDE DEF p, q, t
<1>10. ASSUME NEW j \in q
       PROVE  argv_init'[Cardinality({i \in q : i <= j})] = FullLine[j]
  <2>1. CASE j = n + 1
    <3>0. \A i \in q : i <= n + 1
      BY <1>3, <1>4
    <3>1. {i \in q : i <= j} = q
      BY <2>1, <3>0
    <3>2. QED BY <1>1, <1>2, <1>3, <1>6, <2>1, <3>1
  <2>2. CASE j # n + 1
    <3>1. j \in p /\ j <= n
      BY <1>3, <1>4, <2>2
    <3>2. {i \in q : i <= j} = {i \in p : i <= j}
      BY <1>3, <3>1, <1>4
    <3> DEFINE r == Cardinality({i \in p : i <= j})
    <3>3. argv_init[r] = FullLine[j] /\ r \in 0 .. t
      BY <1>8, <1>9, <3>1
    <3>4. r # 0
      <4>1. j \in {i \in p : i <= j}
        BY <3>1, <1>4
      <4>2. IsFiniteSet({i \in p : i <= j})
        BY PlacesFinite DEF p
      <4>3. QED BY <4>1, <4>2, FS_EmptySet
    <3> HIDE DEF r
    <3>5. r \in ArgSlot /\ r # k
      BY <1>1, <1>2, <3>3, <3>4 DEF ArgSlot
    <3>6. argv_init'[r] = FullLine[j]
      BY <1>6, <3>3, <3>5
    <3>7. QED BY <3>2, <3>6 DEF r
  <2>3. QED BY <2>1, <2>2
<1>11. ASSUME NEW j \in ArgSlot
       PROVE  argv_init'[j] = NULL <=> j > t + 1
  BY <1>1, <1>2, <1>5, <1>6, <1>8 DEF ArgSlot
<1>12. k <= MaxArgs
  BY <1>1, <1>2 DEF t, p
<1>13. ArgvHas(l, n + 1, <<>>)'
  <2>1. \A j \in q : argv_init'[Cardinality({i \in q : i <= j})] = FullLine'[j]
    BY <1>7, <1>10
  <2>2. \A j \in ArgSlot : argv_init'[j] = NULL <=> j > Cardinality(q) + Len(<<>>)
    BY <1>1, <1>3, <1>11
  <2>3. 1 .. Len(<<>>) = {}
    BY <1>1
  <2>4. QED BY <1>7, <2>1, <2>2, <2>3 DEF ArgvHas
<1>14. QED BY <1>12, <1>13

\* A word for init goes into the slot after the others.
LEMMA ArgvWord ==
  ASSUME TypeOK, UNCHANGED cmd, NEW l \in Nat, NEW n \in Nat, NEW words \in Seq(Word),
         ArgvHas(l, n, words), Cardinality(ArgPlaces(l, n)) + Len(words) < MaxArgs,
         NEW x \in Word, NEW k \in ArgSlot, FreeArg(k), argv_init' = [argv_init EXCEPT ![k] = x]
  PROVE  ArgvHas(l, n, Append(words, x))'
<1> DEFINE p == ArgPlaces(l, n)
           c == Cardinality(p)
           t == c + Len(words)
           w == Append(words, x)
<1>1. c \in Nat /\ t \in Nat /\ Len(words) \in Nat /\ MaxArgs \in Nat /\ t + 1 \in ArgSlot
      /\ t = c + Len(words)
  <2>1. c \in Nat /\ Len(words) \in Nat
    BY PlacesCount
  <2>2. t \in Nat /\ t < MaxArgs
    BY <2>1
  <2>3. QED BY <2>1, <2>2, SlotNumber
<1>2. k = t + 1
  BY FreeSlot
<1>3. argv_init \in [ArgSlot -> Word \cup {NULL}] /\ x # NULL
  BY ArgsAssumption DEF TypeOK, ArgsTypeOK
<1>4. \A m \in ArgSlot : argv_init'[m] = IF m = k THEN x ELSE argv_init[m]
  BY <1>3
<1>5. FullLine' = FullLine /\ ArgPlaces(l, n)' = p
  BY AsksStay, PlacesStay
<1>6. /\ \A j \in p : argv_init[Cardinality({i \in p : i <= j})] = FullLine[j]
      /\ \A j \in 1 .. Len(words) : argv_init[c + j] = words[j]
      /\ \A j \in ArgSlot : argv_init[j] = NULL <=> j > t
  BY DEF ArgvHas
<1>7. \A j \in p : Cardinality({i \in p : i <= j}) \in 1 .. c
  <2>1. SUFFICES ASSUME NEW j \in p PROVE Cardinality({i \in p : i <= j}) \in 1 .. c
    OBVIOUS
  <2>2. Cardinality({i \in p : i <= j}) \in 0 .. c /\ IsFiniteSet({i \in p : i <= j})
        /\ p \subseteq l + 1 .. n
    BY PlacesFinite
  <2> HIDE DEF p
  <2>3. j \in {i \in p : i <= j}
    BY <2>1, <2>2
  <2>4. Cardinality({i \in p : i <= j}) # 0
    BY <2>2, <2>3, FS_EmptySet
  <2>5. QED BY <1>1, <2>2, <2>4
<1>8. Len(w) = Len(words) + 1 /\ \A j \in 1 .. Len(words) + 1 :
        w[j] = IF j <= Len(words) THEN words[j] ELSE x
  BY <1>1
<1> HIDE DEF p, c, t, w
<1>9. \A j \in p : argv_init'[Cardinality({i \in p : i <= j})] = FullLine[j]
  <2>1. SUFFICES ASSUME NEW j \in p
                 PROVE  argv_init'[Cardinality({i \in p : i <= j})] = FullLine[j]
    OBVIOUS
  <2> DEFINE r == Cardinality({i \in p : i <= j})
  <2>2. r \in 1 .. c /\ argv_init[r] = FullLine[j]
    BY <1>6, <1>7
  <2> HIDE DEF r
  <2>3. r \in ArgSlot /\ r # k
    BY <1>1, <1>2, <2>2 DEF ArgSlot
  <2>4. argv_init'[r] = FullLine[j]
    BY <1>4, <2>2, <2>3
  <2>5. QED BY <2>4 DEF r
<1>10. \A j \in 1 .. Len(w) : argv_init'[c + j] = w[j]
  <2>1. SUFFICES ASSUME NEW j \in 1 .. Len(words) + 1 PROVE argv_init'[c + j] = w[j]
    BY <1>8
  <2>2. c + j \in ArgSlot /\ (c + j = k <=> j = Len(words) + 1)
    BY <1>1, <1>2 DEF ArgSlot
  <2>3. CASE j = Len(words) + 1
    BY <1>1, <1>4, <1>8, <2>2, <2>3
  <2>4. CASE j # Len(words) + 1
    <3>1. j \in 1 .. Len(words)
      BY <1>1, <2>4
    <3>2. QED BY <1>4, <1>6, <1>8, <2>2, <2>4, <3>1
  <2>5. QED BY <2>3, <2>4
<1>11. \A j \in ArgSlot : argv_init'[j] = NULL <=> j > c + Len(w)
  BY <1>1, <1>2, <1>3, <1>4, <1>6, <1>8 DEF ArgSlot
<1>12. QED BY <1>5, <1>9, <1>10, <1>11 DEF ArgvHas, c, w

\* Words that are not arguments leave argv_init alone, and init= clears it.
LEMMA ArgvSame ==
  ASSUME UNCHANGED <<cmd, argv_init>>, NEW l, NEW n, NEW m, NEW words, ArgvHas(l, n, words),
         ArgPlaces(l, m) = ArgPlaces(l, n)
  PROVE  ArgvHas(l, m, words)'
<1>1. FullLine' = FullLine /\ ArgPlaces(l, m)' = ArgPlaces(l, n)
  BY AsksStay, PlacesStay
<1>2. QED BY <1>1 DEF ArgvHas

LEMMA ArgvCleared ==
  ASSUME UNCHANGED cmd, NEW l \in Nat, NEW n \in Nat, l <= n, ArgvHas(l, n, <<>>),
         Cardinality(ArgPlaces(l, n)) < MaxArgs, argv_init' = Cleared
  PROVE  ArgvHas(n + 1, n + 1, <<>>)'
<1>1. ArgPlaces(n + 1, n + 1)' = {}
  <2>1. ArgPlaces(n + 1, n + 1) = {}
    BY PlacesNext
  <2>2. ArgPlaces(n + 1, n + 1)' = ArgPlaces(n + 1, n + 1)
    BY PlacesStay
  <2>3. QED BY <2>1, <2>2
<1>2. Cardinality(ArgPlaces(l, n)) \in Nat /\ MaxArgs \in Nat /\ Len(<<>>) = 0
      /\ Cardinality({}) = 0
  BY PlacesFinite, ArgsAssumption, FS_EmptySet
<1>3. \A j \in ArgSlot : j > Cardinality(ArgPlaces(l, n)) => argv_init[j] = NULL
  BY <1>2 DEF ArgvHas
<1>4. \A j \in ArgSlot : argv_init'[j] = NULL
  BY <1>2, <1>3 DEF Cleared, ArgSlot
<1>5. \A j \in ArgSlot : j > Cardinality({}) + Len(<<>>)
  BY <1>2 DEF ArgSlot
<1>6. QED BY <1>1, <1>2, <1>4, <1>5 DEF ArgvHas

\* One assignment more takes the place of the one before it to that variable.
LEMMA AssignmentsNext ==
  ASSUME NEW n \in Nat, FullLine[n + 1].kind = "env"
  PROVE  Assignments(n + 1) =
           {w \in Assignments(n) : w.name # FullLine[n + 1].name} \cup {FullLine[n + 1]}
<1> DEFINE v == FullLine[n + 1].name
           e == EnvPlaces(n)
           f == EnvPlaces(n + 1)
           after == {w \in Assignments(n) : w.name # v} \cup {FullLine[n + 1]}
<1>1. f = e \cup {n + 1} /\ e \subseteq 1 .. n
  <2>1. 1 .. n + 1 = (1 .. n) \cup {n + 1}
    OBVIOUS
  <2>2. QED BY <2>1 DEF EnvPlaces
<1>2. \A u : Variable(u).name = u
  BY DEF Variable
<1>3. \A w : w \in Assignments(n) <=>
        \/ \E m \in e : w = FullLine[m] /\ \A j \in e : FullLine[j].name = FullLine[m].name => j <= m
        \/ \E u \in {HomeName, TermName} : w = Variable(u) /\ \A j \in e : FullLine[j].name # u
  BY DEF Assignments
<1>4. \A w : w \in Assignments(n + 1) <=>
        \/ \E m \in f : w = FullLine[m] /\ \A j \in f : FullLine[j].name = FullLine[m].name => j <= m
        \/ \E u \in {HomeName, TermName} : w = Variable(u) /\ \A j \in f : FullLine[j].name # u
  BY DEF Assignments
<1> HIDE DEF e, f
<1>5. ASSUME NEW w \in Assignments(n + 1)
      PROVE  w \in after
  <2>1. ASSUME NEW m \in f, w = FullLine[m],
               \A j \in f : FullLine[j].name = FullLine[m].name => j <= m
        PROVE  w \in after
    <3>1. CASE m = n + 1
      BY <2>1, <3>1
    <3>2. CASE m # n + 1
      <4>1. m \in e /\ m <= n /\ n + 1 \in f
        BY <1>1, <2>1, <3>2
      <4>2. w.name # v
        BY <2>1, <4>1, <1>1
      <4>3. \A j \in e : FullLine[j].name = FullLine[m].name => j <= m
        BY <1>1, <2>1
      <4>4. w \in Assignments(n)
        BY <1>3, <2>1, <4>1, <4>3
      <4>5. QED BY <4>2, <4>4
    <3>3. QED BY <3>1, <3>2
  <2>2. ASSUME NEW u \in {HomeName, TermName}, w = Variable(u), \A j \in f : FullLine[j].name # u
        PROVE  w \in after
    <3>1. w.name # v
      BY <1>1, <1>2, <2>2
    <3>2. w \in Assignments(n)
      BY <1>1, <1>3, <2>2
    <3>3. QED BY <3>1, <3>2
  <2>3. QED BY <1>4, <2>1, <2>2
<1>6. ASSUME NEW w \in Assignments(n), w.name # v
      PROVE  w \in Assignments(n + 1)
  <2>1. ASSUME NEW m \in e, w = FullLine[m],
               \A j \in e : FullLine[j].name = FullLine[m].name => j <= m
        PROVE  w \in Assignments(n + 1)
    <3>1. m \in f /\ \A j \in f : FullLine[j].name = FullLine[m].name => j <= m
      BY <1>1, <1>6, <2>1
    <3>2. QED BY <1>4, <2>1, <3>1
  <2>2. ASSUME NEW u \in {HomeName, TermName}, w = Variable(u), \A j \in e : FullLine[j].name # u
        PROVE  w \in Assignments(n + 1)
    <3>1. \A j \in f : FullLine[j].name # u
      BY <1>1, <1>2, <1>6, <2>2
    <3>2. QED BY <1>4, <2>2, <3>1
  <2>3. QED BY <1>3, <2>1, <2>2
<1>7. FullLine[n + 1] \in Assignments(n + 1)
  <2>1. n + 1 \in f
    BY <1>1
  <2>2. \A j \in f : j \in 1 .. n \/ j = n + 1
    BY <1>1
  <2>3. \A j \in f : j <= n + 1
    BY <2>2
  <2>4. QED BY <1>4, <2>1, <2>3
<1>8. \A w : w \in Assignments(n + 1) <=> w \in after
  BY <1>5, <1>6, <1>7
<1> HIDE DEF after
<1>9. Assignments(n + 1) = after
  BY <1>8
<1>10. QED BY <1>9 DEF after

LEMMA AssignedNames ==
  ASSUME NEW n \in Nat, NEW w \in Assignments(n)
  PROVE  w.name \in Variables(n)
BY DEF Assignments, Variables, Variable

\* As long as the variables fit, so does the next one.
LEMMA EnvpRoom ==
  ASSUME TypeOK, NEW n \in Nat, IsFiniteSet(Variables(n)), Cardinality(Variables(n)) <= MaxEnvs,
         EnvpHas(n), \A j \in 0 .. MaxEnvs - 1 : envp_init[j] # NULL
  PROVE  envp_init[MaxEnvs] = NULL
<1> SUFFICES ASSUME envp_init[MaxEnvs] # NULL PROVE FALSE
  OBVIOUS
<1> DEFINE s == 0 .. MaxEnvs
           v == Variables(n)
           f == [j \in s |-> envp_init[j].name]
<1>1. MaxEnvs \in Nat /\ s \subseteq EnvSlot
  BY ArgsAssumption DEF EnvSlot
<1>2. \A j \in s : envp_init[j] # NULL
  <2>1. \A j \in s : j \in 0 .. MaxEnvs - 1 \/ j = MaxEnvs
    BY <1>1
  <2>2. QED BY <2>1
<1>3. \A j \in s : envp_init[j].name \in v
  <2>1. \A j \in s : envp_init[j] \in Assignments(n)
    BY <1>1, <1>2 DEF EnvpHas
  <2>2. QED BY <2>1, AssignedNames
<1>4. \A j, k \in s : j # k => envp_init[j].name # envp_init[k].name
  BY <1>1, <1>2 DEF EnvpHas
<1>5. IsFiniteSet(s) /\ Cardinality(s) = MaxEnvs + 1
  <2>1. 0 \in Int /\ MaxEnvs \in Int /\ ~ (0 > MaxEnvs) /\ MaxEnvs - 0 + 1 = MaxEnvs + 1
    BY <1>1
  <2>2. QED BY <2>1, FS_Interval
<1>6. Cardinality(v) \in Nat
  BY FS_CardinalityType
<1> HIDE DEF s, v
<1>7. f \in [s -> v]
  BY <1>3
<1>8. Cardinality(v) < Cardinality(s)
  BY <1>1, <1>5, <1>6 DEF v
<1>9. \E x, y \in s : x # y /\ f[x] = f[y]
  <2>1. IsFiniteSet(v)
    BY DEF v
  <2> HIDE DEF f
  <2>2. QED BY <1>5, <1>7, <1>8, <2>1, FS_PigeonHole
<1>10. QED BY <1>4, <1>9

\* A variable goes into the slot of its name or the first that is free.
LEMMA EnvpEnv ==
  ASSUME TypeOK, UNCHANGED cmd, ArraysTerminated, panic_later = NULL,
         NEW n \in Nat, EnvpHas(n), FullLine[n + 1].kind = "env", FullLine[n + 1] \in Word,
         NEW k \in EnvSlot, EnvFor(k, FullLine[n + 1].name),
         envp_init' = [envp_init EXCEPT ![k] = FullLine[n + 1]]
  PROVE  EnvpHas(n + 1)'
<1> DEFINE w == FullLine[n + 1]
           v == w.name
<1>1. envp_init \in [EnvSlot -> Word \cup {NULL}] /\ w # NULL
  BY ArgsAssumption DEF TypeOK, ArgsTypeOK
<1>2. \A j \in EnvSlot : envp_init'[j] = IF j = k THEN w ELSE envp_init[j]
  BY <1>1
<1>3. \A j \in EnvSlot : j # k /\ envp_init[j] # NULL => envp_init[j].name # v
  <2>1. SUFFICES ASSUME NEW j \in EnvSlot, j # k, envp_init[j] # NULL
                 PROVE  envp_init[j].name # v
    OBVIOUS
  <2>2. MaxEnvs \in Nat /\ j \in Int /\ k \in Int /\ j >= 0 /\ j <= MaxEnvs + 1 /\ k >= 0
    BY ArgsAssumption DEF EnvSlot
  <2>3. CASE j < k
    <3>1. j \in 0 .. k - 1
      BY <2>2, <2>3
    <3>2. QED BY <3>1 DEF EnvFor
  <2>4. CASE j > k /\ envp_init[k] = NULL
    <3>1. j \in k .. MaxEnvs + 1
      BY <2>2, <2>4
    <3>2. QED BY <2>1, <2>4, <3>1 DEF ArraysTerminated
  <2>5. CASE envp_init[k] # NULL
    BY <2>1, <2>5 DEF EnvFor, EnvpHas
  <2>6. QED BY <2>1, <2>2, <2>3, <2>4, <2>5
<1>4. envp_init[k] # NULL => envp_init[k].name = v
  BY DEF EnvFor
<1>5. {envp_init[j] : j \in EnvSlot} \ {NULL} = Assignments(n)
      /\ \A i, j \in EnvSlot : i # j /\ envp_init[i] # NULL /\ envp_init[j] # NULL =>
           envp_init[i].name # envp_init[j].name
  BY DEF EnvpHas
<1>6. Assignments(n + 1) = {u \in Assignments(n) : u.name # v} \cup {w}
  BY AssignmentsNext
<1>7. Assignments(n + 1)' = Assignments(n + 1)
  BY PlacesStay
<1> HIDE DEF w, v
<1>8. w.name = v
  BY DEF v
<1>9. \A u : u \in Assignments(n) <=> u # NULL /\ \E j \in EnvSlot : u = envp_init[j]
  BY <1>5
<1>10. \A u : u \in Assignments(n + 1) <=> u # NULL /\ \E j \in EnvSlot : u = envp_init'[j]
  <2>1. ASSUME NEW u, u \in Assignments(n), u.name # v
        PROVE  u # NULL /\ \E j \in EnvSlot : u = envp_init'[j]
    <3>1. PICK j \in EnvSlot : u = envp_init[j] /\ u # NULL
      BY <1>9, <2>1
    <3>2. j # k
      BY <1>4, <2>1, <3>1
    <3>3. QED BY <1>2, <3>1, <3>2
  <2>2. w # NULL /\ \E j \in EnvSlot : w = envp_init'[j]
    BY <1>1, <1>2
  <2>3. ASSUME NEW u, u # NULL, NEW j \in EnvSlot, u = envp_init'[j]
        PROVE  u \in Assignments(n + 1)
    <3>1. CASE j = k
      BY <1>2, <1>6, <2>3, <3>1
    <3>2. CASE j # k
      <4>1. u = envp_init[j]
        BY <1>2, <2>3, <3>2
      <4>2. u \in Assignments(n) /\ u.name # v
        BY <1>3, <1>9, <2>3, <3>2, <4>1
      <4>3. QED BY <1>6, <4>2
    <3>3. QED BY <3>1, <3>2
  <2>4. QED BY <1>6, <2>1, <2>2, <2>3
<1>11. {envp_init'[j] : j \in EnvSlot} \ {NULL} = Assignments(n + 1)
  BY <1>10
<1>12. ASSUME NEW i \in EnvSlot, NEW j \in EnvSlot, i # j, envp_init'[i] # NULL, envp_init'[j] # NULL
       PROVE  envp_init'[i].name # envp_init'[j].name
  <2>1. CASE i = k
    BY <1>2, <1>3, <1>8, <1>12, <2>1
  <2>2. CASE j = k
    BY <1>2, <1>3, <1>8, <1>12, <2>2
  <2>3. CASE i # k /\ j # k
    BY <1>2, <1>5, <1>12, <2>3
  <2>4. QED BY <2>1, <2>2, <2>3
<1>13. QED BY <1>7, <1>11, <1>12 DEF EnvpHas

LEMMA EnvpSame ==
  ASSUME UNCHANGED <<cmd, envp_init>>, NEW n, NEW m, EnvpHas(n), Assignments(m) = Assignments(n)
  PROVE  EnvpHas(m)'
<1>1. Assignments(m)' = Assignments(n)
  BY PlacesStay
<1>2. QED BY <1>1 DEF EnvpHas

-----------------------------------------------------------------------------
(* The words after the dashes *)

LEMMA TakenNone ==
  ASSUME NEW s \in Seq(Word), line' = s
  PROVE  Taken(s, <<>>)'
<1>1. <<>> \in Seq(Word) /\ Len(<<>>) = 0 /\ Len(s) \in Nat /\ 1 .. 0 = {}
  OBVIOUS
<1>2. \A i \in 1 .. Len(s) : 0 + i = i
  BY <1>1
<1>3. 0 <= Len(s) /\ Len(s) = Len(s) - 0
  BY <1>1
<1>4. QED BY <1>1, <1>2, <1>3 DEF Taken

LEMMA TakenNext ==
  ASSUME line \in Seq(Word), NEW s \in Seq(Word), NEW w, Taken(s, w), line # <<>>,
         NEW x, x = Head(line), x.kind # "dashes", line' = Tail(line)
  PROVE  x \in Word /\ Taken(s, Append(w, x))'
<1> DEFINE v == Append(w, x)
           rest == Tail(line)
           n == Len(w)
<1>1. /\ w \in Seq(Word) /\ n \in Nat /\ n <= Len(s) /\ Len(line) = Len(s) - n /\ Len(s) \in Nat
      /\ \A i \in 1 .. n : w[i] = s[i] /\ s[i].kind # "dashes"
      /\ \A i \in 1 .. Len(line) : line[i] = s[n + i]
  BY DEF Taken
<1>2. /\ x \in Word /\ x = line[1] /\ rest \in Seq(Word) /\ Len(line) >= 1
      /\ Len(rest) = Len(line) - 1 /\ \A i \in 1 .. Len(line) - 1 : rest[i] = line[i + 1]
  OBVIOUS
<1>3. v \in Seq(Word) /\ Len(v) = n + 1 /\ \A i \in 1 .. n + 1 : v[i] = IF i <= n THEN w[i] ELSE x
  BY <1>1, <1>2
<1>4. x = s[n + 1]
  BY <1>1, <1>2
<1> HIDE DEF v, rest, n
<1>5. \A i \in 1 .. n + 1 : v[i] = s[i] /\ s[i].kind # "dashes"
  <2>1. \A i \in 1 .. n + 1 : (i \in 1 .. n /\ i <= n) \/ (i = n + 1 /\ ~ (i <= n))
    BY <1>1
  <2>2. QED BY <1>1, <1>3, <1>4, <2>1
<1>6. \A i \in 1 .. Len(rest) : rest[i] = s[(n + 1) + i]
  <2>1. \A i \in 1 .. Len(line) - 1 : i + 1 \in 1 .. Len(line) /\ n + (i + 1) = (n + 1) + i
    BY <1>1, <1>2
  <2>2. QED BY <1>1, <1>2, <2>1
<1>7. n + 1 <= Len(s) /\ Len(rest) = Len(s) - (n + 1)
  BY <1>1, <1>2
<1>8. line' = rest
  BY DEF rest
<1>9. QED BY <1>2, <1>3, <1>5, <1>6, <1>7, <1>8 DEF Taken, v

LEMMA TakenAll ==
  ASSUME line \in Seq(Word), NEW s \in Seq(Word), NEW w, Taken(s, w), line = <<>> \/ AtDashes
  PROVE  w = UpToDashes(s)
<1> DEFINE n == Len(w)
           u == UpToDashes(s)
<1>1. /\ w \in Seq(Word) /\ n \in Nat /\ n <= Len(s) /\ Len(line) = Len(s) - n /\ Len(s) \in Nat
      /\ \A i \in 1 .. n : w[i] = s[i] /\ s[i].kind # "dashes"
      /\ \A i \in 1 .. Len(line) : line[i] = s[n + i]
  BY DEF Taken
<1>2. n = Len(s) \/ s[n + 1].kind = "dashes"
  <2>1. CASE line = <<>>
    <3>1. Len(line) = 0
      BY <2>1
    <3>2. QED BY <1>1, <3>1
  <2>2. CASE AtDashes
    <3>1. Len(line) >= 1 /\ Head(line) = line[1] /\ Head(line).kind = "dashes"
      BY <2>2 DEF AtDashes
    <3>2. QED BY <1>1, <3>1
  <2>3. QED BY <2>1, <2>2
<1>3. u \in Seq(Word) /\ Len(u) = n /\ \A i \in 1 .. n : u[i] = s[i]
  BY <1>1, <1>2, DashesAt
<1> HIDE DEF n, u
<1>4. Len(w) = n /\ \A i \in 1 .. n : w[i] = u[i]
  BY <1>1, <1>3 DEF n
<1>5. w = u
  <2>1. w = [i \in 1 .. n |-> w[i]] /\ u = [i \in 1 .. n |-> u[i]]
    BY <1>1, <1>3, <1>4
  <2>2. QED BY <1>4, <2>1
<1>6. QED BY <1>5 DEF u

-----------------------------------------------------------------------------
(* Each handler *)

LEMMA LastInNext ==
  ASSUME NEW l, NEW n \in Nat, LastIn(l, n)
  PROVE  /\ l \in Nat /\ l <= n
         /\ FullLine[n + 1].kind \notin {"init", "rdinit"} => LastIn(l, n + 1)
         /\ FullLine[n + 1].kind \in {"init", "rdinit"} => LastIn(n + 1, n + 1)
<1>1. \A j \in l + 1 .. n + 1 : j \in l + 1 .. n \/ j = n + 1
  BY DEF LastIn
<1>2. (n + 1) + 1 .. n + 1 = {} /\ n + 1 \in 0 .. n + 1 /\ \A j \in 0 .. n : j \in 0 .. n + 1
  OBVIOUS
<1>3. QED BY <1>1, <1>2 DEF LastIn

\* What is to be proved of a step.
LEMMA GivenNow ==
  ASSUME UNCHANGED cmd, NEW l, NEW n, NEW words \in Seq(Word), LastIn(l, n),
         IsFiniteSet(Variables(n)),
         Fits(l, n, words) => panic_later' = NULL /\ ArgvHas(l, n, words)' /\ EnvpHas(n)'
  PROVE  GivenTo(l, n, words)'
<1>1. /\ LastIn(l, n)' = LastIn(l, n) /\ Variables(n)' = Variables(n)
      /\ Fits(l, n, words)' = Fits(l, n, words)
  BY PlacesStay
<1>2. QED BY <1>1 DEF GivenTo, Given

LEMMA GivenStays ==
  ASSUME UNCHANGED <<cmd, argv_init, envp_init, panic_later>>, NEW l, NEW n, NEW words,
         GivenTo(l, n, words)
  PROVE  GivenTo(l, n, words)'
<1>1. /\ LastIn(l, n) /\ IsFiniteSet(Variables(n)) /\ words \in Seq(Word)
      /\ Fits(l, n, words) => panic_later = NULL /\ ArgvHas(l, n, words) /\ EnvpHas(n)
  BY DEF GivenTo, Given
<1>2. ArgvHas(l, n, words) => ArgvHas(l, n, words)'
  BY ArgvSame
<1>3. EnvpHas(n) => EnvpHas(n)'
  BY EnvpSame
<1>4. QED BY <1>1, <1>2, <1>3, GivenNow

LEMMA GivenArg ==
  ASSUME TypeOK, NEW l, NEW n \in Nat, GivenTo(l, n, <<>>), NextIs(n, {"arg"}), UnknownArg
  PROVE  GivenTo(l, n + 1, <<>>)'
<1>1. LastIn(l, n) /\ IsFiniteSet(Variables(n)) /\ Given(l, n, <<>>) /\ UNCHANGED <<cmd, envp_init>>
  BY DEF GivenTo, UnknownArg, NextWord
<1>2. l \in Nat /\ l <= n /\ LastIn(l, n + 1) /\ FullLine[n + 1].kind = "arg" /\ n + 1 \in Nat
  <2>1. FullLine[n + 1].kind = "arg"
    BY DEF NextIs
  <2>2. FullLine[n + 1].kind \notin {"init", "rdinit"}
    BY <2>1
  <2>3. l \in Nat /\ l <= n /\ LastIn(l, n + 1)
    BY <1>1, <2>2, LastInNext
  <2>4. QED BY <2>1, <2>3
<1>3. ASSUME Fits(l, n + 1, <<>>)
      PROVE  panic_later' = NULL /\ ArgvHas(l, n + 1, <<>>)' /\ EnvpHas(n + 1)'
  <2>1. Cardinality(ArgPlaces(l, n)) < MaxArgs /\ ArgvHas(l, n, <<>>) /\ EnvpHas(n)
    BY <1>1, <1>2, <1>3, FitsNext DEF Given
  <2>2. PICK k \in ArgSlot : /\ FreeArg(k) /\ argv_init' = [argv_init EXCEPT ![k] = FullLine[n + 1]]
                             /\ panic_later' = IF k > MaxArgs THEN "init" ELSE NULL
    BY DEF UnknownArg, NextIs
  <2>3. ArgvHas(l, n + 1, <<>>)' /\ k <= MaxArgs
    BY <1>1, <1>2, <2>1, <2>2, ArgvArg DEF NextIs
  <2>4. EnvpHas(n + 1)'
    BY <1>1, <1>2, <2>1, EnvpSame, VariablesNext
  <2>5. ~ (k > MaxArgs)
    BY <2>3, ArgsAssumption DEF ArgSlot
  <2>6. QED BY <2>2, <2>3, <2>4, <2>5
<1>4. QED BY <1>1, <1>2, <1>3, VariablesCount, NoWords, GivenNow

LEMMA GivenEnv ==
  ASSUME TypeOK, ArraysTerminated, NEW l, NEW n \in Nat, GivenTo(l, n, <<>>), NextIs(n, {"env"}),
         UnknownEnv
  PROVE  GivenTo(l, n + 1, <<>>)'
<1>1. LastIn(l, n) /\ IsFiniteSet(Variables(n)) /\ Given(l, n, <<>>) /\ UNCHANGED <<cmd, argv_init>>
      /\ panic_later = NULL
  BY DEF GivenTo, UnknownEnv, NextWord
<1>2. l \in Nat /\ l <= n /\ LastIn(l, n + 1) /\ FullLine[n + 1].kind = "env" /\ n + 1 \in Nat
  <2>1. FullLine[n + 1].kind = "env"
    BY DEF NextIs
  <2>2. FullLine[n + 1].kind \notin {"init", "rdinit"}
    BY <2>1
  <2>3. l \in Nat /\ l <= n /\ LastIn(l, n + 1)
    BY <1>1, <2>2, LastInNext
  <2>4. QED BY <2>1, <2>3
<1>3. ASSUME Fits(l, n + 1, <<>>)
      PROVE  panic_later' = NULL /\ ArgvHas(l, n + 1, <<>>)' /\ EnvpHas(n + 1)'
  <2>1. Fits(l, n, <<>>) /\ ArgvHas(l, n, <<>>) /\ EnvpHas(n)
    BY <1>1, <1>2, <1>3, FitsNext DEF Given
  <2>2. PICK k \in EnvSlot :
          /\ EnvFor(k, FullLine[n + 1].name) /\ envp_init' = [envp_init EXCEPT ![k] = FullLine[n + 1]]
          /\ panic_later' = IF k >= MaxEnvs /\ envp_init[MaxEnvs] # NULL THEN "env" ELSE NULL
    BY DEF UnknownEnv, NextIs
  <2>3. EnvpHas(n + 1)'
    BY <1>1, <1>2, <2>1, <2>2, EnvpEnv DEF NextIs
  <2>4. ArgvHas(l, n + 1, <<>>)'
    BY <1>1, <1>2, <2>1, ArgvSame, PlacesNext
  <2>5. ASSUME k >= MaxEnvs, envp_init[MaxEnvs] # NULL
        PROVE  FALSE
    <3>1. Cardinality(Variables(n)) <= MaxEnvs
      BY <2>1 DEF Fits
    <3>2. MaxEnvs \in EnvSlot /\ MaxEnvs \in Nat
      BY ArgsAssumption DEF EnvSlot
    <3>3. CASE k = MaxEnvs
      <4>1. \A j \in 0 .. MaxEnvs - 1 : envp_init[j] # NULL
        BY <2>2, <3>3 DEF EnvFor
      <4>2. QED BY <1>1, <2>1, <2>5, <3>1, <4>1, EnvpRoom
    <3>4. CASE k # MaxEnvs
      <4>1. \A j \in 0 .. MaxEnvs - 1 : j \in 0 .. k - 1
        BY <2>5, <3>2 DEF EnvSlot
      <4>2. \A j \in 0 .. MaxEnvs - 1 : envp_init[j] # NULL
        BY <2>2, <4>1 DEF EnvFor
      <4>3. QED BY <1>1, <2>1, <2>5, <3>1, <4>2, EnvpRoom
    <3>5. QED BY <3>3, <3>4
  <2>6. QED BY <2>2, <2>3, <2>4, <2>5
<1>4. QED BY <1>1, <1>2, <1>3, VariablesCount, NoWords, GivenNow

\* Words that change no array: those after a panic was planned do not fit.
LEMMA GivenSkip ==
  ASSUME TypeOK, NEW l, NEW n \in Nat, GivenTo(l, n, <<>>),
         NextIs(n, {"arg", "env", "bootconfig", "blacklist", "invalid"}),
         SkipWord \/ InitcallBlacklist
  PROVE  GivenTo(l, n + 1, <<>>)'
<1>1. LastIn(l, n) /\ IsFiniteSet(Variables(n)) /\ Given(l, n, <<>>)
      /\ UNCHANGED <<cmd, argv_init, envp_init, panic_later>>
  BY DEF GivenTo, SkipWord, InitcallBlacklist, NextWord
<1>2. l \in Nat /\ l <= n /\ LastIn(l, n + 1) /\ n + 1 \in Nat
  <2>1. FullLine[n + 1].kind \notin {"init", "rdinit"}
    BY DEF NextIs
  <2>2. l \in Nat /\ l <= n /\ LastIn(l, n + 1)
    BY <1>1, <2>1, LastInNext
  <2>3. QED BY <2>2
<1>3. ASSUME Fits(l, n + 1, <<>>)
      PROVE  panic_later' = NULL /\ ArgvHas(l, n + 1, <<>>)' /\ EnvpHas(n + 1)'
  <2>1. panic_later = NULL /\ ArgvHas(l, n, <<>>) /\ EnvpHas(n)
    BY <1>1, <1>2, <1>3, FitsNext DEF Given
  <2>2. FullLine[n + 1].kind \in {"bootconfig", "blacklist", "invalid"}
    BY <2>1 DEF SkipWord, InitcallBlacklist, NextWord, NextIs
  <2>3. ArgvHas(l, n + 1, <<>>)'
    BY <1>1, <1>2, <2>1, <2>2, ArgvSame, PlacesNext
  <2>4. EnvpHas(n + 1)'
    BY <1>1, <2>1, <2>2, EnvpSame, VariablesNext
  <2>5. QED BY <1>1, <2>1, <2>3, <2>4
<1>4. QED BY <1>1, <1>2, <1>3, VariablesCount, NoWords, GivenNow

LEMMA GivenInit ==
  ASSUME TypeOK, NEW l, NEW n \in Nat, GivenTo(l, n, <<>>), NextIs(n, {"init", "rdinit"}),
         InitSetup \/ RdinitSetup
  PROVE  GivenTo(n + 1, n + 1, <<>>)'
<1>1. LastIn(l, n) /\ IsFiniteSet(Variables(n)) /\ Given(l, n, <<>>)
      /\ UNCHANGED <<cmd, envp_init, panic_later>> /\ argv_init' = Cleared
  BY DEF GivenTo, InitSetup, RdinitSetup, NextWord
<1>2. l \in Nat /\ l <= n /\ LastIn(n + 1, n + 1) /\ FullLine[n + 1].kind \in {"init", "rdinit"}
  BY <1>1, LastInNext DEF NextIs
<1>3. ASSUME Fits(n + 1, n + 1, <<>>)
      PROVE  panic_later' = NULL /\ ArgvHas(n + 1, n + 1, <<>>)' /\ EnvpHas(n + 1)'
  <2>1. Cardinality(ArgPlaces(l, n)) < MaxArgs /\ panic_later = NULL
        /\ ArgvHas(l, n, <<>>) /\ EnvpHas(n)
    BY <1>1, <1>2, <1>3, FitsInit DEF Given
  <2>2. ArgvHas(n + 1, n + 1, <<>>)'
    BY <1>1, <1>2, <2>1, ArgvCleared
  <2>3. EnvpHas(n + 1)'
    BY <1>1, <1>2, <2>1, EnvpSame, VariablesNext
  <2>4. QED BY <1>1, <2>1, <2>2, <2>3
<1>4. QED BY <1>1, <1>2, <1>3, VariablesCount, NoWords, GivenNow

\* A word for init.
LEMMA GivenWord ==
  ASSUME TypeOK, NEW l, NEW n \in Nat, NEW words, GivenTo(l, n, words), SetInitArg,
         NEW x \in Word, x = Head(line)
  PROVE  GivenTo(l, n, Append(words, x))'
<1>1. LastIn(l, n) /\ IsFiniteSet(Variables(n)) /\ Given(l, n, words) /\ words \in Seq(Word)
      /\ UNCHANGED <<cmd, envp_init>>
  BY DEF GivenTo, SetInitArg, NextWord
<1>2. l \in Nat /\ Append(words, x) \in Seq(Word)
  <2>1. l \in Nat
    BY <1>1, LastInNext
  <2>2. Append(words, x) \in Seq(Word)
    BY <1>1
  <2>3. QED BY <2>1, <2>2
<1>3. ASSUME Fits(l, n, Append(words, x))
      PROVE  panic_later' = NULL /\ ArgvHas(l, n, Append(words, x))' /\ EnvpHas(n)'
  <2>1. /\ Cardinality(ArgPlaces(l, n)) + Len(words) < MaxArgs
        /\ panic_later = NULL /\ ArgvHas(l, n, words) /\ EnvpHas(n)
    BY <1>1, <1>2, <1>3, FitsWord DEF Given
  <2>2. PICK k \in ArgSlot :
          /\ FreeArg(k)
          /\ IF k > MaxArgs THEN panic_later' = "init" /\ UNCHANGED argv_init
             ELSE argv_init' = [argv_init EXCEPT ![k] = x] /\ UNCHANGED panic_later
    BY <2>1 DEF SetInitArg
  <2>3. k = Cardinality(ArgPlaces(l, n)) + Len(words) + 1
    BY <1>1, <1>2, <2>1, <2>2, FreeSlot
  <2>4. ~ (k > MaxArgs)
    <3>1. Cardinality(ArgPlaces(l, n)) \in Nat /\ Len(words) \in Nat /\ MaxArgs \in Nat
      BY <1>1, <1>2, PlacesCount, ArgsAssumption
    <3>2. QED BY <2>1, <2>3, <3>1
  <2>5. argv_init' = [argv_init EXCEPT ![k] = x] /\ panic_later' = NULL
    BY <2>1, <2>2, <2>4
  <2>6. ArgvHas(l, n, Append(words, x))'
    BY <1>1, <1>2, <2>1, <2>2, <2>5, ArgvWord
  <2>7. EnvpHas(n)'
    BY <1>1, <2>1, EnvpSame
  <2>8. QED BY <2>5, <2>6, <2>7
<1>4. QED BY <1>1, <1>2, <1>3, GivenNow

-----------------------------------------------------------------------------
(* Each parse_args *)

LEMMA SameSeq ==
  ASSUME NEW S, NEW s \in Seq(S), NEW u \in Seq(S), Len(s) = Len(u),
         \A i \in 1 .. Len(s) : s[i] = u[i]
  PROVE  s = u
<1>1. s = [i \in 1 .. Len(s) |-> s[i]] /\ u = [i \in 1 .. Len(s) |-> u[i]]
  OBVIOUS
<1>2. QED BY <1>1

LEMMA GetsInit == Init => Gets
<1> SUFFICES ASSUME Init PROVE Gets
  OBVIOUS
<1>1. /\ stage = "setup" /\ panic_later = NULL /\ ~ parse_error
      /\ argv_init = [k \in ArgSlot |-> NULL]
      /\ envp_init = [k \in EnvSlot |-> IF k = 0 THEN Variable(HomeName)
                                        ELSE IF k = 1 THEN Variable(TermName) ELSE NULL]
  BY DEF Init, ArgsInit
<1>2. 1 .. 0 = {} /\ 0 + 1 .. 0 = {} /\ 0 \in 0 .. 0
  OBVIOUS
<1>3. LastIn(0, 0)
  BY <1>2 DEF LastIn
<1>4. ArgPlaces(0, 0) = {} /\ EnvPlaces(0) = {}
  BY <1>2 DEF ArgPlaces, EnvPlaces
<1>5. Variables(0) = {HomeName, TermName}
      /\ Assignments(0) = {Variable(HomeName), Variable(TermName)}
  BY <1>4 DEF Variables, Assignments
<1>6. IsFiniteSet(Variables(0))
  <2>1. {HomeName, TermName} = {HomeName} \cup {TermName}
    OBVIOUS
  <2>2. IsFiniteSet({HomeName})
    BY FS_Singleton
  <2>3. IsFiniteSet({HomeName} \cup {TermName})
    BY <2>2, FS_AddElement
  <2>4. QED BY <1>5, <2>1, <2>3
<1>7. ArgvHas(0, 0, <<>>)
  <2>1. Cardinality({}) = 0 /\ \A k \in ArgSlot : k > 0 + 0
    BY FS_EmptySet, ArgsAssumption DEF ArgSlot
  <2>2. QED BY <1>1, <1>2, <1>4, <2>1, NoWords DEF ArgvHas
<1>8. EnvpHas(0)
  <2>1. 0 \in EnvSlot /\ 1 \in EnvSlot
    BY ArgsAssumption DEF EnvSlot
  <2>2. Variable(HomeName) # NULL /\ Variable(TermName) # NULL
    <3>1. Variable(HomeName) \in Word /\ Variable(TermName) \in Word
      BY ArgsAssumption DEF Variable, Word, Kind
    <3>2. QED BY <3>1, ArgsAssumption
  <2>3. Variable(HomeName).name # Variable(TermName).name
    BY ArgsAssumption DEF Variable
  <2>4. /\ envp_init[0] = Variable(HomeName) /\ envp_init[1] = Variable(TermName)
        /\ \A k \in EnvSlot : k # 0 /\ k # 1 => envp_init[k] = NULL
    BY <1>1, <2>1
  <2>5. {envp_init[k] : k \in EnvSlot} \ {NULL} = {Variable(HomeName), Variable(TermName)}
    <3> DEFINE vs == {Variable(HomeName), Variable(TermName)}
    <3>1. \A u : (\E k \in EnvSlot : u = envp_init[k]) /\ u # NULL <=> u \in vs
      BY <2>1, <2>2, <2>4
    <3>2. QED BY <3>1
  <2>6. \A j, k \in EnvSlot : j # k /\ envp_init[j] # NULL /\ envp_init[k] # NULL =>
           envp_init[j].name # envp_init[k].name
    BY <2>3, <2>4
  <2>7. QED BY <1>5, <2>5, <2>6 DEF EnvpHas
<1>9. Given(0, 0, <<>>)
  BY <1>1, <1>7, <1>8 DEF Given
<1>10. GivenTo(0, 0, <<>>)
  BY <1>3, <1>6, <1>9, NoWords DEF GivenTo
<1>11. QED BY <1>1, <1>10 DEF Gets

LEMMA AppendJoin ==
  ASSUME NEW s \in Seq(Word), NEW w \in Seq(Word), NEW x \in Word
  PROVE  Append(s \o w, x) = s \o Append(w, x) /\ s \o <<>> = s
OBVIOUS

LEMMA AfterType ==
  ASSUME NEW f \in Seq(Word), NEW n \in Nat, n <= Len(f)
  PROVE  /\ SubSeq(f, (n + 1) + 1, Len(f)) \in Seq(Word)
         /\ n < Len(f) => /\ Len(SubSeq(f, (n + 1) + 1, Len(f))) = Len(f) - (n + 1)
                          /\ \A i \in 1 .. Len(f) - (n + 1) :
                               SubSeq(f, (n + 1) + 1, Len(f))[i] = f[(n + 1) + i]
         /\ n = Len(f) => SubSeq(f, (n + 1) + 1, Len(f)) = <<>>
<1>1. Len(f) \in Nat
  OBVIOUS
<1>2. CASE n < Len(f)
  <2>1. (n + 1) + 1 \in 1 .. Len(f) + 1 /\ Len(f) \in 0 .. Len(f)
    BY <1>1, <1>2
  <2>2. \A i \in 1 .. Len(f) - (n + 1) : (i + ((n + 1) + 1)) - 1 = (n + 1) + i
    BY <1>1
  <2>3. QED BY <1>1, <1>2, <2>1, <2>2
<1>3. CASE n = Len(f)
  <2>1. ~ ((n + 1) + 1 <= Len(f))
    BY <1>1, <1>3
  <2>2. SubSeq(f, (n + 1) + 1, Len(f)) = <<>>
    BY <1>1, <2>1
  <2>3. QED BY <1>1, <1>3, <2>2
<1>4. QED BY <1>1, <1>2, <1>3

\* From the kernel's part of the line to what comes after it.
LEMMA ToAfter ==
  ASSUME TypeOK, NEW n \in Nat, ReadTo(n)
  PROVE  /\ AtDashes => AfterDashes = Tail(line) /\ AfterDashes \in Seq(Word)
         /\ line = <<>> => InitWords = <<>>
<1> DEFINE f == FullLine
<1>1. f \in Seq(Word) /\ line \in Seq(Word) /\ Len(f) \in Nat /\ n <= Len(f)
      /\ Len(line) = Len(f) - n
  BY FullLineType DEF TypeOK, ArgsTypeOK, ReadTo
<1> HIDE DEF f
<1>2. ASSUME AtDashes
      PROVE  AfterDashes = Tail(line) /\ AfterDashes \in Seq(Word)
  <2>1. line # <<>> /\ AfterDashes = SubSeq(f, (n + 1) + 1, Len(f))
    BY <1>2, LineEnds DEF AtDashes, AfterDashes, f
  <2>2. /\ n < Len(f) /\ Len(Tail(line)) = Len(f) - (n + 1) /\ Tail(line) \in Seq(Word)
        /\ \A i \in 1 .. Len(Tail(line)) : Tail(line)[i] = f[(n + 1) + i]
    <3>1. n + 1 <= Len(f) /\ Len(Tail(line)) = Len(f) - (n + 1)
          /\ \A i \in 1 .. Len(Tail(line)) : Tail(line)[i] = f[n + 1 + i]
      BY <2>1, ReadNext DEF f
    <3>2. Tail(line) \in Seq(Word)
      BY <1>1, <2>1, SeqSteps
    <3>3. QED BY <1>1, <3>1, <3>2
  <2>3. /\ AfterDashes \in Seq(Word) /\ Len(AfterDashes) = Len(f) - (n + 1)
        /\ \A i \in 1 .. Len(f) - (n + 1) : AfterDashes[i] = f[(n + 1) + i]
    BY <1>1, <2>1, <2>2, AfterType
  <2>4. QED BY <2>2, <2>3, SameSeq
<1>3. ASSUME line = <<>>
      PROVE  InitWords = <<>>
  <2>1. n = Len(f) /\ AfterDashes = SubSeq(f, (n + 1) + 1, Len(f))
    <3>1. AfterDashes = SubSeq(f, (n + 1) + 1, Len(f))
      BY <1>3, LineEnds DEF AfterDashes, f
    <3>2. Len(line) = 0
      BY <1>3
    <3>3. QED BY <1>1, <3>1, <3>2
  <2>2. AfterDashes = <<>>
    BY <1>1, <2>1, AfterType
  <2>3. InitWords = <<>> \/ InitWords = UpToDashes(<<>>)
    BY <2>2 DEF InitWords, AfterDashes
  <2>4. UpToDashes(<<>>) \in Seq(Word) /\ Len(UpToDashes(<<>>)) = 0
    <3>1. <<>> \in Seq(Word) /\ 0 \in Nat /\ 0 <= Len(<<>>) /\ 0 = Len(<<>>) /\ 1 .. 0 = {}
      BY NoWords
    <3>2. QED BY <3>1, DashesAt
  <2>5. UpToDashes(<<>>) = <<>>
    BY <2>4
  <2>6. QED BY <2>3, <2>5
<1>4. QED BY <1>2, <1>3

\* Every handler leaves init with what its word asks for.
LEMMA HandlerGets ==
  ASSUME TypeOK, ArraysTerminated, Gets, WordHandler
  PROVE  Gets'
<1>0. stage = "kernel"
  BY DEF WordHandler, UnknownArg, UnknownEnv, SkipWord, InitSetup, RdinitSetup,
         InitcallBlacklist, NextWord
<1>1. PICK l : \E n \in Nat : KernelPart(l, n)
  BY <1>0 DEF Gets
<1>2. PICK n \in Nat : KernelPart(l, n)
  BY <1>1
<1>3. ReadTo(n) /\ GivenTo(l, n, <<>>)
  BY <1>2 DEF KernelPart
<1>4. /\ ReadTo(n + 1)' /\ n + 1 \in Nat /\ NextIs(n, Kind)
      /\ UNCHANGED <<cmd, stage, extra_init_args>>
      /\ parse_error' <=> parse_error \/ FullLine[n + 1].kind = "invalid"
  BY <1>3, HandlerReads
<1>5. \E m : GivenTo(m, n + 1, <<>>)'
  <2>1. CASE UnknownArg
    <3>1. NextIs(n, {"arg"})
      BY <1>4, <2>1 DEF NextIs, UnknownArg, NextWord
    <3>2. QED BY <1>3, <2>1, <3>1, GivenArg
  <2>2. CASE UnknownEnv
    <3>1. NextIs(n, {"env"})
      BY <1>4, <2>2 DEF NextIs, UnknownEnv, NextWord
    <3>2. QED BY <1>3, <2>2, <3>1, GivenEnv
  <2>3. CASE SkipWord \/ InitcallBlacklist
    <3>1. NextIs(n, {"arg", "env", "bootconfig", "blacklist", "invalid"})
      BY <1>4, <2>3 DEF NextIs, SkipWord, InitcallBlacklist, NextWord
    <3>2. QED BY <1>3, <2>3, <3>1, GivenSkip
  <2>4. CASE InitSetup \/ RdinitSetup
    <3>1. NextIs(n, {"init", "rdinit"})
      BY <1>4, <2>4 DEF NextIs, InitSetup, RdinitSetup, NextWord
    <3>2. QED BY <1>3, <2>4, <3>1, GivenInit
  <2>5. QED BY <2>1, <2>2, <2>3, <2>4 DEF WordHandler
<1>6. PICK m : GivenTo(m, n + 1, <<>>)'
  BY <1>5
<1>11. parse_error' <=> RefusedIn(n + 1)'
  <2>1. 1 .. n + 1 = (1 .. n) \cup {n + 1}
    OBVIOUS
  <2>2. RefusedIn(n + 1) <=> RefusedIn(n) \/ FullLine[n + 1].kind = "invalid"
    BY <2>1 DEF RefusedIn
  <2>3. RefusedIn(n + 1)' <=> RefusedIn(n + 1)
    BY <1>4, PlacesStay
  <2>4. QED BY <1>2, <1>4, <2>2, <2>3 DEF KernelPart
<1>7. KernelPart(m, n + 1)'
  BY <1>4, <1>6, <1>11 DEF KernelPart
<1>8. \E j : \E i \in Nat : KernelPart(j, i)'
  BY <1>4, <1>7
<1>9. extra_init_args' = ExtraArgs'
  BY <1>0, <1>4, PlacesStay DEF Gets
<1>10. QED BY <1>0, <1>4, <1>8, <1>9 DEF Gets

LEMMA SetupGets ==
  ASSUME TypeOK, Reads, Gets, SetupCommandLine
  PROVE  Gets'
<1>1. /\ stage = "setup" /\ stage' = "kernel" /\ line' = FullLine /\ extra_init_args' = ExtraArgs
      /\ UNCHANGED <<cmd, parse_error, argv_init, envp_init, panic_later>>
  BY DEF SetupCommandLine
<1>2. GivenTo(0, 0, <<>>)'
  BY <1>1, GivenStays DEF Gets
<1>3. extra_init_args' = ExtraArgs'
  BY <1>1, PlacesStay
<1>4. \E l : \E n \in Nat : KernelPart(l, n)'
  <2>1. KernelPart(0, 0)'
    <3>1. ~ parse_error'
      BY <1>1 DEF Gets
    <3>2. 1 .. 0 = {}
      OBVIOUS
    <3>3. ~ RefusedIn(0)'
      BY <3>2 DEF RefusedIn
    <3>4. QED BY <1>2, <3>1, <3>3, SetupReads DEF KernelPart
  <2>2. QED BY <2>1
<1>5. QED BY <1>1, <1>3, <1>4 DEF Gets

LEMMA PlacesHere ==
  ASSUME UNCHANGED cmd
  PROVE  AfterDashes' = AfterDashes /\ InitWords' = InitWords /\ ExtraArgs' = ExtraArgs
         /\ ExtraWords' = ExtraWords /\ Refused' = Refused /\ \A n : Whole(n)' = Whole(n)
<1>1. FullLine' = FullLine
  BY AsksStay
<1>2. AfterDashes' = AfterDashes
  BY <1>1 DEF AfterDashes, Dashes
<1>3. \A n : Whole(n)' = Whole(n)
  BY <1>1, PlacesStay DEF Whole
<1>4. QED BY <1>2, <1>3, PlacesStay

LEMMA WordGets ==
  ASSUME TypeOK, Gets, SetInitArg
  PROVE  Gets'
<1>1. PICK x : x = Head(line)
  OBVIOUS
<1>2. /\ stage \in {"init", "extra"} /\ line # <<>> /\ line' = Tail(line) /\ x.kind # "dashes"
      /\ UNCHANGED <<cmd, stage, extra_init_args>> /\ line \in Seq(Word)
  BY <1>1 DEF SetInitArg, NextWord, TypeOK, ArgsTypeOK
<1>3. /\ AfterDashes' = AfterDashes /\ InitWords' = InitWords /\ ExtraArgs' = ExtraArgs
      /\ Refused' = Refused /\ \A n : Whole(n)' = Whole(n)
  BY <1>2, PlacesHere
<1>4. FullLine \in Seq(Word) /\ ExtraArgs \in Seq(Word)
  BY FullLineType
<1>5. CASE stage = "init"
  <2>1. PICK l, w, s : \E n \in Nat : InitPart(l, n, w, s)
    BY <1>5 DEF Gets
  <2>2. PICK n \in Nat : InitPart(l, n, w, s)
    BY <2>1
  <2>3. Whole(n) /\ ~ Refused /\ s = AfterDashes /\ s \in Seq(Word) /\ Taken(s, w)
        /\ GivenTo(l, n, w)
    BY <2>2 DEF InitPart
  <2>4. x \in Word /\ Taken(s, Append(w, x))'
    BY <1>1, <1>2, <2>3, TakenNext
  <2>5. GivenTo(l, n, Append(w, x))'
    BY <1>1, <2>3, <2>4, GivenWord
  <2>6. InitPart(l, n, Append(w, x), s)'
    BY <1>3, <2>3, <2>4, <2>5 DEF InitPart
  <2>7. \E i, j, k : \E m \in Nat : InitPart(i, m, j, k)'
    BY <2>6
  <2>8. extra_init_args' = ExtraArgs'
    BY <1>2, <1>3, <1>5 DEF Gets
  <2>9. QED BY <1>2, <1>5, <2>7, <2>8 DEF Gets
<1>6. CASE stage = "extra"
  <2>1. PICK l, w, s, words : \E n \in Nat : ExtraPart(l, n, w, s, words)
    BY <1>6 DEF Gets
  <2>2. PICK n \in Nat : ExtraPart(l, n, w, s, words)
    BY <2>1
  <2>3. /\ Whole(n) /\ s = ExtraArgs /\ Taken(s, w) /\ words = InitWords \o w
        /\ InitWords \in Seq(Word) /\ GivenTo(l, n, words)
    BY <2>2 DEF ExtraPart
  <2>4. x \in Word /\ Taken(s, Append(w, x))'
    BY <1>1, <1>2, <1>4, <2>3, TakenNext
  <2>5. GivenTo(l, n, Append(words, x))'
    BY <1>1, <2>3, <2>4, GivenWord
  <2>6. Append(words, x) = InitWords \o Append(w, x)
    <3>1. w \in Seq(Word)
      BY <2>3 DEF Taken
    <3>2. InitWords \in Seq(Word) /\ x \in Word
      BY <2>3, <2>4
    <3>3. Append(InitWords \o w, x) = InitWords \o Append(w, x)
      BY <3>1, <3>2, AppendJoin
    <3>4. QED BY <2>3, <3>3
  <2>7. ExtraPart(l, n, Append(w, x), s, Append(words, x))'
    BY <1>3, <2>3, <2>4, <2>5, <2>6 DEF ExtraPart
  <2>8. \E h, i, j, k : \E m \in Nat : ExtraPart(h, m, i, j, k)'
    BY <2>7
  <2>9. QED BY <1>2, <1>6, <2>8 DEF Gets
<1>7. QED BY <1>2, <1>5, <1>6

\* Of the whole line there is one last init=.
LEMMA LastOne ==
  ASSUME NEW l, NEW n \in Nat, Whole(n), LastIn(l, n)
  PROVE  l = LastInit
<1> DEFINE s == {k \in 1 .. n : KernelWords[k].kind \in {"init", "rdinit"}}
<1>1. LastInit = IF s = {} THEN 0 ELSE CHOOSE k \in s : \A j \in s : j <= k
  BY DEF LastInit, Whole
<1>2. \A k : k \in s <=> k \in 1 .. n /\ FullLine[k].kind \in {"init", "rdinit"}
  BY DEF Whole
<1>3. l \in 0 .. n /\ n \in Nat /\ (l # 0 => FullLine[l].kind \in {"init", "rdinit"})
      /\ \A j \in l + 1 .. n : FullLine[j].kind \notin {"init", "rdinit"}
  BY DEF LastIn
<1> HIDE DEF s
<1>4. \A j \in s : j <= l /\ j \in Nat
  <2>1. \A j \in 1 .. n : j \in l + 1 .. n \/ j <= l
    BY <1>3
  <2>2. QED BY <1>2, <1>3, <2>1
<1>5. CASE l = 0
  <2>1. s = {}
    BY <1>2, <1>3, <1>4, <1>5
  <2>2. QED BY <1>1, <1>5, <2>1
<1>6. CASE l # 0
  <2>1. l \in s
    BY <1>2, <1>3, <1>6
  <2>2. \A k \in s : (\A j \in s : j <= k) => k = l
    BY <1>3, <1>4, <2>1
  <2>3. (CHOOSE k \in s : \A j \in s : j <= k) = l
    BY <1>4, <2>1, <2>2
  <2>4. QED BY <1>1, <2>1, <2>3
<1>7. QED BY <1>5, <1>6

\* The end of each parse_args.
LEMMA EndGets ==
  ASSUME TypeOK, Gets, EndOfLine
  PROVE  Gets'
<1>1. /\ UNCHANGED <<cmd, extra_init_args, argv_init, envp_init, panic_later>> /\ line \in Seq(Word)
  BY DEF EndOfLine, TypeOK, ArgsTypeOK
<1>2. /\ AfterDashes' = AfterDashes /\ InitWords' = InitWords /\ ExtraArgs' = ExtraArgs
      /\ (\A n : Whole(n)' = Whole(n)) /\ ExtraWords' = ExtraWords /\ Refused' = Refused
  BY <1>1, PlacesHere
<1>3. FullLine \in Seq(Word) /\ ExtraArgs \in Seq(Word)
  BY FullLineType
<1>4. CASE stage = "kernel" /\ AtDashes /\ ~ parse_error
  <2>1. PICK l : \E n \in Nat : KernelPart(l, n)
    BY <1>4 DEF Gets
  <2>2. PICK n \in Nat : KernelPart(l, n)
    BY <2>1
  <2>3. ReadTo(n) /\ GivenTo(l, n, <<>>) /\ ~ RefusedIn(n)
    BY <1>4, <2>2 DEF KernelPart
  <2>4. stage' = "init" /\ line' = Tail(line)
    BY <1>4 DEF EndOfLine, AtDashes
  <2>13. Whole(n) /\ AfterDashes = Tail(line) /\ AfterDashes \in Seq(Word)
    BY <1>4, <2>3, LineEnds, ToAfter DEF Whole
  <2>5. Whole(n) /\ AfterDashes = Tail(line) /\ AfterDashes \in Seq(Word) /\ ~ Refused
    BY <2>3, <2>13, RefusedWhole
  <2>6. PICK s : s = AfterDashes
    OBVIOUS
  <2>7. Taken(s, <<>>)'
    BY <2>4, <2>5, <2>6, TakenNone
  <2>8. GivenTo(l, n, <<>>)'
    BY <1>1, <2>3, GivenStays
  <2>9. InitPart(l, n, <<>>, s)'
    BY <1>2, <2>5, <2>6, <2>7, <2>8 DEF InitPart
  <2>10. \E i, j, k : \E m \in Nat : InitPart(i, m, j, k)'
    BY <2>9
  <2>11. extra_init_args' = ExtraArgs'
    BY <1>1, <1>2, <1>4 DEF Gets
  <2>12. QED BY <2>4, <2>10, <2>11 DEF Gets
<1>5. ASSUME stage' = "extra", line' = extra_init_args, extra_init_args = ExtraArgs,
             NEW l, NEW n \in Nat, NEW w \in Seq(Word), Whole(n), w = InitWords,
             GivenTo(l, n, w)
      PROVE  Gets'
  <2>1. PICK s : s = ExtraArgs
    OBVIOUS
  <2>2. Taken(s, <<>>)'
    BY <1>3, <1>5, <2>1, TakenNone
  <2>3. GivenTo(l, n, w)'
    BY <1>1, <1>5, GivenStays
  <2>4. w = InitWords \o <<>>
    BY <1>5, NoWords, AppendJoin
  <2>5. ExtraPart(l, n, <<>>, s, w)'
    BY <1>2, <1>5, <2>1, <2>2, <2>3, <2>4 DEF ExtraPart
  <2>6. \E h, i, j, k : \E m \in Nat : ExtraPart(h, m, i, j, k)'
    BY <2>5
  <2>7. QED BY <1>5, <2>6 DEF Gets
<1>6. CASE stage = "kernel" /\ (line = <<>> \/ (AtDashes /\ parse_error))
  <2>1. PICK l : \E n \in Nat : KernelPart(l, n)
    BY <1>6 DEF Gets
  <2>2. PICK n \in Nat : KernelPart(l, n)
    BY <2>1
  <2>3. ReadTo(n) /\ GivenTo(l, n, <<>>) /\ (parse_error <=> RefusedIn(n))
    BY <2>2 DEF KernelPart
  <2>4. stage' = "extra" /\ line' = extra_init_args
    BY <1>6 DEF EndOfLine, AtDashes
  <2>8. Whole(n)
    BY <1>6, <2>3, LineEnds DEF Whole
  <2>9. AtDashes /\ parse_error => Refused
    BY <2>3, <2>8, RefusedWhole
  <2>5. Whole(n) /\ <<>> = InitWords
    BY <1>6, <2>3, <2>8, <2>9, ToAfter DEF InitWords
  <2>6. extra_init_args = ExtraArgs
    BY <1>6 DEF Gets
  <2>7. QED BY <1>5, <2>3, <2>4, <2>5, <2>6, NoWords
<1>7. CASE stage = "init" /\ (line = <<>> \/ AtDashes)
  <2>1. PICK l, w, s : \E n \in Nat : InitPart(l, n, w, s)
    BY <1>7 DEF Gets
  <2>2. PICK n \in Nat : InitPart(l, n, w, s)
    BY <2>1
  <2>3. Whole(n) /\ ~ Refused /\ s = AfterDashes /\ s \in Seq(Word) /\ Taken(s, w)
        /\ GivenTo(l, n, w)
    BY <2>2 DEF InitPart
  <2>4. stage' = "extra" /\ line' = extra_init_args /\ extra_init_args = ExtraArgs
    BY <1>7 DEF EndOfLine, Gets
  <2>5. w = InitWords /\ w \in Seq(Word)
    <3>1. w = UpToDashes(s)
      BY <1>1, <1>7, <2>3, TakenAll
    <3>2. QED BY <2>3, <3>1 DEF InitWords, AfterDashes, Taken
  <2>6. QED BY <1>5, <2>3, <2>4, <2>5
<1>8. CASE stage = "extra" /\ (line = <<>> \/ AtDashes)
  <2>1. PICK l, w, s, words : \E n \in Nat : ExtraPart(l, n, w, s, words)
    BY <1>8 DEF Gets
  <2>2. PICK n \in Nat : ExtraPart(l, n, w, s, words)
    BY <2>1
  <2>3. /\ Whole(n) /\ s = ExtraArgs /\ Taken(s, w) /\ words = InitWords \o w
        /\ GivenTo(l, n, words)
    BY <2>2 DEF ExtraPart
  <2>4. stage' = "done"
    BY <1>8 DEF EndOfLine
  <2>5. w = ExtraWords
    <3>1. w = UpToDashes(s)
      BY <1>1, <1>3, <1>8, <2>3, TakenAll
    <3>2. QED BY <2>3, <3>1 DEF ExtraWords
  <2>6. GivenTo(l, n, words)'
    BY <1>1, <2>3, GivenStays
  <2>7. WholeLine(l, n, words)'
    BY <1>2, <2>3, <2>5, <2>6 DEF WholeLine
  <2>8. \E i, j : \E m \in Nat : WholeLine(i, m, j)'
    BY <2>7
  <2>9. QED BY <2>4, <2>8 DEF Gets
<1>9. QED BY <1>4, <1>6, <1>7, <1>8 DEF EndOfLine

\* Nothing else changes the line or the arrays.
LEMMA OtherGets ==
  ASSUME TypeOK, Order, Reads, Gets, [Next]_vars, ~ ParseCommandLine
  PROVE  Gets'
<1>1. UNCHANGED <<cmd, stage, line, parse_error, extra_init_args, argv_init, envp_init, panic_later>>
  BY DEF Next, BootStep, InitStep, ConsoleInit, SpawnInit, SpawnKthreadd, FindKthreadd,
         SetScheduling, CompleteKthreadd, WaitKthreadd, WorkqueueInit, WorkersReady,
         CallInitcall, NextLevel, WaitInitramfs, CheckRamdiskInit, Synchronize, FreeInitmem,
         SetRunning, ExecRamdisk, ExecCommand, ExecFallback, RunInitProcess, MakeThread,
         RunJob, vars, argsVars
<1>2. stage = "done" \/ UNCHANGED vars
  BY DEF Reads, Order, Handover, Next, BootStep, InitStep, ConsoleInit, SpawnInit, SpawnKthreadd,
         FindKthreadd, SetScheduling, CompleteKthreadd, BootAt, WaitKthreadd, WorkqueueInit,
         WorkersReady, CallInitcall, NextLevel, WaitInitramfs, CheckRamdiskInit, Synchronize,
         FreeInitmem, SetRunning, ExecRamdisk, ExecCommand, ExecFallback, InitAt, MakeThread, RunJob
<1>3. CASE stage = "done"
  <2>1. PICK l, words : \E n \in Nat : WholeLine(l, n, words)
    BY <1>3 DEF Gets
  <2>2. PICK n \in Nat : WholeLine(l, n, words)
    BY <2>1
  <2>3. Whole(n) /\ words = InitWords \o ExtraWords /\ GivenTo(l, n, words)
    BY <2>2 DEF WholeLine
  <2>4. GivenTo(l, n, words)'
    BY <1>1, <2>3, GivenStays
  <2>5. WholeLine(l, n, words)'
    BY <1>1, <2>3, <2>4, PlacesHere DEF WholeLine
  <2>6. \E i, j : \E m \in Nat : WholeLine(i, m, j)'
    BY <2>5
  <2>7. QED BY <1>1, <1>3, <2>6 DEF Gets
<1>4. CASE UNCHANGED vars /\ stage # "done"
  <2>1. UNCHANGED <<execute_command, ramdisk_execute_command>>
    BY <1>4 DEF vars, argsVars, optVars
  <2>2. FullLine' = FullLine
    BY <1>1, AsksStay
  <2>3. /\ AfterDashes' = AfterDashes /\ InitWords' = InitWords /\ ExtraArgs' = ExtraArgs
        /\ (\A n : Whole(n)' = Whole(n)) /\ ExtraWords' = ExtraWords /\ Refused' = Refused
        /\ \A n : RefusedIn(n)' = RefusedIn(n)
    BY <1>1, PlacesHere, PlacesStay
  <2>4. \A s, w : Taken(s, w)' = Taken(s, w)
    BY <1>1 DEF Taken
  <2>5. \A n : ReadTo(n)' = ReadTo(n)
    BY <1>1, <2>1, <2>2 DEF ReadTo, LastAsked
  <2>6. \A l, n, words : GivenTo(l, n, words) => GivenTo(l, n, words)'
    BY <1>1, GivenStays
  <2>7. /\ \A l, n : KernelPart(l, n) => KernelPart(l, n)'
        /\ \A l, n, w, s : InitPart(l, n, w, s) => InitPart(l, n, w, s)'
        /\ \A l, n, w, s, words : ExtraPart(l, n, w, s, words) => ExtraPart(l, n, w, s, words)'
    BY <1>1, <2>3, <2>4, <2>5, <2>6 DEF KernelPart, InitPart, ExtraPart
  <2>8. GivenTo(0, 0, <<>>) => GivenTo(0, 0, <<>>)'
    BY <2>6
  <2>9. QED BY <1>1, <1>4, <2>3, <2>7, <2>8 DEF Gets
<1>5. QED BY <1>2, <1>3, <1>4

Arguments == TypeOK /\ Order /\ Reads /\ ArraysTerminated /\ Gets

LEMMA GetsKept == Arguments /\ [Next]_vars => Gets'
<1> SUFFICES ASSUME Arguments, [Next]_vars PROVE Gets'
  OBVIOUS
<1>1. TypeOK /\ Order /\ Reads /\ ArraysTerminated /\ Gets
  BY DEF Arguments
<1>2. CASE ParseCommandLine
  BY <1>1, <1>2, SetupGets, HandlerGets, WordGets, EndGets
  DEF ParseCommandLine, ArgsStep, WordHandler
<1>3. QED BY <1>1, <1>2, OtherGets

\* Within the limits the first program gets, in order, exactly the arguments
\* that parse_args hands to init, and every variable with its last value,
\* whatever the command line and the boot configuration (main.c:504, 529, 577):
\* without the words after the dashes when a parameter refused its value
\* (main.c:919), and without those after a second one.
THEOREM BootGivesArguments == Spec => []InitGetsItsArguments
<1>1. Gets => InitGetsItsArguments
  <2> SUFFICES ASSUME Gets, stage = "done"
               PROVE  Given(LastInit, Len(KernelWords), InitWords \o ExtraWords)
    BY DEF InitGetsItsArguments
  <2>1. PICK l, words : \E n \in Nat : WholeLine(l, n, words)
    BY DEF Gets
  <2>2. PICK n \in Nat : WholeLine(l, n, words)
    BY <2>1
  <2>3. Whole(n) /\ words = InitWords \o ExtraWords /\ LastIn(l, n) /\ Given(l, n, words)
    BY <2>2 DEF WholeLine, GivenTo
  <2>4. l = LastInit /\ n = Len(KernelWords)
    BY <2>3, LastOne DEF Whole
  <2>5. QED BY <2>3, <2>4
<1>2. Spec => [](TypeOK /\ Order /\ Reads /\ ArraysTerminated)
  <2>1. TypeOK /\ Order /\ Reads /\ [Next]_vars => Reads'
    BY StepReads, OtherReads
  <2>2. QED BY <2>1, ReadsInit, Ordered, BootArraysTerminated, PTL DEF Spec
<1>3. (TypeOK /\ Order /\ Reads /\ ArraysTerminated) /\ Gets /\ [Next]_vars => Gets'
  BY GetsKept DEF Arguments
<1>4. QED BY <1>1, <1>2, <1>3, GetsInit, PTL DEF Spec
=============================================================================
