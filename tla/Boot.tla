--------------------------------- MODULE Boot ---------------------------------
(***************************************************************************)
(* The boot of the kernel from start_kernel to the first program           *)
(* (init/main.c): the boot thread reads the command line and starts the    *)
(* threads kernel_init and kthreadd; kernel_init makes the initcalls, some *)
(* of which leave work to asynchronous jobs (the unpacking of the          *)
(* initramfs is one), frees the memory of the init code and looks for a    *)
(* program to run.                                                         *)
(*                                                                         *)
(* The threads run in any order.  What start_kernel and                    *)
(* kernel_init_freeable do to one subsystem after the other is outside     *)
(* this file and shown only where another thread depends on it.  kthreadd, *)
(* the jobs and the files are modelled as main.c uses them.                *)
(***************************************************************************)
EXTENDS BootArgs

CONSTANTS
  Levels,    \* the initcalls of each level, in order; the first level is "early"
  Async,     \* the initcalls that schedule a job
  Unpack,    \* the initcall whose job unpacks the initramfs
  Fallback,  \* the programs tried last: /sbin/init, /etc/init, ...
  Machines   \* what may be in the file systems

Machine == [ramfs : SUBSET Name, root : SUBSET Name, broken : SUBSET Name]

ASSUME BootAssumption ==
  /\ Levels \in Seq(Seq(Name)) /\ Levels # <<>>
  /\ Async \subseteq Name /\ Unpack \in Async
  /\ \E l \in 1 .. Len(Levels) : \E k \in 1 .. Len(Levels[l]) : Levels[l][k] = Unpack
  /\ Fallback \in Seq(Name)
  /\ Machines \subseteq Machine

VARIABLES
  machine,        \* the programs in the initramfs and in the root file system,
                  \* and those that exec refuses
  boot,           \* where the boot thread is
  init,           \* where kernel_init is
  kthreadd,       \* kthreadd runs
  kthreadd_task,  \* the pointer by which the others know it
  kthreadd_done,  \* the completion
  request,        \* the kernel thread asked of kthreadd: the workers
  level, call,    \* the next initcall
  job,            \* the asynchronous jobs
  system_state,
  initmem,        \* the memory of the __init code and data is there
  mounted,        \* prepare_namespace has mounted the root file system
  pid1,           \* the program that runs as process 1
  panicked        \* panic() was called: everything stops

bootVars == <<boot, kthreadd, kthreadd_task>>
memVars == <<system_state, initmem>>
execVars == <<mounted, pid1, panicked>>
callVars == <<level, call, job>>
threadVars == <<machine, bootVars, init, kthreadd_done, request, callVars, memVars, execVars>>
vars == <<argsVars, threadVars>>

-----------------------------------------------------------------------------
(* The boot thread: start_kernel and rest_init *)

BootAt(l, m) == ~panicked /\ boot = l /\ boot' = m

\* The command line is read step by step, up to console_init; a step that
\* allocates memory may panic.
ParseCommandLine ==
  /\ ~panicked /\ boot = "args"
  /\ ArgsStep
  /\ boot' = IF stage' = "done" THEN "console" ELSE "args"
  /\ panicked' \in IF Allocates THEN BOOLEAN ELSE {FALSE}
  /\ UNCHANGED <<machine, init, kthreadd, kthreadd_task, kthreadd_done, request, callVars,
                 memVars, mounted, pid1>>

\* console_init, then the panic that was put off until it can be seen.
ConsoleInit ==
  /\ BootAt("console", "spawn_init")
  /\ panicked' = (panic_later # NULL)
  /\ UNCHANGED <<argsVars, machine, init, kthreadd, kthreadd_task, kthreadd_done, request,
                 callVars, memVars, mounted, pid1>>

\* user_mode_thread(kernel_init).
SpawnInit ==
  /\ BootAt("spawn_init", "spawn_kthreadd")
  /\ init' = "wait"
  /\ UNCHANGED <<argsVars, machine, kthreadd, kthreadd_task, kthreadd_done, request, callVars,
                 memVars, execVars>>

\* kernel_thread(kthreadd).
SpawnKthreadd ==
  /\ BootAt("spawn_kthreadd", "find_kthreadd")
  /\ kthreadd' = TRUE
  /\ UNCHANGED <<argsVars, machine, init, kthreadd_task, kthreadd_done, request, callVars,
                 memVars, execVars>>

\* The completion is signalled before system_state is set.
FindKthreaddCompletes ==
  /\ BootAt("find_kthreadd", "scheduling")
  /\ kthreadd_task' = TRUE
  /\ kthreadd_done' = TRUE
  /\ UNCHANGED <<argsVars, machine, init, kthreadd, request, callVars, memVars, execVars>>

\* find_task_by_pid_ns.
FindKthreadd ==
  /\ BootAt("find_kthreadd", "scheduling")
  /\ kthreadd_task' = TRUE
  /\ UNCHANGED <<argsVars, machine, init, kthreadd, kthreadd_done, request, callVars, memVars,
                 execVars>>

SetScheduling ==
  /\ BootAt("scheduling", "complete")
  /\ system_state' = "SCHEDULING"
  /\ UNCHANGED <<argsVars, machine, init, kthreadd, kthreadd_task, kthreadd_done, request,
                 callVars, initmem, execVars>>

\* The boot thread becomes idle and nobody is told.
CompleteForgotten ==
  /\ BootAt("complete", "idle")
  /\ UNCHANGED <<argsVars, machine, init, kthreadd, kthreadd_task, kthreadd_done, request,
                 callVars, memVars, execVars>>

\* complete(&kthreadd_done); then the thread is the idle task.
CompleteKthreadd ==
  /\ BootAt("complete", "idle")
  /\ kthreadd_done' = TRUE
  /\ UNCHANGED <<argsVars, machine, init, kthreadd, kthreadd_task, request, callVars, memVars,
                 execVars>>

BootStep ==
  \/ ParseCommandLine \/ ConsoleInit \/ SpawnInit \/ SpawnKthreadd \/ FindKthreadd
  \/ SetScheduling \/ CompleteKthreadd

-----------------------------------------------------------------------------
(* kthreadd and the jobs *)

\* kthreadd creates the thread it was asked for.
MakeThread ==
  /\ ~panicked /\ kthreadd /\ request = "posted"
  /\ request' = "made"
  /\ UNCHANGED <<argsVars, machine, bootVars, init, kthreadd_done, callVars, memVars, execVars>>

\* A worker takes a job, and is done with it.
RunJob(j) ==
  /\ ~panicked /\ request = "made"
  /\ \/ job[j] = "queued" /\ job' = [job EXCEPT ![j] = "running"]
     \/ job[j] = "running" /\ job' = [job EXCEPT ![j] = "done"]
  /\ UNCHANGED <<argsVars, machine, bootVars, init, kthreadd_done, request, level, call,
                 memVars, execVars>>

-----------------------------------------------------------------------------
(* kernel_init *)

InitAt(l, m) == ~panicked /\ init = l /\ init' = m

\* kernel_init does not wait.
WaitKthreaddNot ==
  /\ InitAt("wait", "workqueue")
  /\ UNCHANGED <<argsVars, machine, bootVars, kthreadd_done, request, callVars, memVars, execVars>>

\* wait_for_completion(&kthreadd_done).
WaitKthreadd ==
  /\ InitAt("wait", "workqueue")
  /\ kthreadd_done
  /\ UNCHANGED <<argsVars, machine, bootVars, kthreadd_done, request, callVars, memVars, execVars>>

\* workqueue_init asks kthreadd for the first workers ...
WorkqueueInit ==
  /\ InitAt("workqueue", "workers")
  /\ request' = "posted"
  /\ UNCHANGED <<argsVars, machine, bootVars, kthreadd_done, callVars, memVars, execVars>>

\* ... and waits for them.
WorkersReady ==
  /\ InitAt("workers", "initcalls")
  /\ request = "made"
  /\ UNCHANGED <<argsVars, machine, bootVars, kthreadd_done, request, callVars, memVars, execVars>>

\* initcall_blacklisted.
Blacklisted(f) == f \in blacklisted_initcalls

\* do_pre_smp_initcalls and do_initcalls: do_one_initcall of the next one,
\* unless it is blacklisted.  Its result is ignored.  The job of an
\* asynchronous initcall is queued, or done at once when it cannot be.
CallInitcall ==
  LET f == Levels[level][call] IN
  /\ ~panicked /\ init = "initcalls"
  /\ level <= Len(Levels) /\ call <= Len(Levels[level])
  /\ IF f \in Async /\ ~Blacklisted(f)
     THEN \E s \in {"queued", "done"} : job' = [job EXCEPT ![f] = s]
     ELSE UNCHANGED job
  /\ call' = call + 1
  /\ UNCHANGED <<argsVars, machine, bootVars, init, kthreadd_done, request, level, memVars,
                 execVars>>

\* The next level; after "early" do_initcalls allocates its copy of the
\* command line, or panics.
NextLevel ==
  /\ ~panicked /\ init = "initcalls"
  /\ level <= Len(Levels) /\ call > Len(Levels[level])
  /\ level' = level + 1 /\ call' = 1
  /\ init' = IF level = Len(Levels) THEN "initramfs" ELSE "initcalls"
  /\ panicked' \in IF level = 1 THEN BOOLEAN ELSE {FALSE}
  /\ UNCHANGED <<argsVars, machine, bootVars, kthreadd_done, request, job, memVars, mounted,
                 pid1>>

\* The initramfs is looked at while it may still be unpacked.
WaitInitramfsNot ==
  /\ InitAt("initramfs", "access")
  /\ UNCHANGED <<argsVars, machine, bootVars, kthreadd_done, request, callVars, memVars, execVars>>

\* wait_for_initramfs, which returns at once when no job was scheduled.
WaitInitramfs ==
  /\ InitAt("initramfs", "access")
  /\ job[Unpack] \in {"none", "done"}
  /\ UNCHANGED <<argsVars, machine, bootVars, kthreadd_done, request, callVars, memVars, execVars>>

\* The programs there are, and those that exec accepts.
Present ==
  IF mounted THEN machine.root ELSE IF job[Unpack] = "done" THEN machine.ramfs ELSE {}
Runnable == Present \ machine.broken

\* init_eaccess of the early program; without it prepare_namespace mounts the
\* root file system, or panics.
CheckRamdiskInit ==
  /\ InitAt("access", "sync")
  /\ IF ramdisk_execute_command \in Present
     THEN UNCHANGED <<ramdisk_execute_command, mounted, panicked>>
     ELSE /\ ramdisk_execute_command' = NULL
          /\ \/ mounted' = TRUE /\ UNCHANGED panicked
             \/ panicked' = TRUE /\ UNCHANGED mounted
  /\ UNCHANGED <<cmd, stage, line, parse_error, extra_init_args, argv_init, envp_init,
                 panic_later, execute_command, blacklisted_initcalls, machine, bootVars, kthreadd_done,
                 request, callVars, memVars, pid1>>

\* The jobs that still run are not waited for.
SynchronizeNot ==
  /\ InitAt("sync", "free")
  /\ system_state' = "FREEING_INITMEM"
  /\ UNCHANGED <<argsVars, machine, bootVars, kthreadd_done, request, callVars, initmem, execVars>>

\* async_synchronize_full, and the state after it.
Synchronize ==
  /\ InitAt("sync", "free")
  /\ \A j \in Async : job[j] \notin {"queued", "running"}
  /\ system_state' = "FREEING_INITMEM"
  /\ UNCHANGED <<argsVars, machine, bootVars, kthreadd_done, request, callVars, initmem, execVars>>

\* free_initmem.
FreeInitmem ==
  /\ InitAt("free", "running")
  /\ initmem' = FALSE
  /\ UNCHANGED <<argsVars, machine, bootVars, kthreadd_done, request, callVars, system_state,
                 execVars>>

\* mark_readonly, pti_finalize, the state, do_sysctl_args.
SetRunning ==
  /\ InitAt("running", "exec_ramdisk")
  /\ system_state' = "RUNNING"
  /\ UNCHANGED <<argsVars, machine, bootVars, kthreadd_done, request, callVars, initmem, execVars>>

\* run_init_process(p): process 1 runs p, or kernel_init goes on at l.
RunInitProcess(p, l) ==
  /\ IF p \in Runnable THEN init' = "user" /\ pid1' = p
                       ELSE init' = l /\ UNCHANGED pid1
  /\ UNCHANGED <<argsVars, machine, bootVars, kthreadd_done, request, callVars, memVars, mounted>>

\* The program of the initramfs.
ExecRamdisk ==
  /\ ~panicked /\ init = "exec_ramdisk"
  /\ UNCHANGED panicked
  /\ IF ramdisk_execute_command # NULL
     THEN RunInitProcess(ramdisk_execute_command, "exec_command")
     ELSE /\ init' = "exec_command"
          /\ UNCHANGED <<argsVars, machine, bootVars, kthreadd_done, request, callVars,
                         memVars, mounted, pid1>>

\* When the program of init= fails, the others are tried.
ExecCommandGoesOn ==
  /\ ~panicked /\ init = "exec_command"
  /\ UNCHANGED panicked
  /\ IF execute_command # NULL
     THEN RunInitProcess(execute_command, "exec_fallback")
     ELSE /\ init' = "exec_fallback"
          /\ UNCHANGED <<argsVars, machine, bootVars, kthreadd_done, request, callVars,
                         memVars, mounted, pid1>>

\* The program of init=, which must run.  (CONFIG_DEFAULT_INIT is empty.)
ExecCommand ==
  /\ ~panicked /\ init = "exec_command"
  /\ IF execute_command # NULL
     THEN /\ RunInitProcess(execute_command, "exec_command")
          /\ panicked' = (execute_command \notin Runnable)
     ELSE /\ init' = "exec_fallback"
          /\ UNCHANGED <<argsVars, machine, bootVars, kthreadd_done, request, callVars,
                         memVars, mounted, pid1, panicked>>

\* The first of the last four that runs.
ExecFallback ==
  /\ ~panicked /\ init = "exec_fallback"
  /\ \/ \E k \in 1 .. Len(Fallback) :
          /\ Fallback[k] \in Runnable /\ \A j \in 1 .. k - 1 : Fallback[j] \notin Runnable
          /\ RunInitProcess(Fallback[k], "exec_fallback")
          /\ UNCHANGED panicked
     \/ /\ \A k \in 1 .. Len(Fallback) : Fallback[k] \notin Runnable
        /\ panicked' = TRUE
        /\ UNCHANGED <<argsVars, machine, bootVars, init, kthreadd_done, request, callVars,
                       memVars, mounted, pid1>>

InitStep ==
  \/ WaitKthreadd \/ WorkqueueInit \/ WorkersReady \/ CallInitcall \/ NextLevel
  \/ WaitInitramfs \/ CheckRamdiskInit \/ Synchronize \/ FreeInitmem \/ SetRunning
  \/ ExecRamdisk \/ ExecCommand \/ ExecFallback

-----------------------------------------------------------------------------
Init ==
  /\ ArgsInit
  /\ machine \in Machines
  /\ boot = "args"
  /\ init = "none"
  /\ kthreadd = FALSE
  /\ kthreadd_task = FALSE
  /\ kthreadd_done = FALSE
  /\ request = "none"
  /\ level = 1
  /\ call = 1
  /\ job = [j \in Async |-> "none"]
  /\ system_state = "BOOTING"
  /\ initmem = TRUE
  /\ mounted = FALSE
  /\ pid1 = NULL
  /\ panicked = FALSE

Next == BootStep \/ InitStep \/ MakeThread \/ \E j \in Async : RunJob(j)

Spec == Init /\ [][Next]_vars

\* Every thread that can run does so in the end.
FairSpec ==
  /\ Spec
  /\ WF_vars(BootStep) /\ WF_vars(InitStep) /\ WF_vars(MakeThread)
  /\ \A j \in Async : WF_vars(RunJob(j))

-----------------------------------------------------------------------------
(* Properties *)

State == {"BOOTING", "SCHEDULING", "FREEING_INITMEM", "RUNNING"}
Rank == [BOOTING |-> 1, SCHEDULING |-> 2, FREEING_INITMEM |-> 3, RUNNING |-> 4]

\* kernel_init while it is in kernel_init_freeable, which is __init code.
Freeable == {"workqueue", "workers", "initcalls", "initramfs", "access"}

\* Every variable has its type.
TypeOK ==
  /\ ArgsTypeOK
  /\ machine \in Machines
  /\ boot \in {"args", "console", "spawn_init", "spawn_kthreadd", "find_kthreadd",
               "scheduling", "complete", "idle"}
  /\ init \in Freeable \cup {"none", "wait", "sync", "free", "running", "exec_ramdisk",
                             "exec_command", "exec_fallback", "user"}
  /\ kthreadd \in BOOLEAN /\ kthreadd_task \in BOOLEAN /\ kthreadd_done \in BOOLEAN
  /\ request \in {"none", "posted", "made"}
  /\ level \in Nat /\ call \in Nat
  /\ job \in [Async -> {"none", "queued", "running", "done"}]
  /\ system_state \in State
  /\ initmem \in BOOLEAN /\ mounted \in BOOLEAN /\ panicked \in BOOLEAN
  /\ pid1 \in Name \cup {NULL}

\* When the memory of the init code is freed (main.c:1455), no thread is in
\* that code or uses that data, and none will be: the boot thread has left
\* start_kernel and is done with kthreadd_done (main.c:684), kernel_init has
\* left kernel_init_freeable, and no asynchronous job is left.
NoInitCodeAfterFree ==
  ~initmem =>
    /\ boot = "idle"
    /\ init \notin Freeable \cup {"none", "wait"}
    /\ \A j \in Async : job[j] \notin {"queued", "running"}

\* kernel_init asks for a kernel thread only when rest_init has set
\* kthreadd_task (main.c:712); "if we schedule it before we create kthreadd"
\* it oopses (main.c:695).
KthreaddKnown == request # "none" => kthreadd /\ kthreadd_task

\* system_state, which two threads write (main.c:722, 1450, 1464), never goes
\* back.
StateAdvances == [][Rank[system_state'] >= Rank[system_state]]_system_state

\* The programs that the command line asks for: the last rdinit= or "/init",
\* and the last init=.
Asked(kind, default) ==
  LET s == {k \in 1 .. Len(KernelWords) : KernelWords[k].kind = kind}
  IN  IF s = {} THEN default ELSE KernelWords[CHOOSE k \in s : \A j \in s : j <= k].name

Early == Asked("rdinit", RamdiskInit)
Requested == Asked("init", NULL)

\* The file system from which process 1 runs: the initramfs, as it is when
\* completely unpacked, if it has the early program.
Initramfs == IF Blacklisted(Unpack) THEN {} ELSE machine.ramfs
RootFs == IF Early \in Initramfs THEN Initramfs ELSE machine.root

\* The program that runs as process 1 is the one that was asked for (main.c:
\* 1560-1573, 1471-1506): the early one of the unpacked initramfs if it runs,
\* else that of init= and no other, else the first of the last four that
\* runs.
RunsWhatWasAsked ==
  pid1 # NULL =>
    LET runs(p) == p \in RootFs \ machine.broken IN
    /\ runs(pid1)
    /\ IF Early \in Initramfs /\ runs(Early) THEN pid1 = Early
       ELSE IF Requested # NULL THEN pid1 = Requested
       ELSE \E k \in 1 .. Len(Fallback) :
              pid1 = Fallback[k] /\ \A j \in 1 .. k - 1 : ~runs(Fallback[j])

\* The boot ends with a program that runs, or with a panic.
BootEnds == <>(pid1 # NULL \/ panicked)

=============================================================================
