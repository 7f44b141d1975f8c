# Verification of the USAC Linux system calls and their monitor

The repository is Linux 6.6.45 with ten system calls added, a REST API that
calls five of them and a web dashboard that polls the API. Most of the kernel
is not in the repository: what is there is the code of the added calls, the
tables and headers that declare them, `init/main.c` with one message added,
and the configuration of the build. This directory holds TLA+ models of that
code, TLC configurations that check them on small instances, and proofs that
TLAPS checks for every value of the constants.

Source paths below are relative to `src/`; `K/` stands for `linux-6.6.45/`.

## 1. The system

| Component | Code | State | Operations |
|---|---|---|---|
| `my_encrypt`, `my_decrypt` (548, 549) | `K/syscalls_custom/crypt/crypt.c` | per call: three paths, fragments, key, thread and argument arrays, open files; shared: the files | the call (14 steps with their error paths), its threads |
| `use_mem_top_procs` (557) | `K/syscalls_custom/mem_info/use_mem_top_procs.c` | the cursor in the list of processes, a table of the largest | allocate, next task, test `mm`, sample and insert, copy out |
| `lastkernlogs` (552) | `K/lastkernlogs/lastkernlogs.c` | a window buffer, an open file, an offset | allocate, open, seek, read, cut the last lines |
| `use_mem`, `use_swap`, `use_pages`, `fault_pages` (553-556) | `K/syscalls_custom/mem_info/*.c` | none of their own; they sample the kernel's counters | one call each |
| `currenttimeseg`, `systemuptimeseg` (550, 551) | `K/currenttimeseg`, `K/systemuptimeseg` | none | read a clock |
| system call table | `K/arch/x86/entry/syscalls/syscall_64.tbl` 421-430 | a constant | number to call |
| boot | `K/init/main.c` | `argv_init`, `envp_init`, `system_state`, `kthreadd_done`, the init memory | parse the command line; the boot thread, `kernel_init`, `kthreadd`; initcalls; search for init |
| REST API | `api/api.c` | per request: a buffer, a JSON value | five callbacks, each of one or two system calls, and `main` |
| dashboard | `dashboard/src/App.js`, `components/*.js` | per component: the chart's data, the timer | tick, answer, unmount |

How they interact. The dashboard sends an HTTP request per component and
second; the API answers each by system calls, by number; the calls read kernel
state that every other process changes at the same time. `my_encrypt` and
`my_decrypt` share the file system with each other and with every program, and
start kernel threads that work on buffers of the call. `lastkernlogs` reads a
file that the log daemon writes. The boot threads share completions,
`system_state` and the memory of the init sections.

What is hard:

* **crypt** - threads that use memory of the call, which frees it on a dozen
  error paths; a wait with no timeout for threads that may die; two calls over
  the same files; sizes divided by a number that is not checked.
  *Correct when* every byte of the input is encrypted once and written in its
  place, decryption undoes encryption, nothing is used after it is freed or
  freed twice, all is freed in the end, and the call ends.
* **use_mem_top_procs** - a list walked with no lock while tasks fork, exit and
  are freed; a pointer tested and read again later.
  *Correct when* the table is the ranking of what was read, and right about
  every process that stayed.
* **lastkernlogs** - a window computed from the end of a file that moves.
  *Correct when* it returns the last lines of the log as it was at the seek.
* **boot** - a hand-over between three threads through one completion, jobs
  that run init code while it is about to be freed, fixed arrays filled from
  the command line.
  *Correct when* init gets its arguments and no others, the program that was
  asked for runs, no thread uses memory that is gone, and the boot ends.
* **memory counters** - samples taken one after the other, unsigned
  differences. *Correct when* a value is off by no more than what changed while it
  was taken.
* **API and dashboard** - answers out of order, results overwritten, numbers
  that the table gives to other calls. *Correct when* the chart shows what the
  endpoint's name says, off by no more than what has changed since, points are added in the order of
  the answers, and every request ends.

`PROJECT.json` lists every component, every hazard with its line, and the
properties that cover it.

## 2. Modules

| Module | Content |
|---|---|
| `Fragments` | the arithmetic of crypt.c: how a file is cut into fragments, XOR with the repeated key; data only |
| `Crypt` | the two calls and their threads |
| `CryptService` | the abstract service: bytes are taken, a text is made of them, the text is put in the output |
| `CryptRefinement` | the mapping under which `Crypt` implements `CryptService` |
| `MCCrypt` | constants for TLC: files, contents, scenarios |
| `CryptProofs` | types and the shape of the state |
| `CryptMemory` | memory safety, release of memory, waits; extends `CryptProofs` |
| `CryptData` | what is read, made and written, and the refinement; extends `CryptMemory` |
| `TopProcs`, `MCTopProcs`, `TopProcsProofs` | the walk and the table; constants; proofs |
| `LastKernLogs`, `MCLastKernLogs`, `LastKernLogsProofs` | the log reader and the daemon; constants; proofs |
| `BootArgs` | the command line: one action per handler of main.c |
| `Boot` | extends `BootArgs` with the threads; its step of the boot thread is a step of `BootArgs` |
| `MCBoot`, `BootProofs` | constants; proofs |
| `MemInfo`, `MCMemInfo` | the memory and event counters, and the four calls that sample them; constants |
| `Monitor`, `MCMonitor` | extends `MemInfo` with the callbacks of the API and the charts; constants |
| `MemInfoProofs`, `MonitorProofs` | proofs; the second extends the first |
| `Polling` | the abstract line chart: asked, answered or not, one point more |

Definitions named like another with a word added (`SynchronizeNot`,
`InsertTie`, `EndingsEarly`) are deliberate bugs. No specification uses them; each shows, put in
the place of the definition below it, that a property notices that bug.

### Crypt

One action per loop iteration or block between two accesses to shared state:
`CopyPath` (42-75), `OpenInput`, `SplitInput`, `AllocFragments`, `ReadFragment`,
`OpenKey`, `ReadKey`, `AllocThreads`, `SpawnThread`, `WaitThread`,
`OpenOutput`, `WriteFragment`, `Cleanup` and `Final` (the two labels). A
thread takes a step per byte (`XorByte`), then `Complete`. The heap is the set
of live blocks of a call; `freed` and `err` are history variables, in which
every `kfree` of a freed block, every access to one and every free of a pointer
without a value is recorded. A thread that touches freed memory is `lost`:
nothing is claimed of it afterwards. The kinds of failure that may happen are a
constant (`Faults`), so that a run can look at all or at none. Bytes are
abstract: `Xor` is any operation that undoes itself (an assumption of
`Fragments`).

### TopProcs

The list is the `next` pointers of the tasks, and a removed task keeps its
own, as `list_del_rcu` leaves it. The configuration has preemptible RCU and
the walk takes no `rcu_read_lock`, so a task may be freed while the walk stands
on it; the call is then `lost`. `Sample` reads `task->mm` a second time: if the
process has exited since the test, the call is lost or reads any size. The
history variable `steady` holds the processes about which the result must be
right.

### LastKernLogs

Lines are short sequences over two characters and the newline. The daemon
appends a line or truncates the file between any two steps. An error of the
seek goes into `pos`, as in line 28. A read at a valid offset may fail
(`ReadFails`), or come up short by any number of bytes: the rest of the window
is then the zeros of the buffer. The history variable `cut` says that a read
came up short, of itself or because of a truncation.

### BootArgs and Boot

`cmd` is the command line, as a sequence of words, with the words that the boot
configuration adds. Each `parse_args` of `start_kernel` is a stage; `UnknownArg`
and `UnknownEnv` are the two halves of `unknown_bootoption`. A word of the kind
`invalid` is a parameter that refuses its value: `parse_args` goes on and
remembers it (`parse_error`), and `EndOfLine` then skips the second `parse_args`,
as line 919 does with an error pointer. A `parse_args` ends at the dashes, also
at those inside the words for init. `setup_command_line` and `initcall_blacklist`
panic when they get no memory (`Allocates`). The arrays keep
their two extra slots. In `Boot` the boot thread and `kernel_init` each have
a program counter; an initcall may queue a job, which a worker runs later, or
which is run at once. The unpacking of the initramfs is such a job. `Levels`
is the list of initcalls. `kthreadd`, the jobs and the file systems are not in
the repository and are modelled as main.c uses them. The threads may run in any
order; the kernel may forbid some orders (it boots on one processor, at times
without preemption), so that what holds of the model holds of the kernel.

### MemInfo

The memory manager is not in the repository. A page is of one of eight kinds
(`Kind`), and a counter is the number of pages of some of them (`Reading`): the
free pages, those of each LRU list, those that `NR_FILE_PAGES` counts, which are
the cached ones, the buffers and the swap cache. `MovePage` takes one page from
a kind to another that it may become (`Flow`), `ReleaseSlot` frees swap space
and `PageFault` counts a fault on one processor. A call is the list of what it
reads, in order (`UseMemSteps` ...), one step per counter, then the words it
computes (`UseMemWords` ...) and the copy. Numbers are unsigned and wrap at
`Word`. `all_vm_events` adds the processors one by one, and `EventAt` says which
event is at the index 23 of its array, as a function of the zones of the build:
in the five zones of `K/.config` it is `PGFAULT`, which `PageFault` counts for minor
and major faults alike.
`base` is history: what the counters were when the call began.

### Monitor and Polling

A thread of `MemInfo` is a request. `Tick` sends it, `Receive`, `Syscall`,
`SecondCall` and `Respond` are the callback of api.c, with the steps of the
system call in between, and `Deliver` is the `setData` of the chart. A request
or an answer may be lost. `Tables` are the tables of system calls that the
kernel may have: the repository's, in which the API's numbers reach other calls,
and one for the numbers in api.c. lastkernlogs, which the repository has at
552, writes more than the callback of `/use_mem_top_procs` has allocated; the
API may then die (`Die`) or go on, and nothing more is claimed of its memory.

`Polling` is what the line chart of `use_swap.js` promises. `Monitor` implements
it under a mapping that takes the requests sent, those that are over without a
point, and the requests of the points, in order.

### CryptService

Its steps are `Take` (some more bytes of the input), `Make` (the text made of
them with the key) and `Put` (some more bytes of it into the output).
`CryptRefinement` maps the fragments read so far to the bytes taken, and the
offset in the output to the bytes put; spawning, XORing, waiting and all that
happens to memory are stuttering steps.

## 3. Runs

| Run | States | What it asks |
|---|---|---|
| `CryptOne` | 117,594 | one call, -1 to 3 threads, inputs of 0 to 5 bytes, keys of 0 to 3, into another file or in place, every failure at every place |
| `CryptPair` | 109,234 | two calls at once or one after the other, each reading and writing either file, 1 or 2 threads |
| `TopProcs` | 802,116 | three tasks, two slots, sizes 0 to 2, with every interleaving of forks, exits and frees |
| `LastKernLogs` | 935,659 | logs of 0 to 3 lines, window of 6 characters, two lines asked, appends and truncations at any step, a read that fails or is short by any number of bytes |
| `MemInfo` | 1,633,598 | one call, five pages, two swap slots, up to three changes between any two of its steps, failures of kmalloc and of the copy |
| `Monitor` | 373,042 | two requests, four pages, one change at any moment, both tables, lost requests and answers, failures of kmalloc and of json_pack |
| `Boot` | 226,503 | command lines of up to 4 words (3 of every kind, refused values among them), with and without boot configuration; three machines; two jobs; no memory |

What they check:

* `CryptOne`: `EncryptedBeforeWrite` (every byte is XORed once before the first
  write), `OutputIsEncrypted` (what is written is the encryption of what was
  read), `SafeUntilFailure` (no misuse of memory but the second free of the
  fragments, while the call has not failed), `ReturnedFreesAll`,
  `WaitIsAnswered` (the call waits only for threads that can still complete),
  `CallsEnd`.
* `CryptPair`: `ReadsWholeInput`, `OutputIsEncrypted`, `RoundTrip`. Each excepts
  the calls that another one disturbs, and says so in its premise.
  `ImplementsService` excepts none: whatever the two do to each other's files, a
  file changes only by pieces of the encryption of what a call has read.
* `TopProcs`: `TableIsTheTop`, at every step; `ResultIsTheTop`, about every
  process that stayed; `CallEnds`, whatever happens to the list.
* `LastKernLogs`: `ReturnsLastLines`, `ReturnsEndOfLog`, `NothingHeld`.
* `Boot`: `ArraysTerminated`, `InitGetsItsArguments` (within the limits, what the
  three `parse_args` hand over and nothing else: in order, the arguments after the
  last `init=`; the words behind the first `--`, up to a second one, and none of
  them when a parameter before it has refused its value; those of the boot
  configuration; every variable once, with its last value; and no panic),
  `NoInitCodeAfterFree`, `KthreaddKnown`, `StateAdvances`, `RunsWhatWasAsked`,
  `BootEnds`.

* `MemInfo`: `UseMemOff`, `UsePagesOff` (the words are off by no more than the
  changes since the call began, and so are their sums; the unsigned difference of
  line 27 holds as long as no more pages change hands than are cached, and may
  wrap beyond that), `FaultsWithin` (the two words are between what `PGFAULT` and
  `PGMAJFAULT` were at the start and what they are at the end).
* `Monitor`: `AnswersMeasured` (status 200 means the documented calls and their
  success, but for the first call of `/use_swap`, whose result is overwritten),
  `ChartsNear` (from the counters to the chart, every figure of memory, swap space
  and pages is off by no more than what has changed since the request; four
  exceptions, each in the formula: the cached memory once more pages have changed
  hands than are cached, which may wrap; `used_fisic`, which comes from the first of
  two calls and is as old as that call; `used_fisic` when that call failed, which is
  then 0 with status 200; numbers of pages that an int does not hold),
  `FaultsForward` (the chart of faults goes back only when requests overlapped), `BuffersHold`, `CallbacksFree` (both with the exceptions
  that the code has), `LineIsPolled` (the refinement), `RequestsEnd`.

Runs that TLC must find violated, each against a sentence of the manual or a
comment:

| Run | Property | What the code does |
|---|---|---|
| `CryptDoubleFree` | `NoDoubleFree` | a call that succeeds frees each fragment at line 215 and again at 227 |
| `CryptUseAfterFree` | `NoUseAfterFree` | when a thread cannot be created, the memory of those that run is freed under them |
| `CryptEmptyKey` | `WaitEnds` | an empty key kills the threads before they complete; the call waits for ever |
| `LastKernLogsShort` | `RecoversMessages` | a log shorter than the buffer gives an error and no lines |
| `MonitorNumbers` | `CallsDocumented` | the API calls 548 to 552, where the repository's table has other calls: every endpoint gives an error |

More that the models show and no run is kept for:

* With a parameter value that is refused anywhere before `--`, none of the words
  behind it get to init: `parse_args` returns an error and main.c:919 skips them.
  The words after a second `--` are lost too. The comment at main.c:503 says
  "Anything after -- gets handed straight to init" (upstream code;
  `InitGetsItsArguments` says what init does get).
* The word at index 23 counts all page faults. docs/manual.md:655 says that it is
  the minor ones, and api.c:74 names it `minor`; the major faults are in both
  figures of the chart (`FaultsWithin` is about `PGFAULT`).
* A decryption with another number of threads than the encryption does not give
  the text back (`RoundTrip` asks for the same number; docs/manual.md:414 does not).
* With MAX_INIT_ARGS arguments before `init=` the last one survives the clearing at
  main.c:588, whose comment says that all are ignored (upstream code;
  `InitGetsItsArguments` asks for fewer).

Some hazards in `PROJECT.json` have no property. In most of them the code does
what it should not, and the properties around them except it in their premise:
failed calls of crypt.c that free too much, too little or a pointer without a value
(81, 91, 145, 163), short reads and writes (111), a longer output that keeps
its tail (197), the lost error of `/use_swap` (api.c:48), the slot that is not
cleared (main.c:588). The models have all of these cases; the notes of the
hazards say which property leaves them out.

### Bounds

* *Crypt.* Three threads and five bytes give remainders of 0, 1 and 2, empty
  fragments (more threads than bytes), empty inputs and keys, keys shorter and
  longer than a fragment. The old content of the output is none, or as long as
  the text or longer. One content per length is enough for the values: XOR
  treats each byte alone. Two calls give every overlap of a reader with a
  writer; `CryptPair` leaves failures to `CryptOne`, which has them all.
* *TopProcs.* One task more than slots makes an entry fall out; sizes 0 to 2
  give ties, empty processes and order. Three tasks suffice for a removed task
  between two that stay.
* *LastKernLogs.* A window of 6 against lines of 1, 2 and 4 characters gives a
  log shorter than the window, as long, and longer; a window that cuts a line,
  and one with too few newlines.
* *Boot.* `MaxArgs` = 2 and `MaxEnvs` = 3, so that four words reach and pass
  every limit; two jobs, so that one can be done while the other runs.

* *MemInfo.* Two initial memories, in which every kind of page occurs; the second
  has few cached pages, so that the difference may wrap. Three changes are more
  than the pages of any kind, and enough for one before, between and after two
  samples. `4 * TotalRam < Word` is an assumption: it holds on 64 bits.
* *Monitor.* Two requests are enough for one to overtake the other and for two
  threads in the kernel at once; the plans have the same endpoint twice where
  the order matters. `IntWord` = 16 lets the faults (3 to 4 of them, on two
  processors) fit an int and not a short.

### Fairness

`CallsEnd` assumes weak fairness of each call and of each of its threads: they
are ordinary tasks of the kernel's scheduler, and none of their steps waits for
more than a completion. `CallEnds` assumes it of the calling task only; nothing
makes the other tasks run or stop. `BootEnds` assumes it of the boot thread,
`kernel_init`, `kthreadd` and the jobs, which are threads of the kernel too.
`RequestsEnd` assumes it of the threads that
serve requests and of the network, which delivers or loses what it was given (a
connection that is closed is an error of `fetch`); nothing is assumed of the
timer, of the rest of the system or of `Die`.
`LastKernLogs` has no liveness property: the call has no loop that another
process could prolong. Deadlock is not checked, because all of these programs
come to an end.

## 4. Theorems

Every safety property of the passing runs is a theorem, and so are both
refinements. Few of them are inductive. Each proof has an inductive invariant,
named below, that implies the property.

**Crypt** (`CryptProofs`, `CryptMemory`, `CryptData`), for any number of calls,
threads, bytes and failures:

* `TypeCorrect` - `Spec => []TypeOK`. By itself this is not inductive: that a
  fragment is a sequence of bytes needs each read to start inside its file and
  each loop to stay in its array. `Shape` adds the range of the counter at
  each label, the position in the file, the lengths of the fragments and how
  far each thread has got.
* `CallsSafe` - `SafeUntilFailure`. The strengthening `Safe` says at which
  labels a call can have failed, what it has freed at each of them (nothing
  before `final`, and then no path, no array, no key) and which threads have
  been joined: the order join, write, free is what makes it safe.
* `CallsFreeAll` - `ReturnedFreesAll`. `Owned` says which blocks can be live at
  each label, failed or not.
* `WaitsAnswered` - `WaitIsAnswered`. `Answered` says that every thread from the
  counter on was started and, with a key that is not empty and memory that is
  not freed, can only run or be done.
* `CallsEncrypt` - `EncryptedBeforeWrite`. `Work` says what the text of each
  fragment is while its thread is at a byte: XORed before that byte, as it was
  read from there on; and which threads the wait has passed.
* `CallsReadAll` - `ReadsWholeInput`. `Reads` follows the offset of the input:
  as long as nobody else writes the file, it is the start of the fragment that
  is read next, and each fragment before it is its piece of the file.
* `CallsWriteCipher` - `OutputIsEncrypted`, `CallsRoundTrip` - `RoundTrip`.
  `Outputs` says that the output has the part written of the encryption of what
  was read. The round trip adds what lies between two calls: the second reads
  what the first has written (`Reads`), the pieces of an encryption are
  the encryptions of the pieces (same number of threads), and XOR undoes itself.
* `CallsServe` - `ImplementsService`. Under `Smooth` every step of a call is a
  `Take`, a `Make`, a `Put` or a stutter of `CryptService`. `Smooth` is the
  premise of the run too, as a condition on the constants: no failure, at least
  one thread, and no call that writes the key of one that runs beside it. Inputs
  and outputs may be shared in every way. `Serves` collects the invariants
  above, and where each fragment starts.

The lemmas about `Fragments` (the fragments cover a file and do not overlap;
every byte is in exactly one; joining the pieces of a file gives the file) are
in `CryptData`.

**TopProcs** (`TopProcsProofs`), for any number of tasks and slots:

* `TopTypeCorrect`, `TableRanked` (`TableIsTheTop`) and `ResultRight`
  (`ResultIsTheTop`). The invariant has three parts besides the types. `ListInv`:
  tasks are forked in order, and the pointer of every task born so far, linked or
  removed, leads forward to a born task and never past a steady process. `WalkInv`:
  every steady process behind the cursor has been read, with the size it has.
  The third part is `TableIsTheTop` itself, which says what the table holds; it is kept by
  `Insert`, in a lemma about the ranking alone. The least task that comes after
  another is found by well-founded descent (`SmallestNumber`), since the
  library's induction theorems take an operator and no installed prover can
  instantiate them.

**LastKernLogs** (`LastKernLogsProofs`), for any log, window and number of
lines, and any appends and truncations:

* `LogsTypeCorrect`, `LogsRelease` (`NothingHeld`), `LogsReturnEnd`
  (`ReturnsEndOfLog`, but for a read that came up short), `LogsReturnLines` (`ReturnsLastLines`). The invariant
  `Steps` says what is held at each step, where the seek has put the offset
  and that the log still begins as it was then, and that the window holds the end
  of that log. The last theorem also needs that a window has as many newlines
  after a place as the log has after the same place, by a bijection
  between the two sets of newlines.

**Boot** (`BootProofs`), for every command line, list of initcalls and size of
the arrays:

* `BootTypeCorrect`; `BootArraysTerminated` (`ArraysTerminated`, inductive with
  the types).
* `InitCodeSafe`, `KthreaddSafe`, `StateOnlyAdvances`. The invariant `Order`
  has three parts: `Handover` (how far the boot thread has got when
  `kernel_init` is where it is), `StateOf` (the value of `system_state` at each
  point of its two writers) and `Finished` (when the jobs are done and when the
  memory goes). None of the three properties is inductive without `Handover`:
  that the boot thread is idle when the memory is freed follows only from the
  completion.
* `BootRunsAsked` (`RunsWhatWasAsked`). `Choice` adds three parts to the types
  and `Order`. `Reads`: after n words of the command line the two commands are
  the last of their kind among these n, so that at the end of the first
  `parse_args` they are what was asked for. `Unpacks`: when the initcalls are over
  the initramfs has a job, or its initcall is blacklisted; when the
  early program is looked for that job is done. `Chosen`: what is
  then there is the file system of the property, and each program that
  is tried was asked for and those before it do not run. That the unpacking is one
  of the initcalls is part of `BootAssumption` (`wait_for_initramfs`, main.c:1560,
  waits for the job of an initcall whose code is not in the repository).
* `BootGivesArguments` (`InitGetsItsArguments`). The property speaks of the whole
  line when it has been read; `Gets` says it of the words read so far, in each
  `parse_args` in its turn, with `parse_error` as the record of the refused values
  so far (`RefusedIn`): after n words of the kernel's part (`KernelPart`), with
  the words after the dashes that `set_init_arg` has had (`InitPart`), with those of
  the boot configuration (`ExtraPart`). One lemma per handler (`GivenArg`,
  `GivenEnv`, `GivenSkip`, `GivenInit`, `GivenWord`) takes it one word on. The limits
  only tighten as words are read (`FitsNext`, `FitsInit`, `FitsWord`), so that a
  panic planned early means that the whole line does not fit; that the loop over
  `envp_init` finds room is the pigeonhole principle (`EnvpRoom`), and that a
  variable is set in one slot only needs `ArraysTerminated` (`EnvpEnv`). Positions
  are counted with `Cardinality` of the places before them, which the lemmas on
  finite sets can reason about where a recursive filter of the line could not.

**MemInfo** (`MemInfoProofs`), for any number of threads, pages, slots,
processors and changes:

* `MemTypeCorrect` (`MemTypeOK`). `MemShape` adds that the pages of all kinds
  make `TotalRam`, and that no sample exceeds what there is.
* `MemOff` (`UseMemOff`) and `PagesOff` (`UsePagesOff`). Neither is inductive:
  the words exist only at the end. `Claims` speaks of every call under way by
  means of `Est`, what the call will have for each counter: its sample once it
  has read it, what there is now before that. Reading a counter does not change
  the estimate. A page that moves shifts the counters not yet read
  (`ReadingsMove`), and since the kinds of the lists do not overlap the sums
  shift by one at most, whichever counters are read already (`PagesMove`,
  `MemMoves`). At the copy the estimates are the words.
* `FaultsBetween` (`FaultsWithin`, about the events `PGFAULT` and `PGMAJFAULT`), for
  five zones, as the configuration has (`EventAt` depends on them). `FaultsHold` compares three sums over the
  processors at every step: those already read now, when they were read, and at
  the start; a fault changes one term of one of them.
* `NowAlways`: the same as `MemOff` and `PagesOff`, and the word of `use_swap`, with
  the counters as they are now in the place of those at the start. No run of `MemInfo` asks this; the
  charts need it.

**Monitor** (`MonitorProofs`), for any number of requests, plans, failures,
pages and changes:

* `LinePolled` (`LineIsPolled`): the line chart implements `Polling`. Every step
  is one of few kinds (`StepKinds`); `LineInv` says that the points are of
  requests that have been shown, so that a request on its way has no point yet
  and a lost one never gets any.
* `CallbacksFreeAll` (`CallbacksFree`).
* `MonTypeCorrect` (`TypeOK`). `MonShape` adds to `MemShape` how far a request is:
  how many calls it has made, which one it is in, and that a thread in the kernel
  is that of a request in its phase `kernel`.
* `AnswersMeasuredAll` (`AnswersMeasured`). `AnswersHold`: the calls recorded are
  those that the table gives, and an answer is an error or the figures
  of a last call that succeeded.
* `ChartsNearAll` (`ChartsNear`). `MemHolds` carries `NowHolds` and `FaultsHold`
  over to the requests: the steps of the API, which `MemInfo` does not have,
  begin a call, end it or leave it alone. `DotsHold` says that a point is of a
  shown request and has the figures of its answer. `FirstHold` is about the
  first call of `/use_swap`, of which only its word in `phys` is left when the
  second call begins: it is near as long as one counts from `began`, the moment
  that `made` remembers.
* `BuffersHoldAll` (`BuffersHold`), with `FitsHold`: as long as a buffer is held it
  is as long as it was allocated.
* `FaultsForwardAll` (`FaultsForward`, an action property), for five zones.
  `ForwardHold`: the faults reported to a request that was over when another
  entered the kernel are no more than the counters were then.

Two properties were stronger than the code before their proofs were tried:
the guard of `ChartsNear` asked only that the numbers of pages up to `TotalRam`
fit an int, but a page that moves may be counted twice, so that a sum goes up to
twice `TotalRam` plus what has changed; and `FaultsForward` needs a guard
for counters beyond an int. The runs have too few changes to reach either.

The proofs rest on the named assumptions of the modules: `CryptAssumption`
and those of `Fragments` (XOR undoes itself and stays in `Byte`),
`TopAssumption`, `LogsAssumption`, `ArgsAssumption`, `BootAssumption`, `MemAssumption`,
`MonitorAssumption`, and `TablesAssumption`: the running kernel has the
repository's table or one in which the API's numbers reach the documented calls.
With a mixture of the two (`use_mem` at one of the numbers of `/fault_pages`,
say) an answer could have status 200 and figures of something else. TLC evaluates
each of them on the constants of the runs.

Only model-checked:

* all liveness (`CallsEnd`, `CallEnds`, `BootEnds`, `RequestsEnd`), which needs
  ENABLED and fairness;
* the runs that TLC must find violated.

Assumed of the build (`K/.config`): memory comes zeroed
(`INIT_ON_ALLOC_DEFAULT_ON`), RCU is preemptible, the default init is empty,
the boot configuration is on.

## 5. Not modelled

* The two clock calls beyond what they return: no state and no steps.
* In the calls of `mem_info`: memory that is plugged in or out and swap areas
  that come or go during a call; the drift of the counters, which the kernel
  keeps per processor and adds up in batches; `totalreserve_pages` and the
  watermarks in `si_mem_available`.
* In the API: a failing `calloc` or `json_array`, the start and stop of the HTTP
  library, the entries of `/use_mem_top_procs`. Division by 1024 in double
  precision is exact and left out.
* In the dashboard: drawing, labels, unmounting (the page keeps its charts for
  ever) and the double mounting of React's strict mode.
* In `crypt.c`: sizes above 2^31, the user's memory that holds the paths.
* In `use_mem_top_procs.c`: the threads of a process, names and percentages.
* In `main.c`: the subsystems that `start_kernel` initialises one after the
  other, the text of the boot configuration, `saved_command_line`, the
  parameters of modules. By its comment at 643-648 `saved_command_line` shows
  the init arguments of the boot configuration before those of the command line;
  init gets them the other way round (919-924).
* Build files, headers and tables of upstream Linux, the scaffolding of the
  dashboard.

## 6. Plan

In the order of what matters most:

1. `Crypt`, `TopProcs`, `LastKernLogs`, `Boot` with their proofs: done.
2. `MemInfo`, `Monitor` with `Polling`, `CryptService`: done, with their proofs.
3. Left: nothing that the provers can reach. Liveness stays with the runs, and the
   parts listed in section 5 stay outside the model.
