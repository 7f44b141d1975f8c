------------------------------- MODULE MemInfo -------------------------------
(***************************************************************************)
(* The system calls use_mem, use_swap, use_pages and fault_pages           *)
(* (syscalls_custom/mem_info).  Each samples counters of the kernel one    *)
(* after the other, computes a few words from them and copies the words to *)
(* the buffer of the caller.  Nothing stops the rest of the system         *)
(* meanwhile: pages change hands and faults are counted between any two    *)
(* samples.                                                                *)
(*                                                                         *)
(* The memory manager is not in the repository: a page is used in one of   *)
(* the ways Kind, and the counters are what the calls take them for.       *)
(* `moved` and `base` are history: how many changes there have been, and   *)
(* what the counters were when a call began.                               *)
(***************************************************************************)
EXTENDS Integers, Sequences, FiniteSets

CONSTANTS
  Call,       \* the threads that make the calls
  Memories,   \* how many pages of each kind there may be at the start
  TotalRam,   \* the number of pages
  Swap,       \* the number of slots of swap space
  Word,       \* an unsigned long is a number modulo Word
  Cpus,       \* the number of processors online
  Counted,    \* the events that each of them may have counted at the start
  Zones,      \* the zones of memory that the build has
  MaxChanges, \* bound on the changes of pages, slots and counts
  Failures    \* the kinds of failure that may happen

Kind == {"free", "kernel", "anon_active", "anon_inactive", "swapcache",
         "file_active", "file_inactive", "buffer"}

\* vm_event_item: the events next to the page faults.
Event == {"PGLAZYFREE", "PGFAULT", "PGMAJFAULT", "PGLAZYFREED"}

MemCall == {"use_mem", "use_swap", "use_pages", "fault_pages"}

ASSUME MemAssumption ==
  /\ TotalRam \in Nat /\ Swap \in Nat /\ Cpus \in Nat
  /\ Memories \subseteq [Kind -> 0 .. TotalRam]
  /\ \A m \in Memories :
       m["free"] + m["kernel"] + m["anon_active"] + m["anon_inactive"] + m["swapcache"]
         + m["file_active"] + m["file_inactive"] + m["buffer"] = TotalRam
  /\ Word \in Nat /\ 4 * TotalRam < Word
  /\ Counted \subseteq [1 .. Cpus -> [Event -> Nat]]
  /\ IsFiniteSet(Zones)
  /\ MaxChanges \in Nat

VARIABLES
  mem,       \* the number of pages of each kind
  freeswap,  \* the free slots of swap space
  moved,     \* history: the changes of these two
  faulted,   \* history: the page faults since the start
  events,    \* the events counted by each processor
  sys,       \* the call a thread makes or made last
  step,      \* its next step, 0 when it is not in a call
  sample,    \* the counters it has read
  ret,       \* the result of the call
  out,       \* the caller's buffer
  base       \* history: what the counters were when the call began

envVars == <<mem, freeswap, moved, faulted, events>>
callVars == <<sys, step, sample, ret, out, base>>
memVars == <<envVars, callVars>>

-----------------------------------------------------------------------------
(* The counters *)

\* The number of file pages on a list of the page cache; the pages of block
\* devices are among them.
FileLru(m) == m["file_active"] + m["file_inactive"] + m["buffer"]

\* The counters, in pages: those of si_meminfo, si_swapinfo and
\* si_mem_available, NR_FILE_PAGES, total_swapcache_pages and the LRU lists.
Reading ==
  [freeram |-> mem["free"],
   bufferram |-> mem["buffer"],
   freeswap |-> freeswap,
   available |-> mem["free"] + FileLru(mem),
   file_pages |-> FileLru(mem) + mem["swapcache"],
   swapcache |-> mem["swapcache"],
   inactive_anon |-> mem["anon_inactive"] + mem["swapcache"],
   active_anon |-> mem["anon_active"],
   inactive_file |-> mem["file_inactive"] + mem["buffer"],
   active_file |-> mem["file_active"]]

Gauge == {"freeram", "bufferram", "freeswap", "available", "file_pages", "swapcache",
          "inactive_anon", "active_anon", "inactive_file", "active_file"}

\* An event that all processors together have counted.
SumTo[k \in 0 .. Cpus] ==
  [e \in Event |-> IF k = 0 THEN 0 ELSE SumTo[k - 1][e] + events[k][e]]

\* The place of an event in the array of all_vm_events: four events and three
\* of every zone come before PGFREE, PGACTIVATE, PGDEACTIVATE and PGLAZYFREE.
FirstFault == 4 + 3 * Cardinality(Zones) + 4

EventAt(p) ==
  IF p = FirstFault - 1 THEN "PGLAZYFREE"
  ELSE IF p = FirstFault THEN "PGFAULT"
  ELSE IF p = FirstFault + 1 THEN "PGMAJFAULT"
  ELSE "PGLAZYFREED"

-----------------------------------------------------------------------------
(* The rest of the system *)

Bounded == moved + faulted < MaxChanges

\* What a page may become: it is allocated and freed, ages and is used again,
\* and is swapped.
Flow ==
  ({"free"} \X (Kind \ {"free"})) \cup ((Kind \ {"free"}) \X {"free"})
    \cup {<<"anon_active", "anon_inactive">>, <<"anon_inactive", "anon_active">>,
          <<"file_active", "file_inactive">>, <<"file_inactive", "file_active">>,
          <<"anon_inactive", "swapcache">>, <<"swapcache", "anon_inactive">>}

\* The slots that hold a page which is not in memory.
SwappedOut == Swap - freeswap - mem["swapcache"]

\* A page goes from a to b.  It takes a slot when it enters the swap cache,
\* unless it is read back from one, and gives it up when it is used again.
MovePage(a, b) ==
  /\ Bounded /\ mem[a] > 0
  /\ mem' = [mem EXCEPT ![a] = @ - 1, ![b] = @ + 1]
  /\ freeswap' = freeswap + (IF a = "swapcache" /\ b = "anon_inactive" THEN 1
                             ELSE IF a = "anon_inactive" /\ b = "swapcache" THEN -1 ELSE 0)
  /\ a = "free" /\ b = "swapcache" => SwappedOut > 0
  /\ freeswap' \in 0 .. Swap
  /\ moved' = moved + 1
  /\ UNCHANGED <<faulted, events, callVars>>

\* A process with a page in the swap space ends.
ReleaseSlot ==
  /\ Bounded /\ SwappedOut > 0
  /\ freeswap' = freeswap + 1
  /\ moved' = moved + 1
  /\ UNCHANGED <<mem, faulted, events, callVars>>

\* A fault is counted, and once more if it is a major one.
PageFault(cpu, major) ==
  /\ Bounded
  /\ faulted' = faulted + 1
  /\ events' = [events EXCEPT ![cpu]["PGFAULT"] = @ + 1,
                              ![cpu]["PGMAJFAULT"] = IF major THEN @ + 1 ELSE @]
  /\ UNCHANGED <<mem, freeswap, moved, callVars>>

System ==
  \/ \E f \in Flow : MovePage(f[1], f[2])
  \/ ReleaseSlot
  \/ \E cpu \in 1 .. Cpus, major \in BOOLEAN : PageFault(cpu, major)

-----------------------------------------------------------------------------
(* The calls *)

\* What each call does before it copies its words out.  (totalram does not
\* change; the LRU list of unevictable pages is read and not used.)
UseMemSteps == <<"freeram", "bufferram", "kmalloc", "available", "file_pages", "swapcache">>
UseSwapSteps == <<"freeswap", "kmalloc">>
UsePagesSteps == <<"inactive_anon", "active_anon", "inactive_file", "active_file", "kmalloc">>
FaultPagesSteps == <<"kmalloc">> \o [cpu \in 1 .. Cpus |-> "cpu"]

Program ==
  [use_mem |-> UseMemSteps, use_swap |-> UseSwapSteps, use_pages |-> UsePagesSteps,
   fault_pages |-> FaultPagesSteps]

NoSample == [g \in Gauge \cup Event |-> 0]

\* Thread c enters the call s.
Begin(c, s) ==
  /\ step[c] = 0
  /\ sys' = [sys EXCEPT ![c] = s]
  /\ step' = [step EXCEPT ![c] = 1]
  /\ sample' = [sample EXCEPT ![c] = NoSample]
  /\ base' = [base EXCEPT ![c] =
                [reading |-> Reading, moved |-> moved, count |-> SumTo[Cpus],
                 done |-> {d \in Call : sys[d] # "none" /\ step[d] = 0}]]
  /\ UNCHANGED <<envVars, ret, out>>

\* What c does next.
At(c) ==
  IF step[c] = 0 THEN "none"
  ELSE IF step[c] <= Len(Program[sys[c]]) THEN Program[sys[c]][step[c]] ELSE "copy"

Return(c, r) ==
  /\ step' = [step EXCEPT ![c] = 0]
  /\ sample' = [sample EXCEPT ![c] = NoSample]
  /\ ret' = [ret EXCEPT ![c] = r]

\* The next step; v are the samples after this one.
Advance(c, v) ==
  /\ step' = [step EXCEPT ![c] = @ + 1]
  /\ sample' = [sample EXCEPT ![c] = v]
  /\ UNCHANGED ret

ENOMEM == -12

\* kmalloc_array, with its early return.
Kmalloc(c) ==
  /\ At(c) = "kmalloc"
  /\ \/ Advance(c, sample[c])
     \/ "alloc" \in Failures /\ Return(c, ENOMEM)
  /\ UNCHANGED <<envVars, sys, out, base>>

\* One counter is read.
Sample(c) ==
  /\ At(c) \in Gauge
  /\ Advance(c, [sample[c] EXCEPT ![At(c)] = Reading[At(c)]])
  /\ UNCHANGED <<envVars, sys, out, base>>

\* The samples of c with the events of a processor: the last one's are kept.
CountedLast(c, cpu) ==
  [g \in Gauge \cup Event |-> IF g \in Event THEN events[cpu][g] ELSE sample[c][g]]

\* The samples of c with the events of a processor added.
CountedUp(c, cpu) ==
  [g \in Gauge \cup Event |->
     IF g \in Event THEN sample[c][g] + events[cpu][g] ELSE sample[c][g]]

\* all_vm_events goes on to the next processor.
SampleEvents(c) ==
  /\ At(c) = "cpu"
  /\ Advance(c, CountedUp(c, step[c] - 1))
  /\ UNCHANGED <<envVars, sys, out, base>>

\* The difference is kept signed.
KbSigned(x) == 4 * x

\* Pages in KB: x << (PAGE_SHIFT - 10), as an unsigned long.
Kb(x) == (4 * x) % Word

Cached(r) == r["file_pages"] - r["swapcache"] - r["bufferram"]

\* The swap cache is taken for part of the cache.
UseMemWordsSwapcache(s) ==
  <<Kb(s["freeram"]), Kb(TotalRam - s["available"]), Kb(s["file_pages"] - s["bufferram"]),
    Kb(TotalRam)>>

\* The words that each call computes from its samples.
UseMemWords(s) ==
  <<Kb(s["freeram"]), Kb(TotalRam - s["available"]), Kb(Cached(s)), Kb(TotalRam)>>

UseSwapWords(s) == <<Swap - s["freeswap"], s["freeswap"], Swap>>

\* The lists are taken by kind of page instead of by age.
UsePagesWordsByKind(s) ==
  <<s["active_anon"] + s["inactive_anon"], s["active_file"] + s["inactive_file"]>>

UsePagesWords(s) ==
  <<s["active_anon"] + s["active_file"], s["inactive_anon"] + s["inactive_file"]>>

\* The array is read one place too early.
FaultPagesWordsBefore(s) == <<s[EventAt(22)], s[EventAt(23)]>>

FaultPagesWords(s) == <<s[EventAt(23)], s[EventAt(24)]>>

Info(s) ==
  [use_mem |-> UseMemWords(s), use_swap |-> UseSwapWords(s), use_pages |-> UsePagesWords(s),
   fault_pages |-> FaultPagesWords(s)]

\* copy_to_user copies the first k words; the call returns the bytes that
\* are left.
CopyOut(c) ==
  LET info == Info(sample[c])[sys[c]] IN
  /\ At(c) = "copy"
  /\ \E k \in IF "copy" \in Failures THEN 0 .. Len(info) ELSE {Len(info)} :
       /\ out' = [out EXCEPT ![c] = SubSeq(info, 1, k) \o SubSeq(@, k + 1, Len(@))]
       /\ Return(c, 8 * (Len(info) - k))
  /\ UNCHANGED <<envVars, sys, base>>

CallStep(c) == Kmalloc(c) \/ Sample(c) \/ SampleEvents(c) \/ CopyOut(c)

-----------------------------------------------------------------------------
Buffer == <<0, 0, 0, 0>>

MemInit ==
  /\ mem \in Memories
  /\ freeswap \in {n \in 0 .. Swap : n <= Swap - mem["swapcache"]}
  /\ moved = 0 /\ faulted = 0
  /\ events \in Counted
  /\ sys = [c \in Call |-> "none"]
  /\ step = [c \in Call |-> 0]
  /\ sample = [c \in Call |-> NoSample]
  /\ ret = [c \in Call |-> 0]
  /\ out = [c \in Call |-> Buffer]
  /\ base = [c \in Call |-> [reading |-> Reading, moved |-> 0, count |-> SumTo[Cpus], done |-> {}]]

\* Every thread makes one call.
MemNext ==
  \/ System
  \/ \E c \in Call : CallStep(c) \/ (sys[c] = "none" /\ \E s \in MemCall : Begin(c, s))

MemSpec == MemInit /\ [][MemNext]_memVars

-----------------------------------------------------------------------------
(* Properties *)

\* Every variable has its type.
MemTypeOK ==
  /\ mem \in [Kind -> 0 .. TotalRam]
  /\ freeswap \in 0 .. Swap
  /\ moved \in Nat /\ faulted \in Nat /\ moved + faulted <= MaxChanges
  /\ events \in [1 .. Cpus -> [Event -> Nat]]
  /\ DOMAIN sys = Call
  /\ \A c \in Call : step[c] # 0 => sys[c] \in MemCall /\ step[c] \in 1 .. Len(Program[sys[c]]) + 1
  /\ sample \in [Call -> [Gauge \cup Event -> Nat]]
  /\ ret \in [Call -> Int]
  /\ out \in [Call -> Seq(Nat)]

Near(x, y, d) == x <= y + d /\ y <= x + d

\* The changes since the call of c began.
Moves(c) == moved - base[c].moved

Succeeded(c, s) == sys[c] = s /\ step[c] = 0 /\ ret[c] = 0

\* The words of use_mem (use_mem.c:22-29), read one after the other, are off
\* by no more than the pages that changed hands since it began; and so is the
\* sum of free and used memory, which are read at different moments.  The
\* unsigned difference at line 27 holds as long as fewer pages change hands
\* than are cached; beyond that it may wrap.
UseMemOff ==
  \A c \in Call : Succeeded(c, "use_mem") =>
    LET was == base[c].reading
        off == 4 * Moves(c)
    IN  /\ Near(out[c][1], 4 * was["freeram"], off)
        /\ Near(out[c][2], 4 * (TotalRam - was["available"]), off)
        /\ out[c][1] + out[c][2] <= out[c][4] + off
        /\ Cached(was) >= Moves(c) => Near(out[c][3], 4 * Cached(was), off)

UsedRam(r) == TotalRam - r["available"]

Active(r) == r["active_anon"] + r["active_file"]
Inactive(r) == r["inactive_anon"] + r["inactive_file"]

\* The LRU lists are read one after the other (use_pages.c:13-14), so that a
\* page that goes from one to the other is counted twice or not at all.  The
\* number of pages, and that of each kind, is off by no more than one for
\* every page that changed hands.
UsePagesOff ==
  \A c \in Call : Succeeded(c, "use_pages") =>
    LET was == base[c].reading IN
    /\ Near(out[c][1], Active(was), Moves(c))
    /\ Near(out[c][2], Inactive(was), Moves(c))
    /\ Near(out[c][1] + out[c][2], Active(was) + Inactive(was), Moves(c))

\* The faults reported (fault_pages.c:19-20) are no fewer than had been counted
\* when the call began and no more than have been counted since, although
\* the processors are read one after the other; and they are the events that
\* the array has at 23 and 24 in a build with these zones.  The first word is
\* PGFAULT, the number of all faults, major ones included: not that of the minor
\* ones, as docs/manual.md:655 and the name that api.c:74 gives it say.
FaultsWithin ==
  \A c \in Call : Succeeded(c, "fault_pages") =>
    \A p \in {<<1, "PGFAULT">>, <<2, "PGMAJFAULT">>} :
      base[c].count[p[2]] <= out[c][p[1]] /\ out[c][p[1]] <= SumTo[Cpus][p[2]]
=============================================================================
