---------------------------- MODULE MemInfoProofs ----------------------------
(***************************************************************************)
(* Proofs about MemInfo, for any number of threads, pages, swap slots,     *)
(* processors and changes: types, and that what use_mem, use_pages and     *)
(* fault_pages report is off by no more than what changes while they run.  *)
(***************************************************************************)
EXTENDS MemInfo, WellFoundedInduction, TLAPS

Used(m) ==
  m["free"] + m["kernel"] + m["anon_active"] + m["anon_inactive"] + m["swapcache"]
    + m["file_active"] + m["file_inactive"] + m["buffer"]

\* The pages and the slots of swap space, of which none appear or vanish.
Memory ==
  /\ mem \in [Kind -> Nat] /\ Used(mem) = TotalRam
  /\ freeswap \in 0 .. Swap
  /\ moved \in Nat /\ faulted \in Nat /\ moved + faulted <= MaxChanges
  /\ events \in [1 .. Cpus -> [Event -> Nat]]

\* No sample exceeds what there is.
Small(v) ==
  v["freeswap"] <= Swap /\ \A g \in Gauge \ {"freeswap"} : v[g] <= TotalRam

\* The calls.
Calls ==
  /\ DOMAIN sys = Call
  /\ step \in [Call -> Nat]
  /\ \A c \in Call : step[c] # 0 => sys[c] \in MemCall /\ step[c] \in 1 .. Len(Program[sys[c]]) + 1
  /\ sample \in [Call -> [Gauge \cup Event -> Nat]]
  /\ \A c \in Call : Small(sample[c])
  /\ ret \in [Call -> Int]
  /\ out \in [Call -> Seq(Nat)]

\* What was there when the calls began.
Bases ==
  /\ DOMAIN base = Call
  /\ \A c \in Call : /\ base[c].moved \in Nat /\ base[c].moved <= moved
                     /\ \A g \in Gauge : base[c].reading[g] \in Nat

MemShape == Memory /\ Calls /\ Bases

-----------------------------------------------------------------------------
LEMMA Sizes ==
  /\ TotalRam \in Nat /\ Swap \in Nat /\ Cpus \in Nat /\ MaxChanges \in Nat
  /\ Word \in Nat /\ 4 * TotalRam < Word
BY MemAssumption

\* The lengths of the four calls, and what they do at each step.
LEMMA Lengths ==
  /\ Len(Program["use_mem"]) = 6 /\ Len(Program["use_swap"]) = 2
  /\ Len(Program["use_pages"]) = 5 /\ Len(Program["fault_pages"]) = 1 + Cpus
<1>1. [cpu \in 1 .. Cpus |-> "cpu"] \in Seq({"cpu"}) /\ Len([cpu \in 1 .. Cpus |-> "cpu"]) = Cpus
  BY MemAssumption
<1>2. Len(FaultPagesSteps) = 1 + Cpus
  BY <1>1, MemAssumption DEF FaultPagesSteps
<1>3. QED BY <1>2 DEF Program, UseMemSteps, UseSwapSteps, UsePagesSteps

LEMMA FaultPagesAt ==
  ASSUME NEW k \in 1 .. 1 + Cpus
  PROVE  FaultPagesSteps[k] = IF k = 1 THEN "kmalloc" ELSE "cpu"
<1>1. [cpu \in 1 .. Cpus |-> "cpu"] \in Seq({"cpu"}) /\ Len([cpu \in 1 .. Cpus |-> "cpu"]) = Cpus
  BY MemAssumption
<1>2. QED BY <1>1, MemAssumption DEF FaultPagesSteps

\* Only fault_pages reads a processor, and it reads those that there are.
LEMMA CpuExists ==
  ASSUME Calls, NEW c \in Call, At(c) = "cpu"
  PROVE  step[c] - 1 \in 1 .. Cpus
<1>1. step[c] # 0 /\ sys[c] \in MemCall /\ step[c] \in 1 .. Len(Program[sys[c]])
      /\ Program[sys[c]][step[c]] = "cpu"
  BY Lengths, MemAssumption DEF At, Calls, MemCall
<1>2. sys[c] = "fault_pages"
  <2>1. sys[c] # "use_mem"
    <3>1. \A k \in 1 .. 6 : UseMemSteps[k] # "cpu"
      BY DEF UseMemSteps
    <3>2. QED BY <1>1, <3>1, Lengths DEF Program
  <2>2. sys[c] # "use_swap"
    <3>1. \A k \in 1 .. 2 : UseSwapSteps[k] # "cpu"
      BY DEF UseSwapSteps
    <3>2. QED BY <1>1, <3>1, Lengths DEF Program
  <2>3. sys[c] # "use_pages"
    <3>1. \A k \in 1 .. 5 : UsePagesSteps[k] # "cpu"
      BY DEF UsePagesSteps
    <3>2. QED BY <1>1, <3>1, Lengths DEF Program
  <2>4. QED BY <1>1, <2>1, <2>2, <2>3 DEF MemCall
<1>3. step[c] # 1 /\ step[c] \in 1 .. 1 + Cpus
  BY <1>1, <1>2, Lengths, FaultPagesAt, MemAssumption DEF Program
<1>4. QED BY <1>3, MemAssumption

\* The counters are numbers, and bounded by the pages and slots.
LEMMA ReadingBounds ==
  ASSUME Memory
  PROVE  /\ \A g \in Gauge : Reading[g] \in Nat
         /\ \A g \in Gauge \ {"freeswap"} : Reading[g] <= TotalRam
         /\ Reading["freeswap"] <= Swap
<1>1. /\ mem["free"] \in Nat /\ mem["kernel"] \in Nat /\ mem["anon_active"] \in Nat
      /\ mem["anon_inactive"] \in Nat /\ mem["swapcache"] \in Nat /\ mem["file_active"] \in Nat
      /\ mem["file_inactive"] \in Nat /\ mem["buffer"] \in Nat
  BY DEF Memory, Kind
<1>2. /\ Used(mem) = TotalRam /\ freeswap \in Nat /\ freeswap <= Swap
      /\ TotalRam \in Nat /\ Swap \in Nat
  BY MemAssumption DEF Memory
<1>3. /\ Reading["freeram"] = mem["free"] /\ Reading["bufferram"] = mem["buffer"]
      /\ Reading["freeswap"] = freeswap /\ Reading["available"] = mem["free"] + FileLru(mem)
      /\ Reading["file_pages"] = FileLru(mem) + mem["swapcache"]
      /\ Reading["swapcache"] = mem["swapcache"]
      /\ Reading["inactive_anon"] = mem["anon_inactive"] + mem["swapcache"]
      /\ Reading["active_anon"] = mem["anon_active"]
      /\ Reading["inactive_file"] = mem["file_inactive"] + mem["buffer"]
      /\ Reading["active_file"] = mem["file_active"]
  BY DEF Reading
<1>4. ASSUME NEW g \in Gauge
      PROVE  Reading[g] \in Nat /\ (g # "freeswap" => Reading[g] <= TotalRam)
  BY <1>1, <1>2, <1>3 DEF Gauge, FileLru, Used
<1>5. QED BY <1>2, <1>3, <1>4

\* A word in KB is a number.
LEMMA KbNat == ASSUME NEW x \in Int PROVE Kb(x) \in Nat
BY MemAssumption DEF Kb

\* The words of the calls are numbers.
LEMMA InfoTyped ==
  ASSUME NEW s \in [Gauge \cup Event -> Nat], s["freeswap"] <= Swap, NEW x \in MemCall
  PROVE  Info(s)[x] \in Seq(Nat)
<1>1. /\ s["freeram"] \in Nat /\ s["available"] \in Nat /\ s["freeswap"] \in Nat
      /\ s["active_anon"] \in Nat /\ s["active_file"] \in Nat
      /\ s["inactive_anon"] \in Nat /\ s["inactive_file"] \in Nat
      /\ s["file_pages"] \in Nat /\ s["swapcache"] \in Nat /\ s["bufferram"] \in Nat
      /\ s[EventAt(23)] \in Nat /\ s[EventAt(24)] \in Nat
  BY DEF Gauge, Event, EventAt
<1>2. UseMemWords(s) \in Seq(Nat)
  <2>0. TotalRam \in Nat
    BY MemAssumption
  <2>1. TotalRam - s["available"] \in Int /\ Cached(s) \in Int /\ TotalRam \in Int
    BY <1>1, <2>0 DEF Cached
  <2>2. /\ Kb(s["freeram"]) \in Nat /\ Kb(TotalRam - s["available"]) \in Nat
        /\ Kb(Cached(s)) \in Nat /\ Kb(TotalRam) \in Nat
    BY <1>1, <2>1, KbNat
  <2>3. QED BY <2>2 DEF UseMemWords
<1>3. UseSwapWords(s) \in Seq(Nat)
  BY <1>1, MemAssumption DEF UseSwapWords
<1>4. UsePagesWords(s) \in Seq(Nat) /\ FaultPagesWords(s) \in Seq(Nat)
  BY <1>1 DEF UsePagesWords, FaultPagesWords
<1>5. QED BY <1>2, <1>3, <1>4 DEF Info, MemCall

-----------------------------------------------------------------------------
\* A page goes from one kind to another.
LEMMA PageMoves ==
  ASSUME Memory, NEW a \in Kind, NEW b \in Kind, a # b, MovePage(a, b)
  PROVE  /\ mem' \in [Kind -> Nat] /\ Used(mem') = TotalRam
         /\ \A k \in Kind : mem'[k] = IF k = a THEN mem[k] - 1
                                     ELSE IF k = b THEN mem[k] + 1 ELSE mem[k]
<1>1. mem \in [Kind -> Nat] /\ mem[a] > 0 /\ mem' = [mem EXCEPT ![a] = @ - 1, ![b] = @ + 1]
  BY DEF MovePage, Memory
<1>2. mem' \in [Kind -> Nat]
  BY <1>1
<1>3. \A k \in Kind : mem'[k] = IF k = a THEN mem[k] - 1
                                ELSE IF k = b THEN mem[k] + 1 ELSE mem[k]
  BY <1>1
<1>4. Used(mem') = Used(mem)
  BY <1>1, <1>3 DEF Used, Kind
<1>5. QED BY <1>2, <1>3, <1>4 DEF Memory

LEMMA FlowKinds == \A f \in Flow : f[1] \in Kind /\ f[2] \in Kind /\ f[1] # f[2]
BY DEF Flow, Kind

\* The rest of the system keeps the numbers of pages and slots; it leaves the
\* calls alone.
LEMMA SystemKeeps ==
  ASSUME MemShape, System
  PROVE  MemShape' /\ UNCHANGED callVars /\ moved' \in {moved, moved + 1}
<1>1. UNCHANGED callVars /\ moved \in Nat /\ moved' \in {moved, moved + 1}
  BY DEF System, MovePage, ReleaseSlot, PageFault, MemShape, Memory
<1>2. /\ moved + faulted < MaxChanges /\ faulted \in Nat
      /\ \/ moved' = moved + 1 /\ faulted' = faulted
         \/ moved' = moved /\ faulted' = faulted + 1
  BY DEF System, MovePage, ReleaseSlot, PageFault, MemShape, Memory, Bounded
<1>3. moved' \in Nat /\ faulted' \in Nat /\ moved' + faulted' <= MaxChanges
  BY <1>1, <1>2, Sizes
<1>4. Memory'
  <2>1. ASSUME NEW f \in Flow, MovePage(f[1], f[2]) PROVE Memory'
    <3>1. freeswap' \in 0 .. Swap /\ UNCHANGED events
      BY <2>1 DEF MovePage
    <3>2. mem' \in [Kind -> Nat] /\ Used(mem') = TotalRam
      BY <2>1, FlowKinds, PageMoves DEF MemShape
    <3>3. QED BY <1>3, <3>1, <3>2 DEF Memory, MemShape, Used
  <2>2. CASE ReleaseSlot
    <3>1. mem["swapcache"] \in Nat /\ freeswap \in Nat /\ Swap \in Nat
      BY MemAssumption DEF MemShape, Memory, Kind
    <3>2. freeswap' \in 0 .. Swap
      BY <2>2, <3>1 DEF ReleaseSlot, SwappedOut
    <3>3. UNCHANGED <<mem, events>>
      BY <2>2 DEF ReleaseSlot
    <3>4. QED BY <1>3, <3>2, <3>3 DEF Memory, MemShape, Used
  <2>3. ASSUME NEW cpu \in 1 .. Cpus, NEW major \in BOOLEAN, PageFault(cpu, major) PROVE Memory'
    <3>1. UNCHANGED <<mem, freeswap>>
      BY <2>3 DEF PageFault
    <3>2. events' \in [1 .. Cpus -> [Event -> Nat]]
      BY <2>3 DEF PageFault, MemShape, Memory, Event
    <3>3. QED BY <1>3, <3>1, <3>2 DEF Memory, MemShape, Used
  <2>4. QED BY <2>1, <2>2, <2>3 DEF System
<1>5. Calls'
  BY <1>1 DEF callVars, MemShape, Calls
<1>6. Bases'
  BY <1>1 DEF callVars, MemShape, Bases
<1>7. QED BY <1>1, <1>4, <1>5, <1>6 DEF MemShape

-----------------------------------------------------------------------------
LEMMA NoSampleSmall == NoSample \in [Gauge \cup Event -> Nat] /\ Small(NoSample)
<1>1. NoSample \in [Gauge \cup Event -> Nat] /\ \A g \in Gauge : NoSample[g] = 0
  BY DEF NoSample
<1>2. "freeswap" \in Gauge
  BY DEF Gauge
<1>3. Small(NoSample)
  BY <1>1, <1>2, Sizes DEF Small
<1>4. QED BY <1>1, <1>3

\* The beginning of a call.
LEMMA BeginKeeps ==
  ASSUME MemShape, NEW c \in Call, NEW s \in MemCall, Begin(c, s)
  PROVE  MemShape'
<1>1. Memory'
  BY DEF Begin, envVars, MemShape, Memory, Used
<1>2. Calls'
  <2>1. DOMAIN sys' = Call /\ step' \in [Call -> Nat]
    BY DEF Begin, MemShape, Calls
  <2>2. \A d \in Call : step'[d] # 0 => sys'[d] \in MemCall /\ step'[d] \in 1 .. Len(Program[sys'[d]]) + 1
    <3>1. \A x \in MemCall : 1 \in 1 .. Len(Program[x]) + 1
      BY Lengths, MemAssumption DEF MemCall
    <3>2. QED BY <3>1 DEF Begin, MemShape, Calls
  <2>3. sample' \in [Call -> [Gauge \cup Event -> Nat]]
    BY NoSampleSmall DEF Begin, MemShape, Calls
  <2>4. \A d \in Call : sample'[d] = IF d = c THEN NoSample ELSE sample[d]
    BY DEF Begin, MemShape, Calls
  <2>5. \A d \in Call : Small(sample[d])'
    BY <2>4, NoSampleSmall DEF MemShape, Calls, Small
  <2>6. QED BY <2>1, <2>2, <2>3, <2>5 DEF Begin, MemShape, Calls
<1>3. Bases'
  <2>1. /\ DOMAIN base' = Call /\ moved' = moved /\ moved \in Nat
        /\ base'[c].reading = Reading /\ base'[c].moved = moved
        /\ \A d \in Call : d # c => base'[d] = base[d]
    BY DEF Begin, envVars, MemShape, Bases, Memory
  <2>2. QED BY <2>1, ReadingBounds DEF MemShape, Bases
<1>4. QED BY <1>1, <1>2, <1>3 DEF MemShape

\* What a step of a call may do to the call: go on with other samples, or
\* return.
LEMMA AdvanceKeeps ==
  ASSUME MemShape, NEW c \in Call, step[c] # 0, At(c) # "copy",
         NEW v \in [Gauge \cup Event -> Nat], Small(v),
         Advance(c, v), UNCHANGED <<envVars, sys, out, base>>
  PROVE  MemShape'
<1>1. Memory' /\ Bases'
  BY DEF envVars, MemShape, Memory, Bases, Used
<1>2. step[c] \in 1 .. Len(Program[sys[c]])
  BY Lengths, MemAssumption DEF At, MemShape, Calls, MemCall
<1>3. step' = [step EXCEPT ![c] = @ + 1] /\ sample' = [sample EXCEPT ![c] = v] /\ ret' = ret
  BY DEF Advance
<1>4. step' \in [Call -> Nat] /\ sample' \in [Call -> [Gauge \cup Event -> Nat]]
  <2>1. step \in [Call -> Nat] /\ sample \in [Call -> [Gauge \cup Event -> Nat]]
    BY DEF MemShape, Calls
  <2>2. step[c] + 1 \in Nat
    BY <2>1
  <2>3. step' \in [Call -> Nat]
    BY <1>3, <2>1, <2>2
  <2>4. sample' \in [Call -> [Gauge \cup Event -> Nat]]
    BY <1>3, <2>1
  <2>5. QED BY <2>3, <2>4
<1>5. \A d \in Call : step'[d] # 0 => sys[d] \in MemCall /\ step'[d] \in 1 .. Len(Program[sys[d]]) + 1
  <2>1. Len(Program[sys[c]]) \in Nat /\ sys[c] \in MemCall
    BY Lengths, MemAssumption DEF MemShape, Calls, MemCall
  <2>2. QED BY <1>2, <1>3, <2>1 DEF MemShape, Calls
<1>6. \A d \in Call : Small(sample[d])'
  <2>1. \A d \in Call : sample'[d] = IF d = c THEN v ELSE sample[d]
    BY <1>3 DEF MemShape, Calls
  <2>2. QED BY <2>1 DEF MemShape, Calls, Small
<1>7. Calls'
  BY <1>3, <1>4, <1>5, <1>6 DEF MemShape, Calls
<1>8. QED BY <1>1, <1>7 DEF MemShape

LEMMA ReturnKeeps ==
  ASSUME MemShape, NEW c \in Call, NEW r \in Int, Return(c, r),
         out' \in [Call -> Seq(Nat)], UNCHANGED <<envVars, sys, base>>
  PROVE  MemShape'
<1>1. Memory' /\ Bases'
  BY DEF envVars, MemShape, Memory, Bases, Used
<1>2. /\ step' = [step EXCEPT ![c] = 0] /\ sample' = [sample EXCEPT ![c] = NoSample]
      /\ ret' = [ret EXCEPT ![c] = r]
  BY DEF Return
<1>3. \A d \in Call : sample'[d] = IF d = c THEN NoSample ELSE sample[d]
  BY <1>2 DEF MemShape, Calls
<1>4. \A d \in Call : Small(sample[d])'
  BY <1>3, NoSampleSmall DEF MemShape, Calls, Small
<1>5. Calls'
  BY <1>2, <1>4, NoSampleSmall DEF MemShape, Calls
<1>6. QED BY <1>1, <1>5 DEF MemShape

\* What a step of a call may be: it goes on to its next step with the samples
\* it has or with one more, fails, or copies its words out.
LEMMA CallStepKinds ==
  ASSUME MemShape, NEW c \in Call, CallStep(c)
  PROVE  /\ step[c] # 0 /\ UNCHANGED <<envVars, sys, base>>
         /\ \/ /\ At(c) # "copy" /\ UNCHANGED out
               /\ \/ /\ At(c) \in Gauge
                     /\ Advance(c, [sample[c] EXCEPT ![At(c)] = Reading[At(c)]])
                  \/ At(c) = "cpu" /\ Advance(c, CountedUp(c, step[c] - 1))
                  \/ At(c) = "kmalloc" /\ Advance(c, sample[c])
            \/ Return(c, ENOMEM) /\ UNCHANGED out
            \/ CopyOut(c)
<1>1. step[c] # 0
  BY DEF CallStep, Kmalloc, Sample, SampleEvents, CopyOut, At, Gauge
<1>2. CASE Kmalloc(c)
  BY <1>1, <1>2 DEF Kmalloc
<1>3. CASE Sample(c)
  BY <1>1, <1>3 DEF Sample, Gauge
<1>4. CASE SampleEvents(c)
  BY <1>1, <1>4 DEF SampleEvents
<1>5. CASE CopyOut(c)
  BY <1>1, <1>5 DEF CopyOut
<1>6. QED BY <1>2, <1>3, <1>4, <1>5 DEF CallStep

\* The words are copied out, all or some of them.
LEMMA CopiedWords ==
  ASSUME MemShape, NEW c \in Call, CopyOut(c)
  PROVE  LET info == Info(sample[c])[sys[c]] IN
         /\ sys[c] \in MemCall /\ info \in Seq(Nat)
         /\ out' \in [Call -> Seq(Nat)]
         /\ \A d \in Call : d # c => out'[d] = out[d]
         /\ \E k \in 0 .. Len(info) :
              /\ Return(c, 8 * (Len(info) - k))
              /\ k = Len(info) => \A i \in 1 .. Len(info) : out'[c][i] = info[i]
<1> DEFINE info == Info(sample[c])[sys[c]]
<1>1. sys[c] \in MemCall
  BY DEF CopyOut, At, MemShape, Calls
<1>2. info \in Seq(Nat)
  BY <1>1, InfoTyped DEF MemShape, Calls, Small
<1> HIDE DEF info
<1>3. Len(info) \in Nat /\ out[c] \in Seq(Nat) /\ Len(out[c]) \in Nat
  BY <1>2 DEF MemShape, Calls
<1>4. PICK k \in 0 .. Len(info) :
        /\ out' = [out EXCEPT ![c] = SubSeq(info, 1, k) \o SubSeq(@, k + 1, Len(@))]
        /\ Return(c, 8 * (Len(info) - k))
  <2>1. \E k \in IF "copy" \in Failures THEN 0 .. Len(info) ELSE {Len(info)} :
          /\ out' = [out EXCEPT ![c] = SubSeq(info, 1, k) \o SubSeq(@, k + 1, Len(@))]
          /\ Return(c, 8 * (Len(info) - k))
    BY DEF CopyOut, info
  <2>2. Len(info) \in 0 .. Len(info)
    BY <1>3
  <2>3. QED BY <2>1, <2>2
<1> DEFINE copied == SubSeq(info, 1, k)
           rest == SubSeq(out[c], k + 1, Len(out[c]))
<1>5. /\ copied \in Seq(Nat) /\ Len(copied) = k
      /\ \A i \in 1 .. k : copied[i] = info[i]
  BY <1>2, <1>3, <1>4
<1>6. rest \in Seq(Nat)
  BY <1>3, <1>4
<1>7. /\ copied \o rest \in Seq(Nat)
      /\ \A i \in 1 .. k : (copied \o rest)[i] = info[i]
  <2> HIDE DEF copied, rest
  <2>1. QED BY <1>4, <1>5, <1>6
<1>8. out'[c] = copied \o rest /\ \A d \in Call : d # c => out'[d] = out[d]
  BY <1>4 DEF MemShape, Calls
<1>9. out' \in [Call -> Seq(Nat)]
  BY <1>4, <1>7 DEF MemShape, Calls
<1>10. QED
  <2> HIDE DEF copied, rest
  <2>1. k = Len(info) => \A i \in 1 .. Len(info) : out'[c][i] = info[i]
    BY <1>7, <1>8
  <2>2. QED BY <1>1, <1>2, <1>4, <1>8, <1>9, <2>1 DEF info

LEMMA CallStepKeeps ==
  ASSUME MemShape, NEW c \in Call, CallStep(c)
  PROVE  MemShape'
<1>1. UNCHANGED <<envVars, sys, base>> /\ step[c] # 0
  BY CallStepKinds
<1>2. sample[c] \in [Gauge \cup Event -> Nat] /\ Small(sample[c])
  BY DEF MemShape, Calls
<1>3. CASE At(c) \in Gauge /\ UNCHANGED out
           /\ Advance(c, [sample[c] EXCEPT ![At(c)] = Reading[At(c)]])
  <2> DEFINE v == [sample[c] EXCEPT ![At(c)] = Reading[At(c)]]
  <2>1. \A g \in Gauge : v[g] = IF g = At(c) THEN Reading[g] ELSE sample[c][g]
    BY <1>2
  <2>2. v \in [Gauge \cup Event -> Nat]
    BY <1>2, <1>3, ReadingBounds DEF MemShape
  <2>3. Small(v)
    <3>1. "freeswap" \in Gauge
      BY DEF Gauge
    <3> HIDE DEF v
    <3>2. QED BY <1>2, <2>1, <3>1, ReadingBounds DEF MemShape, Small
  <2>4. At(c) # "copy"
    BY <1>3 DEF Gauge
  <2> HIDE DEF v
  <2>5. Advance(c, v)
    BY <1>3 DEF v
  <2>6. QED BY <1>1, <1>3, <2>2, <2>3, <2>4, <2>5, AdvanceKeeps
<1>4. CASE At(c) = "cpu" /\ UNCHANGED out /\ Advance(c, CountedUp(c, step[c] - 1))
  <2> DEFINE v == CountedUp(c, step[c] - 1)
  <2>1. events[step[c] - 1] \in [Event -> Nat]
    BY <1>4, CpuExists DEF MemShape, Memory
  <2>2. Gauge \cap Event = {}
    BY DEF Gauge, Event
  <2>3. v \in [Gauge \cup Event -> Nat]
    BY <1>2, <2>1 DEF CountedUp
  <2>4. Small(v)
    <3>1. \A g \in Gauge : v[g] = sample[c][g]
      BY <2>2 DEF CountedUp
    <3>2. "freeswap" \in Gauge
      BY DEF Gauge
    <3> HIDE DEF v
    <3>3. QED BY <1>2, <3>1, <3>2 DEF Small
  <2> HIDE DEF v
  <2>5. Advance(c, v)
    BY <1>4 DEF v
  <2>6. QED BY <1>1, <1>4, <2>3, <2>4, <2>5, AdvanceKeeps
<1>5. CASE At(c) = "kmalloc" /\ UNCHANGED out /\ Advance(c, sample[c])
  BY <1>1, <1>2, <1>5, AdvanceKeeps
<1>6. CASE Return(c, ENOMEM) /\ UNCHANGED out
  <2>1. out' \in [Call -> Seq(Nat)] /\ ENOMEM \in Int
    BY <1>6 DEF MemShape, Calls, ENOMEM
  <2>2. QED BY <1>1, <1>6, <2>1, ReturnKeeps
<1>7. CASE CopyOut(c)
  <2>1. \A k, n \in Nat : 8 * (n - k) \in Int
    OBVIOUS
  <2>2. QED BY <1>1, <1>7, <2>1, CopiedWords, ReturnKeeps
<1>8. QED BY <1>3, <1>4, <1>5, <1>6, <1>7, CallStepKinds

LEMMA MemShapeStep ==
  ASSUME MemShape, [MemNext]_memVars
  PROVE  MemShape'
<1>1. CASE System
  BY <1>1, SystemKeeps
<1>2. ASSUME NEW c \in Call, CallStep(c) PROVE MemShape'
  BY <1>2, CallStepKeeps
<1>3. ASSUME NEW c \in Call, NEW s \in MemCall, Begin(c, s) PROVE MemShape'
  BY <1>3, BeginKeeps
<1>4. CASE UNCHANGED memVars
  <2>1. UNCHANGED <<mem, freeswap, moved, faulted, events, sys, step, sample, ret, out, base>>
    BY <1>4 DEF memVars, envVars, callVars
  <2>2. QED BY <2>1 DEF MemShape, Memory, Used, Calls, Bases
<1>5. QED BY <1>1, <1>2, <1>3, <1>4 DEF MemNext

LEMMA MemShapeInit ==
  ASSUME MemInit
  PROVE  MemShape
<1>1. Memory
  <2>1. mem \in [Kind -> 0 .. TotalRam] /\ Used(mem) = TotalRam
    BY MemAssumption DEF MemInit, Used
  <2>2. mem \in [Kind -> Nat]
    BY <2>1, Sizes
  <2>3. freeswap \in 0 .. Swap /\ events \in [1 .. Cpus -> [Event -> Nat]]
    BY MemAssumption DEF MemInit
  <2>4. moved = 0 /\ faulted = 0
    BY DEF MemInit
  <2>5. QED BY <2>1, <2>2, <2>3, <2>4, Sizes DEF Memory
<1>2. Calls
  <2>1. \A c \in Call : /\ sys[c] = "none" /\ step[c] = 0 /\ sample[c] = NoSample
                        /\ ret[c] = 0 /\ out[c] = Buffer
    BY DEF MemInit
  <2>2. Buffer \in Seq(Nat)
    BY DEF Buffer
  <2>3. DOMAIN sys = Call /\ step \in [Call -> Nat] /\ ret \in [Call -> Int]
    BY DEF MemInit
  <2>4. sample \in [Call -> [Gauge \cup Event -> Nat]] /\ out \in [Call -> Seq(Nat)]
    BY <2>2, NoSampleSmall DEF MemInit
  <2>5. QED BY <2>1, <2>3, <2>4, NoSampleSmall DEF Calls
<1>3. Bases
  <2>1. /\ DOMAIN base = Call /\ moved = 0
        /\ \A c \in Call : base[c].reading = Reading /\ base[c].moved = 0
    BY DEF MemInit
  <2>2. QED BY <1>1, <2>1, ReadingBounds DEF Bases
<1>4. QED BY <1>1, <1>2, <1>3 DEF MemShape

\* Every page is of one kind, all the time.
LEMMA ShapeTyped ==
  ASSUME MemShape
  PROVE  MemTypeOK
<1>1. mem \in [Kind -> 0 .. TotalRam]
  <2>1. /\ mem["free"] \in Nat /\ mem["kernel"] \in Nat /\ mem["anon_active"] \in Nat
        /\ mem["anon_inactive"] \in Nat /\ mem["swapcache"] \in Nat
        /\ mem["file_active"] \in Nat /\ mem["file_inactive"] \in Nat /\ mem["buffer"] \in Nat
    BY DEF MemShape, Memory, Kind
  <2>2. \A k \in Kind : mem[k] \in 0 .. TotalRam
    <3>1. TotalRam \in Nat /\ Used(mem) = TotalRam
      BY Sizes DEF MemShape, Memory
    <3>2. /\ mem["free"] <= TotalRam /\ mem["kernel"] <= TotalRam
          /\ mem["anon_active"] <= TotalRam /\ mem["anon_inactive"] <= TotalRam
          /\ mem["swapcache"] <= TotalRam /\ mem["file_active"] <= TotalRam
          /\ mem["file_inactive"] <= TotalRam /\ mem["buffer"] <= TotalRam
      BY <2>1, <3>1 DEF Used
    <3> QED BY <2>1, <3>1, <3>2 DEF Kind
  <2>3. QED BY <2>2 DEF MemShape, Memory
<1>2. DOMAIN sys = Call
  BY DEF MemShape, Calls
<1>3. QED BY <1>1, <1>2 DEF MemShape, Memory, Calls, MemTypeOK

\* Types: no page is lost or made, no step of a call is beyond its program,
\* and every word that is copied out is a number (use_mem.c, use_swap.c,
\* use_pages.c, fault_pages.c).
THEOREM MemTypeCorrect == MemSpec => []MemTypeOK
<1>1. MemInit => MemShape
  BY MemShapeInit
<1>2. MemShape /\ [MemNext]_memVars => MemShape'
  BY MemShapeStep
<1>3. MemShape => MemTypeOK
  BY ShapeTyped
<1>4. QED BY <1>1, <1>2, <1>3, PTL DEF MemSpec

-----------------------------------------------------------------------------
\* A page enters a set of kinds, leaves it, or neither.
Shift(a, b, K) == (IF b \in K THEN 1 ELSE 0) - (IF a \in K THEN 1 ELSE 0)

\* The number of pages on each list changes by the shift of its kinds.
LEMMA ReadingsMove ==
  ASSUME Memory, NEW a \in Kind, NEW b \in Kind, a # b, MovePage(a, b)
  PROVE  /\ Reading'["freeram"] = Reading["freeram"] + Shift(a, b, {"free"})
         /\ Reading'["bufferram"] = Reading["bufferram"] + Shift(a, b, {"buffer"})
         /\ Reading'["swapcache"] = Reading["swapcache"] + Shift(a, b, {"swapcache"})
         /\ Reading'["available"] = Reading["available"]
               + Shift(a, b, {"free", "file_active", "file_inactive", "buffer"})
         /\ Reading'["file_pages"] = Reading["file_pages"]
               + Shift(a, b, {"file_active", "file_inactive", "buffer", "swapcache"})
         /\ Reading'["inactive_anon"] = Reading["inactive_anon"]
               + Shift(a, b, {"anon_inactive", "swapcache"})
         /\ Reading'["active_anon"] = Reading["active_anon"] + Shift(a, b, {"anon_active"})
         /\ Reading'["inactive_file"] = Reading["inactive_file"]
               + Shift(a, b, {"file_inactive", "buffer"})
         /\ Reading'["active_file"] = Reading["active_file"] + Shift(a, b, {"file_active"})
<1>1. \A k \in Kind : mem'[k] = mem[k] + Shift(a, b, {k})
  <2>1. \A k \in Kind : mem[k] \in Nat
    BY DEF Memory
  <2>2. QED BY <2>1, PageMoves DEF Shift
<1>2. \A k \in Kind : mem[k] \in Nat /\ Shift(a, b, {k}) \in Int
  BY DEF Memory, Shift
<1>3. /\ Shift(a, b, {"free", "file_active", "file_inactive", "buffer"})
           = Shift(a, b, {"free"}) + Shift(a, b, {"file_active"})
               + Shift(a, b, {"file_inactive"}) + Shift(a, b, {"buffer"})
      /\ Shift(a, b, {"file_active", "file_inactive", "buffer", "swapcache"})
           = Shift(a, b, {"file_active"}) + Shift(a, b, {"file_inactive"})
               + Shift(a, b, {"buffer"}) + Shift(a, b, {"swapcache"})
      /\ Shift(a, b, {"anon_inactive", "swapcache"})
           = Shift(a, b, {"anon_inactive"}) + Shift(a, b, {"swapcache"})
      /\ Shift(a, b, {"file_inactive", "buffer"})
           = Shift(a, b, {"file_inactive"}) + Shift(a, b, {"buffer"})
  BY DEF Shift, Kind
<1>4. QED BY <1>1, <1>2, <1>3 DEF Reading, FileLru, Kind

-----------------------------------------------------------------------------
\* What a call will have for a counter that it reads at its step k: its sample
\* once it has read it, what there is now before that.
Est(c, g, k) == IF step[c] > k THEN sample[c][g] ELSE Reading[g]

EstActive(c) == Est(c, "active_anon", 2) + Est(c, "active_file", 4)
EstInactive(c) == Est(c, "inactive_anon", 1) + Est(c, "inactive_file", 3)

InUsePages(c) == sys[c] = "use_pages" /\ step[c] # 0

\* While use_pages runs, what it will report is off by no more than what has
\* changed.
PagesClose(c) ==
  LET was == base[c].reading IN
  /\ Near(EstActive(c), Active(was), Moves(c))
  /\ Near(EstInactive(c), Inactive(was), Moves(c))
  /\ Near(EstActive(c) + EstInactive(c), Active(was) + Inactive(was), Moves(c))

PagesNear == \A c \in Call : InUsePages(c) => PagesClose(c)

EstCached(c) ==
  Est(c, "file_pages", 5) - Est(c, "swapcache", 6) - Est(c, "bufferram", 2)

InUseMem(c) == sys[c] = "use_mem" /\ step[c] # 0

\* The same of use_mem; and its free memory is not more than the available.
MemClose(c) ==
  LET was == base[c].reading IN
  /\ Near(Est(c, "freeram", 1), was["freeram"], Moves(c))
  /\ Near(Est(c, "available", 4), was["available"], Moves(c))
  /\ Est(c, "freeram", 1) <= Est(c, "available", 4) + Moves(c)
  /\ Near(EstCached(c), Cached(was), Moves(c))

MemNear == \A c \in Call : InUseMem(c) => MemClose(c)

\* Numbers that differ by d at most differ by d + 1 at most after a change by
\* one.
LEMMA NearStep ==
  ASSUME NEW x \in Int, NEW y \in Int, NEW d \in Int, NEW s \in {-1, 0, 1}, Near(x, y, d)
  PROVE  Near(x + s, y, d + 1)
BY DEF Near

LEMMA NearMore ==
  ASSUME NEW x \in Int, NEW y \in Int, NEW d \in Int, Near(x, y, d)
  PROVE  Near(x, y, d + 1)
BY DEF Near

\* Samples, counters and bases are numbers.
LEMMA EstInt ==
  ASSUME MemShape, NEW c \in Call, NEW g \in Gauge, NEW k \in Nat
  PROVE  /\ Est(c, g, k) \in Nat /\ sample[c][g] \in Nat /\ Reading[g] \in Nat
         /\ base[c].reading[g] \in Nat /\ Moves(c) \in Nat
BY ReadingBounds DEF MemShape, Calls, Bases, Memory, Est, Moves

\* A call that goes on has the same estimates, if it reads the counters at the
\* steps that Est takes them for.
LEMMA EstAdvance ==
  ASSUME MemShape, NEW c \in Call, step[c] # 0, UNCHANGED <<envVars, base>>,
         NEW v, Advance(c, v), NEW g \in Gauge, NEW k \in Nat,
         step[c] = k => v[g] = Reading[g],
         step[c] # k => v[g] = sample[c][g]
  PROVE  Est(c, g, k)' = Est(c, g, k)
<1>1. step[c] \in Nat /\ step'[c] = step[c] + 1 /\ sample'[c] = v
  BY DEF Advance, MemShape, Calls
<1>2. Reading' = Reading
  BY DEF envVars, Reading, FileLru
<1>3. CASE step[c] > k
  BY <1>1, <1>3 DEF Est
<1>4. CASE step[c] = k
  BY <1>1, <1>2, <1>4 DEF Est
<1>5. CASE step[c] < k
  BY <1>1, <1>2, <1>5 DEF Est
<1>6. QED BY <1>1, <1>3, <1>4, <1>5

\* The estimate of a counter follows the pages while it is not read.
LEMMA EstMoves ==
  ASSUME MemShape, NEW c \in Call, NEW g \in Gauge, NEW k \in Nat, NEW s \in Int,
         UNCHANGED callVars, Reading'[g] = Reading[g] + s
  PROVE  Est(c, g, k)' = Est(c, g, k) + (IF step[c] > k THEN 0 ELSE s)
<1>1. sample[c][g] \in Nat /\ Reading[g] \in Nat /\ UNCHANGED <<step, sample>>
  BY EstInt DEF callVars
<1>2. QED BY <1>1 DEF Est

\* A page that moves changes the estimates of use_pages by one at most, whichever
\* of the lists are read already.
LEMMA PagesMove ==
  ASSUME MemShape, PagesNear, NEW a \in Kind, NEW b \in Kind, a # b, MovePage(a, b)
  PROVE  PagesNear'
<1> SUFFICES ASSUME NEW c \in Call, InUsePages(c)'
             PROVE  PagesClose(c)'
  BY DEF PagesNear
<1> DEFINE was == base[c].reading
           s(k, K) == IF step[c] > k THEN 0 ELSE Shift(a, b, K)
           aa == s(2, {"anon_active"})
           af == s(4, {"file_active"})
           ia == s(1, {"anon_inactive", "swapcache"})
           if == s(3, {"file_inactive", "buffer"})
<1>1. UNCHANGED callVars /\ UNCHANGED <<sys, step, base>> /\ moved' = moved + 1
  BY DEF MovePage, callVars
<1>2. InUsePages(c)
  BY <1>1 DEF InUsePages
<1>3. /\ "active_anon" \in Gauge /\ "active_file" \in Gauge
      /\ "inactive_anon" \in Gauge /\ "inactive_file" \in Gauge
  BY DEF Gauge
<1>4. \A K : Shift(a, b, K) \in Int
  BY DEF Shift
<1>5. /\ Est(c, "active_anon", 2)' = Est(c, "active_anon", 2) + aa
      /\ Est(c, "active_file", 4)' = Est(c, "active_file", 4) + af
      /\ Est(c, "inactive_anon", 1)' = Est(c, "inactive_anon", 1) + ia
      /\ Est(c, "inactive_file", 3)' = Est(c, "inactive_file", 3) + if
  BY <1>1, <1>3, <1>4, EstMoves, ReadingsMove DEF MemShape
<1>6. /\ aa + af \in {-1, 0, 1} /\ ia + if \in {-1, 0, 1}
      /\ (aa + af) + (ia + if) \in {-1, 0, 1}
  BY DEF Shift
<1>7. aa \in Int /\ af \in Int /\ ia \in Int /\ if \in Int
  BY <1>4
<1>8. /\ Est(c, "active_anon", 2) \in Int /\ Est(c, "active_file", 4) \in Int
      /\ Est(c, "inactive_anon", 1) \in Int /\ Est(c, "inactive_file", 3) \in Int
      /\ Moves(c) \in Int /\ Active(was) \in Int /\ Inactive(was) \in Int
  BY <1>3, EstInt DEF Active, Inactive
<1> HIDE DEF aa, af, ia, if, was
<1>9. /\ EstActive(c)' = EstActive(c) + (aa + af)
      /\ EstInactive(c)' = EstInactive(c) + (ia + if)
      /\ (EstActive(c) + EstInactive(c))' = (EstActive(c) + EstInactive(c)) + ((aa + af) + (ia + if))
      /\ EstActive(c) \in Int /\ EstInactive(c) \in Int
  BY <1>5, <1>7, <1>8 DEF EstActive, EstInactive
<1>10. Moves(c)' = Moves(c) + 1 /\ base' = base
  <2>1. moved \in Nat /\ base[c].moved \in Nat
    BY DEF MemShape, Memory, Bases
  <2>2. QED BY <1>1, <2>1 DEF Moves
<1>11. /\ Near(EstActive(c), Active(was), Moves(c))
       /\ Near(EstInactive(c), Inactive(was), Moves(c))
       /\ Near(EstActive(c) + EstInactive(c), Active(was) + Inactive(was), Moves(c))
  BY <1>2 DEF PagesNear, PagesClose, was
<1>12. Near(EstActive(c) + (aa + af), Active(was), Moves(c) + 1)
  BY <1>6, <1>8, <1>9, <1>11, NearStep
<1>13. Near(EstInactive(c) + (ia + if), Inactive(was), Moves(c) + 1)
  BY <1>6, <1>8, <1>9, <1>11, NearStep
<1>14. Near((EstActive(c) + EstInactive(c)) + ((aa + af) + (ia + if)),
            Active(was) + Inactive(was), Moves(c) + 1)
  <2>1. EstActive(c) + EstInactive(c) \in Int /\ Active(was) + Inactive(was) \in Int
    BY <1>8, <1>9
  <2>2. QED BY <1>6, <1>8, <1>11, <2>1, NearStep
<1>15. PagesClose(c)'
  BY <1>9, <1>10, <1>12, <1>13, <1>14 DEF PagesClose, Near, was
<1>16. QED BY <1>15

\* The same of use_mem: a page that is cached is not also in the buffers or the
\* swap cache.
LEMMA MemMoves ==
  ASSUME MemShape, MemNear, NEW a \in Kind, NEW b \in Kind, a # b, MovePage(a, b)
  PROVE  MemNear'
<1> SUFFICES ASSUME NEW c \in Call, InUseMem(c)'
             PROVE  MemClose(c)'
  BY DEF MemNear
<1> DEFINE was == base[c].reading
           s(k, K) == IF step[c] > k THEN 0 ELSE Shift(a, b, K)
           fr == s(1, {"free"})
           av == s(4, {"free", "file_active", "file_inactive", "buffer"})
           fp == s(5, {"file_active", "file_inactive", "buffer", "swapcache"})
           sc == s(6, {"swapcache"})
           bu == s(2, {"buffer"})
<1>1. UNCHANGED callVars /\ UNCHANGED <<sys, step, base>> /\ moved' = moved + 1
  BY DEF MovePage, callVars
<1>2. InUseMem(c) /\ step[c] \in Nat
  BY <1>1 DEF InUseMem, MemShape, Calls
<1>3. /\ "freeram" \in Gauge /\ "available" \in Gauge /\ "file_pages" \in Gauge
      /\ "swapcache" \in Gauge /\ "bufferram" \in Gauge
  BY DEF Gauge
<1>4. \A K : Shift(a, b, K) \in Int
  BY DEF Shift
<1>5. /\ Est(c, "freeram", 1)' = Est(c, "freeram", 1) + fr
      /\ Est(c, "available", 4)' = Est(c, "available", 4) + av
      /\ Est(c, "file_pages", 5)' = Est(c, "file_pages", 5) + fp
      /\ Est(c, "swapcache", 6)' = Est(c, "swapcache", 6) + sc
      /\ Est(c, "bufferram", 2)' = Est(c, "bufferram", 2) + bu
  BY <1>1, <1>3, <1>4, EstMoves, ReadingsMove DEF MemShape
<1>6. /\ fr \in {-1, 0, 1} /\ av \in {-1, 0, 1} /\ fp - sc - bu \in {-1, 0, 1}
      /\ fr <= av + 1
  BY <1>2 DEF Shift
<1>7. fr \in Int /\ av \in Int /\ fp \in Int /\ sc \in Int /\ bu \in Int
  BY <1>4
<1>8. /\ Est(c, "freeram", 1) \in Int /\ Est(c, "available", 4) \in Int
      /\ Est(c, "file_pages", 5) \in Int /\ Est(c, "swapcache", 6) \in Int
      /\ Est(c, "bufferram", 2) \in Int /\ Moves(c) \in Int
      /\ was["freeram"] \in Int /\ was["available"] \in Int /\ Cached(was) \in Int
  BY <1>3, EstInt DEF Cached
<1> HIDE DEF fr, av, fp, sc, bu, was
<1>9. EstCached(c)' = EstCached(c) + (fp - sc - bu) /\ EstCached(c) \in Int
  BY <1>5, <1>7, <1>8 DEF EstCached
<1>10. Moves(c)' = Moves(c) + 1 /\ base' = base
  <2>1. moved \in Nat /\ base[c].moved \in Nat
    BY DEF MemShape, Memory, Bases
  <2>2. QED BY <1>1, <2>1 DEF Moves
<1>11. /\ Near(Est(c, "freeram", 1), was["freeram"], Moves(c))
       /\ Near(Est(c, "available", 4), was["available"], Moves(c))
       /\ Est(c, "freeram", 1) <= Est(c, "available", 4) + Moves(c)
       /\ Near(EstCached(c), Cached(was), Moves(c))
  BY <1>2 DEF MemNear, MemClose, was
<1>12. Near(Est(c, "freeram", 1) + fr, was["freeram"], Moves(c) + 1)
  BY <1>6, <1>8, <1>11, NearStep
<1>13. Near(Est(c, "available", 4) + av, was["available"], Moves(c) + 1)
  BY <1>6, <1>8, <1>11, NearStep
<1>14. Est(c, "freeram", 1) + fr <= (Est(c, "available", 4) + av) + (Moves(c) + 1)
  BY <1>6, <1>7, <1>8, <1>11
<1>15. Near(EstCached(c) + (fp - sc - bu), Cached(was), Moves(c) + 1)
  BY <1>6, <1>8, <1>9, <1>11, NearStep
<1>16. MemClose(c)'
  BY <1>5, <1>9, <1>10, <1>12, <1>13, <1>14, <1>15 DEF MemClose, Near, was
<1>17. QED BY <1>16

-----------------------------------------------------------------------------
\* What the two calls have reported.
PagesReported(c) ==
  LET was == base[c].reading IN
  /\ Near(out[c][1], Active(was), Moves(c))
  /\ Near(out[c][2], Inactive(was), Moves(c))
  /\ Near(out[c][1] + out[c][2], Active(was) + Inactive(was), Moves(c))

MemReported(c) ==
  LET was == base[c].reading
      off == 4 * Moves(c)
  IN  /\ Near(out[c][1], 4 * was["freeram"], off)
      /\ Near(out[c][2], 4 * (TotalRam - was["available"]), off)
      /\ out[c][1] + out[c][2] <= out[c][4] + off
      /\ Cached(was) >= Moves(c) => Near(out[c][3], 4 * Cached(was), off)

\* Everything that is claimed of one call.
Claims(c) ==
  /\ InUsePages(c) => PagesClose(c)
  /\ InUseMem(c) => MemClose(c)
  /\ Succeeded(c, "use_pages") => PagesReported(c) /\ out[c][1] \in Nat /\ out[c][2] \in Nat
  /\ Succeeded(c, "use_mem") => MemReported(c) /\ \A i \in 1 .. 4 : out[c][i] \in Nat

\* A change counts for a call that does nothing meanwhile.
Untouched(c) ==
  /\ sys'[c] = sys[c] /\ step'[c] = step[c] /\ sample'[c] = sample[c]
  /\ ret'[c] = ret[c] /\ out'[c] = out[c] /\ base'[c] = base[c]

LEMMA BaseInt ==
  ASSUME MemShape, NEW c \in Call
  PROVE  LET was == base[c].reading IN
         /\ Active(was) \in Int /\ Inactive(was) \in Int /\ Cached(was) \in Int
         /\ was["freeram"] \in Int /\ was["available"] \in Int
         /\ Moves(c) \in Nat
<1>1. \A g \in Gauge : base[c].reading[g] \in Nat
  BY DEF MemShape, Bases
<1>2. Moves(c) \in Nat
  BY DEF MemShape, Bases, Memory, Moves
<1>3. QED BY <1>1, <1>2 DEF Gauge, Active, Inactive, Cached

\* What was reported stays near when more changes.
LEMMA ReportedStays ==
  ASSUME MemShape, NEW c \in Call, Untouched(c), moved' \in {moved, moved + 1}
  PROVE  /\ PagesReported(c) /\ out[c][1] \in Nat /\ out[c][2] \in Nat => PagesReported(c)'
         /\ MemReported(c) /\ (\A i \in 1 .. 4 : out[c][i] \in Nat) => MemReported(c)'
<1> DEFINE was == base[c].reading
<1>1. Moves(c)' \in {Moves(c), Moves(c) + 1} /\ Moves(c) \in Nat
  <2>1. moved \in Nat /\ base[c].moved \in Nat /\ base'[c].moved = base[c].moved
    BY DEF MemShape, Memory, Bases, Untouched
  <2>2. QED BY <2>1, BaseInt DEF Moves
<1>2. /\ Active(was) \in Int /\ Inactive(was) \in Int /\ Cached(was) \in Int
      /\ was["freeram"] \in Int /\ was["available"] \in Int
  BY BaseInt
<1>3. base'[c].reading = was /\ out'[c] = out[c]
  BY DEF Untouched
<1> HIDE DEF was
<1>4. ASSUME PagesReported(c), out[c][1] \in Nat, out[c][2] \in Nat PROVE PagesReported(c)'
  <2>1. /\ Near(out[c][1], Active(was), Moves(c))
        /\ Near(out[c][2], Inactive(was), Moves(c))
        /\ Near(out[c][1] + out[c][2], Active(was) + Inactive(was), Moves(c))
    BY <1>4 DEF PagesReported, was
  <2>2. /\ Near(out[c][1], Active(was), Moves(c)')
        /\ Near(out[c][2], Inactive(was), Moves(c)')
        /\ Near(out[c][1] + out[c][2], Active(was) + Inactive(was), Moves(c)')
    BY <1>1, <1>2, <1>4, <2>1 DEF Near
  <2>3. QED BY <1>3, <2>2 DEF PagesReported, Near
<1>5. ASSUME MemReported(c), \A i \in 1 .. 4 : out[c][i] \in Nat PROVE MemReported(c)'
  <2>1. out[c][1] \in Nat /\ out[c][2] \in Nat /\ out[c][3] \in Nat /\ out[c][4] \in Nat
    BY <1>5
  <2>2. /\ Near(out[c][1], 4 * was["freeram"], 4 * Moves(c))
        /\ Near(out[c][2], 4 * (TotalRam - was["available"]), 4 * Moves(c))
        /\ out[c][1] + out[c][2] <= out[c][4] + 4 * Moves(c)
        /\ Cached(was) >= Moves(c) => Near(out[c][3], 4 * Cached(was), 4 * Moves(c))
    BY <1>5 DEF MemReported, was
  <2>3. /\ Near(out[c][1], 4 * was["freeram"], 4 * Moves(c)')
        /\ Near(out[c][2], 4 * (TotalRam - was["available"]), 4 * Moves(c)')
        /\ out[c][1] + out[c][2] <= out[c][4] + 4 * Moves(c)'
        /\ Cached(was) >= Moves(c)' => Near(out[c][3], 4 * Cached(was), 4 * Moves(c)')
    BY <1>1, <1>2, <2>1, <2>2, Sizes DEF Near
  <2>4. QED BY <1>3, <2>3 DEF MemReported, Near
<1>6. QED BY <1>4, <1>5

\* A step after which the pages are as they were changes no estimate of a call
\* that it is not a step of.
LEMMA CloseStays ==
  ASSUME MemShape, NEW c \in Call, Untouched(c), mem' = mem, moved' \in {moved, moved + 1}
  PROVE  /\ PagesClose(c) => PagesClose(c)'
         /\ MemClose(c) => MemClose(c)'
<1> DEFINE was == base[c].reading
<1>1. Moves(c)' \in {Moves(c), Moves(c) + 1} /\ Moves(c) \in Nat
  <2>1. moved \in Nat /\ base[c].moved \in Nat /\ base'[c].moved = base[c].moved
    BY DEF MemShape, Memory, Bases, Untouched
  <2>2. QED BY <2>1, BaseInt DEF Moves
<1>2. /\ Active(was) \in Int /\ Inactive(was) \in Int /\ Cached(was) \in Int
      /\ was["freeram"] \in Int /\ was["available"] \in Int
  BY BaseInt
<1>3. ASSUME NEW g \in Gauge \ {"freeswap"}, NEW k \in Nat
      PROVE  Est(c, g, k)' = Est(c, g, k) /\ Est(c, g, k) \in Nat
  <2>1. Reading'[g] = Reading[g]
    BY DEF Reading, FileLru, Gauge
  <2>2. QED BY <2>1, EstInt DEF Est, Untouched
<1>4. /\ EstActive(c)' = EstActive(c) /\ EstInactive(c)' = EstInactive(c)
      /\ EstCached(c)' = EstCached(c)
      /\ Est(c, "freeram", 1)' = Est(c, "freeram", 1)
      /\ Est(c, "available", 4)' = Est(c, "available", 4)
      /\ EstActive(c) \in Int /\ EstInactive(c) \in Int /\ EstCached(c) \in Int
      /\ Est(c, "freeram", 1) \in Int /\ Est(c, "available", 4) \in Int
  <2>1. {"freeram", "available", "file_pages", "swapcache", "bufferram", "active_anon",
         "active_file", "inactive_anon", "inactive_file"} \subseteq Gauge \ {"freeswap"}
    BY DEF Gauge
  <2>2. /\ Est(c, "active_anon", 2)' = Est(c, "active_anon", 2)
        /\ Est(c, "active_file", 4)' = Est(c, "active_file", 4)
        /\ Est(c, "active_anon", 2) \in Nat /\ Est(c, "active_file", 4) \in Nat
    BY <1>3, <2>1
  <2>3. /\ Est(c, "inactive_anon", 1)' = Est(c, "inactive_anon", 1)
        /\ Est(c, "inactive_file", 3)' = Est(c, "inactive_file", 3)
        /\ Est(c, "inactive_anon", 1) \in Nat /\ Est(c, "inactive_file", 3) \in Nat
    BY <1>3, <2>1
  <2>4. /\ Est(c, "file_pages", 5)' = Est(c, "file_pages", 5)
        /\ Est(c, "swapcache", 6)' = Est(c, "swapcache", 6)
        /\ Est(c, "bufferram", 2)' = Est(c, "bufferram", 2)
        /\ Est(c, "file_pages", 5) \in Nat /\ Est(c, "swapcache", 6) \in Nat
        /\ Est(c, "bufferram", 2) \in Nat
    BY <1>3, <2>1
  <2>5. /\ Est(c, "freeram", 1)' = Est(c, "freeram", 1)
        /\ Est(c, "available", 4)' = Est(c, "available", 4)
        /\ Est(c, "freeram", 1) \in Nat /\ Est(c, "available", 4) \in Nat
    BY <1>3, <2>1
  <2>6. QED BY <2>2, <2>3, <2>4, <2>5 DEF EstActive, EstInactive, EstCached
<1>5. base'[c].reading = was
  BY DEF Untouched
<1> HIDE DEF was
<1>6. ASSUME PagesClose(c) PROVE PagesClose(c)'
  <2>1. /\ Near(EstActive(c), Active(was), Moves(c)')
        /\ Near(EstInactive(c), Inactive(was), Moves(c)')
        /\ Near(EstActive(c) + EstInactive(c), Active(was) + Inactive(was), Moves(c)')
    BY <1>1, <1>2, <1>4, <1>6 DEF Near, PagesClose, was
  <2>2. QED BY <1>4, <1>5, <2>1 DEF PagesClose, Near
<1>7. ASSUME MemClose(c) PROVE MemClose(c)'
  <2>1. /\ Near(Est(c, "freeram", 1), was["freeram"], Moves(c)')
        /\ Near(Est(c, "available", 4), was["available"], Moves(c)')
        /\ Est(c, "freeram", 1) <= Est(c, "available", 4) + Moves(c)'
        /\ Near(EstCached(c), Cached(was), Moves(c)')
    BY <1>1, <1>2, <1>4, <1>7 DEF Near, MemClose, was
  <2>2. QED BY <1>4, <1>5, <2>1 DEF MemClose, Near
<1>8. QED BY <1>6, <1>7

ClaimsHold == MemShape /\ \A c \in Call : Claims(c)

\* The rest of the system keeps the claims.
LEMMA SystemClaims ==
  ASSUME ClaimsHold, System
  PROVE  \A c \in Call : Claims(c)'
<1> SUFFICES ASSUME NEW c \in Call PROVE Claims(c)'
  OBVIOUS
<1>1. MemShape /\ Claims(c)
  BY DEF ClaimsHold
<1>2. UNCHANGED callVars /\ moved' \in {moved, moved + 1}
  BY <1>1, SystemKeeps
<1>3. Untouched(c) /\ UNCHANGED <<sys, step, ret, out>>
  BY <1>2 DEF callVars, Untouched
<1>4. (PagesReported(c) /\ out[c][1] \in Nat /\ out[c][2] \in Nat => PagesReported(c)')
      /\ (MemReported(c) /\ (\A i \in 1 .. 4 : out[c][i] \in Nat) => MemReported(c)')
  BY <1>1, <1>2, <1>3, ReportedStays
<1>5. (InUsePages(c) => PagesClose(c)') /\ (InUseMem(c) => MemClose(c)')
  <2>1. ASSUME NEW f \in Flow, MovePage(f[1], f[2])
        PROVE  (InUsePages(c) => PagesClose(c)') /\ (InUseMem(c) => MemClose(c)')
    <3>1. PagesNear /\ MemNear
      BY DEF ClaimsHold, Claims, PagesNear, MemNear
    <3>2. PagesNear' /\ MemNear'
      BY <1>1, <2>1, <3>1, FlowKinds, PagesMove, MemMoves
    <3>3. QED BY <1>3, <3>2 DEF PagesNear, MemNear, InUsePages, InUseMem
  <2>2. CASE mem' = mem
    BY <1>1, <1>2, <1>3, <2>2, CloseStays DEF Claims
  <2>3. QED BY <2>1, <2>2 DEF System, ReleaseSlot, PageFault
<1>6. QED
  BY <1>1, <1>3, <1>4, <1>5 DEF Claims, InUsePages, InUseMem, Succeeded

\* A step of a call keeps the claims of the others.
LEMMA OthersClaims ==
  ASSUME ClaimsHold, NEW c \in Call, Untouched(c), UNCHANGED envVars
  PROVE  Claims(c)'
<1>1. MemShape /\ Claims(c) /\ mem' = mem /\ moved' \in {moved, moved + 1}
  BY DEF ClaimsHold, envVars
<1>2. (PagesReported(c) /\ out[c][1] \in Nat /\ out[c][2] \in Nat => PagesReported(c)')
      /\ (MemReported(c) /\ (\A i \in 1 .. 4 : out[c][i] \in Nat) => MemReported(c)')
  BY <1>1, ReportedStays
<1>3. (PagesClose(c) => PagesClose(c)') /\ (MemClose(c) => MemClose(c)')
  BY <1>1, CloseStays
<1>4. QED
  BY <1>1, <1>2, <1>3 DEF Claims, InUsePages, InUseMem, Succeeded, Untouched

\* When a call begins, its estimates are what there is.
LEMMA BeginClaims ==
  ASSUME ClaimsHold, NEW c \in Call, NEW s \in MemCall, Begin(c, s)
  PROVE  Claims(c)'
<1>1. /\ step'[c] = 1 /\ base'[c].reading = Reading /\ base'[c].moved = moved
      /\ Reading' = Reading /\ moved' = moved /\ moved \in Nat
  BY DEF Begin, envVars, Reading, FileLru, ClaimsHold, MemShape, Calls, Bases, Memory
<1>2. \A g \in Gauge, k \in Nat \ {0} : Est(c, g, k)' = Reading[g]
  BY <1>1 DEF Est
<1>3. Moves(c)' = 0
  BY <1>1 DEF Moves
<1>4. \A g \in Gauge : Reading[g] \in Nat
  BY ReadingBounds DEF ClaimsHold, MemShape
<1>5. PagesClose(c)'
  <2>1. EstActive(c)' = Active(Reading) /\ EstInactive(c)' = Inactive(Reading)
    BY <1>2 DEF EstActive, EstInactive, Active, Inactive, Gauge
  <2>2. Active(Reading) \in Int /\ Inactive(Reading) \in Int
    BY <1>4 DEF Active, Inactive, Gauge
  <2>3. QED BY <1>1, <1>3, <2>1, <2>2 DEF PagesClose, Near
<1>6. MemClose(c)'
  <2>1. /\ Est(c, "freeram", 1)' = Reading["freeram"]
        /\ Est(c, "available", 4)' = Reading["available"]
        /\ Est(c, "file_pages", 5)' = Reading["file_pages"]
        /\ Est(c, "swapcache", 6)' = Reading["swapcache"]
        /\ Est(c, "bufferram", 2)' = Reading["bufferram"]
    BY <1>2 DEF Gauge
  <2>2. EstCached(c)' = Cached(Reading)
    BY <2>1 DEF EstCached, Cached
  <2>3. Reading["freeram"] \in Int /\ Reading["available"] \in Int /\ Cached(Reading) \in Int
    BY <1>4 DEF Cached, Gauge
  <2>4. Reading["freeram"] <= Reading["available"]
    <3>1. /\ mem["free"] \in Nat /\ mem["file_active"] \in Nat
          /\ mem["file_inactive"] \in Nat /\ mem["buffer"] \in Nat
      BY DEF ClaimsHold, MemShape, Memory, Kind
    <3>2. QED BY <3>1 DEF Reading, FileLru
  <2>5. QED BY <1>1, <1>3, <2>1, <2>2, <2>3, <2>4 DEF MemClose, Near
<1>7. QED
  BY <1>1, <1>5, <1>6 DEF Claims, Succeeded

-----------------------------------------------------------------------------
\* A call goes on to its next step.
Going(c) ==
  \/ /\ At(c) \in Gauge
     /\ Advance(c, [sample[c] EXCEPT ![At(c)] = Reading[At(c)]])
  \/ At(c) = "cpu" /\ Advance(c, CountedUp(c, step[c] - 1))
  \/ At(c) = "kmalloc" /\ Advance(c, sample[c])

\* The counters that a call reads while it goes on are read at their steps.
LEMMA GoingEst ==
  ASSUME MemShape, NEW c \in Call, step[c] # 0, UNCHANGED <<envVars, base>>, Going(c),
         NEW g \in Gauge, NEW k \in Nat, step[c] = k <=> At(c) = g
  PROVE  Est(c, g, k)' = Est(c, g, k)
<1>1. sample[c] \in [Gauge \cup Event -> Nat] /\ g # "cpu" /\ g # "kmalloc"
  BY DEF MemShape, Calls, Gauge
<1>2. CASE At(c) \in Gauge /\ Advance(c, [sample[c] EXCEPT ![At(c)] = Reading[At(c)]])
  <2> DEFINE v == [sample[c] EXCEPT ![At(c)] = Reading[At(c)]]
  <2>1. /\ step[c] = k => v[g] = Reading[g]
        /\ step[c] # k => v[g] = sample[c][g]
    BY <1>1
  <2> HIDE DEF v
  <2>2. Advance(c, v)
    BY <1>2 DEF v
  <2>3. QED BY <2>1, <2>2, EstAdvance
<1>3. CASE At(c) = "cpu" /\ Advance(c, CountedUp(c, step[c] - 1))
  <2>1. CountedUp(c, step[c] - 1)[g] = sample[c][g]
    BY DEF CountedUp, Gauge, Event
  <2>2. QED BY <1>1, <1>3, <2>1, EstAdvance
<1>4. CASE At(c) = "kmalloc" /\ Advance(c, sample[c])
  BY <1>1, <1>4, EstAdvance
<1>5. QED BY <1>2, <1>3, <1>4 DEF Going

\* When each counter is read.
LEMMA UsePagesAt ==
  ASSUME MemShape, NEW c \in Call, InUsePages(c)
  PROVE  /\ step[c] \in 1 .. 6 /\ (At(c) = "copy" <=> step[c] = 6)
         /\ step[c] = 1 <=> At(c) = "inactive_anon"
         /\ step[c] = 2 <=> At(c) = "active_anon"
         /\ step[c] = 3 <=> At(c) = "inactive_file"
         /\ step[c] = 4 <=> At(c) = "active_file"
<1>0. /\ Len(Program[sys[c]]) = 5 /\ Program[sys[c]] = UsePagesSteps
      /\ step[c] # 0 /\ step[c] \in Nat /\ step[c] \in 1 .. Len(Program[sys[c]]) + 1
  <2>1. sys[c] = "use_pages" /\ step[c] # 0
    BY DEF InUsePages
  <2>2. step[c] \in Nat /\ step[c] \in 1 .. Len(Program[sys[c]]) + 1
    BY <2>1 DEF MemShape, Calls
  <2>3. QED BY <2>1, <2>2, Lengths DEF Program
<1>1. step[c] \in 1 .. 6
  BY <1>0
<1>2. At(c) = IF step[c] <= 5 THEN UsePagesSteps[step[c]] ELSE "copy"
  BY <1>0 DEF At
<1>3. /\ UsePagesSteps[1] = "inactive_anon" /\ UsePagesSteps[2] = "active_anon"
      /\ UsePagesSteps[3] = "inactive_file" /\ UsePagesSteps[4] = "active_file"
      /\ UsePagesSteps[5] = "kmalloc"
  BY DEF UsePagesSteps
<1>4. QED BY <1>1, <1>2, <1>3

LEMMA UseMemAt ==
  ASSUME MemShape, NEW c \in Call, InUseMem(c)
  PROVE  /\ step[c] \in 1 .. 7 /\ (At(c) = "copy" <=> step[c] = 7)
         /\ step[c] = 1 <=> At(c) = "freeram"
         /\ step[c] = 2 <=> At(c) = "bufferram"
         /\ step[c] = 4 <=> At(c) = "available"
         /\ step[c] = 5 <=> At(c) = "file_pages"
         /\ step[c] = 6 <=> At(c) = "swapcache"
<1>0. /\ Len(Program[sys[c]]) = 6 /\ Program[sys[c]] = UseMemSteps
      /\ step[c] # 0 /\ step[c] \in Nat /\ step[c] \in 1 .. Len(Program[sys[c]]) + 1
  <2>1. sys[c] = "use_mem" /\ step[c] # 0
    BY DEF InUseMem
  <2>2. step[c] \in Nat /\ step[c] \in 1 .. Len(Program[sys[c]]) + 1
    BY <2>1 DEF MemShape, Calls
  <2>3. QED BY <2>1, <2>2, Lengths DEF Program
<1>1. step[c] \in 1 .. 7
  BY <1>0
<1>2. At(c) = IF step[c] <= 6 THEN UseMemSteps[step[c]] ELSE "copy"
  BY <1>0 DEF At
<1>3. /\ UseMemSteps[1] = "freeram" /\ UseMemSteps[2] = "bufferram"
      /\ UseMemSteps[3] = "kmalloc" /\ UseMemSteps[4] = "available"
      /\ UseMemSteps[5] = "file_pages" /\ UseMemSteps[6] = "swapcache"
  BY DEF UseMemSteps
<1>4. QED BY <1>1, <1>2, <1>3

LEMMA GoingClaims ==
  ASSUME ClaimsHold, NEW c \in Call, step[c] # 0, UNCHANGED <<envVars, sys, base>>, Going(c)
  PROVE  Claims(c)'
<1>1. MemShape /\ Claims(c) /\ UNCHANGED <<moved, base, sys>>
  BY DEF ClaimsHold, envVars
<1>2. step'[c] = step[c] + 1 /\ step'[c] # 0
  BY <1>1 DEF Going, Advance, MemShape, Calls
<1>3. Moves(c)' = Moves(c)
  BY <1>1 DEF Moves
<1>4. ASSUME InUsePages(c) PROVE PagesClose(c)'
  <2>1. /\ Est(c, "active_anon", 2)' = Est(c, "active_anon", 2)
        /\ Est(c, "active_file", 4)' = Est(c, "active_file", 4)
        /\ Est(c, "inactive_anon", 1)' = Est(c, "inactive_anon", 1)
        /\ Est(c, "inactive_file", 3)' = Est(c, "inactive_file", 3)
    BY <1>1, <1>4, UsePagesAt, GoingEst DEF Gauge
  <2>2. EstActive(c)' = EstActive(c) /\ EstInactive(c)' = EstInactive(c)
    BY <2>1 DEF EstActive, EstInactive
  <2>3. QED BY <1>1, <1>3, <1>4, <2>2 DEF Claims, PagesClose
<1>5. ASSUME InUseMem(c) PROVE MemClose(c)'
  <2>1. /\ Est(c, "freeram", 1)' = Est(c, "freeram", 1)
        /\ Est(c, "available", 4)' = Est(c, "available", 4)
        /\ Est(c, "file_pages", 5)' = Est(c, "file_pages", 5)
        /\ Est(c, "swapcache", 6)' = Est(c, "swapcache", 6)
        /\ Est(c, "bufferram", 2)' = Est(c, "bufferram", 2)
    BY <1>1, <1>5, UseMemAt, GoingEst DEF Gauge
  <2>2. EstCached(c)' = EstCached(c)
    BY <2>1 DEF EstCached
  <2>3. QED BY <1>1, <1>3, <1>5, <2>1, <2>2 DEF Claims, MemClose
<1>6. QED
  BY <1>1, <1>2, <1>4, <1>5 DEF Claims, InUsePages, InUseMem, Succeeded

\* A result other than 0 claims nothing.
LEMMA FailedClaims ==
  ASSUME MemShape, NEW c \in Call, NEW r \in Int \ {0}, Return(c, r)
  PROVE  Claims(c)'
<1>1. step'[c] = 0 /\ ret'[c] = r
  BY DEF Return, MemShape, Calls
<1>2. QED BY <1>1 DEF Claims, InUsePages, InUseMem, Succeeded

\* When use_pages and use_mem succeed, their words are the estimates.
LEMMA SuccessClaims ==
  ASSUME ClaimsHold, NEW c \in Call, At(c) = "copy", step[c] # 0, Return(c, 0),
         UNCHANGED <<envVars, sys, base>>,
         LET info == Info(sample[c])[sys[c]] IN
           \A i \in 1 .. Len(info) : out'[c][i] = info[i]
  PROVE  Claims(c)'
<1>1. MemShape /\ Claims(c) /\ UNCHANGED <<moved, base, sys>>
  BY DEF ClaimsHold, envVars
<1>2. step'[c] = 0 /\ Moves(c)' = Moves(c)
  BY <1>1 DEF Return, MemShape, Calls, Moves
<1>3. \A g \in Gauge : sample[c][g] \in Nat
  BY <1>1 DEF MemShape, Calls
<1>4. ASSUME sys[c] = "use_pages"
      PROVE  PagesReported(c)' /\ out'[c][1] \in Nat /\ out'[c][2] \in Nat
  <2>1. InUsePages(c) /\ step[c] = 6
    BY <1>1, <1>4, UsePagesAt DEF InUsePages
  <2>2. Info(sample[c])[sys[c]] = UsePagesWords(sample[c])
    BY <1>4 DEF Info
  <2>3. Len(UsePagesWords(sample[c])) = 2
    BY DEF UsePagesWords
  <2>4. out'[c][1] = UsePagesWords(sample[c])[1] /\ out'[c][2] = UsePagesWords(sample[c])[2]
    BY <2>2, <2>3
  <2>5. out'[c][1] = EstActive(c) /\ out'[c][2] = EstInactive(c)
    BY <2>1, <2>4 DEF UsePagesWords, EstActive, EstInactive, Est
  <2>6. EstActive(c) \in Nat /\ EstInactive(c) \in Nat
    <3>1. /\ sample[c]["active_anon"] \in Nat /\ sample[c]["active_file"] \in Nat
          /\ sample[c]["inactive_anon"] \in Nat /\ sample[c]["inactive_file"] \in Nat
      BY <1>3 DEF Gauge
    <3>2. QED BY <2>1, <3>1, SMTT(30) DEF EstActive, EstInactive, Est
  <2>7. PagesClose(c)
    BY <1>1, <2>1 DEF Claims
  <2>8. QED BY <1>1, <1>2, <2>5, <2>6, <2>7 DEF PagesClose, PagesReported, Near
<1>5. ASSUME sys[c] = "use_mem"
      PROVE  MemReported(c)' /\ \A i \in 1 .. 4 : out'[c][i] \in Nat
  <2> DEFINE s == sample[c]
             was == base[c].reading
  <2>1. InUseMem(c) /\ step[c] = 7
    BY <1>1, <1>5, UseMemAt DEF InUseMem
  <2>2. Info(s)[sys[c]] = UseMemWords(s)
    BY <1>5 DEF Info
  <2>3. Len(UseMemWords(s)) = 4
    BY DEF UseMemWords
  <2>4. /\ out'[c][1] = Kb(s["freeram"]) /\ out'[c][2] = Kb(TotalRam - s["available"])
        /\ out'[c][3] = Kb(Cached(s)) /\ out'[c][4] = Kb(TotalRam)
    BY <2>2, <2>3 DEF UseMemWords
  <2>5. /\ s["freeram"] \in Nat /\ s["freeram"] <= TotalRam
        /\ s["available"] \in Nat /\ s["available"] <= TotalRam
        /\ s["file_pages"] \in Nat /\ s["file_pages"] <= TotalRam
        /\ s["swapcache"] \in Nat /\ s["bufferram"] \in Nat
    BY <1>1, <1>3 DEF MemShape, Calls, Small, Gauge
  <2>6. /\ Est(c, "freeram", 1) = s["freeram"] /\ Est(c, "available", 4) = s["available"]
        /\ EstCached(c) = Cached(s)
    BY <2>1 DEF Est, EstCached, Cached
  <2>7. MemClose(c)
    BY <1>1, <2>1 DEF Claims
  <2> HIDE DEF s, was
  <2>8. \A x \in Nat : x <= TotalRam => Kb(x) = 4 * x
    <3>1. ASSUME NEW x \in Nat, NEW w \in Nat, 4 * x < w PROVE (4 * x) % w = 4 * x
      BY <3>1
    <3>2. QED BY <3>1, Sizes DEF Kb
  <2>9. TotalRam - s["available"] \in Nat /\ TotalRam - s["available"] <= TotalRam /\ Cached(s) \in Int
        /\ Cached(s) <= TotalRam
    BY <2>5, Sizes DEF Cached
  <2>10. /\ out'[c][1] = 4 * s["freeram"] /\ out'[c][2] = 4 * (TotalRam - s["available"])
         /\ out'[c][4] = 4 * TotalRam /\ (Cached(s) >= 0 => out'[c][3] = 4 * Cached(s))
    <3>1. TotalRam \in Nat /\ TotalRam <= TotalRam
      BY Sizes
    <3>2. Cached(s) >= 0 => Cached(s) \in Nat
      BY <2>9
    <3>3. QED BY <2>4, <2>5, <2>8, <2>9, <3>1, <3>2
  <2>11. \A i \in 1 .. 4 : out'[c][i] \in Nat
    <3>1. s["freeram"] \in Int /\ TotalRam - s["available"] \in Int /\ TotalRam \in Int
      BY <2>5, <2>9, Sizes
    <3>2. out'[c][1] \in Nat /\ out'[c][2] \in Nat /\ out'[c][3] \in Nat /\ out'[c][4] \in Nat
      BY <2>4, <2>9, <3>1, KbNat
    <3>3. QED BY <3>2
  <2>12. /\ Near(s["freeram"], was["freeram"], Moves(c))
         /\ Near(s["available"], was["available"], Moves(c))
         /\ s["freeram"] <= s["available"] + Moves(c)
         /\ Near(Cached(s), Cached(was), Moves(c))
    BY <2>6, <2>7 DEF MemClose, was
  <2>13. /\ was["freeram"] \in Int /\ was["available"] \in Int /\ Cached(was) \in Int
         /\ Moves(c) \in Nat
    BY <1>1, BaseInt DEF was
  <2>14. /\ Near(4 * s["freeram"], 4 * was["freeram"], 4 * Moves(c))
         /\ Near(4 * (TotalRam - s["available"]), 4 * (TotalRam - was["available"]), 4 * Moves(c))
         /\ 4 * s["freeram"] + 4 * (TotalRam - s["available"]) <= 4 * TotalRam + 4 * Moves(c)
         /\ Cached(was) >= Moves(c) =>
              Cached(s) >= 0 /\ Near(4 * Cached(s), 4 * Cached(was), 4 * Moves(c))
    <3> DEFINE f == s["freeram"]
               f0 == was["freeram"]
               a == s["available"]
               a0 == was["available"]
               h == Cached(s)
               h0 == Cached(was)
               m == Moves(c)
    <3>1. /\ f \in Int /\ f0 \in Int /\ a \in Int /\ a0 \in Int /\ h \in Int /\ h0 \in Int
          /\ m \in Int /\ TotalRam \in Int
      BY <2>5, <2>9, <2>13, Sizes
    <3>2. Near(f, f0, m) /\ Near(a, a0, m) /\ f <= a + m /\ Near(h, h0, m)
      BY <2>12
    <3> HIDE DEF f, f0, a, a0, h, h0, m
    <3>3. /\ Near(4 * f, 4 * f0, 4 * m)
          /\ Near(4 * (TotalRam - a), 4 * (TotalRam - a0), 4 * m)
          /\ 4 * f + 4 * (TotalRam - a) <= 4 * TotalRam + 4 * m
          /\ h0 >= m => h >= 0 /\ Near(4 * h, 4 * h0, 4 * m)
      BY <3>1, <3>2 DEF Near
    <3>4. QED BY <3>3 DEF f, f0, a, a0, h, h0, m
  <2>15. base'[c].reading = was
    BY <1>1 DEF was
  <2>16. MemReported(c)'
    BY <1>2, <2>10, <2>14, <2>15 DEF MemReported, Near
  <2>17. QED BY <2>11, <2>16
<1>6. QED
  BY <1>1, <1>2, <1>4, <1>5 DEF Claims, InUsePages, InUseMem, Succeeded

\* How a step of a call may end: it goes on, succeeds with its words copied, or
\* fails; the other calls are as they were.
Finishing(c) ==
  /\ At(c) = "copy" /\ Return(c, 0)
  /\ LET info == Info(sample[c])[sys[c]] IN \A i \in 1 .. Len(info) : out'[c][i] = info[i]

LEMMA CallStepWays ==
  ASSUME MemShape, NEW c \in Call, CallStep(c)
  PROVE  /\ step[c] # 0 /\ UNCHANGED <<envVars, sys, base>>
         /\ \A d \in Call : d # c => Untouched(d)
         /\ Going(c) \/ Finishing(c) \/ \E r \in Int \ {0} : Return(c, r)
<1>1. step[c] # 0 /\ UNCHANGED <<envVars, sys, base>>
  BY CallStepKinds
<1>2. ASSUME NEW d \in Call, d # c PROVE Untouched(d)
  <2>1. out'[d] = out[d]
    BY <1>2, CallStepKinds, CopiedWords
  <2>2. step'[d] = step[d] /\ sample'[d] = sample[d] /\ ret'[d] = ret[d]
    <3>1. (\E v : Advance(c, v)) \/ (\E r : Return(c, r))
      BY CallStepKinds, CopiedWords
    <3>2. QED BY <1>2, <3>1 DEF Advance, Return, MemShape, Calls
  <2>3. QED BY <1>1, <2>1, <2>2 DEF Untouched
<1>3. CASE Going(c)
  BY <1>1, <1>2, <1>3
<1>4. CASE Return(c, ENOMEM)
  BY <1>1, <1>2, <1>4 DEF ENOMEM
<1>5. CASE CopyOut(c)
  <2> DEFINE info == Info(sample[c])[sys[c]]
  <2>1. info \in Seq(Nat)
    BY <1>5, CopiedWords
  <2>2. PICK k \in 0 .. Len(info) :
          /\ Return(c, 8 * (Len(info) - k))
          /\ k = Len(info) => \A i \in 1 .. Len(info) : out'[c][i] = info[i]
    BY <1>5, CopiedWords
  <2> HIDE DEF info
  <2>3. Len(info) \in Nat
    BY <2>1
  <2>4. CASE k = Len(info)
    <3>1. Return(c, 0) /\ At(c) = "copy"
      BY <1>5, <2>2, <2>3, <2>4 DEF CopyOut
    <3>2. \A i \in 1 .. Len(info) : out'[c][i] = info[i]
      BY <2>2, <2>4
    <3>3. QED BY <1>1, <1>2, <3>1, <3>2 DEF Finishing, info
  <2>5. CASE k # Len(info)
    <3>1. 8 * (Len(info) - k) \in Int \ {0}
      BY <2>2, <2>3, <2>5
    <3>2. QED BY <1>1, <1>2, <2>2, <3>1
  <2>6. QED BY <2>4, <2>5
<1>6. QED BY <1>3, <1>4, <1>5, CallStepKinds DEF Going

\* Each of the steps keeps the claims.
LEMMA SystemHolds ==
  ASSUME ClaimsHold, System
  PROVE  ClaimsHold'
BY SystemKeeps, SystemClaims DEF ClaimsHold

LEMMA BeginHolds ==
  ASSUME ClaimsHold, NEW c \in Call, NEW s \in MemCall, Begin(c, s)
  PROVE  ClaimsHold'
<1>1. MemShape /\ MemShape'
  BY BeginKeeps DEF ClaimsHold
<1>2. UNCHANGED envVars /\ \A d \in Call : d # c => Untouched(d)
  BY <1>1 DEF Begin, Untouched, MemShape, Calls, Bases
<1>3. QED BY <1>1, <1>2, BeginClaims, OthersClaims DEF ClaimsHold

LEMMA CallStepHolds ==
  ASSUME ClaimsHold, NEW c \in Call, CallStep(c)
  PROVE  ClaimsHold'
<1>1. MemShape /\ MemShape'
  BY CallStepKeeps DEF ClaimsHold
<1>2. /\ step[c] # 0 /\ UNCHANGED <<envVars, sys, base>>
      /\ \A d \in Call : d # c => Untouched(d)
      /\ Going(c) \/ Finishing(c) \/ \E r \in Int \ {0} : Return(c, r)
  BY <1>1, CallStepWays
<1>3. Claims(c)'
  <2>1. CASE Going(c)
    BY <1>2, <2>1, GoingClaims
  <2>2. CASE Finishing(c)
    BY <1>2, <2>2, SuccessClaims DEF Finishing
  <2>3. CASE \E r \in Int \ {0} : Return(c, r)
    BY <1>1, <2>3, FailedClaims
  <2>4. QED BY <1>2, <2>1, <2>2, <2>3
<1>4. QED BY <1>1, <1>2, <1>3, OthersClaims DEF ClaimsHold

LEMMA IdleHolds ==
  ASSUME ClaimsHold, UNCHANGED memVars
  PROVE  ClaimsHold'
<1>1. MemShape'
  BY MemShapeStep DEF ClaimsHold
<1>2. UNCHANGED envVars /\ \A d \in Call : Untouched(d)
  BY DEF memVars, callVars, Untouched
<1>3. QED BY <1>1, <1>2, OthersClaims DEF ClaimsHold

LEMMA ClaimsStep ==
  ASSUME ClaimsHold, [MemNext]_memVars
  PROVE  ClaimsHold'
BY SystemHolds, BeginHolds, CallStepHolds, IdleHolds DEF MemNext

LEMMA ClaimsInit ==
  ASSUME MemInit
  PROVE  ClaimsHold
<1>1. \A c \in Call : step[c] = 0 /\ sys[c] = "none"
  BY DEF MemInit
<1>2. QED
  BY <1>1, MemShapeInit DEF ClaimsHold, Claims, InUsePages, InUseMem, Succeeded

\* At every moment of every call the estimates are near, and so are the words
\* of the calls that have succeeded.
THEOREM ClaimsAlways == MemSpec => []ClaimsHold
<1>1. MemInit => ClaimsHold
  BY ClaimsInit
<1>2. ClaimsHold /\ [MemNext]_memVars => ClaimsHold'
  BY ClaimsStep
<1>3. QED BY <1>1, <1>2, PTL DEF MemSpec

\* use_pages (use_pages.c:13-26) reads four lists one after the other, while
\* pages move between them: its words, and their sum, are off by no more than
\* one for every page that moved, however many and whenever (UsePagesOff).
THEOREM PagesOff == MemSpec => []UsePagesOff
<1>1. ClaimsHold => UsePagesOff
  BY DEF ClaimsHold, Claims, PagesReported, UsePagesOff
<1>2. QED BY <1>1, ClaimsAlways, PTL

\* use_mem (use_mem.c:10-29): the same of its free, used and cached memory; the
\* difference at line 27 does not wrap while no more pages have moved than were
\* cached (UseMemOff).
THEOREM MemOff == MemSpec => []UseMemOff
<1>1. ClaimsHold => UseMemOff
  BY DEF ClaimsHold, Claims, MemReported, UseMemOff
<1>2. QED BY <1>1, ClaimsAlways, PTL

-----------------------------------------------------------------------------
(* The sums over the processors *)

\* A set of numbers that is not empty has a smallest member.
LEMMA SmallestNumber ==
  ASSUME NEW S, S \subseteq Nat, S # {}
  PROVE  \E m \in S : \A j \in S : m <= j
<1> DEFINE R == {ss \in Nat \X Nat : ss[1] < ss[2]}
<1>1. IsWellFoundedOn(R, Nat)
  BY NatLessThanWellFounded DEF OpToRel
<1>2. PICK m \in S : \A j \in S : <<j, m>> \notin R
  <2> HIDE DEF R
  <2> QED
    BY <1>1, WFMin
<1>3. ASSUME NEW j \in S
      PROVE  m <= j
  <2>1. j \in Nat /\ m \in Nat
    OBVIOUS
  <2>2. j < m => <<j, m>> \in R
    BY <2>1
  <2> QED
    BY <1>2, <2>1, <2>2
<1> QED
  BY <1>3

\* The numbers up to n for which something holds that holds of 0 and goes on
\* from each to the next.
LEMMA AllUpTo ==
  ASSUME NEW n \in Nat, NEW S, 0 \in S, \A k \in 1 .. n : k - 1 \in S => k \in S
  PROVE  0 .. n \subseteq S
<1> DEFINE T == (0 .. n) \ S
<1>1. SUFFICES ASSUME T # {} PROVE FALSE
  OBVIOUS
<1>2. PICK m \in T : \A j \in T : m <= j
  <2>1. T \subseteq Nat
    OBVIOUS
  <2>2. QED BY <1>1, <2>1, SmallestNumber
<1>3. m \in 1 .. n /\ m \notin S
  BY <1>2
<1>4. m - 1 \in 0 .. n /\ ~(m <= m - 1)
  BY <1>3
<1>5. m - 1 \in S
  BY <1>2, <1>4
<1>6. QED BY <1>3, <1>5

\* The sums that SumTo is defined by.
Sums(f, ev, n) ==
  f = [k \in 0 .. n |-> [e \in Event |-> IF k = 0 THEN 0 ELSE f[k - 1][e] + ev[k][e]]]

\* There are such sums.
LEMMA SumsExist ==
  ASSUME NEW n \in Nat, NEW ev
  PROVE  \E f : Sums(f, ev, n)
<1> DEFINE S == {m \in 0 .. n : \E f : Sums(f, ev, m)}
<1>1. 0 \in S
  <2> DEFINE f == [k \in 0 .. 0 |-> [e \in Event |-> 0]]
  <2>1. Sums(f, ev, 0)
    BY DEF Sums
  <2>2. QED BY <2>1
<1>2. ASSUME NEW k \in 1 .. n, k - 1 \in S PROVE k \in S
  <2>1. PICK f : Sums(f, ev, k - 1)
    BY <1>2
  <2> DEFINE g == [j \in 0 .. k |-> IF j = k THEN [e \in Event |-> f[k - 1][e] + ev[k][e]] ELSE f[j]]
  <2>2. \A j \in 0 .. k - 1 :
          f[j] = [e \in Event |-> IF j = 0 THEN 0 ELSE f[j - 1][e] + ev[j][e]]
    BY <2>1 DEF Sums
  <2>3. ASSUME NEW j \in 0 .. k
        PROVE  g[j] = [e \in Event |-> IF j = 0 THEN 0 ELSE g[j - 1][e] + ev[j][e]]
    <3>1. CASE j = 0
      BY <2>2, <3>1
    <3>2. CASE j # 0
      <4>1. j - 1 \in 0 .. k /\ j - 1 # k
        BY <3>2
      <4>2. g[j - 1] = f[j - 1]
        BY <4>1
      <4>3. CASE j = k
        BY <3>2, <4>2, <4>3
      <4>4. CASE j # k
        <5>1. j \in 0 .. k - 1 /\ g[j] = f[j]
          BY <4>4
        <5>2. QED BY <2>2, <3>2, <4>2, <5>1
      <4>5. QED BY <4>3, <4>4
    <3>3. QED BY <3>1, <3>2
  <2>4. g = [j \in 0 .. k |-> g[j]]
    OBVIOUS
  <2> HIDE DEF g
  <2>5. g = [j \in 0 .. k |-> [e \in Event |-> IF j = 0 THEN 0 ELSE g[j - 1][e] + ev[j][e]]]
    BY <2>3, <2>4
  <2>6. Sums(g, ev, k)
    BY <2>5 DEF Sums
  <2>7. QED BY <2>6
<1> HIDE DEF S
<1>3. n \in S
  BY <1>1, <1>2, AllUpTo
<1>4. QED BY <1>3 DEF S

LEMMA SumToSums == Sums(SumTo, events, Cpus)
<1>1. \E f : Sums(f, events, Cpus)
  BY SumsExist, Sizes
<1>2. QED BY <1>1 DEF SumTo, Sums


\* What the sums are: they start at 0, and each adds the events of a processor.
Summed(f, ev, n) ==
  /\ \A k \in 0 .. n, e \in Event : f[k][e] \in Nat
  /\ \A e \in Event : f[0][e] = 0
  /\ \A k \in 1 .. n, e \in Event : f[k][e] = f[k - 1][e] + ev[k][e]

LEMMA SumsAdd ==
  ASSUME NEW n \in Nat, NEW f, NEW ev \in [1 .. n -> [Event -> Nat]], Sums(f, ev, n)
  PROVE  Summed(f, ev, n)
<1>1. \A k \in 0 .. n : f[k] = [e \in Event |-> IF k = 0 THEN 0 ELSE f[k - 1][e] + ev[k][e]]
  BY DEF Sums
<1>2. \A k \in 0 .. n, e \in Event : f[k][e] = IF k = 0 THEN 0 ELSE f[k - 1][e] + ev[k][e]
  BY <1>1
<1>3. \A e \in Event : f[0][e] = 0
  BY <1>2
<1>4. \A k \in 1 .. n, e \in Event : f[k][e] = f[k - 1][e] + ev[k][e]
  BY <1>2
<1> DEFINE S == {k \in 0 .. n : \A e \in Event : f[k][e] \in Nat}
<1>5. 0 \in S
  BY <1>3
<1>6. ASSUME NEW k \in 1 .. n, k - 1 \in S PROVE k \in S
  <2>1. \A e \in Event : f[k - 1][e] \in Nat /\ ev[k][e] \in Nat /\ f[k][e] = f[k - 1][e] + ev[k][e]
    BY <1>4, <1>6
  <2>2. ASSUME NEW e \in Event PROVE f[k][e] \in Nat
    <3>1. f[k - 1][e] \in Nat /\ ev[k][e] \in Nat /\ f[k][e] = f[k - 1][e] + ev[k][e]
      BY <2>1
    <3> HIDE DEF S
    <3>2. QED BY <3>1
  <2>3. QED BY <2>2
<1> HIDE DEF S
<1>7. 0 .. n \subseteq S
  BY <1>5, <1>6, AllUpTo
<1>8. \A k \in 0 .. n, e \in Event : f[k][e] \in Nat
  BY <1>7 DEF S
<1>9. QED BY <1>3, <1>4, <1>8 DEF Summed

LEMMA SumToSummed == Memory => Summed(SumTo, events, Cpus)
BY SumToSums, SumsAdd, Sizes DEF Memory

\* A sequence of numbers that never falls from one to the next.
Rising(f, n) ==
  /\ \A k \in 0 .. n : f[k] \in Int
  /\ \A k \in 1 .. n : f[k - 1] <= f[k]

LEMMA NeverFalls ==
  ASSUME NEW n \in Nat, NEW f, Rising(f, n),
         NEW a \in 0 .. n, NEW b \in 0 .. n, a <= b
  PROVE  f[a] <= f[b]
<1> DEFINE S == {k \in 0 .. n : a <= k => f[a] <= f[k]}
<1>1. 0 \in S
  <2>1. f[0] \in Int
    BY DEF Rising
  <2>2. a <= 0 => a = 0
    OBVIOUS
  <2>3. QED BY <2>1, <2>2
<1>2. ASSUME NEW k \in 1 .. n, k - 1 \in S PROVE k \in S
  <2>1. CASE a <= k - 1
    <3>1. k - 1 \in 0 .. n /\ f[a] <= f[k - 1] /\ f[k - 1] <= f[k]
      BY <1>2, <2>1 DEF Rising
    <3>2. f[a] \in Int /\ f[k - 1] \in Int /\ f[k] \in Int
      BY <3>1 DEF Rising
    <3>3. f[a] <= f[k]
      BY <3>1, <3>2
    <3>4. QED BY <3>3
  <2>2. CASE ~ (a <= k - 1)
    <3>1. f[k] \in Int
      BY DEF Rising
    <3>2. a <= k => a = k
      BY <2>2
    <3>3. QED BY <3>1, <3>2
  <2>3. QED BY <2>1, <2>2
<1> HIDE DEF S
<1>3. b \in S
  BY <1>1, <1>2, AllUpTo
<1>4. QED BY <1>3 DEF S

\* A sum over some of the processors is no more than one over all.
LEMMA SumsGrow ==
  ASSUME NEW n \in Nat, NEW f, NEW ev \in [1 .. n -> [Event -> Nat]], Summed(f, ev, n),
         NEW k \in 0 .. n, NEW e \in Event
  PROVE  f[k][e] <= f[n][e]
<1> DEFINE g == [j \in 0 .. n |-> f[j][e]]
<1>1. \A j \in 0 .. n : g[j] \in Int
  BY DEF Summed
<1>2. ASSUME NEW j \in 1 .. n PROVE g[j - 1] <= g[j]
  <2>1. f[j][e] = f[j - 1][e] + ev[j][e] /\ f[j - 1][e] \in Nat /\ ev[j][e] \in Nat
    BY DEF Summed
  <2>2. QED BY <2>1
<1> HIDE DEF g
<1>3. g[k] <= g[n]
  <2>1. Rising(g, n) /\ n \in 0 .. n /\ k <= n
    BY <1>1, <1>2 DEF Rising
  <2>2. QED BY <2>1, NeverFalls
<1>4. QED BY <1>3 DEF g

\* More is counted by every processor.
Counts(ev, ew) == \A k \in DOMAIN ev, e \in Event : ev[k][e] <= ew[k][e]

\* When events are counted, the sum over the first processors grows, and that
\* over the others too.
LEMMA SumsRise ==
  ASSUME NEW n \in Nat, NEW f, NEW h, NEW ev \in [1 .. n -> [Event -> Nat]],
         NEW ew \in [1 .. n -> [Event -> Nat]],
         Summed(f, ev, n), Summed(h, ew, n), Counts(ev, ew),
         NEW k \in 0 .. n, NEW e \in Event
  PROVE  f[k][e] <= h[k][e] /\ f[n][e] - f[k][e] <= h[n][e] - h[k][e]
<1> DEFINE g == [j \in 0 .. n |-> h[j][e] - f[j][e]]
<1>1. \A j \in 0 .. n : g[j] \in Int
  BY DEF Summed
<1>2. ASSUME NEW j \in 1 .. n PROVE g[j - 1] <= g[j]
  <2>1. /\ f[j][e] = f[j - 1][e] + ev[j][e] /\ f[j - 1][e] \in Nat /\ ev[j][e] \in Nat
        /\ h[j][e] = h[j - 1][e] + ew[j][e] /\ h[j - 1][e] \in Nat /\ ew[j][e] \in Nat
    BY DEF Summed
  <2>2. ev[j][e] <= ew[j][e]
    BY DEF Counts
  <2>3. j \in 0 .. n /\ j - 1 \in 0 .. n
    OBVIOUS
  <2>4. g[j] = h[j][e] - f[j][e] /\ g[j - 1] = h[j - 1][e] - f[j - 1][e]
    BY <2>3
  <2> HIDE DEF g
  <2>5. QED BY <2>1, <2>2, <2>4
<1>3. g[0] = 0
  BY DEF Summed
<1>4. /\ f[k][e] \in Nat /\ h[k][e] \in Nat /\ f[n][e] \in Nat /\ h[n][e] \in Nat
      /\ g[k] = h[k][e] - f[k][e] /\ g[n] = h[n][e] - f[n][e]
  BY DEF Summed
<1> HIDE DEF g
<1>5. g[0] <= g[k] /\ g[k] <= g[n]
  <2>1. Rising(g, n) /\ n \in 0 .. n /\ 0 \in 0 .. n /\ k <= n /\ 0 <= k
    BY <1>1, <1>2 DEF Rising
  <2>2. QED BY <2>1, NeverFalls
<1>6. QED BY <1>3, <1>4, <1>5

-----------------------------------------------------------------------------
(* The page faults *)

InFaultPages(c) == sys[c] = "fault_pages" /\ step[c] # 0

\* The processors that fault_pages has read.
Read(c) == IF step[c] <= 1 THEN 0 ELSE step[c] - 2

\* While fault_pages runs, its samples are no more than what the processors that
\* it has read have counted, and with what the others have counted no less than
\* what all had counted when it began.
FaultsClose(c) ==
  \A e \in Event :
    /\ base[c].count[e] <= sample[c][e] + (SumTo[Cpus][e] - SumTo[Read(c)][e])
    /\ sample[c][e] <= SumTo[Read(c)][e]

\* The words are those of the events at two places of the array, whichever
\* these are.
FaultsReported(c) ==
  \A p \in {<<1, EventAt(23)>>, <<2, EventAt(24)>>} :
    /\ out[c][p[1]] \in Nat
    /\ base[c].count[p[2]] <= out[c][p[1]] /\ out[c][p[1]] <= SumTo[Cpus][p[2]]

FaultClaims(c) ==
  /\ \A e \in Event : base[c].count[e] \in Nat
  /\ InFaultPages(c) => FaultsClose(c)
  /\ Succeeded(c, "fault_pages") => FaultsReported(c)

FaultsHold == MemShape /\ \A c \in Call : FaultClaims(c)

\* What fault_pages does at each step.
LEMMA FaultPagesWhen ==
  ASSUME MemShape, NEW c \in Call, InFaultPages(c)
  PROVE  /\ step[c] \in 1 .. Cpus + 2 /\ At(c) \notin Gauge
         /\ At(c) = "kmalloc" => step[c] = 1
         /\ At(c) = "cpu" => step[c] \in 2 .. Cpus + 1
         /\ At(c) = "copy" => step[c] = Cpus + 2
         /\ Read(c) \in 0 .. Cpus
<1>1. sys[c] = "fault_pages" /\ step[c] \in 1 .. Len(Program[sys[c]]) + 1
  BY DEF InFaultPages, MemShape, Calls
<1>2. step[c] \in 1 .. Cpus + 2
  BY <1>1, Lengths, Sizes
<1>3. At(c) = IF step[c] <= 1 + Cpus THEN FaultPagesSteps[step[c]] ELSE "copy"
  BY <1>1, <1>2, Lengths DEF At, Program
<1>4. At(c) = IF step[c] = 1 THEN "kmalloc" ELSE IF step[c] <= 1 + Cpus THEN "cpu" ELSE "copy"
  <2>1. CASE step[c] <= 1 + Cpus
    <3>1. step[c] \in 1 .. 1 + Cpus
      BY <1>2, <2>1, Sizes
    <3>2. QED BY <1>3, <2>1, <3>1, FaultPagesAt
  <2>2. CASE ~ (step[c] <= 1 + Cpus)
    BY <1>2, <1>3, <2>2, Sizes
  <2>3. QED BY <2>1, <2>2
<1>5. At(c) \notin Gauge
  BY <1>4 DEF Gauge
<1>6. Read(c) \in 0 .. Cpus
  BY <1>2, Sizes DEF Read
<1>7. QED BY <1>2, <1>4, <1>5, <1>6, Sizes

\* The sums are numbers, and more are counted by more processors.
LEMMA SumToNat ==
  ASSUME Memory, NEW k \in 0 .. Cpus, NEW e \in Event
  PROVE  /\ SumTo[k][e] \in Nat /\ SumTo[Cpus][e] \in Nat /\ SumTo[0][e] = 0
         /\ SumTo[k][e] <= SumTo[Cpus][e]
<1>1. Summed(SumTo, events, Cpus) /\ Cpus \in 0 .. Cpus
  BY SumToSummed, Sizes
<1>2. SumTo[k][e] <= SumTo[Cpus][e]
  BY <1>1, Sizes, SumsGrow DEF Memory
<1>3. QED BY <1>1, <1>2 DEF Summed

\* The sums after a step in which events are counted or not.
LEMMA SumToRises ==
  ASSUME Memory, Memory', Counts(events, events'), NEW k \in 0 .. Cpus, NEW e \in Event
  PROVE  /\ SumTo'[k][e] \in Nat /\ SumTo'[Cpus][e] \in Nat
         /\ SumTo[k][e] <= SumTo'[k][e]
         /\ SumTo[Cpus][e] - SumTo[k][e] <= SumTo'[Cpus][e] - SumTo'[k][e]
         /\ SumTo[Cpus][e] <= SumTo'[Cpus][e]
<1>1. Summed(SumTo, events, Cpus) /\ Summed(SumTo, events, Cpus)'
  BY SumToSummed, PTL
<1>2. Summed(SumTo', events', Cpus) /\ Cpus \in 0 .. Cpus /\ Cpus \in Nat
  BY <1>1, Sizes DEF Summed
<1>3. /\ events \in [1 .. Cpus -> [Event -> Nat]] /\ events' \in [1 .. Cpus -> [Event -> Nat]]
  BY DEF Memory
<1>4. /\ SumTo[k][e] <= SumTo'[k][e]
      /\ SumTo[Cpus][e] - SumTo[k][e] <= SumTo'[Cpus][e] - SumTo'[k][e]
  BY <1>1, <1>2, <1>3, SumsRise
<1>5. SumTo[Cpus][e] <= SumTo'[Cpus][e]
  BY <1>1, <1>2, <1>3, SumsRise
<1>6. QED BY <1>2, <1>4, <1>5 DEF Summed

\* No event is ever taken back.
LEMMA EventsGrow ==
  ASSUME Memory, System \/ UNCHANGED events
  PROVE  Counts(events, events')
<1>1. events \in [1 .. Cpus -> [Event -> Nat]]
  BY DEF Memory
<1>2. CASE UNCHANGED events
  BY <1>1, <1>2 DEF Counts
<1>3. ASSUME NEW cpu \in 1 .. Cpus, NEW major \in BOOLEAN, PageFault(cpu, major)
      PROVE  Counts(events, events')
  BY <1>1, <1>3 DEF PageFault, Counts, Event
<1>4. QED BY <1>2, <1>3 DEF System, MovePage, ReleaseSlot

LEMMA EventsAt == EventAt(23) \in Event /\ EventAt(24) \in Event
BY DEF EventAt, Event

\* A step of the rest of the system, or one of another call.
LEMMA FaultsStay ==
  ASSUME FaultsHold, MemShape', Counts(events, events'), NEW c \in Call, Untouched(c)
  PROVE  FaultClaims(c)'
<1>1. Memory /\ Memory' /\ FaultClaims(c)
  BY DEF FaultsHold, MemShape
<1>2. /\ sys'[c] = sys[c] /\ step'[c] = step[c] /\ sample'[c] = sample[c]
      /\ ret'[c] = ret[c] /\ out'[c] = out[c] /\ base'[c] = base[c]
  BY DEF Untouched
<1>3. \A e \in Event : base[c].count[e] \in Nat /\ sample[c][e] \in Nat
  BY <1>1 DEF FaultClaims, FaultsHold, MemShape, Calls
<1>4. ASSUME InFaultPages(c) PROVE FaultsClose(c)'
  <2>1. Read(c)' = Read(c) /\ Read(c) \in 0 .. Cpus
    BY <1>2, <1>4, FaultPagesWhen DEF Read, FaultsHold
  <2> DEFINE k == Read(c)
  <2> HIDE DEF k
  <2>2. k \in 0 .. Cpus
    BY <2>1 DEF k
  <2>3. ASSUME NEW e \in Event
        PROVE  /\ base[c].count[e] <= sample[c][e] + (SumTo'[Cpus][e] - SumTo'[k][e])
               /\ sample[c][e] <= SumTo'[k][e]
    <3>1. /\ base[c].count[e] <= sample[c][e] + (SumTo[Cpus][e] - SumTo[k][e])
          /\ sample[c][e] <= SumTo[k][e]
      BY <1>1, <1>4 DEF FaultClaims, FaultsClose, k
    <3>2. /\ SumTo[k][e] \in Nat /\ SumTo[Cpus][e] \in Nat
      BY <1>1, <2>2, SumToNat
    <3>3. /\ SumTo'[k][e] \in Nat /\ SumTo'[Cpus][e] \in Nat
          /\ SumTo[k][e] <= SumTo'[k][e]
          /\ SumTo[Cpus][e] - SumTo[k][e] <= SumTo'[Cpus][e] - SumTo'[k][e]
      BY <1>1, <2>2, SumToRises
    <3>4. base[c].count[e] \in Nat /\ sample[c][e] \in Nat
      BY <1>3
    <3>5. QED BY <3>1, <3>2, <3>3, <3>4
  <2>4. QED BY <1>2, <2>1, <2>3 DEF FaultsClose, k
<1>5. ASSUME FaultsReported(c) PROVE FaultsReported(c)'
  <2>1. ASSUME NEW p \in {<<1, EventAt(23)>>, <<2, EventAt(24)>>}
        PROVE  /\ out[c][p[1]] \in Nat
               /\ base[c].count[p[2]] <= out[c][p[1]] /\ out[c][p[1]] <= SumTo'[Cpus][p[2]]
    <3>1. /\ out[c][p[1]] \in Nat
          /\ base[c].count[p[2]] <= out[c][p[1]] /\ out[c][p[1]] <= SumTo[Cpus][p[2]]
      BY <1>5 DEF FaultsReported
    <3>2. p[2] \in Event /\ Cpus \in 0 .. Cpus
      BY EventsAt, Sizes
    <3>3. SumTo[Cpus][p[2]] \in Nat
      BY <1>1, <3>2, SumToNat
    <3>4. SumTo'[Cpus][p[2]] \in Nat /\ SumTo[Cpus][p[2]] <= SumTo'[Cpus][p[2]]
      BY <1>1, <3>2, SumToRises
    <3>5. QED BY <3>1, <3>3, <3>4
  <2>2. QED BY <1>2, <2>1 DEF FaultsReported, EventAt, FirstFault
<1>6. QED
  BY <1>1, <1>2, <1>3, <1>4, <1>5 DEF FaultClaims, InFaultPages, Succeeded

\* When fault_pages begins, it has read no processor.
LEMMA FaultsBegin ==
  ASSUME FaultsHold, NEW c \in Call, NEW s \in MemCall, Begin(c, s)
  PROVE  FaultClaims(c)'
<1>1. /\ step'[c] = 1 /\ base'[c].count = SumTo[Cpus] /\ sample'[c] = NoSample /\ events' = events
  BY DEF Begin, envVars, FaultsHold, MemShape, Calls, Bases
<1>2. SumTo' = SumTo
  BY <1>1 DEF SumTo
<1>3. Memory /\ 0 \in 0 .. Cpus
  BY Sizes DEF FaultsHold, MemShape
<1>4. Read(c)' = 0
  BY <1>1 DEF Read
<1>5. ASSUME NEW e \in Event
      PROVE  /\ base'[c].count[e] \in Nat
             /\ base'[c].count[e] <= sample'[c][e] + (SumTo'[Cpus][e] - SumTo'[0][e])
             /\ sample'[c][e] <= SumTo'[0][e]
  <2>1. SumTo[Cpus][e] \in Nat /\ SumTo[0][e] = 0
    BY <1>3, SumToNat
  <2>2. NoSample[e] = 0
    BY DEF NoSample
  <2>3. QED BY <1>1, <1>2, <2>1, <2>2
<1>6. FaultsClose(c)'
  BY <1>4, <1>5 DEF FaultsClose
<1>7. QED
  BY <1>1, <1>5, <1>6 DEF FaultClaims, Succeeded

\* fault_pages goes on: its samples are as they were, or with the events of
\* the next processor.
LEMMA FaultsGoing ==
  ASSUME FaultsHold, NEW c \in Call, step[c] # 0, UNCHANGED <<envVars, sys, base>>, Going(c)
  PROVE  FaultClaims(c)'
<1>1. MemShape /\ Memory /\ FaultClaims(c) /\ UNCHANGED <<events, base, sys>>
  BY DEF FaultsHold, MemShape, envVars
<1>2. step'[c] = step[c] + 1 /\ step'[c] # 0 /\ step[c] \in Nat
  BY <1>1 DEF Going, Advance, MemShape, Calls
<1>3. SumTo' = SumTo
  BY <1>1 DEF SumTo
<1>4. ASSUME InFaultPages(c) PROVE FaultsClose(c)'
  <2>1. Read(c) \in 0 .. Cpus /\ step[c] \in 1 .. Cpus + 2
    BY <1>1, <1>4, FaultPagesWhen
  <2>2. CASE At(c) = "kmalloc" /\ Advance(c, sample[c])
    <3>1. step[c] = 1
      BY <1>1, <1>4, <2>2, FaultPagesWhen
    <3>2. Read(c)' = Read(c)
      BY <1>2, <3>1 DEF Read
    <3>3. sample'[c] = sample[c]
      BY <1>1, <2>2 DEF Advance, MemShape, Calls
    <3>4. QED BY <1>1, <1>3, <1>4, <3>2, <3>3 DEF FaultClaims, FaultsClose
  <2>3. CASE At(c) = "cpu" /\ Advance(c, CountedUp(c, step[c] - 1))
    <3> DEFINE k == Read(c)
    <3>1. step[c] \in 2 .. Cpus + 1
      BY <1>1, <1>4, <2>3, FaultPagesWhen
    <3>2. Read(c)' = k + 1 /\ k + 1 = step[c] - 1 /\ k + 1 \in 1 .. Cpus /\ k \in 0 .. Cpus
      BY <1>2, <3>1, Sizes DEF Read
    <3>3. sample'[c] = CountedUp(c, k + 1)
      BY <1>1, <2>3, <3>2 DEF Advance, MemShape, Calls
    <3> HIDE DEF k
    <3>4. ASSUME NEW e \in Event
          PROVE  /\ base[c].count[e] <= sample'[c][e] + (SumTo[Cpus][e] - SumTo[k + 1][e])
                 /\ sample'[c][e] <= SumTo[k + 1][e]
      <4>1. sample'[c][e] = sample[c][e] + events[k + 1][e]
        BY <3>3 DEF CountedUp
      <4>2. SumTo[k + 1][e] = SumTo[k][e] + events[k + 1][e]
        <5>1. Summed(SumTo, events, Cpus)
          BY <1>1, SumToSummed
        <5>2. (k + 1) - 1 = k
          BY <3>2
        <5>3. QED BY <3>2, <5>1, <5>2 DEF Summed
      <4>3. /\ base[c].count[e] <= sample[c][e] + (SumTo[Cpus][e] - SumTo[k][e])
            /\ sample[c][e] <= SumTo[k][e]
        BY <1>1, <1>4 DEF FaultClaims, FaultsClose, k
      <4>4. SumTo[k][e] \in Nat /\ SumTo[Cpus][e] \in Nat
        BY <1>1, <3>2, SumToNat
      <4>5. base[c].count[e] \in Nat /\ sample[c][e] \in Nat /\ events[k + 1][e] \in Nat
        BY <1>1, <3>2 DEF FaultClaims, MemShape, Memory, Calls
      <4>6. QED BY <4>1, <4>2, <4>3, <4>4, <4>5
    <3>5. QED BY <1>1, <1>3, <3>2, <3>4 DEF FaultsClose
  <2>4. At(c) \notin Gauge
    BY <1>1, <1>4, FaultPagesWhen
  <2>5. QED BY <2>2, <2>3, <2>4 DEF Going
<1>5. QED
  BY <1>1, <1>2, <1>4 DEF FaultClaims, InFaultPages, Succeeded

\* When fault_pages succeeds, it has read every processor.
LEMMA FaultsCopied ==
  ASSUME FaultsHold, NEW c \in Call, At(c) = "copy", step[c] # 0, Return(c, 0),
         UNCHANGED <<envVars, sys, base>>,
         LET info == Info(sample[c])[sys[c]] IN
           \A i \in 1 .. Len(info) : out'[c][i] = info[i]
  PROVE  FaultClaims(c)'
<1>1. MemShape /\ Memory /\ FaultClaims(c) /\ UNCHANGED <<events, base, sys>>
  BY DEF FaultsHold, MemShape, envVars
<1>2. SumTo' = SumTo
  BY <1>1 DEF SumTo
<1>3. step'[c] = 0
  BY <1>1 DEF Return, MemShape, Calls
<1>4. ASSUME sys[c] = "fault_pages" PROVE FaultsReported(c)'
  <2>1. InFaultPages(c) /\ step[c] = Cpus + 2
    BY <1>1, <1>4, FaultPagesWhen DEF InFaultPages
  <2>2. Read(c) = Cpus
    BY <2>1, Sizes DEF Read
  <2>3. Info(sample[c])[sys[c]] = FaultPagesWords(sample[c])
    BY <1>4 DEF Info
  <2>4. Len(FaultPagesWords(sample[c])) = 2
    BY DEF FaultPagesWords
  <2>5. out'[c][1] = sample[c][EventAt(23)] /\ out'[c][2] = sample[c][EventAt(24)]
    BY <2>3, <2>4 DEF FaultPagesWords
  <2>6. ASSUME NEW e \in Event
        PROVE  /\ sample[c][e] \in Nat
               /\ base[c].count[e] <= sample[c][e] /\ sample[c][e] <= SumTo[Cpus][e]
    <3>1. /\ base[c].count[e] <= sample[c][e] + (SumTo[Cpus][e] - SumTo[Cpus][e])
          /\ sample[c][e] <= SumTo[Cpus][e]
      BY <1>1, <2>1, <2>2 DEF FaultClaims, FaultsClose
    <3>2. SumTo[Cpus][e] \in Nat
      BY <1>1, SumToNat, Sizes
    <3>3. base[c].count[e] \in Nat /\ sample[c][e] \in Nat
      BY <1>1 DEF FaultClaims, MemShape, Calls
    <3>4. QED BY <3>1, <3>2, <3>3
  <2>7. EventAt(23)' = EventAt(23) /\ EventAt(24)' = EventAt(24)
    BY DEF EventAt, FirstFault
  <2>8. ASSUME NEW p \in {<<1, EventAt(23)>>, <<2, EventAt(24)>>}
        PROVE  /\ out'[c][p[1]] \in Nat
               /\ base[c].count[p[2]] <= out'[c][p[1]] /\ out'[c][p[1]] <= SumTo[Cpus][p[2]]
    <3>1. p[2] \in Event /\ out'[c][p[1]] = sample[c][p[2]]
      BY <2>5, EventsAt
    <3>2. QED BY <2>6, <3>1
  <2>9. QED BY <1>1, <1>2, <2>8 DEF FaultsReported, EventAt, FirstFault
<1>5. QED
  BY <1>1, <1>3, <1>4 DEF FaultClaims, InFaultPages, Succeeded

LEMMA FaultsFailed ==
  ASSUME FaultsHold, NEW c \in Call, NEW r \in Int \ {0}, Return(c, r), base' = base
  PROVE  FaultClaims(c)'
<1>1. step'[c] = 0 /\ ret'[c] = r /\ FaultClaims(c)
  BY DEF Return, FaultsHold, MemShape, Calls
<1>2. QED BY <1>1 DEF FaultClaims, InFaultPages, Succeeded

LEMMA SystemFaults ==
  ASSUME FaultsHold, System
  PROVE  FaultsHold'
<1>1. MemShape /\ MemShape' /\ UNCHANGED callVars
  BY SystemKeeps DEF FaultsHold
<1>2. \A c \in Call : Untouched(c)
  BY <1>1 DEF callVars, Untouched
<1>3. Counts(events, events')
  BY <1>1, EventsGrow DEF MemShape
<1>4. QED BY <1>1, <1>2, <1>3, FaultsStay DEF FaultsHold

LEMMA BeginFaults ==
  ASSUME FaultsHold, NEW c \in Call, NEW s \in MemCall, Begin(c, s)
  PROVE  FaultsHold'
<1>1. MemShape /\ MemShape'
  BY BeginKeeps DEF FaultsHold
<1>2. UNCHANGED events /\ \A d \in Call : d # c => Untouched(d)
  BY <1>1 DEF Begin, envVars, Untouched, MemShape, Calls, Bases
<1>3. Counts(events, events')
  BY <1>1, <1>2, EventsGrow DEF MemShape
<1>4. QED BY <1>1, <1>2, <1>3, FaultsBegin, FaultsStay DEF FaultsHold

LEMMA CallStepFaults ==
  ASSUME FaultsHold, NEW c \in Call, CallStep(c)
  PROVE  FaultsHold'
<1>1. MemShape /\ MemShape'
  BY CallStepKeeps DEF FaultsHold
<1>2. /\ step[c] # 0 /\ UNCHANGED <<envVars, sys, base>> /\ UNCHANGED events
      /\ \A d \in Call : d # c => Untouched(d)
      /\ Going(c) \/ Finishing(c) \/ \E r \in Int \ {0} : Return(c, r)
  BY <1>1, CallStepWays DEF envVars
<1>3. FaultClaims(c)'
  <2>1. CASE Going(c)
    BY <1>2, <2>1, FaultsGoing
  <2>2. CASE Finishing(c)
    BY <1>2, <2>2, FaultsCopied DEF Finishing
  <2>3. CASE \E r \in Int \ {0} : Return(c, r)
    BY <1>1, <1>2, <2>3, FaultsFailed
  <2>4. QED BY <1>2, <2>1, <2>2, <2>3
<1>4. Counts(events, events')
  BY <1>1, <1>2, EventsGrow DEF MemShape
<1>5. QED BY <1>1, <1>2, <1>3, <1>4, FaultsStay DEF FaultsHold

LEMMA IdleFaults ==
  ASSUME FaultsHold, UNCHANGED memVars
  PROVE  FaultsHold'
<1>1. MemShape /\ MemShape'
  BY MemShapeStep DEF FaultsHold
<1>2. UNCHANGED events /\ \A d \in Call : Untouched(d)
  BY DEF memVars, envVars, callVars, Untouched
<1>3. Counts(events, events')
  BY <1>1, <1>2, EventsGrow DEF MemShape
<1>4. QED BY <1>1, <1>2, <1>3, FaultsStay DEF FaultsHold

LEMMA FaultsStep ==
  ASSUME FaultsHold, [MemNext]_memVars
  PROVE  FaultsHold'
BY SystemFaults, BeginFaults, CallStepFaults, IdleFaults DEF MemNext

LEMMA FaultsInit ==
  ASSUME MemInit
  PROVE  FaultsHold
<1>1. MemShape /\ Memory
  BY MemShapeInit DEF MemShape
<1>2. \A c \in Call : step[c] = 0 /\ sys[c] = "none" /\ base[c].count = SumTo[Cpus]
  BY DEF MemInit
<1>3. \A e \in Event : SumTo[Cpus][e] \in Nat
  BY <1>1, SumToNat, Sizes
<1>4. QED
  BY <1>1, <1>2, <1>3 DEF FaultsHold, FaultClaims, InFaultPages, Succeeded

\* At every moment the samples of fault_pages are between what had been counted
\* when it began and what the processors that it has read have counted.
THEOREM FaultsAlways == MemSpec => []FaultsHold
<1>1. MemInit => FaultsHold
  BY FaultsInit
<1>2. FaultsHold /\ [MemNext]_memVars => FaultsHold'
  BY FaultsStep
<1>3. QED BY <1>1, <1>2, PTL DEF MemSpec

\* The zones that the build is configured with put the page faults at the
\* places that fault_pages reads.
LEMMA FaultsPlaced ==
  ASSUME Cardinality(Zones) = 5
  PROVE  EventAt(23) = "PGFAULT" /\ EventAt(24) = "PGMAJFAULT"
<1>1. FirstFault = 23
  BY DEF FirstFault
<1>2. QED BY <1>1 DEF EventAt

\* fault_pages (fault_pages.c:8-22) reports no fewer faults than had been
\* counted when it began and no more than have been counted since, for any
\* number of processors, although it reads them one after the other while
\* all of them go on counting; with the five zones of the configured kernel
\* the two words are the page faults and the major faults (FaultsWithin).
THEOREM FaultsBetween ==
  ASSUME Cardinality(Zones) = 5
  PROVE  MemSpec => []FaultsWithin
<1>1. FaultsHold => FaultsWithin
  BY FaultsPlaced DEF FaultsHold, FaultClaims, FaultsReported, FaultsWithin
<1>2. QED BY <1>1, FaultsAlways, PTL

-----------------------------------------------------------------------------
(* What the calls report, and what there is now *)

InUseSwap(c) == sys[c] = "use_swap" /\ step[c] # 0

\* While a call runs, what it will report is off from what there is at the
\* moment by no more than what has changed since it began.
NowClose(c) ==
  /\ InUseMem(c) => Near(Est(c, "freeram", 1), Reading["freeram"], Moves(c))
  /\ InUseSwap(c) => Near(Est(c, "freeswap", 1), Reading["freeswap"], Moves(c))
  /\ InUsePages(c) => /\ Near(EstActive(c), Active(Reading), Moves(c))
                      /\ Near(EstInactive(c), Inactive(Reading), Moves(c))

\* The same of what it has reported.
NowReported(c) ==
  /\ Succeeded(c, "use_mem") =>
       out[c][1] \in Nat /\ Near(out[c][1], 4 * Reading["freeram"], 4 * Moves(c))
  /\ Succeeded(c, "use_swap") =>
       out[c][1] \in Nat /\ Near(out[c][1], Swap - Reading["freeswap"], Moves(c))
  /\ Succeeded(c, "use_pages") =>
       /\ out[c][1] \in Nat /\ Near(out[c][1], Active(Reading), Moves(c))
       /\ out[c][2] \in Nat /\ Near(out[c][2], Inactive(Reading), Moves(c))

\* The used and the cached memory, for which use_mem reads four counters: they
\* are off by no more either, unless the cached memory may have wrapped.
UsedClose(c) ==
  InUseMem(c) => /\ Near(Est(c, "available", 4), Reading["available"], Moves(c))
                 /\ Near(EstCached(c), Cached(Reading), Moves(c))

UsedReported(c) ==
  Succeeded(c, "use_mem") =>
    /\ out[c][2] \in Nat /\ Near(out[c][2], 4 * UsedRam(Reading), 4 * Moves(c))
    /\ out[c][3] \in Nat
    /\ Cached(Reading) >= Moves(c) => Near(out[c][3], 4 * Cached(Reading), 4 * Moves(c))
    /\ out[c][4] = 4 * TotalRam

NowHolds ==
  MemShape /\ \A c \in Call : NowClose(c) /\ NowReported(c) /\ UsedClose(c) /\ UsedReported(c)

\* How the counters change in a step of the rest of the system: each of them by
\* one at most, and so the two active lists together, and the two inactive
\* ones; not at all when nothing is moved.
Changed(fr, fs, aa, af, ia, if) ==
  /\ Reading'["freeram"] = Reading["freeram"] + fr
  /\ Reading'["freeswap"] = Reading["freeswap"] + fs
  /\ Reading'["active_anon"] = Reading["active_anon"] + aa
  /\ Reading'["active_file"] = Reading["active_file"] + af
  /\ Reading'["inactive_anon"] = Reading["inactive_anon"] + ia
  /\ Reading'["inactive_file"] = Reading["inactive_file"] + if
  /\ aa + af \in {-1, 0, 1} /\ ia + if \in {-1, 0, 1}
  /\ \/ moved' = moved + 1
     \/ moved' = moved /\ fr = 0 /\ fs = 0 /\ aa = 0 /\ af = 0 /\ ia = 0 /\ if = 0

LEMMA SystemChanges ==
  ASSUME MemShape, System
  PROVE  \E fr, fs, aa, af, ia, if \in {-1, 0, 1} : Changed(fr, fs, aa, af, ia, if)
<1>1. Memory /\ \A g \in Gauge : Reading[g] \in Nat
  BY ReadingBounds DEF MemShape
<1>2. ASSUME NEW f \in Flow, MovePage(f[1], f[2])
      PROVE  \E fr, fs, aa, af, ia, if \in {-1, 0, 1} : Changed(fr, fs, aa, af, ia, if)
  <2> DEFINE a == f[1]
             b == f[2]
             fr == Shift(a, b, {"free"})
             fs == freeswap' - freeswap
             aa == Shift(a, b, {"anon_active"})
             af == Shift(a, b, {"file_active"})
             ia == Shift(a, b, {"anon_inactive", "swapcache"})
             if == Shift(a, b, {"file_inactive", "buffer"})
  <2>1. a \in Kind /\ b \in Kind /\ a # b
    BY FlowKinds
  <2>2. /\ fr \in {-1, 0, 1} /\ aa \in {-1, 0, 1} /\ af \in {-1, 0, 1} /\ ia \in {-1, 0, 1}
        /\ if \in {-1, 0, 1}
        /\ aa + af \in {-1, 0, 1} /\ ia + if \in {-1, 0, 1}
    BY DEF Shift
  <2>3. freeswap \in Nat /\ moved' = moved + 1
    BY <1>1, <1>2, Sizes DEF Memory, MovePage
  <2>4. fs \in {-1, 0, 1}
    BY <1>2, <2>3 DEF MovePage
  <2>5. Reading["freeswap"] = freeswap /\ Reading'["freeswap"] = freeswap'
    BY DEF Reading
  <2>6. freeswap' = freeswap + fs
    <3>1. freeswap' \in Int
      BY <1>2, Sizes DEF MovePage
    <3>2. \A x, y \in Int : y = x + (y - x)
      OBVIOUS
    <3>3. freeswap \in Int
      BY <2>3
    <3>4. QED BY <3>1, <3>2, <3>3
  <2>7. /\ Reading'["freeram"] = Reading["freeram"] + fr
        /\ Reading'["active_anon"] = Reading["active_anon"] + aa
        /\ Reading'["active_file"] = Reading["active_file"] + af
        /\ Reading'["inactive_anon"] = Reading["inactive_anon"] + ia
        /\ Reading'["inactive_file"] = Reading["inactive_file"] + if
    BY <1>1, <1>2, <2>1, ReadingsMove
  <2> HIDE DEF fr, fs, aa, af, ia, if
  <2>8. Changed(fr, fs, aa, af, ia, if)
    BY <2>2, <2>3, <2>5, <2>6, <2>7 DEF Changed
  <2>9. QED BY <2>2, <2>4, <2>8
<1>3. CASE ReleaseSlot
  <2>1. mem' = mem /\ freeswap' = freeswap + 1 /\ moved' = moved + 1
    BY <1>3 DEF ReleaseSlot
  <2>2. \A g \in Gauge \ {"freeswap"} : Reading'[g] = Reading[g]
    BY <2>1 DEF Reading, FileLru, Gauge
  <2>3. Reading'["freeswap"] = Reading["freeswap"] + 1
    BY <2>1 DEF Reading
  <2>4. Changed(0, 1, 0, 0, 0, 0)
    BY <1>1, <2>1, <2>2, <2>3 DEF Changed, Gauge
  <2>5. QED BY <2>4
<1>4. ASSUME NEW cpu \in 1 .. Cpus, NEW major \in BOOLEAN, PageFault(cpu, major)
      PROVE  \E fr, fs, aa, af, ia, if \in {-1, 0, 1} : Changed(fr, fs, aa, af, ia, if)
  <2>1. UNCHANGED <<mem, freeswap, moved>>
    BY <1>4 DEF PageFault
  <2>2. \A g \in Gauge : Reading'[g] = Reading[g]
    BY <2>1 DEF Reading, FileLru, Gauge
  <2>3. Changed(0, 0, 0, 0, 0, 0)
    BY <1>1, <2>1, <2>2 DEF Changed, Gauge
  <2>4. QED BY <2>3
<1>5. QED BY <1>2, <1>3, <1>4 DEF System

\* Two numbers that are near stay so when they change by numbers that differ by
\* one at most.
LEMMA NearShift ==
  ASSUME NEW x \in Int, NEW y \in Int, NEW d \in Nat, NEW s \in Int, NEW t \in Int,
         s - t \in {-1, 0, 1}, Near(x, y, d)
  PROVE  Near(x + s, y + t, d + 1)
BY DEF Near

LEMMA GaugesNat ==
  ASSUME MemShape
  PROVE  /\ Reading["freeram"] \in Nat /\ Reading["freeswap"] \in Nat
         /\ Reading["active_anon"] \in Nat /\ Reading["active_file"] \in Nat
         /\ Reading["inactive_anon"] \in Nat /\ Reading["inactive_file"] \in Nat
         /\ Active(Reading) \in Nat /\ Inactive(Reading) \in Nat
<1>1. \A g \in Gauge : Reading[g] \in Nat
  BY ReadingBounds DEF MemShape
<1>2. QED BY <1>1 DEF Gauge, Active, Inactive

\* A step of the rest of the system keeps what a call will report and has
\* reported near to what there is.
LEMMA NowMoves ==
  ASSUME MemShape, NEW c \in Call, NowClose(c), NowReported(c), System
  PROVE  NowClose(c)' /\ NowReported(c)'
<1>1. /\ UNCHANGED callVars /\ UNCHANGED <<sys, step, sample, ret, out, base>>
      /\ moved' \in {moved, moved + 1}
  BY SystemKeeps DEF callVars
<1>2. PICK fr, fs, aa, af, ia, if \in {-1, 0, 1} : Changed(fr, fs, aa, af, ia, if)
  BY SystemChanges
<1> DEFINE t(k, s) == IF step[c] > k THEN 0 ELSE s
           one == moved' - moved
<1>3. Moves(c) \in Nat /\ Moves(c)' = Moves(c) + one /\ one \in {0, 1}
  <2>1. moved \in Nat /\ base[c].moved \in Nat
    BY DEF MemShape, Memory, Bases
  <2>2. Moves(c) = moved - base[c].moved /\ Moves(c)' = moved' - base[c].moved
    BY <1>1 DEF Moves
  <2>3. Moves(c) \in Nat
    BY EstInt DEF Gauge
  <2>4. one \in {0, 1}
    <3>1. \A x \in Nat : x - x = 0 /\ (x + 1) - x = 1
      OBVIOUS
    <3>2. moved \in Nat /\ moved' \in {moved, moved + 1}
      BY <1>1, <2>1
    <3>3. QED BY <3>1, <3>2
  <2>5. \A x, y, b \in Int : y - b = (x - b) + (y - x)
    OBVIOUS
  <2>6. moved \in Int /\ moved' \in Int /\ base[c].moved \in Int
    BY <1>1, <2>1
  <2>7. QED BY <2>2, <2>3, <2>4, <2>5, <2>6
<1>4. \/ one = 1
      \/ one = 0 /\ fr = 0 /\ fs = 0 /\ aa = 0 /\ af = 0 /\ ia = 0 /\ if = 0
  <2>1. moved \in Nat
    BY DEF MemShape, Memory
  <2>2. QED BY <1>2, <2>1 DEF Changed
<1> HIDE DEF one
<1>5. /\ Est(c, "freeram", 1)' = Est(c, "freeram", 1) + t(1, fr)
      /\ Est(c, "freeswap", 1)' = Est(c, "freeswap", 1) + t(1, fs)
      /\ Est(c, "active_anon", 2)' = Est(c, "active_anon", 2) + t(2, aa)
      /\ Est(c, "active_file", 4)' = Est(c, "active_file", 4) + t(4, af)
      /\ Est(c, "inactive_anon", 1)' = Est(c, "inactive_anon", 1) + t(1, ia)
      /\ Est(c, "inactive_file", 3)' = Est(c, "inactive_file", 3) + t(3, if)
  BY <1>1, <1>2, EstMoves DEF Changed, Gauge
<1>6. /\ Reading'["freeram"] = Reading["freeram"] + fr
      /\ Reading'["freeswap"] = Reading["freeswap"] + fs
      /\ Active(Reading)' = Active(Reading) + (aa + af)
      /\ Inactive(Reading)' = Inactive(Reading) + (ia + if)
      /\ aa + af \in {-1, 0, 1} /\ ia + if \in {-1, 0, 1}
  <2>1. /\ Reading'["active_anon"] = Reading["active_anon"] + aa
        /\ Reading'["active_file"] = Reading["active_file"] + af
        /\ Reading'["inactive_anon"] = Reading["inactive_anon"] + ia
        /\ Reading'["inactive_file"] = Reading["inactive_file"] + if
    BY <1>2 DEF Changed
  <2>2. Active(Reading)' = Active(Reading) + (aa + af)
    BY <2>1, GaugesNat DEF Active
  <2>3. Inactive(Reading)' = Inactive(Reading) + (ia + if)
    BY <2>1, GaugesNat DEF Inactive
  <2>4. QED BY <1>2, <2>2, <2>3 DEF Changed
<1>7. /\ Est(c, "freeram", 1) \in Nat /\ Est(c, "freeswap", 1) \in Nat
      /\ Est(c, "active_anon", 2) \in Nat /\ Est(c, "active_file", 4) \in Nat
      /\ Est(c, "inactive_anon", 1) \in Nat /\ Est(c, "inactive_file", 3) \in Nat
  BY EstInt DEF Gauge
<1>8. /\ EstActive(c) \in Nat /\ EstInactive(c) \in Nat
      /\ EstActive(c)' = EstActive(c) + (t(2, aa) + t(4, af))
      /\ EstInactive(c)' = EstInactive(c) + (t(1, ia) + t(3, if))
  BY <1>5, <1>7 DEF EstActive, EstInactive
<1>9. step[c] \in Nat
  BY DEF MemShape, Calls
<1>10. /\ t(1, fr) - fr \in {-1, 0, 1} /\ t(1, fs) - fs \in {-1, 0, 1}
       /\ (t(2, aa) + t(4, af)) - (aa + af) \in {-1, 0, 1}
       /\ (t(1, ia) + t(3, if)) - (ia + if) \in {-1, 0, 1}
       /\ t(1, fr) \in Int /\ t(1, fs) \in Int
       /\ t(2, aa) + t(4, af) \in Int /\ t(1, ia) + t(3, if) \in Int
  BY <1>6, <1>9
<1>11. one = 0 => /\ t(1, fr) = 0 /\ t(1, fs) = 0
                  /\ t(2, aa) + t(4, af) = 0 /\ t(1, ia) + t(3, if) = 0
                  /\ aa + af = 0 /\ ia + if = 0
  BY <1>4
<1>12. ASSUME NEW x \in Int, NEW y \in Int, NEW s \in Int, NEW u \in Int,
              s - u \in {-1, 0, 1}, one = 0 => s = 0 /\ u = 0, Near(x, y, Moves(c))
       PROVE  Near(x + s, y + u, Moves(c)')
  <2>1. CASE one = 1
    BY <1>3, <1>12, <2>1, NearShift
  <2>2. CASE one = 0
    BY <1>3, <1>12, <2>2
  <2>3. QED BY <1>3, <2>1, <2>2
<1> DEFINE p == t(1, fr)
           q == t(1, fs)
           v == t(2, aa) + t(4, af)
           w == t(1, ia) + t(3, if)
           a == aa + af
           i == ia + if
<1> HIDE DEF t, p, q, v, w, a, i
<1>13. NowClose(c)'
  <2>1. InUseMem(c)' = InUseMem(c) /\ InUseSwap(c)' = InUseSwap(c) /\ InUsePages(c)' = InUsePages(c)
    BY <1>1 DEF InUseMem, InUseSwap, InUsePages
  <2>2. ASSUME InUseMem(c) PROVE Near(Est(c, "freeram", 1), Reading["freeram"], Moves(c))'
    <3>1. Near(Est(c, "freeram", 1), Reading["freeram"], Moves(c))
      BY <2>2 DEF NowClose
    <3>2. /\ p - fr \in {-1, 0, 1} /\ p \in Int /\ fr \in Int /\ (one = 0 => p = 0 /\ fr = 0)
          /\ Est(c, "freeram", 1) \in Int /\ Reading["freeram"] \in Int
      BY <1>4, <1>7, <1>10, <1>11, GaugesNat DEF p
    <3>3. Near(Est(c, "freeram", 1) + p, Reading["freeram"] + fr, Moves(c)')
      BY <1>12, <3>1, <3>2
    <3>4. QED BY <1>5, <1>6, <3>3 DEF Near, p
  <2>3. ASSUME InUseSwap(c) PROVE Near(Est(c, "freeswap", 1), Reading["freeswap"], Moves(c))'
    <3>1. Near(Est(c, "freeswap", 1), Reading["freeswap"], Moves(c))
      BY <2>3 DEF NowClose
    <3>2. /\ q - fs \in {-1, 0, 1} /\ q \in Int /\ fs \in Int /\ (one = 0 => q = 0 /\ fs = 0)
          /\ Est(c, "freeswap", 1) \in Int /\ Reading["freeswap"] \in Int
      BY <1>4, <1>7, <1>10, <1>11, GaugesNat DEF q
    <3>3. Near(Est(c, "freeswap", 1) + q, Reading["freeswap"] + fs, Moves(c)')
      BY <1>12, <3>1, <3>2
    <3>4. QED BY <1>5, <1>6, <3>3 DEF Near, q
  <2>4. ASSUME InUsePages(c)
        PROVE  Near(EstActive(c), Active(Reading), Moves(c))'
    <3>1. Near(EstActive(c), Active(Reading), Moves(c))
      BY <2>4 DEF NowClose
    <3>2. /\ v - a \in {-1, 0, 1} /\ v \in Int /\ a \in Int /\ (one = 0 => v = 0 /\ a = 0)
          /\ EstActive(c) \in Int /\ Active(Reading) \in Int
      BY <1>6, <1>8, <1>10, <1>11, GaugesNat DEF v, a
    <3>3. Near(EstActive(c) + v, Active(Reading) + a, Moves(c)')
      BY <1>12, <3>1, <3>2
    <3>4. QED BY <1>6, <1>8, <3>3 DEF Near, v, a
  <2>5. ASSUME InUsePages(c)
        PROVE  Near(EstInactive(c), Inactive(Reading), Moves(c))'
    <3>1. Near(EstInactive(c), Inactive(Reading), Moves(c))
      BY <2>5 DEF NowClose
    <3>2. /\ w - i \in {-1, 0, 1} /\ w \in Int /\ i \in Int /\ (one = 0 => w = 0 /\ i = 0)
          /\ EstInactive(c) \in Int /\ Inactive(Reading) \in Int
      BY <1>6, <1>8, <1>10, <1>11, GaugesNat DEF w, i
    <3>3. Near(EstInactive(c) + w, Inactive(Reading) + i, Moves(c)')
      BY <1>12, <3>1, <3>2
    <3>4. QED BY <1>6, <1>8, <3>3 DEF Near, w, i
  <2>6. QED BY <2>1, <2>2, <2>3, <2>4, <2>5 DEF NowClose
<1>14. NowReported(c)'
  <2>1. \A s : Succeeded(c, s)' = Succeeded(c, s)
    BY <1>1 DEF Succeeded
  <2>2. ASSUME Succeeded(c, "use_mem")
        PROVE  out'[c][1] \in Nat /\ Near(out[c][1], 4 * Reading["freeram"], 4 * Moves(c))'
    <3>1. out[c][1] \in Nat /\ Near(out[c][1], 4 * Reading["freeram"], 4 * Moves(c))
      BY <2>2 DEF NowReported
    <3>2. Reading["freeram"] \in Nat /\ (one = 1 \/ fr = 0)
      BY <1>4, GaugesNat
    <3>3. Near(out[c][1], 4 * (Reading["freeram"] + fr), 4 * (Moves(c) + one))
      BY <1>3, <3>1, <3>2 DEF Near
    <3>4. QED BY <1>1, <1>3, <1>6, <3>1, <3>3 DEF Near
  <2>3. ASSUME Succeeded(c, "use_swap")
        PROVE  out'[c][1] \in Nat /\ Near(out[c][1], Swap - Reading["freeswap"], Moves(c))'
    <3>1. out[c][1] \in Nat /\ Near(out[c][1], Swap - Reading["freeswap"], Moves(c))
      BY <2>3 DEF NowReported
    <3>2. Reading["freeswap"] \in Nat /\ (one = 1 \/ fs = 0) /\ Swap \in Nat
      BY <1>4, GaugesNat, Sizes
    <3>3. Near(out[c][1], Swap - (Reading["freeswap"] + fs), Moves(c) + one)
      BY <1>3, <3>1, <3>2 DEF Near
    <3>4. QED BY <1>1, <1>3, <1>6, <3>1, <3>3 DEF Near
  <2>4. ASSUME Succeeded(c, "use_pages")
        PROVE  /\ out'[c][1] \in Nat /\ Near(out[c][1], Active(Reading), Moves(c))'
               /\ out'[c][2] \in Nat /\ Near(out[c][2], Inactive(Reading), Moves(c))'
    <3>1. /\ out[c][1] \in Nat /\ Near(out[c][1], Active(Reading), Moves(c))
          /\ out[c][2] \in Nat /\ Near(out[c][2], Inactive(Reading), Moves(c))
      BY <2>4 DEF NowReported
    <3>2. /\ a \in {-1, 0, 1} /\ i \in {-1, 0, 1} /\ (one = 1 \/ (a = 0 /\ i = 0))
          /\ Active(Reading) \in Nat /\ Inactive(Reading) \in Nat
      BY <1>4, <1>6, GaugesNat DEF a, i
    <3>3. /\ Near(out[c][1], Active(Reading) + a, Moves(c) + one)
          /\ Near(out[c][2], Inactive(Reading) + i, Moves(c) + one)
      BY <1>3, <3>1, <3>2 DEF Near
    <3>4. QED BY <1>1, <1>3, <1>6, <3>1, <3>3 DEF Near, a, i
  <2>5. QED BY <2>1, <2>2, <2>3, <2>4 DEF NowReported
<1>15. QED BY <1>13, <1>14

\* Steps that leave the pages, the slots and the call alone keep what is said
\* of it.
LEMMA NowStays ==
  ASSUME NEW c \in Call, NowClose(c), NowReported(c), Untouched(c),
         UNCHANGED <<mem, freeswap, moved>>
  PROVE  NowClose(c)' /\ NowReported(c)'
<1>1. Reading' = Reading
  BY DEF Reading, FileLru
<1>2. /\ sys'[c] = sys[c] /\ step'[c] = step[c] /\ sample'[c] = sample[c]
      /\ ret'[c] = ret[c] /\ out'[c] = out[c] /\ Moves(c)' = Moves(c)
  BY DEF Untouched, Moves
<1>3. \A g, k : Est(c, g, k)' = Est(c, g, k)
  BY <1>1, <1>2 DEF Est
<1>4. EstActive(c)' = EstActive(c) /\ EstInactive(c)' = EstInactive(c)
  BY <1>3 DEF EstActive, EstInactive
<1>5. NowClose(c)'
  BY <1>1, <1>2, <1>3, <1>4 DEF NowClose, InUseMem, InUseSwap, InUsePages, Near, Active, Inactive
<1>6. NowReported(c)'
  BY <1>1, <1>2 DEF NowReported, Succeeded, Near, Active, Inactive
<1>7. QED BY <1>5, <1>6

\* A call that begins will report what there is.
LEMMA NowBegins ==
  ASSUME MemShape, NEW c \in Call, NEW s \in MemCall, Begin(c, s)
  PROVE  NowClose(c)' /\ NowReported(c)'
<1>1. /\ step'[c] = 1 /\ base'[c].moved = moved
      /\ Reading' = Reading /\ moved' = moved /\ moved \in Nat
  BY DEF Begin, envVars, Reading, FileLru, MemShape, Calls, Bases, Memory
<1>2. Moves(c)' = 0
  BY <1>1 DEF Moves
<1>3. \A g \in Gauge, k \in Nat \ {0} : Est(c, g, k)' = Reading[g]
  BY <1>1 DEF Est
<1>4. EstActive(c)' = Active(Reading) /\ EstInactive(c)' = Inactive(Reading)
  BY <1>3 DEF EstActive, EstInactive, Active, Inactive, Gauge
<1>5. Active(Reading)' = Active(Reading) /\ Inactive(Reading)' = Inactive(Reading)
  BY <1>1 DEF Active, Inactive
<1>6. NowClose(c)'
  <2>1. Est(c, "freeram", 1)' = Reading["freeram"] /\ Est(c, "freeswap", 1)' = Reading["freeswap"]
    BY <1>3 DEF Gauge
  <2>2. QED BY <1>1, <1>2, <1>4, <1>5, <2>1, GaugesNat DEF NowClose, Near
<1>7. QED BY <1>1, <1>6 DEF NowReported, Succeeded

LEMMA UseSwapAt ==
  ASSUME MemShape, NEW c \in Call, InUseSwap(c)
  PROVE  /\ step[c] \in 1 .. 3 /\ (At(c) = "copy" <=> step[c] = 3)
         /\ step[c] = 1 <=> At(c) = "freeswap"
<1>0. /\ Len(Program[sys[c]]) = 2 /\ Program[sys[c]] = UseSwapSteps
      /\ step[c] # 0 /\ step[c] \in Nat /\ step[c] \in 1 .. Len(Program[sys[c]]) + 1
  <2>1. sys[c] = "use_swap" /\ step[c] # 0
    BY DEF InUseSwap
  <2>2. step[c] \in Nat /\ step[c] \in 1 .. Len(Program[sys[c]]) + 1
    BY <2>1 DEF MemShape, Calls
  <2>3. QED BY <2>1, <2>2, Lengths DEF Program
<1>1. step[c] \in 1 .. 3
  BY <1>0
<1>2. At(c) = IF step[c] <= 2 THEN UseSwapSteps[step[c]] ELSE "copy"
  BY <1>0 DEF At
<1>3. UseSwapSteps[1] = "freeswap" /\ UseSwapSteps[2] = "kmalloc"
  BY DEF UseSwapSteps
<1>4. QED BY <1>1, <1>2, <1>3

LEMMA NowGoing ==
  ASSUME MemShape, NEW c \in Call, NowClose(c), NowReported(c), step[c] # 0,
         UNCHANGED <<envVars, sys, base>>, Going(c)
  PROVE  NowClose(c)' /\ NowReported(c)'
<1>1. step'[c] # 0 /\ sys' = sys /\ Reading' = Reading /\ Moves(c)' = Moves(c)
  BY DEF Going, Advance, MemShape, Calls, envVars, Reading, FileLru, Moves
<1>2. Active(Reading)' = Active(Reading) /\ Inactive(Reading)' = Inactive(Reading)
  BY <1>1 DEF Active, Inactive
<1>3. ASSUME InUseMem(c) PROVE Est(c, "freeram", 1)' = Est(c, "freeram", 1)
  BY <1>3, UseMemAt, GoingEst DEF Gauge
<1>4. ASSUME InUseSwap(c) PROVE Est(c, "freeswap", 1)' = Est(c, "freeswap", 1)
  BY <1>4, UseSwapAt, GoingEst DEF Gauge
<1>5. ASSUME InUsePages(c) PROVE EstActive(c)' = EstActive(c) /\ EstInactive(c)' = EstInactive(c)
  <2>1. /\ Est(c, "active_anon", 2)' = Est(c, "active_anon", 2)
        /\ Est(c, "active_file", 4)' = Est(c, "active_file", 4)
        /\ Est(c, "inactive_anon", 1)' = Est(c, "inactive_anon", 1)
        /\ Est(c, "inactive_file", 3)' = Est(c, "inactive_file", 3)
    BY <1>5, UsePagesAt, GoingEst DEF Gauge
  <2>2. QED BY <2>1 DEF EstActive, EstInactive
<1>6. NowClose(c)'
  BY <1>1, <1>2, <1>3, <1>4, <1>5 DEF NowClose, InUseMem, InUseSwap, InUsePages, Near
<1>7. QED BY <1>1, <1>6 DEF NowReported, Succeeded

\* When a call succeeds, its words are what it was to report.
LEMMA NowFinishes ==
  ASSUME MemShape, NEW c \in Call, NowClose(c), step[c] # 0,
         UNCHANGED <<envVars, sys, base>>, Finishing(c)
  PROVE  NowClose(c)' /\ NowReported(c)'
<1>1. step'[c] = 0 /\ sys' = sys /\ Reading' = Reading /\ Moves(c)' = Moves(c) /\ At(c) = "copy"
  BY DEF Finishing, Return, MemShape, Calls, envVars, Reading, FileLru, Moves
<1>2. Active(Reading)' = Active(Reading) /\ Inactive(Reading)' = Inactive(Reading)
  BY <1>1 DEF Active, Inactive
<1>3. \A g \in Gauge : sample[c][g] \in Nat
  BY DEF MemShape, Calls
<1>4. \A i \in 1 .. Len(Info(sample[c])[sys[c]]) : out'[c][i] = Info(sample[c])[sys[c]][i]
  BY DEF Finishing
<1> DEFINE s == sample[c]
<1>5. ASSUME sys[c] = "use_mem"
      PROVE  out'[c][1] \in Nat /\ Near(out'[c][1], 4 * Reading["freeram"], 4 * Moves(c))
  <2>1. InUseMem(c) /\ step[c] = 7
    BY <1>1, <1>5, UseMemAt DEF InUseMem
  <2>2. Info(s)[sys[c]] = UseMemWords(s) /\ Len(UseMemWords(s)) = 4
    BY <1>5 DEF Info, UseMemWords
  <2>3. out'[c][1] = Kb(s["freeram"])
    BY <1>4, <2>2 DEF UseMemWords
  <2>4. s["freeram"] \in Nat /\ s["freeram"] <= TotalRam
    BY <1>3 DEF MemShape, Calls, Small, Gauge
  <2>5. Kb(s["freeram"]) = 4 * s["freeram"]
    BY <2>4, Sizes DEF Kb
  <2>6. Near(s["freeram"], Reading["freeram"], Moves(c))
    BY <2>1 DEF NowClose, Est
  <2>7. Reading["freeram"] \in Nat /\ Moves(c) \in Nat
    BY GaugesNat, EstInt DEF Gauge
  <2> HIDE DEF s
  <2>8. Near(4 * s["freeram"], 4 * Reading["freeram"], 4 * Moves(c))
    BY <2>4, <2>6, <2>7 DEF Near
  <2>9. QED BY <2>3, <2>4, <2>5, <2>8
<1>6. ASSUME sys[c] = "use_swap"
      PROVE  out'[c][1] \in Nat /\ Near(out'[c][1], Swap - Reading["freeswap"], Moves(c))
  <2>1. InUseSwap(c) /\ step[c] = 3
    BY <1>1, <1>6, UseSwapAt DEF InUseSwap
  <2>2. Info(s)[sys[c]] = UseSwapWords(s) /\ Len(UseSwapWords(s)) = 3
    BY <1>6 DEF Info, UseSwapWords
  <2>3. out'[c][1] = Swap - s["freeswap"]
    BY <1>4, <2>2 DEF UseSwapWords
  <2>4. s["freeswap"] \in Nat /\ s["freeswap"] <= Swap
    BY <1>3 DEF MemShape, Calls, Small, Gauge
  <2>5. Near(s["freeswap"], Reading["freeswap"], Moves(c))
    BY <2>1 DEF NowClose, Est
  <2>6. Reading["freeswap"] \in Nat /\ Moves(c) \in Nat /\ Swap \in Nat
    BY GaugesNat, EstInt, Sizes DEF Gauge
  <2> HIDE DEF s
  <2>7. Near(Swap - s["freeswap"], Swap - Reading["freeswap"], Moves(c))
    BY <2>4, <2>5, <2>6 DEF Near
  <2>8. QED BY <2>3, <2>4, <2>6, <2>7
<1>7. ASSUME sys[c] = "use_pages"
      PROVE  /\ out'[c][1] \in Nat /\ Near(out'[c][1], Active(Reading), Moves(c))
             /\ out'[c][2] \in Nat /\ Near(out'[c][2], Inactive(Reading), Moves(c))
  <2>1. InUsePages(c) /\ step[c] = 6
    BY <1>1, <1>7, UsePagesAt DEF InUsePages
  <2>2. Info(s)[sys[c]] = UsePagesWords(s) /\ Len(UsePagesWords(s)) = 2
    BY <1>7 DEF Info, UsePagesWords
  <2>3. out'[c][1] = EstActive(c) /\ out'[c][2] = EstInactive(c)
    BY <1>4, <2>1, <2>2 DEF UsePagesWords, EstActive, EstInactive, Est
  <2>4. EstActive(c) \in Nat /\ EstInactive(c) \in Nat
    <3>1. /\ s["active_anon"] \in Nat /\ s["active_file"] \in Nat
          /\ s["inactive_anon"] \in Nat /\ s["inactive_file"] \in Nat
      BY <1>3 DEF Gauge
    <3>2. QED BY <2>1, <3>1, SMTT(30) DEF EstActive, EstInactive, Est
  <2>5. Near(EstActive(c), Active(Reading), Moves(c)) /\ Near(EstInactive(c), Inactive(Reading), Moves(c))
    BY <2>1 DEF NowClose
  <2>6. QED BY <2>3, <2>4, <2>5
<1>8. NowReported(c)'
  BY <1>1, <1>2, <1>5, <1>6, <1>7 DEF NowReported, Succeeded, Near
<1>9. QED BY <1>1, <1>8 DEF NowClose, InUseMem, InUseSwap, InUsePages

LEMMA NowFails ==
  ASSUME MemShape, NEW c \in Call, NEW r \in Int \ {0}, Return(c, r)
  PROVE  NowClose(c)' /\ NowReported(c)'
<1>1. step'[c] = 0 /\ ret'[c] = r
  BY DEF Return, MemShape, Calls
<1>2. QED BY <1>1 DEF NowClose, InUseMem, InUseSwap, InUsePages, NowReported, Succeeded

-----------------------------------------------------------------------------
\* How the counters of the used and the cached memory change in a step of the
\* rest of the system: each by one at most, and so the cached memory, also as
\* seen by a call that has read the buffers, or those and the page cache.
UsedChanged(av, fp, sc, bu) ==
  /\ Reading'["available"] = Reading["available"] + av
  /\ Reading'["file_pages"] = Reading["file_pages"] + fp
  /\ Reading'["swapcache"] = Reading["swapcache"] + sc
  /\ Reading'["bufferram"] = Reading["bufferram"] + bu
  /\ fp - sc - bu \in {-1, 0, 1} /\ bu - fp \in {-1, 0, 1}
  /\ \/ moved' = moved + 1
     \/ moved' = moved /\ av = 0 /\ fp = 0 /\ sc = 0 /\ bu = 0

LEMMA SystemUsed ==
  ASSUME MemShape, System
  PROVE  \E av, fp, sc, bu \in {-1, 0, 1} : UsedChanged(av, fp, sc, bu)
<1>1. Memory /\ \A g \in Gauge : Reading[g] \in Nat
  BY ReadingBounds DEF MemShape
<1>2. ASSUME NEW f \in Flow, MovePage(f[1], f[2])
      PROVE  \E av, fp, sc, bu \in {-1, 0, 1} : UsedChanged(av, fp, sc, bu)
  <2> DEFINE a == f[1]
             b == f[2]
             av == Shift(a, b, {"free", "file_active", "file_inactive", "buffer"})
             fp == Shift(a, b, {"file_active", "file_inactive", "buffer", "swapcache"})
             sc == Shift(a, b, {"swapcache"})
             bu == Shift(a, b, {"buffer"})
  <2>1. a \in Kind /\ b \in Kind /\ a # b
    BY FlowKinds
  <2>2. /\ av \in {-1, 0, 1} /\ fp \in {-1, 0, 1} /\ sc \in {-1, 0, 1} /\ bu \in {-1, 0, 1}
        /\ fp - sc - bu \in {-1, 0, 1} /\ bu - fp \in {-1, 0, 1}
    BY DEF Shift
  <2>3. moved' = moved + 1
    BY <1>2 DEF MovePage
  <2>4. /\ Reading'["available"] = Reading["available"] + av
        /\ Reading'["file_pages"] = Reading["file_pages"] + fp
        /\ Reading'["swapcache"] = Reading["swapcache"] + sc
        /\ Reading'["bufferram"] = Reading["bufferram"] + bu
    BY <1>1, <1>2, <2>1, ReadingsMove
  <2> HIDE DEF av, fp, sc, bu
  <2>5. UsedChanged(av, fp, sc, bu)
    BY <2>2, <2>3, <2>4 DEF UsedChanged
  <2>6. QED BY <2>2, <2>5
<1>3. ASSUME mem' = mem, moved' \in {moved, moved + 1} PROVE UsedChanged(0, 0, 0, 0)
  <2>1. \A g \in Gauge \ {"freeswap"} : Reading'[g] = Reading[g]
    BY <1>3 DEF Reading, FileLru, Gauge
  <2>2. QED BY <1>1, <1>3, <2>1 DEF UsedChanged, Gauge
<1>4. CASE ReleaseSlot \/ \E cpu \in 1 .. Cpus, major \in BOOLEAN : PageFault(cpu, major)
  <2>1. mem' = mem /\ moved' \in {moved, moved + 1}
    BY <1>4 DEF ReleaseSlot, PageFault
  <2>2. QED BY <1>3, <2>1
<1>5. QED BY <1>2, <1>4 DEF System

LEMMA UsedNat ==
  ASSUME MemShape
  PROVE  /\ Reading["available"] \in Nat /\ Reading["file_pages"] \in Nat
         /\ Reading["swapcache"] \in Nat /\ Reading["bufferram"] \in Nat
         /\ Cached(Reading) \in Int /\ UsedRam(Reading) \in Int
<1>1. \A g \in Gauge : Reading[g] \in Nat
  BY ReadingBounds DEF MemShape
<1>2. QED BY <1>1, Sizes DEF Gauge, Cached, UsedRam

\* A step of the rest of the system keeps the used and the cached memory near.
LEMMA UsedMoves ==
  ASSUME MemShape, NEW c \in Call, UsedClose(c), UsedReported(c), System
  PROVE  UsedClose(c)' /\ UsedReported(c)'
<1>1. /\ UNCHANGED callVars /\ UNCHANGED <<sys, step, sample, ret, out, base>>
      /\ moved' \in {moved, moved + 1}
  BY SystemKeeps DEF callVars
<1>2. PICK av, fp, sc, bu \in {-1, 0, 1} : UsedChanged(av, fp, sc, bu)
  BY SystemUsed
<1> DEFINE t(k, s) == IF step[c] > k THEN 0 ELSE s
           ca == fp - sc - bu
           v == t(4, av)
           w == t(5, fp) - t(6, sc) - t(2, bu)
<1>3. \/ moved' = moved + 1
      \/ moved' = moved /\ av = 0 /\ fp = 0 /\ sc = 0 /\ bu = 0
  BY <1>2 DEF UsedChanged
<1>4. /\ Moves(c) \in Nat
      /\ \/ Moves(c)' = Moves(c) + 1
         \/ Moves(c)' = Moves(c) /\ av = 0 /\ fp = 0 /\ sc = 0 /\ bu = 0
  <2>1. moved \in Nat /\ base[c].moved \in Nat
    BY DEF MemShape, Memory, Bases
  <2>2. Moves(c) = moved - base[c].moved /\ Moves(c)' = moved' - base[c].moved
    BY <1>1 DEF Moves
  <2>3. Moves(c) \in Nat
    BY EstInt DEF Gauge
  <2>4. QED BY <1>3, <2>1, <2>2, <2>3
<1>5. /\ Est(c, "available", 4)' = Est(c, "available", 4) + v
      /\ Est(c, "file_pages", 5)' = Est(c, "file_pages", 5) + t(5, fp)
      /\ Est(c, "swapcache", 6)' = Est(c, "swapcache", 6) + t(6, sc)
      /\ Est(c, "bufferram", 2)' = Est(c, "bufferram", 2) + t(2, bu)
  BY <1>1, <1>2, EstMoves DEF UsedChanged, Gauge
<1>6. /\ Est(c, "available", 4) \in Nat /\ Est(c, "file_pages", 5) \in Nat
      /\ Est(c, "swapcache", 6) \in Nat /\ Est(c, "bufferram", 2) \in Nat
  BY EstInt DEF Gauge
<1>7. step[c] \in Nat
  BY DEF MemShape, Calls
<1>8. t(5, fp) \in Int /\ t(6, sc) \in Int /\ t(2, bu) \in Int
  OBVIOUS
<1>9. /\ EstCached(c) \in Int /\ EstCached(c)' = EstCached(c) + w
  <2> HIDE DEF t
  <2>1. QED BY <1>5, <1>6, <1>8 DEF EstCached
<1>10. /\ Reading'["available"] = Reading["available"] + av
       /\ Cached(Reading)' = Cached(Reading) + ca
       /\ ca \in {-1, 0, 1} /\ bu - fp \in {-1, 0, 1}
  <2>1. /\ Reading'["file_pages"] = Reading["file_pages"] + fp
        /\ Reading'["swapcache"] = Reading["swapcache"] + sc
        /\ Reading'["bufferram"] = Reading["bufferram"] + bu
    BY <1>2 DEF UsedChanged
  <2>2. Cached(Reading)' = Cached(Reading) + ca
    BY <2>1, UsedNat DEF Cached
  <2>3. QED BY <1>2, <2>2 DEF UsedChanged
<1>11. v \in Int /\ w \in Int /\ v - av \in {-1, 0, 1}
  <2>1. v \in {0, av}
    OBVIOUS
  <2>2. QED BY <1>8, <2>1
<1>12. w - ca \in {-1, 0, 1}
  <2>1. CASE step[c] <= 2
    BY <1>7, <2>1
  <2>2. CASE step[c] > 2 /\ step[c] <= 5
    BY <1>7, <2>2
  <2>3. CASE step[c] = 6
    BY <1>7, <1>10, <2>3
  <2>4. CASE step[c] > 6
    BY <1>7, <1>10, <2>4
  <2>5. QED BY <1>7, <2>1, <2>2, <2>3, <2>4
<1>13. Moves(c)' = Moves(c) => v = 0 /\ av = 0 /\ w = 0 /\ ca = 0
  <2>1. Moves(c)' = Moves(c) => av = 0 /\ fp = 0 /\ sc = 0 /\ bu = 0
    BY <1>4
  <2>2. QED BY <2>1
<1> HIDE DEF t, v, w, ca
<1>14. ASSUME NEW x \in Int, NEW y \in Int, NEW s \in Int, NEW u \in Int,
              s - u \in {-1, 0, 1}, Moves(c)' = Moves(c) => s = 0 /\ u = 0,
              Near(x, y, Moves(c))
       PROVE  Near(x + s, y + u, Moves(c)')
  <2>1. CASE Moves(c)' = Moves(c) + 1
    BY <1>4, <1>14, <2>1, NearShift
  <2>2. CASE Moves(c)' = Moves(c)
    BY <1>14, <2>2
  <2>3. QED BY <1>4, <2>1, <2>2
<1>15. UsedClose(c)'
  <2>1. InUseMem(c)' = InUseMem(c)
    BY <1>1 DEF InUseMem
  <2>2. ASSUME InUseMem(c)
        PROVE  Near(Est(c, "available", 4) + v, Reading["available"] + av, Moves(c)')
    <3>1. Near(Est(c, "available", 4), Reading["available"], Moves(c))
      BY <2>2 DEF UsedClose
    <3>2. /\ Est(c, "available", 4) \in Int /\ Reading["available"] \in Int /\ av \in Int
          /\ v \in Int
      BY <1>6, <1>11, UsedNat
    <3>3. QED BY <1>11, <1>13, <1>14, <3>1, <3>2
  <2>3. ASSUME InUseMem(c)
        PROVE  Near(EstCached(c) + w, Cached(Reading) + ca, Moves(c)')
    <3>1. Near(EstCached(c), Cached(Reading), Moves(c))
      BY <2>3 DEF UsedClose
    <3>2. Cached(Reading) \in Int /\ ca \in Int
      BY <1>10, UsedNat
    <3>3. QED BY <1>9, <1>11, <1>12, <1>13, <1>14, <3>1, <3>2
  <2>4. QED BY <1>5, <1>9, <1>10, <2>1, <2>2, <2>3 DEF UsedClose, Near
<1>16. UsedReported(c)'
  <2>1. Succeeded(c, "use_mem")' = Succeeded(c, "use_mem")
    BY <1>1 DEF Succeeded
  <2>2. ASSUME Succeeded(c, "use_mem")
        PROVE  /\ out[c][2] \in Nat /\ out[c][3] \in Nat /\ out[c][4] = 4 * TotalRam
               /\ Near(out[c][2], 4 * UsedRam(Reading), 4 * Moves(c))
               /\ Cached(Reading) >= Moves(c) => Near(out[c][3], 4 * Cached(Reading), 4 * Moves(c))
    BY <2>2 DEF UsedReported
  <2>3. UsedRam(Reading)' = UsedRam(Reading) - av /\ UsedRam(Reading) \in Int
    BY <1>10, UsedNat, Sizes DEF UsedRam
  <2>4. Cached(Reading) \in Int /\ ca \in Int
    BY <1>10, UsedNat
  <2>5. ASSUME Succeeded(c, "use_mem")
        PROVE  Near(out[c][2], 4 * (UsedRam(Reading) - av), 4 * Moves(c)')
    <3>1. CASE Moves(c)' = Moves(c) + 1
      BY <1>4, <2>2, <2>3, <2>5, <3>1 DEF Near
    <3>2. CASE Moves(c)' = Moves(c)
      BY <1>13, <2>2, <2>3, <2>5, <3>2 DEF Near
    <3>3. QED BY <1>4, <3>1, <3>2
  <2>6. ASSUME Succeeded(c, "use_mem"), Cached(Reading) + ca >= Moves(c)'
        PROVE  Near(out[c][3], 4 * (Cached(Reading) + ca), 4 * Moves(c)')
    <3>1. CASE Moves(c)' = Moves(c) + 1
      <4>1. Cached(Reading) >= Moves(c)
        BY <1>4, <1>10, <2>4, <2>6, <3>1
      <4>2. QED BY <1>4, <1>10, <2>2, <2>4, <2>6, <3>1, <4>1 DEF Near
    <3>2. CASE Moves(c)' = Moves(c)
      BY <1>13, <2>2, <2>4, <2>6, <3>2 DEF Near
    <3>3. QED BY <1>4, <3>1, <3>2
  <2>7. QED BY <1>1, <1>10, <2>1, <2>2, <2>3, <2>5, <2>6 DEF UsedReported, Near
<1>17. QED BY <1>15, <1>16

LEMMA UsedStays ==
  ASSUME NEW c \in Call, UsedClose(c), UsedReported(c), Untouched(c),
         UNCHANGED <<mem, freeswap, moved>>
  PROVE  UsedClose(c)' /\ UsedReported(c)'
<1>1. Reading' = Reading
  BY DEF Reading, FileLru
<1>2. /\ sys'[c] = sys[c] /\ step'[c] = step[c] /\ sample'[c] = sample[c]
      /\ ret'[c] = ret[c] /\ out'[c] = out[c] /\ Moves(c)' = Moves(c)
  BY DEF Untouched, Moves
<1>3. \A g, k : Est(c, g, k)' = Est(c, g, k)
  BY <1>1, <1>2 DEF Est
<1>4. EstCached(c)' = EstCached(c) /\ Cached(Reading)' = Cached(Reading)
      /\ UsedRam(Reading)' = UsedRam(Reading)
  BY <1>1, <1>3 DEF EstCached, Cached, UsedRam
<1>5. UsedClose(c)'
  BY <1>1, <1>2, <1>3, <1>4 DEF UsedClose, InUseMem, Near
<1>6. UsedReported(c)'
  BY <1>1, <1>2, <1>4 DEF UsedReported, Succeeded, Near
<1>7. QED BY <1>5, <1>6

LEMMA UsedBegins ==
  ASSUME MemShape, NEW c \in Call, NEW s \in MemCall, Begin(c, s)
  PROVE  UsedClose(c)' /\ UsedReported(c)'
<1>1. /\ step'[c] = 1 /\ base'[c].moved = moved
      /\ Reading' = Reading /\ moved' = moved /\ moved \in Nat
  BY DEF Begin, envVars, Reading, FileLru, MemShape, Calls, Bases, Memory
<1>2. Moves(c)' = 0
  BY <1>1 DEF Moves
<1>3. \A g \in Gauge, k \in Nat \ {0} : Est(c, g, k)' = Reading[g]
  BY <1>1 DEF Est
<1>4. /\ Est(c, "available", 4)' = Reading["available"]
      /\ Est(c, "file_pages", 5)' = Reading["file_pages"]
      /\ Est(c, "swapcache", 6)' = Reading["swapcache"]
      /\ Est(c, "bufferram", 2)' = Reading["bufferram"]
  BY <1>3 DEF Gauge
<1>5. EstCached(c)' = Cached(Reading) /\ Cached(Reading)' = Cached(Reading)
  BY <1>1, <1>4 DEF EstCached, Cached
<1>6. UsedClose(c)'
  BY <1>1, <1>2, <1>4, <1>5, UsedNat DEF UsedClose, Near
<1>7. QED BY <1>1, <1>6 DEF UsedReported, Succeeded

LEMMA UsedGoing ==
  ASSUME MemShape, NEW c \in Call, UsedClose(c), UsedReported(c), step[c] # 0,
         UNCHANGED <<envVars, sys, base>>, Going(c)
  PROVE  UsedClose(c)' /\ UsedReported(c)'
<1>1. step'[c] # 0 /\ sys' = sys /\ Reading' = Reading /\ Moves(c)' = Moves(c)
  BY DEF Going, Advance, MemShape, Calls, envVars, Reading, FileLru, Moves
<1>2. Cached(Reading)' = Cached(Reading)
  BY <1>1 DEF Cached
<1>3. ASSUME InUseMem(c)
      PROVE  Est(c, "available", 4)' = Est(c, "available", 4) /\ EstCached(c)' = EstCached(c)
  <2>1. /\ Est(c, "available", 4)' = Est(c, "available", 4)
        /\ Est(c, "file_pages", 5)' = Est(c, "file_pages", 5)
        /\ Est(c, "swapcache", 6)' = Est(c, "swapcache", 6)
        /\ Est(c, "bufferram", 2)' = Est(c, "bufferram", 2)
    BY <1>3, UseMemAt, GoingEst DEF Gauge
  <2>2. QED BY <2>1 DEF EstCached
<1>4. UsedClose(c)'
  BY <1>1, <1>2, <1>3 DEF UsedClose, InUseMem, Near
<1>5. QED BY <1>1, <1>4 DEF UsedReported, Succeeded

\* When use_mem succeeds, its words are what it was to report.
LEMMA UsedFinishes ==
  ASSUME MemShape, NEW c \in Call, UsedClose(c), step[c] # 0,
         UNCHANGED <<envVars, sys, base>>, Finishing(c)
  PROVE  UsedClose(c)' /\ UsedReported(c)'
<1>1. step'[c] = 0 /\ sys' = sys /\ Reading' = Reading /\ Moves(c)' = Moves(c) /\ At(c) = "copy"
  BY DEF Finishing, Return, MemShape, Calls, envVars, Reading, FileLru, Moves
<1>2. Cached(Reading)' = Cached(Reading) /\ UsedRam(Reading)' = UsedRam(Reading)
  BY <1>1 DEF Cached, UsedRam
<1> DEFINE s == sample[c]
<1>3. ASSUME sys[c] = "use_mem"
      PROVE  /\ out'[c][2] \in Nat /\ Near(out'[c][2], 4 * UsedRam(Reading), 4 * Moves(c))
             /\ out'[c][3] \in Nat
             /\ Cached(Reading) >= Moves(c) =>
                  Near(out'[c][3], 4 * Cached(Reading), 4 * Moves(c))
             /\ out'[c][4] = 4 * TotalRam
  <2>1. InUseMem(c) /\ step[c] = 7
    BY <1>1, <1>3, UseMemAt DEF InUseMem
  <2>2. Info(s)[sys[c]] = UseMemWords(s) /\ Len(UseMemWords(s)) = 4
    BY <1>3 DEF Info, UseMemWords
  <2>3. \A i \in 1 .. Len(Info(s)[sys[c]]) : out'[c][i] = Info(s)[sys[c]][i]
    BY DEF Finishing
  <2>4. /\ out'[c][2] = Kb(TotalRam - s["available"])
        /\ out'[c][3] = Kb(Cached(s)) /\ out'[c][4] = Kb(TotalRam)
    BY <2>2, <2>3 DEF UseMemWords
  <2>5. \A g \in Gauge : s[g] \in Nat
    BY DEF MemShape, Calls
  <2>6. /\ s["available"] \in Nat /\ s["available"] <= TotalRam
        /\ s["file_pages"] \in Nat /\ s["file_pages"] <= TotalRam
        /\ s["swapcache"] \in Nat /\ s["bufferram"] \in Nat
    BY <2>5 DEF MemShape, Calls, Small, Gauge
  <2>7. /\ Near(s["available"], Reading["available"], Moves(c))
        /\ Near(Cached(s), Cached(Reading), Moves(c))
    <3>1. Est(c, "available", 4) = s["available"] /\ EstCached(c) = Cached(s)
      BY <2>1 DEF Est, EstCached, Cached
    <3>2. QED BY <2>1, <3>1 DEF UsedClose
  <2> HIDE DEF s
  <2>8. \A x \in Nat : x <= TotalRam => Kb(x) = 4 * x
    <3>1. ASSUME NEW x \in Nat, NEW w \in Nat, 4 * x < w PROVE (4 * x) % w = 4 * x
      BY <3>1
    <3>2. QED BY <3>1, Sizes DEF Kb
  <2>9. TotalRam - s["available"] \in Nat /\ TotalRam - s["available"] <= TotalRam
        /\ Cached(s) \in Int /\ Cached(s) <= TotalRam
    BY <2>6, Sizes DEF Cached
  <2>10. out'[c][2] = 4 * (TotalRam - s["available"]) /\ out'[c][2] \in Nat
    <3>1. out'[c][2] = 4 * (TotalRam - s["available"])
      BY <2>4, <2>8, <2>9
    <3>2. QED BY <2>9, <3>1
  <2>11. out'[c][3] \in Nat /\ (Cached(s) >= 0 => out'[c][3] = 4 * Cached(s))
    <3>1. Cached(s) >= 0 => Cached(s) \in Nat
      BY <2>9
    <3>2. QED BY <2>4, <2>8, <2>9, <3>1, KbNat
  <2>12. out'[c][4] = 4 * TotalRam
    <3>1. TotalRam \in Nat /\ TotalRam <= TotalRam
      BY Sizes
    <3>2. QED BY <2>4, <2>8, <3>1
  <2>13. /\ Reading["available"] \in Nat /\ Cached(Reading) \in Int /\ Moves(c) \in Nat
         /\ TotalRam \in Nat
    BY UsedNat, EstInt, Sizes DEF Gauge
  <2>14. Near(4 * (TotalRam - s["available"]), 4 * (TotalRam - Reading["available"]), 4 * Moves(c))
    BY <2>6, <2>7, <2>13 DEF Near
  <2>15. Cached(Reading) >= Moves(c) =>
           Cached(s) >= 0 /\ Near(4 * Cached(s), 4 * Cached(Reading), 4 * Moves(c))
    BY <2>7, <2>9, <2>13 DEF Near
  <2>16. QED BY <2>10, <2>11, <2>12, <2>14, <2>15 DEF UsedRam
<1>4. UsedReported(c)'
  BY <1>1, <1>2, <1>3 DEF UsedReported, Succeeded, Near
<1>5. QED BY <1>1, <1>4 DEF UsedClose, InUseMem

LEMMA UsedFails ==
  ASSUME MemShape, NEW c \in Call, NEW r \in Int \ {0}, Return(c, r)
  PROVE  UsedClose(c)' /\ UsedReported(c)'
<1>1. step'[c] = 0 /\ ret'[c] = r
  BY DEF Return, MemShape, Calls
<1>2. QED BY <1>1 DEF UsedClose, InUseMem, UsedReported, Succeeded

-----------------------------------------------------------------------------
LEMMA SystemNow ==
  ASSUME NowHolds, System
  PROVE  NowHolds'
BY SystemKeeps, NowMoves, UsedMoves DEF NowHolds

LEMMA BeginNow ==
  ASSUME NowHolds, NEW c \in Call, NEW s \in MemCall, Begin(c, s)
  PROVE  NowHolds'
<1>1. MemShape /\ MemShape'
  BY BeginKeeps DEF NowHolds
<1>2. UNCHANGED <<mem, freeswap, moved>> /\ \A d \in Call : d # c => Untouched(d)
  BY <1>1 DEF Begin, envVars, Untouched, MemShape, Calls, Bases
<1>3. NowClose(c)' /\ NowReported(c)' /\ UsedClose(c)' /\ UsedReported(c)'
  BY <1>1, NowBegins, UsedBegins
<1>4. QED BY <1>1, <1>2, <1>3, NowStays, UsedStays DEF NowHolds

LEMMA CallStepNow ==
  ASSUME NowHolds, NEW c \in Call, CallStep(c)
  PROVE  NowHolds'
<1>1. /\ MemShape /\ MemShape' /\ NowClose(c) /\ NowReported(c)
      /\ UsedClose(c) /\ UsedReported(c)
  BY CallStepKeeps DEF NowHolds
<1>2. /\ step[c] # 0 /\ UNCHANGED <<envVars, sys, base>> /\ UNCHANGED <<mem, freeswap, moved>>
      /\ \A d \in Call : d # c => Untouched(d)
      /\ Going(c) \/ Finishing(c) \/ \E r \in Int \ {0} : Return(c, r)
  BY <1>1, CallStepWays DEF envVars
<1>3. NowClose(c)' /\ NowReported(c)'
  BY <1>1, <1>2, NowGoing, NowFinishes, NowFails
<1>4. UsedClose(c)' /\ UsedReported(c)'
  BY <1>1, <1>2, UsedGoing, UsedFinishes, UsedFails
<1>5. QED BY <1>1, <1>2, <1>3, <1>4, NowStays, UsedStays DEF NowHolds

LEMMA IdleNow ==
  ASSUME NowHolds, UNCHANGED memVars
  PROVE  NowHolds'
<1>1. MemShape'
  BY MemShapeStep DEF NowHolds
<1>2. UNCHANGED <<mem, freeswap, moved>> /\ \A d \in Call : Untouched(d)
  BY DEF memVars, envVars, callVars, Untouched
<1>3. QED BY <1>1, <1>2, NowStays, UsedStays DEF NowHolds

LEMMA NowInit ==
  ASSUME MemInit
  PROVE  NowHolds
<1>1. \A c \in Call : step[c] = 0 /\ sys[c] = "none"
  BY DEF MemInit
<1>2. QED
  BY <1>1, MemShapeInit
  DEF NowHolds, NowClose, NowReported, UsedClose, UsedReported, InUseMem, InUseSwap, InUsePages,
      Succeeded

\* Every word that use_mem, use_swap and use_pages report is off from what there
\* is at any later moment by no more than what has changed since they began;
\* only the cached memory may have wrapped, when more has changed than is
\* cached (use_mem.c:22-29, use_swap.c, use_pages.c).
THEOREM NowAlways == MemSpec => []NowHolds
<1>1. MemInit => NowHolds
  BY NowInit
<1>2. NowHolds /\ [MemNext]_memVars => NowHolds'
  BY SystemNow, BeginNow, CallStepNow, IdleNow DEF MemNext
<1>3. QED BY <1>1, <1>2, PTL DEF MemSpec

=============================================================================
