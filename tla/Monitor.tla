------------------------------- MODULE Monitor -------------------------------
(***************************************************************************)
(* The dashboard and the REST API, over the system calls of MemInfo.       *)
(* Every chart of the dashboard sends a request a second, whether or not   *)
(* the last one was answered (dashboard/src/components).  Each request     *)
(* runs the callback of its endpoint in a thread of its own (api.c), which *)
(* makes one system call or two, by number, and answers.  Answers arrive   *)
(* in any order, or not at all, and change the state of the chart.         *)
(*                                                                         *)
(* A thread of MemInfo is a request.  HTTP, JSON and React are libraries   *)
(* and modelled as they are used.  The figures keep the unit that the      *)
(* system call gives them: dividing a double by 1024 loses nothing.        *)
(***************************************************************************)
EXTENDS MemInfo

CONSTANTS
  Tables,   \* the possible tables of system calls: from number to name
  Plans,    \* which endpoint each request is for
  IntWord   \* an int of the JSON library is a number modulo IntWord

Endpoint == {"use_mem", "use_swap", "fault_pages", "use_pages", "use_mem_top_procs"}

\* The numbers that each callback calls, in order.
Numbers ==
  [use_mem |-> <<548>>, use_swap |-> <<548, 549>>, fault_pages |-> <<550>>,
   use_pages |-> <<551>>, use_mem_top_procs |-> <<552>>]

OtherCall == {"my_encrypt", "my_decrypt", "currenttimeseg", "systemuptimeseg",
              "lastkernlogs", "use_mem_top_procs"}

\* The system calls of each endpoint, in the manual (docs/manual.md:719-723).
Documented ==
  [use_mem |-> <<"use_mem">>, use_swap |-> <<"use_mem", "use_swap">>,
   fault_pages |-> <<"fault_pages">>, use_pages |-> <<"use_pages">>,
   use_mem_top_procs |-> <<"use_mem_top_procs">>]

\* Those that the repository's table has at these numbers (syscall_64.tbl:421-425).
RepositoryCalls ==
  [use_mem |-> <<"my_encrypt">>, use_swap |-> <<"my_encrypt", "my_decrypt">>,
   fault_pages |-> <<"currenttimeseg">>, use_pages |-> <<"systemuptimeseg">>,
   use_mem_top_procs |-> <<"lastkernlogs">>]

\* Under the table t the callbacks make the calls `names`.
Gives(t, names) == \A e \in Endpoint : \A k \in DOMAIN Numbers[e] : t[Numbers[e][k]] = names[e][k]

ASSUME MonitorAssumption ==
  /\ \A t \in Tables : DOMAIN t = 548 .. 557 /\ \A n \in DOMAIN t : t[n] \in MemCall \cup OtherCall
  /\ Plans \subseteq [Call -> Endpoint]
  /\ IntWord \in Nat \ {0}

\* The kernel has the repository's table, or one for the numbers that api.c
\* calls, and no mixture of the two.
ASSUME TablesAssumption ==
  \A t \in Tables : Gives(t, Documented) \/ Gives(t, RepositoryCalls)

VARIABLES
  table,   \* the system call table of the running kernel
  asks,    \* the endpoint of each request
  phase,   \* how far a request has got
  leg,     \* which of its system calls the callback makes
  made,    \* history: the calls it has made, when they began and their results
  phys,    \* mem_used_fisic
  held,    \* what the callback has allocated and not freed
  answer,  \* the response
  chart,   \* the points of each chart
  api      \* the process of the API: up, up with memory overwritten, or down

webVars == <<table, asks, phase, leg, made, phys, held, answer, chart, api>>
vars == <<memVars, webVars>>

-----------------------------------------------------------------------------
(* The requests *)

To(r, l, m) == phase[r] = l /\ phase' = [phase EXCEPT ![r] = m]

\* The timer of the chart fires: fetch.
Tick(r) ==
  /\ To(r, "idle", "sent")
  /\ UNCHANGED <<memVars, table, asks, leg, made, phys, held, answer, chart, api>>

\* The request or its answer is lost: `catch` leaves the chart as it is.
Lose(r) ==
  /\ "net" \in Failures \/ api = "down"
  /\ To(r, "sent", "lost") \/ To(r, "answered", "lost")
  /\ UNCHANGED <<memVars, table, asks, leg, made, phys, held, answer, chart, api>>

-----------------------------------------------------------------------------
(* The callbacks *)

\* The buffer of use_swap is as large as its own call needs.
AllocatedThree ==
  [use_mem |-> 4, use_swap |-> 3, fault_pages |-> 2, use_pages |-> 2, use_mem_top_procs |-> 25]

\* The words that each callback allocates.
Allocated ==
  [use_mem |-> 4, use_swap |-> 4, fault_pages |-> 2, use_pages |-> 2, use_mem_top_procs |-> 25]

\* The callback of the endpoint starts: calloc.
Receive(r) ==
  /\ To(r, "sent", "call") /\ api # "down"
  /\ out' = [out EXCEPT ![r] = [k \in 1 .. Allocated[asks[r]] |-> 0]]
  /\ held' = [held EXCEPT ![r] = {"info"}]
  /\ UNCHANGED <<envVars, sys, step, sample, ret, base, table, asks, leg, made, phys, answer,
                 chart, api>>

\* The number of the system call that is next.
Number(r) == Numbers[asks[r]][leg[r]]

\* What a call that is not of MemInfo returns when its argument is the buffer
\* of a callback: my_encrypt and my_decrypt find an empty path and no others,
\* the clocks return the seconds, lastkernlogs the length of its text or an
\* error.
Result(s) ==
  CASE s = "use_mem_top_procs" -> {0} \cup (IF "alloc" \in Failures THEN {ENOMEM} ELSE {})
    [] s \in {"my_encrypt", "my_decrypt"} -> {-2, -14, -22}
    [] s = "lastkernlogs" -> {1, -22}
    [] OTHER -> {1}

\* syscall().  The text of lastkernlogs may be longer than the buffer.
Syscall(r) ==
  LET s == table[Number(r)] IN
  /\ To(r, "call", "kernel")
  /\ \/ /\ s \in MemCall
        /\ Begin(r, s)
        /\ UNCHANGED api
     \/ /\ s \in OtherCall
        /\ \E v \in Result(s) :
             /\ ret' = [ret EXCEPT ![r] = v]
             /\ UNCHANGED api \/ (s = "lastkernlogs" /\ v > 0 /\ api' = "overwritten")
        /\ sys' = [sys EXCEPT ![r] = s]
        /\ UNCHANGED <<envVars, step, sample, out, base>>
  /\ UNCHANGED <<table, asks, leg, made, phys, held, answer, chart>>

\* The API dies of the memory it has overwritten, with all of its threads.
Die ==
  /\ api = "overwritten"
  /\ api' = "down"
  /\ phase' = [r \in Call |-> IF phase[r] \in {"call", "kernel"} THEN "lost" ELSE phase[r]]
  /\ UNCHANGED <<memVars, table, asks, leg, made, phys, held, answer, chart>>

Returned(r) == phase[r] = "kernel" /\ step[r] = 0

Noted(r) == Append(made[r], [name |-> sys[r], ret |-> ret[r], began |-> base[r].moved])

\* No call is the last.
LastNever(r) == FALSE

\* The callback has made all of its calls.
Last(r) == leg[r] = Len(Numbers[asks[r]])

\* The used memory is taken from the word before the right one.
SecondCallTakesFree(r) ==
  /\ Returned(r) /\ ~Last(r)
  /\ To(r, "kernel", "call")
  /\ made' = [made EXCEPT ![r] = Noted(r)]
  /\ phys' = [phys EXCEPT ![r] = out[r][1]]
  /\ leg' = [leg EXCEPT ![r] = @ + 1]
  /\ UNCHANGED <<memVars, table, asks, held, answer, chart, api>>

\* The callback of use_swap takes the used memory from the buffer, whatever
\* the first call returned, and makes the second.
SecondCall(r) ==
  /\ Returned(r) /\ ~Last(r)
  /\ To(r, "kernel", "call")
  /\ made' = [made EXCEPT ![r] = Noted(r)]
  /\ phys' = [phys EXCEPT ![r] = out[r][2]]
  /\ leg' = [leg EXCEPT ![r] = @ + 1]
  /\ UNCHANGED <<memVars, table, asks, held, answer, chart, api>>

\* A short instead of an int.
ToShort(x) == LET w == IntWord \div 2 IN IF 2 * (x % w) < w THEN x % w ELSE (x % w) - w

\* json_pack takes an int from an unsigned long.
ToInt(x) ==
  LET n == x % IntWord IN IF 2 * n < IntWord THEN n ELSE n - IntWord

\* The pages of the swap space are not converted.
UseSwapBodyInPages(r) == <<phys[r], out[r][1]>>

\* The figures that each callback packs.
UseMemBody(r) == out[r]
UseSwapBody(r) == <<phys[r], 4 * out[r][1]>>
IntBody(r) == <<ToInt(out[r][1]), ToInt(out[r][2])>>

Body(r) ==
  [use_mem |-> UseMemBody(r), use_swap |-> UseSwapBody(r), fault_pages |-> IntBody(r),
   use_pages |-> IntBody(r), use_mem_top_procs |-> <<>>][asks[r]]

Error == [status |-> 500, body |-> <<>>]
Figures(r) == [status |-> 200, body |-> Body(r)]

\* The result is not looked at.
EndingsAnyway(r) == {[answer |-> Figures(r), left |-> {}]}

\* An error is not answered.
EndingsOnSuccess(r) == {e \in {[answer |-> Figures(r), left |-> {}]} : ret[r] = 0}

\* Every callback returns early on an error.
EndingsEarly(r) ==
  {IF ret[r] = 0 THEN [answer |-> Figures(r), left |-> {}]
                 ELSE [answer |-> Error, left |-> {"info", "json"}]}

\* How the callback may end, by the result of its last call: its answer, and
\* what it leaves allocated.  That of use_mem_top_procs returns early on an
\* error, and when a name is not UTF-8 and json_pack refuses it.
Endings(r) ==
  LET top == asks[r] = "use_mem_top_procs" IN
  IF ret[r] # 0 THEN {[answer |-> Error, left |-> IF top THEN {"info", "json"} ELSE {}]}
  ELSE {[answer |-> Figures(r), left |-> {}]}
         \cup {[answer |-> Error, left |-> {"info", "json", "array"}] :
                n \in {"name"} \cap (IF top THEN Failures ELSE {})}

\* The answer, and the end of the callback.
Respond(r) ==
  /\ Returned(r) /\ Last(r)
  /\ To(r, "kernel", "answered")
  /\ made' = [made EXCEPT ![r] = Noted(r)]
  /\ \E e \in Endings(r) :
       /\ answer' = [answer EXCEPT ![r] = e.answer]
       /\ held' = [held EXCEPT ![r] = e.left]
  /\ UNCHANGED <<memVars, table, asks, leg, phys, chart, api>>

-----------------------------------------------------------------------------
(* The charts *)

Point(r) == [of |-> r, figures |-> answer[r].body]

\* The point is added to those that the chart had when it was mounted.
DrawnStale(r) == <<Point(r)>>

\* The chart with the answer: the line chart gets a point more, the others are
\* drawn anew, but for the one of the processes, whose forEach throws on an
\* error.
Drawn(r) ==
  LET e == asks[r] IN
  IF e = "use_swap" THEN Append(chart[e], Point(r))
  ELSE IF e = "use_mem_top_procs" /\ answer[r] = Error THEN chart[e]
  ELSE <<Point(r)>>

\* The answer arrives: setData.  Its status is not looked at; an error has no
\* figures.
Deliver(r) ==
  /\ To(r, "answered", "shown")
  /\ chart' = [chart EXCEPT ![asks[r]] = Drawn(r)]
  /\ UNCHANGED <<memVars, table, asks, leg, made, phys, held, answer, api>>

\* A step of the thread that serves r.
Serve(r) ==
  \/ Receive(r) \/ Syscall(r) \/ SecondCall(r) \/ Respond(r)
  \/ CallStep(r) /\ UNCHANGED webVars

-----------------------------------------------------------------------------
Init ==
  /\ MemInit
  /\ table \in Tables
  /\ asks \in Plans
  /\ phase = [r \in Call |-> "idle"]
  /\ leg = [r \in Call |-> 1]
  /\ made = [r \in Call |-> <<>>]
  /\ phys = [r \in Call |-> 0]
  /\ held = [r \in Call |-> {}]
  /\ answer = [r \in Call |-> Error]
  /\ chart = [e \in Endpoint |-> <<>>]
  /\ api = "up"

Next ==
  \/ System /\ UNCHANGED webVars
  \/ Die
  \/ \E r \in Call : Tick(r) \/ Serve(r) \/ Deliver(r) \/ Lose(r)

Spec == Init /\ [][Next]_vars

\* The threads of the API run, and a connection ends with an answer or with an
\* error.  Nothing makes the rest of the system do anything.
FairSpec ==
  /\ Spec
  /\ \A r \in Call : WF_vars(Serve(r)) /\ WF_vars(Deliver(r) \/ Lose(r))

-----------------------------------------------------------------------------
(* Properties *)

\* Every variable has its type.
TypeOK ==
  /\ MemTypeOK
  /\ sys \in [Call -> MemCall \cup OtherCall \cup {"none"}]
  /\ table \in Tables /\ asks \in Plans
  /\ phase \in [Call -> {"idle", "sent", "call", "kernel", "answered", "shown", "lost"}]
  /\ \A r \in Call : leg[r] \in DOMAIN Numbers[asks[r]]
  /\ made \in [Call -> Seq([name : MemCall \cup OtherCall, ret : Int, began : Nat])]
  /\ phys \in [Call -> Nat]
  /\ held \in [Call -> SUBSET {"info", "json", "array"}]
  /\ \A r \in Call : answer[r].status \in {200, 500} /\ answer[r].body \in Seq(Int)
  /\ \A e \in Endpoint : \A k \in DOMAIN chart[e] :
       chart[e][k].of \in Call /\ chart[e][k].figures \in Seq(Int)
  /\ api \in {"up", "overwritten", "down"}

MadeDocumented(r) ==
  [k \in DOMAIN made[r] |-> made[r][k].name] = Documented[asks[r]]

\* Every callback makes the system calls that the manual gives its endpoint,
\* by the numbers that the table of this kernel has (syscall_64.tbl:421-430).
CallsDocumented ==
  \A r \in Call : phase[r] \in {"answered", "shown"} => MadeDocumented(r)

\* A response of status 200 (api.c:29-36 and the other callbacks) has the
\* figures of the documented calls, under whatever numbers the running kernel
\* has them: the calls that the repository's table has at 548-552 give only
\* errors.  All of the calls have succeeded, but for the first of use_swap,
\* whose result is overwritten (api.c:45-48).
AnswersMeasured ==
  \A r \in Call : phase[r] \in {"answered", "shown"} /\ answer[r].status = 200 =>
    /\ MadeDocumented(r)
    /\ \A k \in DOMAIN made[r] :
         made[r][k].ret = 0 \/ (asks[r] = "use_swap" /\ k = 1)

\* Every figure that a chart shows of memory, swap space and pages is off from
\* what it is now by no more than what has changed since the request was
\* served: from the counters to the chart nothing is mixed up, lost in a
\* conversion or taken from another request.  Four things are excepted.  The
\* cached memory may have wrapped when more pages changed hands than are cached
\* (use_mem.c:27).  The used memory on the chart of the swap space is that of
\* the first call, since whose beginning more may have changed; and it may be
\* anything when that call failed: its error is lost (api.c:45-48), and a
\* buffer of zeros is shown as a figure.  Numbers of pages that an int does
\* not hold are wrong (api.c:97); a page that moves while the lists are read
\* may count twice.
ChartsNear ==
  \A e \in Endpoint : \A k \in DOMAIN chart[e] :
    LET p == chart[e][k]
        d == Moves(p.of)
        first == made[p.of][1]
    IN  p.figures # <<>> =>
          /\ e = "use_mem" =>
               /\ Near(p.figures[1], 4 * Reading["freeram"], 4 * d)
               /\ Near(p.figures[2], 4 * UsedRam(Reading), 4 * d)
               /\ Cached(Reading) >= d => Near(p.figures[3], 4 * Cached(Reading), 4 * d)
               /\ p.figures[4] = 4 * TotalRam
          /\ e = "use_swap" =>
               /\ first.ret = 0 =>
                    Near(p.figures[1], 4 * UsedRam(Reading), 4 * (moved - first.began))
               /\ Near(p.figures[2], 4 * (Swap - Reading["freeswap"]), 4 * d)
          /\ e = "use_pages" /\ 2 * (TotalRam + d) < IntWord =>
               /\ Near(p.figures[1], Active(Reading), d)
               /\ Near(p.figures[2], Inactive(Reading), d)

\* The number of faults on the chart goes back (fault_pages.js:36-59) only if
\* the two requests overlapped: if the one that was shown had left the kernel
\* before the other entered it, the new figures are no smaller, as long as
\* they fit an int (api.c:74).
FaultsForward ==
  [][LET old == chart["fault_pages"]
         new == chart'["fault_pages"]
     IN  /\ Len(old) = 1 /\ old[1].of \in base[new[1].of].done
         /\ old[1].figures # <<>> /\ new[1].figures # <<>>
         /\ \A e \in {"PGFAULT", "PGMAJFAULT"} : 2 * SumTo[Cpus][e] < IntWord
         => \A k \in 1 .. 2 : old[1].figures[k] <= new[1].figures[k]]_chart

\* No call writes past the end of what a callback has allocated (api.c:22, 44,
\* 69, 90, 111), also when two calls share the buffer: neither is told its
\* size.  The numbers of the repository break this: lastkernlogs, at 552, has
\* up to 2047 bytes for the 200 of callback_use_mem_top_procs.
BuffersHold ==
  /\ \A r \in Call : held[r] # {} => Len(out[r]) = Allocated[asks[r]]
  /\ api = "up" \/ \E r \in Call : asks[r] = "use_mem_top_procs" /\ sys[r] = "lastkernlogs"

\* A callback that has answered has freed what it allocated, but for the two
\* early returns of callback_use_mem_top_procs (api.c:113-131).
CallbacksFree ==
  \A r \in Call : phase[r] \in {"answered", "shown"} =>
    held[r] = {} \/ (asks[r] = "use_mem_top_procs" /\ answer[r].status = 500)

\* The line chart (use_swap.js:32-52) implements Polling: one point for every
\* answer, in the order in which they arrive, none lost, moved or drawn twice.
Line ==
  INSTANCE Polling WITH
    Request <- Call,
    asked <- {r \in Call : phase[r] # "idle"},
    ended <- {r \in Call : phase[r] = "lost" \/ (phase[r] = "shown" /\ asks[r] # "use_swap")},
    line <- [k \in DOMAIN chart["use_swap"] |-> chart["use_swap"][k].of]

LineIsPolled == Line!PollSpec

\* A request that was sent is answered, with figures or an error, and its
\* answer shown, unless it is lost on the way or the API dies.
RequestsEnd == \A r \in Call : phase[r] = "sent" ~> phase[r] \in {"shown", "lost"}
=============================================================================
