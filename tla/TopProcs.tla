------------------------------- MODULE TopProcs -------------------------------
(***************************************************************************)
(* The system call use_mem_top_procs: it walks the list of processes, asks *)
(* each for the size of its resident memory and keeps the largest ones in  *)
(* a table.  Processes start, grow and exit during the walk, which takes   *)
(* no lock: neither rcu_read_lock for the list nor a reference to the      *)
(* memory descriptor of the task it looks at.                              *)
(*                                                                         *)
(* Tasks are numbered in the order in which they are forked, which is that *)
(* of the list; node 0 is init_task, the head of the list.  A slot of the  *)
(* table is the task and its mm_rss; the name and pct_usage follow from    *)
(* them.  Memory comes zeroed, as the build is configured, so a slot that  *)
(* was never filled is task 0.                                             *)
(***************************************************************************)
EXTENDS Integers

CONSTANTS
  NumTasks,   \* bound on the tasks that ever exist
  Top,        \* top_procs
  Pages       \* the sizes of a process's memory, in pages

ASSUME TopAssumption ==
  /\ NumTasks \in Nat
  /\ Top \in Nat \ {0}
  /\ Pages \subseteq Nat

Task == 1 .. NumTasks
Node == 0 .. NumTasks
Slot == 1 .. Top

VARIABLES
  life,    \* of each task: see Life
  rss,     \* get_mm_rss of its memory
  nxt,     \* tasks.next of each node
  pc,      \* where the call is
  cursor,  \* task, the node the walk is at
  table,   \* procs_info
  ret,     \* what the call returns
  seen,    \* history: the size the walk read of each task, 0 before
  steady   \* history: the processes in the list since the call began that
           \* have neither exited nor changed their size

vars == <<life, rss, nxt, pc, cursor, table, ret, seen, steady>>
callVars == <<pc, cursor, table, ret, seen>>

\* A task is in the list with or without memory of its own (kernel threads
\* and exiting processes have none), then taken out of it, then freed.
Life == {"unborn", "user", "nomm", "unlinked", "freed"}
Linked(p) == life[p] \in {"user", "nomm"}

-----------------------------------------------------------------------------
(* The other tasks of the system *)

\* copy_process: list_add_tail_rcu of the next task.  Its size is the one
\* that Init chose for it.
Fork(p, l) ==
  /\ life[p] = "unborn"
  /\ \A q \in 1 .. p - 1 : life[q] # "unborn"
  /\ life' = [life EXCEPT ![p] = l]
  /\ nxt' = [n \in Node |-> IF n = p THEN 0
                            ELSE IF nxt[n] = 0 /\ (n = 0 \/ Linked(n)) THEN p
                            ELSE nxt[n]]
  /\ UNCHANGED <<rss, callVars, steady>>

\* The process maps or releases memory.
Resize(p, r) ==
  /\ life[p] = "user" /\ r # rss[p]
  /\ rss' = [rss EXCEPT ![p] = r]
  /\ steady' = steady \ {p}
  /\ UNCHANGED <<life, nxt, callVars>>

\* exit_mm: task->mm becomes NULL and the memory descriptor is freed.
ExitMm(p) ==
  /\ life[p] = "user"
  /\ life' = [life EXCEPT ![p] = "nomm"]
  /\ steady' = steady \ {p}
  /\ UNCHANGED <<rss, nxt, callVars>>

\* release_task: list_del_rcu, which leaves the task's own next pointer.
Unlink(p) ==
  /\ life[p] = "nomm"
  /\ life' = [life EXCEPT ![p] = "unlinked"]
  /\ nxt' = [n \in Node |-> IF nxt[n] = p /\ (n = 0 \/ Linked(n)) THEN nxt[p]
                            ELSE nxt[n]]
  /\ UNCHANGED <<rss, callVars, steady>>

\* The grace period ends and the task_struct is freed.  The walk is no
\* reader of RCU, so it does not hold the grace period back.
FreeTask(p) ==
  /\ life[p] = "unlinked"
  /\ life' = [life EXCEPT ![p] = "freed"]
  /\ UNCHANGED <<rss, nxt, callVars, steady>>

Others ==
  \E p \in Task :
    \/ \E l \in {"user", "nomm"} : Fork(p, l)
    \/ \E r \in Pages : Resize(p, r)
    \/ ExitMm(p) \/ Unlink(p) \/ FreeTask(p)

-----------------------------------------------------------------------------
(* The system call *)

Empty == [k \in Slot |-> [pid |-> 0, rss |-> 0]]

\* A tie goes before the process found first, and a process without pages
\* goes into a free slot.
InsertTie(t, p, r) ==
  [k \in Slot |->
     IF \E j \in 1 .. k - 1 : r >= t[j].rss THEN t[k - 1]
     ELSE IF r >= t[k].rss THEN [pid |-> p, rss |-> r]
     ELSE t[k]]

\* The entries below the new one are not moved down.
InsertOver(t, p, r) ==
  [k \in Slot |->
     IF r > t[k].rss /\ \A j \in 1 .. k - 1 : r <= t[j].rss
     THEN [pid |-> p, rss |-> r]
     ELSE t[k]]

\* The size in thousandths of the memory ends up in the field of the size.
InsertPermille(t, p, r) ==
  [k \in Slot |->
     IF \E j \in 1 .. k - 1 : r > t[j].rss THEN t[k - 1]
     ELSE IF r > t[k].rss THEN [pid |-> p, rss |-> r * 1000]
     ELSE t[k]]

\* The process goes into the first slot with fewer pages, the ones from
\* there on move down and the last one falls out.
Insert(t, p, r) ==
  [k \in Slot |->
     IF \E j \in 1 .. k - 1 : r > t[j].rss THEN t[k - 1]
     ELSE IF r > t[k].rss THEN [pid |-> p, rss |-> r]
     ELSE t[k]]

\* kmalloc_array, and the loop that empties the table.
AllocTable ==
  /\ pc = "alloc"
  /\ \/ pc' = "next" /\ UNCHANGED ret
     \/ pc' = "returned" /\ ret' = "ENOMEM"
  /\ table' = Empty
  /\ UNCHANGED <<cursor, seen>>

\* The node the walk stands on has been freed, or the memory descriptor it is
\* about to read is gone: the kernel may oops, and nothing more is claimed.
Lose ==
  /\ pc' = "lost"
  /\ UNCHANGED <<cursor, table, ret, seen>>

OnFreed == cursor # 0 /\ life[cursor] = "freed"

\* for_each_process: the next task, up to the head of the list.
NextTask ==
  /\ pc = "next"
  /\ IF OnFreed THEN Lose
     ELSE /\ cursor' = nxt[cursor]
          /\ pc' = IF nxt[cursor] = 0 THEN "copy" ELSE "test"
          /\ UNCHANGED <<table, ret, seen>>

\* A task without memory ends the walk.
TestMmBreaks ==
  /\ pc = "test"
  /\ IF OnFreed THEN Lose
     ELSE /\ pc' = IF life[cursor] = "user" THEN "sample" ELSE "copy"
          /\ UNCHANGED <<cursor, table, ret, seen>>

\* A task without memory is not left behind.
TestMmStays ==
  /\ pc = "test"
  /\ IF OnFreed THEN Lose
     ELSE /\ pc' = IF life[cursor] = "user" THEN "sample" ELSE "test"
          /\ UNCHANGED <<cursor, table, ret, seen>>

\* if (!task->mm) continue.
TestMm ==
  /\ pc = "test"
  /\ IF OnFreed THEN Lose
     ELSE /\ pc' = IF life[cursor] = "user" THEN "sample" ELSE "next"
          /\ UNCHANGED <<cursor, table, ret, seen>>

\* get_mm_rss(task->mm) and the insertion.  When the process has exited since
\* the test, task->mm is read as NULL, or what is left in the freed
\* descriptor is read.
Sample ==
  /\ pc = "sample"
  /\ \/ life[cursor] # "user" /\ Lose
     \/ /\ ~OnFreed
        /\ \E r \in IF life[cursor] = "user" THEN {rss[cursor]} ELSE Pages :
             /\ table' = Insert(table, cursor, r)
             /\ seen' = [seen EXCEPT ![cursor] = r]
        /\ pc' = "next"
        /\ UNCHANGED <<cursor, ret>>

\* copy_to_user, whose result is returned, and kfree.
CopyOut ==
  /\ pc = "copy"
  /\ pc' = "returned"
  /\ ret' \in {"OK", "PARTIAL"}
  /\ UNCHANGED <<cursor, table, seen>>

Call ==
  /\ AllocTable \/ NextTask \/ TestMm \/ Sample \/ CopyOut
  /\ UNCHANGED <<life, rss, nxt, steady>>

-----------------------------------------------------------------------------
\* The call begins with some tasks in the list, one after the other.
Init ==
  /\ \E n \in Node :
       /\ life \in [Task -> Life]
       /\ \A p \in Task :
            life[p] \in IF p <= n THEN {"user", "nomm"} ELSE {"unborn"}
       /\ nxt = [m \in Node |-> IF m < n THEN m + 1 ELSE 0]
  /\ rss \in [Task -> Pages]
  /\ pc = "alloc"
  /\ cursor = 0
  /\ table = Empty
  /\ ret = "OK"
  /\ seen = [p \in Task |-> 0]
  /\ steady = {p \in Task : life[p] = "user"}

Next == Call \/ Others

Spec == Init /\ [][Next]_vars

\* The scheduler runs the calling task; nothing is assumed of the others.
FairSpec == Spec /\ WF_vars(Call)

-----------------------------------------------------------------------------
(* Properties *)

\* Every variable has its type.
TypeOK ==
  /\ life \in [Task -> Life]
  /\ rss \in [Task -> Pages]
  /\ nxt \in [Node -> Node]
  /\ pc \in {"alloc", "next", "test", "sample", "copy", "returned", "lost"}
  /\ cursor \in Node
  /\ table \in [Slot -> [pid : Node, rss : Pages \cup {0}]]
  /\ ret \in {"OK", "ENOMEM", "PARTIAL"}
  /\ seen \in [Task -> Pages \cup {0}]
  /\ steady \subseteq Task

\* With the sizes s process p is ranked before process q: it is larger, or
\* as large and earlier in the list.
Before(s, p, q) == s[p] > s[q] \/ (s[p] = s[q] /\ p < q)

Ranked == {table[k].pid : k \in Slot} \ {0}

\* The table (use_mem_top_procs.c:45-61) is at every moment the ranking of
\* the sizes read so far: its entries are what was read, in order, no process
\* twice, the free slots last; and what is left out is ranked after all of
\* them and finds no free slot.
TableIsTheTop ==
  /\ \A k \in Slot :
       IF table[k].pid = 0 THEN table[k].rss = 0
       ELSE table[k].rss > 0 /\ seen[table[k].pid] = table[k].rss
  /\ \A j, k \in Slot : j < k /\ table[k].pid # 0 =>
       table[j].pid # 0 /\ Before(seen, table[j].pid, table[k].pid)
  /\ \A p \in Task \ Ranked : seen[p] > 0 =>
       \A k \in Slot : table[k].pid # 0 /\ Before(seen, table[k].pid, p)

\* What the call copies out (use_mem_top_procs.c:64) is right about every
\* process that ran and kept its size while the call lasted, whatever the
\* others did: it is in the table with its size, or no entry is smaller.
ResultIsTheTop ==
  pc \in {"copy", "returned"} /\ ret # "ENOMEM" =>
    \A p \in steady :
      IF p \in Ranked THEN seen[p] = rss[p]
      ELSE \A k \in Slot : table[k].rss >= rss[p]

\* The walk ends, although the tasks under it come and go: the pointers that
\* removed tasks keep lead it back to the list (use_mem_top_procs.c:39).
CallEnds == <>(pc \in {"returned", "lost"})

=============================================================================
