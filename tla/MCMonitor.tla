------------------------------ MODULE MCMonitor ------------------------------
(* Constants of Monitor for TLC. *)
EXTENDS Monitor, TLC

CONSTANTS r1, r2

Pages(f, k, aa, ai, sc, fa, fi, b) ==
  [free |-> f, kernel |-> k, anon_active |-> aa, anon_inactive |-> ai, swapcache |-> sc,
   file_active |-> fa, file_inactive |-> fi, buffer |-> b]

SomeMemories == {Pages(0, 0, 1, 0, 1, 1, 0, 1)}

\* The zones that the configuration of the build has.
ConfiguredZones == {"DMA", "DMA32", "NORMAL", "MOVABLE", "DEVICE"}

\* One processor has counted more faults than the other.
SomeEvents ==
  {[cpu \in 1 .. Cpus |-> [e \in Event |-> IF e = "PGFAULT" /\ cpu = 1 THEN 3 ELSE 0]]}

\* syscall_64.tbl, and a table for the numbers that api.c uses.
Repository ==
  548 :> "my_encrypt" @@ 549 :> "my_decrypt" @@ 550 :> "currenttimeseg"
    @@ 551 :> "systemuptimeseg" @@ 552 :> "lastkernlogs" @@ 553 :> "use_mem"
    @@ 554 :> "use_swap" @@ 555 :> "fault_pages" @@ 556 :> "use_pages"
    @@ 557 :> "use_mem_top_procs"
ForApi ==
  548 :> "use_mem" @@ 549 :> "use_swap" @@ 550 :> "fault_pages" @@ 551 :> "use_pages"
    @@ 552 :> "use_mem_top_procs" @@ 553 :> "my_encrypt" @@ 554 :> "my_decrypt"
    @@ 555 :> "currenttimeseg" @@ 556 :> "systemuptimeseg" @@ 557 :> "lastkernlogs"

BothTables == {Repository, ForApi}
ItsTable == {Repository}

SomePlans ==
  {r1 :> p[1] @@ r2 :> p[2] :
     p \in {<<"use_swap", "use_swap">>, <<"fault_pages", "fault_pages">>,
           <<"use_mem", "use_mem_top_procs">>, <<"use_pages", "use_mem_top_procs">>}}
=============================================================================
