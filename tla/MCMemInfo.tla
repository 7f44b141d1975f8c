------------------------------ MODULE MCMemInfo ------------------------------
(* Constants of MemInfo for TLC: five pages. *)
EXTENDS MemInfo

Pages(f, k, aa, ai, sc, fa, fi, b) ==
  [free |-> f, kernel |-> k, anon_active |-> aa, anon_inactive |-> ai, swapcache |-> sc,
   file_active |-> fa, file_inactive |-> fi, buffer |-> b]

SomeMemories == {Pages(1, 0, 1, 1, 0, 1, 0, 1), Pages(0, 1, 0, 0, 1, 0, 1, 2)}

\* The zones that the configuration of the build has.
ConfiguredZones == {"DMA", "DMA32", "NORMAL", "MOVABLE", "DEVICE"}

NoEvents == {[cpu \in 1 .. Cpus |-> [e \in Event |-> IF e = "PGFAULT" THEN 1 ELSE 0]]}
=============================================================================
