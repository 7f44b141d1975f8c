---------------------------- MODULE MCLastKernLogs ----------------------------
(* Constants of LastKernLogs for TLC. *)
EXTENDS LastKernLogs, SequencesExt

CONSTANTS nl, a, b

CONSTANT MaxLines   \* bound on the lines in the log at the call

MCLine == {<<nl>>, <<a, nl>>, <<b, a, b, nl>>}
MCLogs ==
  {FlattenSeq(ls) : ls \in UNION {[1 .. n -> MCLine] : n \in 0 .. MaxLines}}
=============================================================================
