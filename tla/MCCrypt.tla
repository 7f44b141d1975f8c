------------------------------- MODULE MCCrypt -------------------------------
(* Constants of Crypt for TLC. *)
EXTENDS CryptRefinement, TLC

MCByte == {0, 1}
MCXor(x, y) == (x + y) % 2

CONSTANTS fa, fb, fk   \* the files: the text, its encryption, the key

MCPath == {fa, fb, fk}

CONSTANTS
  Threads,      \* the values of no_threads
  TextLengths,  \* the lengths of the input
  KeyLengths,   \* the lengths of the key
  OldLengths    \* the lengths of what the output file holds before

\* The contents of a file of `len` bytes: one sequence per length, in which
\* no byte has the value of every other one.  XOR treats all bytes alike.
Text(len) == SubSeq(<<0, 1, 1, 0, 1, 0>>, 1, len)
Key(len) == SubSeq(<<0, 1, 1>>, 1, len)
Old(len) == SubSeq(<<1, 1, 1, 1, 1, 1>>, 1, len)

MCDisk ==
  {(fa :> Text(t)) @@ (fb :> Old(o)) @@ (fk :> Key(s)) :
     t \in TextLengths, o \in OldLengths, s \in KeyLengths}

CONSTANTS c1, c2
ASSUME c1 # c2

-----------------------------------------------------------------------------
(* One call, into another file or in place. *)
OneScenario ==
  [Call -> [in : {fa}, out : {fa, fb}, key : {fk}, n : Threads, after : {{}}]]
AnyThreads == -1 .. MaxThreads

(* Two calls of the same program, one after the other or at once: each reads *)
(* fa or fb and writes fa or fb.                                             *)
PairScenario ==
  LET Req(A) == [in : {fa, fb}, out : {fa, fb}, key : {fk}, n : Threads, after : A]
  IN  {s \in [{c1, c2} -> Req({{}, {c1}})] : s[c1].after = {}}
=============================================================================
