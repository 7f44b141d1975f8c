----------------------------- MODULE CryptProofs -----------------------------
(* Theorems about Crypt. *)
EXTENDS Crypt, TLAPS

USE DEF Request

-----------------------------------------------------------------------------
(* The operators *)

\* A fragment has a length: a natural number, whatever the size of the file
\* and the number of threads.
LEMMA FragmentSizeNat ==
  ASSUME NEW len \in Nat, NEW n \in Nat \ {0}, NEW t \in Nat
  PROVE  FragmentSize(len, n, t) \in Nat
<1>1. len \div n \in Nat
  OBVIOUS
<1>2. len % n \in Nat
  OBVIOUS
<1> QED BY <1>1, <1>2 DEF FragmentSize

\* The key is read inside the key.
LEMMA KeyAtByte ==
  ASSUME NEW s \in Seq(Byte), s # <<>>, NEW j \in Nat \ {0}
  PROVE  KeyAt(s, j) \in Byte
<1>1. Len(s) \in Nat \ {0}
  OBVIOUS
<1>2. (j - 1) % Len(s) \in 0 .. Len(s) - 1
  BY <1>1
<1>3. ((j - 1) % Len(s)) + 1 \in 1 .. Len(s)
  BY <1>1, <1>2
<1> QED BY <1>3 DEF KeyAt

\* A function from 1 .. len to bytes is a buffer of len bytes.
LEMMA BufferSeq ==
  ASSUME NEW len \in Nat, NEW f \in [1 .. len -> Byte]
  PROVE  f \in Seq(Byte) /\ Len(f) = len
OBVIOUS

LEMMA ZerosSeq ==
  ASSUME NEW len \in Nat
  PROVE  Zeros(len) \in Seq(Byte) /\ Len(Zeros(len)) = len
<1>1. Zeros(len) \in [1 .. len -> Byte]
  BY XorAssumption DEF Zeros
<1> QED BY <1>1, BufferSeq

\* A short read leaves the rest of the buffer as it was.
LEMMA FilledSeq ==
  ASSUME NEW s \in Seq(Byte), NEW p \in Nat, NEW m \in Nat, NEW len \in Nat,
         p + m <= Len(s)
  PROVE  Filled(s, p, m, len) \in Seq(Byte) /\ Len(Filled(s, p, m, len)) = len
<1>1. ASSUME NEW j \in 1 .. len
      PROVE  (IF j <= m THEN s[p + j] ELSE Zero) \in Byte
  <2>1. CASE j <= m
    <3>1. p + j \in 1 .. Len(s)
      BY <2>1
    <3> QED BY <2>1, <3>1
  <2>2. CASE ~(j <= m)
    BY <2>2, XorAssumption
  <2> QED BY <2>1, <2>2
<1>2. Filled(s, p, m, len) \in [1 .. len -> Byte]
  BY <1>1 DEF Filled
<1> QED BY <1>2, BufferSeq

\* A write gives a file at least as long as it was, and as the write reaches.
LEMMA OverwriteSeq ==
  ASSUME NEW s \in Seq(Byte), NEW p \in Nat, NEW d \in Seq(Byte), p <= Len(s)
  PROVE  /\ Overwrite(s, p, d) \in Seq(Byte)
         /\ Len(Overwrite(s, p, d)) >= Len(s)
         /\ Len(Overwrite(s, p, d)) >= p + Len(d)
<1> DEFINE end == p + Len(d)
           len == IF end > Len(s) THEN end ELSE Len(s)
<1>1. len \in Nat /\ len >= Len(s) /\ len >= end
  OBVIOUS
<1>2. Overwrite(s, p, d) \in [1 .. len -> Byte]
  <2>1. ASSUME NEW k \in 1 .. len
        PROVE  (IF k > p /\ k <= end THEN d[k - p] ELSE s[k]) \in Byte
    <3>1. CASE k > p /\ k <= end
      BY <3>1
    <3>2. CASE ~(k > p /\ k <= end)
      BY <3>2
    <3> QED BY <3>1, <3>2
  <2> QED BY <2>1 DEF Overwrite
<1>3. Overwrite(s, p, d) \in Seq(Byte) /\ Len(Overwrite(s, p, d)) = len
  <2> HIDE DEF len
  <2> QED BY <1>1, <1>2, BufferSeq
<1> QED BY <1>1, <1>3

-----------------------------------------------------------------------------
(* The shape of the state: what holds of a call's numbers and buffers where  *)
(* it is.  TypeOK is not inductive without it: the loops would run outside   *)
(* the arrays, and the reads and writes outside the files.                   *)

\* The labels where no_threads is known to be positive, and those where the
\* fragments exist.
Counted == {"alloc_fragments", "read", "open_key", "read_key", "alloc_threads",
            "spawn", "wait", "open_output", "write", "cleanup"}
Buffered == Counted \ {"alloc_fragments", "cleanup"}

\* The labels before the first kthread_run.
Unstarted == {"paths", "open_input", "split", "alloc_fragments", "read",
              "open_key", "read_key", "alloc_threads"}

CountOK(c) == pc[c] \in Counted => req[c].n > 0

LoopOK(c) ==
  /\ pc[c] = "paths" => i[c] \in 0 .. 2
  /\ pc[c] \in {"read", "spawn", "wait", "write"} => i[c] \in Used(c)

BufferOK(c) ==
  pc[c] \in Buffered => \A t \in Used(c) : Len(text[c][t]) = FragLen(c, t)

\* No thread is started before the loop that starts them, and one that was
\* started has a fragment of the length it was told.
StartedOK(c) ==
  \A t \in Thread : th[c][t] # "none" =>
    /\ pc[c] \notin Unstarted
    /\ req[c].n > 0 /\ t \in Used(c) /\ Len(text[c][t]) = FragLen(c, t)

\* A file is read and written at an offset that is in it or at its end.
PosOK(c) ==
  /\ pc[c] \in {"split", "alloc_fragments", "read"} => pos[c] <= Len(fs[req[c].in])
  /\ pc[c] = "read_key" => pos[c] + Len(key[c]) <= Len(fs[req[c].key])
  /\ pc[c] = "write" => pos[c] <= Len(fs[req[c].out])

Shape ==
  \A c \in Call : CountOK(c) /\ LoopOK(c) /\ BufferOK(c) /\ StartedOK(c) /\ PosOK(c)

LEMMA Arguments ==
  ASSUME TypeOK, NEW c \in Call
  PROVE  /\ req[c].n \in Int /\ req[c].n <= MaxThreads
         /\ req[c].in \in Path /\ req[c].out \in Path /\ req[c].key \in Path
         /\ Used(c) \subseteq Thread
BY CryptAssumption DEF TypeOK, Used, Thread

LEMMA FragLenNat ==
  ASSUME TypeOK, NEW c \in Call, req[c].n > 0, NEW t \in Thread
  PROVE  FragLen(c, t) \in Nat
<1>1. req[c].n \in Nat \ {0} /\ size[c] \in Nat /\ t \in Nat
  BY Arguments DEF TypeOK, Thread
<1> QED BY <1>1, FragmentSizeNat DEF FragLen

LEMMA FileSeq ==
  ASSUME TypeOK, NEW p \in Path
  PROVE  fs[p] \in Seq(Byte) /\ Len(fs[p]) \in Nat
<1>1. fs[p] \in Seq(Byte)
  BY DEF TypeOK
<1> QED BY <1>1

LEMMA BufferType ==
  ASSUME TypeOK, NEW c \in Call
  PROVE  /\ \A t \in Thread : text[c][t] \in Seq(Byte)
         /\ key[c] \in Seq(Byte) /\ Len(key[c]) \in Nat
<1>1. key[c] \in Seq(Byte)
  BY DEF TypeOK
<1> QED BY <1>1 DEF TypeOK

\* A read delivers no more than it was asked for and than the file has.
LEMMA AvailableBound ==
  ASSUME NEW c \in Call, NEW s \in Seq(Byte), NEW len \in Nat,
         pos[c] \in Nat, pos[c] <= Len(s), NEW m \in Available(c, s, len)
  PROVE  m \in Nat /\ m <= len /\ pos[c] + m <= Len(s)
<1> DEFINE rest == Len(s) - pos[c]
           full == IF rest < len THEN rest ELSE len
<1>1. full \in Nat /\ full <= len /\ pos[c] + full <= Len(s)
  <2>1. Len(s) \in Nat
    OBVIOUS
  <2> QED BY <2>1
<1>2. m \in 0 .. full \/ m = full
  BY DEF Available
<1> QED
  <2> HIDE DEF full
  <2> QED BY <1>1, <1>2

LEMMA InitShape == Init => TypeOK /\ Shape
<1> SUFFICES ASSUME Init PROVE TypeOK /\ Shape
  OBVIOUS
<1>1. TypeOK
  BY CryptAssumption DEF Init, TypeOK, Label, Terminal, Status
<1>2. Shape
  BY DEF Init, Shape, CountOK, LoopOK, BufferOK, StartedOK, PosOK, Counted, Buffered, Unstarted
<1> QED BY <1>1, <1>2

LEMMA BlocksInBlock ==
  ASSUME TypeOK, NEW c \in Call
  PROVE  /\ PathBlocks \cup {FragArray, KeyBlock, ThreadArray, ArgArray} \subseteq Block
         /\ \A t \in Thread : {Arg(t), Completion(t), Fragment(t)} \subseteq Block
         /\ \A T \in SUBSET Thread : TextBlocks(c, T) \subseteq Block
         /\ \A s : KeyBlocks(s) \subseteq Block
<1>1. PathBlocks \cup {FragArray, KeyBlock, ThreadArray, ArgArray} \subseteq Block
  BY DEF PathBlocks, FragArray, KeyBlock, ThreadArray, ArgArray, Block
<1>2. \A t \in Thread : {Arg(t), Completion(t), Fragment(t)} \subseteq Block
  BY DEF Arg, Completion, Fragment, Block
<1>3. \A T \in SUBSET Thread : TextBlocks(c, T) \subseteq Block
  BY <1>2 DEF TextBlocks
<1>4. \A s : KeyBlocks(s) \subseteq Block
  BY <1>1 DEF KeyBlocks
<1> QED BY <1>1, <1>2, <1>3, <1>4

-----------------------------------------------------------------------------
(* Types *)

USE DEF bufVars, memVars, thrVars, ctlVars

LEMMA GotoType ==
  ASSUME TypeOK, NEW c \in Call, NEW l \in Label, NEW k \in Nat, Goto(c, l, k)
  PROVE  pc' \in [Call -> Label] /\ i' \in [Call -> Nat]
BY DEF TypeOK, Goto

LEMMA FailType ==
  ASSUME TypeOK, NEW c \in Call, NEW l \in Label, NEW e \in Status, Fail(c, e, l)
  PROVE  pc' \in [Call -> Label] /\ i' \in [Call -> Nat] /\ ret' \in [Call -> Status]
BY GotoType DEF TypeOK, Fail

LEMMA ContinueType ==
  ASSUME TypeOK, NEW c \in Call, NEW l \in Label, Continue(c, l)
  PROVE  pc' \in [Call -> Label] /\ i' \in [Call -> Nat] /\ ret' \in [Call -> Status]
BY GotoType DEF TypeOK, Continue

LEMMA TurnType ==
  ASSUME TypeOK, NEW c \in Call, NEW l \in Label, Turn(c, l)
  PROVE  pc' \in [Call -> Label] /\ i' \in [Call -> Nat] /\ ret' \in [Call -> Status]
<1>1. pc[c] \in Label /\ i[c] + 1 \in Nat
  BY DEF TypeOK
<1> QED BY <1>1, GotoType DEF TypeOK, Turn, NextTurn

LEMMA AllocType ==
  ASSUME TypeOK, NEW c \in Call, NEW B \in SUBSET Block, Alloc(c, B)
  PROVE  /\ live' \in [Call -> SUBSET Block] /\ freed' \in [Call -> SUBSET Block]
         /\ err' \in [Call -> SUBSET Misuse]
BY DEF TypeOK, Alloc

LEMMA TouchType ==
  ASSUME TypeOK, NEW c \in Call, NEW B \in SUBSET Block, Touch(c, B)
  PROVE  /\ live' \in [Call -> SUBSET Block] /\ freed' \in [Call -> SUBSET Block]
         /\ err' \in [Call -> SUBSET Misuse]
<1>1. Stale(c, B) \subseteq Misuse
  BY DEF Stale, Misuse
<1> QED BY <1>1 DEF TypeOK, Touch

LEMMA KfreeType ==
  ASSUME TypeOK, NEW c \in Call, NEW B \in SUBSET Block, NEW more \in SUBSET Misuse,
         Kfree(c, B, more)
  PROVE  /\ live' \in [Call -> SUBSET Block] /\ freed' \in [Call -> SUBSET Block]
         /\ err' \in [Call -> SUBSET Misuse]
<1>1. {"double"} \X (B \cap freed[c]) \subseteq Misuse
  BY DEF Misuse
<1> QED BY <1>1 DEF TypeOK, Kfree

LEMMA CopyPathType ==
  ASSUME TypeOK, Shape, NEW c \in Call, CopyPath(c)
  PROVE  TypeOK'
<1> DEFINE b == {PathBlock[i[c] + 1]}
<1>1. i[c] \in 0 .. 2
  BY DEF CopyPath, Shape, LoopOK
<1>2. b \in SUBSET Block
  BY <1>1 DEF PathBlock, Block, PathBlocks
<1>3. /\ pc' \in [Call -> Label] /\ i' \in [Call -> Nat] /\ ret' \in [Call -> Status]
  <2>1. CASE Continue(c, "open_input")
    BY <2>1, ContinueType DEF Label
  <2>2. CASE Goto(c, "paths", i[c] + 1) /\ UNCHANGED ret
    BY <1>1, <2>2, GotoType DEF Label, TypeOK
  <2>3. CASE \E e \in Status : Fail(c, e, "bailed") \/ Fail(c, e, "oops")
    BY <2>3, FailType DEF Label, Terminal
  <2> QED BY <2>1, <2>2, <2>3 DEF CopyPath, Bail, Oops, Status
<1>4. /\ live' \in [Call -> SUBSET Block] /\ freed' \in [Call -> SUBSET Block]
      /\ err' \in [Call -> SUBSET Misuse]
  <2>1. Alloc(c, b) \/ UNCHANGED memVars
    BY DEF CopyPath
  <2> HIDE DEF b
  <2>2. CASE Alloc(c, b)
    BY <1>2, <2>2, AllocType
  <2>3. CASE UNCHANGED memVars
    BY <2>3 DEF TypeOK
  <2> QED BY <2>1, <2>2, <2>3
<1> QED BY <1>3, <1>4 DEF TypeOK, CopyPath

LEMMA OpenInputType ==
  ASSUME TypeOK, Shape, NEW c \in Call, OpenInput(c)
  PROVE  TypeOK'
<1>1. /\ pc' \in [Call -> Label] /\ i' \in [Call -> Nat] /\ ret' \in [Call -> Status]
  BY ContinueType, FailType DEF OpenInput, Bail, Label, Terminal, Status
<1>2. /\ size' \in [Call -> Nat] /\ pos' \in [Call -> Nat]
      /\ opened' \in [Call -> SUBSET {"input", "key", "output"}]
  <2>1. fs[req[c].in] \in Seq(Byte)
    BY Arguments DEF TypeOK
  <2>2. Len(fs[req[c].in]) \in Nat
    BY <2>1
  <2>3. CASE UNCHANGED <<opened, size, pos>>
    BY <2>3 DEF TypeOK
  <2>4. CASE /\ opened' = [opened EXCEPT ![c] = @ \cup {"input"}]
             /\ size' = [size EXCEPT ![c] = Len(fs[req[c].in])]
             /\ pos' = [pos EXCEPT ![c] = 0]
    BY <2>2, <2>4 DEF TypeOK
  <2> QED BY <2>3, <2>4 DEF OpenInput
<1> QED BY <1>1, <1>2 DEF TypeOK, OpenInput

LEMMA SplitInputType ==
  ASSUME TypeOK, Shape, NEW c \in Call, SplitInput(c)
  PROVE  TypeOK'
<1>1. /\ pc' \in [Call -> Label] /\ i' \in [Call -> Nat] /\ ret' \in [Call -> Status]
  BY ContinueType, FailType DEF SplitInput, Oops, Label, Terminal, Status
<1>2. /\ live' \in [Call -> SUBSET Block] /\ freed' \in [Call -> SUBSET Block]
      /\ err' \in [Call -> SUBSET Misuse]
  BY AllocType, BlocksInBlock DEF SplitInput, TypeOK
<1> QED BY <1>1, <1>2 DEF TypeOK, SplitInput

LEMMA AllocFragmentsType ==
  ASSUME TypeOK, Shape, NEW c \in Call, AllocFragments(c)
  PROVE  TypeOK'
<1>1. /\ pc' \in [Call -> Label] /\ i' \in [Call -> Nat] /\ ret' \in [Call -> Status]
  BY ContinueType, FailType DEF AllocFragments, Label, Status
<1>2. req[c].n > 0 /\ \A t \in Used(c) : t \in Thread /\ 0 .. t - 1 \subseteq Thread
  <2>1. req[c].n > 0
    BY DEF AllocFragments, Shape, CountOK, Counted
  <2>2. ASSUME NEW t \in Used(c)
        PROVE  t \in Thread /\ 0 .. t - 1 \subseteq Thread
    BY Arguments, CryptAssumption DEF Thread, Used
  <2> QED BY <2>1, <2>2
<1>3. /\ live' \in [Call -> SUBSET Block] /\ freed' \in [Call -> SUBSET Block]
      /\ err' \in [Call -> SUBSET Misuse]
  <2>1. \E T \in SUBSET Thread : Alloc(c, TextBlocks(c, T))
    BY <1>2, Arguments DEF AllocFragments
  <2> QED BY <2>1, AllocType, BlocksInBlock
<1>4. text' \in [Call -> [Thread -> Seq(Byte)]]
  <2>1. \A t \in Used(c) : Zeros(FragLen(c, t)) \in Seq(Byte)
    BY <1>2, FragLenNat, ZerosSeq
  <2>2. [t \in Thread |-> IF t \in Used(c) THEN Zeros(FragLen(c, t)) ELSE <<>>]
           \in [Thread -> Seq(Byte)]
    BY <2>1
  <2> QED BY <2>2 DEF AllocFragments, TypeOK
<1> QED BY <1>1, <1>3, <1>4 DEF TypeOK, AllocFragments

LEMMA ReadFragmentType ==
  ASSUME TypeOK, Shape, NEW c \in Call, ReadFragment(c)
  PROVE  TypeOK'
<1> DEFINE s == fs[req[c].in]
           len == FragLen(c, i[c])
<1>1. i[c] \in Thread /\ len \in Nat /\ s \in Seq(Byte) /\ pos[c] \in Nat /\ pos[c] <= Len(s)
  <2>1. req[c].n > 0 /\ i[c] \in Used(c) /\ pos[c] <= Len(s)
    BY DEF ReadFragment, Shape, CountOK, LoopOK, PosOK, Counted
  <2>2. i[c] \in Thread
    BY <2>1, Arguments
  <2> QED BY <2>1, <2>2, Arguments, FileSeq, FragLenNat DEF TypeOK
<1>2. PICK m \in Available(c, s, len) :
         /\ text' = [text EXCEPT ![c][i[c]] = Filled(s, pos[c], m, len)]
         /\ pos' = [pos EXCEPT ![c] = @ + m]
  BY DEF ReadFragment
<1> HIDE DEF s, len
<1>3. m \in Nat /\ pos[c] + m <= Len(s) /\ pos[c] + m \in Nat
  BY <1>1, AvailableBound
<1>4. Filled(s, pos[c], m, len) \in Seq(Byte)
  BY <1>1, <1>3, FilledSeq
<1>5. text' \in [Call -> [Thread -> Seq(Byte)]] /\ pos' \in [Call -> Nat]
  BY <1>1, <1>2, <1>3, <1>4 DEF TypeOK
<1>6. /\ pc' \in [Call -> Label] /\ i' \in [Call -> Nat] /\ ret' \in [Call -> Status]
  BY TurnType DEF ReadFragment, Label
<1>7. /\ opened' \in [Call -> SUBSET {"input", "key", "output"}]
      /\ plain' \in [Call -> [Thread -> Seq(Byte)]]
  <2>1. CASE UNCHANGED <<opened, plain>>
    BY <2>1 DEF TypeOK
  <2>2. CASE /\ opened' = [opened EXCEPT ![c] = @ \ {"input"}]
             /\ plain' = [plain EXCEPT ![c] = text'[c]]
    BY <1>5, <2>2 DEF TypeOK
  <2> QED BY <2>1, <2>2 DEF ReadFragment
<1> QED BY <1>5, <1>6, <1>7 DEF TypeOK, ReadFragment

LEMMA OpenKeyType ==
  ASSUME TypeOK, Shape, NEW c \in Call, OpenKey(c)
  PROVE  TypeOK'
<1> DEFINE buf == Zeros(Len(fs[req[c].key]))
<1>1. buf \in Seq(Byte)
  BY Arguments, FileSeq, ZerosSeq
<1>2. /\ pc' \in [Call -> Label] /\ i' \in [Call -> Nat] /\ ret' \in [Call -> Status]
  BY ContinueType, FailType DEF OpenKey, Bail, Label, Terminal, Status
<1> HIDE DEF buf
<1>3. CASE UNCHANGED <<opened, pos, key, memVars>>
  BY <1>2, <1>3 DEF TypeOK, OpenKey
<1>4. CASE /\ opened' = [opened EXCEPT ![c] = @ \cup {"key"}]
           /\ pos' = [pos EXCEPT ![c] = 0]
           /\ \/ key' = [key EXCEPT ![c] = buf] /\ Alloc(c, KeyBlocks(buf))
              \/ UNCHANGED <<key, memVars>>
  <2>1. opened' \in [Call -> SUBSET {"input", "key", "output"}] /\ pos' \in [Call -> Nat]
    BY <1>4 DEF TypeOK
  <2>2. key' \in [Call -> Seq(Byte)]
    BY <1>1, <1>4 DEF TypeOK
  <2>3. /\ live' \in [Call -> SUBSET Block] /\ freed' \in [Call -> SUBSET Block]
        /\ err' \in [Call -> SUBSET Misuse]
    BY <1>4, AllocType, BlocksInBlock DEF TypeOK
  <2> QED BY <1>2, <2>1, <2>2, <2>3 DEF TypeOK, OpenKey
<1> QED BY <1>3, <1>4 DEF OpenKey, buf

LEMMA ReadKeyType ==
  ASSUME TypeOK, Shape, NEW c \in Call, ReadKey(c)
  PROVE  TypeOK'
<1> DEFINE s == fs[req[c].key]
           len == Len(key[c])
<1>1. len \in Nat /\ s \in Seq(Byte) /\ pos[c] \in Nat /\ pos[c] <= Len(s)
  <2>1. pos[c] + len <= Len(s)
    BY DEF ReadKey, Shape, PosOK
  <2>2. len \in Nat /\ s \in Seq(Byte) /\ Len(s) \in Nat /\ pos[c] \in Nat
    BY Arguments, FileSeq, BufferType DEF TypeOK
  <2> HIDE DEF s, len
  <2> QED BY <2>1, <2>2
<1>2. PICK m \in Available(c, s, len) :
         /\ key' = [key EXCEPT ![c] = Filled(s, pos[c], m, len)]
         /\ pos' = [pos EXCEPT ![c] = @ + m]
  BY DEF ReadKey
<1> HIDE DEF s, len
<1>3. m \in Nat /\ pos[c] + m <= Len(s) /\ pos[c] + m \in Nat
  BY <1>1, AvailableBound
<1>4. Filled(s, pos[c], m, len) \in Seq(Byte)
  BY <1>1, <1>3, FilledSeq
<1>5. key' \in [Call -> Seq(Byte)] /\ pos' \in [Call -> Nat]
  BY <1>2, <1>3, <1>4 DEF TypeOK
<1>6. /\ pc' \in [Call -> Label] /\ i' \in [Call -> Nat] /\ ret' \in [Call -> Status]
  BY ContinueType DEF ReadKey, Label
<1>7. opened' \in [Call -> SUBSET {"input", "key", "output"}]
  BY DEF TypeOK, ReadKey
<1> QED BY <1>5, <1>6, <1>7 DEF TypeOK, ReadKey

LEMMA AllocThreadsType ==
  ASSUME TypeOK, Shape, NEW c \in Call, AllocThreads(c)
  PROVE  TypeOK'
<1>1. /\ pc' \in [Call -> Label] /\ i' \in [Call -> Nat] /\ ret' \in [Call -> Status]
  BY ContinueType, FailType DEF AllocThreads, Bail, Label, Terminal, Status
<1>2. /\ live' \in [Call -> SUBSET Block] /\ freed' \in [Call -> SUBSET Block]
      /\ err' \in [Call -> SUBSET Misuse]
  <2>1. CASE Alloc(c, {ThreadArray, ArgArray})
    BY <2>1, AllocType, BlocksInBlock
  <2>2. CASE UNCHANGED memVars
    BY <2>2 DEF TypeOK
  <2>3. CASE freed' = [freed EXCEPT ![c] = @ \cup {ThreadArray}] /\ UNCHANGED <<live, err>>
    BY <2>3, BlocksInBlock DEF TypeOK
  <2> QED BY <2>1, <2>2, <2>3 DEF AllocThreads
<1> QED BY <1>1, <1>2 DEF TypeOK, AllocThreads

LEMMA SpawnThreadType ==
  ASSUME TypeOK, Shape, NEW c \in Call, SpawnThread(c)
  PROVE  TypeOK'
<1>1. /\ pc' \in [Call -> Label] /\ i' \in [Call -> Nat] /\ ret' \in [Call -> Status]
  BY TurnType, FailType DEF SpawnThread, Label, Status
<1>2. i[c] \in Thread
  BY Arguments DEF SpawnThread, Shape, LoopOK
<1>3. /\ live' \in [Call -> SUBSET Block] /\ freed' \in [Call -> SUBSET Block]
      /\ err' \in [Call -> SUBSET Misuse]
  <2>1. CASE Alloc(c, {Arg(i[c]), Completion(i[c])})
    BY <1>2, <2>1, AllocType, BlocksInBlock
  <2>2. CASE UNCHANGED memVars
    BY <2>2 DEF TypeOK
  <2>3. CASE freed' = [freed EXCEPT ![c] = @ \cup {Arg(i[c])}] /\ UNCHANGED <<live, err>>
    BY <1>2, <2>3, BlocksInBlock DEF TypeOK
  <2> QED BY <2>1, <2>2, <2>3 DEF SpawnThread
<1>4. th' \in [Call -> [Thread -> {"none", "run", "done", "oops", "lost"}]]
  <2>1. CASE th' = [th EXCEPT ![c][i[c]] = "run"]
    BY <1>2, <2>1 DEF TypeOK
  <2>2. CASE UNCHANGED th
    BY <2>2 DEF TypeOK
  <2> QED BY <2>1, <2>2 DEF SpawnThread
<1> QED BY <1>1, <1>3, <1>4 DEF TypeOK, SpawnThread

LEMMA WaitThreadType ==
  ASSUME TypeOK, Shape, NEW c \in Call, WaitThread(c)
  PROVE  TypeOK'
<1>1. /\ pc' \in [Call -> Label] /\ i' \in [Call -> Nat] /\ ret' \in [Call -> Status]
  BY TurnType DEF WaitThread, Label
<1>2. i[c] \in Thread
  BY Arguments DEF WaitThread, Shape, LoopOK
<1>3. /\ live' \in [Call -> SUBSET Block] /\ freed' \in [Call -> SUBSET Block]
      /\ err' \in [Call -> SUBSET Misuse]
  BY <1>2, TouchType, BlocksInBlock DEF WaitThread
<1> QED BY <1>1, <1>3 DEF TypeOK, WaitThread

LEMMA OpenOutputType ==
  ASSUME TypeOK, Shape, NEW c \in Call, OpenOutput(c)
  PROVE  TypeOK'
<1>1. /\ pc' \in [Call -> Label] /\ i' \in [Call -> Nat] /\ ret' \in [Call -> Status]
  BY ContinueType, FailType DEF OpenOutput, Bail, Label, Terminal, Status
<1>2. opened' \in [Call -> SUBSET {"input", "key", "output"}] /\ pos' \in [Call -> Nat]
  <2>1. CASE UNCHANGED <<opened, pos>>
    BY <2>1 DEF TypeOK
  <2>2. CASE /\ opened' = [opened EXCEPT ![c] = @ \cup {"output"}]
             /\ pos' = [pos EXCEPT ![c] = 0]
    BY <2>2 DEF TypeOK
  <2> QED BY <2>1, <2>2 DEF OpenOutput
<1> QED BY <1>1, <1>2 DEF TypeOK, OpenOutput

\* What a write does to the file and to the offset in it.
LEMMA WriteBound ==
  ASSUME TypeOK, Shape, NEW c \in Call, WriteFragment(c)
  PROVE  \E d \in Seq(Byte) :
           /\ pos[c] <= Len(fs[req[c].out])
           /\ fs' = [fs EXCEPT ![req[c].out] = Overwrite(@, pos[c], d)]
           /\ pos' = [pos EXCEPT ![c] = @ + Len(d)]
<1> DEFINE frag == text[c][i[c]]
<1>1. PICK m \in 0 .. FragLen(c, i[c]) :
        /\ fs' = [fs EXCEPT ![req[c].out] = Overwrite(@, pos[c], SubSeq(frag, 1, m))]
        /\ pos' = [pos EXCEPT ![c] = @ + m]
  <2>1. FragLen(c, i[c]) \in 0 .. FragLen(c, i[c])
    <3>1. req[c].n > 0 /\ i[c] \in Thread
      BY Arguments DEF WriteFragment, Shape, LoopOK, CountOK, Counted
    <3> QED BY <3>1, FragLenNat
  <2> QED BY <2>1 DEF WriteFragment
<1>2. frag \in Seq(Byte) /\ Len(frag) = FragLen(c, i[c]) /\ pos[c] <= Len(fs[req[c].out])
  <2>1. i[c] \in Used(c) /\ pos[c] <= Len(fs[req[c].out])
    BY DEF WriteFragment, Shape, LoopOK, PosOK
  <2>2. Len(frag) = FragLen(c, i[c])
    BY <2>1 DEF WriteFragment, Shape, BufferOK, Buffered, Counted
  <2> QED BY <2>1, <2>2, Arguments, BufferType
<1> HIDE DEF frag
<1>3. SubSeq(frag, 1, m) \in Seq(Byte) /\ Len(SubSeq(frag, 1, m)) = m
  BY <1>2
<1> QED BY <1>1, <1>2, <1>3

LEMMA WriteFragmentType ==
  ASSUME TypeOK, Shape, NEW c \in Call, WriteFragment(c)
  PROVE  TypeOK'
<1>1. /\ pc' \in [Call -> Label] /\ i' \in [Call -> Nat] /\ ret' \in [Call -> Status]
  BY TurnType DEF WriteFragment, Label
<1>2. fs' \in [Path -> Seq(Byte)] /\ pos' \in [Call -> Nat]
  <2>1. PICK d \in Seq(Byte) :
           /\ pos[c] <= Len(fs[req[c].out])
           /\ fs' = [fs EXCEPT ![req[c].out] = Overwrite(@, pos[c], d)]
           /\ pos' = [pos EXCEPT ![c] = @ + Len(d)]
    BY WriteBound
  <2>2. Overwrite(fs[req[c].out], pos[c], d) \in Seq(Byte)
    BY <2>1, Arguments, FileSeq, OverwriteSeq DEF TypeOK
  <2>3. fs' \in [Path -> Seq(Byte)]
    BY <2>1, <2>2 DEF TypeOK
  <2>4. Len(d) \in Nat
    OBVIOUS
  <2>5. pos' \in [Call -> Nat]
    BY <2>1, <2>4 DEF TypeOK
  <2> QED BY <2>3, <2>5
<1>3. opened' \in [Call -> SUBSET {"input", "key", "output"}]
  <2>1. CASE opened' = [opened EXCEPT ![c] = @ \ {"output"}]
    BY <2>1 DEF TypeOK
  <2>2. CASE opened' = [opened EXCEPT ![c] = @]
    BY <2>2 DEF TypeOK
  <2> QED BY <2>1, <2>2 DEF WriteFragment
<1>4. /\ live' \in [Call -> SUBSET Block] /\ freed' \in [Call -> SUBSET Block]
      /\ err' \in [Call -> SUBSET Misuse]
  <2>1. i[c] \in Thread
    BY Arguments DEF WriteFragment, Shape, LoopOK
  <2>2. {Arg(i[c])} \cup TextBlocks(c, {i[c]}) \in SUBSET Block
    BY <2>1, BlocksInBlock
  <2>3. Touch(c, {Arg(i[c])} \cup TextBlocks(c, {i[c]}))
    BY DEF WriteFragment
  <2> QED BY <2>2, <2>3, TouchType
<1> QED BY <1>1, <1>2, <1>3, <1>4 DEF TypeOK, WriteFragment

LEMMA CleanupType ==
  ASSUME TypeOK, Shape, NEW c \in Call, Cleanup(c)
  PROVE  TypeOK'
<1>1. /\ pc' \in [Call -> Label] /\ i' \in [Call -> Nat] /\ ret' \in [Call -> Status]
  BY ContinueType DEF Cleanup, Label
<1>2. /\ live' \in [Call -> SUBSET Block] /\ freed' \in [Call -> SUBSET Block]
      /\ err' \in [Call -> SUBSET Misuse]
  <2> DEFINE set == {t \in Used(c) : Arg(t) \in live[c] \cup freed[c]}
             ok == {t \in set : Arg(t) \in live[c]}
             blocks == {Arg(t) : t \in set} \cup {Completion(t) : t \in ok}
                         \cup TextBlocks(c, ok) \cup {ThreadArray, ArgArray}
             stale == Stale(c, {Arg(t) : t \in set})
  <2>1. set \subseteq Thread /\ ok \subseteq Thread
    BY Arguments
  <2>2. Kfree(c, blocks, stale)
    BY DEF Cleanup
  <2> HIDE DEF set, ok
  <2>3. {Arg(t) : t \in set} \subseteq Block /\ {Completion(t) : t \in ok} \subseteq Block
    BY <2>1, BlocksInBlock
  <2>4. blocks \in SUBSET Block
    BY <2>1, <2>3, BlocksInBlock
  <2>5. stale \in SUBSET Misuse
    BY <2>3 DEF Stale, Misuse
  <2> HIDE DEF blocks, stale
  <2> QED BY <2>2, <2>4, <2>5, KfreeType
<1> QED BY <1>1, <1>2 DEF TypeOK, Cleanup

LEMMA FinalType ==
  ASSUME TypeOK, Shape, NEW c \in Call, Final(c)
  PROVE  TypeOK'
<1>1. /\ pc' \in [Call -> Label] /\ i' \in [Call -> Nat] /\ ret' \in [Call -> Status]
  BY ContinueType DEF Final, Label, Terminal
<1>2. /\ live' \in [Call -> SUBSET Block] /\ freed' \in [Call -> SUBSET Block]
      /\ err' \in [Call -> SUBSET Misuse]
  <2> DEFINE had == live[c] \cup freed[c]
             blocks == PathBlocks \cup ((TextBlocks(c, Used(c)) \cup {FragArray}) \cap had)
                         \cup (KeyBlocks(key[c]) \cap live[c])
  <2>1. PICK more \in {{}, {<<"wild", KeyBlock>>}} : Kfree(c, blocks, more)
    BY DEF Final
  <2>2. blocks \in SUBSET Block
    BY Arguments, BlocksInBlock
  <2>3. more \in SUBSET Misuse
    BY BlocksInBlock DEF Misuse
  <2> HIDE DEF blocks
  <2> QED BY <2>1, <2>2, <2>3, KfreeType
<1> QED BY <1>1, <1>2 DEF TypeOK, Final

LEMMA MainStepType ==
  ASSUME TypeOK, Shape, NEW c \in Call, MainStep(c)
  PROVE  TypeOK'
BY CopyPathType, OpenInputType, SplitInputType, AllocFragmentsType, ReadFragmentType,
   OpenKeyType, ReadKeyType, AllocThreadsType, SpawnThreadType, WaitThreadType,
   OpenOutputType, WriteFragmentType, CleanupType, FinalType DEF MainStep

LEMMA XorByteType ==
  ASSUME TypeOK, Shape, NEW c \in Call, NEW t \in Thread, XorByte(c, t)
  PROVE  /\ TypeOK'
         /\ Len(text'[c][t]) = Len(text[c][t])
<1> DEFINE j == idx[c][t] + 1
           frag == text[c][t]
<1>1. j \in Nat \ {0} /\ j <= Len(frag) /\ frag \in Seq(Byte)
  <2>1. j \in Nat \ {0} /\ frag \in Seq(Byte)
    BY BufferType DEF TypeOK
  <2>2. Len(frag) = FragLen(c, t)
    BY DEF XorByte, Shape, StartedOK
  <2> QED BY <2>1, <2>2 DEF XorByte
<1> HIDE DEF j
<1>2. CASE key[c] = <<>>
  <2>1. th' = [th EXCEPT ![c][t] = "oops"] /\ UNCHANGED <<idx, text>>
    BY <1>2 DEF XorByte
  <2>2. th' \in [Call -> [Thread -> {"none", "run", "done", "oops", "lost"}]]
    BY <2>1 DEF TypeOK
  <2> QED BY <2>1, <2>2 DEF TypeOK, XorByte
<1>3. CASE key[c] # <<>>
  <2> DEFINE new == [frag EXCEPT ![j] = Xor(@, KeyAt(key[c], j))]
  <2>1. KeyAt(key[c], j) \in Byte
    BY <1>1, <1>3, BufferType, KeyAtByte
  <2>2. frag[j] \in Byte
    BY <1>1
  <2>3. Xor(frag[j], KeyAt(key[c], j)) \in Byte
    BY <2>1, <2>2, XorAssumption
  <2>4. new \in Seq(Byte) /\ Len(new) = Len(frag)
    <3> HIDE DEF frag
    <3> QED BY <1>1, <2>3
  <2>5. text' = [text EXCEPT ![c][t] = new] /\ idx' = [idx EXCEPT ![c][t] = j] /\ UNCHANGED th
    BY <1>3 DEF XorByte, j
  <2> HIDE DEF new
  <2>6. text' \in [Call -> [Thread -> Seq(Byte)]] /\ text'[c][t] = new
    BY <2>4, <2>5 DEF TypeOK
  <2>7. idx' \in [Call -> [Thread -> Nat]]
    BY <1>1, <2>5 DEF TypeOK
  <2> QED BY <2>4, <2>5, <2>6, <2>7 DEF TypeOK, XorByte
<1> QED BY <1>2, <1>3

LEMMA ThreadStepType ==
  ASSUME TypeOK, Shape, NEW c \in Call, NEW t \in Thread, ThreadStep(c, t)
  PROVE  TypeOK'
<1>1. CASE XorByte(c, t)
  BY <1>1, XorByteType
<1>2. CASE Complete(c, t)
  <2>1. th' \in [Call -> [Thread -> {"none", "run", "done", "oops", "lost"}]]
    BY <1>2 DEF TypeOK, Complete
  <2> QED BY <1>2, <2>1 DEF TypeOK, Complete
<1>3. CASE UseFreed(c, t)
  <2>1. th' \in [Call -> [Thread -> {"none", "run", "done", "oops", "lost"}]]
    BY <1>3 DEF TypeOK, UseFreed
  <2>2. InUse(c, t) \in SUBSET Block
    BY BlocksInBlock DEF InUse
  <2>3. /\ live' \in [Call -> SUBSET Block] /\ freed' \in [Call -> SUBSET Block]
        /\ err' \in [Call -> SUBSET Misuse]
    BY <1>3, <2>2, TouchType DEF UseFreed
  <2> QED BY <1>3, <2>1, <2>3 DEF TypeOK, UseFreed
<1> QED BY <1>1, <1>2, <1>3 DEF ThreadStep

-----------------------------------------------------------------------------
(* Shape is kept. *)

ShapeAt(c) == CountOK(c) /\ LoopOK(c) /\ BufferOK(c) /\ StartedOK(c) /\ PosOK(c)

LEMMA GotoEffect ==
  ASSUME TypeOK, NEW c \in Call, NEW l, NEW k, Goto(c, l, k)
  PROVE  /\ pc'[c] = l /\ i'[c] = k
         /\ \A d \in Call \ {c} : pc'[d] = pc[d] /\ i'[d] = i[d]
BY DEF TypeOK, Goto

\* The loop goes to its next turn, or leaves after the last thread.
LEMMA TurnEffect ==
  ASSUME TypeOK, NEW c \in Call, NEW l, Turn(c, l), i[c] \in Used(c)
  PROVE  /\ \/ pc'[c] = l /\ i'[c] = 0 /\ i[c] = req[c].n - 1
            \/ pc'[c] = pc[c] /\ i'[c] = i[c] + 1 /\ i[c] + 1 \in Used(c)
         /\ \A d \in Call \ {c} : pc'[d] = pc[d] /\ i'[d] = i[d]
<1>1. req[c].n \in Int
  BY Arguments
<1>2. CASE i[c] = req[c].n - 1
  BY <1>2, GotoEffect DEF Turn, NextTurn
<1>3. CASE i[c] # req[c].n - 1
  <2>1. i[c] + 1 \in Used(c)
    BY <1>1, <1>3 DEF Used
  <2> QED BY <1>3, <2>1, GotoEffect DEF Turn, NextTurn
<1> QED BY <1>2, <1>3

\* A step of one call leaves the others where they are.
LEMMA OthersUnchanged ==
  ASSUME TypeOK, Shape, NEW c \in Call, NEW d \in Call \ {c},
         MainStep(c) \/ \E t \in Thread : ThreadStep(c, t)
  PROVE  /\ UNCHANGED req
         /\ pc'[d] = pc[d] /\ i'[d] = i[d] /\ size'[d] = size[d] /\ pos'[d] = pos[d]
         /\ text'[d] = text[d] /\ key'[d] = key[d] /\ th'[d] = th[d]
<1> USE DEF TypeOK
<1>1. CASE CopyPath(c) \/ SplitInput(c)
  BY <1>1 DEF CopyPath, SplitInput, Bail, Oops, Fail, Continue, Goto
<1>2. CASE OpenInput(c) \/ OpenOutput(c)
  BY <1>2 DEF OpenInput, OpenOutput, Bail, Fail, Continue, Goto
<1>3. CASE AllocFragments(c)
  BY <1>3 DEF AllocFragments, Fail, Continue, Goto
<1>4. CASE ReadFragment(c)
  BY <1>4 DEF ReadFragment, Turn, NextTurn, Goto
<1>5. CASE OpenKey(c)
  BY <1>5 DEF OpenKey, Bail, Fail, Continue, Goto
<1>6. CASE ReadKey(c)
  BY <1>6 DEF ReadKey, Continue, Goto
<1>7. CASE AllocThreads(c)
  BY <1>7 DEF AllocThreads, Bail, Fail, Continue, Goto
<1>8. CASE SpawnThread(c)
  BY <1>8 DEF SpawnThread, Fail, Turn, NextTurn, Goto
<1>9. CASE WaitThread(c)
  BY <1>9 DEF WaitThread, Turn, NextTurn, Goto
<1>10. CASE WriteFragment(c)
  BY <1>10 DEF WriteFragment, Turn, NextTurn, Goto
<1>11. CASE Cleanup(c) \/ Final(c)
  BY <1>11 DEF Cleanup, Final, Continue, Goto
<1>12. ASSUME NEW t \in Thread, XorByte(c, t) PROVE text'[d] = text[d] /\ th'[d] = th[d]
  BY <1>12 DEF XorByte
<1>13. ASSUME NEW t \in Thread, ThreadStep(c, t)
       PROVE  /\ UNCHANGED <<req, pc, i, size, pos, key>>
              /\ text'[d] = text[d] /\ th'[d] = th[d]
  BY <1>12, <1>13 DEF ThreadStep, XorByte, Complete, UseFreed
<1> QED
  BY <1>1, <1>2, <1>3, <1>4, <1>5, <1>6, <1>7, <1>8, <1>9, <1>10, <1>11, <1>13
  DEF MainStep

\* No step makes a file shorter: the output is never truncated.
LEMMA FilesGrow ==
  ASSUME TypeOK, Shape, NEW c \in Call, NEW p \in Path,
         MainStep(c) \/ \E t \in Thread : ThreadStep(c, t)
  PROVE  Len(fs[p]) \in Nat /\ Len(fs'[p]) \in Nat /\ Len(fs'[p]) >= Len(fs[p])
<1>1. Len(fs[p]) \in Nat
  BY FileSeq
<1>2. CASE WriteFragment(c)
  <2>1. PICK d \in Seq(Byte) :
           /\ pos[c] <= Len(fs[req[c].out])
           /\ fs' = [fs EXCEPT ![req[c].out] = Overwrite(@, pos[c], d)]
    BY <1>2, WriteBound
  <2> DEFINE new == Overwrite(fs[req[c].out], pos[c], d)
  <2>2. new \in Seq(Byte) /\ Len(new) >= Len(fs[req[c].out])
    BY <2>1, Arguments, FileSeq, OverwriteSeq DEF TypeOK
  <2>3. fs'[p] = IF p = req[c].out THEN new ELSE fs[p]
    BY <2>1 DEF TypeOK
  <2> HIDE DEF new
  <2> QED BY <1>1, <2>2, <2>3
<1>3. CASE ~WriteFragment(c)
  <2>1. UNCHANGED fs
    BY <1>3 DEF MainStep, ThreadStep, CopyPath, OpenInput, SplitInput, AllocFragments,
       ReadFragment, OpenKey, ReadKey, AllocThreads, SpawnThread, WaitThread,
       OpenOutput, Cleanup, Final, XorByte, Complete, UseFreed
  <2> QED BY <1>1, <2>1
<1> QED BY <1>2, <1>3

LEMMA OthersShape ==
  ASSUME TypeOK, Shape, NEW c \in Call, NEW d \in Call \ {c},
         MainStep(c) \/ \E t \in Thread : ThreadStep(c, t)
  PROVE  ShapeAt(d)'
<1>1. /\ UNCHANGED req
      /\ pc'[d] = pc[d] /\ i'[d] = i[d] /\ size'[d] = size[d] /\ pos'[d] = pos[d]
      /\ text'[d] = text[d] /\ key'[d] = key[d] /\ th'[d] = th[d]
  BY OthersUnchanged
<1>2. ShapeAt(d)
  BY DEF Shape, ShapeAt
<1>3. (CountOK(d) /\ LoopOK(d) /\ BufferOK(d) /\ StartedOK(d))'
  BY <1>1, <1>2 DEF ShapeAt, CountOK, LoopOK, BufferOK, StartedOK, Used, FragLen
<1>4. PosOK(d)'
  <2>1. \A p \in Path : /\ Len(fs[p]) \in Nat /\ Len(fs'[p]) \in Nat
                        /\ Len(fs'[p]) >= Len(fs[p])
    BY FilesGrow
  <2>2. pos[d] \in Nat /\ Len(key[d]) \in Nat
    BY BufferType DEF TypeOK
  <2>3. req[d].in \in Path /\ req[d].out \in Path /\ req[d].key \in Path
    BY Arguments
  <2>4. \A p \in Path : \A x \in Nat : x <= Len(fs[p]) => x <= Len(fs'[p])
    BY <2>1
  <2>5. PosOK(d)
    BY <1>2 DEF ShapeAt
  <2>6. pos[d] + Len(key[d]) \in Nat
    BY <2>2
  <2>7. pc'[d] \in {"split", "alloc_fragments", "read"} => pos'[d] <= Len(fs'[req'[d].in])
    BY <1>1, <2>2, <2>3, <2>4, <2>5 DEF PosOK
  <2>8. pc'[d] = "read_key" => pos'[d] + Len(key'[d]) <= Len(fs'[req'[d].key])
    BY <1>1, <2>3, <2>4, <2>5, <2>6 DEF PosOK
  <2>9. pc'[d] = "write" => pos'[d] <= Len(fs'[req'[d].out])
    BY <1>1, <2>2, <2>3, <2>4, <2>5 DEF PosOK
  <2> QED BY <2>7, <2>8, <2>9 DEF PosOK
<1> QED BY <1>3, <1>4 DEF ShapeAt

LEMMA OwnShapeStart ==
  ASSUME TypeOK, Shape, NEW c \in Call,
         CopyPath(c) \/ OpenInput(c) \/ SplitInput(c)
  PROVE  ShapeAt(c)'
<1> USE DEF ShapeAt, CountOK, LoopOK, BufferOK, StartedOK, PosOK, Counted, Buffered, Unstarted
<1>0. ShapeAt(c) /\ UNCHANGED <<req, text, th, key>>
  BY DEF Shape, CopyPath, OpenInput, SplitInput
<1>1. CASE CopyPath(c)
  <2>1. \/ pc'[c] \in {"open_input", "bailed", "oops"}
        \/ pc'[c] = "paths" /\ i'[c] = i[c] + 1 /\ i[c] # 2
    BY <1>1, GotoEffect DEF CopyPath, Continue, Bail, Oops, Fail
  <2>2. pc[c] = "paths"
    BY <1>1 DEF CopyPath
  <2> QED BY <1>0, <2>1, <2>2
<1>2. CASE OpenInput(c)
  <2>1. CASE pc'[c] = "split" /\ pos'[c] = 0 /\ UNCHANGED fs
    <3>1. Len(fs[req[c].in]) \in Nat
      BY Arguments, FileSeq
    <3>2. pc[c] = "open_input"
      BY <1>2 DEF OpenInput
    <3> QED BY <1>0, <2>1, <3>1, <3>2
  <2>2. CASE pc'[c] = "bailed"
    <3>1. pc[c] = "open_input"
      BY <1>2 DEF OpenInput
    <3> QED BY <1>0, <2>2, <3>1
  <2>3. (pc'[c] = "split" /\ pos'[c] = 0) \/ pc'[c] = "bailed"
    BY <1>2, GotoEffect DEF OpenInput, Continue, Bail, Fail, TypeOK
  <2> QED BY <1>2, <2>1, <2>2, <2>3 DEF OpenInput
<1>3. CASE SplitInput(c)
  <2>1. \/ pc'[c] \in {"oops", "final"}
        \/ pc'[c] = "alloc_fragments" /\ req[c].n > 0
    BY <1>3, GotoEffect DEF SplitInput, Continue, Oops, Fail
  <2>2. pc[c] = "split" /\ UNCHANGED <<fs, pos>>
    BY <1>3 DEF SplitInput
  <2> QED BY <1>0, <2>1, <2>2
<1> QED BY <1>1, <1>2, <1>3

LEMMA OwnShapeAlloc ==
  ASSUME TypeOK, Shape, NEW c \in Call, AllocFragments(c)
  PROVE  ShapeAt(c)'
<1> USE DEF ShapeAt, CountOK, LoopOK, BufferOK, StartedOK, PosOK, Counted, Buffered, Unstarted
<1>0. ShapeAt(c) /\ UNCHANGED <<req, th, key, size, pos, fs>> /\ pc[c] = "alloc_fragments"
  BY DEF Shape, AllocFragments
<1>1. CASE pc'[c] = "final"
  BY <1>0, <1>1
<1>2. CASE /\ pc'[c] = "read" /\ i'[c] = 0
           /\ text' = [text EXCEPT ![c] =
                         [t \in Thread |-> IF t \in Used(c)
                                           THEN Zeros(FragLen(c, t)) ELSE <<>>]]
  <2>1. req[c].n > 0 /\ req[c].n \in Int /\ Used(c) \subseteq Thread
    BY <1>0, Arguments
  <2>2. ASSUME NEW t \in Used(c)
        PROVE  Len(text'[c][t]) = FragLen(c, t)
    <3>1. text'[c][t] = Zeros(FragLen(c, t))
      BY <1>2, <2>1 DEF TypeOK
    <3>2. FragLen(c, t) \in Nat
      BY <2>1, FragLenNat
    <3> QED BY <3>1, <3>2, ZerosSeq
  <2>3. i'[c] \in Used(c)
    BY <1>2, <2>1 DEF Used
  <2>4. \A t \in Thread : th'[c][t] = "none"
    BY <1>0
  <2>5. UNCHANGED <<Used(c)>> /\ \A t \in Used(c) : FragLen(c, t)' = FragLen(c, t)
    BY <1>0 DEF Used, FragLen
  <2> QED BY <1>0, <1>2, <2>1, <2>2, <2>3, <2>4, <2>5
<1>3. pc'[c] = "final" \/ (pc'[c] = "read" /\ i'[c] = 0)
  BY GotoEffect DEF AllocFragments, Continue, Fail
<1> QED
  <2>1. AllocFragments(c) /\ pc'[c] # "final" =>
          text' = [text EXCEPT ![c] =
                     [t \in Thread |-> IF t \in Used(c)
                                       THEN Zeros(FragLen(c, t)) ELSE <<>>]]
    BY GotoEffect DEF AllocFragments, Fail
  <2> QED BY <1>1, <1>2, <1>3, <2>1

LEMMA OwnShapeRead ==
  ASSUME TypeOK, Shape, NEW c \in Call, ReadFragment(c)
  PROVE  ShapeAt(c)'
<1> USE DEF ShapeAt, CountOK, LoopOK, BufferOK, StartedOK, PosOK, Counted, Buffered, Unstarted
<1> DEFINE s == fs[req[c].in]
           len == FragLen(c, i[c])
<1>0. ShapeAt(c) /\ UNCHANGED <<req, th, key, size, fs>> /\ pc[c] = "read"
  BY DEF Shape, ReadFragment
<1>1. /\ req[c].n > 0 /\ i[c] \in Used(c) /\ i[c] \in Thread /\ len \in Nat
      /\ s \in Seq(Byte) /\ pos[c] \in Nat /\ pos[c] <= Len(s)
  <2>1. req[c].n > 0 /\ i[c] \in Used(c) /\ pos[c] <= Len(s)
    BY <1>0
  <2>2. i[c] \in Thread
    BY <2>1, Arguments
  <2> QED BY <2>1, <2>2, Arguments, FileSeq, FragLenNat DEF TypeOK
<1>2. PICK m \in Available(c, s, len) :
         /\ text' = [text EXCEPT ![c][i[c]] = Filled(s, pos[c], m, len)]
         /\ pos' = [pos EXCEPT ![c] = @ + m]
  BY DEF ReadFragment
<1>3. /\ \/ pc'[c] = "open_key"
         \/ pc'[c] = "read" /\ i'[c] \in Used(c)
  BY <1>0, <1>1, TurnEffect DEF ReadFragment
<1> HIDE DEF s, len
<1>4. m \in Nat /\ pos[c] + m <= Len(s)
  BY <1>1, AvailableBound
<1>5. Len(Filled(s, pos[c], m, len)) = len
  BY <1>1, <1>4, FilledSeq
<1>6. pos'[c] <= Len(s)
  BY <1>2, <1>4 DEF TypeOK
<1>7. \A t \in Used(c) : Len(text'[c][t]) = FragLen(c, t)
  <2>1. ASSUME NEW t \in Used(c) PROVE Len(text'[c][t]) = FragLen(c, t)
    <3>1. CASE t = i[c]
      BY <1>1, <1>2, <1>5, <3>1 DEF TypeOK, len
    <3>2. CASE t # i[c]
      <4>1. t \in Thread
        BY Arguments
      <4>2. text'[c][t] = text[c][t]
        BY <1>2, <3>2, <4>1 DEF TypeOK
      <4> QED BY <1>0, <4>2
    <3> QED BY <3>1, <3>2
  <2> QED BY <2>1
<1>8. UNCHANGED <<Used(c)>> /\ \A t \in Used(c) : FragLen(c, t)' = FragLen(c, t)
  BY <1>0 DEF Used, FragLen
<1> QED BY <1>0, <1>1, <1>3, <1>6, <1>7, <1>8 DEF s

LEMMA OwnShapeKey ==
  ASSUME TypeOK, Shape, NEW c \in Call, OpenKey(c) \/ ReadKey(c) \/ AllocThreads(c)
  PROVE  ShapeAt(c)'
<1> USE DEF ShapeAt, CountOK, LoopOK, BufferOK, StartedOK, PosOK, Counted, Buffered, Unstarted
<1>0. ShapeAt(c) /\ UNCHANGED <<req, th, text, size, fs>>
  BY DEF Shape, OpenKey, ReadKey, AllocThreads
<1>1. UNCHANGED <<Used(c)>> /\ \A t \in Used(c) : FragLen(c, t)' = FragLen(c, t)
  BY <1>0 DEF Used, FragLen
<1>2. CASE OpenKey(c)
  <2>1. pc[c] = "open_key"
    BY <1>2 DEF OpenKey
  <2>2. CASE pc'[c] \in {"bailed", "final"}
    BY <1>0, <1>1, <2>1, <2>2
  <2>3. CASE /\ pc'[c] = "read_key" /\ pos'[c] = 0
             /\ key'[c] = Zeros(Len(fs[req[c].key]))
    <3>1. Len(fs[req[c].key]) \in Nat
      BY Arguments, FileSeq
    <3>2. pos'[c] + Len(key'[c]) <= Len(fs[req[c].key])
      BY <2>3, <3>1, ZerosSeq
    <3> QED BY <1>0, <1>1, <2>1, <2>3, <3>2
  <2>4. \/ pc'[c] \in {"bailed", "final"}
        \/ /\ pc'[c] = "read_key" /\ pos'[c] = 0
           /\ key'[c] = Zeros(Len(fs[req[c].key]))
    BY <1>2, GotoEffect DEF OpenKey, Bail, Fail, Continue, TypeOK
  <2> QED BY <2>2, <2>3, <2>4
<1>3. CASE ReadKey(c)
  <2>1. pc[c] = "read_key" /\ pc'[c] = "alloc_threads"
    BY <1>3, GotoEffect DEF ReadKey, Continue
  <2> QED BY <1>0, <1>1, <2>1
<1>4. CASE AllocThreads(c)
  <2>1. pc[c] = "alloc_threads"
    BY <1>4 DEF AllocThreads
  <2>2. pc'[c] = "bailed" \/ (pc'[c] = "spawn" /\ i'[c] = 0)
    BY <1>4, GotoEffect DEF AllocThreads, Bail, Fail, Continue
  <2>3. 0 \in Used(c)
    BY <1>0, <2>1, Arguments DEF Used
  <2> QED BY <1>0, <1>1, <2>1, <2>2, <2>3
<1> QED BY <1>2, <1>3, <1>4

LEMMA OwnShapeThreads ==
  ASSUME TypeOK, Shape, NEW c \in Call,
         SpawnThread(c) \/ WaitThread(c) \/ OpenOutput(c)
  PROVE  ShapeAt(c)'
<1> USE DEF ShapeAt, CountOK, LoopOK, BufferOK, StartedOK, PosOK, Counted, Buffered, Unstarted
<1>0. ShapeAt(c) /\ UNCHANGED <<req, text, key, size, fs>>
  BY DEF Shape, SpawnThread, WaitThread, OpenOutput
<1>1. UNCHANGED <<Used(c)>> /\ \A t \in Thread : FragLen(c, t)' = FragLen(c, t)
  BY <1>0 DEF Used, FragLen
<1>2. Used(c) \subseteq Thread
  BY Arguments
<1>3. CASE SpawnThread(c)
  <2>1. pc[c] = "spawn" /\ i[c] \in Used(c) /\ req[c].n > 0
    BY <1>0, <1>3 DEF SpawnThread
  <2>2. \/ pc'[c] = "cleanup"
        \/ pc'[c] = "wait" /\ i'[c] = 0
        \/ pc'[c] = "spawn" /\ i'[c] \in Used(c)
    <3>1. Turn(c, "wait") \/ pc'[c] = "cleanup"
      BY <1>3, GotoEffect DEF SpawnThread, Fail
    <3> QED BY <2>1, <3>1, TurnEffect
  <2>3. 0 \in Used(c)
    BY <2>1, Arguments DEF Used
  <2>4. \A t \in Thread : th'[c][t] # "none" => th[c][t] # "none" \/ t = i[c]
    BY <1>3 DEF SpawnThread, TypeOK
  <2>5. \A t \in Used(c) : Len(text[c][t]) = FragLen(c, t)
    BY <1>0, <2>1
  <2>6. StartedOK(c)'
    BY <1>0, <1>1, <2>1, <2>2, <2>4, <2>5
  <2> QED BY <1>0, <1>1, <1>2, <2>1, <2>2, <2>3, <2>5, <2>6
<1>4. CASE WaitThread(c)
  <2>1. pc[c] = "wait" /\ i[c] \in Used(c) /\ UNCHANGED th
    BY <1>0, <1>4 DEF WaitThread
  <2>2. pc'[c] = "open_output" \/ (pc'[c] = "wait" /\ i'[c] \in Used(c))
    <3>1. Turn(c, "open_output") /\ i[c] \in Used(c)
      BY <1>4, <2>1 DEF WaitThread
    <3>2. \/ pc'[c] = "open_output"
          \/ pc'[c] = pc[c] /\ i'[c] = i[c] + 1 /\ i[c] + 1 \in Used(c)
      BY <3>1, TurnEffect
    <3> QED BY <2>1, <3>2
  <2> QED BY <1>0, <1>1, <1>2, <2>1, <2>2
<1>5. CASE OpenOutput(c)
  <2>1. pc[c] = "open_output" /\ UNCHANGED th
    BY <1>5 DEF OpenOutput
  <2>2. pc'[c] = "bailed" \/ (pc'[c] = "write" /\ i'[c] = 0 /\ pos'[c] = 0)
    <3>1. CASE Bail(c, "EOPEN")
      BY <3>1, GotoEffect DEF Bail, Fail
    <3>2. CASE pos' = [pos EXCEPT ![c] = 0] /\ Continue(c, "write")
      BY <3>2, GotoEffect DEF Continue, TypeOK
    <3> QED BY <1>5, <3>1, <3>2 DEF OpenOutput
  <2>3. 0 \in Used(c)
    BY <1>0, <2>1, Arguments DEF Used
  <2>4. Len(fs[req[c].out]) \in Nat
    BY Arguments, FileSeq
  <2> QED BY <1>0, <1>1, <1>2, <2>1, <2>2, <2>3, <2>4
<1> QED BY <1>3, <1>4, <1>5

LEMMA OwnShapeEnd ==
  ASSUME TypeOK, Shape, NEW c \in Call, WriteFragment(c) \/ Cleanup(c) \/ Final(c)
  PROVE  ShapeAt(c)'
<1> USE DEF ShapeAt, CountOK, LoopOK, BufferOK, StartedOK, PosOK, Counted, Buffered, Unstarted
<1>0. ShapeAt(c) /\ UNCHANGED <<req, text, th, key, size>>
  BY DEF Shape, WriteFragment, Cleanup, Final
<1>1. UNCHANGED <<Used(c)>> /\ \A t \in Thread : FragLen(c, t)' = FragLen(c, t)
  BY <1>0 DEF Used, FragLen
<1>2. Used(c) \subseteq Thread
  BY Arguments
<1>3. CASE WriteFragment(c)
  <2>1. pc[c] = "write" /\ i[c] \in Used(c)
    BY <1>0, <1>3 DEF WriteFragment
  <2>2. pc'[c] = "cleanup" \/ (pc'[c] = "write" /\ i'[c] \in Used(c))
    <3>1. Turn(c, "cleanup") /\ i[c] \in Used(c)
      BY <1>3, <2>1 DEF WriteFragment
    <3>2. \/ pc'[c] = "cleanup"
          \/ pc'[c] = pc[c] /\ i'[c] = i[c] + 1 /\ i[c] + 1 \in Used(c)
      BY <3>1, TurnEffect
    <3> QED BY <2>1, <3>2
  <2>3. pos'[c] <= Len(fs'[req[c].out])
    <3>1. PICK d \in Seq(Byte) :
             /\ pos[c] <= Len(fs[req[c].out])
             /\ fs' = [fs EXCEPT ![req[c].out] = Overwrite(@, pos[c], d)]
             /\ pos' = [pos EXCEPT ![c] = @ + Len(d)]
      BY <1>3, WriteBound
    <3>2. Len(Overwrite(fs[req[c].out], pos[c], d)) >= pos[c] + Len(d)
      BY <3>1, Arguments, FileSeq, OverwriteSeq DEF TypeOK
    <3>3. fs'[req[c].out] = Overwrite(fs[req[c].out], pos[c], d) /\ pos'[c] = pos[c] + Len(d)
      BY <3>1, Arguments DEF TypeOK
    <3>4. /\ Overwrite(fs[req[c].out], pos[c], d) \in Seq(Byte)
          /\ pos[c] + Len(d) \in Nat
      BY <3>1, Arguments, FileSeq, OverwriteSeq DEF TypeOK
    <3> QED BY <3>2, <3>3, <3>4
  <2> QED BY <1>0, <1>1, <1>2, <2>1, <2>2, <2>3
<1>4. CASE Cleanup(c) \/ Final(c)
  <2>1. pc[c] \in {"cleanup", "final"} /\ pc'[c] \in {"final", "returned"}
    BY <1>4, GotoEffect DEF Cleanup, Final, Continue
  <2> QED BY <1>0, <1>1, <1>2, <2>1
<1> QED BY <1>3, <1>4

LEMMA ThreadShape ==
  ASSUME TypeOK, Shape, NEW c \in Call, NEW t \in Thread, ThreadStep(c, t)
  PROVE  ShapeAt(c)'
<1> USE DEF ShapeAt, CountOK, LoopOK, BufferOK, StartedOK, PosOK
<1>0. ShapeAt(c) /\ UNCHANGED <<req, pc, i, size, pos, key, fs>>
  BY DEF Shape, ThreadStep, XorByte, Complete, UseFreed
<1>1. th[c][t] # "none"
  BY DEF ThreadStep, XorByte, Complete, UseFreed
<1>2. \A u \in Thread : Len(text'[c][u]) = Len(text[c][u])
  <2>1. CASE XorByte(c, t)
    <3>1. Len(text'[c][t]) = Len(text[c][t])
      BY <2>1, XorByteType
    <3>2. \A u \in Thread \ {t} : text'[c][u] = text[c][u]
      BY <2>1 DEF XorByte, TypeOK
    <3> QED BY <3>1, <3>2
  <2>2. CASE UNCHANGED text
    BY <2>2
  <2> QED BY <2>1, <2>2 DEF ThreadStep, Complete, UseFreed
<1>3. \A u \in Thread \ {t} : th'[c][u] = th[c][u]
  BY DEF ThreadStep, XorByte, Complete, UseFreed, TypeOK
<1>4. UNCHANGED <<Used(c)>> /\ \A u \in Thread : FragLen(c, u)' = FragLen(c, u)
  BY <1>0 DEF Used, FragLen
<1>5. Used(c) \subseteq Thread
  BY Arguments
<1>6. StartedOK(c)'
  <2>1. \A u \in Thread : th'[c][u] # "none" => th[c][u] # "none"
    BY <1>1, <1>3
  <2> QED BY <1>0, <1>2, <1>4, <2>1
<1> QED BY <1>0, <1>2, <1>4, <1>5, <1>6

LEMMA ShapeStep == TypeOK /\ Shape /\ [Next]_vars => (TypeOK /\ Shape)'
<1> SUFFICES ASSUME TypeOK, Shape, [Next]_vars PROVE (TypeOK /\ Shape)'
  OBVIOUS
<1>1. ASSUME NEW c \in Call, MainStep(c) \/ \E t \in Thread : ThreadStep(c, t)
      PROVE  (TypeOK /\ Shape)'
  <2>1. TypeOK'
    BY <1>1, MainStepType, ThreadStepType
  <2>2. ShapeAt(c)'
    BY <1>1, OwnShapeStart, OwnShapeAlloc, OwnShapeRead, OwnShapeKey, OwnShapeThreads,
       OwnShapeEnd, ThreadShape DEF MainStep
  <2>3. \A d \in Call \ {c} : ShapeAt(d)'
    BY <1>1, OthersShape
  <2>4. Shape'
    BY <2>2, <2>3 DEF Shape, ShapeAt
  <2> QED BY <2>1, <2>4
<1>2. CASE UNCHANGED vars
  BY <1>2 DEF vars, TypeOK, Shape, CountOK, LoopOK, BufferOK, StartedOK, PosOK, Used, FragLen
<1> QED BY <1>1, <1>2 DEF Next

\* Every variable of every call keeps its type, for any number of calls and
\* of threads and any files: no loop leaves its arrays, and no read or write
\* starts outside its file (crypt.c:94-112, 133, 203).
THEOREM TypeCorrect == Spec => [](TypeOK /\ Shape)
<1>1. Init => TypeOK /\ Shape
  BY InitShape
<1>2. TypeOK /\ Shape /\ [Next]_vars => (TypeOK /\ Shape)'
  BY ShapeStep
<1> QED BY <1>1, <1>2, PTL DEF Spec

=============================================================================
