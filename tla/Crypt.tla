-------------------------------- MODULE Crypt --------------------------------
(***************************************************************************)
(* The system calls my_encrypt and my_decrypt: both are function_syscall   *)
(* of crypt.c.  A call copies its three paths, reads the input file into   *)
(* one fragment per thread, reads the key, starts the threads, waits for   *)
(* all of them, writes the fragments to the output file and frees its      *)
(* memory.  Several calls run at once over the same files; the threads of  *)
(* a call run beside it.                                                   *)
(*                                                                         *)
(* A step is one access to what is shared (a file, a thread, memory that a *)
(* thread uses) or one block of purely local statements.  The memory of a  *)
(* call is the set of its live blocks; `freed` and `err` are history: the  *)
(* blocks it has given back, and the kfree's and accesses that C leaves    *)
(* undefined.  kmalloc gives zeroed memory, as the build is configured.    *)
(***************************************************************************)
EXTENDS Fragments, FiniteSets

CONSTANTS
  Call,        \* the system calls made
  Path,        \* the names of files
  MaxThreads,  \* bound on no_threads
  Scenario,    \* what may be asked: for each call, its arguments and the
               \* calls that the program waits for before it makes this one
  Disk,        \* the possible contents of the files at the start
  Faults       \* the kinds of failure that may happen

Request == [in : Path, out : Path, key : Path, n : Int, after : SUBSET Call]

FaultKind == {"path", "alloc", "open", "spawn", "read", "write"}

ASSUME CryptAssumption ==
  /\ MaxThreads \in Nat
  /\ Scenario \subseteq [Call -> Request]
  /\ \A s \in Scenario : \A c \in Call : s[c].n <= MaxThreads
  /\ Disk \subseteq [Path -> Seq(Byte)]
  /\ Faults \subseteq FaultKind

Thread == 0 .. MaxThreads - 1

VARIABLES
  req,     \* the arguments of each call
  pc,      \* where each call is
  i,       \* its loop counter
  ret,     \* its `ret`, or the error it returned directly
  size,    \* size_file
  pos,     \* the offset in the file being read or written
  text,    \* fragments_text[t], the buffers the threads work on
  plain,   \* history: the fragments as they were read
  key,     \* the key buffer
  opened,  \* the files the call has open
  live,    \* its allocated blocks
  freed,   \* history: the blocks it has freed
  err,     \* history: undefined uses of memory, with the block
  th,      \* the state of each thread
  idx,     \* how many bytes of its fragment a thread has done
  fs       \* the contents of the files

ctlVars == <<pc, i, ret>>
bufVars == <<size, pos, text, plain, key, opened>>
memVars == <<live, freed, err>>
thrVars == <<th, idx>>
vars == <<req, ctlVars, bufVars, memVars, thrVars, fs>>

-----------------------------------------------------------------------------
(* Memory *)

PathBlock == <<<<"path_input_", 0>>, <<"path_output_", 0>>, <<"path_key_", 0>>>>
PathBlocks == {<<"path_input_", 0>>, <<"path_output_", 0>>, <<"path_key_", 0>>}
FragArray == <<"fragments_text", 0>>
KeyBlock == <<"key", 0>>
ThreadArray == <<"threads", 0>>
ArgArray == <<"args_threads", 0>>
Fragment(t) == <<"fragment_text", t>>
Arg(t) == <<"args_thread", t>>
Completion(t) == <<"thread_completed", t>>

Block ==
  PathBlocks \cup {FragArray, KeyBlock, ThreadArray, ArgArray}
    \cup ({"fragment_text", "args_thread", "thread_completed"} \X Thread)

Misuse == {"stale", "double", "wild"} \X Block

\* The threads of the call.
Used(c) == 0 .. req[c].n - 1

FragLen(c, t) == FragmentSize(size[c], req[c].n, t)

\* Fragments that own memory: kmalloc(0) gives no block and cannot fail.
TextBlocks(c, T) == {Fragment(t) : t \in {u \in T : FragLen(c, u) > 0}}

KeyBlocks(k) == IF k = <<>> THEN {} ELSE {KeyBlock}

Zeros(len) == [j \in 1 .. len |-> Zero]

Alloc(c, B) ==
  /\ live' = [live EXCEPT ![c] = @ \cup B]
  /\ UNCHANGED <<freed, err>>

\* kfree every block of B; `more` is what else goes wrong on the way.
Kfree(c, B, more) ==
  /\ live' = [live EXCEPT ![c] = @ \ B]
  /\ freed' = [freed EXCEPT ![c] = @ \cup B]
  /\ err' = [err EXCEPT ![c] =
               @ \cup ({"double"} \X (B \cap freed[c])) \cup more]

\* The accesses to B that find a freed block.
Stale(c, B) == {"stale"} \X (B \cap freed[c])

Touch(c, B) ==
  /\ err' = [err EXCEPT ![c] = @ \cup Stale(c, B)]
  /\ UNCHANGED <<live, freed>>

-----------------------------------------------------------------------------
(* Control *)

Goto(c, l, k) ==
  /\ pc' = [pc EXCEPT ![c] = l]
  /\ i' = [i EXCEPT ![c] = k]

\* One turn of `for (i = 0; i < no_threads; i++)`, then the label l.
NextTurn(c, l) ==
  IF i[c] = req[c].n - 1 THEN Goto(c, l, 0) ELSE Goto(c, pc[c], i[c] + 1)

Continue(c, l) == Goto(c, l, 0) /\ UNCHANGED ret
Turn(c, l) == NextTurn(c, l) /\ UNCHANGED ret
Fail(c, e, l) == Goto(c, l, 0) /\ ret' = [ret EXCEPT ![c] = e]

\* A return in the middle of the function: nothing is freed or closed.
Bail(c, e) == Fail(c, e, "bailed")

\* The kernel oopses in the call: its task is killed and never returns.
Oops(c) == Fail(c, "KILLED", "oops")

Terminal == {"returned", "bailed", "oops"}

-----------------------------------------------------------------------------
(* The system call *)

\* strnlen_user, kmalloc and copy_from_user of the i-th path.  The result of
\* kmalloc is not tested: the copy to a null pointer is an oops.
CopyPath(c) ==
  LET b == {PathBlock[i[c] + 1]} IN
  /\ pc[c] = "paths"
  /\ \A d \in req[c].after : pc[d] \in {"returned", "bailed"}
  /\ \/ /\ IF i[c] = 2 THEN Continue(c, "open_input")
                       ELSE Goto(c, "paths", i[c] + 1) /\ UNCHANGED ret
        /\ Alloc(c, b)
     \/ /\ "path" \in Faults
        /\ \/ Bail(c, "EINVAL") /\ UNCHANGED memVars
           \/ Bail(c, "EFAULT") /\ Alloc(c, b)
     \/ /\ "alloc" \in Faults
        /\ Oops(c) /\ UNCHANGED memVars
  /\ UNCHANGED <<req, bufVars, thrVars, fs>>

\* filp_open of the input and the two vfs_llseek.
OpenInput(c) ==
  /\ pc[c] = "open_input"
  /\ \/ /\ opened' = [opened EXCEPT ![c] = @ \cup {"input"}]
        /\ size' = [size EXCEPT ![c] = Len(fs[req[c].in])]
        /\ pos' = [pos EXCEPT ![c] = 0]
        /\ Continue(c, "split")
     \/ /\ "open" \in Faults
        /\ Bail(c, "EOPEN") /\ UNCHANGED <<opened, size, pos>>
  /\ UNCHANGED <<req, text, plain, key, memVars, thrVars, fs>>

\* size_file / no_threads, then the array of fragments.  Division by zero is
\* an oops; a negative count overflows kmalloc_array, which gives NULL.
SplitInput(c) ==
  /\ pc[c] = "split"
  /\ \/ /\ req[c].n = 0
        /\ Oops(c) /\ UNCHANGED memVars
     \/ /\ req[c].n < 0 \/ (req[c].n > 0 /\ "alloc" \in Faults)
        /\ Fail(c, "ENOMEM", "final") /\ UNCHANGED memVars
     \/ /\ req[c].n > 0
        /\ Continue(c, "alloc_fragments") /\ Alloc(c, {FragArray})
  /\ UNCHANGED <<req, bufVars, thrVars, fs>>

\* The loop that allocates the fragments; it may fail at thread t.
AllocFragments(c) ==
  /\ pc[c] = "alloc_fragments"
  /\ \/ /\ text' = [text EXCEPT ![c] =
                      [t \in Thread |-> IF t \in Used(c)
                                        THEN Zeros(FragLen(c, t)) ELSE <<>>]]
        /\ Alloc(c, TextBlocks(c, Used(c)))
        /\ Continue(c, "read")
     \/ /\ "alloc" \in Faults
        /\ \E t \in Used(c) :
             /\ FragLen(c, t) > 0
             /\ Alloc(c, TextBlocks(c, 0 .. t - 1))
        /\ Fail(c, "ENOMEM", "final")
        /\ UNCHANGED text
  /\ UNCHANGED <<req, size, pos, plain, key, opened, thrVars, fs>>

\* The bytes a kernel_read of `len` bytes at pos can deliver from s.
Available(c, s, len) ==
  LET rest == Len(s) - pos[c]
      full == IF rest < len THEN rest ELSE len
  IN  IF "read" \in Faults THEN 0 .. full ELSE {full}

\* A buffer of `len` bytes after a read of m bytes of s at offset p.
Filled(s, p, m, len) ==
  [j \in 1 .. len |-> IF j <= m THEN s[p + j] ELSE Zero]

\* One kernel_read of the input, whose result is not tested; the file is
\* closed after the last one.
ReadFragment(c) ==
  LET s == fs[req[c].in]
      len == FragLen(c, i[c])
  IN
  /\ pc[c] = "read"
  /\ \E m \in Available(c, s, len) :
       /\ text' = [text EXCEPT ![c][i[c]] = Filled(s, pos[c], m, len)]
       /\ pos' = [pos EXCEPT ![c] = @ + m]
  /\ Turn(c, "open_key")
  /\ IF i[c] = req[c].n - 1
     THEN /\ opened' = [opened EXCEPT ![c] = @ \ {"input"}]
          /\ plain' = [plain EXCEPT ![c] = text'[c]]
     ELSE UNCHANGED <<opened, plain>>
  /\ UNCHANGED <<req, size, key, memVars, thrVars, fs>>

\* filp_open of the key, its size, and the buffer for it.
OpenKey(c) ==
  LET buf == Zeros(Len(fs[req[c].key])) IN
  /\ pc[c] = "open_key"
  /\ \/ /\ "open" \in Faults
        /\ Bail(c, "EOPEN") /\ UNCHANGED <<opened, pos, key, memVars>>
     \/ /\ opened' = [opened EXCEPT ![c] = @ \cup {"key"}]
        /\ pos' = [pos EXCEPT ![c] = 0]
        /\ \/ /\ key' = [key EXCEPT ![c] = buf]
              /\ Alloc(c, KeyBlocks(buf))
              /\ Continue(c, "read_key")
           \/ /\ "alloc" \in Faults /\ buf # <<>>
              /\ Fail(c, "ENOMEM", "final")
              /\ UNCHANGED <<key, memVars>>
  /\ UNCHANGED <<req, size, text, plain, thrVars, fs>>

\* kernel_read of the key, then filp_close.
ReadKey(c) ==
  LET s == fs[req[c].key]
      len == Len(key[c])
  IN
  /\ pc[c] = "read_key"
  /\ \E m \in Available(c, s, len) :
       /\ key' = [key EXCEPT ![c] = Filled(s, pos[c], m, len)]
       /\ pos' = [pos EXCEPT ![c] = @ + m]
  /\ opened' = [opened EXCEPT ![c] = @ \ {"key"}]
  /\ Continue(c, "alloc_threads")
  /\ UNCHANGED <<req, size, text, plain, memVars, thrVars, fs>>

\* The arrays threads and args_threads.
AllocThreads(c) ==
  /\ pc[c] = "alloc_threads"
  /\ \/ /\ Continue(c, "spawn") /\ Alloc(c, {ThreadArray, ArgArray})
     \/ /\ "alloc" \in Faults
        /\ Bail(c, "ENOMEM")
        /\ \/ UNCHANGED memVars
           \/ /\ freed' = [freed EXCEPT ![c] = @ \cup {ThreadArray}]
              /\ UNCHANGED <<live, err>>
  /\ UNCHANGED <<req, bufVars, thrVars, fs>>

\* The result of kthread_run is not tested.
SpawnThreadUnchecked(c) ==
  LET t == i[c] IN
  /\ pc[c] = "spawn"
  /\ \/ th' = [th EXCEPT ![c][t] = "run"]
     \/ "spawn" \in Faults /\ UNCHANGED th
  /\ Alloc(c, {Arg(t), Completion(t)})
  /\ Turn(c, "wait")
  /\ UNCHANGED <<req, bufVars, idx, fs>>

\* One turn of the loop that creates the threads: the argument block, its
\* completion, kthread_run.  Any of them may fail; when the completion
\* cannot be had, the argument block is freed and stays in args_threads.
SpawnThread(c) ==
  LET t == i[c] IN
  /\ pc[c] = "spawn"
  /\ \/ /\ th' = [th EXCEPT ![c][t] = "run"]
        /\ Alloc(c, {Arg(t), Completion(t)})
        /\ Turn(c, "wait")
     \/ /\ "alloc" \in Faults
        /\ Fail(c, "ENOMEM", "cleanup")
        /\ \/ UNCHANGED memVars
           \/ /\ freed' = [freed EXCEPT ![c] = @ \cup {Arg(t)}]
              /\ UNCHANGED <<live, err>>
        /\ UNCHANGED th
     \/ /\ "spawn" \in Faults
        /\ Fail(c, "ESPAWN", "cleanup")
        /\ Alloc(c, {Arg(t), Completion(t)})
        /\ UNCHANGED th
  /\ UNCHANGED <<req, bufVars, idx, fs>>

\* The main thread waits for one thread and goes on.
WaitFirstThread(c) ==
  /\ pc[c] = "wait"
  /\ th[c][i[c]] = "done"
  /\ Continue(c, "open_output")
  /\ Touch(c, {Arg(i[c]), Completion(i[c])})
  /\ UNCHANGED <<req, bufVars, thrVars, fs>>

\* wait_for_completion of thread i.
WaitThread(c) ==
  /\ pc[c] = "wait"
  /\ th[c][i[c]] = "done"
  /\ Turn(c, "open_output")
  /\ Touch(c, {Arg(i[c]), Completion(i[c])})
  /\ UNCHANGED <<req, bufVars, thrVars, fs>>

\* filp_open of the output: it is created when missing and never truncated.
OpenOutput(c) ==
  /\ pc[c] = "open_output"
  /\ \/ /\ opened' = [opened EXCEPT ![c] = @ \cup {"output"}]
        /\ pos' = [pos EXCEPT ![c] = 0]
        /\ Continue(c, "write")
     \/ /\ "open" \in Faults
        /\ Bail(c, "EOPEN") /\ UNCHANGED <<opened, pos>>
  /\ UNCHANGED <<req, size, text, plain, key, memVars, thrVars, fs>>

\* Every fragment is written at the start of the file.
WriteFragmentAtStart(c) ==
  LET t == i[c]
      out == req[c].out
  IN
  /\ pc[c] = "write"
  /\ fs' = [fs EXCEPT ![out] = Overwrite(@, 0, text[c][t])]
  /\ pos' = [pos EXCEPT ![c] = @ + FragLen(c, t)]
  /\ Turn(c, "cleanup")
  /\ opened' = [opened EXCEPT ![c] = IF i[c] = req[c].n - 1 THEN @ \ {"output"} ELSE @]
  /\ Touch(c, {Arg(t)} \cup TextBlocks(c, {t}))
  /\ UNCHANGED <<req, size, text, plain, key, thrVars>>

\* One kernel_write, whose result is not tested; the file is closed after
\* the last one.
WriteFragment(c) ==
  LET t == i[c]
      out == req[c].out
  IN
  /\ pc[c] = "write"
  /\ \E m \in IF "write" \in Faults THEN 0 .. FragLen(c, t) ELSE {FragLen(c, t)} :
       /\ fs' = [fs EXCEPT ![out] = Overwrite(@, pos[c], SubSeq(text[c][t], 1, m))]
       /\ pos' = [pos EXCEPT ![c] = @ + m]
  /\ Turn(c, "cleanup")
  /\ opened' = [opened EXCEPT ![c] = IF i[c] = req[c].n - 1 THEN @ \ {"output"} ELSE @]
  /\ Touch(c, {Arg(t)} \cup TextBlocks(c, {t}))
  /\ UNCHANGED <<req, size, text, plain, key, thrVars>>

\* The loop of cleanup_partial runs one thread too far.
CleanupOnePast(c) ==
  LET ok == {t \in Used(c) : Arg(t) \in live[c]}
      blocks == {Arg(t) : t \in 0 .. req[c].n} \cup {Completion(t) : t \in ok}
                  \cup TextBlocks(c, ok) \cup {ThreadArray, ArgArray}
  IN
  /\ pc[c] = "cleanup"
  /\ Continue(c, "final")
  /\ Kfree(c, blocks, {})
  /\ UNCHANGED <<req, bufVars, thrVars, fs>>

\* The label cleanup_partial: for every args_threads[t] that is not NULL, the
\* completion, the fragment and the argument block; then the two arrays.  An
\* argument block that is already freed is read and freed again.
Cleanup(c) ==
  LET set == {t \in Used(c) : Arg(t) \in live[c] \cup freed[c]}
      ok == {t \in set : Arg(t) \in live[c]}
      blocks == {Arg(t) : t \in set} \cup {Completion(t) : t \in ok}
                  \cup TextBlocks(c, ok) \cup {ThreadArray, ArgArray}
  IN
  /\ pc[c] = "cleanup"
  /\ Continue(c, "final")
  /\ Kfree(c, blocks, Stale(c, {Arg(t) : t \in set}))
  /\ UNCHANGED <<req, bufVars, thrVars, fs>>

\* key is assigned only after the input file is closed; a jump to final from
\* before leaves it without a value.
KeyAssigned(c) == "input" \notin opened[c]

\* kfree(key) is forgotten.
FinalKeepsKey(c) ==
  LET had == live[c] \cup freed[c] IN
  /\ pc[c] = "final"
  /\ Continue(c, "returned")
  /\ Kfree(c, PathBlocks \cup ((TextBlocks(c, Used(c)) \cup {FragArray}) \cap had), {})
  /\ UNCHANGED <<req, bufVars, thrVars, fs>>

\* The label final: the paths, every fragment (again, after Cleanup), their
\* array and the key; then the return.
Final(c) ==
  LET had == live[c] \cup freed[c]
      blocks == PathBlocks \cup ((TextBlocks(c, Used(c)) \cup {FragArray}) \cap had)
                  \cup (KeyBlocks(key[c]) \cap live[c])
  IN
  /\ pc[c] = "final"
  /\ Continue(c, "returned")
  /\ \E more \in IF KeyAssigned(c) THEN {{}} ELSE {{}, {<<"wild", KeyBlock>>}} :
       Kfree(c, blocks, more)
  /\ UNCHANGED <<req, bufVars, thrVars, fs>>

MainStep(c) ==
  \/ CopyPath(c) \/ OpenInput(c) \/ SplitInput(c) \/ AllocFragments(c)
  \/ ReadFragment(c) \/ OpenKey(c) \/ ReadKey(c) \/ AllocThreads(c)
  \/ SpawnThread(c) \/ WaitThread(c) \/ OpenOutput(c) \/ WriteFragment(c)
  \/ Cleanup(c) \/ Final(c)

-----------------------------------------------------------------------------
(* The threads: function_thread *)

\* What a thread uses: its arguments all the time, the fragment and the key
\* while there are bytes left, its completion at the end.
InUse(c, t) ==
  IF idx[c][t] < FragLen(c, t) THEN {Arg(t), Fragment(t)} \cup KeyBlocks(key[c])
                               ELSE {Arg(t), Completion(t)}

\* One byte of the fragment; with an empty key the modulus is by zero, the
\* thread oopses and will never complete.
XorByte(c, t) ==
  LET j == idx[c][t] + 1 IN
  /\ th[c][t] = "run" /\ Stale(c, InUse(c, t)) = {}
  /\ j <= FragLen(c, t)
  /\ IF key[c] = <<>>
     THEN /\ th' = [th EXCEPT ![c][t] = "oops"]
          /\ UNCHANGED <<idx, text>>
     ELSE /\ text' = [text EXCEPT ![c][t][j] = Xor(@, KeyAt(key[c], j))]
          /\ idx' = [idx EXCEPT ![c][t] = j]
          /\ UNCHANGED th
  /\ UNCHANGED <<req, ctlVars, size, pos, plain, key, opened, memVars, fs>>

\* complete() is called in the loop: a thread with an empty fragment never
\* gets there.
CompleteInLoop(c, t) ==
  /\ th[c][t] = "run" /\ Stale(c, InUse(c, t)) = {}
  /\ idx[c][t] >= FragLen(c, t) /\ FragLen(c, t) > 0
  /\ th' = [th EXCEPT ![c][t] = "done"]
  /\ UNCHANGED <<req, ctlVars, bufVars, memVars, idx, fs>>

\* complete(), after the last byte.
Complete(c, t) ==
  /\ th[c][t] = "run" /\ Stale(c, InUse(c, t)) = {}
  /\ idx[c][t] >= FragLen(c, t)
  /\ th' = [th EXCEPT ![c][t] = "done"]
  /\ UNCHANGED <<req, ctlVars, bufVars, memVars, idx, fs>>

\* The thread touches memory its call has freed: from here on nothing is
\* claimed of it.
UseFreed(c, t) ==
  /\ th[c][t] = "run" /\ Stale(c, InUse(c, t)) # {}
  /\ th' = [th EXCEPT ![c][t] = "lost"]
  /\ Touch(c, InUse(c, t))
  /\ UNCHANGED <<req, ctlVars, bufVars, idx, fs>>

ThreadStep(c, t) == XorByte(c, t) \/ Complete(c, t) \/ UseFreed(c, t)

-----------------------------------------------------------------------------
Init ==
  /\ req \in Scenario
  /\ fs \in Disk
  /\ pc = [c \in Call |-> "paths"]
  /\ i = [c \in Call |-> 0]
  /\ ret = [c \in Call |-> "OK"]
  /\ size = [c \in Call |-> 0]
  /\ pos = [c \in Call |-> 0]
  /\ text = [c \in Call |-> [t \in Thread |-> <<>>]]
  /\ plain = [c \in Call |-> [t \in Thread |-> <<>>]]
  /\ key = [c \in Call |-> <<>>]
  /\ opened = [c \in Call |-> {}]
  /\ live = [c \in Call |-> {}]
  /\ freed = [c \in Call |-> {}]
  /\ err = [c \in Call |-> {}]
  /\ th = [c \in Call |-> [t \in Thread |-> "none"]]
  /\ idx = [c \in Call |-> [t \in Thread |-> 0]]

Next ==
  \E c \in Call : MainStep(c) \/ \E t \in Thread : ThreadStep(c, t)

Spec == Init /\ [][Next]_vars

\* The scheduler runs every task that can run: a call that can take a step
\* takes one in the end, and so does each of its threads.
FairSpec ==
  /\ Spec
  /\ \A c \in Call : WF_vars(MainStep(c))
  /\ \A c \in Call : \A t \in Thread : WF_vars(ThreadStep(c, t))

-----------------------------------------------------------------------------
(* Properties *)

Label == {"paths", "open_input", "split", "alloc_fragments", "read", "open_key",
          "read_key", "alloc_threads", "spawn", "wait", "open_output", "write",
          "cleanup", "final"} \cup Terminal

Status == {"OK", "EINVAL", "EFAULT", "ENOMEM", "EOPEN", "ESPAWN", "KILLED"}

\* Every variable has its type.
TypeOK ==
  /\ req \in Scenario
  /\ pc \in [Call -> Label]
  /\ i \in [Call -> Nat]
  /\ ret \in [Call -> Status]
  /\ size \in [Call -> Nat]
  /\ pos \in [Call -> Nat]
  /\ text \in [Call -> [Thread -> Seq(Byte)]]
  /\ plain \in [Call -> [Thread -> Seq(Byte)]]
  /\ key \in [Call -> Seq(Byte)]
  /\ opened \in [Call -> SUBSET {"input", "key", "output"}]
  /\ live \in [Call -> SUBSET Block]
  /\ freed \in [Call -> SUBSET Block]
  /\ err \in [Call -> SUBSET Misuse]
  /\ th \in [Call -> [Thread -> {"none", "run", "done", "oops", "lost"}]]
  /\ idx \in [Call -> [Thread -> Nat]]
  /\ fs \in [Path -> Seq(Byte)]

\* No other call of the run writes the file p.
OnlyWriter(c, p) == \A d \in Call \ {c} : req[d].out # p

\* The plain text of the call, as it was read.
Plain(c) == Join(plain[c], size[c], req[c].n)

\* When no read comes up short and nobody else writes the input, the
\* fragments read (crypt.c:106-112) are the whole file, with no byte lost at
\* the end and none read twice, for every number of threads; and so is the
\* key (crypt.c:133).
ReadsWholeInput ==
  \A c \in Call : "read" \notin Faults =>
    /\ /\ pc[c] \in {"open_key", "read_key", "alloc_threads", "spawn", "wait", "open_output"}
       /\ OnlyWriter(c, req[c].in)
       => \A t \in Used(c) : plain[c][t] = Piece(fs[req[c].in], req[c].n, t)
    /\ /\ pc[c] \in {"alloc_threads", "spawn", "wait", "open_output"}
       /\ OnlyWriter(c, req[c].key)
       => key[c] = fs[req[c].key]

\* When the call goes on to write (crypt.c:194), every thread has XORed every
\* byte of its fragment exactly once, whatever order the threads ran in.
EncryptedBeforeWrite ==
  \A c \in Call : pc[c] \in {"open_output", "write"} =>
    \A t \in Used(c) : text[c][t] = XorFragment(plain[c][t], key[c])

\* The bytes that a call without a short write has written so far.
Written(c) ==
  IF pc[c] = "write" THEN FragmentStart(size[c], req[c].n, i[c]) ELSE size[c]

\* From the first write to the return (crypt.c:203-235) the output file
\* starts with the part written of the encryption of what was read, unless a
\* write came up short or another call writes the same file.
OutputIsEncrypted ==
  \A c \in Call :
    /\ pc[c] \in {"write", "cleanup", "final", "returned"} /\ ret[c] = "OK"
    /\ pos[c] = Written(c)
    /\ OnlyWriter(c, req[c].out)
    => SubSeq(fs[req[c].out], 1, pos[c])
         = SubSeq(Encrypt(Plain(c), key[c], req[c].n), 1, pos[c])

\* my_decrypt (crypt.c:242) of what my_encrypt wrote, with the same key and
\* the same number of threads, gives the text back, provided the encrypted
\* file was not longer before: the tail it keeps moves the fragments.
RoundTrip ==
  \A c \in Call : \A d \in Call :
    /\ c \in req[d].after /\ c # d
    /\ req[d].in = req[c].out /\ req[d].key = req[c].key /\ req[d].n = req[c].n
    /\ \A e \in {c, d} : pc[e] = "returned" /\ ret[e] = "OK" /\ pos[e] = size[e]
    /\ "read" \notin Faults /\ size[d] = size[c]
    /\ \A p \in {req[c].out, req[c].key} : OnlyWriter(c, p)
    /\ req[c].out # req[c].key
    /\ OnlyWriter(d, req[d].out)
    => SubSeq(fs[req[d].out], 1, size[c]) = Plain(c)

\* While a call has not failed, no thread and no statement of it touches
\* freed memory and kfree is given no wild pointer: the threads are joined
\* (crypt.c:187) before anything they use is freed.  The one misuse left is
\* the second kfree of the fragments (crypt.c:227).
SafeUntilFailure ==
  \A c \in Call : ret[c] = "OK" =>
    err[c] \subseteq {"double"} \X {Fragment(t) : t \in Thread}

\* The return at the end of the function (crypt.c:235) leaves no block
\* allocated, on success and on failure, and on success no file open.
ReturnedFreesAll ==
  \A c \in Call : pc[c] = "returned" =>
    live[c] = {} /\ (ret[c] = "OK" => opened[c] = {})

\* A call in wait_for_completion (crypt.c:188) waits for threads that were
\* started and can still complete, as long as the key is not empty.
WaitIsAnswered ==
  \A c \in Call : pc[c] = "wait" /\ key[c] # <<>> =>
    \A t \in i[c] .. req[c].n - 1 : th[c][t] \in {"run", "done"}

\* A call that has begun comes to an end, unless a thread of it died of an
\* empty key before it could complete (crypt.c:25).
CallsEnd ==
  \A c \in Call :
    pc[c] # "paths" ~> (pc[c] \in Terminal \/ \E t \in Thread : th[c][t] = "oops")

\* No block is freed twice: once freed, it can be another call's.
\* (crypt.c:211 and docs/manual.md:593: the memory is freed so that others
\* can use it.)
NoDoubleFree == \A c \in Call : \A b \in Block : <<"double", b>> \notin err[c]

\* No thread uses memory that its call has freed: the main thread waits for
\* the others (docs/manual.md:562).
NoUseAfterFree == \A c \in Call : \A b \in Block : <<"stale", b>> \notin err[c]

\* A thread signals the main thread when it is done (docs/manual.md:539), so
\* a call that waits goes on.
WaitEnds == \A c \in Call : pc[c] = "wait" ~> pc[c] # "wait"
=============================================================================
