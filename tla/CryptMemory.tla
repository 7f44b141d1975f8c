----------------------------- MODULE CryptMemory -----------------------------
(* What a call does with its memory: it does not touch or give back what is  *)
(* freed while it has not failed, it waits for the threads that use it, and  *)
(* it frees all of it before it returns.                                     *)
EXTENDS CryptProofs

USE DEF Request, bufVars, memVars, thrVars, ctlVars

-----------------------------------------------------------------------------
(* The inductive invariant: where a call may have failed, what it has freed, *)
(* which of its threads still run and which files it has open.               *)

\* The labels a call can reach after a failure, and those after the loop that
\* waits for the threads.
Failing == {"cleanup", "final"} \cup Terminal
Waited == {"open_output", "write", "cleanup", "final", "returned"}

StatusOK(c) == pc[c] \notin Failing => ret[c] = "OK"

Calm(c) ==
  ret[c] = "OK" =>
    /\ pc[c] \notin {"final", "returned"} => freed[c] = {}
    /\ pc[c] = "final" => freed[c] \cap (PathBlocks \cup {FragArray, KeyBlock}) = {}
    /\ pc[c] # "returned" => err[c] = {}
    /\ err[c] \subseteq {"double"} \X {Fragment(t) : t \in Thread}

Joined(c) ==
  /\ pc[c] = "wait" => \A t \in Thread : t < i[c] => th[c][t] # "run"
  /\ pc[c] \in Waited /\ ret[c] = "OK" => \A t \in Thread : th[c][t] # "run"

FilesOK(c) ==
  /\ pc[c] \in {"paths", "open_input", "open_key", "alloc_threads", "spawn", "wait",
                "open_output"} => opened[c] = {}
  /\ pc[c] \in {"split", "alloc_fragments", "read"} => opened[c] \subseteq {"input"}
  /\ pc[c] = "read_key" => opened[c] \subseteq {"key"}
  /\ pc[c] = "write" => opened[c] \subseteq {"output"}
  /\ pc[c] \in {"cleanup", "final", "returned"} /\ ret[c] = "OK" => opened[c] = {}

SafeAt(c) == StatusOK(c) /\ Calm(c) /\ Joined(c) /\ FilesOK(c)
Safe == \A c \in Call : SafeAt(c)

LEMMA InitSafe == Init => Safe
BY DEF Init, Safe, SafeAt, StatusOK, Calm, Joined, FilesOK, Failing, Terminal, Waited

LEMMA FailEffect ==
  ASSUME TypeOK, NEW c \in Call, NEW e, NEW l, Fail(c, e, l)
  PROVE  /\ pc'[c] = l /\ ret'[c] = e
         /\ \A d \in Call \ {c} : pc'[d] = pc[d] /\ i'[d] = i[d] /\ ret'[d] = ret[d]
BY GotoEffect DEF TypeOK, Fail

\* A call that has failed has nothing left to prove.
LEMMA FailSafe ==
  ASSUME TypeOK, NEW c \in Call, NEW e \in Status \ {"OK"}, NEW l \in Failing,
         Fail(c, e, l)
  PROVE  SafeAt(c)'
<1>1. pc'[c] \in Failing /\ ret'[c] # "OK"
  BY FailEffect
<1> QED BY <1>1 DEF SafeAt, StatusOK, Calm, Joined, FilesOK, Failing, Terminal, Waited

-----------------------------------------------------------------------------
(* The invariant is kept. *)

\* A step of a call does nothing to the memory and the files of the others.
LEMMA OthersCalm ==
  ASSUME TypeOK, Shape, NEW c \in Call, NEW d \in Call \ {c},
         MainStep(c) \/ \E t \in Thread : ThreadStep(c, t)
  PROVE  /\ ret'[d] = ret[d] /\ opened'[d] = opened[d] /\ live'[d] = live[d]
         /\ freed'[d] = freed[d] /\ err'[d] = err[d]
<1> USE DEF TypeOK
<1>1. CASE CopyPath(c) \/ SplitInput(c)
  BY <1>1 DEF CopyPath, SplitInput, Bail, Oops, Fail, Continue, Alloc
<1>2. CASE OpenInput(c) \/ OpenOutput(c)
  BY <1>2 DEF OpenInput, OpenOutput, Bail, Fail, Continue
<1>3. CASE AllocFragments(c)
  BY <1>3 DEF AllocFragments, Fail, Continue, Alloc
<1>4. CASE ReadFragment(c)
  BY <1>4 DEF ReadFragment, Turn
<1>5. CASE OpenKey(c)
  BY <1>5 DEF OpenKey, Bail, Fail, Continue, Alloc
<1>6. CASE ReadKey(c)
  BY <1>6 DEF ReadKey, Continue
<1>7. CASE AllocThreads(c)
  BY <1>7 DEF AllocThreads, Bail, Fail, Continue, Alloc
<1>8. CASE SpawnThread(c)
  BY <1>8 DEF SpawnThread, Fail, Turn, Alloc
<1>9. CASE WaitThread(c)
  BY <1>9 DEF WaitThread, Turn, Touch
<1>10. CASE WriteFragment(c)
  BY <1>10 DEF WriteFragment, Turn, Touch
<1>11. CASE Cleanup(c)
  BY <1>11 DEF Cleanup, Continue, Kfree
<1>12. CASE Final(c)
  BY <1>12 DEF Final, Continue, Kfree
<1>13. CASE \E t \in Thread : ThreadStep(c, t)
  BY <1>13 DEF ThreadStep, XorByte, Complete, UseFreed, Touch
<1> QED
  BY <1>1, <1>2, <1>3, <1>4, <1>5, <1>6, <1>7, <1>8, <1>9, <1>10, <1>11, <1>12, <1>13
  DEF MainStep

LEMMA OthersSafe ==
  ASSUME TypeOK, Shape, Safe, NEW c \in Call, NEW d \in Call \ {c},
         MainStep(c) \/ \E t \in Thread : ThreadStep(c, t)
  PROVE  SafeAt(d)'
<1>1. SafeAt(d)
  BY DEF Safe
<1>2. /\ ret'[d] = ret[d] /\ opened'[d] = opened[d] /\ freed'[d] = freed[d]
      /\ err'[d] = err[d] /\ pc'[d] = pc[d] /\ i'[d] = i[d] /\ th'[d] = th[d]
  BY OthersUnchanged, OthersCalm
<1> QED BY <1>1, <1>2 DEF SafeAt, StatusOK, Calm, Joined, FilesOK

\* A step that stays before the wait, frees nothing and misuses nothing.
LEMMA QuietSafe ==
  ASSUME TypeOK, NEW c \in Call, SafeAt(c), pc[c] \notin Failing \cup Waited \cup {"wait"},
         pc'[c] \notin Failing \cup Waited \cup {"wait"}, FilesOK(c)',
         UNCHANGED <<freed, err>>, ret'[c] = ret[c]
  PROVE  SafeAt(c)'
BY DEF SafeAt, StatusOK, Calm, Joined, Failing, Terminal, Waited

LEMMA StartSafe ==
  ASSUME TypeOK, Shape, Safe, NEW c \in Call,
         CopyPath(c) \/ OpenInput(c) \/ SplitInput(c) \/ AllocFragments(c)
  PROVE  SafeAt(c)'
<1> USE DEF Failing, Terminal, Waited
<1>0. SafeAt(c)
  BY DEF Safe
<1>1. ASSUME NEW e \in Status \ {"OK"}, NEW l \in Failing, Fail(c, e, l)
      PROVE  SafeAt(c)'
  BY <1>1, FailSafe
<1>2. CASE CopyPath(c)
  <2>1. CASE \/ Continue(c, "open_input") /\ Alloc(c, {PathBlock[i[c] + 1]})
             \/ Goto(c, "paths", i[c] + 1) /\ UNCHANGED ret /\ Alloc(c, {PathBlock[i[c] + 1]})
    <3>1. pc[c] = "paths" /\ opened' = opened
      BY <1>2 DEF CopyPath
    <3>2. pc'[c] \in {"paths", "open_input"} /\ UNCHANGED <<freed, err, ret>>
      BY <2>1, GotoEffect DEF Continue, Alloc
    <3> QED BY <1>0, <3>1, <3>2, QuietSafe DEF SafeAt, FilesOK
  <2>2. CASE \E e \in {"EINVAL", "EFAULT", "KILLED"}, l \in {"bailed", "oops"} : Fail(c, e, l)
    BY <1>1, <2>2 DEF Status
  <2> QED BY <1>2, <2>1, <2>2 DEF CopyPath, Bail, Oops
<1>3. CASE OpenInput(c)
  <2>1. CASE Continue(c, "split") /\ opened' = [opened EXCEPT ![c] = @ \cup {"input"}]
    <3>1. pc[c] = "open_input" /\ UNCHANGED <<freed, err>>
      BY <1>3 DEF OpenInput
    <3>2. pc'[c] = "split" /\ UNCHANGED ret
      BY <2>1, GotoEffect DEF Continue
    <3>3. opened'[c] \subseteq {"input"}
      BY <1>0, <2>1, <3>1 DEF SafeAt, FilesOK, TypeOK
    <3> QED BY <1>0, <3>1, <3>2, <3>3, QuietSafe DEF FilesOK
  <2>2. CASE Bail(c, "EOPEN")
    BY <1>1, <2>2 DEF Bail, Status
  <2> QED BY <1>3, <2>1, <2>2 DEF OpenInput
<1>4. CASE SplitInput(c)
  <2>1. CASE Continue(c, "alloc_fragments") /\ Alloc(c, {FragArray})
    <3>1. pc[c] = "split" /\ UNCHANGED opened
      BY <1>4 DEF SplitInput
    <3>2. pc'[c] = "alloc_fragments" /\ UNCHANGED <<freed, err, ret>>
      BY <2>1, GotoEffect DEF Continue, Alloc
    <3> QED BY <1>0, <3>1, <3>2, QuietSafe DEF SafeAt, FilesOK
  <2>2. CASE Oops(c) \/ Fail(c, "ENOMEM", "final")
    BY <1>1, <2>2 DEF Oops, Status
  <2> QED BY <1>4, <2>1, <2>2 DEF SplitInput
<1>5. CASE AllocFragments(c)
  <2>1. CASE Continue(c, "read")
    <3>1. pc[c] = "alloc_fragments" /\ UNCHANGED opened /\ UNCHANGED <<freed, err>>
      BY <1>5 DEF AllocFragments, Alloc
    <3>2. pc'[c] = "read" /\ UNCHANGED ret
      BY <2>1, GotoEffect DEF Continue
    <3> QED BY <1>0, <3>1, <3>2, QuietSafe DEF SafeAt, FilesOK
  <2>2. CASE Fail(c, "ENOMEM", "final")
    BY <1>1, <2>2 DEF Status
  <2> QED BY <1>5, <2>1, <2>2 DEF AllocFragments
<1> QED BY <1>2, <1>3, <1>4, <1>5

LEMMA ReadSafe ==
  ASSUME TypeOK, Shape, Safe, NEW c \in Call,
         ReadFragment(c) \/ OpenKey(c) \/ ReadKey(c) \/ AllocThreads(c)
  PROVE  SafeAt(c)'
<1> USE DEF Failing, Terminal, Waited
<1>0. SafeAt(c)
  BY DEF Safe
<1>1. ASSUME NEW e \in Status \ {"OK"}, NEW l \in Failing, Fail(c, e, l)
      PROVE  SafeAt(c)'
  BY <1>1, FailSafe
<1>2. CASE ReadFragment(c)
  <2>1. pc[c] = "read" /\ UNCHANGED <<freed, err, ret>>
    BY <1>2 DEF ReadFragment, Turn
  <2>2. i[c] \in Used(c) /\ Turn(c, "open_key")
    BY <1>2 DEF ReadFragment, Shape, LoopOK
  <2>3. opened[c] \subseteq {"input"}
    BY <1>0, <2>1 DEF SafeAt, FilesOK
  <2>4. CASE i[c] = req[c].n - 1
    <3>1. pc'[c] = "open_key"
      BY <2>2, <2>4, GotoEffect DEF Turn, NextTurn
    <3>2. opened'[c] = {}
      BY <1>2, <2>3, <2>4 DEF ReadFragment, TypeOK
    <3> QED BY <1>0, <2>1, <3>1, <3>2, QuietSafe DEF FilesOK
  <2>5. CASE i[c] # req[c].n - 1
    <3>1. pc'[c] = "read"
      BY <2>1, <2>2, <2>5, GotoEffect DEF Turn, NextTurn
    <3>2. opened'[c] = opened[c]
      BY <1>2, <2>5 DEF ReadFragment
    <3> QED BY <1>0, <2>1, <2>3, <3>1, <3>2, QuietSafe DEF FilesOK
  <2> QED BY <2>4, <2>5
<1>3. CASE OpenKey(c)
  <2>1. pc[c] = "open_key" /\ UNCHANGED <<freed, err>>
    BY <1>3 DEF OpenKey, Alloc
  <2>2. CASE Continue(c, "read_key") /\ opened' = [opened EXCEPT ![c] = @ \cup {"key"}]
    <3>1. pc'[c] = "read_key" /\ UNCHANGED ret
      BY <2>2, GotoEffect DEF Continue
    <3>2. opened'[c] \subseteq {"key"}
      BY <1>0, <2>1, <2>2 DEF SafeAt, FilesOK, TypeOK
    <3> QED BY <1>0, <2>1, <3>1, <3>2, QuietSafe DEF FilesOK
  <2>3. CASE Bail(c, "EOPEN") \/ Fail(c, "ENOMEM", "final")
    BY <1>1, <2>3 DEF Bail, Status
  <2> QED BY <1>3, <2>2, <2>3 DEF OpenKey
<1>4. CASE ReadKey(c)
  <2>1. pc[c] = "read_key" /\ UNCHANGED <<freed, err, ret>>
    BY <1>4 DEF ReadKey, Continue
  <2>2. pc'[c] = "alloc_threads"
    BY <1>4, GotoEffect DEF ReadKey, Continue
  <2>3. opened'[c] = {}
    BY <1>0, <1>4, <2>1 DEF SafeAt, FilesOK, TypeOK, ReadKey
  <2> QED BY <1>0, <2>1, <2>2, <2>3, QuietSafe DEF FilesOK
<1>5. CASE AllocThreads(c)
  <2>1. CASE Continue(c, "spawn") /\ Alloc(c, {ThreadArray, ArgArray})
    <3>1. pc[c] = "alloc_threads" /\ UNCHANGED opened
      BY <1>5 DEF AllocThreads
    <3>2. pc'[c] = "spawn" /\ UNCHANGED <<freed, err, ret>>
      BY <2>1, GotoEffect DEF Continue, Alloc
    <3> QED BY <1>0, <3>1, <3>2, QuietSafe DEF SafeAt, FilesOK
  <2>2. CASE Bail(c, "ENOMEM")
    BY <1>1, <2>2 DEF Bail, Status
  <2> QED BY <1>5, <2>1, <2>2 DEF AllocThreads
<1> QED BY <1>2, <1>3, <1>4, <1>5

\* Nothing is stale in a call that has freed nothing.
LEMMA TouchCalm ==
  ASSUME TypeOK, NEW c \in Call, freed[c] = {}, NEW B, Touch(c, B)
  PROVE  freed'[c] = freed[c] /\ err'[c] = err[c]
<1>1. Stale(c, B) = {}
  BY DEF Stale
<1> QED BY <1>1 DEF Touch, TypeOK

LEMMA WaitSafe ==
  ASSUME TypeOK, Shape, Safe, NEW c \in Call,
         SpawnThread(c) \/ WaitThread(c) \/ OpenOutput(c) \/ WriteFragment(c)
  PROVE  SafeAt(c)'
<1> USE DEF Failing, Terminal, Waited
<1>0. SafeAt(c) /\ ret[c] = "OK" /\ freed[c] = {} /\ err[c] = {}
  BY DEF Safe, SafeAt, StatusOK, Calm, SpawnThread, WaitThread, OpenOutput, WriteFragment
<1>1. ASSUME NEW e \in Status \ {"OK"}, NEW l \in Failing, Fail(c, e, l)
      PROVE  SafeAt(c)'
  BY <1>1, FailSafe
<1>2. CASE SpawnThread(c)
  <2>1. pc[c] = "spawn" /\ i[c] \in Used(c) /\ UNCHANGED opened
    BY <1>2 DEF SpawnThread, Shape, LoopOK
  <2>2. CASE Turn(c, "wait") /\ Alloc(c, {Arg(i[c]), Completion(i[c])})
    <3>1. \/ pc'[c] = "wait" /\ i'[c] = 0
          \/ pc'[c] = "spawn"
      BY <2>1, <2>2, TurnEffect
    <3>2. UNCHANGED <<ret, freed, err>>
      BY <2>2 DEF Turn, Alloc
    <3>3. opened'[c] = {}
      BY <1>0, <2>1 DEF SafeAt, FilesOK
    <3>4. \A t \in Thread : ~(t < 0)
      BY DEF Thread
    <3> QED BY <1>0, <3>1, <3>2, <3>3, <3>4 DEF SafeAt, StatusOK, Calm, Joined, FilesOK
  <2>3. CASE Fail(c, "ENOMEM", "cleanup") \/ Fail(c, "ESPAWN", "cleanup")
    BY <1>1, <2>3 DEF Status
  <2> QED BY <1>2, <2>2, <2>3 DEF SpawnThread
<1>3. CASE WaitThread(c)
  <2>1. pc[c] = "wait" /\ i[c] \in Used(c) /\ UNCHANGED <<th, opened, ret>>
    BY <1>3 DEF WaitThread, Shape, LoopOK, Turn
  <2>2. th[c][i[c]] = "done" /\ Touch(c, {Arg(i[c]), Completion(i[c])}) /\ Turn(c, "open_output")
    BY <1>3 DEF WaitThread
  <2>3. freed'[c] = {} /\ err'[c] = {}
    BY <1>0, <2>2, TouchCalm
  <2>4. \A t \in Thread : t < i[c] + 1 => th[c][t] # "run"
    BY <1>0, <2>1, <2>2 DEF SafeAt, Joined, Thread, TypeOK
  <2>5. opened'[c] = {}
    BY <1>0, <2>1 DEF SafeAt, FilesOK
  <2>6. CASE pc'[c] = "wait" /\ i'[c] = i[c] + 1
    BY <1>0, <2>1, <2>3, <2>4, <2>5, <2>6 DEF SafeAt, StatusOK, Calm, Joined, FilesOK
  <2>7. CASE pc'[c] = "open_output" /\ i[c] = req[c].n - 1
    <3>1. \A t \in Thread : th[c][t] # "none" => t \in Used(c)
      BY DEF Shape, StartedOK
    <3>2. \A t \in Thread : th[c][t] # "run"
      BY <2>4, <2>7, <3>1, Arguments DEF Used
    <3> QED BY <1>0, <2>1, <2>3, <2>5, <2>7, <3>2 DEF SafeAt, StatusOK, Calm, Joined, FilesOK
  <2> QED BY <2>1, <2>2, <2>6, <2>7, TurnEffect
<1>4. CASE OpenOutput(c)
  <2>1. pc[c] = "open_output" /\ UNCHANGED <<th, freed, err>>
    BY <1>4 DEF OpenOutput
  <2>2. CASE Continue(c, "write") /\ opened' = [opened EXCEPT ![c] = @ \cup {"output"}]
    <3>1. pc'[c] = "write" /\ UNCHANGED ret
      BY <2>2, GotoEffect DEF Continue
    <3>2. opened'[c] \subseteq {"output"}
      BY <1>0, <2>1, <2>2 DEF SafeAt, FilesOK, TypeOK
    <3> QED BY <1>0, <2>1, <3>1, <3>2 DEF SafeAt, StatusOK, Calm, Joined, FilesOK
  <2>3. CASE Bail(c, "EOPEN")
    BY <1>1, <2>3 DEF Bail, Status
  <2> QED BY <1>4, <2>2, <2>3 DEF OpenOutput
<1>5. CASE WriteFragment(c)
  <2>1. pc[c] = "write" /\ i[c] \in Used(c) /\ UNCHANGED <<th, ret>>
    BY <1>5 DEF WriteFragment, Shape, LoopOK, Turn
  <2>2. Turn(c, "cleanup") /\ Touch(c, {Arg(i[c])} \cup TextBlocks(c, {i[c]}))
    BY <1>5 DEF WriteFragment
  <2>3. freed'[c] = {} /\ err'[c] = {}
    BY <1>0, <2>2, TouchCalm
  <2>4. opened[c] \subseteq {"output"}
    BY <1>0, <2>1 DEF SafeAt, FilesOK
  <2>5. CASE i[c] = req[c].n - 1
    <3>1. pc'[c] = "cleanup"
      BY <2>2, <2>5, GotoEffect DEF Turn, NextTurn
    <3>2. opened'[c] = {}
      BY <1>5, <2>4, <2>5 DEF WriteFragment, TypeOK
    <3> QED BY <1>0, <2>1, <2>3, <3>1, <3>2 DEF SafeAt, StatusOK, Calm, Joined, FilesOK
  <2>6. CASE i[c] # req[c].n - 1
    <3>1. pc'[c] = "write"
      BY <2>1, <2>2, <2>6, GotoEffect DEF Turn, NextTurn
    <3>2. opened'[c] = opened[c]
      BY <1>5, <2>6 DEF WriteFragment, TypeOK
    <3> QED BY <1>0, <2>1, <2>3, <2>4, <3>1, <3>2 DEF SafeAt, StatusOK, Calm, Joined, FilesOK
  <2> QED BY <2>5, <2>6
<1> QED BY <1>2, <1>3, <1>4, <1>5

LEMMA CleanupSafe ==
  ASSUME TypeOK, Shape, Safe, NEW c \in Call, Cleanup(c)
  PROVE  SafeAt(c)'
<1> USE DEF Failing, Terminal, Waited
<1>0. SafeAt(c) /\ pc[c] = "cleanup" /\ UNCHANGED <<th, opened, ret>>
  BY DEF Safe, Cleanup, Continue
<1>1. pc'[c] = "final"
  BY GotoEffect DEF Cleanup, Continue
<1>2. CASE ret[c] = "OK"
  <2> DEFINE set == {t \in Used(c) : Arg(t) \in live[c] \cup freed[c]}
             ok == {t \in set : Arg(t) \in live[c]}
             blocks == {Arg(t) : t \in set} \cup {Completion(t) : t \in ok}
                         \cup TextBlocks(c, ok) \cup {ThreadArray, ArgArray}
             stale == Stale(c, {Arg(t) : t \in set})
  <2>1. freed[c] = {} /\ err[c] = {}
    BY <1>0, <1>2 DEF SafeAt, Calm
  <2>2. Kfree(c, blocks, stale)
    BY DEF Cleanup
  <2>3. stale = {}
    BY <2>1 DEF Stale
  <2>4. \A b \in blocks : b \notin PathBlocks \cup {FragArray, KeyBlock}
    <3> DEFINE names == {"path_input_", "path_output_", "path_key_", "fragments_text", "key"}
    <3>1. \A b \in blocks : b[1] \notin names
      <4> HIDE DEF set, ok
      <4>1. \A b \in {Arg(t) : t \in set} : b[1] = "args_thread"
        BY DEF Arg
      <4>2. \A b \in {Completion(t) : t \in ok} : b[1] = "thread_completed"
        BY DEF Completion
      <4>3. \A b \in TextBlocks(c, ok) : b[1] = "fragment_text"
        BY DEF TextBlocks, Fragment
      <4>4. ThreadArray[1] = "threads" /\ ArgArray[1] = "args_threads"
        BY DEF ThreadArray, ArgArray
      <4> QED BY <4>1, <4>2, <4>3, <4>4
    <3>2. \A b \in PathBlocks \cup {FragArray, KeyBlock} : b[1] \in names
      BY DEF PathBlocks, FragArray, KeyBlock
    <3> HIDE DEF blocks, names
    <3> QED BY <3>1, <3>2
  <2> HIDE DEF blocks, stale
  <2>5. freed'[c] = blocks /\ err'[c] = {}
    BY <2>1, <2>2, <2>3 DEF Kfree, TypeOK
  <2>6. freed'[c] \cap (PathBlocks \cup {FragArray, KeyBlock}) = {}
    BY <2>4, <2>5
  <2> QED BY <1>0, <1>1, <1>2, <2>5, <2>6 DEF SafeAt, StatusOK, Calm, Joined, FilesOK
<1>3. CASE ret[c] # "OK"
  BY <1>0, <1>1, <1>3 DEF SafeAt, StatusOK, Calm, Joined, FilesOK
<1> QED BY <1>2, <1>3

LEMMA FinalSafe ==
  ASSUME TypeOK, Shape, Safe, NEW c \in Call, Final(c)
  PROVE  SafeAt(c)'
<1> USE DEF Failing, Terminal, Waited
<1>0. SafeAt(c) /\ pc[c] = "final" /\ UNCHANGED <<th, opened, ret>>
  BY DEF Safe, Final, Continue
<1>1. pc'[c] = "returned"
  BY GotoEffect DEF Final, Continue
<1>2. CASE ret[c] = "OK"
  <2> DEFINE had == live[c] \cup freed[c]
             blocks == PathBlocks \cup ((TextBlocks(c, Used(c)) \cup {FragArray}) \cap had)
                         \cup (KeyBlocks(key[c]) \cap live[c])
             frags == {Fragment(t) : t \in Thread}
  <2>1. /\ err[c] = {} /\ opened[c] = {}
        /\ freed[c] \cap (PathBlocks \cup {FragArray, KeyBlock}) = {}
    BY <1>0, <1>2 DEF SafeAt, Calm, FilesOK
  <2>2. Kfree(c, blocks, {})
    BY <2>1 DEF Final, KeyAssigned
  <2>3. \A b \in blocks : b \in PathBlocks \cup {FragArray, KeyBlock} \/ b \in frags
    <3>1. \A b \in TextBlocks(c, Used(c)) : b \in frags
      BY Arguments DEF TextBlocks
    <3>2. KeyBlocks(key[c]) \subseteq {KeyBlock}
      BY DEF KeyBlocks
    <3> QED BY <3>1, <3>2
  <2> HIDE DEF blocks, frags
  <2>4. blocks \cap freed[c] \subseteq frags
    BY <2>1, <2>3
  <2>5. err'[c] \subseteq {"double"} \X frags
    BY <2>1, <2>2, <2>4 DEF Kfree, TypeOK
  <2> QED BY <1>0, <1>1, <1>2, <2>1, <2>5 DEF SafeAt, StatusOK, Calm, Joined, FilesOK, frags
<1>3. CASE ret[c] # "OK"
  BY <1>0, <1>1, <1>3 DEF SafeAt, StatusOK, Calm, Joined, FilesOK
<1> QED BY <1>2, <1>3

LEMMA ThreadSafe ==
  ASSUME TypeOK, Shape, Safe, NEW c \in Call, NEW t \in Thread, ThreadStep(c, t)
  PROVE  SafeAt(c)'
<1>0. SafeAt(c) /\ UNCHANGED <<pc, i, ret, opened, freed>> /\ th[c][t] = "run"
  BY DEF Safe, ThreadStep, XorByte, Complete, UseFreed, Touch
<1>1. \A u \in Thread : th'[c][u] = "run" => th[c][u] = "run"
  BY DEF ThreadStep, XorByte, Complete, UseFreed, TypeOK
<1>2. ret[c] = "OK" => err'[c] = err[c]
  <2>1. CASE XorByte(c, t) \/ Complete(c, t)
    BY <2>1 DEF XorByte, Complete
  <2>2. CASE UseFreed(c, t) /\ ret[c] = "OK"
    <3>1. freed[c] = {}
      BY <1>0, <2>2 DEF SafeAt, Calm, Joined, Waited
    <3>2. Stale(c, InUse(c, t)) = {}
      BY <3>1 DEF Stale
    <3> QED BY <2>2, <3>2 DEF UseFreed
  <2> QED BY <2>1, <2>2 DEF ThreadStep
<1> QED BY <1>0, <1>1, <1>2 DEF SafeAt, StatusOK, Calm, Joined, FilesOK

LEMMA SafeStep == TypeOK /\ Shape /\ Safe /\ [Next]_vars => Safe'
<1> SUFFICES ASSUME TypeOK, Shape, Safe, [Next]_vars PROVE Safe'
  OBVIOUS
<1>1. ASSUME NEW c \in Call, MainStep(c) \/ \E t \in Thread : ThreadStep(c, t)
      PROVE  Safe'
  <2>1. SafeAt(c)'
    BY <1>1, StartSafe, ReadSafe, WaitSafe, CleanupSafe, FinalSafe, ThreadSafe DEF MainStep
  <2>2. \A d \in Call \ {c} : SafeAt(d)'
    BY <1>1, OthersSafe
  <2> QED BY <2>1, <2>2 DEF Safe
<1>2. CASE UNCHANGED vars
  BY <1>2 DEF vars, Safe, SafeAt, StatusOK, Calm, Joined, FilesOK
<1> QED BY <1>1, <1>2 DEF Next

\* For any number of calls, threads and bytes: until a call fails, no step of
\* it or of its threads touches memory it has freed, and the one thing it
\* frees twice is a fragment (crypt.c:187, 210-231).
THEOREM CallsSafe == Spec => []SafeUntilFailure
<1>1. Init => TypeOK /\ Shape /\ Safe
  BY InitShape, InitSafe
<1>2. TypeOK /\ Shape /\ Safe /\ [Next]_vars => (TypeOK /\ Shape /\ Safe)'
  BY ShapeStep, SafeStep
<1>3. Safe => SafeUntilFailure
  BY DEF Safe, SafeAt, Calm, SafeUntilFailure
<1> QED BY <1>1, <1>2, <1>3, PTL DEF Spec

-----------------------------------------------------------------------------
(* What a call owns: everything it has allocated is found again by cleanup   *)
(* and final.                                                                *)

Own(c) ==
  PathBlocks \cup TextBlocks(c, Used(c)) \cup {FragArray} \cup KeyBlocks(key[c])

ThreadBlocks(c) ==
  {ThreadArray, ArgArray} \cup {Arg(t) : t \in Used(c)} \cup {Completion(t) : t \in Used(c)}

LiveOK(c) ==
  /\ pc[c] \in {"paths", "open_input"} => live[c] \subseteq PathBlocks
  /\ pc[c] \in {"split", "alloc_fragments", "read", "open_key", "read_key",
                "alloc_threads", "final"} => live[c] \subseteq Own(c)
  /\ pc[c] \in {"spawn", "wait", "open_output", "write", "cleanup"} =>
       /\ live[c] \subseteq Own(c) \cup ThreadBlocks(c)
       /\ \A t \in Used(c) : Completion(t) \in live[c] => Arg(t) \in live[c]
  /\ pc[c] \in {"paths", "open_input", "split", "alloc_fragments", "read", "open_key"} =>
       key[c] = <<>>
  /\ pc[c] = "returned" => live[c] = {}

Owned == \A c \in Call : LiveOK(c)

LEMMA InitOwned == Init => Owned
BY DEF Init, Owned, LiveOK

\* Blocks of different kinds are different blocks.
LEMMA BlocksApart ==
  ASSUME TypeOK, NEW c \in Call, NEW t \in Thread
  PROVE  /\ Completion(t) \notin Own(c) /\ Arg(t) \notin Own(c)
         /\ \A u \in Thread : Arg(u) # Completion(t)
         /\ \A u \in Thread : Arg(u) = Arg(t) => u = t
         /\ \A u \in Thread : Completion(u) = Completion(t) => u = t
         /\ Completion(t) \notin {ThreadArray, ArgArray}
<1> DEFINE names == {"path_input_", "path_output_", "path_key_", "fragments_text", "key",
                     "fragment_text"}
<1>1. \A b \in Own(c) : b[1] \in names
  <2>1. \A b \in TextBlocks(c, Used(c)) : b[1] \in names
    BY DEF TextBlocks, Fragment
  <2>2. \A b \in KeyBlocks(key[c]) : b[1] \in names
    BY DEF KeyBlocks, KeyBlock
  <2>3. \A b \in PathBlocks \cup {FragArray} : b[1] \in names
    BY DEF PathBlocks, FragArray
  <2> HIDE DEF names
  <2> QED BY <2>1, <2>2, <2>3 DEF Own
<1>2. Completion(t)[1] = "thread_completed" /\ Arg(t)[1] = "args_thread"
  BY DEF Completion, Arg
<1>3. Completion(t) \notin Own(c) /\ Arg(t) \notin Own(c)
  BY <1>1, <1>2
<1>4. /\ \A u \in Thread : Arg(u) # Completion(t)
      /\ \A u \in Thread : Arg(u) = Arg(t) => u = t
      /\ \A u \in Thread : Completion(u) = Completion(t) => u = t
      /\ Completion(t) \notin {ThreadArray, ArgArray}
  BY DEF Completion, Arg, ThreadArray, ArgArray
<1> QED BY <1>3, <1>4

\* A call keeps owning what it owned when its sizes and its key stay.
LEMMA SameOwn ==
  ASSUME TypeOK, NEW c \in Call, req' = req, size'[c] = size[c],
         KeyBlocks(key'[c]) = KeyBlocks(key[c])
  PROVE  /\ Own(c)' = Own(c) /\ Used(c)' = Used(c)
         /\ \A T : TextBlocks(c, T)' = TextBlocks(c, T)
         /\ ThreadBlocks(c)' = ThreadBlocks(c)
<1>1. Used(c)' = Used(c)
  BY DEF Used
<1>2. \A T : TextBlocks(c, T)' = TextBlocks(c, T)
  BY DEF TextBlocks, FragLen
<1> QED BY <1>1, <1>2 DEF Own, ThreadBlocks

LEMMA OthersOwned ==
  ASSUME TypeOK, Shape, Owned, NEW c \in Call, NEW d \in Call \ {c},
         MainStep(c) \/ \E t \in Thread : ThreadStep(c, t)
  PROVE  LiveOK(d)'
<1>1. /\ req' = req /\ pc'[d] = pc[d] /\ size'[d] = size[d] /\ key'[d] = key[d]
      /\ live'[d] = live[d]
  BY OthersUnchanged, OthersCalm
<1>2. Own(d)' = Own(d) /\ Used(d)' = Used(d) /\ ThreadBlocks(d)' = ThreadBlocks(d)
  BY <1>1, SameOwn
<1> QED BY <1>1, <1>2 DEF Owned, LiveOK

LEMMA StartOwned ==
  ASSUME TypeOK, Shape, Owned, NEW c \in Call,
         CopyPath(c) \/ OpenInput(c) \/ SplitInput(c) \/ AllocFragments(c) \/ ReadFragment(c)
  PROVE  LiveOK(c)'
<1> USE DEF LiveOK
<1>0. LiveOK(c) /\ req' = req /\ UNCHANGED key
  BY DEF Owned, CopyPath, OpenInput, SplitInput, AllocFragments, ReadFragment
<1>1. CASE CopyPath(c)
  <2>1. pc[c] = "paths" /\ i[c] \in 0 .. 2
    BY <1>1 DEF CopyPath, Shape, LoopOK
  <2>2. pc'[c] \in {"paths", "open_input", "bailed", "oops"}
    BY <1>1, <2>1, GotoEffect, FailEffect DEF CopyPath, Continue, Bail, Oops
  <2>3. PathBlock[i[c] + 1] \in PathBlocks
    BY <2>1 DEF PathBlock, PathBlocks
  <2>4. live'[c] \subseteq live[c] \cup {PathBlock[i[c] + 1]}
    <3>1. Alloc(c, {PathBlock[i[c] + 1]}) \/ UNCHANGED memVars
      BY <1>1 DEF CopyPath
    <3> QED BY <3>1 DEF Alloc, TypeOK
  <2> QED BY <1>0, <2>1, <2>2, <2>3, <2>4
<1>2. CASE OpenInput(c)
  <2>1. pc[c] = "open_input" /\ UNCHANGED live
    BY <1>2 DEF OpenInput
  <2>2. pc'[c] \in {"split", "bailed"}
    BY <1>2, GotoEffect, FailEffect DEF OpenInput, Continue, Bail
  <2> QED BY <1>0, <2>1, <2>2 DEF Own
<1>3. CASE SplitInput(c) \/ AllocFragments(c) \/ ReadFragment(c)
  <2>1. pc[c] \in {"split", "alloc_fragments", "read"} /\ UNCHANGED size
    BY <1>3 DEF SplitInput, AllocFragments, ReadFragment
  <2>2. pc'[c] \in {"oops", "final", "alloc_fragments", "read", "open_key"}
    <3>1. CASE SplitInput(c)
      BY <3>1, GotoEffect, FailEffect DEF SplitInput, Continue, Oops
    <3>2. CASE AllocFragments(c)
      BY <3>2, GotoEffect, FailEffect DEF AllocFragments, Continue
    <3>3. CASE ReadFragment(c)
      <4>1. i[c] \in Used(c) /\ Turn(c, "open_key") /\ pc[c] = "read"
        BY <3>3 DEF ReadFragment, Shape, LoopOK
      <4> QED BY <4>1, TurnEffect
    <3> QED BY <1>3, <3>1, <3>2, <3>3
  <2>3. Own(c)' = Own(c)
    BY <1>0, <2>1, SameOwn
  <2>4. live'[c] \subseteq live[c] \cup TextBlocks(c, Used(c)) \cup {FragArray}
    <3>1. CASE Alloc(c, {FragArray}) \/ UNCHANGED memVars
      BY <3>1 DEF Alloc, TypeOK
    <3>2. CASE AllocFragments(c)
      <4>1. PICK T : Alloc(c, TextBlocks(c, T)) /\ T \subseteq Used(c)
        BY <3>2, Arguments DEF AllocFragments, Used, Thread
      <4> QED BY <4>1 DEF Alloc, TypeOK, TextBlocks
    <3> QED BY <1>3, <3>1, <3>2 DEF SplitInput, ReadFragment
  <2>5. live'[c] \subseteq Own(c)'
    BY <1>0, <2>1, <2>3, <2>4 DEF Own
  <2> QED BY <1>0, <2>1, <2>2, <2>5
<1> QED BY <1>1, <1>2, <1>3

LEMMA KeyOwned ==
  ASSUME TypeOK, Shape, Owned, NEW c \in Call, OpenKey(c) \/ ReadKey(c) \/ AllocThreads(c)
  PROVE  LiveOK(c)'
<1> USE DEF LiveOK
<1>0. LiveOK(c) /\ req' = req /\ UNCHANGED size
  BY DEF Owned, OpenKey, ReadKey, AllocThreads
<1>1. CASE OpenKey(c)
  <2>1. pc[c] = "open_key" /\ KeyBlocks(key[c]) = {}
    BY <1>0, <1>1 DEF OpenKey, KeyBlocks
  <2>2. pc'[c] \in {"bailed", "final", "read_key"}
    BY <1>1, GotoEffect, FailEffect DEF OpenKey, Bail, Continue
  <2>3. live'[c] \subseteq live[c] \cup KeyBlocks(key'[c])
    <3> DEFINE buf == Zeros(Len(fs[req[c].key]))
    <3>1. CASE key' = [key EXCEPT ![c] = buf] /\ Alloc(c, KeyBlocks(buf))
      <4> HIDE DEF buf
      <4> QED BY <3>1 DEF Alloc, TypeOK
    <3>2. CASE UNCHANGED <<key, memVars>>
      BY <3>2
    <3> QED BY <1>1, <3>1, <3>2 DEF OpenKey
  <2>4. Own(c)' = (Own(c) \ KeyBlocks(key[c])) \cup KeyBlocks(key'[c])
    <3>1. Used(c)' = Used(c) /\ TextBlocks(c, Used(c))' = TextBlocks(c, Used(c))
      BY <1>0 DEF TextBlocks, Used, FragLen
    <3> QED BY <2>1, <3>1 DEF Own
  <2>5. live'[c] \subseteq Own(c)'
    BY <1>0, <2>1, <2>3, <2>4
  <2> QED BY <2>2, <2>5
<1>2. CASE ReadKey(c)
  <2>1. pc[c] = "read_key" /\ UNCHANGED live
    BY <1>2 DEF ReadKey
  <2>2. pc'[c] = "alloc_threads"
    BY <1>2, GotoEffect DEF ReadKey, Continue
  <2>3. KeyBlocks(key'[c]) = KeyBlocks(key[c])
    <3>1. PICK m : key' = [key EXCEPT ![c] = Filled(fs[req[c].key], pos[c], m, Len(key[c]))]
      BY <1>2 DEF ReadKey
    <3>2. key'[c] = Filled(fs[req[c].key], pos[c], m, Len(key[c]))
      BY <3>1 DEF TypeOK
    <3>3. key[c] \in Seq(Byte) /\ key'[c] \in Seq(Byte)
      BY <1>2, BufferType, ReadKeyType DEF TypeOK
    <3>4. DOMAIN key'[c] = DOMAIN key[c]
      BY <3>2, <3>3 DEF Filled
    <3>5. key'[c] = <<>> <=> key[c] = <<>>
      BY <3>3, <3>4
    <3> QED BY <3>5 DEF KeyBlocks
  <2>4. Own(c)' = Own(c)
    BY <1>0, <2>3, SameOwn
  <2> QED BY <1>0, <2>1, <2>2, <2>4
<1>3. CASE AllocThreads(c)
  <2>1. pc[c] = "alloc_threads" /\ UNCHANGED key
    BY <1>3 DEF AllocThreads
  <2>2. CASE pc'[c] = "bailed"
    BY <2>2
  <2>3. CASE pc'[c] = "spawn" /\ Alloc(c, {ThreadArray, ArgArray})
    <3>1. live'[c] = live[c] \cup {ThreadArray, ArgArray}
      BY <2>3 DEF Alloc, TypeOK
    <3>2. Own(c)' = Own(c) /\ ThreadBlocks(c)' = ThreadBlocks(c) /\ Used(c)' = Used(c)
      BY <1>0, <2>1, SameOwn
    <3>3. \A t \in Used(c) : Completion(t) \notin live'[c]
      BY <1>0, <2>1, <3>1, BlocksApart, Arguments
    <3> QED BY <1>0, <2>1, <2>3, <3>1, <3>2, <3>3 DEF ThreadBlocks
  <2> QED BY <1>3, <2>2, <2>3, GotoEffect, FailEffect DEF AllocThreads, Bail, Continue
<1> QED BY <1>1, <1>2, <1>3

LEMMA ThreadsOwned ==
  ASSUME TypeOK, Shape, Owned, NEW c \in Call,
         SpawnThread(c) \/ WaitThread(c) \/ OpenOutput(c) \/ WriteFragment(c)
  PROVE  LiveOK(c)'
<1> USE DEF LiveOK
<1>0. LiveOK(c) /\ req' = req /\ UNCHANGED <<size, key>>
  BY DEF Owned, SpawnThread, WaitThread, OpenOutput, WriteFragment
<1>1. Own(c)' = Own(c) /\ ThreadBlocks(c)' = ThreadBlocks(c) /\ Used(c)' = Used(c)
  BY <1>0, SameOwn
<1>2. CASE SpawnThread(c)
  <2>1. pc[c] = "spawn" /\ i[c] \in Used(c)
    BY <1>2 DEF SpawnThread, Shape, LoopOK
  <2>2. pc'[c] \in {"spawn", "wait", "cleanup"}
    <3>1. Turn(c, "wait") \/ pc'[c] = "cleanup"
      BY <1>2, FailEffect DEF SpawnThread
    <3> QED BY <2>1, <3>1, TurnEffect
  <2>3. live'[c] = live[c] \/ live'[c] = live[c] \cup {Arg(i[c]), Completion(i[c])}
    <3>1. Alloc(c, {Arg(i[c]), Completion(i[c])}) \/ UNCHANGED live
      BY <1>2 DEF SpawnThread
    <3> QED BY <3>1 DEF Alloc, TypeOK
  <2>4. live'[c] \subseteq Own(c) \cup ThreadBlocks(c)
    BY <1>0, <2>1, <2>3 DEF ThreadBlocks
  <2>5. ASSUME NEW t \in Used(c), Completion(t) \in live'[c]
        PROVE  Arg(t) \in live'[c]
    <3>1. CASE Completion(t) \in live[c]
      BY <1>0, <2>1, <2>3, <3>1
    <3>2. CASE Completion(t) \notin live[c]
      <4>1. live'[c] = live[c] \cup {Arg(i[c]), Completion(i[c])}
        BY <2>3, <2>5, <3>2
      <4>2. t = i[c]
        BY <2>1, <2>5, <3>2, <4>1, BlocksApart, Arguments
      <4> QED BY <4>1, <4>2
    <3> QED BY <3>1, <3>2
  <2> QED BY <1>1, <2>2, <2>4, <2>5
<1>3. CASE WaitThread(c) \/ OpenOutput(c) \/ WriteFragment(c)
  <2>1. pc[c] \in {"wait", "open_output", "write"} /\ UNCHANGED live
    BY <1>3 DEF WaitThread, OpenOutput, WriteFragment, Touch
  <2>2. pc'[c] \in {"wait", "open_output", "write", "cleanup", "bailed"}
    <3>1. CASE OpenOutput(c)
      BY <3>1, GotoEffect, FailEffect DEF OpenOutput, Continue, Bail
    <3>2. CASE WaitThread(c) \/ WriteFragment(c)
      <4>1. i[c] \in Used(c) /\ (Turn(c, "open_output") \/ Turn(c, "cleanup"))
        BY <3>2 DEF WaitThread, WriteFragment, Shape, LoopOK
      <4> QED BY <2>1, <4>1, TurnEffect
    <3> QED BY <1>3, <3>1, <3>2
  <2> QED BY <1>0, <1>1, <2>1, <2>2
<1> QED BY <1>2, <1>3

LEMMA EndOwned ==
  ASSUME TypeOK, Shape, Owned, NEW c \in Call, Cleanup(c) \/ Final(c)
  PROVE  LiveOK(c)'
<1> USE DEF LiveOK
<1>0. LiveOK(c) /\ req' = req /\ UNCHANGED <<size, key>>
  BY DEF Owned, Cleanup, Final
<1>1. CASE Cleanup(c)
  <2> DEFINE set == {t \in Used(c) : Arg(t) \in live[c] \cup freed[c]}
             ok == {t \in set : Arg(t) \in live[c]}
             blocks == {Arg(t) : t \in set} \cup {Completion(t) : t \in ok}
                         \cup TextBlocks(c, ok) \cup {ThreadArray, ArgArray}
  <2>1. pc[c] = "cleanup" /\ pc'[c] = "final"
    BY <1>1, GotoEffect DEF Cleanup, Continue
  <2>2. Kfree(c, blocks, Stale(c, {Arg(t) : t \in set}))
    BY <1>1 DEF Cleanup
  <2>3. live[c] \cap ThreadBlocks(c) \subseteq blocks
    <3>1. ASSUME NEW t \in Used(c), Arg(t) \in live[c] PROVE Arg(t) \in blocks
      BY <3>1
    <3>2. ASSUME NEW t \in Used(c), Completion(t) \in live[c] PROVE Completion(t) \in blocks
      <4>1. Arg(t) \in live[c]
        BY <1>0, <2>1, <3>2
      <4> QED BY <4>1
    <3> HIDE DEF blocks
    <3>3. {ThreadArray, ArgArray} \subseteq blocks
      BY DEF blocks
    <3> QED BY <3>1, <3>2, <3>3 DEF ThreadBlocks
  <2> HIDE DEF blocks
  <2>4. live'[c] = live[c] \ blocks
    BY <2>2 DEF Kfree, TypeOK
  <2>5. live'[c] \subseteq Own(c)
    BY <1>0, <2>1, <2>3, <2>4
  <2> QED BY <1>0, <2>1, <2>5, SameOwn
<1>2. CASE Final(c)
  <2> DEFINE had == live[c] \cup freed[c]
             blocks == PathBlocks \cup ((TextBlocks(c, Used(c)) \cup {FragArray}) \cap had)
                         \cup (KeyBlocks(key[c]) \cap live[c])
  <2>1. pc[c] = "final" /\ pc'[c] = "returned"
    BY <1>2, GotoEffect DEF Final, Continue
  <2>2. PICK more : Kfree(c, blocks, more)
    BY <1>2 DEF Final
  <2>3. live[c] \subseteq blocks
    BY <1>0, <2>1 DEF Own
  <2> HIDE DEF blocks
  <2>4. live'[c] = {}
    BY <2>2, <2>3 DEF Kfree, TypeOK
  <2> QED BY <2>1, <2>4
<1> QED BY <1>1, <1>2

LEMMA ThreadOwned ==
  ASSUME TypeOK, Owned, NEW c \in Call, NEW t \in Thread, ThreadStep(c, t)
  PROVE  LiveOK(c)'
<1>1. req' = req /\ UNCHANGED <<pc, size, key, live>>
  BY DEF ThreadStep, XorByte, Complete, UseFreed, Touch
<1>2. Own(c)' = Own(c) /\ ThreadBlocks(c)' = ThreadBlocks(c) /\ Used(c)' = Used(c)
  BY <1>1, SameOwn
<1> QED BY <1>1, <1>2 DEF Owned, LiveOK

LEMMA OwnedStep == TypeOK /\ Shape /\ Owned /\ [Next]_vars => Owned'
<1> SUFFICES ASSUME TypeOK, Shape, Owned, [Next]_vars PROVE Owned'
  OBVIOUS
<1>1. ASSUME NEW c \in Call, MainStep(c) \/ \E t \in Thread : ThreadStep(c, t)
      PROVE  Owned'
  <2>1. LiveOK(c)'
    BY <1>1, StartOwned, KeyOwned, ThreadsOwned, EndOwned, ThreadOwned DEF MainStep
  <2>2. \A d \in Call \ {c} : LiveOK(d)'
    BY <1>1, OthersOwned
  <2> QED BY <2>1, <2>2 DEF Owned
<1>2. CASE UNCHANGED vars
  BY <1>2 DEF vars, Owned, LiveOK, Own, ThreadBlocks, Used, TextBlocks, FragLen
<1> QED BY <1>1, <1>2 DEF Next

\* For any number of calls, threads and bytes: a call that gets to the end of
\* the function (crypt.c:235) has freed every block it allocated, whether it
\* failed or not, and on success has closed its files.
THEOREM CallsFreeAll == Spec => []ReturnedFreesAll
<1>1. Init => TypeOK /\ Shape /\ Safe /\ Owned
  BY InitShape, InitSafe, InitOwned
<1>2. TypeOK /\ Shape /\ Safe /\ Owned /\ [Next]_vars => (TypeOK /\ Shape /\ Safe /\ Owned)'
  BY ShapeStep, SafeStep, OwnedStep
<1>3. Safe /\ Owned => ReturnedFreesAll
  BY DEF Safe, SafeAt, FilesOK, Owned, LiveOK, ReturnedFreesAll
<1> QED BY <1>1, <1>2, <1>3, PTL DEF Spec

-----------------------------------------------------------------------------
(* The completions: what the main thread waits for was started and has not   *)
(* died.                                                                     *)

AnswerOK(c) ==
  key[c] # <<>> =>
    /\ pc[c] = "spawn" => \A t \in Thread : t < i[c] => th[c][t] \in {"run", "done"}
    /\ pc[c] = "wait" => \A t \in Used(c) : th[c][t] \in {"run", "done"}

Answered == \A c \in Call : AnswerOK(c)

LEMMA MainAnswered ==
  ASSUME TypeOK, Shape, Answered, NEW c \in Call, MainStep(c)
  PROVE  AnswerOK(c)'
<1> USE DEF AnswerOK
<1>0. AnswerOK(c)
  BY DEF Answered
<1>1. CASE pc'[c] \notin {"spawn", "wait"}
  BY <1>1
<1>2. CASE AllocThreads(c) /\ pc'[c] \in {"spawn", "wait"}
  <2>1. pc'[c] = "spawn" /\ i'[c] = 0
    BY <1>2, GotoEffect, FailEffect DEF AllocThreads, Bail, Continue
  <2>2. \A t \in Thread : ~(t < 0)
    BY DEF Thread
  <2> QED BY <2>1, <2>2
<1>3. CASE SpawnThread(c) /\ pc'[c] \in {"spawn", "wait"}
  <2>1. pc[c] = "spawn" /\ i[c] \in Used(c) /\ i[c] \in Thread /\ Turn(c, "wait")
    BY <1>3, FailEffect, Arguments DEF SpawnThread, Shape, LoopOK
  <2>2. th' = [th EXCEPT ![c][i[c]] = "run"] /\ UNCHANGED <<req, key>>
    BY <1>3, FailEffect DEF SpawnThread
  <2>3. key[c] # <<>> => \A t \in Thread : t < i[c] + 1 => th'[c][t] \in {"run", "done"}
    <3> SUFFICES ASSUME key[c] # <<>>, NEW t \in Thread, t < i[c] + 1
                 PROVE  th'[c][t] \in {"run", "done"}
      OBVIOUS
    <3>1. CASE t = i[c]
      BY <2>1, <2>2, <3>1 DEF TypeOK
    <3>2. CASE t # i[c]
      <4>1. t < i[c]
        BY <2>1, <3>2 DEF Thread
      <4>2. th'[c][t] = th[c][t]
        BY <2>2, <3>2 DEF TypeOK
      <4> QED BY <1>0, <2>1, <4>1, <4>2
    <3> QED BY <3>1, <3>2
  <2>4. CASE pc'[c] = "spawn" /\ i'[c] = i[c] + 1
    BY <2>2, <2>3, <2>4
  <2>5. CASE pc'[c] = "wait" /\ i[c] = req[c].n - 1
    <3>1. \A t \in Used(c) : t \in Thread /\ t < i[c] + 1
      BY <2>5, Arguments DEF Used
    <3>2. Used(c)' = Used(c)
      BY <2>2 DEF Used
    <3> QED BY <2>2, <2>3, <2>5, <3>1, <3>2
  <2> QED BY <2>1, <2>4, <2>5, TurnEffect
<1>4. CASE WaitThread(c)
  <2>1. pc[c] = "wait" /\ UNCHANGED <<req, key, th>> /\ i[c] \in Used(c) /\ Turn(c, "open_output")
    BY <1>4 DEF WaitThread, Shape, LoopOK
  <2>2. pc'[c] \in {"wait", "open_output"} /\ Used(c)' = Used(c)
    BY <2>1, TurnEffect DEF Used
  <2> QED BY <1>0, <2>1, <2>2
<1>5. ~(AllocThreads(c) \/ SpawnThread(c) \/ WaitThread(c)) => pc'[c] \notin {"spawn", "wait"}
  <2>1. CASE CopyPath(c) \/ OpenInput(c) \/ SplitInput(c) \/ AllocFragments(c)
    BY <2>1, GotoEffect, FailEffect
    DEF CopyPath, OpenInput, SplitInput, AllocFragments, Continue, Bail, Oops
  <2>2. CASE OpenKey(c) \/ ReadKey(c) \/ OpenOutput(c) \/ Cleanup(c) \/ Final(c)
    BY <2>2, GotoEffect, FailEffect
    DEF OpenKey, ReadKey, OpenOutput, Cleanup, Final, Continue, Bail
  <2>3. CASE ReadFragment(c) \/ WriteFragment(c)
    <3>1. /\ pc[c] \in {"read", "write"} /\ i[c] \in Used(c)
          /\ Turn(c, "open_key") \/ Turn(c, "cleanup")
      BY <2>3 DEF ReadFragment, WriteFragment, Shape, LoopOK
    <3> QED BY <3>1, TurnEffect
  <2> QED BY <2>1, <2>2, <2>3 DEF MainStep
<1> QED BY <1>1, <1>2, <1>3, <1>4, <1>5

LEMMA ThreadAnswered ==
  ASSUME TypeOK, Shape, Safe, Answered, NEW c \in Call, NEW t \in Thread, ThreadStep(c, t)
  PROVE  AnswerOK(c)'
<1> USE DEF AnswerOK
<1>0. AnswerOK(c) /\ UNCHANGED <<req, pc, i, key>> /\ Used(c)' = Used(c)
  BY DEF Answered, ThreadStep, XorByte, Complete, UseFreed, Used
<1>1. \A u \in Thread \ {t} : th'[c][u] = th[c][u]
  BY DEF ThreadStep, XorByte, Complete, UseFreed, TypeOK
<1>2. pc[c] \in {"spawn", "wait"} /\ key[c] # <<>> => th'[c][t] \in {"run", "done"}
  <2> SUFFICES ASSUME pc[c] \in {"spawn", "wait"}, key[c] # <<>>
               PROVE  th'[c][t] \in {"run", "done"}
    OBVIOUS
  <2>1. CASE XorByte(c, t)
    BY <2>1 DEF XorByte
  <2>2. CASE Complete(c, t)
    BY <2>2 DEF Complete, TypeOK
  <2>3. ~UseFreed(c, t)
    <3>1. freed[c] = {}
      BY DEF Safe, SafeAt, StatusOK, Calm, Failing, Terminal
    <3> QED BY <3>1 DEF UseFreed, Stale
  <2> QED BY <2>1, <2>2, <2>3 DEF ThreadStep
<1> QED BY <1>0, <1>1, <1>2, Arguments

LEMMA AnsweredStep == TypeOK /\ Shape /\ Safe /\ Answered /\ [Next]_vars => Answered'
<1> SUFFICES ASSUME TypeOK, Shape, Safe, Answered, [Next]_vars PROVE Answered'
  OBVIOUS
<1>1. ASSUME NEW c \in Call, MainStep(c) \/ \E t \in Thread : ThreadStep(c, t)
      PROVE  Answered'
  <2>1. AnswerOK(c)'
    BY <1>1, MainAnswered, ThreadAnswered
  <2>2. ASSUME NEW d \in Call \ {c} PROVE AnswerOK(d)'
    <3>1. req' = req /\ pc'[d] = pc[d] /\ i'[d] = i[d] /\ key'[d] = key[d] /\ th'[d] = th[d]
      BY <1>1, OthersUnchanged
    <3> QED BY <3>1 DEF Answered, AnswerOK, Used
  <2> QED BY <2>1, <2>2 DEF Answered
<1>2. CASE UNCHANGED vars
  BY <1>2 DEF vars, Answered, AnswerOK, Used
<1> QED BY <1>1, <1>2 DEF Next

\* For any number of calls, threads and bytes: with a key that is not empty,
\* wait_for_completion (crypt.c:188) is only ever called for a thread that
\* was started and that has completed or still can.
THEOREM WaitsAnswered == Spec => []WaitIsAnswered
<1>1. Init => TypeOK /\ Shape /\ Safe /\ Answered
  BY InitShape, InitSafe DEF Init, Answered, AnswerOK
<1>2. TypeOK /\ Shape /\ Safe /\ Answered /\ [Next]_vars
        => (TypeOK /\ Shape /\ Safe /\ Answered)'
  BY ShapeStep, SafeStep, AnsweredStep
<1>3. TypeOK /\ Answered /\ Shape => WaitIsAnswered
  <2> SUFFICES ASSUME TypeOK, Answered, Shape, NEW c \in Call, pc[c] = "wait", key[c] # <<>>,
                      NEW t \in i[c] .. req[c].n - 1
               PROVE  th[c][t] \in {"run", "done"}
    BY DEF WaitIsAnswered
  <2>1. t \in Used(c)
    BY Arguments DEF Shape, LoopOK, Used
  <2> QED BY <2>1 DEF Answered, AnswerOK
<1> QED BY <1>1, <1>2, <1>3, PTL DEF Spec

=============================================================================
