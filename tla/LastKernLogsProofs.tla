-------------------------- MODULE LastKernLogsProofs --------------------------
(***************************************************************************)
(* Proofs about LastKernLogs, for any log, any window and any number of    *)
(* lines.                                                                  *)
(*                                                                         *)
(* The call is followed along its steps: CallOK says what it holds and     *)
(* what is in its hands at each of them, SeekOK how the file it is about   *)
(* to read relates to the file at the seek, WindowOK what the buffer holds *)
(* after the read.  What the return gives is then a matter of counting     *)
(* newlines: moving a text along does not change how many follow a place,  *)
(* and no two newlines have the same number of them behind.                *)
(***************************************************************************)
EXTENDS LastKernLogs, FiniteSetTheorems, TLAPS

-----------------------------------------------------------------------------
(* The tail of the buffer *)

LEMMA TailStartBound == \A b : TailStart(b) \in 1 .. Window
<1> TAKE b
<1> DEFINE stops == {p \in 1 .. Window : b[p] = Newline /\ NewlinesAfter(b, p) = Lines}
<1>1. stops # {} => (CHOOSE p \in stops : TRUE) \in stops
  OBVIOUS
<1>2. stops \subseteq 1 .. Window /\ 1 \in 1 .. Window
  BY LogsAssumption
<1>3. TailStart(b) = IF stops = {} THEN 1 ELSE CHOOSE p \in stops : TRUE
  BY DEF TailStart
<1> HIDE DEF stops
<1> QED BY <1>1, <1>2, <1>3

LEMMA TailSeq ==
  ASSUME NEW S, NEW b \in Seq(S), NEW w \in Nat, Len(b) = w, NEW r \in 1 .. w
  PROVE  /\ SubSeq(b, r + 1, w) \in Seq(S) /\ Len(SubSeq(b, r + 1, w)) = w - r
         /\ \A j \in 1 .. w - r : SubSeq(b, r + 1, w)[j] = b[r + j]
OBVIOUS

-----------------------------------------------------------------------------
(* The steps of the call *)

CallOK ==
  /\ pc = "alloc" => held = {}
  /\ pc = "open" => held = {"buffer"}
  /\ pc \in {"seek", "read"} => held = {"buffer", "file"}
  /\ pc = "tail" => held = {"buffer"}
  /\ pc = "done" => held = {}
  /\ pc \in {"open", "seek", "read"} => Len(buf) = Window

\* Until it is truncated, the file that is read begins as it was at the seek.
SeekOK ==
  pc = "read" =>
    /\ pos = IF Len(snap) >= Window THEN Len(snap) - Window ELSE EINVAL
    /\ ~cut => /\ Len(snap) <= Len(log)
               /\ \A k \in 1 .. Len(snap) : log[k] = snap[k]

\* The buffer holds the end of the file as it was at the seek.
WindowOK ==
  pc = "tail" \/ Returned =>
    /\ Len(buf) = Window /\ Window <= Len(snap)
    /\ ~cut => \A k \in 1 .. Window : buf[k] = snap[(Len(snap) - Window) + k]

ReturnOK ==
  Returned => out = SubSeq(buf, TailStart(buf) + 1, Window) /\ ret = Window - TailStart(buf)

Steps == TypeOK /\ CallOK /\ SeekOK /\ WindowOK /\ ReturnOK

LEMMA InitSteps == Init => Steps
<1> SUFFICES ASSUME Init PROVE Steps
  OBVIOUS
<1>1. TypeOK
  <2>1. log \in Seq(Char) /\ <<>> \in Seq(Char) /\ <<>> \in Seq(Char \cup {Nul})
    BY LogsAssumption DEF Init
  <2> QED BY <2>1 DEF Init, TypeOK
<1> QED BY <1>1 DEF Init, Steps, CallOK, SeekOK, WindowOK, ReturnOK, Returned

LEMMA AppendSteps ==
  ASSUME Steps, NEW l \in Line, AppendLine(l)
  PROVE  Steps'
<1>1. log \in Seq(Char) /\ l \in Seq(Char) /\ log' = log \o l /\ snap \in Seq(Char)
  BY LogsAssumption DEF Steps, TypeOK, AppendLine
<1>2. /\ log' \in Seq(Char) /\ Len(log') >= Len(log)
      /\ \A k \in 1 .. Len(log) : log'[k] = log[k]
  BY <1>1
<1>3. UNCHANGED <<pc, pos, buf, out, ret, held, snap, cut>>
  BY DEF AppendLine, callVars
<1>4. SeekOK'
  <2>1. Len(snap) \in Nat /\ Len(log) \in Nat /\ Len(log') \in Nat
    BY <1>1, <1>2
  <2> QED BY <1>2, <1>3, <2>1 DEF Steps, SeekOK
<1> QED BY <1>2, <1>3, <1>4 DEF Steps, TypeOK, CallOK, WindowOK, ReturnOK, Returned

LEMMA TruncateSteps ==
  ASSUME Steps, Truncate
  PROVE  Steps'
<1>1. UNCHANGED <<pc, pos, buf, out, ret, held, snap>> /\ log' = <<>> /\ pc \notin {"tail", "done"}
      /\ cut' = (cut \/ pc = "read")
  BY DEF Truncate, callVars, Unread
<1>2. TypeOK'
  BY <1>1 DEF Steps, TypeOK
<1> QED BY <1>1, <1>2 DEF Steps, CallOK, SeekOK, WindowOK, ReturnOK, Returned

LEMMA AllocSteps ==
  ASSUME Steps, AllocBuffer
  PROVE  Steps'
<1> DEFINE fresh == [k \in 1 .. Window |-> Nul]
<1>1. fresh \in Seq(Char \cup {Nul}) /\ Len(fresh) = Window
  BY LogsAssumption
<1> HIDE DEF fresh
<1>2. CASE buf' = fresh /\ held' = {"buffer"} /\ pc' = "open" /\ UNCHANGED ret
  BY <1>1, <1>2 DEF AllocBuffer, Steps, TypeOK, CallOK, SeekOK, WindowOK, ReturnOK, Returned
<1>3. CASE pc' = "done" /\ ret' = ENOMEM /\ UNCHANGED <<buf, held>>
  BY <1>3 DEF AllocBuffer, Steps, TypeOK, CallOK, SeekOK, WindowOK, ReturnOK, Returned, ENOMEM
<1> QED BY <1>2, <1>3 DEF AllocBuffer, Return, fresh

LEMMA OpenSteps ==
  ASSUME Steps, OpenLog
  PROVE  Steps'
<1>1. CASE pc' = "seek" /\ held' = held \cup {"file"} /\ UNCHANGED ret
  BY <1>1 DEF OpenLog, Steps, TypeOK, CallOK, SeekOK, WindowOK, ReturnOK, Returned
<1>2. CASE pc' = "done" /\ ret' = ENOENT /\ held' = {}
  BY <1>2 DEF OpenLog, Steps, TypeOK, CallOK, SeekOK, WindowOK, ReturnOK, Returned, ENOENT
<1> QED BY <1>1, <1>2 DEF OpenLog, Return

LEMMA SeekSteps ==
  ASSUME Steps, SeekLog
  PROVE  Steps'
<1>1. Len(log) \in Nat /\ Window \in Nat
  BY LogsAssumption DEF Steps, TypeOK
<1>2. TypeOK'
  BY <1>1 DEF SeekLog, Steps, TypeOK
<1>3. SeekOK'
  BY <1>1 DEF SeekLog, SeekOK
<1> QED BY <1>2, <1>3 DEF SeekLog, Steps, CallOK, WindowOK, ReturnOK, Returned

LEMMA ReadSteps ==
  ASSUME Steps, ReadLog
  PROVE  Steps'
<1> DEFINE got(n) == [k \in 1 .. Window |->
                        IF k <= n /\ pos + k <= Len(log) THEN log[pos + k] ELSE Nul]
           short(n) == n < Window /\ pos + n < Len(log)
<1>1. /\ pc = "read" /\ UNCHANGED <<log, pos, out, snap>> /\ held = {"buffer", "file"}
      /\ Window \in Nat \ {0} /\ Len(snap) \in Nat /\ Len(log) \in Nat /\ log \in Seq(Char)
  BY LogsAssumption DEF ReadLog, Steps, TypeOK, CallOK
<1>2. CASE ReadFails
  <2>1. /\ pc' = "done" /\ ret' \in {EINVAL, EIO} /\ ret' \notin Nat /\ held' = {}
        /\ UNCHANGED <<buf, cut>>
    BY <1>2 DEF ReadFails, Return, EINVAL, EIO
  <2>2. ~ (ret' >= 0)
    BY <2>1 DEF EINVAL, EIO
  <2> QED BY <1>1, <2>1, <2>2 DEF Steps, TypeOK, CallOK, SeekOK, WindowOK, ReturnOK, Returned
<1>3. ASSUME pos >= 0, NEW n \in 0 .. Window, buf' = got(n), cut' = (cut \/ short(n)),
             pc' = "tail", held' = held \ {"file"}, ret' = ret
      PROVE  Steps'
  <2>1. pos = Len(snap) - Window /\ Window <= Len(snap) /\ pos \in Nat
    BY <1>1, <1>3 DEF Steps, SeekOK, EINVAL
  <2>2. got(n) \in [1 .. Window -> Char \cup {Nul}]
    <3> SUFFICES ASSUME NEW k \in 1 .. Window, pos + k <= Len(log)
                 PROVE  log[pos + k] \in Char
      OBVIOUS
    <3>1. pos + k \in 1 .. Len(log)
      BY <1>1, <2>1
    <3> QED BY <1>1, <3>1
  <2>3. got(n) \in Seq(Char \cup {Nul}) /\ Len(got(n)) = Window
    BY <1>1, <2>2
  <2>4. ASSUME ~cut, ~short(n), NEW k \in 1 .. Window
        PROVE  got(n)[k] = snap[(Len(snap) - Window) + k]
    <3>1. pos + k \in 1 .. Len(snap) /\ pos + k <= Len(log)
      BY <1>1, <2>1, <2>4 DEF Steps, SeekOK
    <3>2. log[pos + k] = snap[pos + k]
      BY <1>1, <2>4, <3>1 DEF Steps, SeekOK
    <3>3. k <= n
      BY <1>1, <1>3, <2>1, <2>4, <3>1
    <3> QED BY <2>1, <3>1, <3>2, <3>3
  <2>5. held' = {"buffer"} /\ cut' \in BOOLEAN
    BY <1>1, <1>3 DEF Steps, TypeOK
  <2> HIDE DEF got, short
  <2>6. TypeOK'
    BY <1>1, <1>3, <2>3, <2>5 DEF Steps, TypeOK
  <2>7. WindowOK'
    BY <1>1, <1>3, <2>1, <2>3, <2>4 DEF WindowOK
  <2> QED BY <1>3, <2>5, <2>6, <2>7 DEF Steps, CallOK, SeekOK, ReturnOK, Returned
<1> HIDE DEF got, short
<1> QED BY <1>2, <1>3 DEF ReadLog, got, short

LEMMA TailSteps ==
  ASSUME Steps, ReturnTail
  PROVE  Steps'
<1> DEFINE r == TailStart(buf)
<1>1. /\ pc = "tail" /\ held' = {} /\ pc' = "done" /\ UNCHANGED <<log, pos, buf, snap, cut>>
      /\ buf \in Seq(Char \cup {Nul}) /\ Len(buf) = Window /\ Window \in Nat
      /\ r \in 1 .. Window
  BY LogsAssumption, TailStartBound DEF ReturnTail, Return, Steps, TypeOK, WindowOK
<1> HIDE DEF r
<1>2. CASE out' = SubSeq(buf, r + 1, Window) /\ ret' = Window - r
  <2>1. out' \in Seq(Char \cup {Nul}) /\ ret' \in Nat
    BY <1>1, <1>2, TailSeq
  <2>2. TypeOK'
    BY <1>1, <2>1 DEF Steps, TypeOK
  <2> QED BY <1>1, <1>2, <2>2 DEF Steps, CallOK, SeekOK, WindowOK, ReturnOK, Returned, r
<1>3. CASE ret' = EFAULT /\ UNCHANGED out
  BY <1>1, <1>3 DEF Steps, TypeOK, CallOK, SeekOK, WindowOK, ReturnOK, Returned, EFAULT
<1> QED BY <1>2, <1>3 DEF ReturnTail, Return, r

LEMMA StepsInductive == Steps /\ [Next]_vars => Steps'
<1> SUFFICES ASSUME Steps, [Next]_vars PROVE Steps'
  OBVIOUS
<1>1. CASE UNCHANGED vars
  BY <1>1 DEF vars, callVars, Steps, TypeOK, CallOK, SeekOK, WindowOK, ReturnOK, Returned
<1> QED BY <1>1, AppendSteps, TruncateSteps, AllocSteps, OpenSteps, SeekSteps, ReadSteps,
        TailSteps
    DEF Next, Call

\* Every variable has its type, however the log changes under the call.
THEOREM LogsTypeCorrect == Spec => []TypeOK
<1>1. Steps => TypeOK
  BY DEF Steps
<1> QED BY <1>1, InitSteps, StepsInductive, PTL DEF Spec

\* However the call returns (lastkernlogs.c:20-53), it has freed its buffer and
\* closed the file, for every log and every window.
THEOREM LogsRelease == Spec => []NothingHeld
<1>1. Steps => NothingHeld
  BY DEF Steps, CallOK, NothingHeld
<1> QED BY <1>1, InitSteps, StepsInductive, PTL DEF Spec


-----------------------------------------------------------------------------
(* What the call returns                                                     *)

\* The two ends of the log, in the buffer and in the file.
LEMMA TailOfLog ==
  ASSUME Steps, Returned, ~cut
  PROVE  /\ ret = Window - TailStart(buf) /\ ret \in Nat /\ ret < Window
         /\ Len(out) = ret /\ out \in Seq(Char \cup {Nul})
         /\ Window <= Len(snap) /\ snap \in Seq(Char) /\ Len(snap) \in Nat
         /\ \A j \in 1 .. ret : out[j] = snap[(Len(snap) - ret) + j]
<1> DEFINE r == TailStart(buf)
<1>1. /\ buf \in Seq(Char \cup {Nul}) /\ Len(buf) = Window /\ Window \in Nat
      /\ r \in 1 .. Window /\ Window <= Len(snap) /\ snap \in Seq(Char) /\ Len(snap) \in Nat
      /\ ret \in Nat /\ ret = Window - r /\ out = SubSeq(buf, r + 1, Window)
      /\ \A k \in 1 .. Window : buf[k] = snap[(Len(snap) - Window) + k]
  BY LogsAssumption, TailStartBound DEF Steps, TypeOK, WindowOK, ReturnOK
<1> HIDE DEF r
<1>2. /\ out \in Seq(Char \cup {Nul}) /\ Len(out) = ret
      /\ \A j \in 1 .. ret : out[j] = buf[r + j]
  <2> DEFINE S == Char \cup {Nul}
  <2>1. buf \in Seq(S) /\ Window \in Nat /\ Len(buf) = Window /\ r \in 1 .. Window
    BY <1>1
  <2> HIDE DEF S
  <2>2. /\ SubSeq(buf, r + 1, Window) \in Seq(S)
        /\ Len(SubSeq(buf, r + 1, Window)) = Window - r
        /\ \A j \in 1 .. Window - r : SubSeq(buf, r + 1, Window)[j] = buf[r + j]
    BY ONLY <2>1, TailSeq, SMTT(30)
  <2>3. out = SubSeq(buf, r + 1, Window) /\ ret = Window - r
    BY <1>1
  <2> QED BY <2>2, <2>3 DEF S
<1>3. ASSUME NEW j \in 1 .. ret PROVE out[j] = snap[(Len(snap) - ret) + j]
  <2> DEFINE N == Len(snap)
  <2>1. r + j \in 1 .. Window /\ (N - Window) + (r + j) = (N - ret) + j
    <3>1. N \in Nat /\ Window \in Nat /\ r \in 1 .. Window /\ ret = Window - r
      BY <1>1
    <3> HIDE DEF N
    <3> QED BY ONLY <3>1, j \in 1 .. ret, SMTT(30)
  <2>2. buf[r + j] = snap[(Len(snap) - Window) + (r + j)]
    BY <1>1, <2>1
  <2>3. out[j] = buf[r + j]
    BY <1>2
  <2> QED BY <2>1, <2>2, <2>3
<1>4. ret < Window
  BY <1>1
<1> QED BY <1>1, <1>2, <1>3, <1>4 DEF r

LEMMA SameTail ==
  ASSUME NEW S, NEW T, NEW s \in Seq(S), NEW u \in Seq(T), NEW m \in Nat, m <= Len(s),
         Len(u) = m, \A j \in 1 .. m : u[j] = s[(Len(s) - m) + j]
  PROVE  u = SubSeq(s, (Len(s) - m) + 1, Len(s))
<1> DEFINE v == SubSeq(s, (Len(s) - m) + 1, Len(s))
<1>1. v \in Seq(S) /\ Len(v) = m /\ \A j \in 1 .. m : v[j] = s[(Len(s) - m) + j]
  OBVIOUS
<1> HIDE DEF v
<1>2. u = [j \in 1 .. m |-> u[j]] /\ v = [j \in 1 .. m |-> v[j]]
  BY <1>1
<1>3. \A j \in 1 .. m : u[j] = v[j]
  BY <1>1
<1>4. u = v
  BY <1>2, <1>3
<1> QED BY <1>4 DEF v

\* What the call returns is the end of the log as it was at the seek, in order
\* and up to its last byte (lastkernlogs.c:28-29), for every log and window:
\* nothing appended since is in it and nothing is skipped.
THEOREM LogsReturnEnd == Spec => []ReturnsEndOfLog
<1>1. ASSUME Steps, Returned, ~cut
      PROVE  /\ ret = Len(out) /\ ret < Window
             /\ out = SubSeq(snap, Len(snap) - ret + 1, Len(snap))
  <2>1. Window \in Nat
    BY LogsAssumption
  <2>2. ret <= Len(snap)
    BY <1>1, <2>1, TailOfLog
  <2> QED BY <1>1, <2>2, TailOfLog, SameTail
<1>2. Steps => ReturnsEndOfLog
  BY <1>1 DEF ReturnsEndOfLog
<1> QED BY <1>2, InitSteps, StepsInductive, PTL DEF Spec

-----------------------------------------------------------------------------
(* Counting newlines *)

NewlinesIn(s, p) == {k \in p + 1 .. Len(s) : s[k] = Newline}

LEMMA NewlinesFinite ==
  ASSUME NEW s, Len(s) \in Nat, NEW p \in Nat
  PROVE  /\ IsFiniteSet(NewlinesIn(s, p)) /\ NewlinesAfter(s, p) \in Nat
         /\ NewlinesAfter(s, p) = Cardinality(NewlinesIn(s, p))
<1>1. IsFiniteSet(p + 1 .. Len(s))
  BY FS_Interval
<1>2. NewlinesIn(s, p) \in SUBSET (p + 1 .. Len(s))
  BY DEF NewlinesIn
<1>3. IsFiniteSet(NewlinesIn(s, p))
  BY <1>1, <1>2, FS_Subset
<1> QED BY <1>3, FS_CardinalityType DEF NewlinesAfter, NewlinesIn

\* Of two newlines, the earlier one has more of them behind it.
LEMMA NewlinesApart ==
  ASSUME NEW s, Len(s) \in Nat, NEW p \in Nat, NEW q \in Nat,
         p < q, q <= Len(s), s[q] = Newline
  PROVE  NewlinesAfter(s, p) # NewlinesAfter(s, q)
<1> DEFINE P == NewlinesIn(s, p)
           Q == NewlinesIn(s, q)
<1>1. q \in P /\ q \notin Q /\ Q \in SUBSET P
  BY DEF NewlinesIn
<1>2. IsFiniteSet(P) /\ NewlinesAfter(s, p) = Cardinality(P)
      /\ NewlinesAfter(s, q) = Cardinality(Q)
  BY NewlinesFinite
<1> HIDE DEF P, Q
<1>3. Cardinality(P) = Cardinality(Q) => P = Q
  BY <1>1, <1>2, FS_Subset
<1> QED BY <1>1, <1>2, <1>3

\* u is what the text s holds after its place d.
EndOf(u, s, d) ==
  /\ Len(s) \in Nat /\ Len(u) \in Nat /\ Len(s) = d + Len(u)
  /\ \A k \in 1 .. Len(u) : u[k] = s[d + k]

\* A text counts alike when it is the end of a longer one.
LEMMA NewlinesMoved ==
  ASSUME NEW s, NEW u, NEW d \in Nat, EndOf(u, s, d), NEW p \in Nat
  PROVE  NewlinesAfter(u, p) = NewlinesAfter(s, d + p)
<1> USE DEF EndOf
<1> DEFINE U == NewlinesIn(u, p)
           S == NewlinesIn(s, d + p)
           f == [k \in U |-> d + k]
<1>1. IsFiniteSet(U) /\ NewlinesAfter(u, p) = Cardinality(U)
      /\ NewlinesAfter(s, d + p) = Cardinality(S)
  <2>1. d + p \in Nat
    OBVIOUS
  <2> QED BY <2>1, NewlinesFinite
<1>2. ASSUME NEW k \in U PROVE d + k \in S /\ k \in Nat
  <2>1. k \in p + 1 .. Len(u) /\ u[k] = Newline
    BY DEF NewlinesIn
  <2>2. d + k \in (d + p) + 1 .. Len(s) /\ s[d + k] = Newline
    BY <2>1
  <2> QED BY <2>1, <2>2 DEF NewlinesIn
<1>3. ASSUME NEW k \in S PROVE k - d \in U /\ d + (k - d) = k
  <2>1. k \in (d + p) + 1 .. Len(s) /\ s[k] = Newline
    BY DEF NewlinesIn
  <2>2. k - d \in p + 1 .. Len(u) /\ d + (k - d) = k
    BY <2>1
  <2>3. u[k - d] = Newline
    BY <2>1, <2>2
  <2> QED BY <2>2, <2>3 DEF NewlinesIn
<1> HIDE DEF U, S
<1>4. f \in [U -> S]
  BY <1>2
<1>5. \A x, y \in U : f[x] = f[y] => x = y
  BY <1>2
<1>6. \A y \in S : \E x \in U : f[x] = y
  BY <1>3
<1>7. f \in Bijection(U, S)
  BY <1>4, <1>5, <1>6 DEF Bijection, Injection, Surjection, IsInjective
<1>8. ExistsBijection(U, S)
  BY <1>7 DEF ExistsBijection
<1>9. Cardinality(U) = Cardinality(S)
  BY <1>1, <1>8, FS_Bijection
<1> QED BY <1>1, <1>9

\* The loop stops at the place that has LOG_LINES newlines behind it.
LEMMA TailStartAt ==
  ASSUME NEW b, Len(b) = Window, NEW r \in 1 .. Window, b[r] = Newline,
         NewlinesAfter(b, r) = Lines
  PROVE  TailStart(b) = r
<1> DEFINE stops == {p \in 1 .. Window : b[p] = Newline /\ NewlinesAfter(b, p) = Lines}
<1>1. Window \in Nat
  BY LogsAssumption
<1>2. ASSUME NEW p \in stops PROVE p = r
  <2>1. p \in Nat /\ r \in Nat /\ p <= Len(b) /\ r <= Len(b) /\ b[p] = Newline
        /\ NewlinesAfter(b, p) = NewlinesAfter(b, r) /\ Len(b) \in Nat
    BY <1>1
  <2>2. ~(p < r) /\ ~(r < p)
    BY <2>1, NewlinesApart
  <2> QED BY <2>1, <2>2
<1>3. r \in stops
  OBVIOUS
<1>4. stops # {} /\ (CHOOSE p \in stops : TRUE) \in stops
  BY <1>3
<1>5. TailStart(b) = IF stops = {} THEN 1 ELSE CHOOSE p \in stops : TRUE
  BY DEF TailStart
<1> HIDE DEF stops
<1> QED BY <1>2, <1>4, <1>5

\* When the last LOG_LINES lines and the newline before them are in the window,
\* they are what the call returns (lastkernlogs.c:36-46), as they were at the
\* seek, for every log, window and number of lines.
THEOREM LogsReturnLines == Spec => []ReturnsLastLines
<1>1. ASSUME Steps, Returned, ~cut, NEW l \in LastOf(snap, Lines), Len(l) < Window
      PROVE  out = l
  <2> DEFINE N == Len(snap)
             d == N - Window
  <2>1. /\ ret = Window - TailStart(buf) /\ Window <= N /\ snap \in Seq(Char) /\ N \in Nat
        /\ out = SubSeq(snap, (N - ret) + 1, N) /\ Window \in Nat /\ Len(buf) = Window
        /\ \A k \in 1 .. Window : buf[k] = snap[d + k]
    <3>1. ret \in Nat /\ ret < Window /\ Window \in Nat
      BY <1>1, TailOfLog, LogsAssumption
    <3>2. /\ ret = Window - TailStart(buf) /\ Len(out) = ret /\ out \in Seq(Char \cup {Nul})
          /\ Window <= N /\ snap \in Seq(Char) /\ N \in Nat
          /\ \A j \in 1 .. ret : out[j] = snap[(N - ret) + j]
      BY <1>1, TailOfLog
    <3>3. ret <= N
      BY <3>1, <3>2
    <3>4. out = SubSeq(snap, (N - ret) + 1, N)
      BY <3>1, <3>2, <3>3, SameTail
    <3>5. Len(buf) = Window /\ \A k \in 1 .. Window : buf[k] = snap[d + k]
      BY <1>1 DEF Steps, WindowOK
    <3> QED BY <3>1, <3>2, <3>4, <3>5
  <2>2. PICK p \in 0 .. N :
          /\ l = SubSeq(snap, p + 1, N)
          /\ p = 0 \/ snap[p] = Newline
          /\ NewlinesAfter(snap, p) = Lines
    BY <1>1 DEF LastOf
  <2>3. N - p < Window /\ N \in Nat /\ Window \in Nat /\ Window <= N /\ p \in 0 .. N
    <3>1. Len(l) = N - p
      <4>1. snap \in Seq(Char) /\ p \in 0 .. N /\ l = SubSeq(snap, p + 1, N) /\ N = Len(snap)
        BY <2>1, <2>2
      <4> QED BY ONLY <4>1, SMTT(30)
    <3> QED BY <1>1, <2>1, <3>1
  <2> HIDE DEF N
  <2> DEFINE r == p - d
  <2>4. d \in Nat /\ r \in 1 .. Window /\ d + r = p /\ N = d + Window /\ p # 0 /\ r \in Nat
    BY <2>3
  <2> HIDE DEF r, d, N
  <2>5. buf[r] = Newline
    BY <2>1, <2>2, <2>4
  <2>6. NewlinesAfter(buf, r) = Lines
    <3>1. /\ Len(snap) \in Nat /\ Len(buf) \in Nat /\ Len(snap) = d + Len(buf)
          /\ \A k \in 1 .. Len(buf) : buf[k] = snap[d + k]
      BY <2>1, <2>4 DEF N
    <3>2. EndOf(buf, snap, d)
      BY <3>1 DEF EndOf
    <3>3. NewlinesAfter(buf, r) = NewlinesAfter(snap, d + r)
      BY <2>4, <3>2, NewlinesMoved
    <3> QED BY <2>2, <2>4, <3>3
  <2>7. TailStart(buf) = r
    BY <2>1, <2>4, <2>5, <2>6, TailStartAt
  <2>8. N - ret = p
    <3>1. ret = Window - r
      BY <2>1, <2>7
    <3> QED BY <2>3, <2>4, <3>1
  <2> QED BY <2>1, <2>2, <2>8 DEF N
<1>2. Steps => ReturnsLastLines
  BY <1>1 DEF ReturnsLastLines
<1> QED BY <1>2, InitSteps, StepsInductive, PTL DEF Spec

==============================================================================
