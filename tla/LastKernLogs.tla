----------------------------- MODULE LastKernLogs -----------------------------
(***************************************************************************)
(* The system call lastkernlogs: it opens the kernel log, seeks to a       *)
(* window before its end, reads the window and returns the last lines in   *)
(* it.  The log daemon appends lines between any two of these steps, and   *)
(* the file may be truncated under the reader.  (A rotation that renames   *)
(* the file does nothing to a reader that has it open, and before the open *)
(* it is one of the initial contents.)                                     *)
(*                                                                         *)
(* A line is a sequence of characters that ends with Newline.  Positions   *)
(* in the buffer are numbered from 1: kernel_buffer[i] is buf[i + 1].      *)
(***************************************************************************)
EXTENDS Integers, Sequences, FiniteSets

CONSTANTS
  Newline,   \* '\n'
  Nul,       \* the byte of fresh memory (kzalloc)
  Char,      \* the characters of the log
  Lines,     \* LOG_LINES
  Window,    \* BUFFER_SIZE
  Logs,      \* the possible contents of the log at the call
  Line,      \* the lines that the daemon appends
  MaxLog     \* bound on the length of the log

ASSUME LogsAssumption ==
  /\ Newline \in Char /\ Nul \notin Char
  /\ Lines \in Nat \ {0} /\ Window \in Nat \ {0} /\ MaxLog \in Nat
  /\ Logs \subseteq Seq(Char) /\ Line \subseteq Seq(Char)

VARIABLES
  log,    \* the contents of the file
  pc,     \* where the call is
  pos,    \* the offset, or the error that the seek returned in its place
  buf,    \* kernel_buffer
  out,    \* what the caller's buffer holds
  ret,    \* the result: the number of characters, or an error below zero
  held,   \* what the call has to give back: its buffer, the open file
  snap,   \* history: the contents of the file at the seek
  cut     \* history: the file was truncated between the seek and the read, or the
          \* read came up short

callVars == <<pc, pos, buf, out, ret, held, snap>>
vars == <<log, callVars, cut>>

EINVAL == -22
EIO == -5
ENOENT == -2
ENOMEM == -12
EFAULT == -14

-----------------------------------------------------------------------------
(* The log daemon.  What it does once the call has closed the file is not   *)
(* seen by the call and left out.                                          *)

Unread == pc \notin {"tail", "done"}

AppendLine(l) ==
  /\ Unread
  /\ Len(log) + Len(l) <= MaxLog
  /\ log' = log \o l
  /\ UNCHANGED <<callVars, cut>>

Truncate ==
  /\ Unread
  /\ log # <<>>
  /\ log' = <<>>
  /\ cut' = (cut \/ pc = "read")
  /\ UNCHANGED callVars

-----------------------------------------------------------------------------
(* The system call *)

Return(r) == pc' = "done" /\ ret' = r

\* kzalloc.
AllocBuffer ==
  /\ pc = "alloc"
  /\ \/ /\ buf' = [k \in 1 .. Window |-> Nul] /\ held' = {"buffer"}
        /\ pc' = "open" /\ UNCHANGED ret
     \/ Return(ENOMEM) /\ UNCHANGED <<buf, held>>
  /\ UNCHANGED <<log, pos, out, snap, cut>>

\* The buffer is not freed when the file cannot be opened.
OpenLogKeeps ==
  /\ pc = "open"
  /\ \/ pc' = "seek" /\ held' = held \cup {"file"} /\ UNCHANGED ret
     \/ Return(ENOENT) /\ UNCHANGED held
  /\ UNCHANGED <<log, pos, buf, out, snap, cut>>

\* filp_open, and kfree when it fails.
OpenLog ==
  /\ pc = "open"
  /\ \/ pc' = "seek" /\ held' = held \cup {"file"} /\ UNCHANGED ret
     \/ Return(ENOENT) /\ held' = {}
  /\ UNCHANGED <<log, pos, buf, out, snap, cut>>

\* The offset is computed and not asked of the file: no error, but it may be
\* before the start.
SeekLogUnsigned ==
  /\ pc = "seek"
  /\ pos' = Len(log) - Window
  /\ snap' = log
  /\ pc' = "read"
  /\ UNCHANGED <<log, buf, out, ret, held, cut>>

\* vfs_llseek(file, -BUFFER_SIZE, SEEK_END): an offset before the start of
\* the file is an error, whose number goes into pos.
SeekLog ==
  /\ pc = "seek"
  /\ pos' = IF Len(log) >= Window THEN Len(log) - Window ELSE EINVAL
  /\ snap' = log
  /\ pc' = "read"
  /\ UNCHANGED <<log, buf, out, ret, held, cut>>

\* A read below the start of the file is refused, and one may fail.
ReadFails == Return(IF pos < 0 THEN EINVAL ELSE EIO) /\ held' = {} /\ UNCHANGED <<buf, cut>>

\* The file ends where it ends now, not where it ended at the seek: the
\* window is moved along.
ReadLogAgain ==
  /\ pc = "read"
  /\ \/ ReadFails
     \/ /\ pos >= 0
        /\ \E n \in 0 .. Window :
             /\ buf' = [k \in 1 .. Window |->
                          IF k <= n /\ Len(log) - Window + k \in 1 .. Len(log)
                          THEN log[Len(log) - Window + k] ELSE Nul]
             /\ cut' = (cut \/ (n < Window /\ pos + n < Len(log)))
        /\ pc' = "tail" /\ held' = held \ {"file"} /\ UNCHANGED ret
  /\ UNCHANGED <<log, pos, out, snap>>

\* kernel_read, of n bytes if the file has as many, and filp_close.  A read
\* that comes up short leaves zeros and is taken for a full one.
ReadLog ==
  /\ pc = "read"
  /\ \/ ReadFails
     \/ /\ pos >= 0
        /\ \E n \in 0 .. Window :
             /\ buf' = [k \in 1 .. Window |->
                          IF k <= n /\ pos + k <= Len(log) THEN log[pos + k] ELSE Nul]
             /\ cut' = (cut \/ (n < Window /\ pos + n < Len(log)))
        /\ pc' = "tail" /\ held' = held \ {"file"} /\ UNCHANGED ret
  /\ UNCHANGED <<log, pos, out, snap>>

\* The newlines of s after position p.
NewlinesAfter(s, p) == Cardinality({k \in p + 1 .. Len(s) : s[k] = Newline})

\* The newline that ends the buffer is not counted.
TailStartUncounted(b) ==
  LET stops == {p \in 1 .. Window : b[p] = Newline /\ NewlinesAfter(b, p) = Lines + 1}
  IN  IF stops = {} THEN 1 ELSE CHOOSE p \in stops : TRUE

\* The loop from the end of the buffer: pos_buffer is where it finds one
\* newline more than LOG_LINES, and 0 when there are not so many.
TailStart(b) ==
  LET stops == {p \in 1 .. Window : b[p] = Newline /\ NewlinesAfter(b, p) = Lines}
  IN  IF stops = {} THEN 1 ELSE CHOOSE p \in stops : TRUE

\* What comes after kernel_buffer[pos_buffer] is copied out, snap kfree.
ReturnTail ==
  /\ pc = "tail"
  /\ held' = {}
  /\ \/ /\ out' = SubSeq(buf, TailStart(buf) + 1, Window)
        /\ Return(Window - TailStart(buf))
     \/ Return(EFAULT) /\ UNCHANGED out
  /\ UNCHANGED <<log, pos, buf, snap, cut>>

Call == AllocBuffer \/ OpenLog \/ SeekLog \/ ReadLog \/ ReturnTail

-----------------------------------------------------------------------------
Init ==
  /\ log \in Logs
  /\ pc = "alloc"
  /\ pos = 0
  /\ buf = <<>>
  /\ out = <<>>
  /\ ret = 0
  /\ held = {}
  /\ snap = <<>>
  /\ cut = FALSE

Next == Call \/ (\E l \in Line : AppendLine(l)) \/ Truncate

Spec == Init /\ [][Next]_vars

-----------------------------------------------------------------------------
(* Properties *)

\* Every variable has its type.
TypeOK ==
  /\ log \in Seq(Char)
  /\ pc \in {"alloc", "open", "seek", "read", "tail", "done"}
  /\ pos \in Nat \cup {EINVAL}
  /\ buf \in Seq(Char \cup {Nul})
  /\ out \in Seq(Char \cup {Nul})
  /\ ret \in Nat \cup {EINVAL, EIO, ENOENT, ENOMEM, EFAULT}
  /\ held \subseteq {"buffer", "file"}
  /\ snap \in Seq(Char)
  /\ cut \in BOOLEAN

Returned == pc = "done" /\ ret >= 0

\* The last n lines of s, when it has as many.
LastOf(s, n) ==
  {SubSeq(s, p + 1, Len(s)) :
     p \in {q \in 0 .. Len(s) : /\ q = 0 \/ s[q] = Newline
                                /\ NewlinesAfter(s, q) = n}}

\* When the last LOG_LINES lines and the newline before them are in the
\* window, they are what the call returns (lastkernlogs.c:36-46), as they
\* were at the seek, whatever is appended afterwards.
ReturnsLastLines ==
  Returned /\ ~cut =>
    \A l \in LastOf(snap, Lines) : Len(l) < Window => out = l

\* The call returns, in order and up to its end, the end of the log as it was
\* at the seek (lastkernlogs.c:28-29): no character of a later line, none
\* skipped, no byte that the log did not have; and the result is their
\* number.  Excepted is a read that came up short, of itself or because the
\* log was truncated: the zeros it leaves are returned as text.
ReturnsEndOfLog ==
  Returned /\ ~cut =>
    /\ ret = Len(out) /\ ret < Window
    /\ out = SubSeq(snap, Len(snap) - ret + 1, Len(snap))

\* However the call returns (lastkernlogs.c:20-53), it has freed its buffer
\* and closed the file.
NothingHeld == pc = "done" => held = {}

\* The call recovers the last messages of the log (docs/manual.md:333): when
\* the log can be read, it returns them.
RecoversMessages ==
  pc = "done" /\ ret \notin {EIO, ENOENT, ENOMEM, EFAULT} /\ ~cut =>
    \A l \in LastOf(snap, Lines) : out = l

=============================================================================
