------------------------------ MODULE CryptData ------------------------------
(* What a call does with the bytes: what it has read, what its threads have  *)
(* made of it and what it has written, for any number of calls, threads and  *)
(* bytes.                                                                    *)
EXTENDS CryptMemory, CryptRefinement

USE DEF Request, bufVars, memVars, thrVars, ctlVars

-----------------------------------------------------------------------------
(* The fragments *)

\* The quotient and the remainder that the code divides a file with.
LEMMA DivMod ==
  ASSUME NEW a \in Nat, NEW n \in Nat \ {0}
  PROVE  a \div n \in Nat /\ a % n \in 0 .. n - 1 /\ a = n * (a \div n) + (a % n)
OBVIOUS

LEMMA DivUnique ==
  ASSUME NEW q \in Nat \ {0}, NEW t \in Nat, NEW r \in 0 .. q - 1
  PROVE  (t * q + r) \div q = t
OBVIOUS

LEMMA DivBelow ==
  ASSUME NEW q \in Nat \ {0}, NEW p \in Nat, NEW m \in Nat, p < m * q
  PROVE  /\ p \div q \in 0 .. m - 1
         /\ p - (p \div q) * q \in 0 .. q - 1
OBVIOUS

\* Where the fragments start: each one where the one before it ends, and the
\* last one ends with the file.
LEMMA FragmentBounds ==
  ASSUME NEW len \in Nat, NEW n \in Nat \ {0}, NEW t \in 0 .. n - 1
  PROVE  /\ FragmentStart(len, n, t) \in Nat
         /\ FragmentSize(len, n, t) \in Nat
         /\ FragmentStart(len, n, t) + FragmentSize(len, n, t) <= len
         /\ t < n - 1 => FragmentStart(len, n, t + 1)
                           = FragmentStart(len, n, t) + FragmentSize(len, n, t)
         /\ t = n - 1 => FragmentStart(len, n, t) + FragmentSize(len, n, t) = len
<1> DEFINE q == len \div n
           r == len % n
<1>1. q \in Nat /\ r \in Nat /\ len = n * q + r
  BY DivMod
<1>2. /\ FragmentStart(len, n, t) = t * q
      /\ FragmentStart(len, n, t + 1) = (t + 1) * q
      /\ FragmentSize(len, n, t) = q + (IF t = n - 1 THEN r ELSE 0)
  BY DEF FragmentStart, FragmentSize
<1> HIDE DEF q, r
<1>3. t * q \in Nat /\ (t + 1) * q = t * q + q
  BY <1>1
<1>4. CASE t = n - 1
  <2>1. n * q = t * q + q
    BY <1>1, <1>4
  <2> QED BY <1>1, <1>2, <1>3, <1>4, <2>1
<1>5. CASE t < n - 1
  <2>1. n * q >= (t + 1) * q
    BY <1>1, <1>5
  <2> QED BY <1>1, <1>2, <1>3, <1>5, <2>1
<1> QED BY <1>4, <1>5

\* Every byte of a fragment belongs to that fragment.
LEMMA FragmentOfByte ==
  ASSUME NEW len \in Nat, NEW n \in Nat \ {0}, NEW t \in 0 .. n - 1,
         NEW j \in 1 .. FragmentSize(len, n, t)
  PROVE  FragmentOf(len, n, (FragmentStart(len, n, t) + j) - 1) = t
<1> DEFINE q == len \div n
           s == FragmentStart(len, n, t)
<1>1. q \in Nat /\ s = t * q /\ s \in Nat
  BY DivMod, FragmentBounds DEF FragmentStart
<1>2. FragmentOf(len, n, (s + j) - 1)
        = IF (s + j) - 1 < (n - 1) * q THEN ((s + j) - 1) \div q ELSE n - 1
  BY DEF FragmentOf
<1>3. t # n - 1 => j <= q
  BY DivMod, <1>1 DEF FragmentSize
<1>4. j \in Nat \ {0}
  BY FragmentBounds
<1> HIDE DEF q, s
<1>5. CASE t = n - 1
  <2>1. ~((s + j) - 1 < (n - 1) * q)
    BY <1>1, <1>4, <1>5
  <2> QED BY <1>2, <1>5, <2>1 DEF s
<1>6. CASE t # n - 1
  <2>1. q \in Nat \ {0} /\ j - 1 \in 0 .. q - 1
    BY <1>1, <1>3, <1>4, <1>6
  <2>2. (t + 1) * q <= (n - 1) * q
    BY <2>1, <1>6
  <2>3. (s + j) - 1 < (n - 1) * q
    BY <1>1, <2>1, <2>2
  <2>4. (t * q + (j - 1)) \div q = t
    BY <2>1, DivUnique
  <2>5. (s + j) - 1 = t * q + (j - 1)
    BY <1>1, <1>4
  <2> QED BY <1>2, <2>3, <2>4, <2>5 DEF s
<1> QED BY <1>5, <1>6

\* Every byte of the file is in a fragment.
LEMMA ByteOfFragment ==
  ASSUME NEW len \in Nat, NEW n \in Nat \ {0}, NEW p \in 1 .. len
  PROVE  LET t == FragmentOf(len, n, p - 1)
         IN  /\ t \in 0 .. n - 1
             /\ p - FragmentStart(len, n, t) \in 1 .. FragmentSize(len, n, t)
<1> DEFINE q == len \div n
           r == len % n
           t == FragmentOf(len, n, p - 1)
<1>1. q \in Nat /\ r \in Nat /\ len = n * q + r
  BY DivMod
<1>2. t = IF p - 1 < (n - 1) * q THEN (p - 1) \div q ELSE n - 1
  BY DEF FragmentOf
<1>3. /\ FragmentStart(len, n, t) = t * q
      /\ FragmentSize(len, n, t) = q + (IF t = n - 1 THEN r ELSE 0)
  BY DEF FragmentStart, FragmentSize
<1> HIDE DEF q, r, t
<1>4. CASE p - 1 < (n - 1) * q
  <2>1. q \in Nat \ {0}
    BY <1>1, <1>4
  <2>2. t \in 0 .. n - 2 /\ (p - 1) - t * q \in 0 .. q - 1
    <3> DEFINE b == p - 1
               m == n - 1
    <3>1. b \in Nat /\ m \in Nat /\ b < m * q /\ t = b \div q
      BY <1>2, <1>4
    <3> HIDE DEF b, m
    <3>2. t \in 0 .. m - 1 /\ b - t * q \in 0 .. q - 1
      BY <2>1, <3>1, DivBelow
    <3> QED BY <3>2 DEF b, m
  <2>3. t * q \in Nat
    BY <1>1, <2>2
  <2> QED BY <1>1, <1>3, <2>2, <2>3 DEF t
<1>5. CASE ~(p - 1 < (n - 1) * q)
  <2>1. t = n - 1
    BY <1>2, <1>5
  <2>2. n * q = (n - 1) * q + q /\ (n - 1) * q \in Nat
    BY <1>1
  <2> QED BY <1>1, <1>3, <1>5, <2>1, <2>2 DEF t
<1> QED BY <1>4, <1>5

\* A sequence is told by its length and its members.
LEMMA SameSequence ==
  ASSUME NEW n \in Nat, NEW s \in Seq(Byte), NEW u \in Seq(Byte),
         Len(s) = n, Len(u) = n, \A p \in 1 .. n : s[p] = u[p]
  PROVE  s = u
<1>1. s = [p \in 1 .. n |-> s[p]] /\ u = [p \in 1 .. n |-> u[p]]
  OBVIOUS
<1> QED BY <1>1

\* The fragments one after the other are as long as the file.
LEMMA JoinSeq ==
  ASSUME NEW len \in Nat, NEW n \in Nat \ {0}, NEW f,
         \A t \in 0 .. n - 1 : f[t] \in Seq(Byte) /\ Len(f[t]) = FragmentSize(len, n, t)
  PROVE  Join(f, len, n) \in Seq(Byte) /\ Len(Join(f, len, n)) = len
<1> DEFINE at(p) == f[FragmentOf(len, n, p - 1)]
                     [p - FragmentStart(len, n, FragmentOf(len, n, p - 1))]
<1>1. ASSUME NEW p \in 1 .. len PROVE at(p) \in Byte
  <2> DEFINE t == FragmentOf(len, n, p - 1)
             j == p - FragmentStart(len, n, t)
  <2>1. t \in 0 .. n - 1 /\ j \in 1 .. FragmentSize(len, n, t)
    BY ByteOfFragment
  <2>2. at(p) = f[t][j]
    OBVIOUS
  <2> HIDE DEF t, j
  <2>3. f[t] \in Seq(Byte) /\ j \in 1 .. Len(f[t])
    BY <2>1
  <2>4. f[t][j] \in Byte
    BY <2>3
  <2> QED BY <2>2, <2>4
<1>2. Join(f, len, n) = [p \in 1 .. len |-> at(p)]
  BY DEF Join
<1> HIDE DEF at
<1>3. Join(f, len, n) \in [1 .. len -> Byte]
  BY <1>1, <1>2
<1> QED BY <1>3, BufferSeq

LEMMA FragmentByte ==
  ASSUME NEW len \in Nat, NEW n \in Nat \ {0}, NEW t \in 0 .. n - 1,
         NEW j \in 1 .. FragmentSize(len, n, t)
  PROVE  /\ FragmentStart(len, n, t) \in Nat
         /\ FragmentStart(len, n, t) + j \in 1 .. len
         /\ (FragmentStart(len, n, t) + j) - FragmentStart(len, n, t) = j
<1> DEFINE a == FragmentStart(len, n, t)
           b == FragmentSize(len, n, t)
<1>1. a \in Nat /\ b \in Nat /\ a + b <= len
  BY FragmentBounds
<1> HIDE DEF a, b
<1>2. a + j \in 1 .. len /\ (a + j) - a = j
  BY <1>1 DEF b
<1> QED BY <1>1, <1>2 DEF a

\* A byte of fragment t is that many bytes after the start of the fragment.
LEMMA JoinAt ==
  ASSUME NEW len \in Nat, NEW n \in Nat \ {0}, NEW f, NEW t \in 0 .. n - 1,
         NEW j \in 1 .. FragmentSize(len, n, t)
  PROVE  /\ FragmentStart(len, n, t) + j \in 1 .. len
         /\ Join(f, len, n)[FragmentStart(len, n, t) + j] = f[t][j]
<1> DEFINE s == FragmentStart(len, n, t)
           p == s + j
<1>1. p \in 1 .. len /\ p - s = j
  BY FragmentByte
<1>2. FragmentOf(len, n, p - 1) = t
  BY FragmentOfByte
<1> HIDE DEF p
<1>3. Join(f, len, n)[p] = f[t][j]
  BY <1>1, <1>2 DEF Join, s
<1> QED BY <1>1, <1>3 DEF p, s

\* The place in the key starts again at every fragment.
LEMMA EncryptAt ==
  ASSUME NEW txt, NEW k, NEW n \in Nat \ {0}, NEW t \in 0 .. n - 1, Len(txt) \in Nat,
         NEW j \in 1 .. FragmentSize(Len(txt), n, t)
  PROVE  Encrypt(txt, k, n)[FragmentStart(Len(txt), n, t) + j]
           = Xor(txt[FragmentStart(Len(txt), n, t) + j], KeyAt(k, j))
<1> DEFINE s == FragmentStart(Len(txt), n, t)
           p == s + j
<1>1. p \in 1 .. Len(txt) /\ p - s = j
  BY FragmentByte
<1>2. FragmentOf(Len(txt), n, p - 1) = t
  BY FragmentOfByte
<1> HIDE DEF p
<1>3. Encrypt(txt, k, n)[p] = Xor(txt[p], KeyAt(k, j))
  BY <1>1, <1>2 DEF Encrypt, s
<1> QED BY <1>3 DEF p, s

\* A fragment of a text: the bytes from where it starts.
LEMMA PieceSeq ==
  ASSUME NEW s \in Seq(Byte), NEW n \in Nat \ {0}, NEW t \in 0 .. n - 1
  PROVE  /\ Piece(s, n, t) \in Seq(Byte)
         /\ Len(Piece(s, n, t)) = FragmentSize(Len(s), n, t)
         /\ \A j \in 1 .. FragmentSize(Len(s), n, t) :
              Piece(s, n, t)[j] = s[FragmentStart(Len(s), n, t) + j]
<1> DEFINE a == FragmentStart(Len(s), n, t)
           b == FragmentSize(Len(s), n, t)
<1>0. Len(s) \in Nat
  OBVIOUS
<1>1. a \in Nat /\ b \in Nat /\ a + b <= Len(s)
  BY <1>0, FragmentBounds
<1>2. Piece(s, n, t) = SubSeq(s, a + 1, a + b)
  <2>1. CASE t = n - 1
    BY <1>0, <2>1, FragmentBounds DEF Piece
  <2>2. CASE t # n - 1
    <3>1. t < n - 1
      BY <2>2
    <3>2. FragmentStart(Len(s), n, t + 1) = a + b
      BY <1>0, <3>1, FragmentBounds
    <3> QED BY <2>2, <3>2 DEF Piece
  <2> QED BY <2>1, <2>2
<1> HIDE DEF a, b
<1>3. /\ SubSeq(s, a + 1, a + b) \in Seq(Byte) /\ Len(SubSeq(s, a + 1, a + b)) = b
      /\ \A j \in 1 .. b : SubSeq(s, a + 1, a + b)[j] = s[a + j]
  <2> DEFINE u == SubSeq(s, a + 1, a + b)
  <2>1. u \in Seq(Byte)
    BY <1>1
  <2>2. Len(u) = b
    BY <1>1
  <2>3. \A j \in 1 .. b : u[j] = s[a + j]
    BY <1>1
  <2> QED BY <2>1, <2>2, <2>3
<1> QED BY <1>2, <1>3 DEF a, b

\* The fragments of a text together are the text: no byte is lost at the end.
LEMMA WholeOfPieces ==
  ASSUME NEW s \in Seq(Byte), NEW n \in Nat \ {0}, NEW f,
         \A t \in 0 .. n - 1 : f[t] = Piece(s, n, t)
  PROVE  Join(f, Len(s), n) = s
<1> DEFINE len == Len(s)
           whole == Join(f, len, n)
<1>0. len \in Nat
  OBVIOUS
<1>1. \A t \in 0 .. n - 1 : f[t] \in Seq(Byte) /\ Len(f[t]) = FragmentSize(len, n, t)
  BY PieceSeq
<1>2. whole \in Seq(Byte) /\ Len(whole) = len
  BY <1>0, <1>1, JoinSeq
<1>3. \A t \in 0 .. n - 1 : \A j \in 1 .. FragmentSize(len, n, t) :
        f[t][j] = s[FragmentStart(len, n, t) + j]
  <2> SUFFICES ASSUME NEW t \in 0 .. n - 1, NEW j \in 1 .. FragmentSize(len, n, t)
               PROVE  f[t][j] = s[FragmentStart(len, n, t) + j]
    OBVIOUS
  <2>1. f[t] = Piece(s, n, t)
    OBVIOUS
  <2>2. Piece(s, n, t)[j] = s[FragmentStart(len, n, t) + j]
    BY PieceSeq
  <2> QED BY <2>1, <2>2
<1> HIDE DEF len
<1>4. \A t \in 0 .. n - 1 : \A j \in 1 .. FragmentSize(len, n, t) :
        whole[FragmentStart(len, n, t) + j] = f[t][j]
  BY <1>0, JoinAt
<1>5. ASSUME NEW p \in 1 .. len PROVE whole[p] = s[p]
  <2>1. PICK t \in 0 .. n - 1 : p - FragmentStart(len, n, t) \in 1 .. FragmentSize(len, n, t)
    BY <1>0, ByteOfFragment
  <2>2. FragmentStart(len, n, t) \in Nat
    BY <1>0, FragmentBounds
  <2> DEFINE a == FragmentStart(len, n, t)
             j == p - a
  <2>3. a + j = p
    BY <1>0, <2>2
  <2>4. whole[a + j] = s[a + j]
    BY <1>3, <1>4, <2>1
  <2> QED BY <2>3, <2>4
<1> HIDE DEF whole
<1>6. whole = s
  BY <1>0, <1>2, <1>5, SameSequence DEF len
<1> QED BY <1>6 DEF whole, len

\* Writing d at p: the bytes of d from p on, the others as they were.
LEMMA OverwriteAt ==
  ASSUME NEW s \in Seq(Byte), NEW p \in Nat, NEW d \in Seq(Byte), p <= Len(s)
  PROVE  /\ \A k \in 1 .. Len(s) : k <= p => Overwrite(s, p, d)[k] = s[k]
         /\ \A j \in 1 .. Len(d) : Overwrite(s, p, d)[p + j] = d[j]
<1> DEFINE end == p + Len(d)
           len == IF end > Len(s) THEN end ELSE Len(s)
<1>1. Len(s) \in Nat /\ Len(d) \in Nat
  OBVIOUS
<1>2. \A k \in 1 .. len : Overwrite(s, p, d)[k] = IF k > p /\ k <= end THEN d[k - p] ELSE s[k]
  BY DEF Overwrite
<1>3. ASSUME NEW k \in 1 .. Len(s), k <= p PROVE Overwrite(s, p, d)[k] = s[k]
  BY <1>1, <1>2, <1>3
<1>4. ASSUME NEW j \in 1 .. Len(d) PROVE Overwrite(s, p, d)[p + j] = d[j]
  <2>1. p + j \in 1 .. len /\ p + j > p /\ p + j <= end /\ (p + j) - p = j
    BY <1>1
  <2> HIDE DEF len, end
  <2> QED BY <1>2, <2>1
<1> QED BY <1>3, <1>4

\* A read that delivers all it was asked for gives that part of the file.
LEMMA FilledPiece ==
  ASSUME NEW s \in Seq(Byte), NEW n \in Nat \ {0}, NEW t \in 0 .. n - 1
  PROVE  Filled(s, FragmentStart(Len(s), n, t), FragmentSize(Len(s), n, t),
                FragmentSize(Len(s), n, t)) = Piece(s, n, t)
<1> DEFINE a == FragmentStart(Len(s), n, t)
           b == FragmentSize(Len(s), n, t)
<1>0. Len(s) \in Nat
  OBVIOUS
<1>1. a \in Nat /\ b \in Nat /\ a + b <= Len(s)
  BY <1>0, FragmentBounds
<1>2. /\ Piece(s, n, t) \in Seq(Byte) /\ Len(Piece(s, n, t)) = b
      /\ \A j \in 1 .. b : Piece(s, n, t)[j] = s[a + j]
  BY PieceSeq
<1> HIDE DEF a, b
<1>3. Filled(s, a, b, b) \in Seq(Byte) /\ Len(Filled(s, a, b, b)) = b
  BY <1>1, FilledSeq
<1>4. \A j \in 1 .. b : Filled(s, a, b, b)[j] = s[a + j]
  BY <1>1 DEF Filled
<1>5. Filled(s, a, b, b) = Piece(s, n, t)
  <2> DEFINE u == Filled(s, a, b, b)
             v == Piece(s, n, t)
  <2>1. u \in Seq(Byte) /\ v \in Seq(Byte) /\ Len(u) = b /\ Len(v) = b
    BY <1>2, <1>3
  <2>2. \A j \in 1 .. b : u[j] = v[j]
    BY <1>2, <1>4
  <2> HIDE DEF u, v
  <2>3. u = v
    BY <1>1, <2>1, <2>2, SameSequence
  <2> QED BY <2>3 DEF u, v
<1> QED BY <1>5 DEF a, b

LEMMA FilledWhole ==
  ASSUME NEW s \in Seq(Byte)
  PROVE  Filled(s, 0, Len(s), Len(s)) = s
<1>1. Len(s) \in Nat
  OBVIOUS
<1>2. Filled(s, 0, Len(s), Len(s)) \in Seq(Byte) /\ Len(Filled(s, 0, Len(s), Len(s))) = Len(s)
  BY <1>1, FilledSeq
<1>3. \A j \in 1 .. Len(s) : Filled(s, 0, Len(s), Len(s))[j] = s[j]
  BY <1>1 DEF Filled
<1> QED BY <1>1, <1>2, <1>3, SameSequence

-----------------------------------------------------------------------------
(* The threads: a fragment is XORed as far as its thread has got, and a      *)
(* thread that is done has got to the end.                                   *)

\* The labels where the call works with the fragments as it has read them.
Reading == {"open_key", "read_key", "alloc_threads", "spawn", "wait", "open_output", "write"}

Worked(c, t) ==
  /\ Len(plain[c][t]) = FragLen(c, t) /\ idx[c][t] <= FragLen(c, t)
  /\ \A j \in 1 .. FragLen(c, t) :
       text[c][t][j] = IF j <= idx[c][t] THEN Xor(plain[c][t][j], KeyAt(key[c], j))
                                         ELSE plain[c][t][j]

WorkOK(c) ==
  \A t \in Used(c) :
    /\ th[c][t] = "none" => idx[c][t] = 0
    /\ th[c][t] = "done" => idx[c][t] >= FragLen(c, t)
    /\ key[c] = <<>> => idx[c][t] = 0
    /\ pc[c] \in Reading => Worked(c, t)

WaitedOK(c) ==
  /\ pc[c] = "wait" => \A t \in Used(c) : t < i[c] => th[c][t] = "done"
  /\ pc[c] \in {"open_output", "write"} => \A t \in Used(c) : th[c][t] = "done"

Work == \A c \in Call : WorkOK(c) /\ WaitedOK(c)

LEMMA InitWork == Init => Work
<1> SUFFICES ASSUME Init, NEW c \in Call PROVE WorkOK(c) /\ WaitedOK(c)
  BY DEF Work
<1>1. Used(c) \subseteq Thread
  BY InitShape, Arguments
<1>2. pc[c] = "paths" /\ \A t \in Thread : th[c][t] = "none" /\ idx[c][t] = 0
  BY DEF Init
<1> QED BY <1>1, <1>2 DEF WorkOK, WaitedOK, Reading

\* A step of a call does nothing to the fragments and the threads of others.
LEMMA OthersWork ==
  ASSUME TypeOK, Shape, NEW c \in Call, NEW d \in Call \ {c},
         MainStep(c) \/ \E t \in Thread : ThreadStep(c, t)
  PROVE  plain'[d] = plain[d] /\ idx'[d] = idx[d]
<1> USE DEF TypeOK
<1>1. CASE ReadFragment(c)
  BY <1>1 DEF ReadFragment
<1>2. CASE \E t \in Thread : XorByte(c, t)
  BY <1>2 DEF XorByte
<1>3. CASE UNCHANGED <<plain, idx>>
  BY <1>3
<1> QED
  BY <1>1, <1>2, <1>3 DEF MainStep, ThreadStep, CopyPath, OpenInput, SplitInput,
     AllocFragments, OpenKey, ReadKey, AllocThreads, SpawnThread, WaitThread, OpenOutput,
     WriteFragment, Cleanup, Final, Complete, UseFreed

\* Before the threads are started none of them has done a byte.
LEMMA NothingDone ==
  ASSUME TypeOK, Shape, Work, NEW c \in Call, pc[c] \in Unstarted, NEW t \in Used(c)
  PROVE  t \in Thread /\ th[c][t] = "none" /\ idx[c][t] = 0
<1>1. t \in Thread
  BY Arguments
<1> QED BY <1>1 DEF Shape, StartedOK, Work, WorkOK

\* A step that leaves the buffers alone and ends no thread.
LEMMA QuietWork ==
  ASSUME NEW c \in Call, WorkOK(c), req' = req, size'[c] = size[c], idx'[c] = idx[c],
         key'[c] = key[c], pc'[c] \in Reading =>
           pc[c] \in Reading /\ plain'[c] = plain[c] /\ text'[c] = text[c],
         \A t \in Used(c) : th'[c][t] = th[c][t] \/ th'[c][t] \notin {"none", "done"}
  PROVE  WorkOK(c)'
<1>1. UNCHANGED Used(c) /\ \A t \in Used(c) : FragLen(c, t)' = FragLen(c, t)
  BY DEF Used, FragLen
<1> QED BY <1>1 DEF WorkOK, Worked

LEMMA StartWork ==
  ASSUME TypeOK, Shape, Work, NEW c \in Call,
         CopyPath(c) \/ OpenInput(c) \/ SplitInput(c) \/ AllocFragments(c)
  PROVE  WorkOK(c)'
<1>1. /\ pc[c] \in {"paths", "open_input", "split", "alloc_fragments"}
      /\ req' = req /\ UNCHANGED <<th, idx>>
  BY DEF CopyPath, OpenInput, SplitInput, AllocFragments
<1>2. pc'[c] \notin Reading
  BY <1>1, GotoEffect, FailEffect
  DEF CopyPath, OpenInput, SplitInput, AllocFragments, Continue, Bail, Oops, Reading
<1>3. \A t \in Used(c) : th[c][t] = "none" /\ idx[c][t] = 0
  BY <1>1, NothingDone DEF Unstarted
<1>4. Used(c)' = Used(c)
  BY <1>1 DEF Used
<1> QED BY <1>1, <1>2, <1>3, <1>4 DEF WorkOK

LEMMA ReadWork ==
  ASSUME TypeOK, Shape, Work, NEW c \in Call, ReadFragment(c)
  PROVE  WorkOK(c)'
<1>1. pc[c] = "read" /\ i[c] \in Used(c) /\ req' = req /\ UNCHANGED <<th, idx, size>>
  BY DEF ReadFragment, Shape, LoopOK
<1>2. \A t \in Used(c) : t \in Thread /\ th[c][t] = "none" /\ idx[c][t] = 0
  BY <1>1, NothingDone DEF Unstarted
<1>3. Used(c)' = Used(c)
  BY <1>1 DEF Used
<1>4. CASE pc'[c] = "open_key"
  <2>1. plain' = [plain EXCEPT ![c] = text'[c]]
    BY <1>1, <1>4, TurnEffect DEF ReadFragment, Used
  <2>2. plain'[c] = text'[c]
    BY <2>1 DEF TypeOK
  <2>3. \A t \in Used(c) : FragLen(c, t)' \in Nat /\ Len(text'[c][t]) = FragLen(c, t)'
    <3>1. ShapeAt(c)' /\ TypeOK'
      BY OwnShapeRead, ReadFragmentType
    <3>2. pc'[c] \in Buffered
      BY <1>4 DEF Buffered, Counted
    <3>3. \A t \in Used(c) : Len(text'[c][t]) = FragLen(c, t)'
      BY <1>3, <3>1, <3>2 DEF ShapeAt, BufferOK
    <3>4. \A t \in Used(c) : text'[c][t] \in Seq(Byte)
      BY <1>2, <3>1 DEF TypeOK
    <3> QED BY <3>3, <3>4
  <2>4. ASSUME NEW t \in Used(c) PROVE Worked(c, t)'
    <3>1. idx'[c][t] = 0 /\ FragLen(c, t)' \in Nat
      BY <1>1, <1>2, <2>3
    <3> QED BY <2>2, <2>3, <3>1 DEF Worked
  <2> QED BY <1>1, <1>2, <1>3, <2>4 DEF WorkOK
<1>5. CASE pc'[c] = "read"
  BY <1>1, <1>2, <1>3, <1>5 DEF WorkOK, Reading
<1> QED BY <1>1, <1>4, <1>5, TurnEffect DEF ReadFragment

LEMMA KeyWork ==
  ASSUME TypeOK, Shape, Work, NEW c \in Call, OpenKey(c) \/ ReadKey(c) \/ AllocThreads(c)
  PROVE  WorkOK(c)'
<1>1. /\ pc[c] \in {"open_key", "read_key", "alloc_threads"}
      /\ req' = req /\ UNCHANGED <<th, idx, size, text, plain>>
  BY DEF OpenKey, ReadKey, AllocThreads
<1>2. \A t \in Used(c) : t \in Thread /\ th[c][t] = "none" /\ idx[c][t] = 0
  BY <1>1, NothingDone DEF Unstarted
<1>3. Used(c)' = Used(c) /\ \A t \in Used(c) : FragLen(c, t)' = FragLen(c, t)
  BY <1>1 DEF Used, FragLen
<1>4. \A t \in Used(c) : Worked(c, t)
  BY <1>1 DEF Work, WorkOK, Reading
<1>5. ASSUME NEW t \in Used(c) PROVE Worked(c, t)'
  BY <1>1, <1>2, <1>3, <1>4 DEF Worked
<1> QED BY <1>1, <1>2, <1>3, <1>5 DEF WorkOK

LEMMA RestWork ==
  ASSUME TypeOK, Shape, Work, NEW c \in Call,
         SpawnThread(c) \/ WaitThread(c) \/ OpenOutput(c) \/ WriteFragment(c)
           \/ Cleanup(c) \/ Final(c)
  PROVE  WorkOK(c)'
<1>1. req' = req /\ UNCHANGED <<idx, size, text, plain, key>>
  BY DEF SpawnThread, WaitThread, OpenOutput, WriteFragment, Cleanup, Final
<1>2. pc'[c] \in Reading => pc[c] \in Reading
  <2>1. CASE SpawnThread(c) \/ WaitThread(c) \/ OpenOutput(c) \/ WriteFragment(c)
    BY <2>1 DEF SpawnThread, WaitThread, OpenOutput, WriteFragment, Reading
  <2>2. CASE Cleanup(c) \/ Final(c)
    BY <2>2, GotoEffect DEF Cleanup, Final, Continue, Reading
  <2> QED BY <2>1, <2>2
<1>3. \A t \in Used(c) : th'[c][t] = th[c][t] \/ th'[c][t] = "run"
  <2>1. CASE SpawnThread(c)
    BY <2>1, Arguments DEF SpawnThread, TypeOK
  <2>2. CASE UNCHANGED th
    BY <2>2
  <2> QED BY <2>1, <2>2 DEF WaitThread, OpenOutput, WriteFragment, Cleanup, Final
<1> QED BY <1>1, <1>2, <1>3, QuietWork DEF Work

LEMMA ThreadWork ==
  ASSUME TypeOK, Shape, Work, NEW c \in Call, NEW t \in Thread, ThreadStep(c, t)
  PROVE  WorkOK(c)'
<1>0. WorkOK(c) /\ UNCHANGED <<req, pc, i, size, plain, key>>
  BY DEF Work, ThreadStep, XorByte, Complete, UseFreed
<1>1. th[c][t] = "run" /\ req[c].n > 0 /\ t \in Used(c) /\ FragLen(c, t) \in Nat
      /\ idx[c][t] \in Nat
  <2>1. th[c][t] = "run"
    BY DEF ThreadStep, XorByte, Complete, UseFreed
  <2> QED BY <2>1, FragLenNat DEF Shape, StartedOK, TypeOK
<1>2. UNCHANGED Used(c) /\ \A u \in Used(c) : FragLen(c, u)' = FragLen(c, u)
  BY <1>0 DEF Used, FragLen
<1>3. Used(c) \subseteq Thread
  BY Arguments
<1>4. CASE XorByte(c, t)
  <2> DEFINE j == idx[c][t] + 1
  <2>1. CASE key[c] = <<>>
    <3>1. th' = [th EXCEPT ![c][t] = "oops"] /\ UNCHANGED <<idx, text>>
      BY <1>4, <2>1 DEF XorByte
    <3>2. \A u \in Used(c) : th'[c][u] = th[c][u] \/ th'[c][u] \notin {"none", "done"}
      BY <1>3, <3>1 DEF TypeOK
    <3> QED BY <1>0, <3>1, <3>2, QuietWork
  <2>2. CASE key[c] # <<>>
    <3>1. /\ text' = [text EXCEPT ![c][t][j] = Xor(@, KeyAt(key[c], j))]
          /\ idx' = [idx EXCEPT ![c][t] = j] /\ UNCHANGED th /\ j <= FragLen(c, t)
      BY <1>4, <2>2 DEF XorByte
    <3>2. idx'[c][t] = j /\ \A u \in Used(c) \ {t} : idx'[c][u] = idx[c][u]
      BY <1>3, <3>1 DEF TypeOK
    <3>3. \A u \in Used(c) \ {t} : text'[c][u] = text[c][u]
      BY <1>3, <3>1 DEF TypeOK
    <3>4. text'[c][t] = [text[c][t] EXCEPT ![j] = Xor(@, KeyAt(key[c], j))]
      BY <3>1 DEF TypeOK
    <3>5. text[c][t] \in Seq(Byte) /\ Len(text[c][t]) = FragLen(c, t)
      BY <1>1, BufferType DEF Shape, StartedOK
    <3> HIDE DEF j
    <3>6. \A k \in 1 .. FragLen(c, t) :
            text'[c][t][k] = IF k = j THEN Xor(text[c][t][j], KeyAt(key[c], j)) ELSE text[c][t][k]
      BY <3>4, <3>5
    <3>7. Worked(c, t) => Worked(c, t)'
      BY <1>0, <1>1, <1>2, <3>1, <3>2, <3>6 DEF Worked, j
    <3>8. \A u \in Used(c) \ {t} : Worked(c, u) => Worked(c, u)'
      BY <1>0, <1>2, <3>2, <3>3 DEF Worked
    <3> QED BY <1>0, <1>1, <1>2, <2>2, <3>1, <3>2, <3>7, <3>8 DEF WorkOK
  <2> QED BY <2>1, <2>2
<1>5. CASE Complete(c, t)
  <2>1. /\ th' = [th EXCEPT ![c][t] = "done"] /\ UNCHANGED <<idx, text>>
        /\ idx[c][t] >= FragLen(c, t)
    BY <1>5 DEF Complete
  <2>2. \A u \in Used(c) : th'[c][u] = IF u = t THEN "done" ELSE th[c][u]
    BY <1>3, <2>1 DEF TypeOK
  <2>3. \A u \in Used(c) : Worked(c, u)' = Worked(c, u)
    BY <1>0, <1>2, <2>1 DEF Worked
  <2> QED BY <1>0, <1>1, <1>2, <2>1, <2>2, <2>3 DEF WorkOK
<1>6. CASE UseFreed(c, t)
  <2>1. th' = [th EXCEPT ![c][t] = "lost"] /\ UNCHANGED <<idx, text>>
    BY <1>6 DEF UseFreed
  <2>2. \A u \in Used(c) : th'[c][u] = th[c][u] \/ th'[c][u] \notin {"none", "done"}
    BY <1>3, <2>1 DEF TypeOK
  <2> QED BY <1>0, <2>1, <2>2, QuietWork
<1> QED BY <1>4, <1>5, <1>6 DEF ThreadStep

LEMMA MainWaited ==
  ASSUME TypeOK, Shape, Work, NEW c \in Call, MainStep(c)
  PROVE  WaitedOK(c)'
<1> USE DEF WaitedOK
<1>0. WaitedOK(c)
  BY DEF Work
<1>1. CASE pc'[c] \notin {"wait", "open_output", "write"}
  BY <1>1
<1>2. CASE SpawnThread(c) /\ pc'[c] = "wait"
  <2>1. pc[c] = "spawn" /\ i[c] \in Used(c) /\ req' = req /\ Turn(c, "wait")
    BY <1>2, FailEffect DEF SpawnThread, Shape, LoopOK
  <2>2. i'[c] = 0
    BY <1>2, <2>1, TurnEffect
  <2>3. \A t \in Used(c)' : ~(t < 0)
    BY DEF Used
  <2> QED BY <1>2, <2>2, <2>3
<1>3. CASE WaitThread(c)
  <2>1. /\ pc[c] = "wait" /\ i[c] \in Used(c) /\ UNCHANGED <<req, th>> /\ Turn(c, "open_output")
        /\ th[c][i[c]] = "done"
    BY <1>3 DEF WaitThread, Shape, LoopOK
  <2>2. Used(c)' = Used(c)
    BY <2>1 DEF Used
  <2>3. \A t \in Used(c) : t < i[c] + 1 => th'[c][t] = "done"
    BY <1>0, <2>1 DEF Used
  <2>4. CASE pc'[c] = "wait" /\ i'[c] = i[c] + 1
    BY <2>2, <2>3, <2>4
  <2>5. CASE pc'[c] = "open_output" /\ i[c] = req[c].n - 1
    <3>1. \A t \in Used(c) : t < i[c] + 1
      BY <2>5, Arguments DEF Used
    <3> QED BY <2>2, <2>3, <2>5, <3>1
  <2> QED BY <2>1, <2>4, <2>5, TurnEffect
<1>4. CASE OpenOutput(c) \/ WriteFragment(c)
  <2>1. pc[c] \in {"open_output", "write"} /\ UNCHANGED <<req, th>>
    BY <1>4 DEF OpenOutput, WriteFragment
  <2>2. Used(c)' = Used(c) /\ pc'[c] # "wait"
    <3>1. CASE OpenOutput(c)
      BY <2>1, <3>1, GotoEffect DEF OpenOutput, Continue, Bail, Fail, Used
    <3>2. CASE WriteFragment(c)
      <4>1. Turn(c, "cleanup") /\ i[c] \in Used(c) /\ pc[c] = "write"
        BY <3>2 DEF WriteFragment, Shape, LoopOK
      <4> QED BY <2>1, <4>1, TurnEffect DEF Used
    <3> QED BY <1>4, <3>1, <3>2
  <2> QED BY <1>0, <2>1, <2>2
<1>5. ~(SpawnThread(c) \/ WaitThread(c) \/ OpenOutput(c) \/ WriteFragment(c))
        => pc'[c] \notin {"wait", "open_output", "write"}
  <2>1. CASE CopyPath(c) \/ OpenInput(c) \/ SplitInput(c) \/ AllocFragments(c)
    BY <2>1, GotoEffect, FailEffect
    DEF CopyPath, OpenInput, SplitInput, AllocFragments, Continue, Bail, Oops
  <2>2. CASE OpenKey(c) \/ ReadKey(c) \/ AllocThreads(c) \/ Cleanup(c) \/ Final(c)
    BY <2>2, GotoEffect, FailEffect
    DEF OpenKey, ReadKey, AllocThreads, Cleanup, Final, Continue, Bail
  <2>3. CASE ReadFragment(c)
    <3>1. pc[c] = "read" /\ i[c] \in Used(c) /\ Turn(c, "open_key")
      BY <2>3 DEF ReadFragment, Shape, LoopOK
    <3> QED BY <3>1, TurnEffect
  <2> QED BY <2>1, <2>2, <2>3 DEF MainStep
<1>6. SpawnThread(c) => pc'[c] \notin {"open_output", "write"}
  <2>1. CASE Turn(c, "wait")
    BY <2>1, TurnEffect DEF SpawnThread, Shape, LoopOK
  <2> QED BY <2>1, FailEffect DEF SpawnThread
<1> QED BY <1>1, <1>2, <1>3, <1>4, <1>5, <1>6

LEMMA ThreadWaited ==
  ASSUME TypeOK, Shape, Work, NEW c \in Call, NEW t \in Thread, ThreadStep(c, t)
  PROVE  WaitedOK(c)'
<1>0. WaitedOK(c) /\ UNCHANGED <<req, pc, i>> /\ Used(c)' = Used(c)
  BY DEF Work, ThreadStep, XorByte, Complete, UseFreed, Used
<1>1. \A u \in Thread : th[c][u] = "done" => th'[c][u] = "done"
  BY DEF ThreadStep, XorByte, Complete, UseFreed, TypeOK
<1>2. Used(c) \subseteq Thread
  BY Arguments
<1> QED BY <1>0, <1>1, <1>2 DEF WaitedOK

LEMMA WorkStep == TypeOK /\ Shape /\ Work /\ [Next]_vars => Work'
<1> SUFFICES ASSUME TypeOK, Shape, Work, [Next]_vars PROVE Work'
  OBVIOUS
<1>1. ASSUME NEW c \in Call, MainStep(c) \/ \E t \in Thread : ThreadStep(c, t)
      PROVE  Work'
  <2>1. WorkOK(c)' /\ WaitedOK(c)'
    BY <1>1, StartWork, ReadWork, KeyWork, RestWork, MainWaited, ThreadWork, ThreadWaited
    DEF MainStep
  <2>2. ASSUME NEW d \in Call \ {c} PROVE WorkOK(d)' /\ WaitedOK(d)'
    <3>1. /\ req' = req /\ pc'[d] = pc[d] /\ i'[d] = i[d] /\ size'[d] = size[d]
          /\ text'[d] = text[d] /\ key'[d] = key[d] /\ th'[d] = th[d]
          /\ plain'[d] = plain[d] /\ idx'[d] = idx[d]
      BY <1>1, OthersUnchanged, OthersWork
    <3>2. UNCHANGED Used(d) /\ WorkOK(d) /\ WaitedOK(d)
      BY <3>1 DEF Used, Work
    <3>3. WorkOK(d)'
      BY <3>1, <3>2, QuietWork
    <3> QED BY <3>1, <3>2, <3>3 DEF WaitedOK
  <2> QED BY <2>1, <2>2 DEF Work
<1>2. CASE UNCHANGED vars
  <2>1. /\ UNCHANGED <<req, pc, i, size, text, key, th, plain, idx>>
    BY <1>2 DEF vars
  <2>2. \A c \in Call : UNCHANGED Used(c) /\ \A t \in Used(c) : FragLen(c, t)' = FragLen(c, t)
    BY <2>1 DEF Used, FragLen
  <2> QED BY <2>1, <2>2 DEF Work, WorkOK, WaitedOK, Worked
<1> QED BY <1>1, <1>2 DEF Next

\* The fragments that a call goes on to write are the encryption of the ones
\* it has read.
LEMMA WorkDone ==
  ASSUME TypeOK, Shape, Work, NEW c \in Call, pc[c] \in {"open_output", "write"},
         NEW t \in Used(c)
  PROVE  /\ Len(plain[c][t]) = FragLen(c, t)
         /\ \A j \in 1 .. FragLen(c, t) :
              text[c][t][j] = Xor(plain[c][t][j], KeyAt(key[c], j))
         /\ text[c][t] = XorFragment(plain[c][t], key[c])
<1>1. /\ req[c].n > 0 /\ t \in Thread /\ FragLen(c, t) \in Nat
      /\ text[c][t] \in Seq(Byte) /\ Len(text[c][t]) = FragLen(c, t)
  <2>1. req[c].n > 0 /\ Len(text[c][t]) = FragLen(c, t)
    BY DEF Shape, CountOK, BufferOK, Counted, Buffered
  <2> QED BY <2>1, Arguments, FragLenNat, BufferType
<1>2. Worked(c, t) /\ idx[c][t] >= FragLen(c, t) /\ idx[c][t] \in Nat
  BY <1>1 DEF Work, WorkOK, WaitedOK, Reading, TypeOK
<1>3. \A j \in 1 .. FragLen(c, t) :
        text[c][t][j] = Xor(plain[c][t][j], KeyAt(key[c], j))
  BY <1>1, <1>2 DEF Worked
<1>4. Len(plain[c][t]) = FragLen(c, t)
  BY <1>2 DEF Worked
<1>5. text[c][t] = [j \in 1 .. FragLen(c, t) |-> text[c][t][j]]
  BY <1>1
<1> QED BY <1>3, <1>4, <1>5 DEF XorFragment

\* For any number of calls, threads and bytes, and however the threads are
\* scheduled: a call that goes on to write (crypt.c:194) has every byte of
\* every fragment XORed exactly once, with the byte of the key for its place.
THEOREM CallsEncrypt == Spec => []EncryptedBeforeWrite
<1>1. Init => TypeOK /\ Shape /\ Work
  BY InitShape, InitWork
<1>2. TypeOK /\ Shape /\ Work /\ [Next]_vars => (TypeOK /\ Shape /\ Work)'
  BY ShapeStep, WorkStep
<1>3. TypeOK /\ Shape /\ Work => EncryptedBeforeWrite
  BY WorkDone DEF EncryptedBeforeWrite
<1> QED BY <1>1, <1>2, <1>3, PTL DEF Spec

-----------------------------------------------------------------------------
(* The files: what a call reads is still there as long as no other call      *)
(* writes it meanwhile, and the call itself has not begun to write it.       *)

\* Every call that writes the file p has come to an end before c began.
Still(c, p) == \A d \in Call \ {c} : req[d].out = p => d \in req[c].after

Writes == {"write", "cleanup", "final"} \cup Terminal

Unwritten(c, p) == req[c].out = p => pc[c] \notin Writes

Kept(c, p) == Still(c, p) /\ Unwritten(c, p)

\* A call begins when the calls that it comes after have ended.
AfterOK(c) ==
  pc[c] # "paths" => \A d \in req[c].after : pc[d] \in {"returned", "bailed"}

InOrder == \A c \in Call : AfterOK(c)

LEMMA OrderStep == TypeOK /\ Shape /\ InOrder /\ [Next]_vars => InOrder'
<1> SUFFICES ASSUME TypeOK, Shape, InOrder, [Next]_vars PROVE InOrder'
  OBVIOUS
<1>1. ASSUME NEW c \in Call, MainStep(c) \/ \E t \in Thread : ThreadStep(c, t)
      PROVE  InOrder'
  <2>1. req' = req /\ (pc[c] \in {"returned", "bailed"} => pc'[c] = pc[c])
    BY <1>1 DEF MainStep, ThreadStep, CopyPath, OpenInput, SplitInput, AllocFragments,
       ReadFragment, OpenKey, ReadKey, AllocThreads, SpawnThread, WaitThread,
       OpenOutput, WriteFragment, Cleanup, Final, XorByte, Complete, UseFreed
  <2>2. \A d \in Call \ {c} : pc'[d] = pc[d]
    BY <1>1, OthersUnchanged
  <2>3. \A d \in Call : pc[d] \in {"returned", "bailed"} => pc'[d] \in {"returned", "bailed"}
    BY <2>1, <2>2
  <2>4. \A d \in Call : req[d].after \in SUBSET Call
    BY CryptAssumption DEF TypeOK
  <2>5. pc[c] = "paths" /\ pc'[c] # "paths"
          => \A d \in req[c].after : pc[d] \in {"returned", "bailed"}
    <3>1. CASE CopyPath(c)
      BY <3>1 DEF CopyPath
    <3>2. CASE ~CopyPath(c)
      BY <1>1, <3>2 DEF MainStep, ThreadStep, OpenInput, SplitInput, AllocFragments,
         ReadFragment, OpenKey, ReadKey, AllocThreads, SpawnThread, WaitThread,
         OpenOutput, WriteFragment, Cleanup, Final, XorByte, Complete, UseFreed
    <3> QED BY <3>1, <3>2
  <2> QED BY <2>1, <2>2, <2>3, <2>4, <2>5 DEF InOrder, AfterOK
<1>2. CASE UNCHANGED vars
  BY <1>2 DEF vars, InOrder, AfterOK
<1> QED BY <1>1, <1>2 DEF Next

\* Only the call that writes a file changes it.
LEMMA FileChange ==
  ASSUME TypeOK, Shape, NEW c \in Call, NEW p \in Path,
         MainStep(c) \/ \E t \in Thread : ThreadStep(c, t)
  PROVE  fs'[p] = fs[p] \/ (WriteFragment(c) /\ req[c].out = p)
<1>1. CASE WriteFragment(c)
  BY <1>1 DEF WriteFragment, TypeOK
<1>2. CASE ~WriteFragment(c)
  BY <1>2 DEF MainStep, ThreadStep, CopyPath, OpenInput, SplitInput, AllocFragments,
     ReadFragment, OpenKey, ReadKey, AllocThreads, SpawnThread, WaitThread,
     OpenOutput, Cleanup, Final, XorByte, Complete, UseFreed
<1> QED BY <1>1, <1>2

\* A file that is kept for a call that has begun is not changed by others.
LEMMA OthersKeep ==
  ASSUME TypeOK, Shape, InOrder, NEW c \in Call, NEW d \in Call \ {c}, NEW p \in Path,
         MainStep(d) \/ \E t \in Thread : ThreadStep(d, t),
         pc[c] # "paths", Still(c, p)
  PROVE  fs'[p] = fs[p]
<1>1. ~(WriteFragment(d) /\ req[d].out = p)
  <2> SUFFICES ASSUME WriteFragment(d), req[d].out = p PROVE FALSE
    OBVIOUS
  <2>1. d \in req[c].after
    BY DEF Still
  <2>2. pc[d] \in {"returned", "bailed"}
    BY <2>1 DEF InOrder, AfterOK
  <2> QED BY <2>2 DEF WriteFragment
<1> QED BY <1>1, FileChange

\* Once a call writes it goes on to its end.
LEMMA WritesOn ==
  ASSUME TypeOK, Shape, NEW c \in Call, pc[c] \in Writes,
         MainStep(c) \/ \E t \in Thread : ThreadStep(c, t)
  PROVE  pc'[c] \in Writes
<1>1. CASE WriteFragment(c)
  <2>1. Turn(c, "cleanup") /\ i[c] \in Used(c)
    BY <1>1 DEF WriteFragment, Shape, LoopOK
  <2> QED BY <2>1, TurnEffect DEF Writes
<1>2. CASE Cleanup(c) \/ Final(c)
  BY <1>2, GotoEffect DEF Cleanup, Final, Continue, Writes, Terminal
<1>3. CASE \E t \in Thread : ThreadStep(c, t)
  BY <1>3 DEF ThreadStep, XorByte, Complete, UseFreed
<1> QED
  BY <1>1, <1>2, <1>3 DEF Writes, Terminal, MainStep, CopyPath, OpenInput, SplitInput,
     AllocFragments, ReadFragment, OpenKey, ReadKey, AllocThreads, SpawnThread,
     WaitThread, OpenOutput

LEMMA OwnKeep ==
  ASSUME TypeOK, Shape, NEW c \in Call, NEW p \in Path,
         MainStep(c) \/ \E t \in Thread : ThreadStep(c, t), Kept(c, p)'
  PROVE  Kept(c, p) /\ fs'[p] = fs[p]
<1>1. req' = req
  BY DEF MainStep, ThreadStep, CopyPath, OpenInput, SplitInput, AllocFragments,
     ReadFragment, OpenKey, ReadKey, AllocThreads, SpawnThread, WaitThread,
     OpenOutput, WriteFragment, Cleanup, Final, XorByte, Complete, UseFreed
<1>2. Kept(c, p)
  BY <1>1, WritesOn DEF Kept, Still, Unwritten
<1>3. ~(WriteFragment(c) /\ req[c].out = p)
  BY <1>2 DEF Kept, Unwritten, WriteFragment, Writes
<1> QED BY <1>2, <1>3, FileChange

-----------------------------------------------------------------------------
(* The reads: when none comes up short, the fragments are the input and the  *)
(* key is the key file, as long as those are kept.                           *)

Ended == {"cleanup", "final", "returned"}

\* The call has its fragments, or its key, and has not failed.
HasRead(c) == pc[c] \in Reading \/ (pc[c] \in Ended /\ ret[c] = "OK")
HasKey(c) == HasRead(c) /\ pc[c] \notin {"open_key", "read_key"}

InputOK(c) ==
  Kept(c, req[c].in) =>
    LET s == fs[req[c].in] IN
    /\ pc[c] \in {"split", "alloc_fragments", "read"} \/ HasRead(c) => size[c] = Len(s)
    /\ pc[c] \in {"split", "alloc_fragments"} => pos[c] = 0
    /\ pc[c] = "read" =>
         /\ pos[c] = FragmentStart(size[c], req[c].n, i[c])
         /\ \A t \in Used(c) : t < i[c] => text[c][t] = Piece(s, req[c].n, t)
    /\ HasRead(c) => \A t \in Used(c) : plain[c][t] = Piece(s, req[c].n, t)

KeyOK(c) ==
  Kept(c, req[c].key) =>
    /\ pc[c] = "read_key" => pos[c] = 0 /\ Len(key[c]) = Len(fs[req[c].key])
    /\ HasKey(c) => key[c] = fs[req[c].key]

ReadAll == \A c \in Call : InputOK(c) /\ KeyOK(c)

\* Where a step comes from that has not failed.
LEMMA CameFrom ==
  ASSUME TypeOK, Shape, NEW c \in Call, MainStep(c)
  PROVE  /\ pc'[c] \in {"split", "alloc_fragments", "read"} =>
              pc[c] \in {"open_input", "split", "alloc_fragments", "read"}
         /\ pc[c] # "read" /\ HasRead(c)' => HasRead(c)
         /\ pc[c] # "read" => plain' = plain
         /\ pc[c] = "read" => ~HasKey(c)'
         /\ pc'[c] = "read_key" => pc[c] = "open_key"
         /\ pc[c] # "read_key" /\ HasKey(c)' => HasKey(c)
<1> USE DEF HasRead, HasKey, Reading, Ended
<1>1. CASE CopyPath(c) \/ OpenInput(c) \/ SplitInput(c) \/ AllocFragments(c)
  BY <1>1, GotoEffect, FailEffect
  DEF CopyPath, OpenInput, SplitInput, AllocFragments, Continue, Bail, Oops
<1>2. CASE ReadFragment(c)
  <2>1. pc[c] = "read" /\ i[c] \in Used(c) /\ Turn(c, "open_key")
    BY <1>2 DEF ReadFragment, Shape, LoopOK
  <2> QED BY <1>2, <2>1, TurnEffect
<1>3. CASE OpenKey(c) \/ ReadKey(c) \/ AllocThreads(c)
  BY <1>3, GotoEffect, FailEffect
  DEF OpenKey, ReadKey, AllocThreads, Continue, Bail
<1>4. CASE SpawnThread(c)
  <2>1. pc[c] = "spawn" /\ i[c] \in Used(c) /\ UNCHANGED plain
    BY <1>4 DEF SpawnThread, Shape, LoopOK
  <2>2. pc'[c] \in {"spawn", "wait"} \/ (pc'[c] = "cleanup" /\ ret'[c] # "OK")
    <3>1. CASE Turn(c, "wait")
      BY <2>1, <3>1, TurnEffect
    <3>2. CASE Fail(c, "ENOMEM", "cleanup") \/ Fail(c, "ESPAWN", "cleanup")
      BY <3>2, FailEffect
    <3> QED BY <1>4, <3>1, <3>2 DEF SpawnThread
  <2> QED BY <2>1, <2>2
<1>5. CASE WaitThread(c) \/ WriteFragment(c)
  <2>1. /\ pc[c] \in {"wait", "write"} /\ i[c] \in Used(c) /\ UNCHANGED plain
        /\ Turn(c, "open_output") \/ Turn(c, "cleanup")
    BY <1>5 DEF WaitThread, WriteFragment, Shape, LoopOK
  <2> QED BY <2>1, TurnEffect
<1>6. CASE OpenOutput(c)
  BY <1>6, GotoEffect, FailEffect DEF OpenOutput, Continue, Bail
<1>7. CASE Cleanup(c) \/ Final(c)
  BY <1>7, GotoEffect DEF Cleanup, Final, Continue
<1> QED BY <1>1, <1>2, <1>3, <1>4, <1>5, <1>6, <1>7 DEF MainStep

\* What a call has read, where it is past the reads.
LEMMA PastInput ==
  ASSUME TypeOK, Shape, NEW c \in Call, InputOK(c),
         req' = req, size'[c] = size[c], plain'[c] = plain[c],
         pc'[c] \notin {"split", "alloc_fragments", "read"},
         HasRead(c)' => HasRead(c),
         Kept(c, req[c].in)' => Kept(c, req[c].in) /\ fs'[req[c].in] = fs[req[c].in]
  PROVE  InputOK(c)'
<1>1. Used(c)' = Used(c)
  BY DEF Used
<1> QED BY <1>1 DEF InputOK

LEMMA StartInput ==
  ASSUME TypeOK, Shape, Safe, NEW c \in Call, InputOK(c), Kept(c, req[c].in)',
         Kept(c, req[c].in), fs'[req[c].in] = fs[req[c].in],
         OpenInput(c) \/ SplitInput(c) \/ AllocFragments(c)
  PROVE  InputOK(c)'
<1> USE DEF InputOK, HasRead, Reading, Ended
<1>1. CASE OpenInput(c)
  <2>1. req' = req /\ pc[c] = "open_input"
    BY <1>1 DEF OpenInput
  <2>2. CASE Bail(c, "EOPEN")
    BY <2>1, <2>2, FailEffect DEF Bail
  <2>3. CASE /\ size' = [size EXCEPT ![c] = Len(fs[req[c].in])]
             /\ pos' = [pos EXCEPT ![c] = 0] /\ Continue(c, "split")
    <3>1. size'[c] = Len(fs[req[c].in]) /\ pos'[c] = 0 /\ pc'[c] = "split"
      BY <2>3, GotoEffect DEF Continue, TypeOK
    <3> QED BY <2>1, <3>1
  <2> QED BY <1>1, <2>2, <2>3 DEF OpenInput
<1>2. CASE SplitInput(c)
  <2>1. req' = req /\ pc[c] = "split" /\ UNCHANGED <<size, pos, plain>>
    BY <1>2 DEF SplitInput
  <2>2. pc'[c] \in {"oops", "alloc_fragments"} \/ (pc'[c] = "final" /\ ret'[c] # "OK")
    BY <1>2, GotoEffect, FailEffect DEF SplitInput, Oops, Continue
  <2> QED BY <2>1, <2>2
<1>3. CASE AllocFragments(c)
  <2>1. req' = req /\ pc[c] = "alloc_fragments" /\ UNCHANGED <<size, pos, plain>>
    BY <1>3 DEF AllocFragments
  <2>2. (pc'[c] = "read" /\ i'[c] = 0) \/ (pc'[c] = "final" /\ ret'[c] # "OK")
    BY <1>3, GotoEffect, FailEffect DEF AllocFragments, Continue
  <2>3. CASE pc'[c] = "read" /\ i'[c] = 0
    <3>1. req[c].n \in Nat \ {0} /\ size[c] \in Nat
      BY <2>1, Arguments DEF TypeOK, Shape, CountOK, Counted
    <3>2. FragmentStart(size[c], req[c].n, 0) = 0
      <4>1. size[c] \div req[c].n \in Nat
        BY <3>1, DivMod
      <4> QED BY <4>1 DEF FragmentStart
    <3>3. \A t \in Used(c)' : ~(t < 0)
      BY DEF Used
    <3> QED BY <2>1, <2>3, <3>2, <3>3
  <2> QED BY <2>1, <2>2, <2>3
<1> QED BY <1>1, <1>2, <1>3

LEMMA ReadInput ==
  ASSUME TypeOK, Shape, "read" \notin Faults, NEW c \in Call, InputOK(c),
         Kept(c, req[c].in), fs'[req[c].in] = fs[req[c].in], ReadFragment(c)
  PROVE  InputOK(c)'
<1> DEFINE s == fs[req[c].in]
           n == req[c].n
           t == i[c]
           len == FragLen(c, t)
           start == FragmentStart(Len(s), n, t)
<1>0. pc[c] = "read" /\ req' = req /\ size' = size /\ t \in Used(c) /\ Turn(c, "open_key")
  BY DEF ReadFragment, Shape, LoopOK
<1>1. s \in Seq(Byte) /\ Len(s) \in Nat /\ n \in Nat \ {0} /\ t \in 0 .. n - 1 /\ t \in Thread
  BY <1>0, Arguments, FileSeq DEF Shape, CountOK, Counted, Used
<1>2. /\ size[c] = Len(s) /\ pos[c] = start
      /\ \A u \in Used(c) : u < t => text[c][u] = Piece(s, n, u)
  BY <1>0 DEF InputOK
<1>3. /\ len = FragmentSize(Len(s), n, t) /\ len \in Nat /\ start \in Nat
      /\ start + len <= Len(s)
      /\ t < n - 1 => FragmentStart(Len(s), n, t + 1) = start + len
  <2>1. len = FragmentSize(Len(s), n, t)
    BY <1>2 DEF FragLen
  <2>2. /\ FragmentSize(Len(s), n, t) \in Nat /\ start \in Nat
        /\ start + FragmentSize(Len(s), n, t) <= Len(s)
        /\ t < n - 1 => FragmentStart(Len(s), n, t + 1)
                          = start + FragmentSize(Len(s), n, t)
    BY <1>1, FragmentBounds
  <2> HIDE DEF start, len
  <2> QED BY <2>1, <2>2
<1>4. PICK m \in Available(c, s, len) :
        /\ text' = [text EXCEPT ![c][t] = Filled(s, pos[c], m, len)]
        /\ pos' = [pos EXCEPT ![c] = @ + m]
  BY DEF ReadFragment
<1>5. m = len
  <2>1. ~(Len(s) - pos[c] < len)
    <3> HIDE DEF s, len, start
    <3> QED BY <1>1, <1>2, <1>3
  <2>2. Available(c, s, len) = {len}
    BY <2>1 DEF Available
  <2> QED BY <1>4, <2>2
<1>6. Filled(s, pos[c], m, len) = Piece(s, n, t)
  BY <1>1, <1>2, <1>3, <1>5, FilledPiece
<1> HIDE DEF len, start
<1>7. pos'[c] = start + len
  BY <1>2, <1>4, <1>5 DEF TypeOK
<1>8. text'[c][t] = Piece(s, n, t) /\ \A u \in Used(c) \ {t} : text'[c][u] = text[c][u]
  BY <1>1, <1>4, <1>6, Arguments DEF TypeOK
<1>9. \A u \in Used(c) : u < t + 1 => text'[c][u] = Piece(s, n, u)
  <2> SUFFICES ASSUME NEW u \in Used(c), u < t + 1 PROVE text'[c][u] = Piece(s, n, u)
    OBVIOUS
  <2>1. u = t \/ u < t
    BY <1>1 DEF Used
  <2>2. u < t => u # t
    BY <1>1 DEF Used
  <2> QED BY <1>2, <1>8, <2>1, <2>2
<1>10. Used(c)' = Used(c) /\ fs'[req'[c].in] = s /\ req'[c].n = n
  BY <1>0 DEF Used
<1>11. CASE pc'[c] = pc[c] /\ i'[c] = t + 1 /\ t + 1 \in Used(c)
  <2>1. pos'[c] = FragmentStart(size'[c], n, i'[c])
    BY <1>0, <1>1, <1>2, <1>3, <1>7, <1>11 DEF Used
  <2>2. pc'[c] = "read" /\ ~HasRead(c)'
    BY <1>0, <1>11 DEF HasRead, Reading, Ended
  <2> HIDE DEF s, n, t
  <2>3. size'[c] = Len(s)
    BY <1>0, <1>2
  <2> QED BY <1>9, <1>10, <1>11, <2>1, <2>2, <2>3 DEF InputOK
<1>12. CASE pc'[c] = "open_key" /\ t = n - 1
  <2>1. plain'[c] = text'[c]
    BY <1>12 DEF ReadFragment, TypeOK
  <2>2. \A u \in Used(c) : u < t + 1
    BY <1>1, <1>12 DEF Used
  <2> HIDE DEF s, n, t
  <2>3. size'[c] = Len(s)
    BY <1>0, <1>2
  <2> QED BY <1>9, <1>10, <1>12, <2>1, <2>2, <2>3 DEF InputOK
<1> QED BY <1>0, <1>11, <1>12, TurnEffect

LEMMA OwnInput ==
  ASSUME TypeOK, Shape, Safe, "read" \notin Faults, NEW c \in Call, InputOK(c),
         MainStep(c) \/ \E t \in Thread : ThreadStep(c, t)
  PROVE  InputOK(c)'
<1>0. req[c].in \in Path /\ req' = req
  BY Arguments DEF MainStep, ThreadStep, CopyPath, OpenInput, SplitInput, AllocFragments,
     ReadFragment, OpenKey, ReadKey, AllocThreads, SpawnThread, WaitThread,
     OpenOutput, WriteFragment, Cleanup, Final, XorByte, Complete, UseFreed
<1>1. Kept(c, req[c].in)' => Kept(c, req[c].in) /\ fs'[req[c].in] = fs[req[c].in]
  <2> DEFINE p == req[c].in
  <2>1. p \in Path /\ p' = p
    BY <1>0
  <2> HIDE DEF p
  <2>2. Kept(c, p)' => Kept(c, p) /\ fs'[p] = fs[p]
    BY <2>1, OwnKeep
  <2> QED BY <1>0, <2>2 DEF p
<1>2. CASE ~Kept(c, req[c].in)'
  BY <1>0, <1>2 DEF InputOK
<1>3. CASE Kept(c, req[c].in)' /\ MainStep(c)
  <2>1. CASE OpenInput(c) \/ SplitInput(c) \/ AllocFragments(c)
    BY <1>1, <1>3, <2>1, StartInput
  <2>2. CASE ReadFragment(c)
    BY <1>1, <1>3, <2>2, ReadInput
  <2>3. CASE ~(OpenInput(c) \/ SplitInput(c) \/ AllocFragments(c) \/ ReadFragment(c))
    <3>1. pc[c] \notin {"open_input", "split", "alloc_fragments", "read"} /\ size' = size
      BY <1>3, <2>3 DEF MainStep, CopyPath, OpenKey, ReadKey, AllocThreads, SpawnThread,
         WaitThread, OpenOutput, WriteFragment, Cleanup, Final
    <3> QED BY <1>0, <1>1, <1>3, <3>1, CameFrom, PastInput
  <2> QED BY <2>1, <2>2, <2>3
<1>4. CASE \E t \in Thread : ThreadStep(c, t)
  <2>1. /\ UNCHANGED <<pc, ret, size, plain>>
        /\ pc[c] \notin Unstarted
    BY <1>4 DEF ThreadStep, XorByte, Complete, UseFreed, Shape, StartedOK
  <2> QED BY <1>0, <1>1, <2>1, PastInput DEF Unstarted, HasRead
<1> QED BY <1>2, <1>3, <1>4

LEMMA OwnKey ==
  ASSUME TypeOK, Shape, "read" \notin Faults, NEW c \in Call, KeyOK(c),
         MainStep(c) \/ \E t \in Thread : ThreadStep(c, t)
  PROVE  KeyOK(c)'
<1>0. req[c].key \in Path /\ req' = req
  BY Arguments DEF MainStep, ThreadStep, CopyPath, OpenInput, SplitInput, AllocFragments,
     ReadFragment, OpenKey, ReadKey, AllocThreads, SpawnThread, WaitThread,
     OpenOutput, WriteFragment, Cleanup, Final, XorByte, Complete, UseFreed
<1>1. Kept(c, req[c].key)' => Kept(c, req[c].key) /\ fs'[req[c].key] = fs[req[c].key]
  <2> DEFINE p == req[c].key
  <2>1. p \in Path /\ p' = p
    BY <1>0
  <2> HIDE DEF p
  <2>2. Kept(c, p)' => Kept(c, p) /\ fs'[p] = fs[p]
    BY <2>1, OwnKeep
  <2> QED BY <1>0, <2>2 DEF p
<1>2. CASE ~Kept(c, req[c].key)'
  BY <1>0, <1>2 DEF KeyOK
<1>3. CASE Kept(c, req[c].key)' /\ MainStep(c)
  <2> DEFINE s == fs[req[c].key]
  <2>0. s \in Seq(Byte) /\ Len(s) \in Nat /\ fs'[req'[c].key] = s
    BY <1>0, <1>1, <1>3, FileSeq
  <2>1. CASE OpenKey(c)
    <3>1. pc[c] = "open_key"
      BY <2>1 DEF OpenKey
    <3>2. CASE pc'[c] = "read_key"
      <4>1. pos'[c] = 0 /\ key'[c] = Zeros(Len(s))
        <5>1. ~Bail(c, "EOPEN") /\ ~Fail(c, "ENOMEM", "final")
          BY <3>2, FailEffect DEF Bail
        <5>2. pos' = [pos EXCEPT ![c] = 0] /\ key' = [key EXCEPT ![c] = Zeros(Len(s))]
          BY <2>1, <5>1 DEF OpenKey
        <5> QED BY <5>2 DEF TypeOK
      <4>2. Len(key'[c]) = Len(s)
        BY <2>0, <4>1, ZerosSeq
      <4>3. ~HasKey(c)'
        BY <3>2 DEF HasKey
      <4> HIDE DEF s
      <4> QED BY <2>0, <3>2, <4>1, <4>2, <4>3 DEF KeyOK
    <3>3. CASE pc'[c] # "read_key"
      <4>1. ~HasKey(c)'
        BY <3>1, CameFrom, <1>3 DEF HasKey
      <4> QED BY <3>3, <4>1 DEF KeyOK
    <3> QED BY <3>2, <3>3
  <2>2. CASE ReadKey(c)
    <3>1. pc[c] = "read_key" /\ pc'[c] = "alloc_threads"
      BY <2>2, GotoEffect DEF ReadKey, Continue
    <3>2. pos[c] = 0 /\ Len(key[c]) = Len(s)
      BY <1>1, <1>3, <3>1 DEF KeyOK
    <3>3. PICK m \in Available(c, s, Len(s)) : key' = [key EXCEPT ![c] = Filled(s, 0, m, Len(s))]
      BY <2>2, <3>2 DEF ReadKey
    <3>4. m = Len(s)
      <4>1. ~(Len(s) - pos[c] < Len(s))
        BY <2>0, <3>2
      <4>2. Available(c, s, Len(s)) = {Len(s)}
        BY <4>1 DEF Available
      <4> QED BY <3>3, <4>2
    <3>5. key'[c] = s
      BY <2>0, <3>3, <3>4, FilledWhole DEF TypeOK
    <3> HIDE DEF s
    <3> QED BY <2>0, <3>1, <3>5 DEF KeyOK
  <2>3. CASE ~OpenKey(c) /\ ~ReadKey(c)
    <3>1. pc[c] \notin {"open_key", "read_key"} /\ key' = key
      BY <1>3, <2>3 DEF MainStep, CopyPath, OpenInput, SplitInput, AllocFragments,
         ReadFragment, AllocThreads, SpawnThread, WaitThread, OpenOutput, WriteFragment,
         Cleanup, Final
    <3>2. pc'[c] # "read_key" /\ (HasKey(c)' => HasKey(c))
      BY <1>3, <3>1, CameFrom
    <3> HIDE DEF s
    <3> QED BY <1>0, <1>1, <1>3, <3>1, <3>2 DEF KeyOK
  <2> QED BY <2>1, <2>2, <2>3
<1>4. CASE \E t \in Thread : ThreadStep(c, t)
  <2>1. /\ UNCHANGED <<pc, ret, key, pos>>
        /\ pc[c] \notin Unstarted
    BY <1>4 DEF ThreadStep, XorByte, Complete, UseFreed, Shape, StartedOK
  <2> QED BY <1>0, <1>1, <2>1 DEF KeyOK, HasKey, HasRead
<1> QED BY <1>2, <1>3, <1>4

LEMMA OthersRead ==
  ASSUME TypeOK, Shape, InOrder, NEW c \in Call, NEW d \in Call \ {c},
         MainStep(d) \/ \E t \in Thread : ThreadStep(d, t), InputOK(c), KeyOK(c)
  PROVE  InputOK(c)' /\ KeyOK(c)'
<1>1. /\ req' = req /\ pc'[c] = pc[c] /\ i'[c] = i[c] /\ size'[c] = size[c]
      /\ pos'[c] = pos[c] /\ text'[c] = text[c] /\ key'[c] = key[c] /\ plain'[c] = plain[c]
      /\ ret'[c] = ret[c]
  BY OthersUnchanged, OthersWork, OthersCalm
<1>2. Used(c)' = Used(c) /\ (HasRead(c)' <=> HasRead(c)) /\ (HasKey(c)' <=> HasKey(c))
  BY <1>1 DEF Used, HasRead, HasKey
<1>3. \A p \in Path : Kept(c, p)' => Kept(c, p)
  BY <1>1 DEF Kept, Still, Unwritten
<1>4. CASE pc[c] = "paths"
  BY <1>1, <1>2, <1>4 DEF InputOK, KeyOK, HasRead, HasKey, Reading, Ended
<1>5. CASE pc[c] # "paths"
  <2>1. \A p \in Path : Kept(c, p) => fs'[p] = fs[p]
    BY <1>5, OthersKeep DEF Kept
  <2>2. req[c].in \in Path /\ req[c].key \in Path
    BY Arguments
  <2>3. InputOK(c)'
    BY <1>1, <1>2, <1>3, <2>1, <2>2 DEF InputOK
  <2>4. KeyOK(c)'
    BY <1>1, <1>2, <1>3, <2>1, <2>2 DEF KeyOK
  <2> QED BY <2>3, <2>4
<1> QED BY <1>4, <1>5

LEMMA ReadStep ==
  TypeOK /\ Shape /\ Safe /\ InOrder /\ ("read" \notin Faults => ReadAll) /\ [Next]_vars
    => ("read" \notin Faults => ReadAll')
<1> SUFFICES ASSUME TypeOK, Shape, Safe, InOrder, ReadAll, [Next]_vars, "read" \notin Faults
             PROVE  ReadAll'
  OBVIOUS
<1>1. ASSUME NEW c \in Call, MainStep(c) \/ \E t \in Thread : ThreadStep(c, t)
      PROVE  ReadAll'
  <2>1. InputOK(c)' /\ KeyOK(c)'
    BY <1>1, OwnInput, OwnKey DEF ReadAll
  <2>2. \A d \in Call \ {c} : InputOK(d)' /\ KeyOK(d)'
    BY <1>1, OthersRead DEF ReadAll
  <2> QED BY <2>1, <2>2 DEF ReadAll
<1>2. CASE UNCHANGED vars
  <2>1. UNCHANGED <<req, pc, i, ret, size, pos, text, plain, key, fs>>
    BY <1>2 DEF vars
  <2>2. \A c \in Call : /\ Used(c)' = Used(c) /\ HasRead(c)' = HasRead(c) /\ HasKey(c)' = HasKey(c)
                        /\ \A p : Kept(c, p)' = Kept(c, p)
    BY <2>1 DEF Used, HasRead, HasKey, Kept, Still, Unwritten
  <2> QED BY <2>1, <2>2 DEF ReadAll, InputOK, KeyOK
<1> QED BY <1>1, <1>2 DEF Next

\* Everything known of what is read.
Reads == TypeOK /\ Shape /\ Safe /\ InOrder /\ ("read" \notin Faults => ReadAll)

LEMMA ReadsInductive == (Init => Reads) /\ (Reads /\ [Next]_vars => Reads')
<1>1. Init => InOrder
  BY DEF Init, InOrder, AfterOK
<1>2. Init => ReadAll
  BY DEF Init, ReadAll, InputOK, KeyOK, HasRead, HasKey, Reading, Ended
<1> QED BY <1>1, <1>2, InitShape, InitSafe, ShapeStep, SafeStep, OrderStep, ReadStep DEF Reads

\* For any number of calls, threads and bytes: when no read comes up short
\* and nobody else writes the file, the fragments are the whole input, the
\* remainder of the division included (crypt.c:85-112), and the key is the
\* whole key file (crypt.c:133).
THEOREM CallsReadAll == Spec => []ReadsWholeInput
<1>1. Reads => ReadsWholeInput
  <2> SUFFICES ASSUME Reads, NEW c \in Call, "read" \notin Faults
               PROVE  /\ /\ pc[c] \in {"open_key", "read_key", "alloc_threads", "spawn",
                                       "wait", "open_output"}
                         /\ OnlyWriter(c, req[c].in)
                         => \A t \in Used(c) :
                              plain[c][t] = Piece(fs[req[c].in], req[c].n, t)
                      /\ /\ pc[c] \in {"alloc_threads", "spawn", "wait", "open_output"}
                         /\ OnlyWriter(c, req[c].key)
                         => key[c] = fs[req[c].key]
    BY DEF ReadsWholeInput
  <2>1. \A p : OnlyWriter(c, p) => Still(c, p)
    BY DEF OnlyWriter, Still
  <2>2. pc[c] \in {"open_key", "read_key", "alloc_threads", "spawn", "wait", "open_output"}
          => HasRead(c) /\ \A p : Unwritten(c, p)
    BY DEF HasRead, Reading, Unwritten, Writes, Terminal
  <2>3. pc[c] \in {"alloc_threads", "spawn", "wait", "open_output"} => HasKey(c)
    BY DEF HasKey, HasRead, Reading
  <2>4. InputOK(c) /\ KeyOK(c)
    BY DEF Reads, ReadAll
  <2> QED BY <2>1, <2>2, <2>3, <2>4 DEF InputOK, KeyOK, Kept
<1> QED BY <1>1, ReadsInductive, PTL DEF Spec

-----------------------------------------------------------------------------
(* The writes: as long as none comes up short and no other call writes the   *)
(* file, the output starts with the encryption of what was read.             *)

\* The call writes, or has written, and has not failed.
Writing(c) == pc[c] = "write" \/ (pc[c] \in Ended /\ ret[c] = "OK")

Cipher(c) == Encrypt(Plain(c), key[c], req[c].n)

\* What the call works with is whole.
Whole(c) ==
  /\ req[c].n > 0 /\ (size[c] > 0 => key[c] # <<>>)
  /\ \A t \in Used(c) : Len(plain[c][t]) = FragLen(c, t)

OutputOK(c) ==
  Writing(c) =>
    /\ Whole(c)
    /\ pos[c] <= Written(c)
    /\ pos[c] = Written(c) /\ OnlyWriter(c, req[c].out) =>
         /\ pos[c] <= Len(fs[req[c].out])
         /\ \A p \in 1 .. pos[c] : fs[req[c].out][p] = Cipher(c)[p]

Outputs == \A c \in Call : OutputOK(c)

LEMMA WritingFrom ==
  ASSUME TypeOK, Shape, NEW c \in Call, MainStep(c), Writing(c)'
  PROVE  OpenOutput(c) \/ WriteFragment(c) \/ (Writing(c) /\ (Cleanup(c) \/ Final(c)))
<1> USE DEF Writing, Ended
<1>1. ~(CopyPath(c) \/ OpenInput(c) \/ SplitInput(c) \/ AllocFragments(c))
  BY GotoEffect, FailEffect
  DEF CopyPath, OpenInput, SplitInput, AllocFragments, Continue, Bail, Oops
<1>2. ~(OpenKey(c) \/ ReadKey(c) \/ AllocThreads(c))
  BY GotoEffect, FailEffect DEF OpenKey, ReadKey, AllocThreads, Continue, Bail
<1>3. ~ReadFragment(c) /\ ~WaitThread(c)
  <2>1. ReadFragment(c) \/ WaitThread(c) =>
          /\ pc[c] \in {"read", "wait"} /\ i[c] \in Used(c)
          /\ Turn(c, "open_key") \/ Turn(c, "open_output")
    BY DEF ReadFragment, WaitThread, Shape, LoopOK
  <2> QED BY <2>1, TurnEffect
<1>4. ~SpawnThread(c)
  <2>1. SpawnThread(c) => pc[c] = "spawn" /\ i[c] \in Used(c)
    BY DEF SpawnThread, Shape, LoopOK
  <2>2. SpawnThread(c) => Turn(c, "wait") \/ (pc'[c] = "cleanup" /\ ret'[c] # "OK")
    BY FailEffect DEF SpawnThread
  <2> QED BY <2>1, <2>2, TurnEffect
<1>5. Cleanup(c) \/ Final(c) => Writing(c)
  <2>1. Cleanup(c) \/ Final(c) =>
          pc[c] \in {"cleanup", "final"} /\ pc'[c] # "write" /\ ret' = ret
    BY GotoEffect DEF Cleanup, Final, Continue
  <2> QED BY <2>1
<1> QED BY <1>1, <1>2, <1>3, <1>4, <1>5 DEF MainStep

\* The text of a call, and what is to be made of it, byte by byte.
LEMMA CipherAt ==
  ASSUME TypeOK, NEW c \in Call, Whole(c)
  PROVE  /\ Plain(c) \in Seq(Byte) /\ Len(Plain(c)) = size[c] /\ size[c] \in Nat
         /\ \A t \in Used(c) : \A j \in 1 .. FragLen(c, t) :
              LET p == FragmentStart(size[c], req[c].n, t) + j IN
              /\ p \in 1 .. size[c]
              /\ Plain(c)[p] = plain[c][t][j]
              /\ Cipher(c)[p] = Xor(plain[c][t][j], KeyAt(key[c], j))
<1> DEFINE len == size[c]
           n == req[c].n
           f == plain[c]
<1>1. len \in Nat /\ n \in Nat \ {0} /\ Used(c) = 0 .. n - 1
  BY Arguments DEF TypeOK, Whole, Used
<1>2. \A t \in 0 .. n - 1 : f[t] \in Seq(Byte) /\ Len(f[t]) = FragmentSize(len, n, t)
  BY <1>1, Arguments DEF TypeOK, Whole, FragLen
<1>3. Plain(c) = Join(f, len, n)
  BY DEF Plain
<1> HIDE DEF len, n, f
<1>4. Plain(c) \in Seq(Byte) /\ Len(Plain(c)) = len
  BY <1>1, <1>2, <1>3, JoinSeq
<1>5. ASSUME NEW t \in Used(c), NEW j \in 1 .. FragmentSize(len, n, t)
      PROVE  LET p == FragmentStart(len, n, t) + j IN
              /\ p \in 1 .. len
              /\ Plain(c)[p] = f[t][j]
              /\ Encrypt(Plain(c), key[c], n)[p] = Xor(f[t][j], KeyAt(key[c], j))
  <2> DEFINE p == FragmentStart(len, n, t) + j
  <2>1. t \in 0 .. n - 1
    BY <1>1
  <2>2. p \in 1 .. len /\ Join(f, len, n)[p] = f[t][j]
    BY <1>1, <2>1, JoinAt
  <2>3. Encrypt(Plain(c), key[c], n)[p] = Xor(Plain(c)[p], KeyAt(key[c], j))
    BY <1>1, <1>4, <2>1, EncryptAt
  <2> QED BY <1>3, <2>2, <2>3
<1> QED BY <1>1, <1>4, <1>5 DEF len, n, f, FragLen, Cipher

\* A call begins to write.
LEMMA OpenOutputs ==
  ASSUME TypeOK, Shape, Work, NEW c \in Call, OpenOutput(c)
  PROVE  OutputOK(c)'
<1>1. pc[c] = "open_output" /\ req' = req /\ UNCHANGED <<size, key, plain>>
  BY DEF OpenOutput
<1>2. CASE Bail(c, "EOPEN")
  BY <1>2, FailEffect DEF Bail, OutputOK, Writing, Ended
<1>3. CASE pos' = [pos EXCEPT ![c] = 0] /\ Continue(c, "write")
  <2>1. pos'[c] = 0 /\ pc'[c] = "write" /\ i'[c] = 0
    BY <1>3, GotoEffect DEF Continue, TypeOK
  <2>2. req[c].n \in Nat \ {0} /\ size[c] \in Nat /\ Used(c) = 0 .. req[c].n - 1
    BY <1>1, Arguments DEF TypeOK, Shape, CountOK, Counted, Used
  <2>3. Written(c)' = 0
    <3>1. size[c] \div req[c].n \in Nat
      BY <2>2, DivMod
    <3>2. FragmentStart(size[c], req[c].n, 0) = 0
      BY <3>1 DEF FragmentStart
    <3> QED BY <1>1, <2>1, <3>2 DEF Written
  <2>4. size[c] > 0 => key[c] # <<>>
    <3> SUFFICES ASSUME size[c] > 0 PROVE key[c] # <<>>
      OBVIOUS
    <3>1. PICK t \in Used(c) : FragLen(c, t) > 0 /\ FragLen(c, t) \in Nat
      <4>1. PICK t \in 0 .. req[c].n - 1 :
              1 - FragmentStart(size[c], req[c].n, t) \in 1 .. FragmentSize(size[c], req[c].n, t)
        <5> DEFINE len == size[c]
                   n == req[c].n
        <5>1. len \in Nat /\ n \in Nat \ {0} /\ 1 \in 1 .. len
          BY <2>2
        <5> HIDE DEF len, n
        <5>2. \E t \in 0 .. n - 1 : 1 - FragmentStart(len, n, t) \in 1 .. FragmentSize(len, n, t)
          BY <5>1, ByteOfFragment
        <5> QED BY <5>2 DEF len, n
      <4>2. FragmentSize(size[c], req[c].n, t) \in Nat
        BY <2>2, FragmentBounds
      <4> QED BY <2>2, <4>1, <4>2 DEF FragLen
    <3>2. idx[c][t] >= FragLen(c, t)
      BY <1>1 DEF Work, WorkOK, WaitedOK
    <3> QED BY <3>1, <3>2 DEF Work, WorkOK
  <2>5. \A t \in Used(c) : Len(plain[c][t]) = FragLen(c, t)
    BY <1>1, WorkDone
  <2>6. Used(c)' = Used(c) /\ \A t \in Used(c) : FragLen(c, t)' = FragLen(c, t)
    BY <1>1 DEF Used, FragLen
  <2>7. Whole(c)'
    BY <1>1, <2>2, <2>4, <2>5, <2>6 DEF Whole
  <2>8. Len(fs'[req'[c].out]) \in Nat
    BY <1>1, Arguments, FileSeq DEF OpenOutput
  <2> QED BY <2>1, <2>3, <2>7, <2>8 DEF OutputOK
<1> QED BY <1>2, <1>3 DEF OpenOutput

\* One write: what is in the file grows by a whole fragment, or too little.
LEMMA WriteOutputs ==
  ASSUME TypeOK, Shape, Work, NEW c \in Call, OutputOK(c), WriteFragment(c)
  PROVE  OutputOK(c)'
<1> DEFINE n == req[c].n
           t == i[c]
           len == FragLen(c, t)
           start == FragmentStart(size[c], n, t)
           out == req[c].out
           s == fs[out]
           d(m) == SubSeq(text[c][t], 1, m)
<1>0. /\ pc[c] = "write" /\ req' = req /\ UNCHANGED <<size, key, plain, ret, text>>
      /\ t \in Used(c) /\ Turn(c, "cleanup") /\ Whole(c)
  BY DEF WriteFragment, Turn, Shape, LoopOK, OutputOK, Writing
<1>1. /\ n \in Nat \ {0} /\ t \in 0 .. n - 1 /\ size[c] \in Nat /\ pos[c] \in Nat
      /\ start \in Nat /\ len \in Nat /\ start + len <= size[c]
      /\ t < n - 1 => FragmentStart(size[c], n, t + 1) = start + len
      /\ t = n - 1 => start + len = size[c]
  <2>1. /\ n \in Nat \ {0} /\ t \in 0 .. n - 1 /\ size[c] \in Nat /\ pos[c] \in Nat
    BY <1>0, Arguments DEF TypeOK, Whole, Used
  <2> QED BY <2>1, FragmentBounds DEF FragLen
<1>2. pos[c] <= start
  BY <1>0 DEF OutputOK, Writing, Written
<1>3. /\ s \in Seq(Byte) /\ Len(s) \in Nat /\ pos[c] <= Len(s) /\ out \in Path
      /\ text[c][t] \in Seq(Byte) /\ Len(text[c][t]) = len
      /\ \A j \in 1 .. len : text[c][t][j] = Xor(plain[c][t][j], KeyAt(key[c], j))
  <2>1. Len(text[c][t]) = len /\ pos[c] <= Len(s)
    BY <1>0 DEF Shape, BufferOK, PosOK, Buffered, Counted
  <2> QED BY <1>0, <2>1, Arguments, FileSeq, BufferType, WorkDone
<1>4. PICK m \in 0 .. len :
        /\ fs' = [fs EXCEPT ![out] = Overwrite(@, pos[c], d(m))]
        /\ pos' = [pos EXCEPT ![c] = @ + m]
  <2>1. len \in 0 .. len
    BY <1>1
  <2> QED BY <2>1 DEF WriteFragment
<1>5. pos'[c] = pos[c] + m /\ fs'[out] = Overwrite(s, pos[c], d(m))
  BY <1>3, <1>4 DEF TypeOK
<1>6. Written(c)' = start + len
  <2>1. CASE pc'[c] = "cleanup" /\ t = n - 1
    BY <1>0, <1>1, <2>1 DEF Written
  <2>2. CASE pc'[c] = pc[c] /\ i'[c] = t + 1 /\ t + 1 \in Used(c)
    <3>1. t < n - 1
      BY <1>1, <2>2 DEF Used
    <3>2. Written(c)' = FragmentStart(size[c], n, t + 1)
      BY <1>0, <2>2 DEF Written
    <3> QED BY <1>1, <3>1, <3>2
  <2> QED BY <1>0, <2>1, <2>2, TurnEffect
<1>7. pos'[c] <= Written(c)'
  <2> HIDE DEF start, len
  <2> QED BY <1>1, <1>2, <1>5, <1>6
<1>8. ASSUME pos'[c] = Written(c)', OnlyWriter(c, out)
      PROVE  /\ pos'[c] <= Len(fs'[out])
             /\ \A p \in 1 .. pos'[c] : fs'[out][p] = Cipher(c)[p]
  <2>1. pos[c] = start /\ m = len
    <3> HIDE DEF start, len
    <3> QED BY <1>1, <1>2, <1>5, <1>6, <1>8
  <2>2. d(len) \in Seq(Byte) /\ Len(d(len)) = len /\ \A j \in 1 .. len : d(len)[j] = text[c][t][j]
    <3> HIDE DEF len
    <3> QED BY <1>1, <1>3
  <2> DEFINE new == Overwrite(s, pos[c], d(len))
  <2>3. new \in Seq(Byte) /\ Len(new) >= pos[c] + len
    BY <1>1, <1>3, <2>2, OverwriteSeq
  <2>4. /\ \A k \in 1 .. Len(s) : k <= pos[c] => new[k] = s[k]
        /\ \A j \in 1 .. len : new[pos[c] + j] = d(len)[j]
    <3> DEFINE w == d(len)
               q == pos[c]
    <3>1. w \in Seq(Byte) /\ Len(w) = len /\ q \in Nat /\ q <= Len(s) /\ s \in Seq(Byte)
      BY <1>1, <1>3, <2>2
    <3>2. new = Overwrite(s, q, w)
      OBVIOUS
    <3> HIDE DEF new, w, q, s, len
    <3>3. /\ \A k \in 1 .. Len(s) : k <= q => new[k] = s[k]
          /\ \A j \in 1 .. len : new[q + j] = w[j]
      BY <3>1, <3>2, OverwriteAt
    <3> QED BY <3>3 DEF w, q
  <2>5. \A p \in 1 .. pos[c] : s[p] = Cipher(c)[p]
    BY <1>0, <1>8, <2>1 DEF OutputOK, Writing, Written
  <2>6. \A j \in 1 .. len : Cipher(c)[start + j] = Xor(plain[c][t][j], KeyAt(key[c], j))
    BY <1>0, CipherAt
  <2> HIDE DEF new, d, start, len, s
  <2>7. ASSUME NEW p \in 1 .. start + len PROVE new[p] = Cipher(c)[p]
    <3>1. CASE p <= start
      BY <1>1, <1>3, <2>1, <2>4, <2>5, <3>1
    <3>2. CASE p > start
      <4>1. PICK j \in 1 .. len : p = start + j
        <5>1. p - start \in 1 .. len /\ p = start + (p - start)
          BY <1>1, <3>2
        <5> QED BY <5>1
      <4> QED BY <1>3, <2>1, <2>2, <2>4, <2>6, <4>1
    <3> QED BY <1>1, <3>1, <3>2
  <2>8. fs'[out] = new /\ pos'[c] = start + len
    BY <1>5, <2>1 DEF new, s
  <2> QED BY <2>1, <2>3, <2>7, <2>8
<1>9. /\ Cipher(c)' = Cipher(c) /\ (OnlyWriter(c, req[c].out)' <=> OnlyWriter(c, out))
      /\ Whole(c)'
  BY <1>0 DEF Cipher, Plain, OnlyWriter, Whole, Used, FragLen
<1> HIDE DEF start, len, s
<1> QED BY <1>0, <1>7, <1>8, <1>9 DEF OutputOK

\* A step that changes nothing that the call writes from or to.
LEMMA QuietOutputs ==
  ASSUME NEW c \in Call, OutputOK(c), req' = req, size'[c] = size[c], key'[c] = key[c],
         plain'[c] = plain[c], pos'[c] = pos[c], Writing(c)' => Writing(c),
         Writing(c)' => Written(c)' = Written(c),
         OnlyWriter(c, req[c].out) => fs'[req[c].out] = fs[req[c].out]
  PROVE  OutputOK(c)'
<1>1. /\ Cipher(c)' = Cipher(c) /\ (OnlyWriter(c, req[c].out)' <=> OnlyWriter(c, req[c].out))
      /\ Whole(c)' = Whole(c)
  BY DEF Cipher, Plain, OnlyWriter, Whole, Used, FragLen
<1> QED BY <1>1 DEF OutputOK

LEMMA OwnOutputs ==
  ASSUME TypeOK, Shape, Work, NEW c \in Call, OutputOK(c),
         MainStep(c) \/ \E t \in Thread : ThreadStep(c, t)
  PROVE  OutputOK(c)'
<1>1. CASE MainStep(c) /\ ~Writing(c)'
  BY <1>1 DEF OutputOK
<1>2. CASE OpenOutput(c) \/ WriteFragment(c)
  BY <1>2, OpenOutputs, WriteOutputs
<1>3. CASE Writing(c) /\ (Cleanup(c) \/ Final(c))
  <2>1. /\ req' = req /\ UNCHANGED <<size, key, plain, pos, fs>>
        /\ pc[c] # "write" /\ pc'[c] # "write"
    BY <1>3, GotoEffect DEF Cleanup, Final, Continue
  <2> QED BY <1>3, <2>1, QuietOutputs DEF Written
<1>4. CASE \E t \in Thread : ThreadStep(c, t)
  <2>1. req' = req /\ UNCHANGED <<pc, i, ret, size, key, plain, pos, fs>>
    BY <1>4 DEF ThreadStep, XorByte, Complete, UseFreed
  <2> QED BY <2>1, QuietOutputs DEF Writing, Written
<1> QED BY <1>1, <1>2, <1>3, <1>4, WritingFrom

LEMMA OthersOutputs ==
  ASSUME TypeOK, Shape, NEW c \in Call, NEW d \in Call \ {c}, OutputOK(c),
         MainStep(d) \/ \E t \in Thread : ThreadStep(d, t)
  PROVE  OutputOK(c)'
<1>1. /\ req' = req /\ pc'[c] = pc[c] /\ i'[c] = i[c] /\ size'[c] = size[c]
      /\ pos'[c] = pos[c] /\ key'[c] = key[c] /\ plain'[c] = plain[c] /\ ret'[c] = ret[c]
  BY OthersUnchanged, OthersWork, OthersCalm
<1>2. OnlyWriter(c, req[c].out) => fs'[req[c].out] = fs[req[c].out]
  <2>1. req[c].out \in Path
    BY Arguments
  <2> QED BY <2>1, FileChange DEF OnlyWriter
<1>3. (Writing(c)' <=> Writing(c)) /\ Written(c)' = Written(c)
  BY <1>1 DEF Writing, Written
<1> QED BY <1>1, <1>2, <1>3, QuietOutputs

LEMMA OutputStep == TypeOK /\ Shape /\ Work /\ Outputs /\ [Next]_vars => Outputs'
<1> SUFFICES ASSUME TypeOK, Shape, Work, Outputs, [Next]_vars PROVE Outputs'
  OBVIOUS
<1>1. ASSUME NEW c \in Call, MainStep(c) \/ \E t \in Thread : ThreadStep(c, t)
      PROVE  Outputs'
  BY <1>1, OwnOutputs, OthersOutputs DEF Outputs
<1>2. CASE UNCHANGED vars
  <2>1. UNCHANGED <<req, pc, i, ret, size, pos, plain, key, fs>>
    BY <1>2 DEF vars
  <2> QED BY <2>1, QuietOutputs DEF Outputs, Writing, Written
<1> QED BY <1>1, <1>2 DEF Next



\* The other text is as long as the text.
LEMMA CipherSeq ==
  ASSUME TypeOK, NEW c \in Call, Whole(c)
  PROVE  Cipher(c) \in Seq(Byte) /\ Len(Cipher(c)) = size[c]
<1> DEFINE len == size[c]
           n == req[c].n
           place(p) == p - FragmentStart(len, n, FragmentOf(len, n, p - 1))
           at(p) == Xor(Plain(c)[p], KeyAt(key[c], place(p)))
<1>1. len \in Nat /\ n \in Nat \ {0}
  <2>1. size[c] \in Nat
    BY DEF TypeOK
  <2>2. req[c].n \in Int /\ req[c].n > 0
    BY Arguments DEF Whole
  <2> QED BY <2>1, <2>2
<1>2. Plain(c) \in Seq(Byte) /\ Len(Plain(c)) = len
  BY CipherAt
<1>3. Cipher(c) = [p \in 1 .. len |-> at(p)]
  BY <1>2 DEF Cipher, Encrypt
<1>4. ASSUME NEW p \in 1 .. len PROVE at(p) \in Byte
  <2>1. place(p) \in Nat \ {0}
    <3>1. /\ FragmentOf(len, n, p - 1) \in 0 .. n - 1
          /\ place(p) \in 1 .. FragmentSize(len, n, FragmentOf(len, n, p - 1))
      BY <1>1, ByteOfFragment
    <3>2. FragmentSize(len, n, FragmentOf(len, n, p - 1)) \in Nat
      BY <1>1, <3>1, FragmentBounds
    <3> HIDE DEF place
    <3> QED BY <3>1, <3>2
  <2>2. key[c] \in Seq(Byte) /\ key[c] # <<>>
    BY <1>1, BufferType DEF Whole
  <2> HIDE DEF place
  <2>3. KeyAt(key[c], place(p)) \in Byte
    BY <2>1, <2>2, KeyAtByte
  <2>4. Plain(c)[p] \in Byte
    BY <1>2
  <2> QED BY <2>3, <2>4, XorAssumption
<1> HIDE DEF at
<1>5. Cipher(c) \in [1 .. len -> Byte]
  BY <1>3, <1>4
<1> HIDE DEF len
<1>6. Cipher(c) \in Seq(Byte) /\ Len(Cipher(c)) = len
  BY <1>1, <1>5, BufferSeq
<1> QED BY <1>6 DEF len

\* Two texts with the same first bytes have the same beginning.
LEMMA SamePrefix ==
  ASSUME NEW s \in Seq(Byte), NEW u \in Seq(Byte), NEW n \in Nat, n <= Len(s), n <= Len(u),
         \A p \in 1 .. n : s[p] = u[p]
  PROVE  SubSeq(s, 1, n) = SubSeq(u, 1, n)
<1> DEFINE a == SubSeq(s, 1, n)
           b == SubSeq(u, 1, n)
<1>1. a \in Seq(Byte) /\ Len(a) = n /\ \A p \in 1 .. n : a[p] = s[p]
  OBVIOUS
<1>2. b \in Seq(Byte) /\ Len(b) = n /\ \A p \in 1 .. n : b[p] = u[p]
  OBVIOUS
<1>3. \A p \in 1 .. n : a[p] = b[p]
  BY <1>1, <1>2
<1> HIDE DEF a, b
<1>4. a = b
  BY <1>1, <1>2, <1>3, SameSequence
<1> QED BY <1>4 DEF a, b

LEMMA WrittenBound ==
  ASSUME TypeOK, Shape, NEW c \in Call, Writing(c), Whole(c)
  PROVE  Written(c) <= size[c]
<1>1. size[c] \in Nat /\ req[c].n \in Nat \ {0}
  BY Arguments DEF TypeOK, Whole
<1>2. CASE pc[c] = "write"
  <2>1. i[c] \in 0 .. req[c].n - 1
    BY <1>2 DEF Shape, LoopOK, Used
  <2>2. /\ FragmentStart(size[c], req[c].n, i[c]) \in Nat
        /\ FragmentSize(size[c], req[c].n, i[c]) \in Nat
        /\ FragmentStart(size[c], req[c].n, i[c]) + FragmentSize(size[c], req[c].n, i[c])
             <= size[c]
    BY <1>1, <2>1, FragmentBounds
  <2>3. Written(c) = FragmentStart(size[c], req[c].n, i[c])
    BY <1>2 DEF Written
  <2> QED BY <1>1, <2>2, <2>3
<1> QED BY <1>1, <1>2 DEF Written

\* For any number of calls, threads and bytes: as long as no write comes up
\* short and no other call writes the same file, the output starts with the
\* encryption of the text that was read, first up to the fragment being
\* written and then in whole (crypt.c:198-235).
THEOREM CallsWriteCipher == Spec => []OutputIsEncrypted
<1>1. Init => TypeOK /\ Shape /\ Work /\ Outputs
  BY InitShape, InitWork DEF Init, Outputs, OutputOK, Writing, Ended
<1>2. TypeOK /\ Shape /\ Work /\ Outputs /\ [Next]_vars
        => (TypeOK /\ Shape /\ Work /\ Outputs)'
  BY ShapeStep, WorkStep, OutputStep
<1>3. TypeOK /\ Shape /\ Outputs => OutputIsEncrypted
  <2> SUFFICES ASSUME TypeOK, Shape, Outputs, NEW c \in Call,
                      pc[c] \in {"write", "cleanup", "final", "returned"}, ret[c] = "OK",
                      pos[c] = Written(c), OnlyWriter(c, req[c].out)
               PROVE  SubSeq(fs[req[c].out], 1, pos[c]) = SubSeq(Cipher(c), 1, pos[c])
    BY DEF OutputIsEncrypted, Cipher
  <2> DEFINE s == fs[req[c].out]
             u == Cipher(c)
             m == pos[c]
  <2>1. Writing(c)
    BY DEF Writing, Ended
  <2>2. Whole(c) /\ m <= Len(s) /\ \A p \in 1 .. m : s[p] = u[p]
    BY <2>1 DEF Outputs, OutputOK
  <2>3. m \in Nat /\ m <= size[c]
    BY <2>1, <2>2, WrittenBound DEF TypeOK
  <2>4. s \in Seq(Byte) /\ u \in Seq(Byte) /\ m <= Len(u)
    BY <2>2, <2>3, CipherSeq, Arguments, FileSeq
  <2> HIDE DEF s, u, m
  <2>5. SubSeq(s, 1, m) = SubSeq(u, 1, m)
    BY <2>2, <2>3, <2>4, SamePrefix
  <2> QED BY <2>5 DEF s, u, m
<1> QED BY <1>1, <1>2, <1>3, PTL DEF Spec

-----------------------------------------------------------------------------
(* There and back.                                                           *)

\* What a call that read everything has read is the input.
LEMMA PlainIsInput ==
  ASSUME TypeOK, Shape, NEW c \in Call, InputOK(c), HasRead(c), Whole(c), Kept(c, req[c].in)
  PROVE  Plain(c) = fs[req[c].in] /\ size[c] = Len(fs[req[c].in])
<1> DEFINE s == fs[req[c].in]
           n == req[c].n
           f == plain[c]
<1>1. s \in Seq(Byte) /\ n \in Nat \ {0} /\ Used(c) = 0 .. n - 1
  BY Arguments, FileSeq DEF Whole, Used
<1>2. size[c] = Len(s) /\ \A t \in 0 .. n - 1 : f[t] = Piece(s, n, t)
  BY <1>1 DEF InputOK
<1> HIDE DEF s, n, f
<1>3. Join(f, Len(s), n) = s
  BY <1>1, <1>2, WholeOfPieces
<1> QED BY <1>2, <1>3 DEF Plain, s, n, f

\* Encrypting twice with the same key and number of threads gives the text
\* back: the bytes fall in the same places of the same fragments.
LEMMA TwiceIsPlain ==
  ASSUME TypeOK, NEW c \in Call, NEW d \in Call, Whole(c), Whole(d),
         size[d] = size[c], req[d].n = req[c].n, key[d] = key[c],
         \A p \in 1 .. size[c] : Plain(d)[p] = Cipher(c)[p]
  PROVE  \A p \in 1 .. size[c] : Cipher(d)[p] = Plain(c)[p]
<1> SUFFICES ASSUME NEW p \in 1 .. size[c] PROVE Cipher(d)[p] = Plain(c)[p]
  OBVIOUS
<1> DEFINE len == size[c]
           n == req[c].n
           t == FragmentOf(len, n, p - 1)
           j == p - FragmentStart(len, n, t)
           k == KeyAt(key[c], j)
<1>1. len \in Nat /\ n \in Nat \ {0}
  BY Arguments DEF TypeOK, Whole
<1>2. Plain(c) \in Seq(Byte) /\ Len(Plain(c)) = len /\ Len(Plain(d)) = len
  BY CipherAt
<1>3. Cipher(c)[p] = Xor(Plain(c)[p], k) /\ Cipher(d)[p] = Xor(Plain(d)[p], k)
  BY <1>2 DEF Cipher, Encrypt
<1>4. k \in Byte
  <2>1. t \in 0 .. n - 1 /\ j \in 1 .. FragmentSize(len, n, t)
    BY <1>1, ByteOfFragment
  <2>2. FragmentSize(len, n, t) \in Nat
    BY <1>1, <2>1, FragmentBounds
  <2> HIDE DEF j, t
  <2>3. j \in Nat \ {0}
    BY <2>1, <2>2
  <2> QED BY <1>1, <2>3, BufferType, KeyAtByte DEF Whole
<1> HIDE DEF k
<1>5. Plain(c)[p] \in Byte
  BY <1>2
<1>6. Plain(d)[p] = Cipher(c)[p]
  OBVIOUS
<1>7. Xor(Xor(Plain(c)[p], k), k) = Plain(c)[p]
  BY <1>4, <1>5, XorAssumption
<1> QED BY <1>3, <1>6, <1>7

\* For any number of calls, threads and bytes: my_decrypt of what my_encrypt
\* wrote, with the same key and the same number of threads, gives the text
\* back (crypt.c:238-249), provided the encrypted file was not longer before.
THEOREM CallsRoundTrip == Spec => []RoundTrip
<1>1. Init => Reads /\ Work /\ Outputs
  BY InitShape, InitWork, ReadsInductive DEF Init, Outputs, OutputOK, Writing, Ended
<1>2. Reads /\ Work /\ Outputs /\ [Next]_vars => (Reads /\ Work /\ Outputs)'
  BY ReadsInductive, WorkStep, OutputStep DEF Reads
<1>3. Reads /\ Outputs => RoundTrip
  <2> SUFFICES ASSUME Reads, Outputs, NEW c \in Call, NEW d \in Call,
                      c \in req[d].after, c # d, req[d].in = req[c].out,
                      req[d].key = req[c].key, req[d].n = req[c].n,
                      \A e \in {c, d} : pc[e] = "returned" /\ ret[e] = "OK" /\ pos[e] = size[e],
                      "read" \notin Faults, size[d] = size[c],
                      \A p \in {req[c].out, req[c].key} : OnlyWriter(c, p),
                      req[c].out # req[c].key, OnlyWriter(d, req[d].out)
               PROVE  SubSeq(fs[req[d].out], 1, size[c]) = Plain(c)
    BY DEF RoundTrip
  <2>1. TypeOK /\ Shape /\ ReadAll
    BY DEF Reads
  <2>2. ASSUME NEW e \in {c, d}
        PROVE  /\ HasRead(e) /\ HasKey(e) /\ Whole(e) /\ OnlyWriter(e, req[e].out)
               /\ size[e] <= Len(fs[req[e].out])
               /\ \A p \in 1 .. size[e] : fs[req[e].out][p] = Cipher(e)[p]
    BY DEF HasRead, HasKey, Ended, Outputs, OutputOK, Writing, Written
  <2>3. Kept(d, req[d].in)
    BY DEF Kept, Still, Unwritten, OnlyWriter
  <2>4. Plain(d) = fs[req[c].out] /\ size[d] = Len(fs[req[c].out])
    BY <2>1, <2>2, <2>3, PlainIsInput DEF ReadAll
  <2>5. key[d] = key[c]
    <3>1. Kept(c, req[c].key) /\ Kept(d, req[d].key)
      BY DEF Kept, Still, Unwritten, OnlyWriter
    <3> QED BY <2>1, <2>2, <3>1 DEF ReadAll, KeyOK
  <2>6. \A p \in 1 .. size[c] : Cipher(d)[p] = Plain(c)[p]
    <3>1. \A p \in 1 .. size[c] : Plain(d)[p] = Cipher(c)[p]
      BY <2>2, <2>4
    <3> QED BY <2>1, <2>2, <2>5, <3>1, TwiceIsPlain
  <2> DEFINE s == fs[req[d].out]
             u == Plain(c)
             m == size[c]
  <2>7. s \in Seq(Byte) /\ u \in Seq(Byte) /\ Len(u) = m /\ m \in Nat /\ m <= Len(s)
    BY <2>1, <2>2, CipherAt, Arguments, FileSeq
  <2>8. \A p \in 1 .. m : s[p] = u[p]
    BY <2>2, <2>6
  <2> HIDE DEF s, u, m
  <2>9. SubSeq(s, 1, m) = u
    <3>1. SubSeq(s, 1, m) = SubSeq(u, 1, m)
      BY <2>7, <2>8, SamePrefix
    <3>2. SubSeq(u, 1, m) = u
      BY <2>7
    <3> QED BY <3>1, <3>2
  <2> QED BY <2>9 DEF s, u, m
<1>4. Reads => TypeOK /\ Shape
  BY DEF Reads
<1> QED BY <1>1, <1>2, <1>3, <1>4, PTL DEF Spec

-----------------------------------------------------------------------------
(* The promise to the program: when nothing fails, every step of a call is   *)
(* a step of CryptService or changes nothing that CryptService shows.        *)

\* What the refinement is proved under: no failure, at least one thread, and
\* no call that writes the key of another beside it.
Smooth ==
  /\ Faults = {}
  /\ \A s \in Scenario : \A c \in Call :
       /\ s[c].n > 0
       /\ \A d \in Call \ {c} : s[d].out = s[c].key => d \in s[c].after

\* A call that has not failed reads and writes each fragment where it starts.
FlowAt(c) ==
  /\ pc[c] \in {"split", "alloc_fragments"} => pos[c] = 0
  /\ pc[c] \in {"split", "alloc_fragments", "read"} => size[c] <= Len(fs[req[c].in])
  /\ pc[c] \in {"read", "write"} => pos[c] = FragmentStart(size[c], req[c].n, i[c])
  /\ ret[c] = "OK"

Flow == \A c \in Call : FlowAt(c)

LEMMA SmoothCalls ==
  ASSUME Smooth, TypeOK, NEW c \in Call
  PROVE  req[c].n > 0 /\ Faults = {} /\ Still(c, req[c].key)
BY DEF Smooth, TypeOK, Still

\* The turns of a loop over the fragments start where the fragments start.
LEMMA TurnStart ==
  ASSUME TypeOK, NEW c \in Call, NEW l, Turn(c, l), i[c] \in Used(c), req[c].n > 0
  PROVE  LET start == FragmentStart(size[c], req[c].n, i[c]) IN
         /\ start \in Nat /\ FragLen(c, i[c]) \in Nat /\ start + FragLen(c, i[c]) <= size[c]
         /\ \/ pc'[c] = l /\ start + FragLen(c, i[c]) = size[c]
            \/ /\ pc'[c] = pc[c] /\ i'[c] \in Used(c)
               /\ FragmentStart(size[c], req[c].n, i'[c]) = start + FragLen(c, i[c])
<1> DEFINE n == req[c].n
           t == i[c]
           len == size[c]
<1>1. n \in Nat \ {0} /\ t \in 0 .. n - 1 /\ len \in Nat
  BY Arguments DEF TypeOK, Used
<1>2. /\ FragmentStart(len, n, t) \in Nat
      /\ FragmentSize(len, n, t) \in Nat
      /\ FragmentStart(len, n, t) + FragmentSize(len, n, t) <= len
      /\ t < n - 1 => FragmentStart(len, n, t + 1)
                        = FragmentStart(len, n, t) + FragmentSize(len, n, t)
      /\ t = n - 1 => FragmentStart(len, n, t) + FragmentSize(len, n, t) = len
  BY <1>1, FragmentBounds
<1>3. CASE pc'[c] = l /\ t = n - 1
  BY <1>2, <1>3 DEF FragLen
<1>4. CASE pc'[c] = pc[c] /\ i'[c] = t + 1 /\ t + 1 \in Used(c)
  <2>1. t < n - 1
    BY <1>1, <1>4 DEF Used
  <2> QED BY <1>2, <1>4, <2>1 DEF FragLen
<1> QED BY <1>3, <1>4, TurnEffect


\* What a step may do to what CryptService shows of its call.
Same(c) == Taken(c)' = Taken(c) /\ Other(c)' = Other(c) /\ Done(c)' = Done(c) /\ fs' = fs

TakeStep(c) ==
  LET s == fs[req[c].in] IN
  /\ Other(c) = <<>> /\ Other(c)' = Other(c) /\ Done(c)' = Done(c) /\ fs' = fs
  /\ \E n \in Len(Taken(c)) + 1 .. Len(s) :
       Taken(c)' = Taken(c) \o SubSeq(s, Len(Taken(c)) + 1, n)

MakeStep(c) ==
  /\ Other(c) = <<>> /\ Taken(c)' = Taken(c) /\ Done(c)' = Done(c) /\ fs' = fs
  /\ Other(c)' = Encrypt(Taken(c), fs[req[c].key], req[c].n)

PutStep(c) ==
  /\ Taken(c)' = Taken(c) /\ Other(c)' = Other(c)
  /\ \E n \in Done(c) + 1 .. Len(Other(c)) :
       /\ fs' = [fs EXCEPT ![req[c].out] =
                   Overwrite(@, Done(c), SubSeq(Other(c), Done(c) + 1, n))]
       /\ Done(c)' = n

ServiceStep(c) == Same(c) \/ TakeStep(c) \/ MakeStep(c) \/ PutStep(c)

\* The labels where the text and its encryption are fixed.
Fixed == {"alloc_threads", "spawn", "wait", "open_output", "write", "cleanup", "final",
          "returned"}

\* A step that stays on one side of the reads, and of the key, and does not write.
LEMMA QuietService ==
  ASSUME NEW c \in Call, req' = req, fs' = fs,
         \/ pc[c] \in Before /\ pc'[c] \in Before
         \/ /\ pc[c] \in Fixed \ {"write"} /\ pc'[c] \in Fixed \ {"write"}
            /\ pc[c] \in {"cleanup", "final", "returned"}
                 <=> pc'[c] \in {"cleanup", "final", "returned"}
            /\ size'[c] = size[c] /\ plain'[c] = plain[c] /\ key'[c] = key[c]
  PROVE  Same(c)
<1>1. CASE pc[c] \in Before /\ pc'[c] \in Before
  BY <1>1 DEF Same, Taken, Other, Done, Before
<1>2. CASE /\ pc[c] \in Fixed \ {"write"} /\ pc'[c] \in Fixed \ {"write"}
           /\ pc[c] \in {"cleanup", "final", "returned"}
                <=> pc'[c] \in {"cleanup", "final", "returned"}
           /\ size'[c] = size[c] /\ plain'[c] = plain[c] /\ key'[c] = key[c]
  BY <1>2 DEF Same, Taken, Other, Done, Before, Fixed, Plain
<1> QED BY <1>1, <1>2

LEMMA StartService ==
  ASSUME TypeOK, Shape, Smooth, NEW c \in Call, FlowAt(c),
         CopyPath(c) \/ OpenInput(c) \/ SplitInput(c)
  PROVE  FlowAt(c)' /\ ServiceStep(c)
<1> USE DEF FlowAt
<1>0. req[c].n > 0 /\ req[c].n \in Int /\ Faults = {} /\ req' = req /\ fs' = fs
  BY SmoothCalls, Arguments DEF CopyPath, OpenInput, SplitInput
<1>1. CASE CopyPath(c)
  <2>1. pc[c] = "paths" /\ pc'[c] \in {"paths", "open_input"} /\ ret' = ret
    BY <1>0, <1>1, GotoEffect DEF CopyPath, Continue
  <2>2. Same(c)
    BY <1>0, <2>1, QuietService DEF Before
  <2> QED BY <2>1, <2>2 DEF ServiceStep
<1>2. CASE OpenInput(c)
  <2>1. /\ pc[c] = "open_input" /\ pc'[c] = "split" /\ ret' = ret
        /\ size'[c] = Len(fs[req[c].in]) /\ pos'[c] = 0
    BY <1>0, <1>2, GotoEffect DEF OpenInput, Continue, TypeOK
  <2>2. Same(c)
    BY <1>0, <2>1, QuietService DEF Before
  <2>3. Len(fs[req[c].in]) \in Nat
    BY Arguments, FileSeq
  <2> QED BY <1>0, <2>1, <2>2, <2>3 DEF ServiceStep
<1>3. CASE SplitInput(c)
  <2>1. /\ pc[c] = "split" /\ pc'[c] = "alloc_fragments" /\ ret' = ret
        /\ size' = size /\ pos' = pos
    BY <1>0, <1>3, GotoEffect DEF SplitInput, Continue
  <2>2. Same(c)
    BY <1>0, <2>1, QuietService DEF Before
  <2> QED BY <1>0, <2>1, <2>2 DEF ServiceStep
<1> QED BY <1>1, <1>2, <1>3

LEMMA AllocService ==
  ASSUME TypeOK, Shape, Smooth, NEW c \in Call, FlowAt(c), AllocFragments(c)
  PROVE  FlowAt(c)' /\ ServiceStep(c)
<1>0. /\ req[c].n > 0 /\ req[c].n \in Int /\ size[c] \in Nat /\ Faults = {}
      /\ req' = req /\ fs' = fs /\ size' = size /\ pos' = pos
  BY SmoothCalls, Arguments DEF AllocFragments, TypeOK
<1>1. pc[c] = "alloc_fragments" /\ pc'[c] = "read" /\ i'[c] = 0 /\ ret' = ret /\ pos[c] = 0
  BY <1>0, GotoEffect DEF AllocFragments, Continue, FlowAt
<1>2. FragmentStart(size[c], req[c].n, 0) = 0
  <2>1. size[c] \div req[c].n \in Nat
    BY <1>0, DivMod
  <2> QED BY <2>1 DEF FragmentStart
<1>3. FlowAt(c)'
  BY <1>0, <1>1, <1>2 DEF FlowAt
<1>4. Taken(c)' = <<>>
  <2> DEFINE J == Join(text'[c], size[c], req[c].n)
  <2>1. /\ ShapeAt(c)' /\ TypeOK'
    BY OwnShapeAlloc, AllocFragmentsType
  <2>2. \A t \in 0 .. req[c].n - 1 :
          text'[c][t] \in Seq(Byte) /\ Len(text'[c][t]) = FragmentSize(size[c], req[c].n, t)
    <3>1. Used(c)' = 0 .. req[c].n - 1 /\ Used(c) = Used(c)'
      BY <1>0 DEF Used
    <3>2. pc'[c] \in Buffered
      BY <1>1 DEF Buffered, Counted
    <3>3. \A t \in Used(c)' : Len(text'[c][t]) = FragLen(c, t)'
      BY <2>1, <3>2 DEF ShapeAt, BufferOK
    <3>4. \A t \in Used(c) : text'[c][t] \in Seq(Byte)
      BY <2>1, Arguments DEF TypeOK
    <3> QED BY <1>0, <3>1, <3>3, <3>4 DEF FragLen
  <2>3. J \in Seq(Byte)
    BY <1>0, <2>2, JoinSeq
  <2>4. Taken(c)' = SubSeq(J, 1, 0)
    BY <1>0, <1>1 DEF Taken, Before
  <2> HIDE DEF J
  <2> QED BY <2>3, <2>4
<1>5. Same(c)
  BY <1>0, <1>1, <1>4 DEF Same, Taken, Other, Done, Before
<1> QED BY <1>3, <1>5 DEF ServiceStep

\* Fragments are laid out in their order.
LEMMA StartsInOrder ==
  ASSUME NEW len \in Nat, NEW n \in Nat \ {0}, NEW t \in Nat, NEW u \in Nat, t <= u
  PROVE  FragmentStart(len, n, t) <= FragmentStart(len, n, u)
<1> DEFINE q == len \div n
<1>1. q \in Nat
  BY DivMod
<1> HIDE DEF q
<1>2. t * q <= u * q
  BY <1>1
<1> QED BY <1>2 DEF FragmentStart, q

\* f holds n fragments of a file of len bytes; g differs from f in one.
Fits(f, len, n) ==
  \A u \in 0 .. n - 1 : f[u] \in Seq(Byte) /\ Len(f[u]) = FragmentSize(len, n, u)
Grows(f, g, len, n, t) ==
  SubSeq(Join(g, len, n), 1, FragmentStart(len, n, t) + FragmentSize(len, n, t))
    = SubSeq(Join(f, len, n), 1, FragmentStart(len, n, t)) \o g[t]
AgreeBut(f, g, n, t) == \A u \in (0 .. n - 1) \ {t} : g[u] = f[u]

LEMMA ConcatAt ==
  ASSUME NEW x \in Seq(Byte), NEW y \in Seq(Byte)
  PROVE  /\ x \o y \in Seq(Byte) /\ Len(x \o y) = Len(x) + Len(y)
         /\ \A p \in 1 .. Len(x) + Len(y) :
              (x \o y)[p] = IF p <= Len(x) THEN x[p] ELSE y[p - Len(x)]
OBVIOUS

\* Filling one fragment adds its bytes to the part before it.
LEMMA JoinGrows ==
  ASSUME NEW len \in Nat, NEW n \in Nat \ {0}, NEW f, NEW g, NEW t \in 0 .. n - 1,
         Fits(f, len, n), Fits(g, len, n), AgreeBut(f, g, n, t)
  PROVE  Grows(f, g, len, n, t)
<1> DEFINE a == FragmentStart(len, n, t)
           m == FragmentSize(len, n, t)
           J == Join(f, len, n)
           K == Join(g, len, n)
           x == SubSeq(J, 1, a) \o g[t]
           y == SubSeq(K, 1, a + m)
           d == g[t]
<1>0. /\ \A u \in 0 .. n - 1 : f[u] \in Seq(Byte) /\ Len(f[u]) = FragmentSize(len, n, u)
      /\ \A u \in 0 .. n - 1 : g[u] \in Seq(Byte) /\ Len(g[u]) = FragmentSize(len, n, u)
      /\ \A u \in (0 .. n - 1) \ {t} : g[u] = f[u]
  BY DEF Fits, AgreeBut
<1>1. a \in Nat /\ m \in Nat /\ a + m <= len
  BY FragmentBounds
<1>2. J \in Seq(Byte) /\ Len(J) = len
  BY <1>0, JoinSeq
<1>3. K \in Seq(Byte) /\ Len(K) = len
  BY <1>0, JoinSeq
<1>4. ASSUME NEW p \in 1 .. a PROVE K[p] = J[p]
  <2>1. p \in 1 .. len
    BY <1>1
  <2>2. PICK u \in 0 .. n - 1 :
          p - FragmentStart(len, n, u) \in 1 .. FragmentSize(len, n, u)
    BY <2>1, ByteOfFragment
  <2>3. FragmentStart(len, n, u) \in Nat
    BY FragmentBounds
  <2> DEFINE j == p - FragmentStart(len, n, u)
  <2>4. FragmentStart(len, n, u) + j = p
    BY <2>3
  <2>5. u # t
    <3> SUFFICES ASSUME u = t PROVE FALSE
      OBVIOUS
    <3>1. p - a \in 1 .. m
      BY <2>2
    <3> HIDE DEF a, m
    <3> QED BY <1>1, <3>1
  <2>6. K[p] = g[u][j] /\ J[p] = f[u][j]
    <3> HIDE DEF J, K, j
    <3>1. K[FragmentStart(len, n, u) + j] = g[u][j]
      BY <2>2, JoinAt DEF K, j
    <3>2. J[FragmentStart(len, n, u) + j] = f[u][j]
      BY <2>2, JoinAt DEF J, j
    <3> QED BY <2>4, <3>1, <3>2
  <2> QED BY <1>0, <2>5, <2>6
<1>5. ASSUME NEW j \in 1 .. m PROVE K[a + j] = d[j]
  <2>1. j \in 1 .. FragmentSize(len, n, t)
    OBVIOUS
  <2> QED BY <2>1, JoinAt
<1>6. d \in Seq(Byte) /\ Len(d) = m
  BY <1>0
<1> HIDE DEF a, m, J, K, d
<1>7. /\ SubSeq(J, 1, a) \in Seq(Byte) /\ Len(SubSeq(J, 1, a)) = a
      /\ \A p \in 1 .. a : SubSeq(J, 1, a)[p] = J[p]
  BY <1>1, <1>2
<1> DEFINE z == SubSeq(J, 1, a)
<1>8. y \in Seq(Byte) /\ Len(y) = a + m /\ \A p \in 1 .. a + m : y[p] = K[p]
  BY <1>1, <1>3
<1>9. z \in Seq(Byte) /\ Len(z) = a /\ \A p \in 1 .. a : z[p] = J[p]
  BY <1>7
<1> HIDE DEF z
<1>10. /\ z \o d \in Seq(Byte) /\ Len(z \o d) = a + m
      /\ \A p \in 1 .. a + m : (z \o d)[p] = IF p <= a THEN z[p] ELSE d[p - a]
  BY <1>1, <1>6, <1>9, ConcatAt
<1>11. x = z \o d
  BY DEF z, d
<1> HIDE DEF x, y
<1>12. ASSUME NEW p \in 1 .. a + m PROVE y[p] = x[p]
  <2>1. CASE p <= a
    <3>1. p \in 1 .. a
      BY <1>1, <2>1
    <3>2. y[p] = K[p] /\ K[p] = J[p] /\ z[p] = J[p]
      BY <1>4, <1>8, <1>9, <3>1
    <3>3. (z \o d)[p] = z[p]
      BY <1>10, <2>1
    <3> QED BY <1>11, <3>2, <3>3
  <2>2. CASE ~(p <= a)
    <3>1. p - a \in 1 .. m /\ a + (p - a) = p
      BY <1>1, <2>2
    <3>2. K[p] = d[p - a]
      BY <1>5, <3>1
    <3>3. y[p] = K[p] /\ (z \o d)[p] = d[p - a]
      BY <1>8, <1>10, <2>2
    <3> QED BY <1>11, <3>2, <3>3
  <2> QED BY <2>1, <2>2
<1>13. y = x
  <2>1. a + m \in Nat
    BY <1>1
  <2> QED BY <1>8, <1>10, <1>11, <1>12, <2>1, SameSequence
<1> QED BY <1>13 DEF x, y, a, m, J, K, d, Grows

\* What a call has read so far are the fragments before the one it is at.
LEMMA ReadService ==
  ASSUME TypeOK, Shape, Smooth, NEW c \in Call, FlowAt(c), ReadFragment(c)
  PROVE  FlowAt(c)' /\ ServiceStep(c)
<1> DEFINE s == fs[req[c].in]
           n == req[c].n
           t == i[c]
           m == FragLen(c, t)
           a == FragmentStart(size[c], n, t)
           f == text[c]
           g == text'[c]
<1>0. /\ pc[c] = "read" /\ req' = req /\ size' = size /\ fs' = fs /\ t \in Used(c)
      /\ Turn(c, "open_key") /\ ret' = ret /\ n > 0 /\ n \in Nat \ {0} /\ Faults = {}
      /\ size[c] \in Nat /\ t \in 0 .. n - 1 /\ t \in Thread /\ Used(c) = 0 .. n - 1
  <2>1. pc[c] = "read" /\ t \in Used(c) /\ n > 0 /\ Faults = {} /\ n \in Int
    BY SmoothCalls, Arguments DEF ReadFragment, Shape, LoopOK
  <2> QED BY <2>1, Arguments DEF ReadFragment, Turn, TypeOK, Used
<1>1. s \in Seq(Byte) /\ Len(s) \in Nat /\ size[c] <= Len(s) /\ pos[c] = a
  BY <1>0, Arguments, FileSeq DEF FlowAt
<1>2. /\ a \in Nat /\ m \in Nat /\ a + m <= size[c]
      /\ \/ pc'[c] = "open_key" /\ a + m = size[c]
         \/ /\ pc'[c] = "read" /\ i'[c] \in Used(c)
            /\ FragmentStart(size[c], n, i'[c]) = a + m
  BY <1>0, TurnStart
<1>3. PICK k \in Available(c, s, m) :
        /\ text' = [text EXCEPT ![c][t] = Filled(s, pos[c], k, m)]
        /\ pos' = [pos EXCEPT ![c] = @ + k]
  BY DEF ReadFragment
<1>4. k = m
  <2>1. ~(Len(s) - pos[c] < m)
    <3> HIDE DEF s, m, a
    <3> QED BY <1>0, <1>1, <1>2
  <2>2. Available(c, s, m) = {m}
    BY <1>0, <2>1 DEF Available
  <2> QED BY <1>3, <2>2
<1> HIDE DEF a, m
<1>5. pos'[c] = a + m
  BY <1>1, <1>3, <1>4 DEF TypeOK
<1>6. FlowAt(c)'
  BY <1>0, <1>1, <1>2, <1>5 DEF FlowAt
<1>7. g[t] = Filled(s, a, m, m) /\ \A u \in Used(c) \ {t} : g[u] = f[u]
  BY <1>0, <1>1, <1>3, <1>4, Arguments DEF TypeOK
<1>8. \A u \in 0 .. n - 1 : f[u] \in Seq(Byte) /\ Len(f[u]) = FragmentSize(size[c], n, u)
  <2>1. \A u \in Used(c) : Len(f[u]) = FragLen(c, u)
    BY <1>0 DEF Shape, BufferOK, Buffered, Counted
  <2> QED BY <1>0, <2>1, Arguments, BufferType DEF FragLen
<1>9. m = FragmentSize(size[c], n, t)
  BY DEF m, FragLen
<1> HIDE DEF s, n, t, f, g
<1>10. a + m <= Len(s)
  BY <1>0, <1>1, <1>2
<1>11. g[t] \in Seq(Byte) /\ Len(g[t]) = m /\ \A j \in 1 .. m : g[t][j] = s[a + j]
  <2>1. Filled(s, a, m, m) \in Seq(Byte) /\ Len(Filled(s, a, m, m)) = m
    BY <1>1, <1>2, <1>10, FilledSeq
  <2>2. \A j \in 1 .. m : Filled(s, a, m, m)[j] = s[a + j]
    BY <1>2 DEF Filled
  <2> QED BY <1>7, <2>1, <2>2
<1>12. g[t] = SubSeq(s, a + 1, a + m)
  <2> DEFINE v == SubSeq(s, a + 1, a + m)
             w == g[t]
  <2>1. v \in Seq(Byte) /\ Len(v) = m
    BY <1>1, <1>2, <1>10
  <2>2. \A j \in 1 .. m : v[j] = s[a + j]
    BY <1>1, <1>2, <1>10
  <2>3. w \in Seq(Byte) /\ Len(w) = m /\ \A j \in 1 .. m : w[j] = s[a + j]
    BY <1>11
  <2> HIDE DEF v, w
  <2>4. v = w
    BY <1>2, <2>1, <2>2, <2>3, SameSequence
  <2> QED BY <2>4 DEF v, w
<1> DEFINE len == size[c]
           J == Join(f, len, n)
           K == Join(g, len, n)
<1>13. Fits(f, len, n) /\ Fits(g, len, n) /\ AgreeBut(f, g, n, t)
  <2>1. AgreeBut(f, g, n, t)
    BY <1>0, <1>7 DEF AgreeBut
  <2>2. ASSUME NEW u \in 0 .. n - 1
        PROVE  g[u] \in Seq(Byte) /\ Len(g[u]) = FragmentSize(len, n, u)
    <3>1. CASE u = t
      BY <1>9, <1>11, <3>1
    <3>2. CASE u # t
      BY <1>0, <1>7, <1>8, <3>2
    <3> QED BY <3>1, <3>2
  <2> QED BY <1>8, <2>1, <2>2 DEF Fits
<1>14. /\ J \in Seq(Byte) /\ Len(J) = len
       /\ K \in Seq(Byte) /\ Len(K) = len
       /\ SubSeq(K, 1, a + m) = SubSeq(J, 1, a) \o g[t]
  <2>1. len \in Nat /\ a = FragmentStart(len, n, t) /\ m = FragmentSize(len, n, t)
    BY <1>0, <1>9 DEF a, n, t
  <2>2. t \in 0 .. n - 1 /\ n \in Nat \ {0}
    BY <1>0
  <2> HIDE DEF len
  <2>3. J \in Seq(Byte) /\ Len(J) = len /\ K \in Seq(Byte) /\ Len(K) = len
    BY <1>13, <2>1, <2>2, JoinSeq DEF Fits
  <2>4. SubSeq(K, 1, a + m) = SubSeq(J, 1, a) \o g[t]
    <3>1. Grows(f, g, len, n, t)
      BY <1>13, <2>1, <2>2, JoinGrows
    <3> QED BY <2>1, <3>1 DEF Grows
  <2> QED BY <2>3, <2>4
<1>15. Taken(c) = SubSeq(J, 1, a) /\ Len(Taken(c)) = a
  <2>1. Taken(c) = SubSeq(J, 1, a)
    BY <1>0, <1>1 DEF Taken, Before, f, n
  <2> HIDE DEF J, len
  <2>2. Len(SubSeq(J, 1, a)) = a
    BY <1>0, <1>2, <1>14 DEF len
  <2> QED BY <2>1, <2>2
<1>16. Taken(c)' = SubSeq(K, 1, a + m)
  <2>1. CASE pc'[c] = "read"
    BY <1>0, <1>5, <2>1 DEF Taken, Before, g, n
  <2>2. CASE pc'[c] = "open_key" /\ a + m = size[c]
    <3>1. plain'[c] = g
      <4>1. i[c] = req[c].n - 1
        BY <1>0, <2>2, TurnEffect DEF t, n
      <4> QED BY <4>1 DEF ReadFragment, TypeOK, g
    <3>2. Taken(c)' = K
      BY <1>0, <2>2, <3>1 DEF Taken, Before, Plain, n
    <3> HIDE DEF K
    <3>3. SubSeq(K, 1, len) = K
      BY <1>0, <1>14
    <3> QED BY <2>2, <3>2, <3>3
  <2> QED BY <1>2, <2>1, <2>2
<1>17. Taken(c)' = Taken(c) \o SubSeq(s, a + 1, a + m)
  BY <1>12, <1>14, <1>15, <1>16
<1>18. Other(c) = <<>> /\ Other(c)' = <<>> /\ Done(c) = 0 /\ Done(c)' = 0
  BY <1>0, <1>2 DEF Other, Done, Before
<1>19. CASE m = 0
  <2>1. SubSeq(s, a + 1, a) = <<>>
    BY <1>1, <1>2
  <2>2. Taken(c) \in Seq(Byte)
    <3> HIDE DEF J
    <3> QED BY <1>0, <1>2, <1>14, <1>15
  <2>3. Taken(c)' = Taken(c)
    BY <1>2, <1>17, <1>19, <2>1, <2>2
  <2> QED BY <1>0, <1>6, <1>18, <2>3 DEF ServiceStep, Same
<1>20. CASE m # 0
  <2>1. a + m \in Len(Taken(c)) + 1 .. Len(s)
    BY <1>1, <1>2, <1>10, <1>15, <1>20
  <2> HIDE DEF J, K
  <2>2. TakeStep(c)
    BY <1>0, <1>15, <1>17, <1>18, <2>1 DEF TakeStep, s
  <2> QED BY <1>6, <2>2 DEF ServiceStep
<1> QED BY <1>19, <1>20

LEMMA KeyService ==
  ASSUME TypeOK, Shape, Smooth, NEW c \in Call, FlowAt(c), KeyOK(c), OpenKey(c) \/ ReadKey(c)
  PROVE  FlowAt(c)' /\ ServiceStep(c)
<1>0. /\ Faults = {} /\ req' = req /\ fs' = fs /\ size' = size /\ plain' = plain
      /\ Still(c, req[c].key)
  BY SmoothCalls DEF OpenKey, ReadKey
<1>1. CASE OpenKey(c)
  <2>1. pc[c] = "open_key" /\ pc'[c] = "read_key" /\ ret' = ret
    BY <1>0, <1>1, GotoEffect DEF OpenKey, Continue
  <2>2. Same(c)
    BY <1>0, <2>1 DEF Same, Taken, Other, Done, Plain, Before
  <2> QED BY <2>1, <2>2 DEF ServiceStep, FlowAt
<1>2. CASE ReadKey(c)
  <2> DEFINE s == fs[req[c].key]
  <2>1. pc[c] = "read_key" /\ pc'[c] = "alloc_threads" /\ ret' = ret
    BY <1>2, GotoEffect DEF ReadKey, Continue
  <2>2. pos[c] = 0 /\ Len(key[c]) = Len(s)
    BY <1>0, <2>1 DEF KeyOK, Kept, Unwritten, Writes, Terminal
  <2>3. s \in Seq(Byte) /\ Len(s) \in Nat
    BY Arguments, FileSeq
  <2>4. Available(c, s, Len(s)) = {Len(s)}
    BY <1>0, <2>2, <2>3 DEF Available
  <2>5. key'[c] = Filled(s, 0, Len(s), Len(s))
    BY <1>2, <2>2, <2>4 DEF ReadKey, TypeOK
  <2>6. key'[c] = s
    BY <2>3, <2>5, FilledWhole
  <2>7. MakeStep(c)
    BY <1>0, <2>1, <2>6 DEF MakeStep, Taken, Other, Done, Plain, Before
  <2> QED BY <2>1, <2>7 DEF ServiceStep, FlowAt
<1> QED BY <1>1, <1>2

LEMMA RestService ==
  ASSUME TypeOK, Shape, Smooth, NEW c \in Call, FlowAt(c),
         AllocThreads(c) \/ SpawnThread(c) \/ WaitThread(c) \/ Cleanup(c) \/ Final(c)
  PROVE  FlowAt(c)' /\ ServiceStep(c)
<1>0. /\ Faults = {} /\ req' = req /\ fs' = fs /\ size' = size /\ plain' = plain /\ key' = key
  BY SmoothCalls
  DEF AllocThreads, SpawnThread, WaitThread, Cleanup, Final
<1>1. /\ ret' = ret
      /\ \/ pc[c] = "alloc_threads" /\ pc'[c] = "spawn"
         \/ pc[c] = "spawn" /\ pc'[c] \in {"spawn", "wait"}
         \/ pc[c] = "wait" /\ pc'[c] \in {"wait", "open_output"}
         \/ pc[c] = "cleanup" /\ pc'[c] = "final"
         \/ pc[c] = "final" /\ pc'[c] = "returned"
  <2>1. CASE AllocThreads(c)
    BY <1>0, <2>1, GotoEffect DEF AllocThreads, Continue
  <2>2. CASE SpawnThread(c)
    <3>1. pc[c] = "spawn" /\ Turn(c, "wait") /\ i[c] \in Used(c)
      BY <1>0, <2>2 DEF SpawnThread, Shape, LoopOK
    <3> QED BY <3>1, TurnEffect DEF Turn
  <2>3. CASE WaitThread(c)
    <3>1. pc[c] = "wait" /\ Turn(c, "open_output") /\ i[c] \in Used(c)
      BY <2>3 DEF WaitThread, Shape, LoopOK
    <3> QED BY <3>1, TurnEffect DEF Turn
  <2>4. CASE Cleanup(c)
    BY <2>4, GotoEffect DEF Cleanup, Continue
  <2>5. CASE Final(c)
    BY <2>5, GotoEffect DEF Final, Continue
  <2> QED BY <2>1, <2>2, <2>3, <2>4, <2>5
<1>2. Same(c)
  BY <1>0, <1>1, QuietService DEF Fixed
<1>3. FlowAt(c)'
  BY <1>1 DEF FlowAt
<1> QED BY <1>2, <1>3 DEF ServiceStep

LEMMA OpenOutputService ==
  ASSUME TypeOK, Shape, Smooth, NEW c \in Call, FlowAt(c), OpenOutput(c)
  PROVE  FlowAt(c)' /\ ServiceStep(c)
<1>1. /\ Faults = {} /\ req' = req /\ fs' = fs /\ size' = size /\ plain' = plain /\ key' = key
      /\ req[c].n \in Int /\ req[c].n > 0 /\ size[c] \in Nat
  BY SmoothCalls, Arguments DEF OpenOutput, TypeOK
<1>2. pc[c] = "open_output" /\ pc'[c] = "write" /\ i'[c] = 0 /\ ret' = ret /\ pos'[c] = 0
  BY <1>1, GotoEffect DEF OpenOutput, Continue, TypeOK
<1>3. FragmentStart(size[c], req[c].n, 0) = 0
  <2>1. size[c] \div req[c].n \in Nat
    BY <1>1, DivMod
  <2> QED BY <2>1 DEF FragmentStart
<1>4. FlowAt(c)'
  BY <1>1, <1>2, <1>3 DEF FlowAt
<1>5. Same(c)
  BY <1>1, <1>2 DEF Same, Taken, Other, Done, Plain, Before
<1> QED BY <1>4, <1>5 DEF ServiceStep

\* What a call writes is the fragment's part of the encryption.
LEMMA PutService ==
  ASSUME TypeOK, Shape, Smooth, Work, NEW c \in Call, FlowAt(c), OutputOK(c), WriteFragment(c)
  PROVE  FlowAt(c)' /\ ServiceStep(c)
<1> DEFINE n == req[c].n
           t == i[c]
           m == FragLen(c, t)
           a == FragmentStart(size[c], n, t)
           out == req[c].out
           s == fs[out]
           d == text[c][t]
           C == Cipher(c)
<1>0. /\ pc[c] = "write" /\ req' = req /\ UNCHANGED <<size, key, plain, ret, text>>
      /\ t \in Used(c) /\ Turn(c, "cleanup") /\ Whole(c) /\ n > 0 /\ Faults = {}
      /\ pos[c] = a
  BY SmoothCalls
  DEF WriteFragment, Turn, Shape, LoopOK, OutputOK, Writing, FlowAt
<1>1. /\ a \in Nat /\ m \in Nat /\ a + m <= size[c] /\ size[c] \in Nat
      /\ \/ pc'[c] = "cleanup" /\ a + m = size[c]
         \/ /\ pc'[c] = "write" /\ i'[c] \in Used(c)
            /\ FragmentStart(size[c], n, i'[c]) = a + m
  BY <1>0, TurnStart DEF TypeOK
<1>2. /\ s \in Seq(Byte) /\ Len(s) \in Nat /\ a <= Len(s) /\ out \in Path
      /\ d \in Seq(Byte) /\ Len(d) = m
      /\ \A j \in 1 .. m : d[j] = Xor(plain[c][t][j], KeyAt(key[c], j))
  <2>1. Len(d) = m /\ pos[c] <= Len(s)
    BY <1>0 DEF Shape, BufferOK, PosOK, Buffered, Counted
  <2> QED BY <1>0, <2>1, Arguments, FileSeq, BufferType, WorkDone
<1>3. C \in Seq(Byte) /\ Len(C) = size[c] /\ \A j \in 1 .. m : C[a + j] = d[j]
  <2>1. C \in Seq(Byte) /\ Len(C) = size[c]
    BY <1>0, CipherSeq
  <2>2. \A j \in 1 .. m : C[a + j] = Xor(plain[c][t][j], KeyAt(key[c], j))
    BY <1>0, CipherAt
  <2> QED BY <1>2, <2>1, <2>2
<1>4. /\ fs' = [fs EXCEPT ![out] = Overwrite(@, pos[c], SubSeq(d, 1, m))]
      /\ pos'[c] = pos[c] + m
  BY <1>0 DEF WriteFragment, TypeOK
<1> HIDE DEF n, t, m, a, out, s, d, C
<1>5. SubSeq(d, 1, m) = d
  BY <1>1, <1>2
<1>6. SubSeq(C, a + 1, a + m) = d
  <2> DEFINE v == SubSeq(C, a + 1, a + m)
  <2>1. v \in Seq(Byte) /\ Len(v) = m
    BY <1>1, <1>3
  <2>2. \A j \in 1 .. m : v[j] = C[a + j]
    BY <1>1, <1>3
  <2>3. \A j \in 1 .. m : v[j] = d[j]
    BY <1>3, <2>2
  <2> HIDE DEF v
  <2>4. v = d
    BY <1>1, <1>2, <2>1, <2>3, SameSequence
  <2> QED BY <2>4 DEF v
<1>7. /\ Taken(c)' = Taken(c) /\ Other(c)' = Other(c) /\ Other(c) = C
      /\ Done(c) = a /\ Done(c)' = a + m
  <2>1. Done(c) = a
    BY <1>0 DEF Done
  <2>2. Done(c)' = a + m
    BY <1>0, <1>1, <1>4 DEF Done
  <2> QED BY <1>0, <1>1, <2>1, <2>2 DEF Taken, Other, Cipher, Plain, Before, C
<1>8. fs' = [fs EXCEPT ![out] = Overwrite(@, a, d)]
  BY <1>0, <1>4, <1>5
<1>9. FlowAt(c)'
  BY <1>0, <1>1, <1>4 DEF FlowAt, n
<1>10. CASE m = 0
  <2>1. Overwrite(s, a, d) = s
    <3>1. a + Len(d) = a /\ ~(a > Len(s))
      BY <1>1, <1>2, <1>10
    <3>2. Overwrite(s, a, d) = [k \in 1 .. Len(s) |-> s[k]]
      BY <1>1, <1>2, <3>1 DEF Overwrite
    <3> QED BY <1>2, <3>2
  <2>2. fs' = fs
    BY <1>8, <2>1 DEF s, TypeOK
  <2>3. Done(c)' = Done(c)
    BY <1>1, <1>7, <1>10
  <2> QED BY <1>7, <1>9, <2>2, <2>3 DEF Same, ServiceStep
<1>11. CASE m # 0
  <2>1. a + m \in Done(c) + 1 .. Len(Other(c))
    BY <1>1, <1>3, <1>7, <1>11
  <2>2. fs' = [fs EXCEPT ![out] = Overwrite(@, Done(c), SubSeq(Other(c), Done(c) + 1, a + m))]
    BY <1>6, <1>7, <1>8
  <2>3. PutStep(c)
    BY <1>7, <2>1, <2>2 DEF PutStep, out
  <2> QED BY <1>9, <2>3 DEF ServiceStep
<1> QED BY <1>10, <1>11

LEMMA ThreadService ==
  ASSUME TypeOK, Shape, NEW c \in Call, NEW t \in Thread, FlowAt(c), ThreadStep(c, t)
  PROVE  FlowAt(c)' /\ ServiceStep(c)
<1>1. pc[c] \notin Unstarted
  <2>1. th[c][t] = "run"
    BY DEF ThreadStep, XorByte, Complete, UseFreed
  <2> QED BY <2>1 DEF Shape, StartedOK
<1>2. UNCHANGED <<req, pc, i, ret, size, pos, plain, key, fs>>
  BY DEF ThreadStep, XorByte, Complete, UseFreed
<1>3. Same(c)
  BY <1>1, <1>2 DEF Same, Taken, Other, Done, Plain, Before, Unstarted
<1> QED BY <1>2, <1>3 DEF FlowAt, ServiceStep

\* What a step of one call leaves of another.
LEMMA OthersService ==
  ASSUME TypeOK, Shape, NEW c \in Call, NEW d \in Call \ {c}, FlowAt(d),
         MainStep(c) \/ \E t \in Thread : ThreadStep(c, t)
  PROVE  FlowAt(d)' /\ Taken(d)' = Taken(d) /\ Other(d)' = Other(d) /\ Done(d)' = Done(d)
<1>1. /\ req' = req /\ pc'[d] = pc[d] /\ i'[d] = i[d] /\ ret'[d] = ret[d]
      /\ size'[d] = size[d] /\ pos'[d] = pos[d] /\ text'[d] = text[d] /\ plain'[d] = plain[d]
      /\ key'[d] = key[d]
  BY OthersUnchanged, OthersCalm, OthersWork
<1>2. size[d] \in Nat /\ req[d].in \in Path
  BY Arguments DEF TypeOK
<1>3. Len(fs[req[d].in]) \in Nat /\ Len(fs'[req[d].in]) \in Nat
      /\ Len(fs'[req[d].in]) >= Len(fs[req[d].in])
  BY <1>2, FilesGrow
<1>4. FlowAt(d)'
  BY <1>1, <1>2, <1>3 DEF FlowAt
<1> QED BY <1>1, <1>4 DEF Taken, Other, Done, Plain

\* Everything the refinement needs is inductive.
Serves == Reads /\ Work /\ Outputs /\ Flow

LEMMA InitServes == Init => Serves
<1>1. Init => Outputs
  BY DEF Init, Outputs, OutputOK, Writing, Ended
<1>2. Init => Flow
  BY DEF Init, Flow, FlowAt
<1> QED BY <1>1, <1>2, InitWork, ReadsInductive DEF Serves

LEMMA CallServes ==
  ASSUME Smooth, Serves, NEW c \in Call,
         MainStep(c) \/ \E t \in Thread : ThreadStep(c, t)
  PROVE  Flow' /\ ServiceStep(c)
<1>1. TypeOK /\ Shape /\ Work /\ Flow /\ FlowAt(c) /\ OutputOK(c)
  BY DEF Serves, Reads, Flow, Outputs
<1>2. KeyOK(c)
  BY DEF Serves, Reads, ReadAll, Smooth
<1>3. FlowAt(c)' /\ ServiceStep(c)
  BY <1>1, <1>2, StartService, AllocService, ReadService, KeyService, RestService,
     OpenOutputService, PutService, ThreadService
  DEF MainStep
<1>4. ASSUME NEW d \in Call \ {c} PROVE FlowAt(d)'
  BY <1>1, OthersService DEF Flow
<1> QED BY <1>3, <1>4 DEF Flow

LEMMA ServesStep == ASSUME Smooth PROVE Serves /\ [Next]_vars => Serves'
<1> SUFFICES ASSUME Serves, [Next]_vars PROVE Serves'
  OBVIOUS
<1>1. Reads' /\ Work' /\ Outputs'
  BY ReadsInductive, WorkStep, OutputStep DEF Serves, Reads
<1>2. CASE Next
  BY <1>1, <1>2, CallServes DEF Next, Serves
<1>3. CASE UNCHANGED vars
  BY <1>1, <1>3 DEF Serves, Flow, FlowAt, vars
<1> QED BY <1>2, <1>3

takenBar == [c \in Call |-> Taken(c)]
otherBar == [c \in Call |-> Other(c)]
putBar == [c \in Call |-> Done(c)]

\* CryptService computes as the code does.
LEMMA SameArithmetic ==
  /\ \A txt, k, n : Service!Encrypt(txt, k, n) = Encrypt(txt, k, n)
  /\ \A s, p, d : Service!Overwrite(s, p, d) = Overwrite(s, p, d)
BY DEF Service!Encrypt, Encrypt, Service!Overwrite, Overwrite, Service!FragmentOf, FragmentOf,
   Service!FragmentStart, FragmentStart, Service!KeyAt, KeyAt

LEMMA NextServes ==
  ASSUME Smooth, Serves, Next
  PROVE  Service!ServiceNext \/ UNCHANGED Service!serviceVars
<1>1. PICK c \in Call : MainStep(c) \/ \E t \in Thread : ThreadStep(c, t)
  BY DEF Next
<1>2. TypeOK /\ Shape /\ Flow
  BY DEF Serves, Reads
<1>3. ServiceStep(c) /\ req' = req
  <2>1. req' = req
    BY <1>1, <1>2 DEF MainStep, ThreadStep, CopyPath, OpenInput, SplitInput, AllocFragments,
      ReadFragment, OpenKey, ReadKey, AllocThreads, SpawnThread, WaitThread, OpenOutput,
      WriteFragment, Cleanup, Final, XorByte, Complete, UseFreed
  <2> QED BY <1>1, <2>1, CallServes
<1>4. \A d \in Call \ {c} : Taken(d)' = Taken(d) /\ Other(d)' = Other(d) /\ Done(d)' = Done(d)
  BY <1>1, <1>2, OthersService DEF Flow
<1>5. /\ Taken(c)' = Taken(c) => takenBar' = takenBar
      /\ Other(c)' = Other(c) => otherBar' = otherBar
      /\ Done(c)' = Done(c) => putBar' = putBar
  BY <1>4 DEF takenBar, otherBar, putBar
<1>6. /\ takenBar' = [takenBar EXCEPT ![c] = Taken(c)']
      /\ otherBar' = [otherBar EXCEPT ![c] = Other(c)']
      /\ putBar' = [putBar EXCEPT ![c] = Done(c)']
      /\ takenBar[c] = Taken(c) /\ otherBar[c] = Other(c) /\ putBar[c] = Done(c)
  BY <1>4 DEF takenBar, otherBar, putBar
<1>7. CASE Same(c)
  BY <1>3, <1>5, <1>7 DEF Same, Service!serviceVars, takenBar, otherBar, putBar
<1>8. CASE TakeStep(c)
  <2>1. Service!Take(c)
    BY <1>3, <1>5, <1>6, <1>8 DEF TakeStep, Service!Take, takenBar, otherBar, putBar
  <2> QED BY <2>1 DEF Service!ServiceNext
<1>9. CASE MakeStep(c)
  <2>1. Service!Make(c)
    <3>1. otherBar' = [otherBar EXCEPT ![c] =
                         Service!Encrypt(takenBar[c], fs[req[c].key], req[c].n)]
      BY <1>6, <1>9, SameArithmetic DEF MakeStep
    <3>2. otherBar[c] = <<>> /\ req' = req /\ fs' = fs /\ takenBar' = takenBar
          /\ putBar' = putBar
      BY <1>3, <1>5, <1>6, <1>9 DEF MakeStep
    <3> QED BY <3>1, <3>2 DEF Service!Make, takenBar, otherBar, putBar
  <2> QED BY <2>1 DEF Service!ServiceNext
<1>10. CASE PutStep(c)
  <2>1. Service!Put(c)
    <3>1. PICK n \in putBar[c] + 1 .. Len(otherBar[c]) :
            /\ fs' = [fs EXCEPT ![req[c].out] =
                        Overwrite(@, putBar[c], SubSeq(otherBar[c], putBar[c] + 1, n))]
            /\ Done(c)' = n
      BY <1>6, <1>10 DEF PutStep
    <3>2. fs' = [fs EXCEPT ![req[c].out] =
                   Service!Overwrite(@, putBar[c], SubSeq(otherBar[c], putBar[c] + 1, n))]
      BY <3>1, SameArithmetic
    <3>3. req' = req /\ takenBar' = takenBar /\ otherBar' = otherBar
          /\ putBar' = [putBar EXCEPT ![c] = n]
      BY <1>3, <1>5, <1>6, <1>10, <3>1 DEF PutStep
    <3> QED BY <3>2, <3>3 DEF Service!Put, takenBar, otherBar, putBar
  <2> QED BY <2>1 DEF Service!ServiceNext
<1> QED BY <1>3, <1>7, <1>8, <1>9, <1>10 DEF ServiceStep

\* Calls in which nothing fails, whatever their number, their files, and the
\* order of their steps and their threads', do to the files only what
\* CryptService promises (crypt.c:32-236): they put the encryption of what they
\* have taken, in its order, and leave the rest alone.
THEOREM CallsServe == ASSUME Smooth PROVE Spec => ImplementsService
<1>1. Init => Service!ServiceInit
  BY DEF Init, Service!ServiceInit, Taken, Other, Done, Before
<1>2. Serves /\ [Next]_vars => [Service!ServiceNext]_(Service!serviceVars)
  <2> SUFFICES ASSUME Serves, [Next]_vars
               PROVE  Service!ServiceNext \/ UNCHANGED Service!serviceVars
    OBVIOUS
  <2>1. CASE UNCHANGED vars
    BY <2>1 DEF vars, Service!serviceVars, Taken, Other, Done, Plain
  <2> QED BY <2>1, NextServes
<1>3. Init => Serves
  BY InitServes
<1>4. Serves /\ [Next]_vars => Serves'
  BY ServesStep
<1> QED BY <1>1, <1>2, <1>3, <1>4, PTL DEF Spec, ImplementsService, Service!ServiceSpec

==============================================================================
