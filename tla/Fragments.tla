------------------------------ MODULE Fragments ------------------------------
(***************************************************************************)
(* The arithmetic of function_syscall (crypt.c): how a file of `size`      *)
(* bytes is cut into `n` fragments, one per thread, and how one fragment   *)
(* is XORed with the key.  Threads are numbered from 0 as in the code;     *)
(* byte positions inside sequences are numbered from 1 as in TLA+.         *)
(***************************************************************************)
EXTENDS Integers, Sequences

CONSTANTS
  Byte,       \* the values of a char
  Zero,       \* the byte that fresh memory holds (CONFIG_INIT_ON_ALLOC_DEFAULT_ON)
  Xor(_, _)   \* the ^ of two bytes

ASSUME XorAssumption ==
  /\ Zero \in Byte
  /\ \A x, y \in Byte : Xor(x, y) \in Byte
  /\ \A x, y \in Byte : Xor(Xor(x, y), y) = x

-----------------------------------------------------------------------------
(* What the code computes. *)

\* The remainder of the division is forgotten: the last bytes of the file
\* are in no fragment.
FragmentSizeNoRemainder(size, n, t) == size \div n

\* size_fragment, plus size_last_fragment for the last thread.
FragmentSize(size, n, t) ==
  size \div n + (IF t = n - 1 THEN size % n ELSE 0)

\* key[i % size_key] for the j-th byte (i = j - 1) of a fragment.
KeyAt(key, j) == key[((j - 1) % Len(key)) + 1]

\* The file s after a write of d at offset p (p is at most the length of s).
Overwrite(s, p, d) ==
  LET end == p + Len(d) IN
  [k \in 1 .. (IF end > Len(s) THEN end ELSE Len(s)) |->
     IF k > p /\ k <= end THEN d[k - p] ELSE s[k]]

-----------------------------------------------------------------------------
(* Reference definitions, used by the properties only. *)

\* The offset in the file of the first byte of fragment t.
FragmentStart(size, n, t) == t * (size \div n)

\* The part of the text s that is fragment t: together the fragments of a
\* text are all of it, the last one up to its end.
Piece(s, n, t) ==
  SubSeq(s, FragmentStart(Len(s), n, t) + 1,
         IF t = n - 1 THEN Len(s) ELSE FragmentStart(Len(s), n, t + 1))

\* The fragment that holds the byte at offset p of the file.
FragmentOf(size, n, p) ==
  IF p < (n - 1) * (size \div n) THEN p \div (size \div n) ELSE n - 1

\* The fragments f[0], ..., f[n-1] put one after the other.
Join(f, size, n) ==
  [p \in 1 .. size |->
     LET t == FragmentOf(size, n, p - 1)
     IN  f[t][p - FragmentStart(size, n, t)]]

\* One fragment, every byte XORed with the key byte of its place.
XorFragment(frag, key) ==
  [j \in 1 .. Len(frag) |-> Xor(frag[j], KeyAt(key, j))]

\* The text that a call with n threads produces from `text`: the place in
\* the key restarts at every fragment.
Encrypt(text, key, n) ==
  [p \in 1 .. Len(text) |->
     LET t == FragmentOf(Len(text), n, p - 1)
     IN  Xor(text[p], KeyAt(key, p - FragmentStart(Len(text), n, t)))]

=============================================================================
