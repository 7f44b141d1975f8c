---------------------------- MODULE CryptRefinement ----------------------------
(* Crypt implements CryptService, as long as nothing fails. *)
EXTENDS Crypt

Before == {"paths", "open_input", "split", "alloc_fragments"}

\* What the call has read: the part of the fragments before the offset in the
\* file, then all of them.
Taken(c) ==
  IF pc[c] \in Before THEN <<>>
  ELSE IF pc[c] = "read" THEN SubSeq(Join(text[c], size[c], req[c].n), 1, pos[c])
  ELSE Plain(c)

\* What it is to write, from the moment it has the key.
Other(c) ==
  IF pc[c] \in Before \cup {"read", "open_key", "read_key"} THEN <<>>
  ELSE Encrypt(Plain(c), key[c], req[c].n)

\* How much of that it has written.
Done(c) ==
  IF pc[c] = "write" THEN pos[c]
  ELSE IF pc[c] \in {"cleanup", "final", "returned"} THEN size[c] ELSE 0

Service ==
  INSTANCE CryptService WITH
    taken <- [c \in Call |-> Taken(c)],
    other <- [c \in Call |-> Other(c)],
    put <- [c \in Call |-> Done(c)]

\* Calls in which nothing fails (crypt.c:32-236) implement CryptService, also
\* two at once over the same files: a file changes only by a piece of the
\* encryption of what a call has read, complete before the first piece is
\* written, put where it belongs and after the pieces before it.
ImplementsService == Service!ServiceSpec
=============================================================================
