----------------------------- MODULE CryptService -----------------------------
(***************************************************************************)
(* What my_encrypt and my_decrypt promise to a program: each call takes    *)
(* the bytes of its input in order, makes the other text of them with the  *)
(* key, and puts that in the output, in order and from the start.  Nothing *)
(* else changes a file.  Fragments, threads and memory are not seen, but   *)
(* for the places where the key starts again.                              *)
(***************************************************************************)
EXTENDS Fragments

CONSTANT Call

VARIABLES
  req,    \* the arguments of each call
  fs,     \* the contents of the files
  taken,  \* the bytes that a call has taken
  other,  \* the text that it has made of them
  put     \* how many bytes of that are in the output

serviceVars == <<req, fs, taken, other, put>>

\* Some more bytes are taken.
Take(c) ==
  LET s == fs[req[c].in] IN
  /\ other[c] = <<>>
  /\ \E n \in Len(taken[c]) + 1 .. Len(s) :
       taken' = [taken EXCEPT ![c] = @ \o SubSeq(s, Len(@) + 1, n)]
  /\ UNCHANGED <<req, fs, other, put>>

Make(c) ==
  /\ other[c] = <<>>
  /\ other' = [other EXCEPT ![c] = Encrypt(taken[c], fs[req[c].key], req[c].n)]
  /\ UNCHANGED <<req, fs, taken, put>>

\* Some more bytes are put.
Put(c) ==
  /\ \E n \in put[c] + 1 .. Len(other[c]) :
       /\ fs' = [fs EXCEPT ![req[c].out] =
                   Overwrite(@, put[c], SubSeq(other[c], put[c] + 1, n))]
       /\ put' = [put EXCEPT ![c] = n]
  /\ UNCHANGED <<req, taken, other>>

ServiceInit ==
  /\ taken = [c \in Call |-> <<>>]
  /\ other = [c \in Call |-> <<>>]
  /\ put = [c \in Call |-> 0]

ServiceNext == \E c \in Call : Take(c) \/ Make(c) \/ Put(c)

ServiceSpec == ServiceInit /\ [][ServiceNext]_serviceVars
=============================================================================
