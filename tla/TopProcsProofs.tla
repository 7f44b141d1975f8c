---------------------------- MODULE TopProcsProofs ----------------------------
(***************************************************************************)
(* Proofs about TopProcs, for any number of tasks, any size of the table   *)
(* and any sizes of memory.                                                *)
(*                                                                         *)
(* Three invariants carry them.  ListInv says what the walk may rely on in *)
(* a list that changes under it: next pointers go forward and never pass   *)
(* over a process that is still there, not even those of nodes that have   *)
(* been taken out.  WalkInv says what has been read when the walk is at a  *)
(* node.  TableIsTheTop, the property itself, says what the table holds.   *)
(***************************************************************************)
EXTENDS TopProcs, WellFoundedInduction, TLAPS

USE DEF Task, Node, Slot, Linked

\* init_task and every task forked so far.
Born(n) == n = 0 \/ life[n] # "unborn"

ListInv ==
  /\ \A p, q \in Task : p < q /\ life[p] = "unborn" => life[q] = "unborn"
  /\ \A n \in Node : nxt[n] # 0 => nxt[n] > n /\ Born(nxt[n])
  /\ \A q \in steady : life[q] = "user"
  /\ \A n \in Node : \A q \in steady :
       Born(n) /\ n < q => nxt[n] # 0 /\ nxt[n] <= q

\* The node up to which the walk has read everything.
Behind(p) ==
  \/ pc = "next" /\ p <= cursor
  \/ pc \in {"test", "sample"} /\ p < cursor
  \/ pc \in {"copy", "returned"} /\ ret # "ENOMEM"

WalkInv ==
  /\ Born(cursor)
  /\ pc = "alloc" => cursor = 0
  /\ pc \in {"test", "sample"} => cursor # 0
  /\ pc # "returned" => ret = "OK"
  /\ pc \in {"alloc", "next", "test", "sample"} =>
       \A p \in Task : seen[p] > 0 => Behind(p)
  /\ \A p \in steady : Behind(p) => seen[p] = rss[p]

Inv == TypeOK /\ ListInv /\ WalkInv /\ TableIsTheTop

-----------------------------------------------------------------------------
(* The insertion *)

\* A set of numbers that is not empty has a smallest member.
LEMMA SmallestNumber ==
  ASSUME NEW S, S \subseteq Nat, S # {}
  PROVE  \E m \in S : \A j \in S : m <= j
<1> DEFINE R == {ss \in Nat \X Nat : ss[1] < ss[2]}
<1>1. IsWellFoundedOn(R, Nat)
  BY NatLessThanWellFounded DEF OpToRel
<1>2. PICK m \in S : \A j \in S : <<j, m>> \notin R
  <2> HIDE DEF R
  <2> QED
    BY <1>1, WFMin
<1>3. ASSUME NEW j \in S
      PROVE  m <= j
  <2>1. j \in Nat /\ m \in Nat
    OBVIOUS
  <2>2. j < m => <<j, m>> \in R
    BY <2>1
  <2> QED
    BY <1>2, <2>1, <2>2
<1> QED
  BY <1>3

\* The sizes in the table and in seen are numbers.
LEMMA SizeIsNat ==
  ASSUME NEW r \in Pages \cup {0}
  PROVE  r \in Nat
<1>1. CASE r \in Pages
  BY <1>1, TopAssumption
<1>2. CASE r = 0
  BY <1>2
<1> QED
  BY <1>1, <1>2

\* What Insert returns is a table of the same type.
LEMMA InsertType ==
  ASSUME NEW t \in [Slot -> [pid : Node, rss : Pages \cup {0}]],
         NEW p \in Task, NEW r \in Pages
  PROVE  Insert(t, p, r) \in [Slot -> [pid : Node, rss : Pages \cup {0}]]
  BY TopAssumption DEF Insert

\* The process that Sample looks at has not been read before: all that was
\* read comes earlier in the list.
LEMMA SampledIsNew ==
  ASSUME Inv, pc = "sample"
  PROVE  /\ cursor \in Task
         /\ seen[cursor] = 0
         /\ \A p \in Task : seen[p] > 0 => p < cursor
         /\ cursor \notin Ranked
<1>1. cursor \in Task
  BY DEF Inv, WalkInv, TypeOK
<1>2. \A p \in Task : seen[p] > 0 => p < cursor
  BY DEF Inv, WalkInv, Behind
<1>3. seen[cursor] = 0
  <2>1. cursor \in Int /\ seen[cursor] \in Nat
    <3>1. seen[cursor] \in Pages \cup {0}
      BY <1>1 DEF Inv, TypeOK
    <3>2. seen[cursor] \in Nat
      BY <3>1, SizeIsNat
    <3>3. cursor \in Int
      BY <1>1
    <3> QED
      BY <3>2, <3>3
  <2>2. ~(seen[cursor] > 0)
    BY <1>1, <1>2, <2>1
  <2> QED
    BY <2>1, <2>2
<1>4. ASSUME NEW k \in Slot, table[k].pid = cursor
      PROVE  FALSE
  <2>1. table[k].pid # 0
    BY <1>1, <1>4
  <2>2. table[k].rss > 0 /\ seen[table[k].pid] = table[k].rss
    BY <2>1 DEF Inv, TableIsTheTop
  <2> QED
    BY <1>3, <1>4, <2>2
<1>5. cursor \notin Ranked
  BY <1>4 DEF Ranked
<1> QED
  BY <1>1, <1>2, <1>3, <1>5

\* Inserting what was read of a new process keeps the table the ranking of
\* all that was read.
LEMMA InsertKeepsTop ==
  ASSUME Inv, pc = "sample", NEW r \in Pages,
         table' = Insert(table, cursor, r),
         seen' = [seen EXCEPT ![cursor] = r]
  PROVE  TableIsTheTop'
<1> DEFINE t == table
           p == cursor
           u == Insert(table, cursor, r)
<1>1. /\ p \in Task /\ seen[p] = 0 /\ p \notin Ranked
      /\ \A q \in Task : seen[q] > 0 => q < p
  BY SampledIsNew
<1>2. /\ t \in [Slot -> [pid : Node, rss : Pages \cup {0}]]
      /\ seen \in [Task -> Nat] /\ r \in Nat
      /\ Top \in Nat \ {0} /\ NumTasks \in Nat
      /\ \A k \in Slot : t[k].pid \in Node /\ t[k].rss \in Nat
  <2>1. t \in [Slot -> [pid : Node, rss : Pages \cup {0}]] /\ seen \in [Task -> Pages \cup {0}]
    BY DEF Inv, TypeOK
  <2>2. /\ Top \in Nat \ {0} /\ NumTasks \in Nat /\ Pages \subseteq Nat
    BY TopAssumption
  <2>3. seen \in [Task -> Nat] /\ r \in Nat
    <3>1. Pages \cup {0} \subseteq Nat /\ r \in Nat
      BY <2>2
    <3> QED
      BY <2>1, <3>1
  <2>4. ASSUME NEW k \in Slot
        PROVE  t[k].pid \in Node /\ t[k].rss \in Nat
    <3>1. t[k] \in [pid : Node, rss : Pages \cup {0}]
      BY <2>1
    <3>2. t[k].pid \in Node /\ t[k].rss \in Pages \cup {0}
      BY <3>1
    <3>3. t[k].rss \in Nat
      BY <3>2, SizeIsNat
    <3> QED
      BY <3>2, <3>3
  <2> QED
    BY <2>1, <2>2, <2>3, <2>4
<1>3. seen'[p] = r /\ \A q \in Task : q # p => seen'[q] = seen[q]
  BY <1>1, <1>2
<1>4. \A k \in Slot : IF t[k].pid = 0 THEN t[k].rss = 0
                      ELSE t[k].rss > 0 /\ seen[t[k].pid] = t[k].rss
  BY DEF Inv, TableIsTheTop
<1>5. \A j, k \in Slot : j < k /\ t[k].pid # 0 =>
        t[j].pid # 0 /\ Before(seen, t[j].pid, t[k].pid)
  BY DEF Inv, TableIsTheTop
<1>6. \A q \in Task \ Ranked : seen[q] > 0 =>
        \A k \in Slot : t[k].pid # 0 /\ Before(seen, t[k].pid, q)
  BY DEF Inv, TableIsTheTop
<1>7. \A k \in Slot : t[k].pid # p
  BY <1>1 DEF Ranked
\* The entries are ordered by size.
<1>8. \A j, k \in Slot : j < k => t[j].rss >= t[k].rss
  <2> SUFFICES ASSUME NEW j \in Slot, NEW k \in Slot, j < k
               PROVE  t[j].rss >= t[k].rss
    OBVIOUS
  <2>1. CASE t[k].pid = 0
    BY <1>2, <1>4, <2>1
  <2>2. CASE t[k].pid # 0
    <3>1. t[j].pid # 0 /\ Before(seen, t[j].pid, t[k].pid)
      BY <1>5, <2>2
    <3>2. seen[t[j].pid] = t[j].rss /\ seen[t[k].pid] = t[k].rss
      BY <1>4, <2>2, <3>1
    <3> QED
      BY <1>2, <3>1, <3>2 DEF Before
  <2> QED
    BY <2>1, <2>2
\* Where the new entry goes, when it goes in.
<1>9. CASE \A k \in Slot : r <= t[k].rss
  <2>1. u = t
    BY <1>2, <1>9 DEF Insert
  <2>2. table' = t
    BY <2>1
  <2>3. Ranked' = Ranked
    BY <2>2 DEF Ranked
  <2>4. \A k \in Slot : IF t[k].pid = 0 THEN t[k].rss = 0
                        ELSE t[k].rss > 0 /\ seen'[t[k].pid] = t[k].rss
    BY <1>2, <1>3, <1>4, <1>7
  <2>5. \A j, k \in Slot : j < k /\ t[k].pid # 0 =>
          t[j].pid # 0 /\ Before(seen', t[j].pid, t[k].pid)
    <3> SUFFICES ASSUME NEW j \in Slot, NEW k \in Slot, j < k, t[k].pid # 0
                 PROVE  t[j].pid # 0 /\ Before(seen', t[j].pid, t[k].pid)
      OBVIOUS
    <3>1. t[j].pid # 0 /\ Before(seen, t[j].pid, t[k].pid)
      BY <1>5
    <3>2. seen'[t[j].pid] = seen[t[j].pid] /\ seen'[t[k].pid] = seen[t[k].pid]
      BY <1>2, <1>3, <1>7, <3>1
    <3> QED
      BY <3>1, <3>2 DEF Before
  <2>6. ASSUME NEW q \in Task \ Ranked, seen'[q] > 0, NEW k \in Slot
        PROVE  t[k].pid # 0 /\ Before(seen', t[k].pid, q)
    <3>1. CASE q = p
      <4>1. t[k].rss >= r /\ r > 0
        BY <1>2, <1>3, <1>9, <2>6, <3>1
      <4>2. t[k].pid # 0 /\ seen[t[k].pid] = t[k].rss
        BY <1>2, <1>4, <4>1
      <4>3. t[k].pid \in Task /\ t[k].pid < p
        BY <1>1, <1>2, <4>1, <4>2
      <4>4. seen'[t[k].pid] = t[k].rss
        BY <1>3, <1>7, <4>2, <4>3
      <4> QED
        BY <1>1, <1>2, <1>3, <2>2, <3>1, <4>1, <4>2, <4>3, <4>4 DEF Before
    <3>2. CASE q # p
      <4>1. seen[q] > 0
        BY <1>3, <2>6, <3>2
      <4>2. t[k].pid # 0 /\ Before(seen, t[k].pid, q)
        BY <1>6, <2>6, <4>1
      <4>3. seen'[t[k].pid] = seen[t[k].pid] /\ seen'[q] = seen[q]
        BY <1>2, <1>3, <1>7, <3>2, <4>2
      <4> QED
        BY <4>2, <4>3, <2>2 DEF Before
    <3> QED
      BY <3>1, <3>2
  <2> QED
    BY <2>2, <2>3, <2>4, <2>5, <2>6 DEF TableIsTheTop
<1>10. CASE \E k \in Slot : r > t[k].rss
  <2>1. PICK m \in Slot : r > t[m].rss /\ \A j \in Slot : j < m => r <= t[j].rss
    <3> DEFINE S == {k \in Slot : r > t[k].rss}
    <3>1. \E m \in S : \A j \in S : m <= j
      <4>1. S \subseteq Nat /\ S # {}
        <5>1. Slot \subseteq Nat
          BY <1>2
        <5> QED
          BY <1>10, <5>1
      <4> HIDE DEF S
      <4> QED
        BY <4>1, SmallestNumber
    <3> QED
      BY <1>2, <3>1
  <2>2. r > 0
    BY <1>2, <2>1
  <2>3. ASSUME NEW k \in Slot, k >= m
        PROVE  t[k].rss < r
    <3>1. k = m \/ m < k
      BY <1>2, <2>3
    <3>2. t[m].rss >= t[k].rss
      BY <1>2, <1>8, <3>1
    <3>3. t[k].rss \in Nat /\ t[m].rss \in Nat
      BY <1>2
    <3> QED
      BY <1>2, <2>1, <3>2, <3>3
  \* The three parts of the new table.
  <2>4. u = [k \in Slot |-> IF k < m THEN t[k]
                            ELSE IF k = m THEN [pid |-> p, rss |-> r]
                            ELSE t[k - 1]]
    <3>1. ASSUME NEW k \in Slot
          PROVE  /\ (\E j \in 1 .. k - 1 : r > t[j].rss) <=> k > m
                 /\ k < m => ~(r > t[k].rss)
                 /\ k = m => r > t[k].rss
      BY <1>2, <2>1
    <3>2. ASSUME NEW k \in Slot
          PROVE  (IF \E j \in 1 .. k - 1 : r > t[j].rss THEN t[k - 1]
                  ELSE IF r > t[k].rss THEN [pid |-> p, rss |-> r]
                  ELSE t[k])
                 = IF k < m THEN t[k]
                   ELSE IF k = m THEN [pid |-> p, rss |-> r]
                   ELSE t[k - 1]
      <4>1. CASE k < m
        <5>1. ~(\E j \in 1 .. k - 1 : r > t[j].rss) /\ ~(r > t[k].rss)
          BY <1>2, <3>1, <4>1
        <5> QED
          BY <4>1, <5>1
      <4>2. CASE k = m
        <5>1. ~(\E j \in 1 .. k - 1 : r > t[j].rss) /\ r > t[k].rss
          BY <1>2, <3>1, <4>2
        <5> QED
          BY <1>2, <4>2, <5>1
      <4>3. CASE k > m
        <5>1. \E j \in 1 .. k - 1 : r > t[j].rss
          BY <3>1, <4>3
        <5> QED
          BY <1>2, <4>3, <5>1
      <4> QED
        BY <1>2, <4>1, <4>2, <4>3
    <3> QED
      BY <3>2 DEF Insert
  <2> HIDE DEF u
  <2>5. table' = u
    BY DEF u
  <2>6. /\ \A k \in Slot : k < m => u[k] = t[k]
        /\ u[m].pid = p /\ u[m].rss = r
        /\ \A k \in Slot : k > m => k - 1 \in Slot /\ k - 1 >= m /\ u[k] = t[k - 1]
    BY <1>2, <2>4
  <2>7. \A k \in Slot : t[k].pid # 0 =>
          seen'[t[k].pid] = seen[t[k].pid] /\ seen'[t[k].pid] = t[k].rss
    BY <1>2, <1>3, <1>4, <1>7
  <2>8. \A j, k \in Slot : j < k /\ t[k].pid # 0 =>
          t[j].pid # 0 /\ Before(seen', t[j].pid, t[k].pid)
    BY <1>5, <2>7 DEF Before
  \* The new process is ranked after the entries above it and before those
  \* below it.
  <2>9. \A k \in Slot : k < m => t[k].pid # 0 /\ Before(seen', t[k].pid, p)
    <3> SUFFICES ASSUME NEW k \in Slot, k < m
                 PROVE  t[k].pid # 0 /\ Before(seen', t[k].pid, p)
      OBVIOUS
    <3>1. t[k].rss >= r
      BY <1>2, <2>1
    <3>2. t[k].pid # 0 /\ t[k].pid \in Task
      BY <1>2, <1>4, <2>2, <3>1
    <3>3. seen[t[k].pid] > 0
      BY <1>2, <1>4, <3>2
    <3>4. t[k].pid < p
      BY <1>1, <3>2, <3>3
    <3> QED
      BY <1>1, <1>2, <1>3, <2>7, <3>1, <3>2, <3>4 DEF Before
  <2>10. \A k \in Slot : k >= m /\ t[k].pid # 0 => Before(seen', p, t[k].pid)
    BY <1>2, <1>3, <2>3, <2>7 DEF Before
  <2>11. ASSUME NEW k \in Slot
         PROVE  IF u[k].pid = 0 THEN u[k].rss = 0
                ELSE u[k].rss > 0 /\ seen'[u[k].pid] = u[k].rss
    <3>1. CASE k < m
      BY <1>2, <1>4, <2>6, <2>7, <3>1
    <3>2. CASE k = m
      <4>1. u[k].pid = p /\ u[k].rss = r
        BY <2>6, <3>2
      <4>2. p # 0
        BY <1>1, <1>2
      <4> QED
        BY <1>3, <2>2, <4>1, <4>2
    <3>3. CASE k > m
      <4>1. k - 1 \in Slot /\ u[k] = t[k - 1]
        BY <2>6, <3>3
      <4> QED
        BY <1>2, <1>4, <2>7, <4>1
    <3> QED
      BY <1>2, <3>1, <3>2, <3>3
  <2>12. ASSUME NEW j \in Slot, NEW k \in Slot, j < k, u[k].pid # 0
         PROVE  u[j].pid # 0 /\ Before(seen', u[j].pid, u[k].pid)
    <3>1. CASE k < m
      <4>1. j < m
        BY <1>2, <2>12, <3>1
      <4> QED
        BY <2>6, <2>8, <2>12, <3>1, <4>1
    <3>2. CASE k = m
      BY <2>6, <2>9, <2>12, <3>2
    <3>3. CASE k > m
      <4>1. k - 1 \in Slot /\ k - 1 >= m /\ u[k] = t[k - 1] /\ t[k - 1].pid # 0
        BY <2>6, <2>12, <3>3
      <4>2. CASE j < m
        <5>1. u[j] = t[j] /\ j < k - 1
          BY <1>2, <2>6, <4>1, <4>2
        <5> QED
          BY <2>5, <2>8, <4>1, <5>1 DEF Before
      <4>3. CASE j = m
        BY <1>1, <2>5, <2>6, <2>10, <4>1, <4>3 DEF Before
      <4>4. CASE j > m
        <5>1. j - 1 \in Slot /\ u[j] = t[j - 1] /\ j - 1 < k - 1
          BY <1>2, <2>6, <2>12, <4>4
        <5> QED
          BY <2>5, <2>8, <4>1, <5>1 DEF Before
      <4> QED
        BY <1>2, <4>2, <4>3, <4>4
    <3> QED
      BY <1>2, <3>1, <3>2, <3>3
  <2>13. ASSUME NEW q \in Task \ Ranked', seen'[q] > 0, NEW k \in Slot
         PROVE  u[k].pid # 0 /\ Before(seen', u[k].pid, q)
    <3>1. q # p
      BY <2>5, <2>6, <2>13 DEF Ranked
    <3>2. seen'[q] = seen[q] /\ seen[q] > 0
      BY <1>3, <2>13, <3>1
    \* All entries of the old table but the last are in the new one.
    <3>3. \A j \in Slot : t[j].pid = q => j = Top
      <4> SUFFICES ASSUME NEW j \in Slot, t[j].pid = q, j # Top
                   PROVE  FALSE
        OBVIOUS
      <4>1. CASE j < m
        BY <2>5, <2>6, <2>13, <4>1 DEF Ranked
      <4>2. CASE j >= m
        <5>1. j + 1 \in Slot /\ j + 1 > m
          BY <1>2, <4>2
        <5>2. u[j + 1] = t[(j + 1) - 1]
          BY <2>6, <5>1
        <5>3. (j + 1) - 1 = j
          BY <1>2
        <5> QED
          BY <2>5, <2>13, <5>1, <5>2, <5>3 DEF Ranked
      <4> QED
        BY <1>2, <4>1, <4>2
    \* Every entry of the old table but q itself is ranked before q.
    <3>4. \A j \in Slot : t[j].pid # 0 /\ (t[j].pid # q => Before(seen', t[j].pid, q))
      <4>1. CASE q \in Ranked
        <5>1. Top \in Slot /\ t[Top].pid = q
          BY <3>3, <4>1 DEF Ranked
        <5>2. ASSUME NEW j \in Slot
              PROVE  t[j].pid # 0 /\ (t[j].pid # q => Before(seen', t[j].pid, q))
          <6>1. CASE j = Top
            BY <1>2, <5>1, <6>1, <2>13
          <6>2. CASE j < Top
            <7>1. t[Top].pid # 0
              BY <5>1, <2>13
            <7> QED
              BY <2>8, <5>1, <6>2, <7>1 DEF Before
          <6> QED
            BY <1>2, <6>1, <6>2
        <5> QED
          BY <5>2
      <4>2. CASE q \notin Ranked
        BY <1>6, <2>7, <3>2, <4>2 DEF Before
      <4> QED
        BY <4>1, <4>2
    <3>5. CASE k < m
      <4>1. u[k] = t[k] /\ k # Top
        BY <1>2, <2>6, <3>5
      <4>2. t[k].pid # q
        BY <3>3, <4>1
      <4> QED
        BY <2>5, <3>4, <4>1, <4>2 DEF Before
    <3>6. CASE k = m
      <4>1. seen'[q] <= t[m].rss
        <5>1. t[m].pid # 0 /\ seen'[t[m].pid] = t[m].rss
          BY <2>7, <3>4
        <5>2. CASE t[m].pid = q
          BY <1>2, <5>1, <5>2
        <5>3. CASE t[m].pid # q
          <6>1. Before(seen', t[m].pid, q)
            BY <3>4, <5>3
          <6> QED
            BY <1>2, <3>2, <5>1, <6>1 DEF Before
        <5> QED
          BY <5>2, <5>3
      <4>2. u[m].pid = p /\ seen'[p] = r /\ r > t[m].rss
        BY <1>3, <2>1, <2>6
      <4>3. seen'[p] > seen'[q]
        BY <1>2, <3>2, <4>1, <4>2
      <4>4. Before(seen', p, q)
        BY <4>3 DEF Before
      <4> QED
        BY <1>1, <3>6, <4>2, <4>4, <2>5 DEF Before
    <3>7. CASE k > m
      <4>1. k - 1 \in Slot /\ u[k] = t[k - 1] /\ k - 1 # Top
        BY <1>2, <2>6, <3>7
      <4>2. t[k - 1].pid # q
        BY <3>3, <4>1
      <4> QED
        BY <2>5, <3>4, <4>1, <4>2 DEF Before
    <3> QED
      BY <1>2, <3>5, <3>6, <3>7
  <2> QED
    BY <2>5, <2>11, <2>12, <2>13 DEF TableIsTheTop
<1> QED
  BY <1>2, <1>9, <1>10

-----------------------------------------------------------------------------
(* The other tasks *)

\* At the call the list has every task forked so far, and nothing is read.
LEMMA InitInv == Init => Inv
<1> SUFFICES ASSUME Init
             PROVE  Inv
  OBVIOUS
<1>1. PICK n \in Node :
        /\ \A p \in Task :
             life[p] \in IF p <= n THEN {"user", "nomm"} ELSE {"unborn"}
        /\ nxt = [m \in Node |-> IF m < n THEN m + 1 ELSE 0]
  BY DEF Init
<1>2. NumTasks \in Nat /\ n \in 0 .. NumTasks
  BY TopAssumption
<1>3. TypeOK
  <2>1. nxt \in [Node -> Node]
    BY <1>1, <1>2
  <2>2. table \in [Slot -> [pid : Node, rss : Pages \cup {0}]]
    BY <1>2 DEF Init, Empty
  <2> QED
    BY <1>2, <2>1, <2>2 DEF Init, TypeOK
<1>4. \A q \in Task : life[q] # "unborn" <=> q <= n
  BY <1>1
<1>5. ListInv
  <2>1. \A p, q \in Task : p < q /\ life[p] = "unborn" => life[q] = "unborn"
    BY <1>2, <1>4
  <2>2. \A m \in Node : nxt[m] # 0 => nxt[m] > m /\ Born(nxt[m])
    BY <1>1, <1>2, <1>4 DEF Born
  <2>3. \A q \in steady : life[q] = "user"
    BY DEF Init
  <2>4. \A m \in Node : \A q \in steady :
          Born(m) /\ m < q => nxt[m] # 0 /\ nxt[m] <= q
    <3> SUFFICES ASSUME NEW m \in Node, NEW q \in steady, m < q
                 PROVE  nxt[m] # 0 /\ nxt[m] <= q
      OBVIOUS
    <3>1. q \in Task /\ q <= n
      BY <1>4 DEF Init
    <3> QED
      BY <1>1, <1>2, <3>1
  <2> QED
    BY <2>1, <2>2, <2>3, <2>4 DEF ListInv
<1>6. WalkInv
  BY DEF Init, WalkInv, Born, Behind
<1>7. TableIsTheTop
  BY DEF Init, TableIsTheTop, Empty, Ranked
<1> QED
  BY <1>3, <1>5, <1>6, <1>7 DEF Inv

\* What the other tasks do to the state of the call: nothing.
LEMMA TableUntouched ==
  ASSUME Inv, UNCHANGED <<table, seen>>
  PROVE  TableIsTheTop'
  BY DEF Inv, TableIsTheTop, Ranked

\* WalkInv does not depend on how the list changes, as long as no task is
\* taken back and the sizes of the steady processes stay.
LEMMA WalkUntouched ==
  ASSUME Inv, UNCHANGED callVars, steady' \subseteq steady,
         \A p \in Task : life[p] # "unborn" => life'[p] # "unborn",
         \A p \in steady' : rss'[p] = rss[p]
  PROVE  WalkInv'
<1>1. WalkInv /\ TypeOK
  BY DEF Inv
<1>2. Born(cursor)'
  BY <1>1 DEF WalkInv, TypeOK, Born, callVars
<1>3. \A p : Behind(p)' <=> Behind(p)
  BY DEF Behind, callVars
<1> QED
  BY <1>1, <1>2, <1>3 DEF WalkInv, callVars

\* A new task goes to the end: the nodes that pointed to the head and are in
\* the list now point to it.
LEMMA ForkInv ==
  ASSUME Inv, NEW p \in Task, NEW l \in {"user", "nomm"}, Fork(p, l)
  PROVE  Inv'
<1>1. TypeOK /\ ListInv /\ NumTasks \in Nat
  BY TopAssumption DEF Inv
<1>2. /\ life[p] = "unborn" /\ life'[p] = l
      /\ \A q \in Task : q # p => life'[q] = life[q]
      /\ \A q \in Task : q < p => life[q] # "unborn"
  BY <1>1 DEF Fork, TypeOK
<1>3. \A q \in Task : q > p => life[q] = "unborn"
  BY <1>1, <1>2 DEF ListInv
<1>4. \A n \in Node : nxt'[n] = IF n = p THEN 0
                                ELSE IF nxt[n] = 0 /\ (n = 0 \/ Linked(n)) THEN p
                                ELSE nxt[n]
  BY DEF Fork
<1>5. nxt \in [Node -> Node] /\ steady \subseteq Task /\ steady' = steady
  BY <1>1 DEF TypeOK, Fork
<1>6. TypeOK'
  <2>1. life' \in [Task -> Life]
    BY <1>1 DEF Fork, TypeOK, Life
  <2>2. nxt' \in [Node -> Node]
    BY <1>1, <1>5 DEF Fork
  <2> QED
    BY <1>1, <2>1, <2>2 DEF Fork, TypeOK, callVars
<1>7. ListInv'
  <2>1. \A m, q \in Task : m < q /\ life'[m] = "unborn" => life'[q] = "unborn"
    BY <1>1, <1>2, <1>3 DEF ListInv
  <2>2. ASSUME NEW n \in Node, nxt'[n] # 0
        PROVE  nxt'[n] > n /\ (nxt'[n] = 0 \/ life'[nxt'[n]] # "unborn")
    <3>1. n # p
      BY <1>4, <2>2
    <3>2. CASE nxt[n] = 0 /\ (n = 0 \/ Linked(n))
      <4>1. n < p
        BY <1>1, <1>3, <3>1, <3>2
      <4>2. nxt'[n] = p
        BY <1>4, <3>1, <3>2
      <4> QED
        BY <1>2, <4>1, <4>2
    <3>3. CASE ~(nxt[n] = 0 /\ (n = 0 \/ Linked(n)))
      <4>1. nxt'[n] = nxt[n]
        BY <1>4, <3>1, <3>3
      <4>2. nxt[n] > n /\ life[nxt[n]] # "unborn"
        BY <1>1, <2>2, <4>1 DEF ListInv, Born
      <4> QED
        BY <1>2, <1>5, <2>2, <4>1, <4>2
    <3> QED
      BY <3>2, <3>3
  <2>3. \A q \in steady' : life'[q] = "user"
    BY <1>1, <1>2, <1>5 DEF ListInv
  <2>4. ASSUME NEW n \in Node, NEW q \in steady', n = 0 \/ life'[n] # "unborn", n < q
        PROVE  nxt'[n] # 0 /\ nxt'[n] <= q
    <3>1. q \in Task /\ life[q] = "user"
      BY <1>1, <1>5 DEF ListInv
    <3>2. q < p
      BY <1>1, <1>2, <1>3, <3>1
    <3>3. n # p /\ Born(n)
      BY <1>1, <1>2, <2>4, <3>1, <3>2 DEF Born
    <3>4. nxt[n] # 0 /\ nxt[n] <= q
      BY <1>1, <1>5, <2>4, <3>3 DEF ListInv
    <3> QED
      BY <1>4, <3>3, <3>4
  <2> QED
    BY <2>1, <2>2, <2>3, <2>4 DEF ListInv, Born
<1>8. WalkInv'
  <2>1. \A q \in Task : life[q] # "unborn" => life'[q] # "unborn"
    BY <1>2
  <2> QED
    BY <1>5, <2>1, WalkUntouched DEF Fork
<1> QED
  BY <1>6, <1>7, <1>8, TableUntouched DEF Inv, Fork, callVars

\* A process that changes its size, or exits, is no longer steady.
LEMMA ChangeInv ==
  ASSUME Inv, NEW p \in Task,
         (\E r \in Pages : Resize(p, r)) \/ ExitMm(p)
  PROVE  Inv'
<1>1. TypeOK /\ ListInv
  BY DEF Inv
<1>2. /\ UNCHANGED <<nxt, callVars>> /\ steady' = steady \ {p}
      /\ life[p] = "user" /\ life'[p] # "unborn"
      /\ \A q \in Task : q # p => life'[q] = life[q] /\ rss'[q] = rss[q]
  BY <1>1 DEF Resize, ExitMm, TypeOK
<1>3. TypeOK'
  BY <1>1 DEF Resize, ExitMm, TypeOK, Life, callVars
<1>4. steady' \subseteq steady /\ \A q \in Task : life'[q] = "unborn" <=> life[q] = "unborn"
  BY <1>2
<1>5. ListInv'
  <2>1. \A m, q \in Task : m < q /\ life'[m] = "unborn" => life'[q] = "unborn"
    BY <1>1, <1>4 DEF ListInv
  <2>2. \A n \in Node : Born(n)' <=> Born(n)
    BY <1>4 DEF Born
  <2>3. \A n \in Node : nxt'[n] # 0 => nxt'[n] > n /\ Born(nxt[n])'
    <3>1. \A n \in Node : nxt[n] \in Node
      BY <1>1 DEF TypeOK
    <3> QED
      BY <1>1, <1>2, <2>2, <3>1 DEF ListInv
  <2>4. \A q \in steady' : life'[q] = "user"
    BY <1>1, <1>2 DEF ListInv, TypeOK
  <2>5. \A n \in Node : \A q \in steady' :
          Born(n)' /\ n < q => nxt'[n] # 0 /\ nxt'[n] <= q
    BY <1>1, <1>2, <1>4, <2>2 DEF ListInv
  <2> QED
    BY <1>2, <2>1, <2>3, <2>4, <2>5 DEF ListInv, Born
<1>6. WalkInv'
  <2>1. \A q \in steady' : rss'[q] = rss[q]
    BY <1>1, <1>2 DEF TypeOK
  <2> QED
    BY <1>2, <1>4, <2>1, WalkUntouched
<1> QED
  BY <1>2, <1>3, <1>5, <1>6, TableUntouched DEF Inv, callVars

\* Taking a task out of the list makes the nodes before it point to what it
\* points to: further on, but not past a steady process, which it is not.
LEMMA UnlinkInv ==
  ASSUME Inv, NEW p \in Task, Unlink(p) \/ FreeTask(p)
  PROVE  Inv'
<1>1. TypeOK /\ ListInv /\ NumTasks \in Nat
  BY TopAssumption DEF Inv
<1>2. /\ life[p] \in {"nomm", "unlinked"} /\ life'[p] \in {"unlinked", "freed"}
      /\ \A q \in Task : q # p => life'[q] = life[q]
      /\ UNCHANGED <<rss, callVars, steady>>
  BY <1>1 DEF Unlink, FreeTask, TypeOK
<1>3. \A q \in Task : life'[q] = "unborn" <=> life[q] = "unborn"
  BY <1>2
<1>4. \A n \in Node : Born(n)' <=> Born(n)
  BY <1>3 DEF Born
<1>5. \A n \in Node : nxt'[n] = nxt[n] \/ (nxt[n] = p /\ nxt'[n] = nxt[p])
  BY <1>1 DEF Unlink, FreeTask, TypeOK
<1>6. nxt \in [Node -> Node] /\ nxt' \in [Node -> Node]
  <2>1. nxt \in [Node -> Node] /\ p \in Node
    BY <1>1 DEF TypeOK
  <2>2. CASE Unlink(p)
    BY <2>1, <2>2 DEF Unlink
  <2>3. CASE FreeTask(p)
    BY <2>1, <2>3 DEF FreeTask
  <2> QED
    BY <2>1, <2>2, <2>3
<1>7. TypeOK'
  <2>1. life' \in [Task -> Life]
    BY <1>1 DEF Unlink, FreeTask, TypeOK, Life
  <2> QED
    BY <1>1, <1>2, <1>6, <2>1 DEF TypeOK, callVars
<1>8. ListInv'
  <2>1. \A m, q \in Task : m < q /\ life'[m] = "unborn" => life'[q] = "unborn"
    BY <1>1, <1>3 DEF ListInv
  <2>2. ASSUME NEW n \in Node, nxt'[n] # 0
        PROVE  nxt'[n] > n /\ (nxt'[n] = 0 \/ life'[nxt'[n]] # "unborn")
    <3>1. CASE nxt'[n] = nxt[n]
      <4>1. nxt[n] > n /\ Born(nxt[n])
        BY <1>1, <2>2, <3>1 DEF ListInv
      <4> QED
        BY <1>3, <1>6, <2>2, <3>1, <4>1 DEF Born
    <3>2. CASE nxt[n] = p /\ nxt'[n] = nxt[p]
      <4>1. p > n /\ nxt[p] > p /\ Born(nxt[p])
        BY <1>1, <2>2, <3>2 DEF ListInv
      <4>2. nxt[p] > n
        BY <1>1, <1>6, <4>1
      <4> QED
        BY <1>3, <1>6, <2>2, <3>2, <4>1, <4>2 DEF Born
    <3> QED
      BY <1>5, <3>1, <3>2
  <2>3. \A q \in steady' : life'[q] = "user"
    BY <1>1, <1>2 DEF ListInv, TypeOK
  <2>4. ASSUME NEW n \in Node, NEW q \in steady', n = 0 \/ life'[n] # "unborn", n < q
        PROVE  nxt'[n] # 0 /\ nxt'[n] <= q
    <3>1. q \in steady /\ q \in Task /\ q # p
      BY <1>1, <1>2 DEF ListInv, TypeOK
    <3>2. nxt[n] # 0 /\ nxt[n] <= q
      BY <1>1, <1>3, <2>4, <3>1 DEF ListInv, Born
    <3>3. CASE nxt'[n] = nxt[n]
      BY <3>2, <3>3
    <3>4. CASE nxt[n] = p /\ nxt'[n] = nxt[p]
      <4>1. p < q /\ Born(p)
        BY <1>1, <1>2, <3>1, <3>2, <3>4 DEF Born
      <4> QED
        BY <1>1, <3>1, <3>4, <4>1 DEF ListInv
    <3> QED
      BY <1>5, <3>3, <3>4
  <2> QED
    BY <2>1, <2>2, <2>3, <2>4 DEF ListInv, Born
<1>9. WalkInv'
  BY <1>2, <1>3, WalkUntouched
<1> QED
  BY <1>2, <1>7, <1>8, <1>9, TableUntouched DEF Inv, callVars

LEMMA OthersInv == Inv /\ Others => Inv'
<1> SUFFICES ASSUME Inv, Others
             PROVE  Inv'
  OBVIOUS
<1>1. PICK p \in Task :
        \/ \E l \in {"user", "nomm"} : Fork(p, l)
        \/ (\E r \in Pages : Resize(p, r)) \/ ExitMm(p)
        \/ Unlink(p) \/ FreeTask(p)
  BY DEF Others
<1>2. CASE \E l \in {"user", "nomm"} : Fork(p, l)
  BY <1>2, ForkInv
<1>3. CASE (\E r \in Pages : Resize(p, r)) \/ ExitMm(p)
  BY <1>3, ChangeInv
<1>4. CASE Unlink(p) \/ FreeTask(p)
  BY <1>4, UnlinkInv
<1> QED
  BY <1>1, <1>2, <1>3, <1>4

-----------------------------------------------------------------------------
(* The call *)

\* The list is not the call's: its invariant stays.
LEMMA ListUntouched ==
  ASSUME ListInv, UNCHANGED <<life, nxt, steady>>
  PROVE  ListInv'
  BY DEF ListInv, Born

\* The step to the next node: what is between the two nodes is not steady.
LEMMA NextTaskInv ==
  ASSUME Inv, NextTask, ~OnFreed, UNCHANGED <<life, rss, nxt, steady>>
  PROVE  Inv'
<1>1. TypeOK /\ ListInv /\ WalkInv /\ NumTasks \in Nat
  BY TopAssumption DEF Inv
<1>2. /\ pc = "next" /\ cursor' = nxt[cursor] /\ UNCHANGED <<table, ret, seen>>
      /\ pc' = IF nxt[cursor] = 0 THEN "copy" ELSE "test"
  BY DEF NextTask
<1>3. cursor \in Node /\ nxt[cursor] \in Node
  BY <1>1 DEF TypeOK
<1>4. TypeOK'
  BY <1>1, <1>2, <1>3 DEF TypeOK
<1>5. nxt[cursor] # 0 => nxt[cursor] > cursor /\ Born(nxt[cursor])
  BY <1>1, <1>3 DEF ListInv
<1>6. \A q \in steady : cursor < q => nxt[cursor] # 0 /\ nxt[cursor] <= q
  BY <1>1, <1>3 DEF ListInv, WalkInv
<1>7. WalkInv'
  <2>1. Born(cursor)'
    BY <1>2, <1>5 DEF Born
  <2>2. \A p \in Task : Behind(p) <=> p <= cursor
    BY <1>2 DEF Behind
  <2>3. ret = "OK"
    BY <1>1, <1>2 DEF WalkInv
  <2>4. CASE nxt[cursor] = 0
    <3>1. pc' = "copy" /\ \A p \in Task : Behind(p)'
      BY <1>2, <2>3, <2>4 DEF Behind
    <3>2. \A p \in steady : seen[p] = rss[p]
      BY <1>1, <1>3, <1>6, <2>2, <2>4 DEF WalkInv, TypeOK
    <3> QED
      BY <1>2, <2>1, <2>3, <3>1, <3>2 DEF WalkInv
  <2>5. CASE nxt[cursor] # 0
    <3>1. pc' = "test" /\ \A p \in Task : Behind(p)' <=> p < nxt[cursor]
      BY <1>2, <2>5 DEF Behind
    <3>2. \A p \in Task : seen[p] > 0 => p < nxt[cursor]
      <4>1. \A p \in Task : seen[p] > 0 => p <= cursor
        BY <1>1, <1>2, <2>2 DEF WalkInv
      <4> QED
        BY <1>1, <1>3, <1>5, <2>5, <4>1
    <3>3. \A p \in steady : p < nxt[cursor] => seen[p] = rss[p]
      <4> SUFFICES ASSUME NEW p \in steady, p < nxt[cursor]
                   PROVE  seen[p] = rss[p]
        OBVIOUS
      <4>1. p \in Task
        BY <1>1 DEF TypeOK
      <4>2. p <= cursor
        BY <1>1, <1>3, <1>6, <4>1
      <4> QED
        BY <1>1, <2>2, <4>1, <4>2 DEF WalkInv
    <3> QED
      BY <1>1, <1>2, <2>1, <2>3, <2>5, <3>1, <3>2, <3>3 DEF WalkInv, TypeOK
  <2> QED
    BY <2>4, <2>5
<1> QED
  BY <1>1, <1>2, <1>4, <1>7, ListUntouched, TableUntouched DEF Inv

\* Reading the size of the task under the cursor.
LEMMA SampleInv ==
  ASSUME Inv, Sample, pc' = "next", UNCHANGED <<life, rss, nxt, steady>>
  PROVE  Inv'
<1>1. TypeOK /\ ListInv /\ WalkInv /\ NumTasks \in Nat
  BY TopAssumption DEF Inv
<1>2. pc = "sample" /\ UNCHANGED <<cursor, ret>>
  BY DEF Sample, Lose
<1>3. cursor \in Task
  BY <1>2, SampledIsNew
<1>4. PICK r \in Pages : /\ life[cursor] = "user" => r = rss[cursor]
                        /\ table' = Insert(table, cursor, r)
                        /\ seen' = [seen EXCEPT ![cursor] = r]
  <2>1. PICK r \in IF life[cursor] = "user" THEN {rss[cursor]} ELSE Pages :
          table' = Insert(table, cursor, r) /\ seen' = [seen EXCEPT ![cursor] = r]
    BY DEF Sample, Lose
  <2>2. rss[cursor] \in Pages
    BY <1>1, <1>3 DEF TypeOK
  <2>3. r \in Pages /\ (life[cursor] = "user" => r = rss[cursor])
    BY <2>1, <2>2
  <2> QED
    BY <2>1, <2>3
<1>5. TypeOK'
  <2>1. table' \in [Slot -> [pid : Node, rss : Pages \cup {0}]]
    BY <1>1, <1>3, <1>4, InsertType DEF TypeOK
  <2>2. seen' \in [Task -> Pages \cup {0}]
    BY <1>1, <1>4 DEF TypeOK
  <2> QED
    BY <1>1, <1>2, <2>1, <2>2 DEF TypeOK
<1>6. WalkInv'
  <2>1. Born(cursor)'
    BY <1>1, <1>2 DEF WalkInv, Born
  <2>2. \A p \in Task : (Behind(p)' <=> p <= cursor) /\ (Behind(p) <=> p < cursor)
    BY <1>2 DEF Behind
  <2>3. \A p \in Task : seen'[p] > 0 => p <= cursor
    <3>1. \A p \in Task : seen[p] > 0 => p < cursor
      BY <1>2, SampledIsNew
    <3> QED
      BY <1>1, <1>3, <1>4, <3>1 DEF TypeOK
  <2>4. ASSUME NEW p \in steady, p <= cursor
        PROVE  seen'[p] = rss[p]
    <3>1. p \in Task /\ life[p] = "user"
      BY <1>1 DEF TypeOK, ListInv
    <3>2. CASE p = cursor
      BY <1>1, <1>3, <1>4, <3>1, <3>2 DEF TypeOK
    <3>3. CASE p # cursor
      <4>1. p < cursor
        BY <1>1, <1>3, <2>4, <3>1, <3>3
      <4>2. seen[p] = rss[p]
        BY <1>1, <2>2, <3>1, <4>1 DEF WalkInv
      <4> QED
        BY <1>1, <1>4, <3>1, <3>3, <4>2 DEF TypeOK
    <3> QED
      BY <3>2, <3>3
  <2>5. steady \subseteq Task /\ ret = "OK"
    BY <1>1, <1>2 DEF TypeOK, WalkInv
  <2> QED
    BY <1>2, <2>1, <2>2, <2>3, <2>4, <2>5 DEF WalkInv
<1>7. TableIsTheTop'
  BY <1>2, <1>4, InsertKeepsTop
<1> QED
  BY <1>1, <1>5, <1>6, <1>7, ListUntouched DEF Inv

\* The other steps of the call read nothing and leave the table as it is.
LEMMA QuietInv ==
  ASSUME Inv, UNCHANGED <<life, rss, nxt, steady>>,
         AllocTable \/ TestMm \/ CopyOut \/ (Lose /\ pc # "returned")
  PROVE  Inv'
<1>1. TypeOK /\ ListInv /\ WalkInv /\ NumTasks \in Nat /\ 0 \in Node
  BY TopAssumption DEF Inv
<1>2. CASE AllocTable
  <2>1. TypeOK'
    BY <1>1, <1>2 DEF AllocTable, TypeOK, Empty
  <2>2. /\ pc = "alloc" /\ cursor = 0 /\ UNCHANGED <<cursor, seen>>
        /\ \/ pc' = "next" /\ ret' = ret
           \/ pc' = "returned" /\ ret' = "ENOMEM"
    BY <1>1, <1>2 DEF AllocTable, WalkInv
  <2>3. \A p \in Task : ~(seen[p] > 0) /\ ~Behind(p)'
    BY <1>1, <2>2 DEF WalkInv, Behind
  <2>4. WalkInv'
    <3>1. Born(cursor)' /\ ret = "OK"
      BY <1>1, <2>2 DEF Born, WalkInv
    <3> QED
      BY <1>1, <2>2, <2>3, <3>1 DEF WalkInv, TypeOK
  <2>5. TableIsTheTop'
    BY <1>2, <2>3 DEF AllocTable, TableIsTheTop, Empty
  <2> QED
    BY <1>1, <2>1, <2>4, <2>5, ListUntouched DEF Inv
<1>3. CASE Lose /\ pc # "returned"
  <2>1. TypeOK'
    BY <1>1, <1>3 DEF Lose, TypeOK
  <2>2. \A p \in Task : ~Behind(p)'
    BY <1>3 DEF Lose, Behind
  <2>3. WalkInv'
    BY <1>1, <1>3, <2>2 DEF Lose, WalkInv, TypeOK, Born
  <2> QED
    BY <1>1, <1>3, <2>1, <2>3, ListUntouched, TableUntouched DEF Inv, Lose
<1>4. CASE TestMm /\ ~OnFreed
  <2>1. /\ pc = "test" /\ UNCHANGED <<cursor, table, ret, seen>>
        /\ pc' = IF life[cursor] = "user" THEN "sample" ELSE "next"
    BY <1>4 DEF TestMm
  <2>2. TypeOK'
    BY <1>1, <2>1 DEF TypeOK
  <2>3. cursor \in Task /\ Born(cursor)
    BY <1>1, <2>1 DEF WalkInv, TypeOK
  <2>4. \A p \in Task : Behind(p) <=> p < cursor
    BY <2>1 DEF Behind
  <2>5. \A p \in Task : Behind(p)' <=> \/ p < cursor
                                       \/ p = cursor /\ life[cursor] # "user"
    BY <1>1, <2>1, <2>3 DEF Behind
  <2>6. cursor \in steady => life[cursor] = "user"
    BY <1>1 DEF ListInv
  <2>7. WalkInv'
    <3>1. \A p \in Task : seen[p] > 0 => Behind(p)
      BY <1>1, <2>1 DEF WalkInv
    <3>2. ASSUME NEW p \in steady, Behind(p)'
          PROVE  seen[p] = rss[p]
      <4>1. p \in Task
        BY <1>1 DEF TypeOK
      <4>2. Behind(p)
        BY <2>4, <2>5, <2>6, <3>2, <4>1
      <4> QED
        BY <1>1, <4>2 DEF WalkInv
    <3>3. Born(cursor)' /\ cursor # 0 /\ ret = "OK"
      BY <1>1, <2>1, <2>3 DEF Born, WalkInv
    <3> QED
      BY <2>1, <2>4, <2>5, <3>1, <3>2, <3>3 DEF WalkInv
  <2> QED
    BY <1>1, <2>1, <2>2, <2>7, ListUntouched, TableUntouched DEF Inv
<1>5. CASE CopyOut
  <2>1. /\ pc = "copy" /\ pc' = "returned" /\ UNCHANGED <<cursor, table, seen>>
        /\ ret' \in {"OK", "PARTIAL"} /\ ret = "OK"
    BY <1>1, <1>5 DEF CopyOut, WalkInv
  <2>2. TypeOK'
    BY <1>1, <2>1 DEF TypeOK
  <2>3. \A p \in Task : Behind(p)
    BY <2>1 DEF Behind
  <2>4. WalkInv'
    BY <1>1, <2>1, <2>3 DEF WalkInv, Born, TypeOK
  <2> QED
    BY <1>1, <2>1, <2>2, <2>4, ListUntouched, TableUntouched DEF Inv
<1> QED
  BY <1>2, <1>3, <1>4, <1>5 DEF TestMm

LEMMA CallInv == Inv /\ Call => Inv'
<1> SUFFICES ASSUME Inv, Call
             PROVE  Inv'
  OBVIOUS
<1>1. UNCHANGED <<life, rss, nxt, steady>>
  BY DEF Call
<1>2. CASE AllocTable \/ TestMm \/ CopyOut
  BY <1>1, <1>2, QuietInv
<1>3. CASE NextTask
  BY <1>1, <1>3, NextTaskInv, QuietInv DEF NextTask
<1>4. CASE Sample
  <2>1. pc # "returned" /\ (Lose \/ pc' = "next")
    BY <1>4 DEF Sample
  <2> QED
    BY <1>1, <1>4, <2>1, SampleInv, QuietInv
<1> QED
  BY <1>2, <1>3, <1>4 DEF Call

-----------------------------------------------------------------------------
(* The theorems *)

\* Init establishes the invariant and every step keeps it.
THEOREM Invariance == Spec => []Inv
<1>1. Inv /\ UNCHANGED vars => Inv'
  BY DEF Inv, TypeOK, ListInv, WalkInv, TableIsTheTop, Ranked, Before, Behind, Born, vars
<1>2. Inv /\ [Next]_vars => Inv'
  BY <1>1, CallInv, OthersInv DEF Next
<1> QED
  BY <1>2, InitInv, PTL DEF Spec

\* Every variable keeps its type.
THEOREM TopTypeCorrect == Spec => []TypeOK
<1>1. Inv => TypeOK
  BY DEF Inv
<1> QED
  BY <1>1, Invariance, PTL

\* The table of use_mem_top_procs (use_mem_top_procs.c:45-61) is at every
\* moment the ranking of the sizes read so far, for a table of any size.
THEOREM TableRanked == Spec => []TableIsTheTop
<1>1. Inv => TableIsTheTop
  BY DEF Inv
<1> QED
  BY <1>1, Invariance, PTL

\* What use_mem_top_procs copies out is right about every process that ran
\* and kept its size during the call, whatever the list went through.
THEOREM ResultRight == Spec => []ResultIsTheTop
<1>1. Inv => ResultIsTheTop
  <2> SUFFICES ASSUME Inv, pc \in {"copy", "returned"}, ret # "ENOMEM",
                      NEW p \in steady
               PROVE  IF p \in Ranked THEN seen[p] = rss[p]
                      ELSE \A k \in Slot : table[k].rss >= rss[p]
    BY DEF ResultIsTheTop
  <2>1. p \in Task /\ TypeOK
    BY DEF Inv, TypeOK
  <2>2. seen[p] = rss[p]
    <3>1. Behind(p)
      BY DEF Behind
    <3> QED
      BY <3>1 DEF Inv, WalkInv
  <2>3. ASSUME p \notin Ranked, NEW k \in Slot
        PROVE  table[k].rss >= rss[p]
    <3>1. table[k] \in [pid : Node, rss : Pages \cup {0}] /\ seen[p] \in Pages \cup {0}
      BY <2>1 DEF TypeOK
    <3>2. table[k].rss \in Pages \cup {0}
      BY <3>1
    <3>3. table[k].rss \in Nat /\ seen[p] \in Nat
      BY <3>1, <3>2, SizeIsNat
    <3>4. CASE seen[p] > 0
      <4>1. table[k].pid # 0 /\ Before(seen, table[k].pid, p)
        BY <2>1, <2>3, <3>4 DEF Inv, TableIsTheTop
      <4>2. seen[table[k].pid] = table[k].rss
        BY <4>1 DEF Inv, TableIsTheTop
      <4> QED
        BY <2>2, <3>3, <4>1, <4>2 DEF Before
    <3> QED
      BY <2>2, <3>3, <3>4
  <2> QED
    BY <2>2, <2>3
<1> QED
  BY <1>1, Invariance, PTL

=============================================================================
