--------------------------- MODULE EventBufProofs ---------------------------
(***************************************************************************)
(* The linked list of event_buf.c is a chain and implements the queue of   *)
(* SmsOutbox, for every size of the buffer and every set of users, until   *)
(* the one interleaving of the two tasks that tears it.                    *)
(***************************************************************************)
EXTENDS EventBuf, FiniteSetTheorems, SequenceTheorems,
        WellFoundedInduction, TLAPS

-----------------------------------------------------------------------------
(* Induction over numbers and recursion, which the loops of event_buf.c are *)
(* made of.                                                                 *)

\* A set of natural numbers that is not empty has a least element.
LEMMA LeastNat ==
  ASSUME NEW S, S \subseteq Nat, S # {}
  PROVE  \E m \in S : \A k \in S : m <= k
<1>1. PICK x \in S : \A y \in S : ~(<<y, x>> \in OpToRel(<, Nat))
  BY WFMin, NatLessThanWellFounded
<1>2. \A y \in S : ~(y < x)
  BY <1>1, Zenon DEF OpToRel
<1> QED BY <1>2

\* A set that holds 0 and with a number the next one, up to N, holds them all.
LEMMA Climb ==
  ASSUME NEW N \in Nat, NEW S, 0 \in S,
         \A k \in 1 .. N : k - 1 \in S => k \in S
  PROVE  0 .. N \subseteq S
<1> SUFFICES ASSUME (0 .. N) \ S # {} PROVE FALSE
  OBVIOUS
<1>1. (0 .. N) \ S \subseteq Nat
  OBVIOUS
<1>2. PICK m \in (0 .. N) \ S : \A k \in (0 .. N) \ S : m <= k
  BY <1>1, LeastNat, Zenon
<1>3. m \in 1 .. N
  BY <1>2
<1>4. m - 1 \in S
  BY <1>2, <1>3
<1> QED BY <1>2, <1>3, <1>4

\* The states of a loop of N rounds over S that begins with s.
LoopRun(f, N, S, s, step) ==
  /\ f \in [0 .. N -> S] /\ f[0] = s
  /\ \A k \in 1 .. N : f[k] = step[k][f[k - 1]]

\* A loop of N turns runs to its end, from any state.
LEMMA LoopRuns ==
  ASSUME NEW N \in Nat, NEW S, NEW s \in S, NEW step \in [1 .. N -> [S -> S]]
  PROVE  \E f : LoopRun(f, N, S, s, step)
<1> DEFINE Run(m, f) == LoopRun(f, m, S, s, step)
           Ok == {m \in 0 .. N : \E f : Run(m, f)}
<1>1. 0 \in Ok
  <2>1. Run(0, [k \in 0 .. 0 |-> s])
    BY DEF LoopRun
  <2> HIDE DEF Run
  <2> QED BY <2>1
<1>2. ASSUME NEW m \in 1 .. N, m - 1 \in Ok PROVE m \in Ok
  <2>1. PICK f : Run(m - 1, f)
    BY <1>2
  <2>2. /\ f \in [0 .. m - 1 -> S] /\ f[0] = s
        /\ \A k \in 1 .. m - 1 : f[k] = step[k][f[k - 1]]
    BY <2>1 DEF LoopRun
  <2> DEFINE g == [k \in 0 .. m |-> IF k = m THEN step[m][f[m - 1]] ELSE f[k]]
  <2>3. f[m - 1] \in S
    BY <2>2
  <2>4. step[m] \in [S -> S]
    OBVIOUS
  <2>5. step[m][f[m - 1]] \in S
    BY <2>3, <2>4
  <2>6. g \in [0 .. m -> S]
    BY <2>2, <2>5
  <2>7. g[0] = s
    BY <2>2
  <2>8. \A k \in 1 .. m : g[k] = step[k][g[k - 1]]
    BY <2>2
  <2>9. Run(m, g)
    BY <2>6, <2>7, <2>8 DEF LoopRun
  <2> HIDE DEF g, Run
  <2> QED BY <2>9
<1>3. 0 .. N \subseteq Ok
  <2> HIDE DEF Ok
  <2> QED BY <1>1, <1>2, Climb
<1> QED BY <1>3

-----------------------------------------------------------------------------
(* The list *)

Flags == {"free", "active", "processing"}
Record == [flag : Flags, next : Slots \cup {Nil}, prev : Slots \cup {Nil},
           n : Nat, user : Users \cup {NoUser}]
Items == [Slots -> Record]
Lists == [item : Items, start : Slots \cup {Nil}, last : Slots \cup {Nil}]

\* p is the order of the n records that b links.
Chain(b, p, n) ==
  /\ n \in 1 .. Size /\ p \in [1 .. n -> Slots]
  /\ \A j, k \in 1 .. n : p[j] = p[k] => j = k
  /\ \A i \in Slots : b.item[i].flag # "free" <=> \E k \in 1 .. n : p[k] = i
  /\ b.start = p[1] /\ b.last = p[n]
  /\ \A k \in 1 .. n - 1 : b.item[p[k]].next = p[k + 1]
  /\ \A k \in 2 .. n : b.item[p[k]].prev = p[k - 1]
  /\ b.item[p[1]].prev = Nil /\ b.item[p[n]].next = Nil

\* The list is a chain, or empty with a slot to begin with.
IsChain(b) ==
  IF b.last = Nil
    THEN b.start \in Slots /\ \A i \in Slots : b.item[i].flag = "free"
    ELSE \E n, p : Chain(b, p, n)

\* An assignment to one field of a slot, or to none when the index is Nil.
LEMMA SetFlag ==
  ASSUME NEW t \in Items, NEW i \in Slots \cup {Nil}, NEW v \in Flags
  PROVE  LET u == [t EXCEPT ![i].flag = v]
         IN  /\ u \in Items
             /\ \A s \in Slots :
                  /\ u[s].flag = IF s = i THEN v ELSE t[s].flag
                  /\ u[s].next = t[s].next /\ u[s].prev = t[s].prev
                  /\ u[s].n = t[s].n /\ u[s].user = t[s].user
BY DEF Items, Record

\* A new next link: everything else in the list stays.
LEMMA SetNext ==
  ASSUME NEW t \in Items, NEW i \in Slots \cup {Nil}, NEW v \in Slots \cup {Nil}
  PROVE  LET u == [t EXCEPT ![i].next = v]
         IN  /\ u \in Items
             /\ \A s \in Slots :
                  /\ u[s].next = IF s = i THEN v ELSE t[s].next
                  /\ u[s].flag = t[s].flag /\ u[s].prev = t[s].prev
                  /\ u[s].n = t[s].n /\ u[s].user = t[s].user
BY DEF Items, Record

\* A new prev link: everything else in the list stays.
LEMMA SetPrev ==
  ASSUME NEW t \in Items, NEW i \in Slots \cup {Nil}, NEW v \in Slots \cup {Nil}
  PROVE  LET u == [t EXCEPT ![i].prev = v]
         IN  /\ u \in Items
             /\ \A s \in Slots :
                  /\ u[s].prev = IF s = i THEN v ELSE t[s].prev
                  /\ u[s].flag = t[s].flag /\ u[s].next = t[s].next
                  /\ u[s].n = t[s].n /\ u[s].user = t[s].user
BY DEF Items, Record

\* What _delete_item() does to the fields of every slot, whatever the list.
LEMMA DeleteFact ==
  ASSUME NEW b \in Lists, NEW i \in Slots, b.item[i].flag # "free"
  PROVE  LET x == b.item[i]
             d == Delete(b, i)
         IN  /\ d \in Lists
             /\ d.start = IF i = b.start /\ i # b.last THEN x.next ELSE b.start
             /\ d.last = IF i # b.last THEN b.last
                         ELSE IF i = b.start THEN Nil ELSE x.prev
             /\ \A s \in Slots :
                  /\ d.item[s].flag = IF s = i THEN "free" ELSE b.item[s].flag
                  /\ d.item[s].next = IF i # b.start /\ s = x.prev
                                      THEN x.next ELSE b.item[s].next
                  /\ d.item[s].prev = IF i # b.last /\ s = x.next
                                      THEN IF i = b.start THEN Nil ELSE x.prev
                                      ELSE b.item[s].prev
                  /\ d.item[s].n = b.item[s].n
                  /\ d.item[s].user = b.item[s].user
<1> DEFINE x == b.item[i]
           c == [b.item EXCEPT ![i].flag = "free"]
           e == [c EXCEPT ![x.prev].next = x.next]
<1>1. /\ b.item \in Items /\ b.start \in Slots \cup {Nil}
      /\ b.last \in Slots \cup {Nil}
  BY DEF Lists
<1>2. /\ x \in Record /\ x.flag # "free"
      /\ x.next \in Slots \cup {Nil} /\ x.prev \in Slots \cup {Nil}
  BY <1>1 DEF Items, Record
<1>3. c \in Items /\ \A s \in Slots :
        /\ c[s].flag = IF s = i THEN "free" ELSE b.item[s].flag
        /\ c[s].next = b.item[s].next /\ c[s].prev = b.item[s].prev
        /\ c[s].n = b.item[s].n /\ c[s].user = b.item[s].user
  <2>1. "free" \in Flags
    BY DEF Flags
  <2> QED BY <1>1, <2>1, SetFlag
<1> HIDE DEF c, x
<1>4. e \in Items /\ \A s \in Slots :
        /\ e[s].next = IF s = x.prev THEN x.next ELSE c[s].next
        /\ e[s].flag = c[s].flag /\ e[s].prev = c[s].prev
        /\ e[s].n = c[s].n /\ e[s].user = c[s].user
  BY <1>2, <1>3, SetNext
<1>5. CASE i # b.start /\ b.last = i
  <2>1. Delete(b, i) = [b EXCEPT !.item = e, !.last = x.prev]
    BY <1>2, <1>5, Zenon DEF Delete, c, x
  <2>2. Delete(b, i) = [item |-> e, start |-> b.start, last |-> x.prev]
    BY <2>1 DEF Lists
  <2> HIDE DEF e
  <2> QED BY <1>1, <1>2, <1>3, <1>4, <1>5, <2>2 DEF Lists, x
<1>6. CASE i # b.start /\ b.last # i
  <2> DEFINE f == [e EXCEPT ![x.next].prev = x.prev]
  <2>1. Delete(b, i) = [b EXCEPT !.item = f, !.last = b.last]
    BY <1>2, <1>6, Zenon DEF Delete, c, x
  <2>2. Delete(b, i) = [item |-> f, start |-> b.start, last |-> b.last]
    BY <2>1 DEF Lists
  <2> HIDE DEF e
  <2>3. f \in Items /\ \A s \in Slots :
          /\ f[s].prev = IF s = x.next THEN x.prev ELSE e[s].prev
          /\ f[s].flag = e[s].flag /\ f[s].next = e[s].next
          /\ f[s].n = e[s].n /\ f[s].user = e[s].user
    <3>1. e \in Items /\ x.next \in Slots \cup {Nil}
          /\ x.prev \in Slots \cup {Nil}
      BY <1>2, <1>4
    <3> QED BY <3>1, SetPrev
  <2> HIDE DEF f
  <2> QED BY <1>1, <1>2, <1>3, <1>4, <1>6, <2>2, <2>3 DEF Lists, x
<1>7. CASE i = b.start /\ b.last # i
  <2> DEFINE f == [c EXCEPT ![x.next].prev = Nil]
  <2>1. Delete(b, i) = [b EXCEPT !.item = f, !.start = x.next]
    BY <1>2, <1>7, Zenon DEF Delete, c, x
  <2>2. Delete(b, i) = [item |-> f, start |-> x.next, last |-> b.last]
    BY <2>1 DEF Lists
  <2>3. f \in Items /\ \A s \in Slots :
          /\ f[s].prev = IF s = x.next THEN Nil ELSE c[s].prev
          /\ f[s].flag = c[s].flag /\ f[s].next = c[s].next
          /\ f[s].n = c[s].n /\ f[s].user = c[s].user
    BY <1>2, <1>3, SetPrev
  <2> HIDE DEF f
  <2> QED BY <1>1, <1>2, <1>3, <1>7, <2>2, <2>3 DEF Lists, x
<1>8. CASE i = b.start /\ b.last = i
  <2>1. Delete(b, i) = [b EXCEPT !.item = c, !.last = Nil]
    BY <1>2, <1>8, Zenon DEF Delete, c, x
  <2>2. Delete(b, i) = [item |-> c, start |-> b.start, last |-> Nil]
    BY <2>1 DEF Lists
  <2> QED BY <1>1, <1>2, <1>3, <1>8, <2>2 DEF Lists, x
<1> QED BY <1>5, <1>6, <1>7, <1>8, Zenon

\* The entries that event_buf.c reads along the chain: _delete_item() takes
\* the j-th record out and leaves the others in their order.
Without(p, n, j) == [k \in 1 .. n - 1 |-> IF k < j THEN p[k] ELSE p[k + 1]]

\* Deleting an entry leaves a chain without it.
LEMMA DeleteChain ==
  ASSUME NEW b \in Lists, NEW n, NEW p, Chain(b, p, n), NEW j \in 1 .. n
  PROVE  /\ Delete(b, p[j]) \in Lists
         /\ n = 1 => /\ Delete(b, p[j]).last = Nil
                     /\ IsChain(Delete(b, p[j]))
         /\ n > 1 => /\ Delete(b, p[j]).last # Nil
                     /\ Chain(Delete(b, p[j]), Without(p, n, j), n - 1)
<1> DEFINE i == p[j]
           x == b.item[i]
           d == Delete(b, i)
           q == Without(p, n, j)
<1>1. /\ n \in 1 .. Size /\ n \in Nat /\ p \in [1 .. n -> Slots]
      /\ \A l, k \in 1 .. n : p[l] = p[k] => l = k
      /\ b.start = p[1] /\ b.last = p[n]
  BY SizeAssumption DEF Chain
<1>2. i \in Slots /\ x.flag # "free"
  BY <1>1 DEF Chain
<1>3. i = b.start <=> j = 1
  BY <1>1
<1>4. i = b.last <=> j = n
  BY <1>1
<1>5. /\ x.next = IF j = n THEN Nil ELSE p[j + 1]
      /\ x.prev = IF j = 1 THEN Nil ELSE p[j - 1]
  BY <1>1 DEF Chain
<1>6. /\ d \in Lists
      /\ d.start = IF i = b.start /\ i # b.last THEN x.next ELSE b.start
      /\ d.last = IF i # b.last THEN b.last
                  ELSE IF i = b.start THEN Nil ELSE x.prev
      /\ \A s \in Slots :
           /\ d.item[s].flag = IF s = i THEN "free" ELSE b.item[s].flag
           /\ d.item[s].next = IF i # b.start /\ s = x.prev
                               THEN x.next ELSE b.item[s].next
           /\ d.item[s].prev = IF i # b.last /\ s = x.next
                               THEN IF i = b.start THEN Nil ELSE x.prev
                               ELSE b.item[s].prev
  BY <1>2, DeleteFact
<1> HIDE DEF d
<1>7. Nil \notin Slots
  BY NilAssumption
<1>8. CASE n = 1
  <2>1. d.last = Nil /\ d.start = b.start
    BY <1>3, <1>4, <1>6, <1>8
  <2>2. \A s \in Slots : d.item[s].flag = "free"
    BY <1>1, <1>6, <1>8 DEF Chain
  <2> QED BY <1>1, <1>6, <1>8, <2>1, <2>2 DEF IsChain, d
<1>9. CASE n > 1
  <2>1. q \in [1 .. n - 1 -> Slots]
    BY <1>1 DEF Without
  <2>2. \A l, k \in 1 .. n - 1 : q[l] = q[k] => l = k
    BY <1>1 DEF Without
  <2>3. \A s \in Slots :
          d.item[s].flag # "free" <=> \E k \in 1 .. n - 1 : q[k] = s
    <3> SUFFICES ASSUME NEW s \in Slots
                 PROVE  d.item[s].flag # "free"
                          <=> \E k \in 1 .. n - 1 : q[k] = s
      OBVIOUS
    <3>1. b.item[s].flag # "free" <=> \E k \in 1 .. n : p[k] = s
      BY DEF Chain
    <3>2. d.item[s].flag # "free" <=> s # i /\ b.item[s].flag # "free"
      BY <1>6
    <3>3. ASSUME NEW k \in 1 .. n, p[k] = s, s # i
          PROVE  \E m \in 1 .. n - 1 : q[m] = s
      <4>1. CASE k < j
        BY <1>1, <3>3, <4>1 DEF Without
      <4>2. CASE k > j
        <5>1. k - 1 \in 1 .. n - 1 /\ q[k - 1] = p[k]
          BY <1>1, <4>2 DEF Without
        <5> QED BY <3>3, <5>1
      <4> QED BY <1>1, <3>3, <4>1, <4>2
    <3>4. ASSUME NEW k \in 1 .. n - 1, q[k] = s
          PROVE  s # i /\ \E m \in 1 .. n : p[m] = s
      BY <1>1, <3>4 DEF Without
    <3> QED BY <3>1, <3>2, <3>3, <3>4
  <2>4. d.start = q[1]
    BY <1>1, <1>3, <1>4, <1>5, <1>6, <1>9 DEF Without
  <2>5. d.last = q[n - 1]
    BY <1>1, <1>3, <1>4, <1>5, <1>6, <1>9 DEF Without
  <2>6. \A k \in 1 .. n - 1 : q[k] = IF k < j THEN p[k] ELSE p[k + 1]
    BY <1>1 DEF Without
  <2> HIDE DEF q, i, x
  <2>7. ASSUME NEW k \in 1 .. n - 2 PROVE d.item[q[k]].next = q[k + 1]
    <3>1. CASE k < j - 1
      <4>1. q[k] = p[k] /\ q[k + 1] = p[k + 1] /\ b.item[p[k]].next = p[k + 1]
        BY <1>1, <2>6, <3>1 DEF Chain
      <4>2. p[k] \in Slots /\ (j # 1 => p[k] # x.prev)
        BY <1>1, <1>5, <3>1
      <4> QED BY <1>3, <1>6, <4>1, <4>2
    <3>2. CASE k = j - 1
      <4>1. q[k] = p[j - 1] /\ q[k + 1] = p[j + 1]
        BY <1>1, <2>6, <3>2
      <4>2. p[j - 1] \in Slots /\ x.prev = p[j - 1] /\ x.next = p[j + 1]
            /\ j # 1
        BY <1>1, <1>5, <3>2
      <4> QED BY <1>3, <1>6, <4>1, <4>2
    <3>3. CASE k >= j
      <4>1. /\ q[k] = p[k + 1] /\ q[k + 1] = p[k + 2]
            /\ b.item[p[k + 1]].next = p[k + 2]
        BY <1>1, <2>6, <3>3 DEF Chain
      <4>2. p[k + 1] \in Slots /\ (j # 1 => p[k + 1] # x.prev)
        BY <1>1, <1>5, <3>3
      <4> QED BY <1>3, <1>6, <4>1, <4>2
    <3> QED BY <1>1, <3>1, <3>2, <3>3
  <2>8. ASSUME NEW k \in 2 .. n - 1 PROVE d.item[q[k]].prev = q[k - 1]
    <3>1. CASE k < j
      <4>1. q[k] = p[k] /\ q[k - 1] = p[k - 1] /\ b.item[p[k]].prev = p[k - 1]
        BY <1>1, <2>6, <3>1 DEF Chain
      <4>2. p[k] \in Slots /\ p[k] # x.next
        BY <1>1, <1>5, <1>7, <3>1
      <4> QED BY <1>6, <4>1, <4>2
    <3>2. CASE k = j
      <4>1. q[k] = p[j + 1] /\ q[k - 1] = p[j - 1]
        BY <1>1, <2>6, <3>2
      <4>2. p[j + 1] \in Slots /\ x.prev = p[j - 1] /\ x.next = p[j + 1]
            /\ j # 1 /\ j # n
        BY <1>1, <1>5, <3>2
      <4> QED BY <1>3, <1>4, <1>6, <4>1, <4>2
    <3>3. CASE k > j
      <4>1. /\ q[k] = p[k + 1] /\ q[k - 1] = p[k]
            /\ b.item[p[k + 1]].prev = p[k]
        BY <1>1, <2>6, <3>3 DEF Chain
      <4>2. p[k + 1] \in Slots /\ p[k + 1] # x.next
        BY <1>1, <1>5, <1>7, <3>3
      <4> QED BY <1>6, <4>1, <4>2
    <3> QED BY <1>1, <3>1, <3>2, <3>3
  <2>9. d.item[q[1]].prev = Nil
    <3>1. CASE j = 1
      <4>1. q[1] = p[2] /\ x.next = p[2] /\ p[2] \in Slots /\ j # n
        BY <1>1, <1>5, <1>9, <2>6, <3>1
      <4> QED BY <1>3, <1>4, <1>6, <3>1, <4>1
    <3>2. CASE j > 1
      <4>1. q[1] = p[1] /\ p[1] \in Slots /\ b.item[p[1]].prev = Nil
            /\ p[1] # x.next
        BY <1>1, <1>5, <1>7, <1>9, <2>6, <3>2 DEF Chain
      <4> QED BY <1>6, <4>1
    <3> QED BY <3>1, <3>2
  <2>10. d.item[q[n - 1]].next = Nil
    <3>1. CASE j = n
      <4>1. /\ q[n - 1] = p[n - 1] /\ x.prev = p[n - 1] /\ x.next = Nil
            /\ p[n - 1] \in Slots /\ j # 1
        BY <1>1, <1>5, <1>9, <2>6, <3>1
      <4> QED BY <1>3, <1>6, <4>1
    <3>2. CASE j < n
      <4>1. q[n - 1] = p[n] /\ p[n] \in Slots /\ b.item[p[n]].next = Nil
            /\ (j # 1 => p[n] # x.prev)
        BY <1>1, <1>5, <1>7, <1>9, <2>6, <3>2 DEF Chain
      <4> QED BY <1>3, <1>6, <4>1
    <3> QED BY <1>1, <3>1, <3>2
  <2>11. n - 1 \in 1 .. Size /\ n - 1 - 1 = n - 2
    BY <1>1, <1>9, SizeAssumption
  <2>12. Chain(d, q, n - 1)
    BY <2>1, <2>2, <2>3, <2>4, <2>5, <2>7, <2>8, <2>9, <2>10, <2>11, Zenon
    DEF Chain
  <2>13. d.last # Nil
    <3>1. n - 1 \in 1 .. n - 1
      BY <1>1, <1>9
    <3>2. q[n - 1] \in Slots
      BY <2>1, <3>1
    <3> QED BY <1>7, <2>5, <3>2
  <2> QED BY <1>6, <1>9, <2>12, <2>13 DEF d, q, i
<1> QED BY <1>1, <1>8, <1>9

\* ... so the list stays a chain, and the slot is free.
LEMMA DeleteKeeps ==
  ASSUME NEW b \in Lists, IsChain(b), NEW i \in Slots, b.item[i].flag # "free"
  PROVE  /\ Delete(b, i) \in Lists /\ IsChain(Delete(b, i))
         /\ Delete(b, i).item[i].flag = "free"
         /\ Delete(b, i).last = Nil => Delete(b, i).start = i
<1>1. b.last # Nil
  BY DEF IsChain
<1>2. PICK n, p : Chain(b, p, n)
  BY <1>1 DEF IsChain
<1>3. n \in Nat /\ n >= 1
  BY <1>2, SizeAssumption DEF Chain
<1>4. PICK j \in 1 .. n : p[j] = i
  BY <1>2 DEF Chain
<1>5. CASE n = 1
  <2>1. Delete(b, i) \in Lists /\ IsChain(Delete(b, i))
    BY <1>2, <1>4, <1>5, DeleteChain
  <2>2. i = b.start /\ i = b.last
    BY <1>2, <1>4, <1>5 DEF Chain
  <2>3. /\ Delete(b, i).start = IF i = b.start /\ i # b.last
                                 THEN b.item[i].next ELSE b.start
        /\ Delete(b, i).item[i].flag = "free"
    <3>1. Delete(b, i).item[i].flag = "free"
      BY DeleteFact
    <3>2. Delete(b, i).start = IF i = b.start /\ i # b.last
                               THEN b.item[i].next ELSE b.start
      BY DeleteFact
    <3> QED BY <3>1, <3>2
  <2> QED BY <2>1, <2>2, <2>3
<1>6. CASE n > 1
  <2>1. /\ Delete(b, i) \in Lists /\ Delete(b, i).last # Nil
        /\ Chain(Delete(b, i), Without(p, n, j), n - 1)
    BY <1>2, <1>4, <1>6, DeleteChain
  <2>2. Delete(b, i).item[i].flag = "free"
    BY DeleteFact
  <2> QED BY <2>1, <2>2 DEF IsChain
<1> QED BY <1>3, <1>5, <1>6

\* A chain that does not use every slot is shorter than the buffer.
LEMMA FreeSlot ==
  ASSUME NEW b, NEW n, NEW p, Chain(b, p, n),
         NEW w \in Slots, b.item[w].flag = "free"
  PROVE  n < Size
<1>1. n \in 1 .. Size /\ p \in [1 .. n -> Slots]
  BY DEF Chain
<1>2. p \in [1 .. n -> Slots \ {w}]
  BY <1>1 DEF Chain
<1> SUFFICES ASSUME n = Size PROVE FALSE
  BY <1>1, SizeAssumption
<1>3. IsFiniteSet(Slots) /\ Cardinality(Slots) = Size
  <2>1. 0 \in Int /\ Size - 1 \in Int /\ ~(0 > Size - 1)
        /\ Size - 1 - 0 + 1 = Size
    BY SizeAssumption
  <2> QED BY <2>1, FS_Interval, Zenon DEF Slots
<1>4. IsFiniteSet(Slots \ {w}) /\ Cardinality(Slots \ {w}) = Size - 1
  BY <1>3, FS_RemoveElement
<1>5. IsFiniteSet(1 .. n) /\ Cardinality(1 .. n) = Size
  BY <1>1, SizeAssumption, FS_Interval
<1>6. PICK j \in 1 .. n, k \in 1 .. n : j # k /\ p[j] = p[k]
  BY <1>2, <1>4, <1>5, SizeAssumption, FS_PigeonHole
<1> QED BY <1>6 DEF Chain

\* event_buf_add_event(): the new record is linked behind the last one.
Longer(p, n, w) == [k \in 1 .. n + 1 |-> IF k = n + 1 THEN w ELSE p[k]]

\* What event_buf_add_event() writes into the list.
LEMMA LinkFact ==
  ASSUME NEW b \in Lists, NEW w \in Slots, NEW new \in Record
  PROVE  LET a == Link(b, w, new)
         IN  /\ a \in Lists /\ a.start = b.start /\ a.last = w
             /\ a.item[w] = new
             /\ \A s \in Slots \ {w} :
                  /\ a.item[s].next = IF s = b.last THEN w ELSE b.item[s].next
                  /\ a.item[s].flag = b.item[s].flag
                  /\ a.item[s].prev = b.item[s].prev
                  /\ a.item[s].n = b.item[s].n
                  /\ a.item[s].user = b.item[s].user
<1>1. /\ b.item \in Items /\ b.start \in Slots \cup {Nil}
      /\ b.last \in Slots \cup {Nil}
  BY DEF Lists
<1>2. Nil \notin Slots
  BY NilAssumption
<1>3. CASE b.last = Nil
  <2> DEFINE t == [b.item EXCEPT ![w] = new]
  <2>1. t \in Items /\ t[w] = new /\ \A s \in Slots \ {w} : t[s] = b.item[s]
    BY <1>1 DEF Items
  <2>2. Link(b, w, new) = [item |-> t, start |-> b.start, last |-> w]
    BY <1>3 DEF Link
  <2> HIDE DEF t
  <2> QED BY <1>1, <1>2, <1>3, <2>1, <2>2 DEF Lists
<1>4. CASE b.last # Nil
  <2> DEFINE e == [b.item EXCEPT ![b.last].next = w]
             t == [e EXCEPT ![w] = new]
  <2>1. e \in Items /\ \A s \in Slots :
          /\ e[s].next = IF s = b.last THEN w ELSE b.item[s].next
          /\ e[s].flag = b.item[s].flag /\ e[s].prev = b.item[s].prev
          /\ e[s].n = b.item[s].n /\ e[s].user = b.item[s].user
    BY <1>1, SetNext
  <2>2. Link(b, w, new) = [item |-> t, start |-> b.start, last |-> w]
    BY <1>4, Zenon DEF Link
  <2> HIDE DEF e
  <2>3. t \in Items /\ t[w] = new /\ \A s \in Slots \ {w} : t[s] = e[s]
    BY <2>1 DEF Items
  <2> HIDE DEF t
  <2> QED BY <1>1, <2>1, <2>2, <2>3 DEF Lists
<1> QED BY <1>3, <1>4

\* event_buf_add_event() leaves a chain with the entry as its newest one.
LEMMA LinkChain ==
  ASSUME NEW b \in Lists, IsChain(b),
         NEW w \in Slots, b.item[w].flag = "free", b.last = Nil => w = b.start,
         NEW new \in Record, new.flag = "active", new.next = Nil,
         new.prev = b.last
  PROVE  /\ Link(b, w, new) \in Lists /\ IsChain(Link(b, w, new))
         /\ b.last = Nil => Chain(Link(b, w, new), [k \in 1 .. 1 |-> w], 1)
         /\ \A n, p : b.last # Nil /\ Chain(b, p, n) =>
              n < Size /\ Chain(Link(b, w, new), Longer(p, n, w), n + 1)
<1> DEFINE a == Link(b, w, new)
<1>1. /\ a \in Lists /\ a.start = b.start /\ a.last = w /\ a.item[w] = new
      /\ \A s \in Slots \ {w} :
           /\ a.item[s].next = IF s = b.last THEN w ELSE b.item[s].next
           /\ a.item[s].flag = b.item[s].flag
           /\ a.item[s].prev = b.item[s].prev
  BY LinkFact
<1> HIDE DEF a
<1>2. Nil \notin Slots /\ a.last # Nil
  BY <1>1, NilAssumption
<1>3. ASSUME b.last = Nil PROVE Chain(a, [k \in 1 .. 1 |-> w], 1)
  <2> DEFINE q == [k \in 1 .. 1 |-> w]
  <2>1. 1 \in 1 .. Size /\ q \in [1 .. 1 -> Slots] /\ q[1] = w
    BY SizeAssumption
  <2>2. \A i \in Slots : a.item[i].flag # "free" <=> i = w
    BY <1>1, <1>3 DEF IsChain
  <2> HIDE DEF q
  <2>3. \A i \in Slots :
          a.item[i].flag # "free" <=> \E k \in 1 .. 1 : q[k] = i
    BY <2>1, <2>2
  <2>4. a.item[q[1]].prev = Nil /\ a.item[q[1]].next = Nil
    BY <1>1, <1>3, <2>1
  <2>5. a.start = w
    BY <1>1, <1>3
  <2>6. Chain(a, q, 1)
    BY <1>1, <2>1, <2>3, <2>4, <2>5 DEF Chain
  <2> QED BY <2>6 DEF q
<1>4. ASSUME b.last # Nil, NEW n, NEW p, Chain(b, p, n)
      PROVE  n < Size /\ Chain(a, Longer(p, n, w), n + 1)
  <2> DEFINE q == Longer(p, n, w)
  <2>1. n \in 1 .. Size /\ n \in Nat /\ p \in [1 .. n -> Slots] /\ n < Size
    <3>1. n < Size
      BY <1>4, FreeSlot, Zenon
    <3> QED BY <1>4, <3>1, SizeAssumption DEF Chain
  <2>2. /\ q \in [1 .. n + 1 -> Slots] /\ q[n + 1] = w
        /\ \A k \in 1 .. n : q[k] = p[k]
    BY <2>1 DEF Longer
  <2>3. \A k \in 1 .. n : p[k] \in Slots \ {w}
    BY <1>4, <2>1 DEF Chain
  <2> HIDE DEF q
  <2>4. ASSUME NEW j \in 1 .. n + 1, NEW k \in 1 .. n + 1, q[j] = q[k]
        PROVE  j = k
    <3>1. \A l, m \in 1 .. n : p[l] = p[m] => l = m
      BY <1>4 DEF Chain
    <3>2. CASE j = n + 1 \/ k = n + 1
      BY <2>1, <2>2, <2>3, <2>4, <3>2
    <3>3. CASE j # n + 1 /\ k # n + 1
      BY <2>1, <2>2, <2>4, <3>1, <3>3
    <3> QED BY <3>2, <3>3
  <2>5. ASSUME NEW i \in Slots
        PROVE  a.item[i].flag # "free" <=> \E k \in 1 .. n + 1 : q[k] = i
    <3>1. CASE i = w
      BY <1>1, <2>1, <2>2, <3>1
    <3>2. CASE i # w
      <4>1. a.item[i].flag # "free" <=> \E k \in 1 .. n : p[k] = i
        BY <1>1, <1>4, <3>2 DEF Chain
      <4> QED BY <2>1, <2>2, <3>2, <4>1
    <3> QED BY <3>1, <3>2
  <2>6. a.start = q[1] /\ a.last = q[n + 1]
    BY <1>1, <1>4, <2>1, <2>2 DEF Chain
  <2>7. ASSUME NEW k \in 1 .. (n + 1) - 1 PROVE a.item[q[k]].next = q[k + 1]
    <3>1. CASE k = n
      BY <1>1, <1>4, <2>1, <2>2, <2>3, <3>1 DEF Chain
    <3>2. CASE k < n
      <4>1. b.item[p[k]].next = p[k + 1] /\ p[k] # b.last
        BY <1>4, <2>1, <3>2 DEF Chain
      <4>2. q[k] = p[k] /\ q[k + 1] = p[k + 1] /\ k \in 1 .. n
        BY <2>1, <2>2, <3>2
      <4> QED BY <1>1, <2>3, <4>1, <4>2
    <3> QED BY <2>1, <3>1, <3>2
  <2>8. ASSUME NEW k \in 2 .. n + 1 PROVE a.item[q[k]].prev = q[k - 1]
    <3>1. CASE k = n + 1
      BY <1>1, <1>4, <2>1, <2>2, <3>1 DEF Chain
    <3>2. CASE k < n + 1
      <4>1. b.item[p[k]].prev = p[k - 1] /\ p[k] \in Slots \ {w}
        BY <1>4, <2>1, <2>3, <3>2 DEF Chain
      <4>2. q[k] = p[k] /\ q[k - 1] = p[k - 1]
        BY <2>1, <2>2, <3>2
      <4> QED BY <1>1, <4>1, <4>2
    <3> QED BY <2>1, <3>1, <3>2
  <2>9. a.item[q[1]].prev = Nil
    BY <1>1, <1>4, <2>1, <2>2, <2>3 DEF Chain
  <2>10. a.item[q[n + 1]].next = Nil
    BY <1>1, <2>2
  <2>11. n + 1 \in 1 .. Size
    BY <2>1, SizeAssumption
  <2>12. Chain(a, q, n + 1)
    BY <2>2, <2>4, <2>5, <2>6, <2>7, <2>8, <2>9, <2>10, <2>11, Zenon DEF Chain
  <2> QED BY <2>1, <2>12 DEF q
<1>5. IsChain(a)
  BY <1>2, <1>3, <1>4, Zenon DEF IsChain
<1> QED BY <1>1, <1>3, <1>4, <1>5, Zenon DEF a

-----------------------------------------------------------------------------
(* The loops *)

\* The walk of every loop is well defined, whatever the list.
LEMMA WalkFact ==
  ASSUME NEW b \in Lists, NEW s \in Slots \cup {Nil}
  PROVE  LET w == WalkFrom(b, s)
         IN  /\ w \in [Slots -> Slots \cup {Nil}]
             /\ w[0] = s
             /\ \A k \in 1 .. Size - 1 :
                  w[k] = IF w[k - 1] = Nil THEN Nil ELSE b.item[w[k - 1]].next
<1> DEFINE S == Slots \cup {Nil}
           step == [k \in 1 .. Size - 1 |->
                      [i \in S |-> IF i = Nil THEN Nil ELSE b.item[i].next]]
           IsWalk(w) == w = [k \in Slots |->
                               IF k = 0 THEN s
                               ELSE IF w[k - 1] = Nil THEN Nil
                                    ELSE b.item[w[k - 1]].next]
<1>1. /\ b.item \in Items /\ s \in S
      /\ Size - 1 \in Nat /\ 0 .. Size - 1 = Slots
  BY SizeAssumption DEF Lists, Slots
<1>2. \A i \in Slots : b.item[i].next \in S
  BY <1>1 DEF Items, Record
<1>3. [i \in S |-> IF i = Nil THEN Nil ELSE b.item[i].next] \in [S -> S]
  BY <1>2
<1>4. step \in [1 .. Size - 1 -> [S -> S]]
  BY <1>3
<1>5. \A k \in 1 .. Size - 1, i \in S :
        step[k][i] = IF i = Nil THEN Nil ELSE b.item[i].next
  OBVIOUS
<1> HIDE DEF S, step
<1>6. PICK f : LoopRun(f, Size - 1, S, s, step)
  BY <1>1, <1>4, LoopRuns, Zenon
<1>7. \A k \in 1 .. Size - 1 :
        f[k] = IF f[k - 1] = Nil THEN Nil ELSE b.item[f[k - 1]].next
  BY <1>5, <1>6, SizeAssumption DEF LoopRun
<1>8. IsWalk(f)
  BY <1>1, <1>6, <1>7 DEF LoopRun, Slots
<1>9. WalkFrom(b, s) = CHOOSE w : IsWalk(w)
  BY DEF WalkFrom
<1> HIDE DEF IsWalk
<1>10. IsWalk(WalkFrom(b, s))
  BY <1>8, <1>9, Zenon
<1>11. /\ WalkFrom(b, s)[0] = s
       /\ \A k \in 1 .. Size - 1 :
            WalkFrom(b, s)[k] = IF WalkFrom(b, s)[k - 1] = Nil THEN Nil
                                ELSE b.item[WalkFrom(b, s)[k - 1]].next
  <2> DEFINE w == WalkFrom(b, s)
  <2>1. IsWalk(w)
    BY <1>10
  <2> HIDE DEF w
  <2>2. /\ w[0] = s
        /\ \A k \in 1 .. Size - 1 :
             w[k] = IF w[k - 1] = Nil THEN Nil ELSE b.item[w[k - 1]].next
    <3>1. 0 \in Slots
      BY SizeAssumption DEF Slots
    <3>2. w[0] = s
      BY <2>1, <3>1, Zenon DEF IsWalk
    <3>3. ASSUME NEW k \in 1 .. Size - 1
          PROVE  w[k] = IF w[k - 1] = Nil THEN Nil ELSE b.item[w[k - 1]].next
      <4>1. k \in Slots /\ k # 0
        BY SizeAssumption DEF Slots
      <4> QED BY <2>1, <4>1, Zenon DEF IsWalk
    <3> QED BY <3>2, <3>3
  <2> QED BY <2>2 DEF w
<1>12. WalkFrom(b, s) \in [Slots -> S]
  <2> DEFINE w == WalkFrom(b, s)
             Ok == {k \in Slots : w[k] \in S}
  <2> HIDE DEF w
  <2>1. 0 \in Ok
    BY <1>1, <1>11, SizeAssumption DEF w, Slots
  <2>2. ASSUME NEW k \in 1 .. Size - 1, k - 1 \in Ok PROVE k \in Ok
    <3>1. w[k] = IF w[k - 1] = Nil THEN Nil ELSE b.item[w[k - 1]].next
      BY <1>11 DEF w
    <3>2. k \in Slots /\ w[k - 1] \in S
      BY <2>2, SizeAssumption DEF Slots
    <3> QED BY <1>2, <3>1, <3>2 DEF S
  <2> HIDE DEF Ok
  <2>3. 0 .. Size - 1 \subseteq Ok
    BY <1>1, <2>1, <2>2, Climb
  <2>4. \A k \in Slots : w[k] \in S
    BY <1>1, <2>3 DEF Ok
  <2>5. IsWalk(w)
    BY <1>10 DEF w
  <2>6. w = [k \in Slots |-> w[k]]
    BY <2>5 DEF IsWalk
  <2> QED BY <2>4, <2>6 DEF w
<1> QED BY <1>11, <1>12 DEF S

\* A walk from a record of a chain meets the rest in order and stops.
LEMMA WalkFromChain ==
  ASSUME NEW b \in Lists, NEW n, NEW p, Chain(b, p, n), NEW h \in 1 .. n
  PROVE  \A k \in Slots :
           WalkFrom(b, p[h])[k] = IF k + h <= n THEN p[k + h] ELSE Nil
<1> DEFINE w == WalkFrom(b, p[h])
           Ok == {k \in Slots : w[k] = IF k + h <= n THEN p[k + h] ELSE Nil}
<1>1. /\ n \in 1 .. Size /\ n \in Nat /\ p \in [1 .. n -> Slots]
      /\ \A k \in 1 .. n - 1 : b.item[p[k]].next = p[k + 1]
      /\ b.item[p[n]].next = Nil
  BY SizeAssumption DEF Chain
<1>2. p[h] \in Slots \cup {Nil}
  BY <1>1
<1>3. /\ w[0] = p[h]
      /\ \A k \in 1 .. Size - 1 :
           w[k] = IF w[k - 1] = Nil THEN Nil ELSE b.item[w[k - 1]].next
  BY <1>2, WalkFact
<1> HIDE DEF w
<1>4. 0 \in Ok
  BY <1>1, <1>3, SizeAssumption DEF Slots
<1>5. ASSUME NEW k \in 1 .. Size - 1, k - 1 \in Ok PROVE k \in Ok
  <2>1. k \in Slots /\ w[k - 1] = IF k - 1 + h <= n THEN p[k - 1 + h] ELSE Nil
    BY <1>5, SizeAssumption DEF Slots
  <2>2. w[k] = IF w[k - 1] = Nil THEN Nil ELSE b.item[w[k - 1]].next
    BY <1>3
  <2> DEFINE l == k - 1 + h
  <2>3. l \in Nat /\ l >= 1 /\ k + h = l + 1
    BY <1>1, SizeAssumption
  <2> HIDE DEF l
  <2>4. CASE l < n
    <3>1. p[l] \in Slots /\ p[l] # Nil /\ b.item[p[l]].next = p[l + 1]
      BY <1>1, <2>3, <2>4, NilAssumption
    <3> QED BY <1>1, <2>1, <2>2, <2>3, <2>4, <3>1 DEF l
  <2>5. CASE l = n
    <3>1. p[l] \in Slots /\ p[l] # Nil /\ b.item[p[l]].next = Nil
      BY <1>1, <2>3, <2>5, NilAssumption
    <3> QED BY <1>1, <2>1, <2>2, <2>3, <2>5, <3>1 DEF l
  <2>6. CASE l > n
    BY <1>1, <2>1, <2>2, <2>3, <2>6 DEF l
  <2> QED BY <1>1, <2>3, <2>4, <2>5, <2>6
<1> HIDE DEF Ok
<1>6. 0 .. Size - 1 \subseteq Ok
  BY <1>4, <1>5, Climb, SizeAssumption
<1> QED BY <1>6 DEF Ok, Slots, w

\* ... and so does the walk from start_index with all of them.
LEMMA WalkChain ==
  ASSUME NEW b \in Lists, NEW n, NEW p, Chain(b, p, n)
  PROVE  \A k \in Slots : Walk(b)[k] = IF k < n THEN p[k + 1] ELSE Nil
<1>1. n \in Nat /\ 1 \in 1 .. n /\ b.start = p[1]
  BY SizeAssumption DEF Chain
<1>2. \A k \in Slots :
        WalkFrom(b, p[1])[k] = IF k + 1 <= n THEN p[k + 1] ELSE Nil
  BY <1>1, WalkFromChain
<1>3. \A k \in Slots : k \in Int
  BY SizeAssumption DEF Slots
<1> QED BY <1>1, <1>2, <1>3 DEF Walk

\* event_buf_done_events() stops at a record of a message, or at the end.
LEMMA HitFact ==
  ASSUME NEW b \in Lists, NEW s \in Slots \cup {Nil}
  PROVE  /\ Hit(b, s) \in Slots \cup {Nil}
         /\ Hit(b, s) # Nil => b.item[Hit(b, s)].flag = "processing"
         /\ s = Nil => Hit(b, s) = Nil
<1> DEFINE w == WalkFrom(b, s)
           H == {k \in Slots : w[k] # Nil /\ b.item[w[k]].flag = "processing"}
<1>1. /\ w \in [Slots -> Slots \cup {Nil}] /\ w[0] = s
      /\ \A k \in 1 .. Size - 1 :
           w[k] = IF w[k - 1] = Nil THEN Nil ELSE b.item[w[k - 1]].next
  BY WalkFact
<1>2. Hit(b, s) = IF H = {} THEN Nil
                  ELSE w[CHOOSE k \in H : \A j \in H : k <= j]
  BY Zenon DEF Hit
<1> HIDE DEF w
<1>3. CASE H = {}
  BY <1>2, <1>3
<1>4. CASE H # {}
  <2>1. H \subseteq Nat
    BY SizeAssumption DEF Slots
  <2>2. \E k \in H : \A j \in H : k <= j
    <3> HIDE DEF H
    <3> QED BY <1>4, <2>1, LeastNat, Zenon
  <2>3. PICK k \in H : Hit(b, s) = w[k]
    <3> HIDE DEF H
    <3> QED BY <1>2, <1>4, <2>2, Zenon
  <2>4. ASSUME s = Nil PROVE FALSE
    <3> DEFINE Ok == {j \in Slots : w[j] = Nil}
    <3>1. 0 \in Ok
      BY <1>1, <2>4, SizeAssumption DEF Slots
    <3>2. ASSUME NEW j \in 1 .. Size - 1, j - 1 \in Ok PROVE j \in Ok
      BY <1>1, <3>2, SizeAssumption DEF Slots
    <3> HIDE DEF Ok
    <3>3. 0 .. Size - 1 \subseteq Ok
      BY <3>1, <3>2, Climb, SizeAssumption
    <3> QED BY <2>3, <3>3 DEF Ok, Slots
  <2> QED BY <1>1, <2>3, <2>4
<1> QED BY <1>3, <1>4

\* What event_buf_done_events() finds from the h-th record of a chain on.
Stops(b, p, n, h, i) ==
  \/ /\ i = Nil /\ \A m \in h .. n : b.item[p[m]].flag # "processing"
  \/ \E m \in h .. n : /\ i = p[m] /\ b.item[p[m]].flag = "processing"
                       /\ \A j \in h .. m - 1 :
                            b.item[p[j]].flag # "processing"

\* The first record of a message is the one it stops at.
LEMMA HitChain ==
  ASSUME NEW b \in Lists, NEW n, NEW p, Chain(b, p, n), NEW h \in 1 .. n
  PROVE  Stops(b, p, n, h, Hit(b, p[h]))
<1> DEFINE w == WalkFrom(b, p[h])
           H == {k \in Slots : w[k] # Nil /\ b.item[w[k]].flag = "processing"}
<1>1. n \in 1 .. Size /\ n \in Nat /\ p \in [1 .. n -> Slots]
  BY SizeAssumption DEF Chain
<1>2. \A k \in Slots : w[k] = IF k + h <= n THEN p[k + h] ELSE Nil
  BY WalkFromChain
<1>3. Hit(b, p[h]) = IF H = {} THEN Nil
                     ELSE w[CHOOSE k \in H : \A j \in H : k <= j]
  BY Zenon DEF Hit
<1> HIDE DEF w
<1>4. ASSUME NEW m \in h .. n, b.item[p[m]].flag = "processing"
      PROVE  m - h \in H
  <2>1. m - h \in Slots /\ (m - h) + h = m /\ m \in 1 .. n
    BY <1>1, SizeAssumption DEF Slots
  <2>2. w[m - h] = p[m] /\ p[m] \in Slots
    BY <1>1, <1>2, <2>1
  <2> QED BY <1>4, <2>1, <2>2, NilAssumption
<1>5. CASE H = {}
  BY <1>3, <1>4, <1>5 DEF Stops
<1>6. CASE H # {}
  <2>1. H \subseteq Nat
    BY SizeAssumption DEF Slots
  <2> HIDE DEF H
  <2>2. \E k \in H : \A j \in H : k <= j
    BY <1>6, <2>1, LeastNat, Zenon
  <2>3. PICK k \in H : Hit(b, p[h]) = w[k] /\ \A j \in H : k <= j
    BY <1>3, <1>6, <2>2, Zenon
  <2>4. k \in Slots /\ k \in Nat /\ w[k] # Nil
        /\ b.item[w[k]].flag = "processing"
    BY <2>1, <2>3 DEF H
  <2>5. k + h \in h .. n /\ w[k] = p[k + h]
    BY <1>1, <1>2, <2>4
  <2>6. ASSUME NEW j \in h .. (k + h) - 1
        PROVE  b.item[p[j]].flag # "processing"
    <3>1. j \in h .. n /\ ~(k <= j - h)
      BY <1>1, <2>4, <2>5
    <3> QED BY <1>4, <2>3, <3>1
  <2> QED BY <2>3, <2>4, <2>5, <2>6 DEF Stops
<1> QED BY <1>5, <1>6

-----------------------------------------------------------------------------
(* The events that a list holds *)

\* The entries in use are those of the chain.
LEMMA UsedChain ==
  ASSUME NEW b \in Lists, NEW n, NEW p, Chain(b, p, n)
  PROVE  /\ Used(b) = {p[k] : k \in 1 .. n}
         /\ IsFiniteSet(Used(b)) /\ Cardinality(Used(b)) = n
<1>1. n \in 1 .. Size /\ n \in Nat /\ p \in [1 .. n -> Slots]
  BY SizeAssumption DEF Chain
<1>2. Used(b) = {p[k] : k \in 1 .. n}
  BY <1>1 DEF Chain, Used
<1>3. p \in [1 .. n -> Used(b)]
  BY <1>1, <1>2
<1>4. p \in Injection(1 .. n, Used(b))
  BY <1>3 DEF Chain, Injection, IsInjective
<1>5. p \in Surjection(1 .. n, Used(b))
  BY <1>2, <1>3 DEF Surjection
<1>6. IsFiniteSet(1 .. n) /\ Cardinality(1 .. n) = n
  BY <1>1, FS_Interval
<1> QED BY <1>2, <1>4, <1>5, <1>6, FS_Surjection

\* The events of a chain are those of its entries, in its order.
LEMMA EventsChain ==
  ASSUME NEW b \in Lists, NEW n, NEW p, Chain(b, p, n)
  PROVE  Events(b) = [k \in 1 .. n |-> Entry(b.item[p[k]])]
<1>1. n \in 1 .. Size /\ Cardinality(Used(b)) = n
  <2>1. n \in 1 .. Size
    BY DEF Chain
  <2>2. Cardinality(Used(b)) = n
    BY UsedChain
  <2> QED BY <2>1, <2>2
<1>2. ASSUME NEW k \in 1 .. n PROVE Walk(b)[k - 1] = p[k]
  <2>1. k - 1 \in Slots /\ k - 1 < n /\ k - 1 + 1 = k
    BY <1>1, SizeAssumption DEF Slots
  <2> QED BY <2>1, WalkChain
<1> QED BY <1>1, <1>2, Zenon DEF Events

\* An empty list holds no event.
LEMMA EventsEmpty ==
  ASSUME NEW b, IsChain(b), b.last = Nil
  PROVE  Used(b) = {} /\ Events(b) = <<>>
<1>1. Used(b) = {}
  BY DEF IsChain, Used
<1>2. Cardinality(Used(b)) = 0
  BY <1>1, FS_EmptySet
<1>3. Events(b) = [k \in 1 .. 0 |-> Entry(b.item[Walk(b)[k - 1]])]
  BY <1>2, Zenon DEF Events
<1> QED BY <1>1, <1>3

-----------------------------------------------------------------------------
(* Marking *)

\* event_buf_get_event() marks a record of the list.
Mark(b, i) == [item |-> [b.item EXCEPT ![i].flag = "processing"],
               start |-> b.start, last |-> b.last]

\* Marking an entry as taken leaves the chain as it is.
LEMMA MarkChain ==
  ASSUME NEW b \in Lists, IsChain(b), NEW i \in Slots, b.item[i].flag # "free"
  PROVE  LET c == Mark(b, i)
         IN  /\ c \in Lists /\ IsChain(c) /\ Used(c) = Used(b)
             /\ c.start = b.start /\ c.last = b.last
             /\ \A s \in Slots :
                  /\ c.item[s].n = b.item[s].n
                  /\ c.item[s].user = b.item[s].user
                  /\ c.item[s].flag = IF s = i THEN "processing"
                                      ELSE b.item[s].flag
             /\ \A n, p : Chain(b, p, n) => Chain(c, p, n)
<1> DEFINE c == Mark(b, i)
           t == [b.item EXCEPT ![i].flag = "processing"]
<1>1. t \in Items /\ \A s \in Slots :
        /\ t[s].flag = IF s = i THEN "processing" ELSE b.item[s].flag
        /\ t[s].next = b.item[s].next /\ t[s].prev = b.item[s].prev
        /\ t[s].n = b.item[s].n /\ t[s].user = b.item[s].user
  <2>1. b.item \in Items /\ "processing" \in Flags
    BY DEF Lists, Flags
  <2> QED BY <2>1, SetFlag
<1>2. c = [item |-> t, start |-> b.start, last |-> b.last]
  BY DEF Mark
<1> HIDE DEF t, c
<1>3. /\ c \in Lists /\ c.start = b.start /\ c.last = b.last
      /\ \A s \in Slots :
           /\ c.item[s].flag = IF s = i THEN "processing" ELSE b.item[s].flag
           /\ c.item[s].next = b.item[s].next /\ c.item[s].prev = b.item[s].prev
           /\ c.item[s].n = b.item[s].n /\ c.item[s].user = b.item[s].user
  BY <1>1, <1>2 DEF Lists
<1>4. \A s \in Slots : c.item[s].flag # "free" <=> b.item[s].flag # "free"
  BY <1>3
<1>5. ASSUME NEW n, NEW p, Chain(b, p, n) PROVE Chain(c, p, n)
  <2>1. /\ n \in 1 .. Size /\ n \in Nat /\ p \in [1 .. n -> Slots]
        /\ \A j, k \in 1 .. n : p[j] = p[k] => j = k
    BY <1>5, SizeAssumption DEF Chain
  <2>2. \A s \in Slots : c.item[s].flag # "free" <=> \E k \in 1 .. n : p[k] = s
    BY <1>4, <1>5, Zenon DEF Chain
  <2>3. \A k \in 1 .. n : /\ c.item[p[k]].next = b.item[p[k]].next
                          /\ c.item[p[k]].prev = b.item[p[k]].prev
    BY <1>3, <2>1
  <2>4. ASSUME NEW k \in 1 .. n - 1 PROVE c.item[p[k]].next = p[k + 1]
    <3>1. k \in 1 .. n
      BY <2>1
    <3> QED BY <1>5, <2>3, <3>1, Zenon DEF Chain
  <2>5. ASSUME NEW k \in 2 .. n PROVE c.item[p[k]].prev = p[k - 1]
    <3>1. k \in 1 .. n
      BY <2>1
    <3> QED BY <1>5, <2>3, <3>1, Zenon DEF Chain
  <2>6. c.item[p[1]].prev = Nil /\ c.item[p[n]].next = Nil
    BY <1>5, <2>1, <2>3 DEF Chain
  <2> QED BY <1>3, <1>5, <2>1, <2>2, <2>4, <2>5, <2>6, Zenon DEF Chain
<1>6. Used(c) = Used(b)
  BY <1>4 DEF Used
<1>7. IsChain(c)
  <2>1. b.last # Nil
    BY DEF IsChain
  <2> QED BY <1>3, <1>5, <2>1, Zenon DEF IsChain
<1> QED BY <1>3, <1>5, <1>6, <1>7, Zenon DEF c

-----------------------------------------------------------------------------
(* Types, which hold whatever the tasks do *)

Typed == TypeOK /\ (cpc = "done" => at # Nil)

\* The states of the type invariant hold lists.
LEMMA ListType ==
  TypeOK <=> /\ List \in Lists /\ test \in Slots
             /\ wr \in Slots \cup {Nil} /\ evict \in BOOLEAN
             /\ cpc \in {"idle", "collect", "sent", "done"}
             /\ user \in Users \cup {NoUser} /\ at \in Slots \cup {Nil}
             /\ serial \in Nat /\ torn \in BOOLEAN
BY DEF TypeOK, List, Lists, Items, Record, Flags

\* ... and so do the states after a step.
LEMMA Retype ==
  ASSUME List' \in Lists, test' \in Slots,
         wr' \in Slots \cup {Nil}, evict' \in BOOLEAN,
         cpc' \in {"idle", "collect", "sent", "done"},
         user' \in Users \cup {NoUser}, at' \in Slots \cup {Nil},
         serial' \in Nat, torn' \in BOOLEAN, cpc' = "done" => at' # Nil
  PROVE  Typed'
<1>1. /\ item' \in Items /\ start' \in Slots \cup {Nil}
      /\ last' \in Slots \cup {Nil}
  BY DEF Lists, List
<1> QED BY <1>1, Zenon DEF Typed, TypeOK, Items, Record, Flags

\* The list after a step that assigns it.
LEMMA ListStep ==
  ASSUME NEW c \in Lists, Becomes(c)
  PROVE  List' = c /\ item' = c.item /\ start' = c.start /\ last' = c.last
BY DEF Lists, Becomes, List

\* _delete_item() makes a list of a list, also of a slot that is not in use.
LEMMA DeleteType ==
  ASSUME NEW b \in Lists, NEW i \in Slots
  PROVE  /\ Delete(b, i) \in Lists
         /\ b.item[i].flag = "free" => Delete(b, i) = b
<1>1. CASE b.item[i].flag = "free"
  BY <1>1, Zenon DEF Delete
<1>2. CASE b.item[i].flag # "free"
  BY <1>2, DeleteFact
<1> QED BY <1>1, <1>2

\* event_buf_get_event() marks a record of a list.
LEMMA MarkType ==
  ASSUME NEW b \in Lists, NEW i \in Slots
  PROVE  Mark(b, i) \in Lists
<1>1. b.item \in Items /\ "processing" \in Flags
  BY DEF Lists, Flags
<1>2. [b.item EXCEPT ![i].flag = "processing"] \in Items
  BY <1>1, SetFlag
<1> QED BY <1>2 DEF Mark, Lists

\* The search for a free slot looks at every slot.
LEMMA TurnFact ==
  ASSUME test \in Slots
  PROVE  /\ \A k \in 1 .. Size : Turn(k) \in Slots
         /\ \A i \in Slots : \E k \in 1 .. Size : Turn(k) = i
<1>1. \A k \in 1 .. Size : Turn(k) \in Slots
  BY SizeAssumption DEF Turn, Slots
<1>2. ASSUME NEW i \in Slots PROVE \E k \in 1 .. Size : Turn(k) = i
  <2>1. CASE i > test
    <3>1. i - test \in 1 .. Size /\ test + (i - test) = i /\ i % Size = i
      BY <2>1, SizeAssumption DEF Slots
    <3> QED BY <3>1, Zenon DEF Turn
  <2>2. CASE i <= test
    <3>1. /\ (i + Size) - test \in 1 .. Size
          /\ test + ((i + Size) - test) = i + Size /\ (i + Size) % Size = i
      BY <2>2, SizeAssumption DEF Slots
    <3> QED BY <3>1, Zenon DEF Turn
  <2> QED BY <2>1, <2>2, SizeAssumption DEF Slots
<1> QED BY <1>1, <1>2

\* What event_buf_add_event() finds: the first slot of an empty list, a free
\* one, or the first record when every slot is in use.
LEMMA FindStep ==
  ASSUME Typed, AddFind
  PROVE  /\ wr = Nil /\ wr' \in Slots \cup {Nil} /\ test' \in Slots
         /\ evict' \in BOOLEAN /\ (evict' => wr' = start)
         /\ evict' => Used(List) = Slots /\ last # Nil
         /\ ~evict' => \/ last = Nil /\ wr' = start
                       \/ wr' \in Slots /\ item[wr'].flag = "free"
<1>1. /\ List \in Lists /\ test \in Slots /\ wr = Nil
      /\ start \in Slots \cup {Nil}
  BY ListType DEF Typed, AddFind, TypeOK
<1>2. CASE last = Nil /\ wr' = start /\ evict' = FALSE /\ UNCHANGED test
  BY <1>1, <1>2
<1>3. CASE /\ last # Nil /\ FreeTurns # {}
           /\ test' = Turn(CHOOSE k \in FreeTurns : \A j \in FreeTurns : k <= j)
           /\ wr' = test' /\ evict' = FALSE
  <2>1. FreeTurns \subseteq Nat
    BY SizeAssumption DEF FreeTurns
  <2>2. \E k \in FreeTurns : \A j \in FreeTurns : k <= j
    BY <1>3, <2>1, LeastNat, Zenon
  <2>3. PICK k \in FreeTurns : test' = Turn(k)
    BY <1>3, <2>2, Zenon
  <2>4. test' \in Slots /\ item[test'].flag = "free"
    BY <1>1, <2>3, TurnFact DEF FreeTurns
  <2> QED BY <1>1, <1>3, <2>4
<1>4. CASE /\ last # Nil /\ FreeTurns = {}
           /\ wr' = _buf_replace_prio /\ evict' = TRUE
           /\ UNCHANGED test
  <2>1. ASSUME NEW i \in Slots PROVE i \in Used(List)
    <3>1. PICK k \in 1 .. Size : Turn(k) = i
      BY <1>1, TurnFact
    <3> QED BY <1>4, <3>1 DEF FreeTurns, Used, List
  <2>2. Used(List) = Slots
    BY <2>1 DEF Used
  <2> QED BY <1>1, <1>4, <2>2 DEF _buf_replace_prio
<1> QED BY <1>2, <1>3, <1>4 DEF AddFind

\* The record that event_buf_add_event() writes.
New(b, u) == [flag |-> "active", next |-> Nil, prev |-> b.last,
              n |-> serial, user |-> u]

\* The list without the record that is replaced.
Room == IF evict THEN Delete(List, wr) ELSE List

\* Linking a record makes a list of a list.
LEMMA LinkType ==
  ASSUME Typed, NEW u \in Users, AddLink(u)
  PROVE  /\ wr \in Slots /\ Room \in Lists /\ New(Room, u) \in Record
         /\ List' = Link(Room, wr, New(Room, u)) /\ List' \in Lists
         /\ torn' = (torn \/ (Room.last = Nil /\ Room.start # wr))
<1>1. /\ List \in Lists /\ wr \in Slots /\ serial \in Nat
      /\ evict \in BOOLEAN /\ torn \in BOOLEAN
  BY ListType DEF Typed, AddLink
<1>2. Room \in Lists
  BY <1>1, DeleteType DEF Room
<1>3. New(Room, u) \in Record
  BY <1>1, <1>2 DEF New, Record, Flags, Lists
<1>4. Link(Room, wr, New(Room, u)) \in Lists
  BY <1>1, <1>2, <1>3, LinkFact, Zenon
<1>5. /\ Becomes(Link(Room, wr, New(Room, u)))
      /\ torn' = (torn \/ (Room.last = Nil /\ Room.start # wr))
  BY Zenon DEF AddLink, Room, New
<1> QED BY <1>1, <1>2, <1>3, <1>4, <1>5, ListStep

\* event_buf_done_events() deletes a record of a list and goes on.
LEMMA DoneType ==
  ASSUME Typed, DoneNext
  PROVE  /\ at \in Slots /\ Delete(List, at) \in Lists
         /\ List' = Delete(List, at)
         /\ Delete(List, at).item[at].next \in Slots \cup {Nil}
         /\ GoesOn(Hit(Delete(List, at), Delete(List, at).item[at].next))
<1>1. List \in Lists /\ at \in Slots
  BY ListType DEF Typed, DoneNext
<1> DEFINE d == Delete(List, at)
<1>2. d \in Lists
  BY <1>1, DeleteType
<1>3. Becomes(d) /\ GoesOn(Hit(d, d.item[at].next))
  BY DEF DoneNext
<1> HIDE DEF d
<1>4. d.item[at].next \in Slots \cup {Nil}
  BY <1>1, <1>2 DEF Lists, Items, Record
<1>5. List' = d
  BY <1>2, <1>3, ListStep
<1> QED BY <1>1, <1>2, <1>3, <1>4, <1>5 DEF d

\* event_buf_done_events() stands at a slot or has ended.
LEMMA GoesOnType ==
  ASSUME NEW b \in Lists, NEW i \in Slots \cup {Nil}, GoesOn(Hit(b, i))
  PROVE  /\ at' \in Slots \cup {Nil} /\ cpc' \in {"idle", "done"}
         /\ cpc' = "done" <=> at' # Nil
         /\ cpc' = "done" => b.item[at'].flag = "processing"
BY HitFact DEF GoesOn

\* Every step keeps the types.
LEMMA TypedNext ==
  ASSUME Typed, [Next]_vars PROVE Typed'
<1>1. /\ List \in Lists /\ test \in Slots
      /\ wr \in Slots \cup {Nil} /\ evict \in BOOLEAN
      /\ cpc \in {"idle", "collect", "sent", "done"}
      /\ user \in Users \cup {NoUser} /\ at \in Slots \cup {Nil}
      /\ serial \in Nat /\ torn \in BOOLEAN /\ start \in Slots \cup {Nil}
      /\ cpc = "done" => at # Nil
  BY ListType DEF Typed, TypeOK
<1>2. CASE AddFind
  <2>1. /\ wr' \in Slots \cup {Nil} /\ test' \in Slots /\ evict' \in BOOLEAN
    BY <1>2, FindStep
  <2>2. List' = List /\ UNCHANGED <<cpc, user, at, torn>> /\ serial' \in Nat
    BY <1>1, <1>2 DEF AddFind, list, List
  <2> QED BY <1>1, <2>1, <2>2, Retype
<1>3. CASE \E u \in Users : AddLink(u)
  <2>1. PICK u \in Users : AddLink(u)
    BY <1>3
  <2>2. List' \in Lists
    BY <2>1, LinkType
  <2>3. torn' \in BOOLEAN
    BY <1>1, <2>1, LinkType
  <2>4. wr' = Nil /\ UNCHANGED <<test, evict, cpc, user, at, serial>>
    BY <2>1 DEF AddLink
  <2> QED BY <1>1, <2>2, <2>3, <2>4, Retype
<1>4. CASE GetFirst \/ GetMore
  <2>1. PICK i \in Slots : item' = [item EXCEPT ![i].flag = "processing"]
                           /\ (user' = user \/ user' = item[i].user)
    BY <1>4 DEF GetFirst, GetMore
  <2>2. /\ UNCHANGED <<start, last, test, wr, evict, at, serial, torn>>
        /\ cpc' = "collect"
    BY <1>4 DEF GetFirst, GetMore
  <2>3. List' = Mark(List, i)
    BY <2>1, <2>2 DEF List, Mark
  <2>4. List' \in Lists
    BY <1>1, <2>3, MarkType
  <2>5. item[i].user \in Users \cup {NoUser}
    BY <1>1 DEF Lists, List, Items, Record
  <2>6. user' \in Users \cup {NoUser}
    BY <1>1, <2>1, <2>5
  <2> QED BY <1>1, <2>2, <2>4, <2>6, Retype
<1>5. ASSUME UNCHANGED <<list, test, wr, evict, user, serial, torn>>,
             cpc' \in {"idle", "collect", "sent", "done"},
             at' \in Slots \cup {Nil}, cpc' = "done" => at' # Nil
      PROVE  Typed'
  <2>1. List' = List
    BY <1>5 DEF list, List
  <2> QED BY <1>1, <1>5, <2>1, Retype
<1>6. CASE NoMemory \/ SmsSend \/ SmsFails
  BY <1>1, <1>5, <1>6 DEF NoMemory, SmsSend, SmsFails
<1>7. CASE DoneBegin
  <2>1. /\ GoesOn(Hit(List, at))
        /\ UNCHANGED <<list, test, wr, evict, user, serial, torn>>
    BY <1>7 DEF DoneBegin
  <2>2. /\ at' \in Slots \cup {Nil} /\ cpc' \in {"idle", "done"}
        /\ cpc' = "done" <=> at' # Nil
    BY <1>1, <2>1, GoesOnType
  <2> QED BY <1>5, <2>1, <2>2
<1>8. CASE DoneNext
  <2>1. List' \in Lists
    BY <1>8, DoneType
  <2>2. /\ at' \in Slots \cup {Nil} /\ cpc' \in {"idle", "done"}
        /\ cpc' = "done" <=> at' # Nil
    BY <1>8, DoneType, GoesOnType
  <2>3. UNCHANGED <<test, wr, evict, user, serial, torn>>
    BY <1>8 DEF DoneNext
  <2> QED BY <1>1, <2>1, <2>2, <2>3, Retype
<1>9. CASE UNCHANGED vars
  BY <1>1, <1>5, <1>9 DEF vars, list
<1> QED BY <1>2, <1>3, <1>4, <1>6, <1>7, <1>8, <1>9
        DEF Next, event_buf_add_event, event_comm_task, event_buf_done_events

-----------------------------------------------------------------------------
(* The chain, until it is torn *)

\* The slot that event_buf_add_event() holds: a free one, or the first record
\* of a buffer that was full, unless it has been deleted since.
Found ==
  wr # Nil =>
    /\ evict /\ item[wr].flag # "free" => wr = start
    /\ ~evict => item[wr].flag = "free"

\* Every record is for a user, and so is a message that is being put together.
Addressed ==
  /\ cpc # "idle" => user \in Users
  /\ \A i \in Slots : item[i].flag # "free" => item[i].user \in Users

\* There is a list while the comm task is at it, and event_buf_done_events()
\* stands at a record of it.
Standing ==
  /\ cpc # "idle" => last # Nil
  /\ cpc \in {"sent", "done"} => at \in Slots /\ item[at].flag # "free"
  /\ cpc \in {"idle", "collect"} => at = Nil

\* No two slots hold the same event, and the one being added is in none.
Numbered ==
  /\ \A i \in Slots : /\ item[i].n <= serial
                      /\ wr # Nil => item[i].n < serial
                      /\ item[i].flag # "free" => item[i].n > 0
  /\ \A i, j \in Slots : item[i].n = item[j].n /\ item[i].n > 0 => i = j

Sound == IsChain(List) /\ Found /\ Addressed /\ Standing /\ Numbered

\* This is inductive.
Inv == Typed /\ serial <= MaxEvents /\ (~torn => Sound)

\* event_buf_init() leaves an empty chain.
LEMMA InitInv == Init => Inv
<1> SUFFICES ASSUME Init PROVE Inv
  OBVIOUS
<1>1. Typed
  <2>1. 0 \in Slots /\ Size - 1 \in Slots
    BY SizeAssumption DEF Slots
  <2> QED BY <2>1 DEF Init, Typed, TypeOK
<1>2. \A i \in Slots : item[i].flag = "free" /\ item[i].n = 0
  BY DEF Init
<1>3. IsChain(List)
  BY <1>2, SizeAssumption DEF Init, IsChain, List, Slots
<1>4. Found /\ Addressed /\ Standing /\ Numbered
  BY <1>2 DEF Init, Found, Addressed, Standing, Numbered
<1> QED BY <1>1, <1>3, <1>4, MaxEventsAssumption DEF Init, Inv, Sound

\* event_buf_add_event(): a slot is found.
LEMMA FindSound ==
  ASSUME Typed, Sound, AddFind PROVE Sound'
<1>1. List' = List /\ UNCHANGED <<item, start, last, cpc, user, at>>
  BY DEF AddFind, list, List
<1>2. /\ wr = Nil /\ wr' \in Slots \cup {Nil}
      /\ evict' \in BOOLEAN /\ (evict' => wr' = start)
      /\ ~evict' => \/ last = Nil /\ wr' = start
                    \/ wr' \in Slots /\ item[wr'].flag = "free"
  BY FindStep
<1>3. Found'
  <2>1. last = Nil => \A i \in Slots : item[i].flag = "free"
    BY DEF Sound, IsChain, List
  <2> QED BY <1>1, <1>2, <2>1 DEF Found
<1>4. Addressed' /\ Standing'
  BY <1>1 DEF Sound, Addressed, Standing
<1>5. Numbered'
  <2>1. serial' = serial + 1 /\ serial \in Nat
    BY DEF AddFind, Typed, TypeOK
  <2>2. \A i \in Slots : item[i].n \in Nat
    BY DEF Typed, TypeOK
  <2> QED BY <1>1, <2>1, <2>2 DEF Sound, Numbered
<1> QED BY <1>1, <1>3, <1>4, <1>5 DEF Sound

\* The slot that is filled is free by then, and the chain begins with it if it
\* is empty.
LEMMA RoomFact ==
  ASSUME Typed, Sound, NEW u \in Users, AddLink(u), ~torn'
  PROVE  /\ IsChain(Room) /\ Room.item[wr].flag = "free"
         /\ Room.last = Nil => wr = Room.start
         /\ \A s \in Slots :
              /\ Room.item[s].n = item[s].n
              /\ Room.item[s].user = item[s].user
              /\ s # wr => Room.item[s].flag = item[s].flag
<1>1. List \in Lists /\ wr \in Slots /\ wr # Nil /\ List.item = item
      /\ evict \in BOOLEAN /\ IsChain(List) /\ Found
  BY ListType, LinkType, NilAssumption DEF Typed, List, Sound
<1>2. Room.last = Nil => wr = Room.start
  BY LinkType
<1>3. CASE evict /\ item[wr].flag # "free"
  <2>1. IsChain(Delete(List, wr)) /\ Delete(List, wr).item[wr].flag = "free"
    BY <1>1, <1>3, DeleteKeeps
  <2>2. \A s \in Slots :
          /\ Delete(List, wr).item[s].n = List.item[s].n
          /\ Delete(List, wr).item[s].user = List.item[s].user
          /\ Delete(List, wr).item[s].flag
               = IF s = wr THEN "free" ELSE List.item[s].flag
    BY <1>1, <1>3, DeleteFact
  <2>3. Room = Delete(List, wr)
    BY <1>3 DEF Room
  <2> QED BY <1>1, <1>2, <2>1, <2>2, <2>3
<1>4. CASE item[wr].flag = "free"
  <2>1. Room = List
    BY <1>1, <1>4, DeleteType DEF Room
  <2> QED BY <1>1, <1>2, <1>4, <2>1
<1> QED BY <1>1, <1>3, <1>4 DEF Found

\* Linking a record changes only its slot.
LEMMA LinkedItems ==
  ASSUME Typed, Sound, NEW u \in Users, AddLink(u), ~torn'
  PROVE  /\ item'[wr] = New(Room, u) /\ last' = wr /\ IsChain(List)'
         /\ \A s \in Slots \ {wr} : /\ item'[s].n = item[s].n
                                    /\ item'[s].user = item[s].user
                                    /\ item'[s].flag = item[s].flag
<1> DEFINE b == Room
           new == New(Room, u)
<1>1. /\ wr \in Slots /\ b \in Lists /\ new \in Record
      /\ List' = Link(b, wr, new)
  BY LinkType
<1>2. /\ IsChain(b) /\ b.item[wr].flag = "free"
      /\ b.last = Nil => wr = b.start
      /\ \A s \in Slots : /\ b.item[s].n = item[s].n
                          /\ b.item[s].user = item[s].user
                          /\ s # wr => b.item[s].flag = item[s].flag
  BY RoomFact
<1>3. new.flag = "active" /\ new.next = Nil /\ new.prev = b.last
  BY DEF New
<1> HIDE DEF b, new
<1>4. IsChain(Link(b, wr, new))
  BY <1>1, <1>2, <1>3, LinkChain
<1>5. /\ Link(b, wr, new).last = wr /\ Link(b, wr, new).item[wr] = new
      /\ \A s \in Slots \ {wr} :
           /\ Link(b, wr, new).item[s].flag = b.item[s].flag
           /\ Link(b, wr, new).item[s].n = b.item[s].n
           /\ Link(b, wr, new).item[s].user = b.item[s].user
  BY <1>1, LinkFact
<1>6. List'.item = item' /\ List'.last = last'
  BY DEF List
<1> QED BY <1>1, <1>2, <1>4, <1>5, <1>6 DEF new

\* event_buf_add_event(): the record is linked.
LEMMA LinkSound ==
  ASSUME Inv, Sound, NEW u \in Users, AddLink(u), ~torn' PROVE Sound'
<1>1. /\ item'[wr] = New(Room, u) /\ last' = wr /\ IsChain(List)'
      /\ \A s \in Slots \ {wr} : /\ item'[s].n = item[s].n
                                 /\ item'[s].user = item[s].user
                                 /\ item'[s].flag = item[s].flag
  BY LinkedItems DEF Inv
<1>2. wr' = Nil /\ UNCHANGED <<test, evict, cpc, user, at, serial>>
  BY DEF AddLink
<1>3. wr \in Slots /\ wr # Nil /\ serial \in Nat
  BY LinkType, NilAssumption DEF Inv, Typed, TypeOK
<1>4. item'[wr].flag = "active" /\ item'[wr].n = serial /\ item'[wr].user = u
  BY <1>1 DEF New
<1>5. Found'
  BY <1>2 DEF Found
<1>6. Addressed'
  BY <1>1, <1>2, <1>4 DEF Sound, Addressed
<1>7. Standing'
  BY <1>1, <1>2, <1>3, <1>4 DEF Sound, Standing
<1>8. Numbered'
  <2>1. \A i \in Slots : item[i].n \in Nat /\ item[i].n < serial
    BY <1>3 DEF Inv, Typed, TypeOK, Sound, Numbered
  <2>2. \A i \in Slots : /\ item'[i].n = IF i = wr THEN serial ELSE item[i].n
                         /\ item'[i].flag = IF i = wr THEN "active"
                                            ELSE item[i].flag
    BY <1>1, <1>4
  <2>3. serial > 0
    BY <1>3, <2>1
  <2>4. \A i \in Slots : /\ item'[i].n <= serial
                         /\ item'[i].flag # "free" => item'[i].n > 0
    BY <1>3, <2>1, <2>2, <2>3 DEF Sound, Numbered
  <2>5. ASSUME NEW i \in Slots, NEW j \in Slots,
               item'[i].n = item'[j].n, item'[i].n > 0
        PROVE  i = j
    BY <1>3, <2>1, <2>2, <2>5 DEF Sound, Numbered
  <2> QED BY <1>2, <2>4, <2>5 DEF Numbered
<1> QED BY <1>1, <1>5, <1>6, <1>7, <1>8 DEF Sound

\* event_buf_get_event(): an active record of the list is marked.
LEMMA GetSound ==
  ASSUME Typed, Sound, NEW i \in Slots, NEW u, Got(u, i),
         item' = [item EXCEPT ![i].flag = "processing"],
         UNCHANGED <<start, last, test, wr, evict, at, serial>>,
         cpc \in {"idle", "collect"}, cpc' = "collect", user' \in Users
  PROVE  List' = Mark(List, i) /\ Sound'
<1>1. List \in Lists /\ IsChain(List) /\ List.item = item /\ List.last = last
  BY ListType DEF Typed, Sound, List
<1>2. List.item[i].flag = "active"
  BY DEF Got, Matches, List
<1>3. List' = Mark(List, i)
  BY DEF List, Mark
<1>4. /\ IsChain(Mark(List, i))
      /\ \A s \in Slots :
           /\ Mark(List, i).item[s].n = List.item[s].n
           /\ Mark(List, i).item[s].user = List.item[s].user
           /\ Mark(List, i).item[s].flag = IF s = i THEN "processing"
                                           ELSE List.item[s].flag
  BY <1>1, <1>2, MarkChain
<1>5. List'.item = item'
  BY DEF List
<1>6. \A s \in Slots : /\ item'[s].n = item[s].n
                       /\ item'[s].user = item[s].user
                       /\ item'[s].flag # "free" <=> item[s].flag # "free"
  BY <1>1, <1>2, <1>3, <1>4, <1>5
<1>7. last # Nil
  BY <1>1, <1>2 DEF IsChain
<1>8. wr \in Slots \cup {Nil}
  BY DEF Typed, TypeOK
<1>9. Found'
  BY <1>6, <1>8 DEF Sound, Found
<1>10. Addressed'
  BY <1>6 DEF Sound, Addressed
<1>11. Standing'
  BY <1>7 DEF Sound, Standing
<1>12. Numbered'
  BY <1>6 DEF Sound, Numbered
<1> QED BY <1>3, <1>4, <1>9, <1>10, <1>11, <1>12 DEF Sound

\* event_buf_done_events(): the record it stands at is deleted.
LEMMA DoneSound ==
  ASSUME Typed, Sound, DoneNext PROVE Sound'
<1> DEFINE d == Delete(List, at)
<1>1. /\ List \in Lists /\ IsChain(List) /\ List.item = item
      /\ List.start = start /\ wr \in Slots \cup {Nil}
  BY ListType DEF Typed, Sound, List
<1>2. at \in Slots /\ List.item[at].flag # "free"
  BY <1>1 DEF Sound, Standing, DoneNext
<1>3. /\ d \in Lists /\ List' = d
      /\ d.item[at].next \in Slots \cup {Nil}
      /\ GoesOn(Hit(d, d.item[at].next))
  BY DoneType
<1>4. IsChain(d)
  BY <1>1, <1>2, DeleteKeeps
<1>5. /\ d.start = IF at = List.start /\ at # List.last
                     THEN List.item[at].next ELSE List.start
      /\ \A s \in Slots :
           /\ d.item[s].flag = IF s = at THEN "free" ELSE List.item[s].flag
           /\ d.item[s].n = List.item[s].n
           /\ d.item[s].user = List.item[s].user
  BY <1>1, <1>2, DeleteFact
<1> HIDE DEF d
<1>6. /\ at' \in Slots \cup {Nil} /\ cpc' \in {"idle", "done"}
      /\ cpc' = "done" <=> at' # Nil
      /\ cpc' = "done" => d.item[at'].flag = "processing"
  BY <1>3, GoesOnType
<1>7. d.item = item' /\ d.start = start' /\ d.last = last'
  BY <1>3 DEF List
<1>8. UNCHANGED <<test, wr, evict, user, serial>> /\ cpc = "done"
  BY DEF DoneNext
<1>9. Found'
  BY <1>1, <1>5, <1>7, <1>8 DEF Sound, Found
<1>10. Addressed'
  BY <1>1, <1>5, <1>7, <1>8 DEF Sound, Addressed
<1>11. Standing'
  <2>1. cpc' = "done" => last' # Nil
    BY <1>4, <1>6, <1>7 DEF IsChain
  <2> QED BY <1>6, <1>7, <2>1 DEF Standing
<1>12. Numbered'
  BY <1>1, <1>5, <1>7, <1>8 DEF Sound, Numbered
<1> QED BY <1>3, <1>4, <1>9, <1>10, <1>11, <1>12 DEF Sound

\* A step of the comm task that leaves the list alone.
LEMMA CommSound ==
  ASSUME Typed, Sound, UNCHANGED <<list, test, wr, evict, user, serial>>,
         cpc' # "idle" => cpc # "idle",
         cpc' \in {"sent", "done"} => at' \in Slots /\ item[at'].flag # "free",
         cpc' \in {"idle", "collect"} => at' = Nil
  PROVE  Sound'
<1>1. List' = List /\ UNCHANGED <<item, start, last, wr, evict, user, serial>>
  BY DEF list, List
<1>2. Found' /\ Addressed' /\ Standing' /\ Numbered'
  BY <1>1 DEF Sound, Found, Addressed, Standing, Numbered
<1> QED BY <1>1, <1>2 DEF Sound

\* The first record of a list is in use.
LEMMA FirstUsed ==
  ASSUME NEW b \in Lists, IsChain(b)
  PROVE  /\ b.start \in Slots
         /\ b.last # Nil => b.item[b.start].flag # "free"
<1>1. CASE b.last = Nil
  BY <1>1 DEF IsChain
<1>2. CASE b.last # Nil
  <2>1. PICK n, p : Chain(b, p, n)
    BY <1>2 DEF IsChain
  <2>2. /\ n \in 1 .. Size /\ p \in [1 .. n -> Slots] /\ b.start = p[1]
        /\ 1 \in 1 .. n
    BY <2>1, SizeAssumption DEF Chain
  <2>3. b.start \in Slots
    BY <2>2
  <2> QED BY <2>1, <2>2, <2>3 DEF Chain
<1> QED BY <1>1, <1>2

\* Every step keeps the chain or tears it.
LEMMA NextInv ==
  ASSUME Inv, [Next]_vars PROVE Inv'
<1>1. Typed /\ Typed'
  BY TypedNext DEF Inv
<1>2. serial' <= MaxEvents
  <2>1. serial \in Nat /\ serial <= MaxEvents
    BY DEF Inv, Typed, TypeOK
  <2>2. serial' = serial \/ (serial < MaxEvents /\ serial' = serial + 1)
    BY DEF Next, vars, event_buf_add_event, event_comm_task, AddFind, AddLink,
           GetFirst, NoMemory, GetMore, SmsSend, SmsFails,
           event_buf_done_events, DoneBegin, DoneNext
  <2> QED BY <2>1, <2>2, MaxEventsAssumption
<1>3. SUFFICES ASSUME ~torn' PROVE Sound'
  BY <1>1, <1>2 DEF Inv
<1>4. torn' = torn \/ \E u \in Users : AddLink(u) /\ (torn => torn')
  BY DEF Next, vars, event_buf_add_event, event_comm_task, AddFind, AddLink,
         GetFirst, NoMemory, GetMore, SmsSend, SmsFails,
         event_buf_done_events, DoneBegin, DoneNext
<1>5. ~torn
  BY <1>3, <1>4
<1>6. Sound /\ List \in Lists
  BY <1>1, <1>5, ListType DEF Inv, Typed
<1>7. CASE AddFind
  BY <1>1, <1>6, <1>7, FindSound
<1>8. CASE \E u \in Users : AddLink(u)
  BY <1>3, <1>6, <1>8, LinkSound
<1>9. CASE GetFirst
  <2>1. PICK i \in Slots : /\ Got(NoUser, i)
                           /\ item' = [item EXCEPT ![i].flag = "processing"]
                           /\ user' = item[i].user
    BY <1>9 DEF GetFirst
  <2>2. user' \in Users
    BY <1>6, <2>1 DEF Got, Matches, Sound, Addressed
  <2>3. /\ cpc \in {"idle", "collect"} /\ cpc' = "collect"
        /\ UNCHANGED <<start, last, test, wr, evict, at, serial>>
    BY <1>9 DEF GetFirst
  <2> QED BY <1>1, <1>6, <2>1, <2>2, <2>3, GetSound
<1>10. CASE GetMore
  <2>1. PICK i \in Slots : /\ Got(user, i)
                           /\ item' = [item EXCEPT ![i].flag = "processing"]
    BY <1>10 DEF GetMore
  <2>2. /\ cpc \in {"idle", "collect"} /\ cpc' = "collect"
        /\ UNCHANGED <<start, last, test, wr, evict, at, serial>>
    BY <1>10 DEF GetMore
  <2>3. user' \in Users
    BY <1>6, <1>10 DEF GetMore, Sound, Addressed
  <2> QED BY <1>1, <1>6, <2>1, <2>2, <2>3, GetSound
<1>11. CASE NoMemory \/ SmsFails
  <2>1. /\ cpc = "collect" /\ cpc' = "idle" /\ at' = at
        /\ UNCHANGED <<list, test, wr, evict, user, serial>>
    BY <1>11 DEF NoMemory, SmsFails
  <2>2. at = Nil
    BY <1>6, <2>1 DEF Sound, Standing
  <2> QED BY <1>1, <1>6, <2>1, <2>2, CommSound
<1>12. CASE SmsSend
  <2>1. /\ cpc = "collect" /\ cpc' = "sent" /\ at' = start
        /\ UNCHANGED <<list, test, wr, evict, user, serial>>
    BY <1>12 DEF SmsSend
  <2>2. List.last # Nil /\ List.start = start /\ List.item = item
    BY <1>6, <2>1 DEF Sound, Standing, List
  <2>3. start \in Slots /\ item[start].flag # "free"
    BY <1>6, <2>2, FirstUsed DEF Sound
  <2> QED BY <1>1, <1>6, <2>1, <2>3, CommSound
<1>13. CASE DoneBegin
  <2>1. /\ cpc = "sent" /\ GoesOn(Hit(List, at))
        /\ UNCHANGED <<list, test, wr, evict, user, serial>>
    BY <1>13 DEF DoneBegin
  <2>2. /\ at' \in Slots \cup {Nil} /\ cpc' \in {"idle", "done"}
        /\ cpc' = "done" <=> at' # Nil
        /\ cpc' = "done" => List.item[at'].flag = "processing"
    <3>1. at \in Slots \cup {Nil}
      BY <1>1 DEF Typed, TypeOK
    <3> QED BY <1>6, <2>1, <3>1, GoesOnType
  <2>3. List.item = item
    BY DEF List
  <2> QED BY <1>1, <1>6, <2>1, <2>2, <2>3, CommSound
<1>14. CASE DoneNext
  BY <1>1, <1>6, <1>14, DoneSound
<1>15. CASE UNCHANGED vars
  <2>1. UNCHANGED <<list, test, wr, evict, user, serial, cpc, at, item>>
    BY <1>15 DEF vars, list
  <2> QED BY <1>1, <1>6, <2>1, CommSound DEF Sound, Standing
<1> QED BY <1>7, <1>8, <1>9, <1>10, <1>11, <1>12, <1>13, <1>14, <1>15
        DEF Next, event_buf_add_event, event_comm_task, event_buf_done_events

\* A chain is what event_buf.c takes its list for.
LEMMA InvChained == Inv => Chained
<1> SUFFICES ASSUME Inv, ~torn PROVE Chained
  BY DEF Chained
<1>1. List \in Lists /\ IsChain(List) /\ start \in Slots
  <2>1. List \in Lists /\ IsChain(List) /\ List.start = start
    BY ListType DEF Inv, Typed, Sound, List
  <2> QED BY <2>1, FirstUsed
<1>2. List.item = item /\ List.start = start /\ List.last = last
  BY DEF List
<1>3. CASE last = Nil
  BY <1>1, <1>2, <1>3, EventsEmpty DEF Chained
<1>4. CASE last # Nil
  <2>1. PICK n, p : Chain(List, p, n)
    BY <1>1, <1>2, <1>4 DEF IsChain
  <2>2. /\ n \in 1 .. Size /\ n \in Nat /\ p \in [1 .. n -> Slots]
        /\ start = p[1] /\ last = p[n]
        /\ \A k \in 1 .. n - 1 : item[p[k]].next = p[k + 1]
        /\ \A k \in 2 .. n : item[p[k]].prev = p[k - 1]
        /\ item[p[1]].prev = Nil /\ item[p[n]].next = Nil
    <3>1. n \in 1 .. Size /\ n \in Nat /\ p \in [1 .. n -> Slots]
      BY <2>1, SizeAssumption DEF Chain
    <3>2. /\ start = p[1] /\ last = p[n]
          /\ \A k \in 1 .. n - 1 : item[p[k]].next = p[k + 1]
          /\ \A k \in 2 .. n : item[p[k]].prev = p[k - 1]
          /\ item[p[1]].prev = Nil /\ item[p[n]].next = Nil
      BY <1>2, <2>1, Zenon DEF Chain
    <3> QED BY <3>1, <3>2
  <2>3. Used(List) = {p[k] : k \in 1 .. n}
    BY <1>1, <2>1, UsedChain
  <2>4. Used(List) = {Walk(List)[k] : k \in Slots} \ {Nil}
    <3> DEFINE W == Walk(List)
    <3>1. \A k \in Slots : W[k] = IF k < n THEN p[k + 1] ELSE Nil
      BY <1>1, <2>1, WalkChain
    <3> HIDE DEF W
    <3>2. ASSUME NEW k \in 1 .. n
          PROVE  p[k] # Nil /\ \E j \in Slots : p[k] = W[j]
      <4>1. k - 1 \in Slots /\ W[k - 1] = p[k]
        BY <2>2, <3>1, SizeAssumption DEF Slots
      <4> QED BY <2>2, <4>1, NilAssumption
    <3>3. ASSUME NEW j \in Slots, W[j] # Nil
          PROVE  \E k \in 1 .. n : W[j] = p[k]
      <4>1. j < n /\ W[j] = p[j + 1]
        BY <3>1, <3>3
      <4>2. j + 1 \in 1 .. n
        BY <2>2, <4>1 DEF Slots
      <4> QED BY <4>1, <4>2
    <3>4. {p[k] : k \in 1 .. n} = {W[k] : k \in Slots} \ {Nil}
      BY <3>2, <3>3
    <3> QED BY <2>3, <3>4 DEF W
  <2>5. ASSUME NEW i \in Used(List) \ {last}
        PROVE  item[i].next \in Used(List) /\ item[item[i].next].prev = i
    <3>1. PICK k \in 1 .. n : i = p[k]
      BY <2>3
    <3>2. k # n
      BY <2>2, <3>1
    <3>3. item[i].next = p[k + 1] /\ k + 1 \in 2 .. n
      BY <2>2, <3>1, <3>2
    <3>4. item[p[k + 1]].prev = p[k]
      BY <2>2, <3>3
    <3> QED BY <2>2, <2>3, <3>1, <3>3, <3>4
  <2> QED BY <1>4, <2>2, <2>4, <2>5 DEF Chained
<1> QED BY <1>3, <1>4

-----------------------------------------------------------------------------
\* The variables of event_buf_t and of the two tasks have their types, however
\* the tasks overlap ...
THEOREM TypeCorrect == Spec => []TypeOK
<1>1. Init => Inv
  BY InitInv
<1>2. Inv /\ [Next]_vars => Inv'
  BY NextInv
<1>3. Inv => TypeOK
  BY DEF Inv, Typed
<1> QED BY <1>1, <1>2, <1>3, PTL DEF Spec

\* ... and the records in use are one chain, linked both ways, from start_index
\* to last_index: what _delete_item() asserts and every loop relies on.  The
\* one way to tear it is to link a record into a list that the comm task
\* emptied after its slot had been found.
THEOREM ChainSafety == Spec => []Chained
<1>1. Init => Inv
  BY InitInv
<1>2. Inv /\ [Next]_vars => Inv'
  BY NextInv
<1>3. Inv => Chained
  BY InvChained
<1> QED BY <1>1, <1>2, <1>3, PTL DEF Spec

-----------------------------------------------------------------------------
(* The list implements the queue of SmsOutbox. *)

Entries == [n : Nat, user : Users \cup {NoUser}, flag : Flags]

\* The queue that a chain stands for ...
LEMMA EventsOf ==
  ASSUME NEW b \in Lists, NEW n, NEW p, Chain(b, p, n)
  PROVE  /\ Events(b) \in Seq(Entries) /\ Len(Events(b)) = n
         /\ \A k \in 1 .. n : Events(b)[k] = Entry(b.item[p[k]])
<1>1. n \in Nat /\ p \in [1 .. n -> Slots]
  BY SizeAssumption DEF Chain
<1>2. Events(b) = [k \in 1 .. n |-> Entry(b.item[p[k]])]
  BY EventsChain
<1>3. \A i \in Slots : Entry(b.item[i]) \in Entries
  BY DEF Lists, Items, Record, Entries, Entry
<1>4. \A k \in 1 .. n : Entry(b.item[p[k]]) \in Entries
  BY <1>1, <1>3
<1> QED BY <1>1, <1>2, <1>4

\* ... is as long as there are records in use.
LEMMA EventsLen ==
  ASSUME NEW b \in Lists, IsChain(b)
  PROVE  /\ Events(b) \in Seq(Entries) /\ Len(Events(b)) \in 0 .. Size
         /\ \A w \in Slots : b.item[w].flag = "free" => Len(Events(b)) # Size
         /\ Used(b) = Slots => Len(Events(b)) = Size
<1>1. Size \in Nat \ {0} /\ Slots # {}
  BY SizeAssumption DEF Slots
<1>2. CASE b.last = Nil
  <2>1. Used(b) = {} /\ Events(b) = <<>>
    BY <1>2, EventsEmpty
  <2>2. Events(b) \in Seq(Entries) /\ Len(Events(b)) = 0
    BY <2>1
  <2> QED BY <1>1, <2>1, <2>2
<1>3. CASE b.last # Nil
  <2>1. PICK n, p : Chain(b, p, n)
    BY <1>3 DEF IsChain
  <2>2. Events(b) \in Seq(Entries) /\ Len(Events(b)) = n
    BY <2>1, EventsOf
  <2>3. n \in 1 .. Size
    BY <2>1 DEF Chain
  <2>4. ASSUME NEW w \in Slots, b.item[w].flag = "free" PROVE n # Size
    <3>1. n < Size
      BY <2>1, <2>4, FreeSlot
    <3> QED BY <1>1, <3>1
  <2>5. ASSUME Used(b) = Slots PROVE n = Size
    <3>1. Cardinality(Used(b)) = n
      BY <2>1, UsedChain
    <3>2. Cardinality(Slots) = Size
      <4>1. 0 \in Int /\ Size - 1 \in Int /\ ~(0 > Size - 1)
            /\ Size - 1 - 0 + 1 = Size
        BY <1>1
      <4> QED BY <4>1, FS_Interval, Zenon DEF Slots
    <3> QED BY <2>5, <3>1, <3>2
  <2> QED BY <1>1, <2>2, <2>3, <2>4, <2>5
<1> QED BY <1>2, <1>3

\* Linking a record appends its event.
LEMMA EventsLink ==
  ASSUME NEW b \in Lists, IsChain(b),
         NEW w \in Slots, b.item[w].flag = "free", b.last = Nil => w = b.start,
         NEW new \in Record, new.flag = "active", new.next = Nil,
         new.prev = b.last
  PROVE  Events(Link(b, w, new)) = Append(Events(b), Entry(new))
<1> DEFINE a == Link(b, w, new)
<1>1. a \in Lists /\ a.item[w] = new
      /\ \A s \in Slots \ {w} : Entry(a.item[s]) = Entry(b.item[s])
  BY LinkFact DEF Entry
<1>2. Entry(new) \in Entries
  BY DEF Record, Entries, Entry
<1>3. CASE b.last = Nil
  <2>1. Chain(a, [k \in 1 .. 1 |-> w], 1)
    BY <1>3, LinkChain
  <2> HIDE DEF a
  <2>2. /\ Events(a) \in Seq(Entries) /\ Len(Events(a)) = 1
        /\ \A k \in 1 .. 1 :
             Events(a)[k] = Entry(a.item[[j \in 1 .. 1 |-> w][k]])
    BY <1>1, <2>1, EventsOf
  <2>3. Events(a)[1] = Entry(new)
    BY <1>1, <2>2
  <2>4. Events(b) = <<>>
    BY <1>3, EventsEmpty
  <2>5. Events(a) = <<Entry(new)>>
    BY <2>2, <2>3
  <2> QED BY <2>4, <2>5 DEF a
<1>4. CASE b.last # Nil
  <2>1. PICK n, p : Chain(b, p, n)
    BY <1>4 DEF IsChain
  <2>2. Chain(a, Longer(p, n, w), n + 1)
    BY <1>4, <2>1, LinkChain
  <2> HIDE DEF a
  <2>3. n \in Nat /\ p \in [1 .. n -> Slots] /\ \A k \in 1 .. n : p[k] # w
    BY <2>1, SizeAssumption DEF Chain
  <2>4. /\ Events(b) \in Seq(Entries) /\ Len(Events(b)) = n
        /\ \A k \in 1 .. n : Events(b)[k] = Entry(b.item[p[k]])
    BY <2>1, EventsOf
  <2>5. /\ Events(a) \in Seq(Entries) /\ Len(Events(a)) = n + 1
        /\ \A k \in 1 .. n + 1 :
             Events(a)[k] = Entry(a.item[Longer(p, n, w)[k]])
    BY <1>1, <2>2, EventsOf
  <2>6. /\ Append(Events(b), Entry(new)) \in Seq(Entries)
        /\ Len(Append(Events(b), Entry(new))) = n + 1
        /\ \A k \in 1 .. n : Append(Events(b), Entry(new))[k] = Events(b)[k]
        /\ Append(Events(b), Entry(new))[n + 1] = Entry(new)
    BY <1>2, <2>4, AppendProperties
  <2>7. ASSUME NEW k \in 1 .. n + 1
        PROVE  Events(a)[k] = Append(Events(b), Entry(new))[k]
    <3>1. CASE k = n + 1
      <4>1. Longer(p, n, w)[k] = w
        BY <2>3, <3>1 DEF Longer
      <4> QED BY <1>1, <2>5, <2>6, <3>1, <4>1
    <3>2. CASE k # n + 1
      <4>1. k \in 1 .. n /\ Longer(p, n, w)[k] = p[k] /\ p[k] \in Slots \ {w}
        BY <2>3, <3>2 DEF Longer
      <4> QED BY <1>1, <2>4, <2>5, <2>6, <4>1
    <3> QED BY <3>1, <3>2
  <2>8. Events(a) = Append(Events(b), Entry(new))
    BY <2>5, <2>6, <2>7, SeqEqual
  <2> QED BY <2>8 DEF a
<1> QED BY <1>3, <1>4

\* Deleting the first record drops the oldest event.
LEMMA EventsTail ==
  ASSUME NEW b \in Lists, IsChain(b), b.last # Nil
  PROVE  Events(Delete(b, b.start)) = Tail(Events(b))
<1> DEFINE d == Delete(b, b.start)
<1>1. PICK n, p : Chain(b, p, n)
  BY DEF IsChain
<1>2. n \in Nat /\ n >= 1 /\ p \in [1 .. n -> Slots] /\ b.start = p[1]
  BY <1>1, SizeAssumption DEF Chain
<1>3. /\ Events(b) \in Seq(Entries) /\ Len(Events(b)) = n
      /\ \A k \in 1 .. n : Events(b)[k] = Entry(b.item[p[k]])
  BY <1>1, EventsOf
<1>4. 1 \in 1 .. n
  BY <1>2
<1>5. /\ d \in Lists
      /\ n = 1 => d.last = Nil /\ IsChain(d)
      /\ n > 1 => Chain(d, Without(p, n, 1), n - 1)
  BY <1>1, <1>2, <1>4, DeleteChain
<1>6. /\ Tail(Events(b)) \in Seq(Entries) /\ Len(Tail(Events(b))) = n - 1
      /\ \A k \in 1 .. n - 1 : Tail(Events(b))[k] = Events(b)[k + 1]
  BY <1>2, <1>3, HeadTailProperties
<1>7. CASE n = 1
  <2>1. Events(d) = <<>>
    BY <1>5, <1>7, EventsEmpty
  <2>2. Tail(Events(b)) = <<>>
    <3>1. \A seq \in Seq(Entries) : seq # <<>> => Len(seq) \in Nat \ {0}
      BY EmptySeq
    <3>2. Len(Tail(Events(b))) = 0
      BY <1>6, <1>7
    <3> QED BY <1>6, <3>1, <3>2
  <2> QED BY <2>1, <2>2
<1>8. CASE n > 1
  <2>1. /\ Events(d) \in Seq(Entries) /\ Len(Events(d)) = n - 1
        /\ \A k \in 1 .. n - 1 :
             Events(d)[k] = Entry(d.item[Without(p, n, 1)[k]])
    BY <1>5, <1>8, EventsOf
  <2>2. ASSUME NEW k \in 1 .. n - 1 PROVE Events(d)[k] = Tail(Events(b))[k]
    <3>1. Without(p, n, 1)[k] = p[k + 1] /\ k + 1 \in 1 .. n
      BY <1>2 DEF Without
    <3>2. p[k + 1] \in Slots /\ p[k + 1] # b.start
      BY <1>1, <1>2, <1>4, <3>1 DEF Chain
    <3>3. b.start \in Slots /\ b.item[b.start].flag # "free"
      BY <1>1, <1>2, <1>4 DEF Chain
    <3>4. Entry(d.item[p[k + 1]]) = Entry(b.item[p[k + 1]])
      BY <3>2, <3>3, DeleteFact DEF Entry
    <3> QED BY <1>3, <1>6, <2>1, <3>1, <3>4
  <2> HIDE DEF d
  <2>3. Events(d) = Tail(Events(b))
    BY <1>6, <2>1, <2>2, SeqEqual
  <2> QED BY <2>3 DEF d
<1> QED BY <1>2, <1>7, <1>8

\* event_buf_get_event() takes the first event that is active and for the user
\* asked for, and marks no other.
LEMMA EventsGot ==
  ASSUME List \in Lists, IsChain(List), NEW i \in Slots, NEW u, Got(u, i)
  PROVE  \E k \in 1 .. Len(Events(List)) :
           /\ Events(List)[k].flag = "active"
           /\ Events(List)[k].user = item[i].user
           /\ u = NoUser \/ Events(List)[k].user = u
           /\ \A j \in 1 .. k - 1 :
                Events(List)[j].flag = "active"
                  => u # NoUser /\ Events(List)[j].user # u
           /\ Events(Mark(List, i))
                = [Events(List) EXCEPT ![k].flag = "processing"]
<1> DEFINE b == List
           c == Mark(List, i)
<1>1. PICK h \in Slots : /\ i = Walk(b)[h] /\ Matches(i, u)
                         /\ \A j \in 0 .. h - 1 : ~Matches(Walk(b)[j], u)
  BY DEF Got
<1>2. b.item = item /\ b.item[i].flag = "active" /\ i # Nil
      /\ (u = NoUser \/ b.item[i].user = u)
  BY <1>1 DEF Matches, List
<1>3. b.last # Nil
  BY <1>2 DEF IsChain
<1>4. PICK n, p : Chain(b, p, n)
  BY <1>3 DEF IsChain
<1>5. /\ n \in Nat /\ p \in [1 .. n -> Slots]
      /\ \A j, k \in 1 .. n : p[j] = p[k] => j = k
  BY <1>4, SizeAssumption DEF Chain
<1>6. \A j \in Slots : Walk(b)[j] = IF j < n THEN p[j + 1] ELSE Nil
  BY <1>4, WalkChain
<1>7. /\ Events(b) \in Seq(Entries) /\ Len(Events(b)) = n
      /\ \A k \in 1 .. n : Events(b)[k] = Entry(b.item[p[k]])
  BY <1>4, EventsOf
<1>8. /\ c \in Lists
      /\ \A s \in Slots :
           /\ c.item[s].n = b.item[s].n
           /\ c.item[s].user = b.item[s].user
           /\ c.item[s].flag = IF s = i THEN "processing" ELSE b.item[s].flag
      /\ Chain(c, p, n)
  BY <1>2, <1>4, MarkChain
<1> HIDE DEF b, c
<1>9. /\ Events(c) \in Seq(Entries) /\ Len(Events(c)) = n
      /\ \A k \in 1 .. n : Events(c)[k] = Entry(c.item[p[k]])
  BY <1>8, EventsOf
<1> DEFINE k == h + 1
<1>10. k \in 1 .. n /\ p[k] = i
  BY <1>1, <1>2, <1>5, <1>6 DEF Slots
<1>11. /\ Events(b)[k].flag = "active"
       /\ Events(b)[k].user = item[i].user
       /\ u = NoUser \/ Events(b)[k].user = u
  BY <1>2, <1>7, <1>10 DEF Entry
<1>12. ASSUME NEW j \in 1 .. k - 1, Events(b)[j].flag = "active"
       PROVE  u # NoUser /\ Events(b)[j].user # u
  <2>1. j \in 1 .. n /\ j - 1 \in 0 .. h - 1 /\ j - 1 \in Slots /\ j - 1 < n
    BY <1>5, <1>10, SizeAssumption DEF Slots
  <2>2. Walk(b)[j - 1] = p[j] /\ p[j] \in Slots
    BY <1>5, <1>6, <2>1
  <2>3. ~Matches(p[j], u) /\ p[j] # Nil
    BY <1>1, <2>1, <2>2, NilAssumption
  <2>4. /\ Events(b)[j].flag = item[p[j]].flag
        /\ Events(b)[j].user = item[p[j]].user
    BY <1>2, <1>7, <2>1 DEF Entry
  <2> QED BY <1>12, <2>3, <2>4 DEF Matches
<1>13. Events(c) = [Events(b) EXCEPT ![k].flag = "processing"]
  <2> DEFINE t == [Events(b) EXCEPT ![k].flag = "processing"]
             e == [Events(b)[k] EXCEPT !.flag = "processing"]
  <2>1. Events(b)[k] \in Entries
    BY <1>7, <1>10
  <2>2. e \in Entries
    BY <2>1 DEF Entries, Flags
  <2>3. t \in Seq(Entries) /\ Len(t) = n
        /\ \A j \in 1 .. n : t[j] = IF j = k THEN e ELSE Events(b)[j]
    <3>1. t = [Events(b) EXCEPT ![k] = e]
      OBVIOUS
    <3> HIDE DEF e, k, t
    <3> QED BY <1>7, <1>10, <2>2, <3>1, ExceptSeq
  <2>4. Entry(c.item[i]) = e
    <3>1. Events(b)[k] = Entry(b.item[i])
      BY <1>7, <1>10
    <3>2. c.item[i].n = b.item[i].n /\ c.item[i].user = b.item[i].user
          /\ c.item[i].flag = "processing"
      BY <1>8
    <3> HIDE DEF k
    <3> QED BY <3>1, <3>2 DEF Entry
  <2>5. ASSUME NEW j \in 1 .. n PROVE Events(c)[j] = t[j]
    <3> HIDE DEF e, t
    <3>1. CASE j = k
      BY <1>9, <1>10, <2>3, <2>4, <3>1
    <3>2. CASE j # k
      <4>1. p[j] \in Slots /\ p[j] # i
        BY <1>5, <1>10, <3>2
      <4>2. Entry(c.item[p[j]]) = Entry(b.item[p[j]])
        BY <1>8, <4>1 DEF Entry
      <4> QED BY <1>7, <1>9, <2>3, <3>2, <4>2
    <3> QED BY <3>1, <3>2
  <2> HIDE DEF t
  <2>6. Events(c) = t
    BY <1>9, <2>3, <2>5, SeqEqual
  <2> QED BY <2>6 DEF t
<1> HIDE DEF k
<1> QED BY <1>7, <1>10, <1>11, <1>12, <1>13, Zenon DEF b, c

\* event_buf_get_event() finds nothing only if there is nothing to find.
LEMMA NoneGot ==
  ASSUME List \in Lists, NEW n, NEW p, Chain(List, p, n),
         NEW u \in Users, \A i \in Slots : ~Got(u, i), NEW m \in 1 .. n,
         item[p[m]].flag = "active"
  PROVE  item[p[m]].user # u
<1> SUFFICES ASSUME item[p[m]].user = u PROVE FALSE
  OBVIOUS
<1> DEFINE W == Walk(List)
           M == {k \in Slots : Matches(W[k], u)}
<1>1. n \in 1 .. Size /\ n \in Nat /\ p \in [1 .. n -> Slots]
  BY SizeAssumption DEF Chain
<1>2. m - 1 \in Slots /\ W[m - 1] = p[m] /\ p[m] \in Slots
  <2>1. m - 1 \in Slots /\ m - 1 < n /\ (m - 1) + 1 = m
    BY <1>1, SizeAssumption DEF Slots
  <2> QED BY <1>1, <2>1, WalkChain
<1>3. Walk(List)[0] \in Slots \cup {Nil} /\ W \in [Slots -> Slots \cup {Nil}]
  <2>1. List.start \in Slots \cup {Nil}
    BY DEF Lists
  <2>2. W \in [Slots -> Slots \cup {Nil}]
    BY <2>1, WalkFact DEF Walk
  <2> QED BY <2>2, SizeAssumption DEF Slots
<1> HIDE DEF W
<1>4. m - 1 \in M
  BY <1>2, NilAssumption DEF Matches
<1>5. M \subseteq Nat
  BY SizeAssumption DEF Slots
<1> HIDE DEF M
<1>6. PICK k \in M : \A j \in M : k <= j
  BY <1>4, <1>5, LeastNat, Zenon
<1>7. k \in Slots /\ k \in Nat /\ Matches(W[k], u) /\ W[k] \in Slots
  BY <1>3, <1>5, <1>6 DEF M, Matches
<1>8. \A j \in 0 .. k - 1 : ~Matches(W[j], u)
  <2> SUFFICES ASSUME NEW j \in 0 .. k - 1, Matches(W[j], u) PROVE FALSE
    OBVIOUS
  <2>1. j \in Slots /\ ~(k <= j)
    BY <1>7, SizeAssumption DEF Slots
  <2> QED BY <1>6, <2>1 DEF M
<1> QED BY <1>7, <1>8 DEF Got, W

\* A queue without its k-th event.
Drop(q, k) == [j \in 1 .. Len(q) - 1 |-> IF j < k THEN q[j] ELSE q[j + 1]]

\* Deleting the k-th record takes its event out of the queue.
LEMMA EventsDelete ==
  ASSUME NEW b \in Lists, NEW n, NEW p, Chain(b, p, n), NEW k \in 1 .. n
  PROVE  Events(Delete(b, p[k])) = Drop(Events(b), k)
<1> DEFINE d == Delete(b, p[k])
<1>1. /\ n \in Nat /\ n >= 1 /\ p \in [1 .. n -> Slots]
      /\ \A j, l \in 1 .. n : p[j] = p[l] => j = l
  BY SizeAssumption DEF Chain
<1>2. Len(Events(b)) = n /\ \A j \in 1 .. n : Events(b)[j] = Entry(b.item[p[j]])
  BY EventsOf
<1>3. p[k] \in Slots /\ b.item[p[k]].flag # "free"
  BY <1>1 DEF Chain
<1>4. \A s \in Slots \ {p[k]} : Entry(d.item[s]) = Entry(b.item[s])
  BY <1>3, DeleteFact DEF Entry
<1>5. /\ d \in Lists
      /\ n = 1 => d.last = Nil /\ IsChain(d)
      /\ n > 1 => Chain(d, Without(p, n, k), n - 1)
  BY <1>1, DeleteChain
<1> HIDE DEF d
<1>6. CASE n = 1
  <2>1. Events(d) = <<>>
    BY <1>5, <1>6, EventsEmpty
  <2> QED BY <1>2, <1>6, <2>1 DEF d, Drop
<1>7. CASE n > 1
  <2>1. Events(d) = [j \in 1 .. n - 1 |-> Entry(d.item[Without(p, n, k)[j]])]
    BY <1>5, <1>7, EventsChain
  <2>2. ASSUME NEW j \in 1 .. n - 1
        PROVE  Entry(d.item[Without(p, n, k)[j]])
                 = IF j < k THEN Events(b)[j] ELSE Events(b)[j + 1]
    <3> DEFINE l == IF j < k THEN j ELSE j + 1
    <3>1. Without(p, n, k)[j] = p[l] /\ l \in 1 .. n /\ l # k
      BY <1>1 DEF Without
    <3>2. p[l] \in Slots \ {p[k]}
      BY <1>1, <3>1
    <3>3. Entry(d.item[p[l]]) = Events(b)[l]
      BY <1>2, <1>4, <3>1, <3>2
    <3> QED BY <3>1, <3>3
  <2>3. Events(d) = [j \in 1 .. n - 1 |->
                       IF j < k THEN Events(b)[j] ELSE Events(b)[j + 1]]
    BY <2>1, <2>2, Zenon
  <2> QED BY <1>2, <2>3 DEF d, Drop
<1> QED BY <1>1, <1>6, <1>7

\* After the k-th record is deleted, the walk goes on behind it.
LEMMA HitDelete ==
  ASSUME NEW b \in Lists, NEW n, NEW p, Chain(b, p, n), NEW k \in 1 .. n
  PROVE  Stops(b, p, n, k + 1,
               Hit(Delete(b, p[k]), Delete(b, p[k]).item[p[k]].next))
<1> DEFINE d == Delete(b, p[k])
           q == Without(p, n, k)
<1>1. /\ n \in 1 .. Size /\ n \in Nat /\ p \in [1 .. n -> Slots]
      /\ \A j, l \in 1 .. n : p[j] = p[l] => j = l
      /\ \A j \in 1 .. n - 1 : b.item[p[j]].next = p[j + 1]
      /\ \A j \in 2 .. n : b.item[p[j]].prev = p[j - 1]
      /\ b.item[p[1]].prev = Nil /\ b.item[p[n]].next = Nil
  BY SizeAssumption DEF Chain
<1>2. p[k] \in Slots /\ b.item[p[k]].flag # "free"
  BY <1>1 DEF Chain
<1>3. /\ d \in Lists
      /\ \A s \in Slots :
           /\ d.item[s].flag = IF s = p[k] THEN "free" ELSE b.item[s].flag
           /\ d.item[s].next = IF p[k] # b.start /\ s = b.item[p[k]].prev
                               THEN b.item[p[k]].next ELSE b.item[s].next
  BY <1>2, DeleteFact
<1>4. n > 1 => Chain(d, q, n - 1)
  BY <1>1, DeleteChain
<1> HIDE DEF d
<1>5. d.item[p[k]].next = b.item[p[k]].next
  BY <1>2, <1>3
<1>6. CASE k = n
  <2>1. d.item[p[k]].next = Nil
    BY <1>1, <1>5, <1>6
  <2>2. Hit(d, d.item[p[k]].next) = Nil
    BY <1>3, <2>1, HitFact
  <2>3. \A m \in k + 1 .. n : FALSE
    BY <1>1, <1>6
  <2> QED BY <2>2, <2>3, Zenon DEF Stops, d
<1>7. CASE k < n
  <2>1. d.item[p[k]].next = p[k + 1]
    BY <1>1, <1>5, <1>7
  <2>2. \A j \in k .. n - 1 : q[j] = p[j + 1]
    BY <1>1, <1>7 DEF Without
  <2>3. k \in 1 .. n - 1 /\ k \in k .. n - 1 /\ n > 1
    BY <1>1, <1>7
  <2>4. \A j \in k + 1 .. n : d.item[p[j]].flag = b.item[p[j]].flag
    BY <1>1, <1>3, <1>7
  <2> HIDE DEF q
  <2>5. Stops(d, q, n - 1, k, Hit(d, q[k]))
    BY <1>3, <1>4, <2>3, HitChain
  <2> DEFINE i == Hit(d, d.item[p[k]].next)
  <2>6. i = Hit(d, q[k])
    BY <2>1, <2>2, <2>3
  <2> HIDE DEF i
  <2>7. CASE i = Nil /\ \A m \in k .. n - 1 : d.item[q[m]].flag # "processing"
    <3>1. ASSUME NEW m \in k + 1 .. n PROVE b.item[p[m]].flag # "processing"
      <4>1. m - 1 \in k .. n - 1 /\ (m - 1) + 1 = m
        BY <1>1
      <4> QED BY <2>2, <2>4, <2>7, <4>1
    <3> QED BY <2>7, <3>1 DEF Stops, i, d
  <2>8. CASE \E m \in k .. n - 1 :
               /\ i = q[m] /\ d.item[q[m]].flag = "processing"
               /\ \A j \in k .. m - 1 : d.item[q[j]].flag # "processing"
    <3>1. PICK m \in k .. n - 1 :
               /\ i = q[m] /\ d.item[q[m]].flag = "processing"
               /\ \A j \in k .. m - 1 : d.item[q[j]].flag # "processing"
      BY <2>8
    <3>2. m + 1 \in k + 1 .. n /\ i = p[m + 1]
          /\ b.item[p[m + 1]].flag = "processing"
      BY <1>1, <2>2, <2>4, <3>1
    <3>3. ASSUME NEW j \in k + 1 .. (m + 1) - 1
          PROVE  b.item[p[j]].flag # "processing"
      <4>1. /\ j - 1 \in k .. m - 1 /\ j - 1 \in k .. n - 1
            /\ (j - 1) + 1 = j /\ j \in k + 1 .. n
        BY <1>1, <3>1
      <4> QED BY <2>2, <2>4, <3>1, <4>1
    <3> QED BY <3>2, <3>3 DEF Stops, i, d
  <2> QED BY <2>5, <2>6, <2>7, <2>8 DEF Stops
<1> QED BY <1>1, <1>6, <1>7

-----------------------------------------------------------------------------
(* The refinement *)

\* The mapping of Outbox: the queue, who the message is for, the event where
\* the removal stands and the one to be displaced.
Q == IF torn THEN <<>> ELSE Events(List)
To == IF cpc = "idle" THEN NoUser ELSE user
Hand == IF at = Nil THEN 0 ELSE item[at].n
Victim == IF wr # Nil /\ evict THEN item[wr].n ELSE 0

\* The empty list is the empty outbox.
LEMMA OutboxInit == ASSUME Init PROVE Outbox!Init
<1>1. IsChain(List) /\ List.last = Nil /\ torn = FALSE
  BY InitInv DEF Inv, Sound, Init, List
<1>2. Q = <<>>
  BY <1>1, EventsEmpty DEF Q
<1> QED BY <1>2 DEF Outbox!Init, Init, Q

\* What the steps have in common.
LEMMA Facts ==
  ASSUME Inv, ~torn
  PROVE  /\ Typed /\ Sound /\ List \in Lists /\ Q = Events(List)
         /\ List.item = item /\ List.start = start /\ List.last = last
         /\ wr \in Slots \cup {Nil} /\ at \in Slots \cup {Nil}
         /\ evict \in BOOLEAN /\ serial \in Nat
         /\ at # Nil => item[at].flag # "free" /\ item[at].n > 0
         /\ \A i \in Slots : item[i].n \in Nat
<1>1. Typed /\ Sound /\ List \in Lists
  BY ListType DEF Inv, Typed
<1>2. /\ wr \in Slots \cup {Nil} /\ at \in Slots \cup {Nil}
      /\ evict \in BOOLEAN /\ serial \in Nat
      /\ cpc \in {"idle", "collect", "sent", "done"}
      /\ \A i \in Slots : item[i].n \in Nat
  BY <1>1 DEF Typed, TypeOK
<1>3. at # Nil => item[at].flag # "free" /\ item[at].n > 0
  BY <1>1, <1>2 DEF Sound, Standing, Numbered
<1> QED BY <1>1, <1>2, <1>3 DEF Q, List

\* The queue of a list that is not empty begins with its first record.
LEMMA FirstEvent ==
  ASSUME Inv, ~torn, last # Nil
  PROVE  Q # <<>> /\ Q[1].n = item[start].n /\ start \in Slots
<1>1. /\ Sound /\ List \in Lists /\ Q = Events(List) /\ List.item = item
      /\ List.start = start /\ List.last = last
  BY Facts
<1>2. PICK n, p : Chain(List, p, n)
  BY <1>1 DEF Sound, IsChain
<1>3. 1 \in 1 .. n /\ n \in Nat /\ start = p[1] /\ p \in [1 .. n -> Slots]
  BY <1>1, <1>2, SizeAssumption DEF Chain
<1>4. Len(Q) = n /\ Q[1] = Entry(item[start])
  BY <1>1, <1>2, <1>3, EventsOf
<1>5. Q # <<>>
  BY <1>3, <1>4
<1> QED BY <1>3, <1>4, <1>5 DEF Entry

\* Finding a slot is Full, or nothing.
LEMMA OutboxFull ==
  ASSUME Inv, ~torn, AddFind
  PROVE  Outbox!Full \/ UNCHANGED <<Q, To, cpc, Hand, Victim, torn>>
<1>1. Typed /\ Sound /\ List \in Lists /\ Q = Events(List)
  BY Facts
<1>2. List' = List /\ UNCHANGED <<item, start, last, cpc, user, at, torn>>
  BY DEF AddFind, list, List
<1>3. /\ wr = Nil /\ wr' \in Slots \cup {Nil} /\ evict' \in BOOLEAN
      /\ evict' => wr' = start /\ Used(List) = Slots /\ last # Nil
  BY <1>1, FindStep
<1>4. UNCHANGED <<Q, To, cpc, Hand, torn>>
  BY <1>2 DEF Q, To, Hand
<1>5. Victim = 0
  BY <1>3 DEF Victim
<1>6. CASE ~evict'
  <2>1. Victim' = 0
    BY <1>6 DEF Victim
  <2> QED BY <1>4, <1>5, <2>1
<1>7. CASE evict'
  <2>1. start \in Slots /\ Q[1].n = item[start].n
    BY <1>3, <1>7, FirstEvent
  <2>2. Victim' = item[start].n
    BY <1>2, <1>3, <1>7, <2>1, NilAssumption DEF Victim
  <2>3. Len(Q) = Size
    BY <1>1, <1>3, <1>7, EventsLen DEF Sound
  <2>4. Outbox!Full
    BY <1>4, <2>1, <2>2, <2>3, Zenon
    DEF Outbox!Full, Q, To, Hand, Victim
  <2> QED BY <2>4
<1> QED BY <1>3, <1>6, <1>7

\* Adding an event is Accept.
LEMMA OutboxAccept ==
  ASSUME Inv, ~torn, NEW u \in Users, AddLink(u), ~torn'
  PROVE  \E n \in 1 .. MaxEvents : Outbox!Accept(n, u)
<1>1. /\ Typed /\ Sound /\ List \in Lists /\ Q = Events(List)
      /\ List.item = item /\ List.start = start /\ List.last = last
      /\ at \in Slots \cup {Nil} /\ evict \in BOOLEAN /\ serial \in Nat
      /\ at # Nil => item[at].flag # "free" /\ item[at].n > 0
      /\ \A i \in Slots : item[i].n \in Nat
  BY Facts
<1>2. /\ wr \in Slots /\ Room \in Lists /\ New(Room, u) \in Record
      /\ List' = Link(Room, wr, New(Room, u)) /\ wr # Nil
  BY <1>1, LinkType, NilAssumption
<1>3. /\ IsChain(Room) /\ Room.item[wr].flag = "free"
      /\ Room.last = Nil => wr = Room.start
  BY <1>1, RoomFact
<1>4. Q' = Append(Events(Room), Entry(New(Room, u)))
  <2>1. Q' = Events(List')
    BY DEF Q
  <2>2. /\ New(Room, u).flag = "active" /\ New(Room, u).next = Nil
        /\ New(Room, u).prev = Room.last
    BY DEF New
  <2> QED BY <1>2, <1>3, <2>1, <2>2, EventsLink
<1> DEFINE new == [n |-> serial, user |-> u, flag |-> "active"]
<1>5. Entry(New(Room, u)) = new
  BY DEF New, Entry
<1>6. Q' = Append(Events(Room), new)
  BY <1>4, <1>5
<1>7. \A i, j \in Slots : item[i].n = item[j].n /\ item[i].n > 0 => i = j
  BY <1>1 DEF Sound, Numbered
<1>8. \/ Q # <<>> /\ Q[1].n = Victim /\ Q' = Append(Tail(Q), new)
      \/ /\ \A k \in 1 .. Len(Q) : Q[k].n # Victim
         /\ Len(Q) < Size /\ Q' = Append(Q, new)
  <2> HIDE DEF new
  <2>1. CASE item[wr].flag # "free"
    <3>1. evict /\ wr = start
      BY <1>1, <1>2, <2>1 DEF Sound, Found
    <3>2. last # Nil
      BY <1>1, <1>2, <2>1 DEF Sound, IsChain
    <3>3. Q # <<>> /\ Q[1].n = Victim
      BY <1>2, <3>1, <3>2, FirstEvent DEF Victim
    <3>4. Events(Room) = Tail(Q)
      BY <1>1, <3>1, <3>2, EventsTail DEF Room, Sound
    <3> QED BY <1>6, <3>3, <3>4
  <2>2. CASE item[wr].flag = "free"
    <3>1. Room = List
      BY <1>1, <1>2, <2>2, DeleteType DEF Room
    <3>2. Len(Q) < Size
      <4>1. Len(Q) \in 0 .. Size /\ Len(Q) # Size
        BY <1>1, <1>2, <2>2, EventsLen DEF Sound
      <4> QED BY <4>1, SizeAssumption
    <3>3. ASSUME NEW k \in 1 .. Len(Q) PROVE Q[k].n # Victim
      <4>1. last # Nil
        <5>1. CASE last = Nil
          <6>1. Q = <<>>
            BY <1>1, <5>1, EventsEmpty DEF Sound
          <6> QED BY <3>3, <6>1
        <5> QED BY <5>1
      <4>2. PICK n, p : Chain(List, p, n)
        BY <1>1, <4>1 DEF Sound, IsChain
      <4>3. /\ k \in 1 .. n /\ Q[k] = Entry(item[p[k]])
            /\ p[k] \in Slots /\ item[p[k]].flag # "free"
        <5>1. Len(Q) = n /\ \A j \in 1 .. n : Q[j] = Entry(item[p[j]])
          BY <1>1, <4>2, EventsOf
        <5>2. k \in 1 .. n /\ p \in [1 .. n -> Slots]
          BY <3>3, <4>2, <5>1 DEF Chain
        <5> QED BY <1>1, <4>2, <5>1, <5>2 DEF Chain
      <4>4. Q[k].n = item[p[k]].n /\ item[p[k]].n > 0 /\ p[k] # wr
        BY <1>1, <2>2, <4>3 DEF Entry, Sound, Numbered
      <4> QED BY <1>1, <1>2, <1>7, <4>3, <4>4 DEF Victim
    <3> QED BY <1>1, <1>6, <3>1, <3>2, <3>3
  <2> QED BY <2>1, <2>2
<1>9. /\ item'[wr].n = serial
      /\ \A s \in Slots \ {wr} : item'[s].n = item[s].n
  <2>1. /\ item'[wr] = New(Room, u)
        /\ \A s \in Slots \ {wr} : item'[s].n = item[s].n
    BY <1>1, LinkedItems
  <2> QED BY <2>1 DEF New
<1>10. wr' = Nil /\ UNCHANGED <<cpc, user, at, evict>>
  BY DEF AddLink
<1>11. Hand' = IF Hand # 0 /\ Hand = Victim THEN serial ELSE Hand
  <2>1. CASE at = Nil
    BY <1>10, <2>1 DEF Hand
  <2>2. CASE at # Nil /\ at = wr
    <3>1. evict
      BY <1>1, <1>2, <2>2 DEF Sound, Found
    <3> QED BY <1>1, <1>2, <1>9, <1>10, <2>2, <3>1 DEF Hand, Victim
  <2>3. CASE at # Nil /\ at # wr
    <3>1. Hand = item[at].n /\ Hand > 0 /\ Hand' = item[at].n
      BY <1>1, <1>9, <1>10, <2>3 DEF Hand
    <3>2. Victim # Hand
      BY <1>1, <1>2, <1>7, <2>3, <3>1 DEF Victim
    <3> QED BY <3>1, <3>2
  <2> QED BY <2>1, <2>2, <2>3
<1>12. Victim' = 0 /\ To' = To
  BY <1>10 DEF Victim, To
<1>13. serial \in 1 .. MaxEvents
  <2>1. item[wr].n < serial /\ serial <= MaxEvents
    BY <1>1, <1>2 DEF Inv, Sound, Numbered
  <2> QED BY <1>1, <1>2, <2>1, MaxEventsAssumption
<1>14. Outbox!Accept(serial, u)
  <2>1. UNCHANGED <<cpc, torn>>
    <3>1. torn \in BOOLEAN
      BY <1>1 DEF Typed, TypeOK
    <3>2. torn' = (torn \/ (Room.last = Nil /\ Room.start # wr))
      BY <1>1, LinkType
    <3>3. torn' = torn
      BY <3>1, <3>2, Zenon
    <3> QED BY <1>10, <3>3
  <2> QED BY <1>8, <1>11, <1>12, <2>1, Zenon
          DEF Outbox!Accept, Q, To, Hand, Victim
<1> QED BY <1>13, <1>14

\* Marking a record leaves the removal and the slot found as they are.
LEMMA MarkRest ==
  ASSUME Inv, ~torn, NEW i \in Slots,
         item' = [item EXCEPT ![i].flag = "processing"],
         UNCHANGED <<start, last, wr, evict, at, torn>>
  PROVE  List' = Mark(List, i) /\ UNCHANGED <<Hand, Victim, torn>>
<1>1. /\ wr \in Slots \cup {Nil} /\ at \in Slots \cup {Nil} /\ Typed
  BY Facts
<1>2. \A s \in Slots : item'[s].n = item[s].n
  BY <1>1 DEF Typed, TypeOK
<1> QED BY <1>1, <1>2 DEF List, Mark, Hand, Victim

\* The first event of a message is Open, the others are Collect.
LEMMA OutboxOpen ==
  ASSUME Inv, ~torn, GetFirst
  PROVE  \E k \in 1 .. Len(Q) : Outbox!Open(k)
<1>1. List \in Lists /\ IsChain(List) /\ Q = Events(List)
  BY Facts DEF Sound
<1>2. PICK i \in Slots : /\ Got(NoUser, i) /\ user' = item[i].user
                         /\ item' = [item EXCEPT ![i].flag = "processing"]
  BY DEF GetFirst
<1>3. /\ cpc = "idle" /\ cpc' = "collect"
      /\ UNCHANGED <<start, last, wr, evict, at, torn>>
  BY DEF GetFirst
<1>4. List' = Mark(List, i) /\ UNCHANGED <<Hand, Victim, torn>>
  BY <1>2, <1>3, MarkRest
<1>5. PICK k \in 1 .. Len(Q) :
        /\ Q[k].flag = "active" /\ Q[k].user = item[i].user
        /\ \A j \in 1 .. k - 1 : Q[j].flag # "active"
        /\ Events(Mark(List, i)) = [Q EXCEPT ![k].flag = "processing"]
  <2>1. \E k \in 1 .. Len(Events(List)) :
          /\ Events(List)[k].flag = "active"
          /\ Events(List)[k].user = item[i].user
          /\ NoUser = NoUser \/ Events(List)[k].user = NoUser
          /\ \A j \in 1 .. k - 1 :
               Events(List)[j].flag = "active"
                 => NoUser # NoUser /\ Events(List)[j].user # NoUser
          /\ Events(Mark(List, i))
               = [Events(List) EXCEPT ![k].flag = "processing"]
    BY <1>1, <1>2, EventsGot, Zenon
  <2> QED BY <1>1, <2>1, Zenon
<1>6. Q' = [Q EXCEPT ![k].flag = "processing"]
  <2>1. Q' = Events(List')
    BY <1>4 DEF Q
  <2> QED BY <1>4, <1>5, <2>1
<1>7. To' = Q[k].user
  BY <1>2, <1>3, <1>5 DEF To
<1>8. Outbox!Open(k)
  BY <1>3, <1>4, <1>5, <1>6, <1>7, Zenon
  DEF Outbox!Open, Outbox!Active, Q, To, Hand, Victim
<1> QED BY <1>8

\* An event that matches is collected into the open message.
LEMMA OutboxCollect ==
  ASSUME Inv, ~torn, GetMore
  PROVE  \E k \in 1 .. Len(Q) : Outbox!Collect(k)
<1>1. List \in Lists /\ IsChain(List) /\ Q = Events(List) /\ Sound
  BY Facts DEF Sound
<1>2. PICK i \in Slots : /\ Got(user, i)
                         /\ item' = [item EXCEPT ![i].flag = "processing"]
  BY DEF GetMore
<1>3. /\ cpc = "collect" /\ cpc' = cpc /\ user' = user
      /\ UNCHANGED <<start, last, wr, evict, at, torn>>
  BY DEF GetMore
<1>4. List' = Mark(List, i) /\ UNCHANGED <<Hand, Victim, torn>>
  BY <1>2, <1>3, MarkRest
<1>5. To = user /\ To' = user /\ user \in Users /\ user # NoUser
  BY <1>1, <1>3, NilAssumption DEF To, Sound, Addressed
<1>6. PICK k \in 1 .. Len(Q) :
        /\ Q[k].flag = "active" /\ Q[k].user = user
        /\ \A j \in 1 .. k - 1 : Q[j].flag = "active" => Q[j].user # user
        /\ Events(Mark(List, i)) = [Q EXCEPT ![k].flag = "processing"]
  <2>1. \E k \in 1 .. Len(Events(List)) :
          /\ Events(List)[k].flag = "active"
          /\ Events(List)[k].user = item[i].user
          /\ user = NoUser \/ Events(List)[k].user = user
          /\ \A j \in 1 .. k - 1 :
               Events(List)[j].flag = "active"
                 => user # NoUser /\ Events(List)[j].user # user
          /\ Events(Mark(List, i))
               = [Events(List) EXCEPT ![k].flag = "processing"]
    BY <1>1, <1>2, EventsGot, Zenon
  <2> QED BY <1>1, <1>5, <2>1, Zenon
<1>7. Q' = [Q EXCEPT ![k].flag = "processing"]
  <2>1. Q' = Events(List')
    BY <1>4 DEF Q
  <2> QED BY <1>4, <1>6, <2>1
<1>8. Outbox!Collect(k)
  BY <1>3, <1>4, <1>5, <1>6, <1>7, Zenon
  DEF Outbox!Collect, Outbox!Active, Q, To, Hand, Victim
<1> QED BY <1>8

\* A message is sent when it holds all events of its user.
LEMMA OutboxSend ==
  ASSUME Inv, ~torn, SmsSend
  PROVE  Outbox!Send
<1>1. /\ List \in Lists /\ Sound /\ Q = Events(List) /\ List.item = item
      /\ List.last = last
  BY Facts
<1>2. /\ cpc = "collect" /\ cpc' = "sent" /\ at' = start
      /\ UNCHANGED <<list, wr, evict, user, torn>>
      /\ \A i \in Slots : ~Got(user, i)
  BY DEF SmsSend
<1>3. List' = List /\ item' = item
  BY <1>2 DEF list, List
<1>4. last # Nil /\ user \in Users
  BY <1>1, <1>2 DEF Sound, Standing, Addressed
<1>5. Q # <<>> /\ Q[1].n = item[start].n /\ start \in Slots
  BY <1>4, FirstEvent
<1>6. Hand' = Q[1].n
  BY <1>2, <1>3, <1>5, NilAssumption DEF Hand
<1>7. UNCHANGED <<Q, To, Victim, torn>>
  BY <1>2, <1>3 DEF Q, To, Victim
<1>8. ASSUME NEW j \in 1 .. Len(Q), Q[j].flag = "active"
      PROVE  Q[j].user # To
  <2>1. PICK n, p : Chain(List, p, n)
    BY <1>1, <1>4 DEF Sound, IsChain
  <2>2. Len(Q) = n /\ \A k \in 1 .. n : Q[k] = Entry(item[p[k]])
    BY <1>1, <2>1, EventsOf
  <2>3. /\ j \in 1 .. n /\ item[p[j]].flag = "active"
        /\ Q[j].user = item[p[j]].user
    BY <1>8, <2>2 DEF Entry
  <2>4. item[p[j]].user # user
    BY <1>1, <1>2, <1>4, <2>1, <2>3, NoneGot
  <2> QED BY <1>2, <2>3, <2>4 DEF To
<1> QED BY <1>2, <1>5, <1>6, <1>7, <1>8, Zenon
        DEF Outbox!Send, Outbox!Active, Q, To, Hand, Victim

\* The record where event_buf_done_events() stands has a place in the queue.
LEMMA Place ==
  ASSUME Inv, ~torn, at # Nil
  PROVE  \E n, p : \E k \in 1 .. n :
           /\ Chain(List, p, n) /\ p[k] = at
           /\ Len(Q) = n /\ Q[k].n = Hand
           /\ n \in Nat /\ p \in [1 .. n -> Slots]
           /\ \A j \in 1 .. n : Q[j] = Entry(item[p[j]])
<1>1. /\ List \in Lists /\ Sound /\ Q = Events(List) /\ List.item = item
      /\ at \in Slots /\ item[at].flag # "free"
  BY Facts
<1>2. List.last # Nil
  BY <1>1 DEF Sound, IsChain
<1>3. PICK n, p : Chain(List, p, n)
  BY <1>1, <1>2 DEF Sound, IsChain
<1>4. PICK k \in 1 .. n : p[k] = at
  BY <1>1, <1>3 DEF Chain
<1>5. n \in Nat /\ p \in [1 .. n -> Slots]
  BY <1>3, SizeAssumption DEF Chain
<1>6. Len(Q) = n /\ \A j \in 1 .. n : Q[j] = Entry(item[p[j]])
  BY <1>1, <1>3, EventsOf
<1>7. Q[k].n = Hand
  BY <1>4, <1>6 DEF Entry, Hand
<1> QED BY <1>3, <1>4, <1>5, <1>6, <1>7

\* The removal goes on to the record it stops at.
LEMMA OutboxGoesOn ==
  ASSUME Inv, ~torn, NEW n \in Nat, NEW p \in [1 .. n -> Slots], Len(Q) = n,
         \A j \in 1 .. n : Q[j] = Entry(item[p[j]]),
         NEW h \in Nat \ {0}, NEW i, Stops(List, p, n, h, i), GoesOn(i),
         \A s \in Slots : item'[s].n = item[s].n,
         cpc # "idle", user' = user
  PROVE  Outbox!GoesOn(h)
<1>1. List.item = item /\ To = user
  BY DEF List, To
<1>2. \A m \in h .. n : /\ m \in 1 .. n /\ p[m] \in Slots
                        /\ Q[m].flag = item[p[m]].flag
                        /\ Q[m].n = item[p[m]].n
  BY DEF Entry
<1>3. CASE i = Nil /\ \A m \in h .. n : List.item[p[m]].flag # "processing"
  <2>1. at' = Nil /\ cpc' = "idle"
    BY <1>3 DEF GoesOn
  <2>2. Hand' = 0 /\ To' = NoUser
    BY <2>1 DEF Hand, To
  <2>3. \A m \in h .. Len(Q) : Q[m].flag # "processing"
    BY <1>1, <1>2, <1>3
  <2> QED BY <2>1, <2>2, <2>3, Zenon DEF Outbox!GoesOn, Q, To, Hand
<1>4. CASE \E m \in h .. n : /\ i = p[m]
                             /\ List.item[p[m]].flag = "processing"
                             /\ \A j \in h .. m - 1 :
                                  List.item[p[j]].flag # "processing"
  <2>1. PICK m \in h .. n : /\ i = p[m]
                            /\ List.item[p[m]].flag = "processing"
                            /\ \A j \in h .. m - 1 :
                                 List.item[p[j]].flag # "processing"
    BY <1>4
  <2>2. i \in Slots /\ i # Nil
    BY <1>2, <2>1, NilAssumption
  <2>3. at' = i /\ cpc' = "done"
    BY <2>2 DEF GoesOn
  <2>4. Hand' = Q[m].n
    BY <1>2, <2>1, <2>2, <2>3 DEF Hand
  <2>5. To' = To
    BY <1>1, <2>3 DEF To
  <2>6. Q[m].flag = "processing"
    BY <1>1, <1>2, <2>1
  <2>7. ASSUME NEW j \in h .. m - 1 PROVE Q[j].flag # "processing"
    <3>1. j \in h .. n
      BY <2>1
    <3> QED BY <1>1, <1>2, <2>1, <3>1
  <2>8. m \in h .. Len(Q)
    BY <2>1
  <2> QED BY <2>3, <2>4, <2>5, <2>6, <2>7, <2>8, Zenon
          DEF Outbox!GoesOn, Q, To, Hand
<1> QED BY <1>3, <1>4 DEF Stops

\* Setting out is Begin.
LEMMA OutboxBegin ==
  ASSUME Inv, ~torn, DoneBegin
  PROVE  \E k \in 1 .. Len(Q) : Outbox!Begin(k)
<1>1. /\ cpc = "sent" /\ GoesOn(Hit(List, at))
      /\ UNCHANGED <<list, wr, evict, user, torn>>
  BY DEF DoneBegin
<1>2. List \in Lists /\ Sound /\ at # Nil
  BY <1>1, Facts, NilAssumption DEF Sound, Standing
<1>3. PICK n, p : \E k \in 1 .. n :
           /\ Chain(List, p, n) /\ p[k] = at
           /\ Len(Q) = n /\ Q[k].n = Hand
           /\ n \in Nat /\ p \in [1 .. n -> Slots]
           /\ \A j \in 1 .. n : Q[j] = Entry(item[p[j]])
  BY <1>2, Place
<1>4. PICK k \in 1 .. n :
           /\ Chain(List, p, n) /\ p[k] = at
           /\ Len(Q) = n /\ Q[k].n = Hand
           /\ n \in Nat /\ p \in [1 .. n -> Slots]
           /\ \A j \in 1 .. n : Q[j] = Entry(item[p[j]])
  BY <1>3
<1>5. Stops(List, p, n, k, Hit(List, at))
  BY <1>2, <1>4, HitChain
<1>6. List' = List /\ item' = item
  BY <1>1 DEF list, List
<1>7. Outbox!GoesOn(k)
  <2>1. k \in Nat \ {0} /\ cpc # "idle" /\ user' = user
        /\ \A s \in Slots : item'[s].n = item[s].n
    BY <1>1, <1>4, <1>6
  <2> QED BY <1>1, <1>4, <1>5, <2>1, OutboxGoesOn
<1>8. UNCHANGED <<Q, Victim, torn>>
  BY <1>1, <1>6 DEF Q, Victim
<1>9. Outbox!Begin(k)
  BY <1>1, <1>4, <1>7, <1>8, Zenon DEF Outbox!Begin, Q, Hand, Victim
<1> QED BY <1>4, <1>9

\* Deleting a record is Remove.
LEMMA OutboxRemove ==
  ASSUME Inv, ~torn, DoneNext
  PROVE  \E k \in 1 .. Len(Q) : Outbox!Remove(k)
<1>1. /\ cpc = "done" /\ UNCHANGED <<wr, evict, user, torn>>
  BY DEF DoneNext
<1>2. /\ List \in Lists /\ Sound /\ at # Nil /\ at \in Slots /\ Typed
      /\ item[at].flag # "free" /\ List.item = item /\ Q = Events(List)
      /\ wr \in Slots \cup {Nil}
  BY <1>1, Facts, NilAssumption DEF Sound, Standing
<1>3. PICK n, p : \E k \in 1 .. n :
           /\ Chain(List, p, n) /\ p[k] = at
           /\ Len(Q) = n /\ Q[k].n = Hand
           /\ n \in Nat /\ p \in [1 .. n -> Slots]
           /\ \A j \in 1 .. n : Q[j] = Entry(item[p[j]])
  BY <1>2, Place
<1>4. PICK k \in 1 .. n :
           /\ Chain(List, p, n) /\ p[k] = at
           /\ Len(Q) = n /\ Q[k].n = Hand
           /\ n \in Nat /\ p \in [1 .. n -> Slots]
           /\ \A j \in 1 .. n : Q[j] = Entry(item[p[j]])
  BY <1>3
<1>5. /\ List' = Delete(List, at)
      /\ GoesOn(Hit(Delete(List, at), Delete(List, at).item[at].next))
  BY <1>2, DoneType
<1>6. \A s \in Slots : item'[s].n = item[s].n
  <2>1. \A s \in Slots : Delete(List, at).item[s].n = List.item[s].n
    BY <1>2, DeleteFact
  <2>2. List'.item = item'
    BY DEF List
  <2> QED BY <1>2, <1>5, <2>1, <2>2
<1>7. Outbox!GoesOn(k + 1)
  <2>1. Stops(List, p, n, k + 1,
              Hit(Delete(List, at), Delete(List, at).item[at].next))
    BY <1>2, <1>4, HitDelete
  <2>2. k + 1 \in Nat \ {0} /\ cpc # "idle" /\ user' = user
    BY <1>1, <1>4
  <2> QED BY <1>4, <1>5, <1>6, <2>1, <2>2, OutboxGoesOn
<1>8. Q' = Drop(Q, k)
  <2>1. Q' = Events(Delete(List, at))
    BY <1>1, <1>5 DEF Q
  <2>2. Events(Delete(List, p[k])) = Drop(Events(List), k)
    BY <1>2, <1>4, EventsDelete
  <2> QED BY <1>2, <1>4, <2>1, <2>2
<1>9. UNCHANGED <<Victim, torn>>
  BY <1>1, <1>2, <1>6 DEF Victim
<1>10. Outbox!Remove(k)
  BY <1>1, <1>4, <1>7, <1>8, <1>9, Zenon
  DEF Outbox!Remove, Drop, Q, Hand, Victim
<1> QED BY <1>4, <1>10

\* Every step of the list is a step of the outbox or changes nothing in it.
LEMMA OutboxNext ==
  ASSUME Inv, [Next]_vars
  PROVE  [Outbox!Next \/ torn']_<<Q, To, cpc, Hand, Victim, torn>>
<1> SUFFICES ASSUME ~torn'
             PROVE  [Outbox!Next]_<<Q, To, cpc, Hand, Victim, torn>>
  OBVIOUS
<1>1. ~torn
  <2>1. torn' = torn \/ (torn => torn')
    BY DEF Next, vars, event_buf_add_event, event_comm_task, AddFind, AddLink,
           GetFirst, NoMemory, GetMore, SmsSend, SmsFails,
           event_buf_done_events, DoneBegin, DoneNext
  <2> QED BY <2>1
<1>2. CASE AddFind
  BY <1>1, <1>2, OutboxFull DEF Outbox!Next
<1>3. CASE \E u \in Users : AddLink(u)
  BY <1>1, <1>3, OutboxAccept DEF Outbox!Next
<1>4. CASE GetFirst
  BY <1>1, <1>4, OutboxOpen DEF Outbox!Next, Q
<1>5. CASE GetMore
  BY <1>1, <1>5, OutboxCollect DEF Outbox!Next, Q
<1>6. CASE SmsSend
  BY <1>1, <1>6, OutboxSend DEF Outbox!Next
<1>7. CASE NoMemory \/ SmsFails
  <2>1. /\ cpc = "collect" /\ cpc' = "idle"
        /\ UNCHANGED <<list, wr, evict, at, torn>>
    BY <1>7 DEF NoMemory, SmsFails
  <2>2. List' = List /\ item' = item
    BY <2>1 DEF list, List
  <2>3. To' = NoUser /\ UNCHANGED <<Q, Hand, Victim, torn>>
    BY <2>1, <2>2 DEF Q, To, Hand, Victim
  <2>4. Outbox!Fail
    BY <2>1, <2>3, Zenon DEF Outbox!Fail, Q, To, Hand, Victim
  <2> QED BY <2>4 DEF Outbox!Next
<1>8. CASE DoneBegin
  BY <1>1, <1>8, OutboxBegin DEF Outbox!Next, Q
<1>9. CASE DoneNext
  BY <1>1, <1>9, OutboxRemove DEF Outbox!Next, Q
<1>10. CASE UNCHANGED vars
  BY <1>10 DEF vars, Q, List, To, Hand, Victim
<1> QED BY <1>2, <1>3, <1>4, <1>5, <1>6, <1>7, <1>8, <1>9, <1>10
        DEF Next, event_buf_add_event, event_comm_task, event_buf_done_events

\* The linked list behaves as the queue of SmsOutbox, for every size of the
\* buffer and however the tasks overlap: only a buffer found full gives an
\* event up, and its oldest; a message takes all events of its user in order;
\* delivery removes events of messages and no other, but one that takes the
\* place of such an event meanwhile.  It holds until the chain is torn.
THEOREM OutboxRefinement == Spec => IsOutbox
<1>1. Init => Inv /\ Outbox!Init
  BY InitInv, OutboxInit
<1>2. Inv /\ [Next]_vars
        => Inv' /\ [Outbox!Next \/ torn']_<<Q, To, cpc, Hand, Victim, torn>>
  BY NextInv, OutboxNext
<1> QED BY <1>1, <1>2, PTL
        DEF Spec, IsOutbox, Outbox!Spec, Outbox!vars, Q, To, Hand, Victim
=============================================================================
