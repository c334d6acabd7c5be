------------------------ MODULE LayoutEditingProofs ------------------------
(***************************************************************************)
(* What LayoutEditing keeps for any owners, blocks, widths and authored    *)
(* rows, and any number of edits.                                          *)
(*                                                                         *)
(* The argument: rows change in a few ways only (a block leaves its row,   *)
(* enters one, or gets a row of its own; a row is put in or dropped when   *)
(* empty; the blocks of a row change places), and each keeps every block   *)
(* in one row and every row id on one row.  What is stored is made of      *)
(* all blocks, what a drag previews of those its owner's draft shows, in   *)
(* rows that the hidden ones still have a place in; a commit puts those    *)
(* back.  The loops of the code are folds here, unrolled one step at a     *)
(* time: of each, a lemma says that there is a sequence of intermediate    *)
(* results, so that what one step keeps, the loop keeps.                   *)
(***************************************************************************)
EXTENDS LayoutEditing, WellFoundedInduction, FiniteSetTheorems, SequenceTheorems, TLAPS

\* Some natural numbers have a least one.
LEMMA Least ==
    ASSUME NEW T \in SUBSET Nat, T # {}
    PROVE  \E m \in T : \A j \in T : m <= j
<1>1. IsWellFoundedOn(OpToRel(<, Nat), Nat)
    BY NatLessThanWellFounded
<1>2. PICK m \in T : \A j \in T : ~(<<j, m>> \in OpToRel(<, Nat))
    BY <1>1, WFMin
<1>3. \A j \in T : ~(j < m)
    BY <1>2 DEF OpToRel
<1> QED
    BY <1>3

\* A chain of steps that can be taken from each place of a set to the next ends in the last.
LEMMA Steps ==
    ASSUME NEW n \in Nat, NEW J, NEW so, so[0] \in J[0],
           \A k \in 1..n : so[k - 1] \in J[k - 1] => so[k] \in J[k]
    PROVE  \A k \in 0..n : so[k] \in J[k]
<1> DEFINE T == {k \in Nat : k <= n /\ so[k] \notin J[k]}
<1>1. SUFFICES ASSUME T # {} PROVE FALSE
    OBVIOUS
<1>2. PICK k \in T : \A j \in T : k <= j
    BY <1>1, Least
<1>3. k \in Nat /\ k <= n /\ so[k] \notin J[k]
    OBVIOUS
<1>4. k # 0
    BY <1>3
<1>5. k - 1 \in Nat /\ k \in 1..n
    BY <1>3, <1>4
<1>6. so[k - 1] \in J[k - 1]
    BY <1>2, <1>5
<1> QED
    BY <1>3, <1>5, <1>6

\* Such a chain is there if each place can be reached from the one before it.
LEMMA Reached ==
    ASSUME NEW n \in Nat, NEW J, J[0] # {},
           \A k \in 1..n : J[k - 1] # {} => J[k] # {}
    PROVE  J[n] # {}
<1> DEFINE T == {k \in Nat : k <= n /\ J[k] = {}}
<1>1. SUFFICES ASSUME T # {} PROVE FALSE
    OBVIOUS
<1>2. PICK k \in T : \A j \in T : k <= j
    BY <1>1, Least
<1>3. k \in Nat /\ k <= n /\ J[k] = {}
    OBVIOUS
<1>4. k # 0
    BY <1>3
<1>5. k - 1 \in Nat /\ k \in 1..n
    BY <1>3, <1>4
<1>6. J[k - 1] # {}
    BY <1>2, <1>5
<1> QED
    BY <1>3, <1>5, <1>6

\* The greatest of some numbers up to a bound is one of them and at least each.
LEMMA MaxOf ==
    ASSUME NEW n \in Nat, NEW s \in SUBSET (1..n), s # {}
    PROVE  Max(s) \in s /\ \A y \in s : y <= Max(s)
<1> DEFINE T == {n - y : y \in s}
<1>1. PICK m \in T : \A j \in T : m <= j
  <2>1. \A y \in s : n - y \in Nat
    OBVIOUS
  <2>2. T \in SUBSET Nat
    BY <2>1
  <2>3. T # {}
    OBVIOUS
  <2> HIDE DEF T
  <2> QED
    BY <2>2, <2>3, Least
<1>2. PICK x \in s : m = n - x
    BY <1>1 DEF T
<1>3. \A y \in s : n - y \in T
    OBVIOUS
<1>4. \A y \in s : x >= y
  <2> HIDE DEF T
  <2>1. ASSUME NEW y \in s PROVE x >= y
    <3>1. n - y \in T
      BY <1>3
    <3>2. m <= n - y
      BY <1>1, <3>1
    <3> QED
      BY <1>2, <3>2
  <2> QED
    BY <2>1
<1> QED
    BY <1>4 DEF Max

\* The least of some numbers up to a bound, likewise.
LEMMA MinOf ==
    ASSUME NEW n \in Nat, NEW s \in SUBSET (1..n), s # {}
    PROVE  Min(s) \in s /\ \A y \in s : Min(s) <= y
<1>1. s \in SUBSET Nat
    OBVIOUS
<1>2. PICK m \in s : \A j \in s : m <= j
    BY <1>1, Least
<1> QED
    BY <1>2 DEF Min

\* What a fold over the numbers 1 to n computes from each set of them.
Folds(iter, n, start, step) ==
    iter = [s \in SUBSET (1..n) |->
               IF s = {} THEN start ELSE step[Max(s)][iter[s \ {Max(s)}]]]

\* There is such a function when the steps stay in a set.
LEMMA FoldExists ==
    ASSUME NEW n \in Nat, NEW D, NEW start \in D, NEW step,
           \A k \in 1..n : \A x \in D : step[k][x] \in D
    PROVE  \E iter : Folds(iter, n, start, step) /\ iter \in [SUBSET (1..n) -> D]
<1> DEFINE J == [k \in 0..n |-> {iter \in [SUBSET (1..k) -> D] : Folds(iter, k, start, step)}]
<1>1. J[0] # {}
  <2> DEFINE iter == [s \in SUBSET (1..0) |-> start]
  <2>1. \A s \in SUBSET (1..0) : s = {}
    OBVIOUS
  <2>2. iter \in [SUBSET (1..0) -> D]
    OBVIOUS
  <2>3. Folds(iter, 0, start, step)
    BY <2>1 DEF Folds
  <2> QED
    BY <2>2, <2>3
<1>2. ASSUME NEW k \in 1..n, J[k - 1] # {}
      PROVE  J[k] # {}
  <2>0. k - 1 \in 0..n /\ k \in 0..n
    OBVIOUS
  <2>1. PICK g \in [SUBSET (1..(k - 1)) -> D] : Folds(g, k - 1, start, step)
    BY <1>2, <2>0
  <2> DEFINE iter == [s \in SUBSET (1..k) |-> IF k \in s THEN step[k][g[s \ {k}]] ELSE g[s]]
  <2>2. \A s \in SUBSET (1..k) : s \ {k} \in SUBSET (1..(k - 1))
    OBVIOUS
  <2>3. \A s \in SUBSET (1..k) : k \notin s => s \in SUBSET (1..(k - 1))
    OBVIOUS
  <2>4. iter \in [SUBSET (1..k) -> D]
    BY <2>2, <2>3
  <2>5. ASSUME NEW s \in SUBSET (1..k)
        PROVE  iter[s] = IF s = {} THEN start ELSE step[Max(s)][iter[s \ {Max(s)}]]
    <3>1. CASE k \in s
      <4>1. Max(s) = k
        <5>1. k \in Nat /\ s \in SUBSET (1..k) /\ s # {}
          BY <3>1
        <5>2. Max(s) \in s /\ \A y \in s : y <= Max(s)
          BY <5>1, MaxOf
        <5> QED
          <6>1. Max(s) \in 1..k
            BY <5>2
          <6> QED
            BY <3>1, <5>2, <6>1
      <4>2. iter[s \ {k}] = g[s \ {k}]
        BY <2>2
      <4> QED
        BY <3>1, <4>1, <4>2
    <3>2. CASE s = {}
      <4>1. iter[s] = g[s]
        BY <3>2
      <4>2. {} \in SUBSET (1..(k - 1))
        OBVIOUS
      <4>3. g[{}] = start
        BY <2>1, <4>2 DEF Folds
      <4> QED
        BY <3>2, <4>1, <4>3
    <3>3. CASE k \notin s /\ s # {}
      <4>1. s \in SUBSET (1..(k - 1))
        BY <3>3
      <4>2. Max(s) \in s
        BY <3>3, MaxOf, k \in Nat
      <4>3. g[s] = step[Max(s)][g[s \ {Max(s)}]]
        BY <2>1, <3>3, <4>1 DEF Folds
      <4>4. iter[s] = g[s] /\ iter[s \ {Max(s)}] = g[s \ {Max(s)}]
        BY <3>3, <4>1
      <4> QED
        BY <3>3, <4>3, <4>4
    <3> QED
      BY <3>1, <3>2, <3>3
  <2>6. Folds(iter, k, start, step)
    <3> HIDE DEF iter
    <3>1. iter = [s \in SUBSET (1..k) |-> iter[s]]
      BY <2>4
    <3> QED
      BY <2>5, <3>1 DEF Folds
  <2>7. iter \in J[k]
    BY <2>0, <2>4, <2>6
  <2> QED
    BY <2>7
<1> HIDE DEF J
<1>3. J[n] # {}
    BY <1>1, <1>2, Reached
<1>4. J[n] = {iter \in [SUBSET (1..n) -> D] : Folds(iter, n, start, step)}
    BY DEF J
<1> QED
    BY <1>3, <1>4

\* The numbers from 1 up, one more at a time.
LEMMA UpTo ==
    /\ 1..0 = {}
    /\ \A k \in Nat \ {0} : Max(1..k) = k /\ (1..k) \ {k} = 1..(k - 1) /\ 1..k # {}
<1>1. ASSUME NEW k \in Nat \ {0}
      PROVE  Max(1..k) = k
  <2>1. Max(1..k) \in 1..k /\ \A y \in 1..k : y <= Max(1..k)
    BY MaxOf, 1..k # {}
  <2> QED
    BY <2>1
<1>2. ASSUME NEW k \in Nat \ {0}
      PROVE  (1..k) \ {k} = 1..(k - 1) /\ 1..k # {}
    OBVIOUS
<1>3. 1..0 = {}
    OBVIOUS
<1> QED
    BY <1>1, <1>2, <1>3

\* What it computes from the numbers up to k, one more number at a time.
Climbs(so, iter, n, start, step) ==
    /\ so[0] = start
    /\ \A k \in 1..n : so[k] = step[k][so[k - 1]]
    /\ iter[1..n] = so[n]

\* A fold over the numbers 1 to n takes them in their order.
LEMMA FoldClimbs ==
    ASSUME NEW n \in Nat, NEW D, NEW start \in D, NEW step,
           \A k \in 1..n : \A x \in D : step[k][x] \in D,
           NEW iter, Folds(iter, n, start, step)
    PROVE  \E so \in [0..n -> D] : Climbs(so, iter, n, start, step)
<1> DEFINE so == [k \in 0..n |-> iter[1..k]]
           J == [k \in 0..n |-> D]
<1>1. so[0] = start /\ so[n] = iter[1..n]
  <2>1. 0 \in 0..n /\ n \in 0..n /\ {} \in SUBSET (1..n)
    OBVIOUS
  <2>2. iter[{}] = start
    BY <2>1 DEF Folds
  <2> QED
    BY <2>1, <2>2, UpTo
<1>2. ASSUME NEW k \in 1..n
      PROVE  so[k] = step[k][so[k - 1]]
  <2>1. 1..k \in SUBSET (1..n) /\ k - 1 \in 0..n /\ k \in 0..n /\ k \in Nat \ {0}
    OBVIOUS
  <2>2. Max(1..k) = k /\ (1..k) \ {k} = 1..(k - 1) /\ 1..k # {}
    BY <2>1, UpTo
  <2>3. so[k] = iter[1..k] /\ so[k - 1] = iter[1..(k - 1)]
    BY <2>1
  <2> HIDE DEF so
  <2>4. iter[1..k] = step[Max(1..k)][iter[(1..k) \ {Max(1..k)}]]
    BY <2>1, <2>2 DEF Folds
  <2> QED
    BY <2>2, <2>3, <2>4
<1>3. so = [k \in 0..n |-> so[k]]
    OBVIOUS
<1> HIDE DEF so
<1>4. so[0] \in J[0] /\ \A k \in 1..n : so[k - 1] \in J[k - 1] => so[k] \in J[k]
    BY <1>1, <1>2
<1>5. \A k \in 0..n : so[k] \in J[k]
  <2> HIDE DEF J
  <2> QED
    BY <1>4, Steps
<1>6. so \in [0..n -> D]
    BY <1>3, <1>5
<1> QED
    BY <1>1, <1>2, <1>6 DEF Climbs

-----------------------------------------------------------------------------
\* A sequence with one more at its end.
LEMMA Appended ==
    ASSUME NEW X, NEW s \in Seq(X), NEW e \in X
    PROVE  /\ Append(s, e) \in Seq(X)
           /\ ToSet(Append(s, e)) = ToSet(s) \cup {e}
           /\ IsInjective(s) /\ e \notin ToSet(s) => IsInjective(Append(s, e))
<1> DEFINE t == Append(s, e)
           n == Len(s)
<1>1. /\ t \in Seq(X) /\ n \in Nat /\ DOMAIN s = 1..n /\ DOMAIN t = 1..(n + 1)
      /\ t[n + 1] = e /\ \A i \in 1..n : t[i] = s[i]
    BY AppendProperties
<1> HIDE DEF t, n
<1>2. ToSet(t) = ToSet(s) \cup {e}
  <2>1. \A x \in ToSet(t) : x \in ToSet(s) \cup {e}
    BY <1>1 DEF ToSet
  <2>2. \A x \in ToSet(s) : x \in ToSet(t)
    BY <1>1 DEF ToSet
  <2>3. e \in ToSet(t)
    BY <1>1 DEF ToSet
  <2> QED
    BY <2>1, <2>2, <2>3
<1>3. ASSUME IsInjective(s), e \notin ToSet(s)
      PROVE  IsInjective(t)
  <2>1. \A i \in 1..n : s[i] # e
    BY <1>1, <1>3 DEF ToSet
  <2>2. ASSUME NEW i \in 1..(n + 1), NEW j \in 1..(n + 1), t[i] = t[j]
        PROVE  i = j
    <3>1. CASE i \in 1..n /\ j \in 1..n
      BY <1>1, <1>3, <2>2, <3>1 DEF IsInjective
    <3>2. CASE i = n + 1 \/ j = n + 1
      BY <1>1, <2>1, <2>2, <3>2
    <3> QED
      BY <1>1, <3>1, <3>2
  <2> QED
    BY <1>1, <2>2 DEF IsInjective
<1> QED
    BY <1>1, <1>2, <1>3 DEF t

\* A sequence with one more in some place of it.
LEMMA Inserted ==
    ASSUME NEW X, NEW s \in Seq(X), NEW i \in 1..(Len(s) + 1), NEW e \in X
    PROVE  /\ InsertAt(s, i, e) \in Seq(X)
           /\ ToSet(InsertAt(s, i, e)) = ToSet(s) \cup {e}
           /\ Len(InsertAt(s, i, e)) = Len(s) + 1 /\ InsertAt(s, i, e)[i] = e
           /\ IsInjective(s) /\ e \notin ToSet(s) => IsInjective(InsertAt(s, i, e))
<1> DEFINE t == InsertAt(s, i, e)
           n == Len(s)
           head == SubSeq(s, 1, i - 1)
           tail == SubSeq(s, i, Len(s))
<1>1. n \in Nat /\ DOMAIN s = 1..n /\ i \in 1..(n + 1) /\ \A k \in 1..n : s[k] \in X
    OBVIOUS
<1>2. head \in Seq(X) /\ Len(head) = i - 1 /\ \A k \in 1..(i - 1) : head[k] = s[k]
  <2>1. \A k \in 1..(i - 1) : s[k] \in X
    BY <1>1
  <2>2. /\ SubSeq(s, 1, i - 1) \in Seq(X)
        /\ Len(SubSeq(s, 1, i - 1)) = IF 1 <= i - 1 THEN i - 1 - 1 + 1 ELSE 0
        /\ \A k \in 1..(i - 1 - 1 + 1) : SubSeq(s, 1, i - 1)[k] = s[1 + k - 1]
    BY <2>1, SubSeqProperties, 1 \in Int, i - 1 \in Int
  <2> QED
    BY <1>1, <2>2
<1>3. tail \in Seq(X) /\ Len(tail) = n - i + 1 /\ \A k \in 1..(n - i + 1) : tail[k] = s[i + k - 1]
  <2>1. \A k \in i..n : s[k] \in X
    BY <1>1
  <2>2. /\ SubSeq(s, i, n) \in Seq(X)
        /\ Len(SubSeq(s, i, n)) = IF i <= n THEN n - i + 1 ELSE 0
        /\ \A k \in 1..(n - i + 1) : SubSeq(s, i, n)[k] = s[i + k - 1]
    BY <2>1, SubSeqProperties, n \in Int, i \in Int
  <2> QED
    BY <1>1, <2>2
<1> HIDE DEF head, tail, n
<1>4. /\ head \o <<e>> \in Seq(X) /\ Len(head \o <<e>>) = i
      /\ \A k \in 1..i : (head \o <<e>>)[k] = IF k < i THEN s[k] ELSE e
  <2>1. <<e>> \in Seq(X) /\ Len(<<e>>) = 1 /\ <<e>>[1] = e
    OBVIOUS
  <2>2. /\ head \o <<e>> \in Seq(X) /\ Len(head \o <<e>>) = Len(head) + Len(<<e>>)
        /\ \A k \in 1..(Len(head) + Len(<<e>>)) :
              (head \o <<e>>)[k] = IF k <= Len(head) THEN head[k] ELSE <<e>>[k - Len(head)]
    BY <1>2, <2>1, ConcatProperties
  <2>3. Len(head) + Len(<<e>>) = i
    BY <1>1, <1>2, <2>1
  <2>4. ASSUME NEW k \in 1..i
        PROVE  (head \o <<e>>)[k] = IF k < i THEN s[k] ELSE e
    <3>1. (head \o <<e>>)[k] = IF k <= Len(head) THEN head[k] ELSE <<e>>[k - Len(head)]
      BY <2>2, <2>3
    <3>2. (k <= Len(head) <=> k < i) /\ (~(k < i) => k - Len(head) = 1)
      BY <1>1, <1>2, <2>1, <2>3
    <3> QED
      BY <1>2, <2>1, <3>1, <3>2
  <2> QED
    BY <2>2, <2>3, <2>4
<1>5. /\ t \in Seq(X) /\ Len(t) = n + 1 /\ DOMAIN t = 1..(n + 1)
      /\ \A k \in 1..(n + 1) : t[k] = IF k < i THEN s[k] ELSE IF k = i THEN e ELSE s[k - 1]
  <2> DEFINE u == head \o <<e>>
  <2>0. u \in Seq(X)
    BY <1>4
  <2> HIDE DEF u
  <2>1. /\ u \o tail \in Seq(X) /\ Len(u \o tail) = Len(u) + Len(tail)
        /\ \A k \in 1..(Len(u) + Len(tail)) :
              (u \o tail)[k] = IF k <= Len(u) THEN u[k] ELSE tail[k - Len(u)]
    BY <1>3, <2>0, ConcatProperties
  <2>2. t = u \o tail
    BY DEF InsertAt, u, head, tail
  <2>3. \A k \in (i + 1)..(n + 1) : tail[k - i] = s[k - 1]
    <3> TAKE k \in (i + 1)..(n + 1)
    <3>1. k - i \in 1..(n - i + 1) /\ i + (k - i) - 1 = k - 1
      BY <1>1
    <3> QED
      BY <1>3, <3>1
  <2>4. \A k \in 1..i : u[k] = IF k < i THEN s[k] ELSE e
    BY <1>4 DEF u
  <2>5. Len(u) = i
    BY <1>4 DEF u
  <2>6. Len(t) = n + 1
    BY <1>1, <1>3, <2>1, <2>2, <2>5
  <2>7. ASSUME NEW k \in 1..(n + 1)
        PROVE  t[k] = IF k < i THEN s[k] ELSE IF k = i THEN e ELSE s[k - 1]
    <3>1. CASE k <= i
      <4>1. k \in 1..i /\ k \in 1..(Len(u) + Len(tail))
        BY <1>1, <1>3, <2>5, <3>1
      <4>2. t[k] = u[k]
        BY <2>1, <2>2, <2>5, <4>1, <3>1
      <4> QED
        BY <2>4, <4>1, <4>2, <3>1
    <3>2. CASE k > i
      <4>1. k \in (i + 1)..(n + 1) /\ k \in 1..(Len(u) + Len(tail)) /\ ~(k <= i) /\ ~(k < i) /\ k # i
        BY <1>1, <1>3, <2>5, <3>2
      <4>2. t[k] = tail[k - i]
        BY <2>1, <2>2, <2>5, <4>1
      <4> QED
        BY <2>3, <4>1, <4>2
    <3> QED
      BY <1>1, <3>1, <3>2
  <2>8. t \in Seq(X)
    BY <2>1, <2>2
  <2>9. DOMAIN t = 1..(n + 1)
    BY <2>6, <2>8, LenProperties
  <2> QED
    BY <2>6, <2>7, <2>8, <2>9
<1> HIDE DEF t
<1>6. t[i] = e
    BY <1>1, <1>5
<1>7. ToSet(t) = ToSet(s) \cup {e}
  <2>1. ASSUME NEW k \in 1..(n + 1) PROVE t[k] \in ToSet(s) \cup {e}
    <3>1. CASE k < i
      BY <1>1, <1>5, <3>1 DEF ToSet
    <3>2. CASE k = i
      BY <1>6, <3>2
    <3>3. CASE k > i
      <4>1. k - 1 \in 1..n /\ t[k] = s[k - 1]
        BY <1>1, <1>5, <3>3
      <4> QED
        BY <1>1, <4>1 DEF ToSet
    <3> QED
      BY <1>1, <3>1, <3>2, <3>3
  <2>2. ASSUME NEW k \in 1..n PROVE s[k] \in ToSet(t)
    <3>1. CASE k < i
      <4>1. k \in 1..(n + 1) /\ t[k] = s[k]
        BY <1>1, <1>5, <3>1
      <4> QED
        BY <1>5, <4>1 DEF ToSet
    <3>2. CASE k >= i
      <4>1. k + 1 \in 1..(n + 1) /\ t[k + 1] = s[k]
        BY <1>1, <1>5, <3>2
      <4> QED
        BY <1>5, <4>1 DEF ToSet
    <3> QED
      BY <1>1, <3>1, <3>2
  <2>3. e \in ToSet(t)
    BY <1>1, <1>5, <1>6 DEF ToSet
  <2> QED
    BY <1>1, <1>5, <2>1, <2>2, <2>3 DEF ToSet
<1>8. ASSUME IsInjective(s), e \notin ToSet(s)
      PROVE  IsInjective(t)
  <2>1. \A k \in 1..n : s[k] # e
    BY <1>1, <1>8 DEF ToSet
  <2> DEFINE Was(k) == IF k < i THEN k ELSE k - 1
  <2>2. \A k \in 1..(n + 1) : k # i => Was(k) \in 1..n /\ t[k] = s[Was(k)]
    BY <1>1, <1>5
  <2>3. ASSUME NEW j \in 1..(n + 1), NEW k \in 1..(n + 1), t[j] = t[k]
        PROVE  j = k
    <3>1. CASE j # i /\ k # i
      <4>1. Was(j) = Was(k)
        <5> HIDE DEF Was
        <5> QED
          BY <1>1, <1>8, <2>2, <2>3, <3>1 DEF IsInjective
      <4> QED
        BY <1>1, <3>1, <4>1
    <3>2. CASE j = i \/ k = i
      <4> HIDE DEF Was
      <4> QED
        BY <1>6, <2>1, <2>2, <2>3, <3>2
    <3> QED
      BY <3>1, <3>2
  <2> QED
    BY <1>5, <2>3 DEF IsInjective
<1> QED
    BY <1>5, <1>6, <1>7, <1>8 DEF t, n

\* The members of a sequence that are in a set: no more, no fewer, none twice.
LEMMA AmongIs ==
    ASSUME NEW X, NEW s \in Seq(X), NEW S
    PROVE  /\ Among(s, S) \in Seq(X)
           /\ ToSet(Among(s, S)) = ToSet(s) \cap S
           /\ IsInjective(s) => IsInjective(Among(s, S))
<1> DEFINE n == Len(s)
           Step(x, k) == IF s[k] \in S THEN Append(x, s[k]) ELSE x
           Upto(f, m) == f = [k \in 0..m |-> IF k = 0 THEN <<>> ELSE Step(f[k - 1], k)]
           J == [m \in 0..n |-> {f \in [0..m -> Seq(X)] : Upto(f, m)}]
           so == CHOOSE f : Upto(f, n)
<1>1. n \in Nat /\ DOMAIN s = 1..n /\ \A k \in 1..n : s[k] \in X
    OBVIOUS
<1>2. Among(s, S) = so[n]
    BY DEF Among
<1>3. \A x \in Seq(X), k \in 1..n : Step(x, k) \in Seq(X)
    BY <1>1
<1>4. J[0] # {}
  <2> DEFINE f == [k \in 0..0 |-> <<>>]
  <2>1. f \in [0..0 -> Seq(X)]
    OBVIOUS
  <2>4. Upto(f, 0)
    <3> HIDE DEF Step
    <3> QED
      OBVIOUS
  <2>2. 0 \in 0..n
    BY <1>1
  <2> HIDE DEF f, Upto, n
  <2>3. J[0] = {g \in [0..0 -> Seq(X)] : Upto(g, 0)}
    BY <2>2
  <2> HIDE DEF J
  <2> QED
    BY <2>1, <2>3, <2>4
<1>5. ASSUME NEW m \in 1..n, J[m - 1] # {}
      PROVE  J[m] # {}
  <2>1. m \in Nat /\ m - 1 \in Nat /\ m - 1 \in 0..n /\ m \in 0..n
    BY <1>1
  <2>2. PICK g \in [0..(m - 1) -> Seq(X)] : Upto(g, m - 1)
    <3> HIDE DEF Upto
    <3> QED
      BY <1>5, <2>1
  <2> DEFINE f == [k \in 0..m |-> IF k = m THEN Step(g[m - 1], m) ELSE g[k]]
  <2>3. f \in [0..m -> Seq(X)]
    <3>1. g[m - 1] \in Seq(X)
      BY <2>1
    <3>2. Step(g[m - 1], m) \in Seq(X)
      BY <1>3, <3>1
    <3>3. \A k \in 0..m : k # m => k \in 0..(m - 1)
      BY <2>1
    <3> HIDE DEF Step, n
    <3> QED
      BY <3>2, <3>3
  <2>4. Upto(f, m)
    <3> HIDE DEF Step, n
    <3>1. \A k \in 0..m : f[k] = IF k = 0 THEN <<>> ELSE Step(f[k - 1], k)
      <4>1. \A k \in 0..(m - 1) : f[k] = g[k]
        BY <2>1
      <4>2. \A k \in 0..(m - 1) : g[k] = IF k = 0 THEN <<>> ELSE Step(g[k - 1], k)
        BY <2>2
      <4>3. \A k \in 1..(m - 1) : k - 1 \in 0..(m - 1)
        BY <2>1
      <4>4. f[m] = Step(f[m - 1], m)
        BY <2>1, <4>1
      <4> HIDE DEF f
      <4> QED
        BY <2>1, <4>1, <4>2, <4>3, <4>4
    <3> QED
      BY <3>1
  <2> HIDE DEF f, Upto
  <2> QED
    BY <2>1, <2>3, <2>4
<1>6. Upto(so, n)
  <2>1. J[n] # {}
    <3> HIDE DEF J, n
    <3> QED
      BY <1>1, <1>4, <1>5, Reached
  <2>2. \E f : Upto(f, n)
    <3> HIDE DEF Upto
    <3> QED
      BY <1>1, <2>1
  <2> HIDE DEF Upto
  <2> QED
    BY <2>2
<1>7. so[0] = <<>> /\ \A k \in 1..n : so[k] = Step(so[k - 1], k)
  <2> HIDE DEF so, Step, n
  <2>1. \A k \in 0..n : so[k] = IF k = 0 THEN <<>> ELSE Step(so[k - 1], k)
    BY <1>6
  <2>2. \A k \in 1..n : k \in 0..n /\ k # 0
    BY <1>1
  <2> QED
    BY <1>1, <2>1, <2>2
<1> DEFINE InSet(k) == {s[i] : i \in {j \in 1..k : s[j] \in S}}
           I == [k \in 0..n |-> {r \in Seq(X) : ToSet(r) = InSet(k)
                                     /\ (IsInjective(s) => IsInjective(r))}]
<1>8. so[0] \in I[0]
  <2>1. <<>> \in Seq(X) /\ ToSet(<<>>) = {} /\ IsInjective(<<>>)
    BY DEF ToSet, IsInjective
  <2>2. InSet(0) = {}
    OBVIOUS
  <2>3. 0 \in 0..n
    BY <1>1
  <2> HIDE DEF so, InSet, Step, n
  <2>4. <<>> \in {r \in Seq(X) : ToSet(r) = InSet(0) /\ (IsInjective(s) => IsInjective(r))}
    BY <2>1, <2>2
  <2>5. I[0] = {r \in Seq(X) : ToSet(r) = InSet(0) /\ (IsInjective(s) => IsInjective(r))}
    BY <2>3
  <2> HIDE DEF I
  <2> QED
    BY <1>7, <2>4, <2>5
<1>9. ASSUME NEW k \in 1..n, so[k - 1] \in I[k - 1]
      PROVE  so[k] \in I[k]
  <2> DEFINE r == so[k - 1]
  <2>0. k - 1 \in 0..n /\ k \in 0..n /\ k \in Nat
    BY <1>1
  <2>1. r \in Seq(X) /\ ToSet(r) = InSet(k - 1) /\ (IsInjective(s) => IsInjective(r))
    <3> HIDE DEF so, InSet, n
    <3> QED
      BY <1>9, <2>0
  <2>2. so[k] = Step(r, k)
    BY <1>7
  <2> HIDE DEF r, so
  <2>3. CASE s[k] \in S
    <3>1. so[k] = Append(r, s[k])
      BY <2>2, <2>3
    <3>2. InSet(k) = InSet(k - 1) \cup {s[k]}
      <4>1. {j \in 1..k : s[j] \in S} = {j \in 1..(k - 1) : s[j] \in S} \cup {k}
        BY <2>0, <2>3
      <4> QED
        BY <4>1
    <3>3. IsInjective(s) => s[k] \notin InSet(k - 1)
      BY <1>1, <2>0 DEF IsInjective
    <3> HIDE DEF InSet, n
    <3>4. so[k] \in Seq(X) /\ ToSet(so[k]) = InSet(k) /\ (IsInjective(s) => IsInjective(so[k]))
      BY <1>1, <2>1, <3>1, <3>2, <3>3, Appended
    <3> QED
      BY <2>0, <3>4
  <2>4. CASE s[k] \notin S
    <3>1. so[k] = r
      BY <2>2, <2>4
    <3>2. InSet(k) = InSet(k - 1)
      <4>1. {j \in 1..k : s[j] \in S} = {j \in 1..(k - 1) : s[j] \in S}
        BY <2>0, <2>4
      <4> QED
        BY <4>1
    <3> HIDE DEF InSet, n
    <3> QED
      BY <2>0, <2>1, <3>1, <3>2
  <2> QED
    BY <2>3, <2>4
<1>10. so[n] \in I[n]
  <2>1. \A k \in 0..n : so[k] \in I[k]
    <3> HIDE DEF so, I, n
    <3> QED
      BY <1>1, <1>8, <1>9, Steps
  <2> HIDE DEF so, I, n
  <2> QED
    BY <1>1, <2>1
<1>11. InSet(n) = ToSet(s) \cap S
    BY <1>1 DEF ToSet
<1> HIDE DEF so, InSet, n
<1> QED
    BY <1>1, <1>2, <1>10, <1>11

\* Two sequences, one after the other.
LEMMA Joined ==
    ASSUME NEW X, NEW s \in Seq(X), NEW t \in Seq(X)
    PROVE  /\ s \o t \in Seq(X)
           /\ ToSet(s \o t) = ToSet(s) \cup ToSet(t)
           /\ IsInjective(s) /\ IsInjective(t) /\ ToSet(s) \cap ToSet(t) = {}
                 => IsInjective(s \o t)
<1> DEFINE u == s \o t
           m == Len(s)
           n == Len(t)
<1>1. /\ m \in Nat /\ n \in Nat /\ DOMAIN s = 1..m /\ DOMAIN t = 1..n
      /\ u \in Seq(X) /\ DOMAIN u = 1..(m + n)
      /\ \A k \in 1..(m + n) : u[k] = IF k <= m THEN s[k] ELSE t[k - m]
    BY ConcatProperties
<1> HIDE DEF u, m, n
<1>2. \A k \in 1..m : k \in 1..(m + n) /\ u[k] = s[k]
    BY <1>1
<1>3. \A k \in 1..n : k + m \in 1..(m + n) /\ u[k + m] = t[k]
    BY <1>1
<1>4. \A k \in 1..(m + n) : \/ k \in 1..m /\ u[k] = s[k]
                            \/ k - m \in 1..n /\ k > m /\ u[k] = t[k - m]
    BY <1>1
<1>5. ToSet(u) = ToSet(s) \cup ToSet(t)
  <2>1. \A k \in 1..(m + n) : u[k] \in ToSet(s) \cup ToSet(t)
    BY <1>1, <1>4 DEF ToSet
  <2>2. \A k \in 1..m : s[k] \in ToSet(u)
    BY <1>1, <1>2 DEF ToSet
  <2>3. \A k \in 1..n : t[k] \in ToSet(u)
    BY <1>1, <1>3 DEF ToSet
  <2> QED
    BY <1>1, <2>1, <2>2, <2>3 DEF ToSet
<1>6. ASSUME IsInjective(s), IsInjective(t), ToSet(s) \cap ToSet(t) = {}
      PROVE  IsInjective(u)
  <2>1. \A j \in 1..m, k \in 1..n : s[j] # t[k]
    BY <1>1, <1>6 DEF ToSet
  <2>2. ASSUME NEW j \in 1..(m + n), NEW k \in 1..(m + n), u[j] = u[k]
        PROVE  j = k
    <3>1. CASE j \in 1..m /\ k \in 1..m
      BY <1>1, <1>2, <1>6, <2>2, <3>1 DEF IsInjective
    <3>2. CASE j > m /\ k > m
      <4>1. j - m \in 1..n /\ k - m \in 1..n /\ t[j - m] = t[k - m]
        BY <1>1, <2>2, <3>2
      <4>2. j - m = k - m
        BY <1>1, <1>6, <4>1 DEF IsInjective
      <4> QED
        BY <1>1, <4>2
    <3>3. CASE j \in 1..m /\ k > m
      <4>1. u[j] = s[j] /\ k - m \in 1..n /\ u[k] = t[k - m]
        BY <1>1, <3>3
      <4> QED
        BY <2>1, <2>2, <3>3, <4>1
    <3>4. CASE j > m /\ k \in 1..m
      <4>1. u[k] = s[k] /\ j - m \in 1..n /\ u[j] = t[j - m]
        BY <1>1, <3>4
      <4> QED
        BY <2>1, <2>2, <3>4, <4>1
    <3> QED
      BY <1>1, <3>1, <3>2, <3>3, <3>4
  <2> QED
    BY <1>1, <2>2 DEF IsInjective
<1> QED
    BY <1>1, <1>5, <1>6 DEF u

-----------------------------------------------------------------------------
(* Rows.                                                                   *)

RowId == RowIds(AuthoredRows) \cup (Blocks \X Nat)
Row == [id : RowId, items : Seq(Blocks)]
Rows == Seq(Row)

\* What rows are made of.
LEMMA RowsTyped ==
    ASSUME NEW rows \in Rows
    PROVE  /\ Len(rows) \in Nat /\ DOMAIN rows = 1..Len(rows)
           /\ \A i \in DOMAIN rows :
                 /\ rows[i] \in Row /\ rows[i] = [id |-> rows[i].id, items |-> rows[i].items]
                 /\ rows[i].id \in RowId /\ rows[i].items \in Seq(Blocks)
                 /\ ToSet(rows[i].items) \subseteq Blocks
<1>1. Len(rows) \in Nat /\ DOMAIN rows = 1..Len(rows) /\ \A i \in DOMAIN rows : rows[i] \in Row
    BY DEF Rows
<1>2. \A row \in Row : /\ row = [id |-> row.id, items |-> row.items]
                       /\ row.id \in RowId /\ row.items \in Seq(Blocks)
                       /\ ToSet(row.items) \subseteq Blocks
    BY DEF Row, ToSet
<1> QED
    BY <1>1, <1>2

\* All blocks of some rows in a sequence: those the rows hold, each once.
LEMMA BlocksInOnce ==
    ASSUME NEW rows \in Rows, NEW S, Partition(rows, S)
    PROVE  BlocksIn(rows) \in Seq(Blocks) /\ ToSet(BlocksIn(rows)) = S /\ IsInjective(BlocksIn(rows))
<1> DEFINE n == Len(rows)
           ss == [i \in DOMAIN rows |-> rows[i].items]
           Upto(f, m) == f = [i \in 1..m |-> IF i = 1 THEN ss[i] ELSE f[i - 1] \o ss[i]]
           so == CHOOSE f : Upto(f, n)
           Until(m) == UNION {ToSet(ss[i]) : i \in 1..m}
           J == [m \in 0..n |-> {f \in [1..m -> Seq(Blocks)] : Upto(f, m)}]
<1>1. /\ n \in Nat /\ DOMAIN rows = 1..n /\ DOMAIN ss = 1..n /\ Len(ss) = n
      /\ \A i \in 1..n : ss[i] \in Seq(Blocks) /\ ss[i] = rows[i].items
  <2>1. n \in Nat /\ DOMAIN rows = 1..n /\ \A i \in 1..n : rows[i].items \in Seq(Blocks)
    BY RowsTyped
  <2>2. ss \in Seq(Seq(Blocks))
    BY <2>1
  <2> QED
    BY <2>1, <2>2
<1>2. /\ \A i, j \in 1..n : i # j => ToSet(ss[i]) \cap ToSet(ss[j]) = {}
      /\ \A i \in 1..n : IsInjective(ss[i])
      /\ Until(n) = S
    BY <1>1 DEF Partition, Held
<1>3. CASE n = 0
  <2>1. BlocksIn(rows) = ss /\ ss = <<>>
    BY <1>1, <1>3 DEF BlocksIn, FlattenSeq
  <2>2. S = {}
    BY <1>2, <1>3
  <2> QED
    BY <2>1, <2>2 DEF ToSet, IsInjective
<1>4. CASE n # 0
  <2> HIDE DEF n, ss
  <2>1. BlocksIn(rows) = so[n]
    BY <1>1, <1>4 DEF BlocksIn, FlattenSeq, ss
  <2>2. J[0] # {}
    <3> DEFINE f == [i \in 1..0 |-> <<>>]
    <3>1. f \in [1..0 -> Seq(Blocks)]
      OBVIOUS
    <3>2. Upto(f, 0)
      OBVIOUS
    <3> HIDE DEF f, Upto
    <3>3. J[0] = {g \in [1..0 -> Seq(Blocks)] : Upto(g, 0)}
      BY <1>1
    <3> QED
      BY <3>1, <3>2, <3>3
  <2>3. ASSUME NEW m \in 1..n, J[m - 1] # {}
        PROVE  J[m] # {}
    <3>1. m \in Nat /\ m - 1 \in Nat /\ m - 1 \in 0..n /\ m \in 0..n
      BY <1>1
    <3>2. PICK g \in [1..(m - 1) -> Seq(Blocks)] : Upto(g, m - 1)
      <4> HIDE DEF Upto
      <4> QED
        BY <2>3, <3>1
    <3> DEFINE e == IF m = 1 THEN ss[m] ELSE g[m - 1] \o ss[m]
               f == [i \in 1..m |-> IF i = m THEN e ELSE g[i]]
    <3>3. e \in Seq(Blocks)
      <4>1. CASE m = 1
        BY <1>1, <4>1
      <4>2. CASE m # 1
        <5>1. g[m - 1] \in Seq(Blocks) /\ ss[m] \in Seq(Blocks)
          BY <1>1, <3>1, <4>2
        <5> QED
          BY <4>2, <5>1, Joined
      <4> QED
        BY <4>1, <4>2
    <3>4. \A i \in 1..m : i # m => i \in 1..(m - 1)
      BY <3>1
    <3>5. f \in [1..m -> Seq(Blocks)]
      <4> HIDE DEF e
      <4> QED
        BY <3>3, <3>4
    <3>6. \A i \in 1..m : f[i] = IF i = 1 THEN ss[i] ELSE f[i - 1] \o ss[i]
      <4>1. \A i \in 1..(m - 1) : f[i] = g[i] /\ i \in 1..m
        <5>1. \A i \in 1..(m - 1) : i \in 1..m /\ i # m
          BY <3>1
        <5> HIDE DEF e
        <5> QED
          BY <5>1
      <4>2. \A i \in 1..(m - 1) : g[i] = IF i = 1 THEN ss[i] ELSE g[i - 1] \o ss[i]
        BY <3>2
      <4>3. \A i \in 1..(m - 1) : i # 1 => i - 1 \in 1..(m - 1)
        BY <3>1
      <4>4. f[m] = e
        BY <3>1
      <4>5. m # 1 => f[m - 1] = g[m - 1]
        BY <3>1
      <4> HIDE DEF f
      <4> QED
        BY <3>1, <3>4, <4>1, <4>2, <4>3, <4>4, <4>5
    <3>7. Upto(f, m)
      <4> HIDE DEF f
      <4>1. f = [i \in 1..m |-> f[i]]
        BY <3>5
      <4> QED
        BY <3>6, <4>1
    <3>8. J[m] = {h \in [1..m -> Seq(Blocks)] : Upto(h, m)}
      <4> HIDE DEF Upto
      <4> QED
        BY <3>1
    <3> HIDE DEF f, Upto
    <3> QED
      BY <3>5, <3>7, <3>8
  <2>4. Upto(so, n)
    <3>1. J[n] # {}
      <4> HIDE DEF J
      <4> QED
        BY <1>1, <2>2, <2>3, Reached
    <3>2. \E f : Upto(f, n)
      <4> HIDE DEF Upto
      <4>1. J[n] = {f \in [1..n -> Seq(Blocks)] : Upto(f, n)}
        BY <1>1
      <4> HIDE DEF J
      <4> QED
        BY <3>1, <4>1
    <3> HIDE DEF Upto
    <3> QED
      BY <3>2
  <2>5. \A i \in 1..n : so[i] = IF i = 1 THEN ss[i] ELSE so[i - 1] \o ss[i]
    <3> HIDE DEF so
    <3> QED
      BY <2>4
  <2> HIDE DEF so
  <2> DEFINE I == [k \in 0..n |-> {x \in {TRUE} : k # 0 =>
                      so[k] \in Seq(Blocks) /\ ToSet(so[k]) = Until(k) /\ IsInjective(so[k])}]
             u == [k \in 0..n |-> TRUE]
  <2>6. u[0] \in I[0]
    <3> HIDE DEF Until
    <3> QED
      BY <1>1
  <2>7. ASSUME NEW k \in 1..n, u[k - 1] \in I[k - 1]
        PROVE  u[k] \in I[k]
    <3>1. k \in 0..n /\ k - 1 \in 0..n /\ k \in Nat
      BY <1>1
    <3>2. so[k] \in Seq(Blocks) /\ ToSet(so[k]) = Until(k) /\ IsInjective(so[k])
      <4>1. CASE k = 1
        <5>1. so[k] = ss[k]
          BY <2>5, <4>1
        <5>2. Until(k) = ToSet(ss[k])
          BY <4>1
        <5> QED
          BY <1>1, <1>2, <5>1, <5>2
      <4>2. CASE k # 1
        <5>1. so[k] = so[k - 1] \o ss[k]
          BY <2>5, <4>2
        <5>2. so[k - 1] \in Seq(Blocks) /\ ToSet(so[k - 1]) = Until(k - 1) /\ IsInjective(so[k - 1])
          <6> HIDE DEF Until
          <6> QED
            BY <2>7, <3>1, <4>2
        <5>3. Until(k) = Until(k - 1) \cup ToSet(ss[k])
          <6>1. 1..k = (1..(k - 1)) \cup {k}
            BY <3>1
          <6> QED
            BY <6>1
        <5>4. Until(k - 1) \cap ToSet(ss[k]) = {}
          <6>1. \A i \in 1..(k - 1) : i \in 1..n /\ i # k
            BY <1>1
          <6> QED
            BY <1>2, <6>1
        <5> HIDE DEF Until
        <5> QED
          BY <1>1, <1>2, <5>1, <5>2, <5>3, <5>4, Joined
      <4> QED
        BY <4>1, <4>2
    <3> HIDE DEF Until
    <3> QED
      BY <3>1, <3>2
  <2>8. u[n] \in I[n]
    <3>1. \A k \in 0..n : u[k] \in I[k]
      <4> HIDE DEF u, I
      <4> QED
        BY <1>1, <2>6, <2>7, Steps
    <3> HIDE DEF u, I
    <3> QED
      BY <1>1, <3>1
  <2>9. so[n] \in Seq(Blocks) /\ ToSet(so[n]) = Until(n) /\ IsInjective(so[n])
    <3> HIDE DEF Until
    <3> QED
      BY <1>1, <1>4, <2>8
  <2> QED
    BY <1>2, <2>1, <2>9
<1> QED
    BY <1>3, <1>4

\* A row found by its id, a row found by a block in it, a block found in a row.
LEMMA RowFound ==
    ASSUME NEW rows \in Rows, NEW id
    PROVE  /\ IndexOfRow(rows, id) \in 0..Len(rows)
           /\ id \in RowIds(rows) =>
                 /\ IndexOfRow(rows, id) \in DOMAIN rows
                 /\ rows[IndexOfRow(rows, id)].id = id
           /\ id \notin RowIds(rows) => IndexOfRow(rows, id) = 0
<1> DEFINE I == {i \in 1..Len(rows) : rows[i].id = id}
<1>1. Len(rows) \in Nat /\ DOMAIN rows = 1..Len(rows)
    BY RowsTyped
<1>2. IndexOfRow(rows, id) = IF I # {} THEN Min(I) ELSE 0
    BY DEF IndexOfRow, SelectInSeq
<1>3. I # {} => Min(I) \in I
    BY <1>1, MinOf, I \in SUBSET (1..Len(rows))
<1>4. I # {} <=> id \in RowIds(rows)
    BY <1>1 DEF RowIds
<1> QED
    BY <1>1, <1>2, <1>3, <1>4

\* A block of a layout is found in the one row that holds it.
LEMMA BlockFound ==
    ASSUME NEW rows, NEW S, Partition(rows, S), NEW b \in S
    PROVE  /\ IndexOfBlock(rows, b) \in DOMAIN rows
           /\ b \in ToSet(rows[IndexOfBlock(rows, b)].items)
           /\ \A i \in DOMAIN rows : b \in ToSet(rows[i].items) => i = IndexOfBlock(rows, b)
<1>1. PICK i \in DOMAIN rows : \E j \in DOMAIN rows[i].items : rows[i].items[j] = b
    BY DEF Partition, Held, ToSet
<1>2. /\ IndexOfBlock(rows, b) \in DOMAIN rows
      /\ \E j \in DOMAIN rows[IndexOfBlock(rows, b)].items :
            rows[IndexOfBlock(rows, b)].items[j] = b
    BY <1>1 DEF IndexOfBlock
<1>3. b \in ToSet(rows[IndexOfBlock(rows, b)].items)
    BY <1>2 DEF ToSet
<1> QED
    BY <1>2, <1>3 DEF Partition

\* A block of a row is found at its place there.
LEMMA PlaceFound ==
    ASSUME NEW items, NEW b \in ToSet(items)
    PROVE  Position(b, items) \in DOMAIN items /\ items[Position(b, items)] = b
    BY DEF Position, ToSet

\* Rows as a set.
Whole(R, S) ==
    /\ \A r, q \in R : r # q => r.id # q.id /\ ToSet(r.items) \cap ToSet(q.items) = {}
    /\ \A r \in R : IsInjective(r.items)
    /\ UNION {ToSet(r.items) : r \in R} = S

\* What makes rows a layout does not depend on their order.
LEMMA AsSet ==
    ASSUME NEW rows \in Rows, NEW S
    PROVE  /\ Partition(rows, S) <=> IsInjective(rows) /\ Whole(ToSet(rows), S)
           /\ RowIds(rows) = {r.id : r \in ToSet(rows)}
<1>1. ASSUME Partition(rows, S)
      PROVE  IsInjective(rows) /\ Whole(ToSet(rows), S)
  <2>1. IsInjective(rows)
    BY <1>1 DEF Partition, IsInjective
  <2>2. \A r, q \in ToSet(rows) : r # q => r.id # q.id /\ ToSet(r.items) \cap ToSet(q.items) = {}
    BY <1>1 DEF Partition, ToSet
  <2>3. \A r \in ToSet(rows) : IsInjective(r.items)
    <3>1. \A r \in ToSet(rows) : \E i \in DOMAIN rows : r = rows[i]
      BY DEF ToSet
    <3> QED
      BY <1>1, <3>1 DEF Partition
  <2>4. UNION {ToSet(r.items) : r \in ToSet(rows)} = S
    <3>1. {ToSet(r.items) : r \in ToSet(rows)} = {ToSet(rows[i].items) : i \in DOMAIN rows}
      BY DEF ToSet
    <3> QED
      BY <1>1, <3>1 DEF Partition, Held
  <2> QED
    BY <2>1, <2>2, <2>3, <2>4 DEF Whole
<1>2. ASSUME IsInjective(rows), Whole(ToSet(rows), S)
      PROVE  Partition(rows, S)
  <2>1. \A i \in DOMAIN rows : rows[i] \in ToSet(rows)
    BY DEF ToSet
  <2>2. \A i, j \in DOMAIN rows : i # j => rows[i] # rows[j]
    BY <1>2 DEF IsInjective
  <2>3. UNION {ToSet(rows[i].items) : i \in DOMAIN rows} = S
    <3>1. {ToSet(r.items) : r \in ToSet(rows)} = {ToSet(rows[i].items) : i \in DOMAIN rows}
      BY DEF ToSet
    <3> QED
      BY <1>2, <3>1 DEF Whole
  <2> QED
    BY <1>2, <2>1, <2>2, <2>3 DEF Whole, Partition, Held
<1>3. RowIds(rows) = {r.id : r \in ToSet(rows)}
    BY DEF RowIds, ToSet
<1> QED
    BY <1>1, <1>2, <1>3

\* A new row among others.
LEMMA RowInserted ==
    ASSUME NEW rows \in Rows, NEW S, Partition(rows, S), NEW at \in 1..(Len(rows) + 1),
           NEW row \in Row, row.id \notin RowIds(rows),
           IsInjective(row.items), ToSet(row.items) \cap S = {},
           NEW T, T = S \cup ToSet(row.items)
    PROVE  /\ InsertAt(rows, at, row) \in Rows
           /\ Partition(InsertAt(rows, at, row), T)
           /\ \A id : id \in RowIds(InsertAt(rows, at, row)) <=> id \in RowIds(rows) \/ id = row.id
           /\ ToSet(InsertAt(rows, at, row)) = ToSet(rows) \cup {row}
           /\ at \in DOMAIN InsertAt(rows, at, row) /\ InsertAt(rows, at, row)[at] = row
<1> DEFINE more == InsertAt(rows, at, row)
           R == ToSet(rows)
<1>1. row \notin R
    BY DEF RowIds, ToSet
<1>2. /\ more \in Rows /\ ToSet(more) = R \cup {row}
      /\ Len(more) = Len(rows) + 1 /\ more[at] = row
      /\ IsInjective(rows) => IsInjective(more)
    BY <1>1, Inserted DEF Rows
<1>3. IsInjective(rows) /\ Whole(R, S) /\ RowIds(rows) = {r.id : r \in R}
    BY AsSet
<1>4. Len(rows) \in Nat /\ DOMAIN more = 1..(Len(rows) + 1)
    BY <1>2, RowsTyped
<1> HIDE DEF more, R
<1>5. Whole(R \cup {row}, S \cup ToSet(row.items))
  <2>1. \A r \in R : ToSet(r.items) \subseteq S
    BY <1>3 DEF Whole
  <2>2. \A r \in R : r.id # row.id /\ ToSet(r.items) \cap ToSet(row.items) = {}
    BY <1>3, <2>1
  <2>3. \A r, q \in R \cup {row} : r # q => r.id # q.id /\ ToSet(r.items) \cap ToSet(q.items) = {}
    BY <1>3, <2>2 DEF Whole
  <2>4. \A r \in R \cup {row} : IsInjective(r.items)
    BY <1>3 DEF Whole
  <2>5. UNION {ToSet(r.items) : r \in R \cup {row}} = S \cup ToSet(row.items)
    <3>1. UNION {ToSet(r.items) : r \in R} = S
      BY <1>3 DEF Whole
    <3>2. {ToSet(r.items) : r \in R \cup {row}} = {ToSet(r.items) : r \in R} \cup {ToSet(row.items)}
      OBVIOUS
    <3> QED
      BY <3>1, <3>2
  <2> QED
    BY <2>3, <2>4, <2>5 DEF Whole
<1>6. Partition(more, S \cup ToSet(row.items)) /\ RowIds(more) = {r.id : r \in R \cup {row}}
    BY <1>2, <1>3, <1>5, AsSet
<1> QED
    BY <1>2, <1>3, <1>4, <1>6 DEF more, R

\* Some of the rows, all with something in them included.
LEMMA RowsFiltered ==
    ASSUME NEW rows \in Rows, NEW S, Partition(rows, S), NEW R,
           \A row \in ToSet(rows) : row \notin R => row.items = <<>>
    PROVE  /\ Among(rows, R) \in Rows
           /\ Partition(Among(rows, R), S)
           /\ ToSet(Among(rows, R)) = ToSet(rows) \cap R
<1> DEFINE some == Among(rows, R)
<1>1. /\ some \in Rows /\ ToSet(some) = ToSet(rows) \cap R
      /\ IsInjective(rows) => IsInjective(some)
    BY AmongIs DEF Rows
<1>2. IsInjective(rows) /\ Whole(ToSet(rows), S)
    BY AsSet
<1> HIDE DEF some
<1>3. Whole(ToSet(rows) \cap R, S)
  <2>1. \A x \in S : \E r \in ToSet(rows) \cap R : x \in ToSet(r.items)
    <3> TAKE x \in S
    <3>1. PICK r \in ToSet(rows) : x \in ToSet(r.items)
      BY <1>2 DEF Whole
    <3>2. r.items # <<>>
      BY <3>1 DEF ToSet
    <3> QED
      BY <3>1, <3>2
  <2>2. UNION {ToSet(r.items) : r \in ToSet(rows) \cap R} = S
    BY <1>2, <2>1 DEF Whole
  <2> QED
    BY <1>2, <2>2 DEF Whole
<1>4. Partition(some, S)
    BY <1>1, <1>2, <1>3, AsSet
<1> QED
    BY <1>1, <1>4 DEF some

Swapped(S, was, is) == (S \ was) \cup is

\* Other blocks in one of the rows.
LEMMA ItemsReplaced ==
    ASSUME NEW rows \in Rows, NEW S, Partition(rows, S), NEW i \in DOMAIN rows,
           NEW items \in Seq(Blocks), IsInjective(items),
           \A j \in DOMAIN rows : j # i => ToSet(rows[j].items) \cap ToSet(items) = {}
    PROVE  /\ WithItems(rows, i, items) \in Rows
           /\ Partition(WithItems(rows, i, items), Swapped(S, ToSet(rows[i].items), ToSet(items)))
           /\ RowIds(WithItems(rows, i, items)) = RowIds(rows)
           /\ DOMAIN WithItems(rows, i, items) = DOMAIN rows
           /\ \A j \in DOMAIN rows :
                 /\ WithItems(rows, i, items)[j].id = rows[j].id
                 /\ WithItems(rows, i, items)[j].items = IF j = i THEN items ELSE rows[j].items
<1> DEFINE new == WithItems(rows, i, items)
           T == (S \ ToSet(rows[i].items)) \cup ToSet(items)
<1>1. /\ Len(rows) \in Nat /\ DOMAIN rows = 1..Len(rows)
      /\ \A j \in DOMAIN rows : rows[j] \in Row /\ rows[j].id \in RowId
    BY RowsTyped
<1>2. /\ DOMAIN new = DOMAIN rows
      /\ \A j \in DOMAIN rows :
            /\ new[j].id = rows[j].id
            /\ new[j].items = IF j = i THEN items ELSE rows[j].items
    BY DEF WithItems
<1>3. \A j \in DOMAIN rows : new[j] \in Row
  <2>1. \A j \in DOMAIN rows :
           new[j] = IF j = i THEN [id |-> rows[i].id, items |-> items] ELSE rows[j]
    BY DEF WithItems
  <2>2. [id |-> rows[i].id, items |-> items] \in Row
    BY <1>1 DEF Row
  <2> HIDE DEF new
  <2> QED
    BY <1>1, <2>1, <2>2
<1>4. new \in Rows
  <2>1. new = [j \in 1..Len(rows) |-> new[j]]
    BY <1>1 DEF WithItems
  <2> HIDE DEF new
  <2>2. new \in [1..Len(rows) -> Row]
    BY <1>1, <1>3, <2>1
  <2> QED
    BY <1>1, <2>2 DEF Rows
<1> HIDE DEF new
<1>5. RowIds(new) = RowIds(rows)
    BY <1>2 DEF RowIds
<1>6. \A j, k \in DOMAIN new : j # k =>
         new[j].id # new[k].id /\ ToSet(new[j].items) \cap ToSet(new[k].items) = {}
    BY <1>2 DEF Partition
<1>7. \A j \in DOMAIN new : IsInjective(new[j].items)
    BY <1>2 DEF Partition
<1>8. Held(new) = T
  <2>1. \A j \in DOMAIN rows : j # i => ToSet(rows[j].items) \cap ToSet(rows[i].items) = {}
    BY DEF Partition
  <2>2. S = UNION {ToSet(rows[j].items) : j \in DOMAIN rows}
    BY DEF Partition, Held
  <2>3. ASSUME NEW x \in T PROVE \E j \in DOMAIN new : x \in ToSet(new[j].items)
    <3>1. CASE x \in ToSet(items)
      BY <1>2, <3>1
    <3>2. CASE x \in S /\ x \notin ToSet(rows[i].items)
      <4>1. PICK j \in DOMAIN rows : x \in ToSet(rows[j].items)
        BY <2>2, <3>2
      <4> QED
        BY <1>2, <3>2, <4>1
    <3> QED
      BY <3>1, <3>2
  <2>4. ASSUME NEW j \in DOMAIN new, NEW x \in ToSet(new[j].items) PROVE x \in T
    <3>1. CASE j = i
      BY <1>2, <3>1
    <3>2. CASE j # i
      BY <1>2, <2>1, <2>2, <3>2
    <3> QED
      BY <3>1, <3>2
  <2> HIDE DEF T
  <2> QED
    BY <2>3, <2>4 DEF Held
<1>9. Partition(new, T)
    BY <1>6, <1>7, <1>8 DEF Partition
<1> QED
    BY <1>2, <1>4, <1>5, <1>9 DEF new, T, Swapped

\* Some of the blocks, in every row.
LEMMA RowsRestricted ==
    ASSUME NEW rows \in Rows, NEW S, Partition(rows, S), NEW T
    PROVE  /\ Only(rows, T) \in Rows
           /\ Partition(Only(rows, T), S \cap T)
           /\ RowIds(Only(rows, T)) = RowIds(rows)
           /\ DOMAIN Only(rows, T) = DOMAIN rows
           /\ \A i \in DOMAIN rows :
                 /\ Only(rows, T)[i].id = rows[i].id
                 /\ ToSet(Only(rows, T)[i].items) = ToSet(rows[i].items) \cap T
<1> DEFINE new == Only(rows, T)
<1>1. /\ Len(rows) \in Nat /\ DOMAIN rows = 1..Len(rows)
      /\ \A j \in DOMAIN rows : /\ rows[j] \in Row /\ rows[j].id \in RowId
                                /\ rows[j].items \in Seq(Blocks)
    BY RowsTyped
<1>2. \A i \in DOMAIN rows : /\ Among(rows[i].items, T) \in Seq(Blocks)
                             /\ ToSet(Among(rows[i].items, T)) = ToSet(rows[i].items) \cap T
                             /\ IsInjective(Among(rows[i].items, T))
    BY <1>1, AmongIs DEF Partition
<1>0. DOMAIN new = DOMAIN rows
    BY DEF Only
<1>3. ASSUME NEW i \in DOMAIN rows
      PROVE  new[i] \in Row /\ new[i].id = rows[i].id /\ new[i].items = Among(rows[i].items, T)
  <2>1. rows[i] \in [id : RowId, items : Seq(Blocks)]
    BY <1>1 DEF Row
  <2>2. new[i] = [rows[i] EXCEPT !.items = Among(rows[i].items, T)]
    BY DEF Only
  <2> HIDE DEF new
  <2> QED
    BY <1>2, <2>1, <2>2 DEF Row
<1>4. new \in Rows
  <2>1. new = [j \in 1..Len(rows) |-> new[j]]
    BY <1>1 DEF Only
  <2> HIDE DEF new
  <2>2. new \in [1..Len(rows) -> Row]
    BY <1>0, <1>1, <1>3, <2>1
  <2> QED
    BY <1>1, <2>2 DEF Rows
<1> HIDE DEF new
<1>5. RowIds(new) = RowIds(rows)
    BY <1>0, <1>3 DEF RowIds
<1>6. \A i \in DOMAIN rows : ToSet(new[i].items) = ToSet(rows[i].items) \cap T
    BY <1>2, <1>3
<1>7. Held(new) = S \cap T
  <2>1. {ToSet(new[i].items) : i \in DOMAIN new} = {ToSet(rows[i].items) \cap T : i \in DOMAIN rows}
    BY <1>0, <1>6
  <2>2. S = UNION {ToSet(rows[i].items) : i \in DOMAIN rows}
    BY DEF Partition, Held
  <2>3. UNION {ToSet(rows[i].items) \cap T : i \in DOMAIN rows} = S \cap T
    BY <2>2
  <2> QED
    BY <2>1, <2>3 DEF Held
<1>8. Partition(new, S \cap T)
  <2>1. \A i, j \in DOMAIN new : i # j =>
           new[i].id # new[j].id /\ ToSet(new[i].items) \cap ToSet(new[j].items) = {}
    BY <1>0, <1>3, <1>6 DEF Partition
  <2>2. \A i \in DOMAIN new : IsInjective(new[i].items)
    BY <1>0, <1>2, <1>3
  <2> QED
    BY <1>7, <2>1, <2>2 DEF Partition
<1> QED
    BY <1>0, <1>3, <1>4, <1>5, <1>6, <1>8 DEF new

\* The total of a row, one block after the other.
LEMMA TotalSteps ==
    ASSUME NEW widths \in [Blocks -> Nat], NEW items \in Seq(Blocks)
    PROVE  \E so \in [0..Len(items) -> Nat] :
              /\ so[0] = 0
              /\ \A k \in 1..Len(items) : so[k] = so[k - 1] + widths[items[k]]
              /\ TotalOf(widths, items) = so[Len(items)]
<1> DEFINE n == Len(items)
           D == Nat
           Start == 0
           Step(x, k) == x + widths[items[k]]
           Is(f) == f = [s \in SUBSET (1..n) |->
                        IF s = {} THEN Start ELSE Step(f[s \ {Max(s)}], Max(s))]
           iter == CHOOSE f : Is(f)
<1>1. n \in Nat
    OBVIOUS
<1>2. TotalOf(widths, items) = iter[1..n]
  <2>1. DOMAIN items = 1..n
    OBVIOUS
  <2> QED
    BY <2>1 DEF TotalOf, FoldLeft, MapThenFoldSet
<1>3. Start \in D /\ \A k \in 1..n : \A x \in D : Step(x, k) \in D
    OBVIOUS
<1>4. Is(iter)
  <2> DEFINE step == [k \in 1..n |-> [x \in D |-> Step(x, k)]]
  <2>1. \A k \in 1..n : \A x \in D : step[k][x] = Step(x, k) /\ step[k][x] \in D
    BY <1>3
  <2> HIDE DEF n, step, D, Step, Start
  <2>2. PICK f \in [SUBSET (1..n) -> D] : Folds(f, n, Start, step)
    BY <1>1, <1>3, <2>1, FoldExists
  <2>3. \A s \in SUBSET (1..n) : s # {} => Max(s) \in 1..n /\ s \ {Max(s)} \in SUBSET (1..n)
    BY <1>1, MaxOf
  <2>4. \A s \in SUBSET (1..n) :
            f[s] = IF s = {} THEN Start ELSE Step(f[s \ {Max(s)}], Max(s))
    BY <2>1, <2>2, <2>3 DEF Folds
  <2>5. Is(f)
    BY <2>2, <2>4
  <2> HIDE DEF Is
  <2> QED
    BY <2>5
<1> HIDE DEF iter, n, D, Step, Start
<1> DEFINE All == D \cup {iter[s] : s \in SUBSET (1..n)}
           step == [k \in 1..n |-> [x \in All |-> Step(x, k)]]
<1>5. \A k \in 1..n : \A x \in All : step[k][x] = Step(x, k)
    OBVIOUS
<1> HIDE DEF step
<1>6. Folds(iter, n, Start, step)
  <2>1. \A s \in SUBSET (1..n) : s # {} => Max(s) \in 1..n /\ iter[s \ {Max(s)}] \in All
    BY <1>1, MaxOf
  <2>2. /\ iter = [s \in SUBSET (1..n) |-> iter[s]]
        /\ \A s \in SUBSET (1..n) :
               iter[s] = IF s = {} THEN Start ELSE Step(iter[s \ {Max(s)}], Max(s))
    BY <1>4
  <2> HIDE DEF All, Is
  <2>3. \A s \in SUBSET (1..n) :
            iter[s] = IF s = {} THEN Start ELSE step[Max(s)][iter[s \ {Max(s)}]]
    BY <1>5, <2>1, <2>2
  <2> QED
    BY <2>2, <2>3 DEF Folds
<1>7. PICK so \in [0..n -> D] : Climbs(so, iter, n, Start, step)
  <2>1. \A k \in 1..n : \A x \in D : step[k][x] \in D
    BY <1>3, <1>5
  <2> QED
    BY <1>1, <1>3, <1>6, <2>1, FoldClimbs
<1>8. \A k \in 1..n : so[k] = Step(so[k - 1], k)
  <2>1. \A k \in 1..n : k - 1 \in 0..n /\ so[k - 1] \in All
    BY <1>1
  <2> QED
    BY <1>5, <1>7, <2>1 DEF Climbs
<1>9. so[0] = Start /\ iter[1..n] = so[n]
    BY <1>7 DEF Climbs
<1> USE DEF n, D, Step, Start
<1> QED
    BY <1>2, <1>8, <1>9

-----------------------------------------------------------------------------
(* Widths.                                                                 *)

Spans == [Blocks -> 0..Columns]

\* How many columns a row has over, or lacks; none if it is the other way.
TooMany(widths, items, m) == 1..(TotalOf(widths, items) - Columns) = 1..m
TooFew(widths, items, m) == 1..(Columns - TotalOf(widths, items)) = 1..m

\* The steps in which a row grows.
Growing(widths, items, wanted, m) ==
    \E so \in [0..m -> [Blocks -> Nat]] :
        /\ so[0] = widths
        /\ \A k \in 1..m : so[k] = Wider(so[k - 1], items, wanted)
        /\ Grow(widths, items, wanted) = so[m]

\* The widths of the canvas and of its blocks.
LEMMA Sizes ==
    /\ Columns \in Nat \ {0}
    /\ Locked \subseteq Blocks
    /\ \A b \in Blocks : /\ Minimum[b] \in Nat /\ Minimum[b] >= 1 /\ Minimum[b] <= Columns
                         /\ AuthoredSpan[b] \in Nat /\ AuthoredSpan[b] >= 1 /\ AuthoredSpan[b] <= Columns
    /\ AuthoredSpan \in Spans /\ Minimum \in Spans /\ NoWidths \in Spans
    /\ \A b \in Blocks : NoWidths[b] = 0
    BY LayoutAssumption DEF Spans, NoWidths

\* Widths replaced by widths are no wider than the canvas.
LEMMA OverTyped ==
    ASSUME NEW widths \in Spans, NEW more \in Spans
    PROVE  Over(widths, more) \in Spans
    BY DEF Over, Spans

\* A width is a number of columns.
LEMMA SpansAreCounts ==
    ASSUME NEW widths \in Spans
    PROVE  /\ widths \in [Blocks -> Nat]
           /\ \A b \in Blocks : widths[b] \in Nat /\ widths[b] <= Columns
    BY Sizes DEF Spans

\* No block of a row is wider than the row.
LEMMA TotalBounds ==
    ASSUME NEW widths \in [Blocks -> Nat], NEW items \in Seq(Blocks)
    PROVE  TotalOf(widths, items) \in Nat /\ \A b \in ToSet(items) : widths[b] <= TotalOf(widths, items)
<1> DEFINE n == Len(items)
<1>1. n \in Nat /\ DOMAIN items = 1..n /\ \A k \in 1..n : items[k] \in Blocks /\ widths[items[k]] \in Nat
    OBVIOUS
<1>2. PICK so \in [0..n -> Nat] : /\ so[0] = 0
                                  /\ \A k \in 1..n : so[k] = so[k - 1] + widths[items[k]]
                                  /\ TotalOf(widths, items) = so[n]
    BY TotalSteps
<1> HIDE DEF n
<1> DEFINE J == [k \in 0..n |-> {x \in Nat : \A i \in 1..k : widths[items[i]] <= x}]
<1>3. so[0] \in J[0]
    BY <1>1, <1>2
<1>4. ASSUME NEW k \in 1..n, so[k - 1] \in J[k - 1]
      PROVE  so[k] \in J[k]
  <2>1. k - 1 \in 0..n /\ k \in 0..n
    BY <1>1
  <2>2. so[k - 1] \in Nat /\ \A i \in 1..(k - 1) : widths[items[i]] <= so[k - 1]
    BY <1>4, <2>1
  <2>3. so[k] = so[k - 1] + widths[items[k]] /\ so[k] \in Nat
    BY <1>2, <2>1
  <2>4. \A i \in 1..k : widths[items[i]] <= so[k]
    <3> TAKE i \in 1..k
    <3>1. widths[items[k]] \in Nat /\ so[k - 1] \in Nat
      BY <1>1, <2>2
    <3>2. i = k \/ i \in 1..(k - 1)
      BY <2>1
    <3>3. CASE i = k
      BY <2>3, <3>1, <3>3
    <3>4. CASE i \in 1..(k - 1)
      <4>1. widths[items[i]] <= so[k - 1] /\ widths[items[i]] \in Nat
        BY <1>1, <2>1, <2>2, <3>4
      <4> QED
        BY <2>3, <3>1, <4>1
    <3> QED
      BY <3>2, <3>3, <3>4
  <2> QED
    BY <2>1, <2>3, <2>4
<1>5. \A k \in 0..n : so[k] \in J[k]
  <2> HIDE DEF J
  <2> QED
    BY <1>1, <1>3, <1>4, Steps
<1>6. so[n] \in Nat /\ \A i \in 1..n : widths[items[i]] <= so[n]
    BY <1>1, <1>5
<1> QED
    BY <1>1, <1>2, <1>6 DEF ToSet

\* A row is one wider when one of its blocks is.
LEMMA TotalOfWider ==
    ASSUME NEW widths \in [Blocks -> Nat], NEW items \in Seq(Blocks), IsInjective(items),
           NEW first \in ToSet(items), NEW more \in [Blocks -> Nat],
           \A b \in Blocks : more[b] = IF b = first THEN widths[b] + 1 ELSE widths[b]
    PROVE  TotalOf(more, items) = TotalOf(widths, items) + 1
<1> DEFINE n == Len(items)
<1>1. n \in Nat /\ DOMAIN items = 1..n /\ \A k \in 1..n : items[k] \in Blocks
    OBVIOUS
<1>2. PICK so \in [0..n -> Nat] : /\ so[0] = 0
                                  /\ \A k \in 1..n : so[k] = so[k - 1] + widths[items[k]]
                                  /\ TotalOf(widths, items) = so[n]
    BY TotalSteps
<1>3. PICK up \in [0..n -> Nat] : /\ up[0] = 0
                                  /\ \A k \in 1..n : up[k] = up[k - 1] + more[items[k]]
                                  /\ TotalOf(more, items) = up[n]
    BY TotalSteps
<1>4. PICK at \in 1..n : items[at] = first
    BY <1>1 DEF ToSet
<1>5. \A k \in 1..n : k # at => items[k] # first
    BY <1>1, <1>4 DEF IsInjective
<1> HIDE DEF n
<1> DEFINE J == [k \in 0..n |-> {x \in Nat : x = so[k] + IF at <= k THEN 1 ELSE 0}]
<1>6. up[0] \in J[0]
    BY <1>1, <1>2, <1>3, <1>4
<1>7. ASSUME NEW k \in 1..n, up[k - 1] \in J[k - 1]
      PROVE  up[k] \in J[k]
  <2>1. k - 1 \in 0..n /\ k \in 0..n /\ items[k] \in Blocks /\ at \in Nat
    BY <1>1
  <2>2. up[k - 1] = so[k - 1] + IF at <= k - 1 THEN 1 ELSE 0
    BY <1>7, <2>1
  <2>3. so[k] = so[k - 1] + widths[items[k]] /\ up[k] = up[k - 1] + more[items[k]]
    BY <1>2, <1>3
  <2>4. /\ so[k] \in Nat /\ so[k - 1] \in Nat /\ up[k] \in Nat /\ up[k - 1] \in Nat
        /\ widths[items[k]] \in Nat
    BY <2>1
  <2>5. up[k] = so[k] + IF at <= k THEN 1 ELSE 0
    <3>1. CASE k = at
      <4>1. more[items[k]] = widths[items[k]] + 1
        BY <1>4, <2>1, <3>1
      <4>2. at <= k /\ ~(at <= k - 1)
        BY <2>1, <3>1
      <4>3. up[k - 1] = so[k - 1]
        BY <2>2, <2>4, <4>2
      <4>4. up[k] = so[k] + 1
        BY <2>3, <2>4, <4>1, <4>3
      <4> QED
        BY <4>2, <4>4
    <3>2. CASE k # at
      <4>1. more[items[k]] = widths[items[k]]
        BY <1>5, <2>1, <3>2
      <4>2. at <= k <=> at <= k - 1
        <5>1. k \in Nat /\ at \in Nat
          BY <1>1, <2>1
        <5> QED
          BY <3>2, <5>1
      <4>3. CASE at <= k
        <5>1. up[k - 1] = so[k - 1] + 1
          BY <2>2, <4>2, <4>3
        <5>2. up[k] = so[k - 1] + 1 + widths[items[k]]
          BY <2>3, <4>1, <5>1
        <5>3. up[k] = so[k] + 1
          <6> DEFINE p == so[k - 1]
                     w == widths[items[k]]
          <6>1. so[k] = p + w /\ up[k] = p + 1 + w /\ p \in Nat /\ w \in Nat
            BY <2>3, <2>4, <5>2
          <6> HIDE DEF p, w
          <6> QED
            BY <6>1
        <5> QED
          BY <4>3, <5>3
      <4>4. CASE ~(at <= k)
        <5>1. up[k - 1] = so[k - 1]
          BY <2>2, <2>4, <4>2, <4>4
        <5>2. up[k] = so[k]
          BY <2>3, <2>4, <4>1, <5>1
        <5> QED
          BY <2>4, <4>4, <5>2
      <4> QED
        BY <4>3, <4>4
    <3> QED
      BY <3>1, <3>2
  <2> QED
    BY <2>1, <2>4, <2>5
<1>8. \A k \in 0..n : up[k] \in J[k]
  <2> HIDE DEF J
  <2> QED
    BY <1>1, <1>6, <1>7, Steps
<1>9. up[n] = so[n] + 1
    BY <1>1, <1>4, <1>8
<1> QED
    BY <1>2, <1>3, <1>9

\* The block with most to spare, one block after the other.
LEMMA RoomiestSteps ==
    ASSUME NEW widths, NEW giving \in Seq(Blocks), giving # <<>>
    PROVE  \E so \in [0..Len(giving) -> ToSet(giving)] :
              /\ so[0] = giving[1]
              /\ \A k \in 1..Len(giving) : so[k] =
                          IF widths[giving[k]] - Minimum[giving[k]] > widths[so[k - 1]] - Minimum[so[k - 1]]
                            THEN giving[k] ELSE so[k - 1]
              /\ Roomiest(widths, giving) = so[Len(giving)]
<1> DEFINE n == Len(giving)
           D == ToSet(giving)
           Start == giving[1]
           Step(x, k) == IF widths[giving[k]] - Minimum[giving[k]] > widths[x] - Minimum[x]
                            THEN giving[k] ELSE x
           Is(f) == f = [s \in SUBSET (1..n) |->
                        IF s = {} THEN Start ELSE Step(f[s \ {Max(s)}], Max(s))]
           iter == CHOOSE f : Is(f)
<1>1. n \in Nat
    OBVIOUS
<1>2. Roomiest(widths, giving) = iter[1..n]
  <2>1. DOMAIN giving = 1..n
    OBVIOUS
  <2> QED
    BY <2>1 DEF Roomiest, FoldLeft, MapThenFoldSet
<1>3. Start \in D /\ \A k \in 1..n : \A x \in D : Step(x, k) \in D
  <2>1. DOMAIN giving = 1..n /\ 1 \in 1..n
    BY <1>1
  <2>2. \A k \in 1..n : giving[k] \in ToSet(giving)
    BY <2>1 DEF ToSet
  <2> QED
    BY <2>1, <2>2
<1>4. Is(iter)
  <2> DEFINE step == [k \in 1..n |-> [x \in D |-> Step(x, k)]]
  <2>1. \A k \in 1..n : \A x \in D : step[k][x] = Step(x, k) /\ step[k][x] \in D
    BY <1>3
  <2> HIDE DEF n, step, D, Step, Start
  <2>2. PICK f \in [SUBSET (1..n) -> D] : Folds(f, n, Start, step)
    BY <1>1, <1>3, <2>1, FoldExists
  <2>3. \A s \in SUBSET (1..n) : s # {} => Max(s) \in 1..n /\ s \ {Max(s)} \in SUBSET (1..n)
    BY <1>1, MaxOf
  <2>4. \A s \in SUBSET (1..n) :
            f[s] = IF s = {} THEN Start ELSE Step(f[s \ {Max(s)}], Max(s))
    BY <2>1, <2>2, <2>3 DEF Folds
  <2>5. Is(f)
    BY <2>2, <2>4
  <2> HIDE DEF Is
  <2> QED
    BY <2>5
<1> HIDE DEF iter, n, D, Step, Start
<1> DEFINE All == D \cup {iter[s] : s \in SUBSET (1..n)}
           step == [k \in 1..n |-> [x \in All |-> Step(x, k)]]
<1>5. \A k \in 1..n : \A x \in All : step[k][x] = Step(x, k)
    OBVIOUS
<1> HIDE DEF step
<1>6. Folds(iter, n, Start, step)
  <2>1. \A s \in SUBSET (1..n) : s # {} => Max(s) \in 1..n /\ iter[s \ {Max(s)}] \in All
    BY <1>1, MaxOf
  <2>2. /\ iter = [s \in SUBSET (1..n) |-> iter[s]]
        /\ \A s \in SUBSET (1..n) :
               iter[s] = IF s = {} THEN Start ELSE Step(iter[s \ {Max(s)}], Max(s))
    BY <1>4
  <2> HIDE DEF All, Is
  <2>3. \A s \in SUBSET (1..n) :
            iter[s] = IF s = {} THEN Start ELSE step[Max(s)][iter[s \ {Max(s)}]]
    BY <1>5, <2>1, <2>2
  <2> QED
    BY <2>2, <2>3 DEF Folds
<1>7. PICK so \in [0..n -> D] : Climbs(so, iter, n, Start, step)
  <2>1. \A k \in 1..n : \A x \in D : step[k][x] \in D
    BY <1>3, <1>5
  <2> QED
    BY <1>1, <1>3, <1>6, <2>1, FoldClimbs
<1>8. \A k \in 1..n : so[k] = Step(so[k - 1], k)
  <2>1. \A k \in 1..n : k - 1 \in 0..n /\ so[k - 1] \in All
    BY <1>1
  <2> QED
    BY <1>5, <1>7, <2>1 DEF Climbs
<1>9. so[0] = Start /\ iter[1..n] = so[n]
    BY <1>7 DEF Climbs
<1> USE DEF n, D, Step, Start
<1> QED
    BY <1>2, <1>8, <1>9

\* The block furthest behind, one block after the other.
LEMMA NeediestSteps ==
    ASSUME NEW widths, NEW wanted, NEW taking \in Seq(Blocks), taking # <<>>
    PROVE  \E so \in [0..Len(taking) -> ToSet(taking)] :
              /\ so[0] = taking[1]
              /\ \A k \in 1..Len(taking) : so[k] =
                          IF widths[taking[k]] * wanted[so[k - 1]] < widths[so[k - 1]] * wanted[taking[k]]
                            THEN taking[k] ELSE so[k - 1]
              /\ Neediest(widths, wanted, taking) = so[Len(taking)]
<1> DEFINE n == Len(taking)
           D == ToSet(taking)
           Start == taking[1]
           Step(x, k) == IF widths[taking[k]] * wanted[x] < widths[x] * wanted[taking[k]]
                            THEN taking[k] ELSE x
           Is(f) == f = [s \in SUBSET (1..n) |->
                        IF s = {} THEN Start ELSE Step(f[s \ {Max(s)}], Max(s))]
           iter == CHOOSE f : Is(f)
<1>1. n \in Nat
    OBVIOUS
<1>2. Neediest(widths, wanted, taking) = iter[1..n]
  <2>1. DOMAIN taking = 1..n
    OBVIOUS
  <2> QED
    BY <2>1 DEF Neediest, FoldLeft, MapThenFoldSet
<1>3. Start \in D /\ \A k \in 1..n : \A x \in D : Step(x, k) \in D
  <2>1. DOMAIN taking = 1..n /\ 1 \in 1..n
    BY <1>1
  <2>2. \A k \in 1..n : taking[k] \in ToSet(taking)
    BY <2>1 DEF ToSet
  <2> QED
    BY <2>1, <2>2
<1>4. Is(iter)
  <2> DEFINE step == [k \in 1..n |-> [x \in D |-> Step(x, k)]]
  <2>1. \A k \in 1..n : \A x \in D : step[k][x] = Step(x, k) /\ step[k][x] \in D
    BY <1>3
  <2> HIDE DEF n, step, D, Step, Start
  <2>2. PICK f \in [SUBSET (1..n) -> D] : Folds(f, n, Start, step)
    BY <1>1, <1>3, <2>1, FoldExists
  <2>3. \A s \in SUBSET (1..n) : s # {} => Max(s) \in 1..n /\ s \ {Max(s)} \in SUBSET (1..n)
    BY <1>1, MaxOf
  <2>4. \A s \in SUBSET (1..n) :
            f[s] = IF s = {} THEN Start ELSE Step(f[s \ {Max(s)}], Max(s))
    BY <2>1, <2>2, <2>3 DEF Folds
  <2>5. Is(f)
    BY <2>2, <2>4
  <2> HIDE DEF Is
  <2> QED
    BY <2>5
<1> HIDE DEF iter, n, D, Step, Start
<1> DEFINE All == D \cup {iter[s] : s \in SUBSET (1..n)}
           step == [k \in 1..n |-> [x \in All |-> Step(x, k)]]
<1>5. \A k \in 1..n : \A x \in All : step[k][x] = Step(x, k)
    OBVIOUS
<1> HIDE DEF step
<1>6. Folds(iter, n, Start, step)
  <2>1. \A s \in SUBSET (1..n) : s # {} => Max(s) \in 1..n /\ iter[s \ {Max(s)}] \in All
    BY <1>1, MaxOf
  <2>2. /\ iter = [s \in SUBSET (1..n) |-> iter[s]]
        /\ \A s \in SUBSET (1..n) :
               iter[s] = IF s = {} THEN Start ELSE Step(iter[s \ {Max(s)}], Max(s))
    BY <1>4
  <2> HIDE DEF All, Is
  <2>3. \A s \in SUBSET (1..n) :
            iter[s] = IF s = {} THEN Start ELSE step[Max(s)][iter[s \ {Max(s)}]]
    BY <1>5, <2>1, <2>2
  <2> QED
    BY <2>2, <2>3 DEF Folds
<1>7. PICK so \in [0..n -> D] : Climbs(so, iter, n, Start, step)
  <2>1. \A k \in 1..n : \A x \in D : step[k][x] \in D
    BY <1>3, <1>5
  <2> QED
    BY <1>1, <1>3, <1>6, <2>1, FoldClimbs
<1>8. \A k \in 1..n : so[k] = Step(so[k - 1], k)
  <2>1. \A k \in 1..n : k - 1 \in 0..n /\ so[k - 1] \in All
    BY <1>1
  <2> QED
    BY <1>5, <1>7, <2>1 DEF Climbs
<1>9. so[0] = Start /\ iter[1..n] = so[n]
    BY <1>7 DEF Climbs
<1> USE DEF n, D, Step, Start
<1> QED
    BY <1>2, <1>8, <1>9

\* A block taken from a row can give a column and leaves widths of the canvas.
LEMMA NarrowerTyped ==
    ASSUME NEW widths \in Spans, NEW items \in Seq(Blocks)
    PROVE  Narrower(widths, items) \in Spans
<1> DEFINE able == {b \in Blocks \ Locked : widths[b] > Minimum[b]}
           giving == Among(items, able)
           first == Roomiest(widths, giving)
<1>1. giving \in Seq(Blocks) /\ ToSet(giving) \subseteq able
    BY AmongIs
<1>2. Narrower(widths, items) = IF giving = <<>> THEN NoWidths
                                ELSE [widths EXCEPT ![first] = @ - 1]
    BY DEF Narrower
<1> HIDE DEF giving
<1>3. giving # <<>> => first \in ToSet(giving)
  <2>1. ASSUME giving # <<>> PROVE first \in ToSet(giving)
    <3>1. PICK so \in [0..Len(giving) -> ToSet(giving)] : first = so[Len(giving)]
      <4> HIDE DEF first
      <4> QED
        BY <1>1, <2>1, RoomiestSteps DEF first
    <3>2. Len(giving) \in 0..Len(giving)
      BY <1>1
    <3> QED
      BY <3>1, <3>2
  <2> QED
    BY <2>1
<1> HIDE DEF first
<1>4. giving # <<>> => /\ first \in Blocks /\ widths[first] \in Nat /\ widths[first] <= Columns
                       /\ widths[first] > Minimum[first] /\ Minimum[first] \in Nat
    BY <1>1, <1>3, Sizes, SpansAreCounts
<1>5. giving # <<>> => widths[first] - 1 \in 0..Columns
    BY <1>4, Sizes
<1> QED
    BY <1>2, <1>4, <1>5, Sizes DEF Spans

\* Columns given, one after the other.
LEMMA ShrinkSteps ==
    ASSUME NEW widths \in Spans, NEW items \in Seq(Blocks), NEW m \in Nat,
           TooMany(widths, items, m)
    PROVE  \E so \in [0..m -> Spans] :
              /\ so[0] = widths
              /\ \A k \in 1..m : so[k] = Narrower(so[k - 1], items)
              /\ Shrink(widths, items) = so[m]
<1> DEFINE n == m
           D == Spans
           Start == widths
           Step(x, k) == Narrower(x, items)
           Is(f) == f = [s \in SUBSET (1..n) |->
                        IF s = {} THEN Start ELSE Step(f[s \ {Max(s)}], Max(s))]
           iter == CHOOSE f : Is(f)
<1>1. n \in Nat
    OBVIOUS
<1>2. Shrink(widths, items) = iter[1..n]
    BY DEF TooMany, Shrink, FoldLeft, MapThenFoldSet
<1>3. Start \in D /\ \A k \in 1..n : \A x \in D : Step(x, k) \in D
    BY NarrowerTyped
<1>4. Is(iter)
  <2> DEFINE step == [k \in 1..n |-> [x \in D |-> Step(x, k)]]
  <2>1. \A k \in 1..n : \A x \in D : step[k][x] = Step(x, k) /\ step[k][x] \in D
    BY <1>3
  <2> HIDE DEF n, step, D, Step, Start
  <2>2. PICK f \in [SUBSET (1..n) -> D] : Folds(f, n, Start, step)
    BY <1>1, <1>3, <2>1, FoldExists
  <2>3. \A s \in SUBSET (1..n) : s # {} => Max(s) \in 1..n /\ s \ {Max(s)} \in SUBSET (1..n)
    BY <1>1, MaxOf
  <2>4. \A s \in SUBSET (1..n) :
            f[s] = IF s = {} THEN Start ELSE Step(f[s \ {Max(s)}], Max(s))
    BY <2>1, <2>2, <2>3 DEF Folds
  <2>5. Is(f)
    BY <2>2, <2>4
  <2> HIDE DEF Is
  <2> QED
    BY <2>5
<1> HIDE DEF iter, n, D, Step, Start
<1> DEFINE All == D \cup {iter[s] : s \in SUBSET (1..n)}
           step == [k \in 1..n |-> [x \in All |-> Step(x, k)]]
<1>5. \A k \in 1..n : \A x \in All : step[k][x] = Step(x, k)
    OBVIOUS
<1> HIDE DEF step
<1>6. Folds(iter, n, Start, step)
  <2>1. \A s \in SUBSET (1..n) : s # {} => Max(s) \in 1..n /\ iter[s \ {Max(s)}] \in All
    BY <1>1, MaxOf
  <2>2. /\ iter = [s \in SUBSET (1..n) |-> iter[s]]
        /\ \A s \in SUBSET (1..n) :
               iter[s] = IF s = {} THEN Start ELSE Step(iter[s \ {Max(s)}], Max(s))
    BY <1>4
  <2> HIDE DEF All, Is
  <2>3. \A s \in SUBSET (1..n) :
            iter[s] = IF s = {} THEN Start ELSE step[Max(s)][iter[s \ {Max(s)}]]
    BY <1>5, <2>1, <2>2
  <2> QED
    BY <2>2, <2>3 DEF Folds
<1>7. PICK so \in [0..n -> D] : Climbs(so, iter, n, Start, step)
  <2>1. \A k \in 1..n : \A x \in D : step[k][x] \in D
    BY <1>3, <1>5
  <2> QED
    BY <1>1, <1>3, <1>6, <2>1, FoldClimbs
<1>8. \A k \in 1..n : so[k] = Step(so[k - 1], k)
  <2>1. \A k \in 1..n : k - 1 \in 0..n /\ so[k - 1] \in All
    BY <1>1
  <2> QED
    BY <1>5, <1>7, <2>1 DEF Climbs
<1>9. so[0] = Start /\ iter[1..n] = so[n]
    BY <1>7 DEF Climbs
<1> USE DEF n, D, Step, Start
<1> QED
    BY <1>2, <1>8, <1>9

\* Giving way, a row's blocks keep widths of the canvas.
LEMMA ShrinkTyped ==
    ASSUME NEW widths \in Spans, NEW items \in Seq(Blocks)
    PROVE  Shrink(widths, items) \in Spans
<1> DEFINE m == TotalOf(widths, items) - Columns
<1>1. m \in Int
  <2>1. widths \in [Blocks -> Nat]
    BY SpansAreCounts
  <2>2. TotalOf(widths, items) \in Nat
    BY <2>1, TotalBounds
  <2> QED
    BY <2>2, Sizes
<1> HIDE DEF m
<1>2. PICK n \in Nat : 1..m = 1..n
  <2>1. CASE m >= 0
    BY <1>1, <2>1
  <2>2. CASE m < 0
    <3>1. 1..m = 1..0
      BY <1>1, <2>2
    <3> QED
      BY <3>1
  <2> QED
    BY <1>1, <2>1, <2>2
<1>3. PICK so \in [0..n -> Spans] : Shrink(widths, items) = so[n]
  <2>1. TooMany(widths, items, n)
    BY <1>2 DEF m, TooMany
  <2> QED
    BY <2>1, ShrinkSteps
<1> QED
    BY <1>3

\* A block that takes a column takes it from what the row has left.
LEMMA WiderBounds ==
    ASSUME NEW widths \in [Blocks -> Nat], NEW items \in Seq(Blocks), IsInjective(items), NEW wanted
    PROVE  /\ Wider(widths, items, wanted) \in [Blocks -> Nat]
           /\ \A b \in Blocks : b \notin ToSet(items) => Wider(widths, items, wanted)[b] = widths[b]
           /\ TotalOf(Wider(widths, items, wanted), items) <= TotalOf(widths, items) + 1
<1> DEFINE taking == Among(items, Blocks \ Locked)
           first == Neediest(widths, wanted, taking)
<1>1. taking \in Seq(Blocks) /\ ToSet(taking) \subseteq ToSet(items)
    BY AmongIs
<1>2. Wider(widths, items, wanted) = IF taking = <<>> THEN widths
                                     ELSE [widths EXCEPT ![first] = @ + 1]
    BY DEF Wider
<1>3. TotalOf(widths, items) \in Nat
    BY TotalBounds
<1> HIDE DEF taking
<1>4. CASE taking = <<>>
    BY <1>2, <1>3, <1>4
<1>5. CASE taking # <<>>
  <2>1. first \in ToSet(taking)
    <3>1. PICK so \in [0..Len(taking) -> ToSet(taking)] : first = so[Len(taking)]
      <4>1. PICK so \in [0..Len(taking) -> ToSet(taking)] :
                Neediest(widths, wanted, taking) = so[Len(taking)]
        BY <1>1, <1>5, NeediestSteps
      <4> QED
        BY <4>1
    <3>2. Len(taking) \in 0..Len(taking)
      BY <1>1
    <3> QED
      BY <3>1, <3>2
  <2> HIDE DEF first
  <2>2. first \in ToSet(items) /\ first \in Blocks
    <3>1. \A b \in ToSet(items) : b \in Blocks
      BY DEF ToSet
    <3> QED
      BY <1>1, <2>1, <3>1
  <2> DEFINE more == [widths EXCEPT ![first] = @ + 1]
  <2>3. more \in [Blocks -> Nat] /\ \A b \in Blocks : more[b] = IF b = first THEN widths[b] + 1 ELSE widths[b]
    BY <2>2
  <2>4. Wider(widths, items, wanted) = more
    BY <1>2, <1>5
  <2> HIDE DEF more
  <2>5. TotalOf(more, items) = TotalOf(widths, items) + 1
    BY <2>2, <2>3, TotalOfWider
  <2> QED
    BY <1>3, <2>2, <2>3, <2>4, <2>5
<1> QED
    BY <1>4, <1>5

\* Columns taken, one after the other.
LEMMA GrowSteps ==
    ASSUME NEW widths \in [Blocks -> Nat], NEW items \in Seq(Blocks), IsInjective(items), NEW wanted,
           NEW m \in Nat, TooFew(widths, items, m)
    PROVE  Growing(widths, items, wanted, m)
<1> DEFINE n == m
           D == [Blocks -> Nat]
           Start == widths
           Step(x, k) == Wider(x, items, wanted)
           Is(f) == f = [s \in SUBSET (1..n) |->
                        IF s = {} THEN Start ELSE Step(f[s \ {Max(s)}], Max(s))]
           iter == CHOOSE f : Is(f)
<1>1. n \in Nat
    OBVIOUS
<1>2. Grow(widths, items, wanted) = iter[1..n]
    BY DEF TooFew, Grow, FoldLeft, MapThenFoldSet
<1>3. Start \in D /\ \A k \in 1..n : \A x \in D : Step(x, k) \in D
    BY WiderBounds
<1>4. Is(iter)
  <2> DEFINE step == [k \in 1..n |-> [x \in D |-> Step(x, k)]]
  <2>1. \A k \in 1..n : \A x \in D : step[k][x] = Step(x, k) /\ step[k][x] \in D
    BY <1>3
  <2> HIDE DEF n, step, D, Step, Start
  <2>2. PICK f \in [SUBSET (1..n) -> D] : Folds(f, n, Start, step)
    BY <1>1, <1>3, <2>1, FoldExists
  <2>3. \A s \in SUBSET (1..n) : s # {} => Max(s) \in 1..n /\ s \ {Max(s)} \in SUBSET (1..n)
    BY <1>1, MaxOf
  <2>4. \A s \in SUBSET (1..n) :
            f[s] = IF s = {} THEN Start ELSE Step(f[s \ {Max(s)}], Max(s))
    BY <2>1, <2>2, <2>3 DEF Folds
  <2>5. Is(f)
    BY <2>2, <2>4
  <2> HIDE DEF Is
  <2> QED
    BY <2>5
<1> HIDE DEF iter, n, D, Step, Start
<1> DEFINE All == D \cup {iter[s] : s \in SUBSET (1..n)}
           step == [k \in 1..n |-> [x \in All |-> Step(x, k)]]
<1>5. \A k \in 1..n : \A x \in All : step[k][x] = Step(x, k)
    OBVIOUS
<1> HIDE DEF step
<1>6. Folds(iter, n, Start, step)
  <2>1. \A s \in SUBSET (1..n) : s # {} => Max(s) \in 1..n /\ iter[s \ {Max(s)}] \in All
    BY <1>1, MaxOf
  <2>2. /\ iter = [s \in SUBSET (1..n) |-> iter[s]]
        /\ \A s \in SUBSET (1..n) :
               iter[s] = IF s = {} THEN Start ELSE Step(iter[s \ {Max(s)}], Max(s))
    BY <1>4
  <2> HIDE DEF All, Is
  <2>3. \A s \in SUBSET (1..n) :
            iter[s] = IF s = {} THEN Start ELSE step[Max(s)][iter[s \ {Max(s)}]]
    BY <1>5, <2>1, <2>2
  <2> QED
    BY <2>2, <2>3 DEF Folds
<1>7. PICK so \in [0..n -> D] : Climbs(so, iter, n, Start, step)
  <2>1. \A k \in 1..n : \A x \in D : step[k][x] \in D
    BY <1>3, <1>5
  <2> QED
    BY <1>1, <1>3, <1>6, <2>1, FoldClimbs
<1>8. \A k \in 1..n : so[k] = Step(so[k - 1], k)
  <2>1. \A k \in 1..n : k - 1 \in 0..n /\ so[k - 1] \in All
    BY <1>1
  <2> QED
    BY <1>5, <1>7, <2>1 DEF Climbs
<1>9. so[0] = Start /\ iter[1..n] = so[n]
    BY <1>7 DEF Climbs
<1> USE DEF n, D, Step, Start
<1> QED
    BY <1>2, <1>8, <1>9 DEF Growing

\* Taking what is left, a row's blocks keep widths of the canvas.
LEMMA GrowTyped ==
    ASSUME NEW widths \in Spans, NEW items \in Seq(Blocks), IsInjective(items), NEW wanted
    PROVE  Grow(widths, items, wanted) \in Spans
<1> DEFINE total == TotalOf(widths, items)
           m == Columns - total
<1>1. total \in Nat /\ m \in Int /\ widths \in [Blocks -> Nat]
  <2>1. widths \in [Blocks -> Nat]
    BY SpansAreCounts
  <2>2. total \in Nat
    BY <2>1, TotalBounds
  <2> QED
    BY <2>1, <2>2, Sizes
<1> HIDE DEF total, m
<1>2. PICK n \in Nat : 1..m = 1..n /\ (n > 0 => n = m)
  <2>1. CASE m >= 0
    <3>1. m \in Nat
      BY <1>1, <2>1
    <3> QED
      BY <3>1
  <2>2. CASE m < 0
    <3>1. 1..m = 1..0 /\ ~(0 > 0)
      BY <1>1, <2>2
    <3>2. 0 \in Nat
      OBVIOUS
    <3> QED
      BY <3>1, <3>2
  <2> QED
    BY <1>1, <2>1, <2>2
<1>3. PICK so \in [0..n -> [Blocks -> Nat]] :
         /\ so[0] = widths
         /\ \A k \in 1..n : so[k] = Wider(so[k - 1], items, wanted)
         /\ Grow(widths, items, wanted) = so[n]
  <2>1. TooFew(widths, items, n)
    BY <1>2 DEF m, total, TooFew
  <2>2. Growing(widths, items, wanted, n)
    BY <1>1, <2>1, GrowSteps
  <2> QED
    BY <2>2 DEF Growing
<1> DEFINE J == [k \in 0..n |-> {w \in [Blocks -> Nat] :
                     /\ \A b \in Blocks : b \notin ToSet(items) => w[b] = widths[b]
                     /\ TotalOf(w, items) <= total + k}]
<1>4. so[0] \in J[0]
    BY <1>1, <1>3 DEF total
<1>5. ASSUME NEW k \in 1..n, so[k - 1] \in J[k - 1]
      PROVE  so[k] \in J[k]
  <2>1. k - 1 \in 0..n /\ k \in 0..n /\ k \in Nat
    BY <1>2
  <2> DEFINE w == so[k - 1]
  <2>2. /\ w \in [Blocks -> Nat] /\ TotalOf(w, items) <= total + (k - 1)
        /\ \A b \in Blocks : b \notin ToSet(items) => w[b] = widths[b]
    BY <1>5, <2>1
  <2>3. so[k] = Wider(w, items, wanted) /\ so[k] \in [Blocks -> Nat]
    BY <1>3, <2>1
  <2> HIDE DEF w
  <2>4. TotalOf(w, items) \in Nat /\ TotalOf(so[k], items) \in Nat
    BY <2>2, <2>3, TotalBounds
  <2>5. TotalOf(so[k], items) <= TotalOf(w, items) + 1
    BY <2>2, <2>3, WiderBounds
  <2>6. \A b \in Blocks : b \notin ToSet(items) => so[k][b] = widths[b]
    <3>1. \A b \in Blocks : b \notin ToSet(items) => Wider(w, items, wanted)[b] = w[b]
      BY <2>2, WiderBounds
    <3> QED
      BY <2>2, <2>3, <3>1
  <2>7. TotalOf(so[k], items) <= total + k
    BY <1>1, <2>1, <2>2, <2>4, <2>5
  <2> QED
    BY <2>1, <2>3, <2>6, <2>7
<1>6. so[n] \in J[n]
  <2>1. \A k \in 0..n : so[k] \in J[k]
    <3> HIDE DEF J
    <3> QED
      BY <1>2, <1>4, <1>5, Steps
  <2> HIDE DEF J
  <2> QED
    BY <1>2, <2>1
<1>7. CASE n = 0
    BY <1>3, <1>7
<1>8. CASE n > 0
  <2>1. /\ so[n] \in [Blocks -> Nat] /\ TotalOf(so[n], items) <= total + n
        /\ \A b \in Blocks : b \notin ToSet(items) => so[n][b] = widths[b]
    BY <1>6
  <2>2. total + n = Columns
    BY <1>1, <1>2, <1>8, Sizes DEF m
  <2>3. TotalOf(so[n], items) \in Nat /\ \A b \in ToSet(items) : so[n][b] <= TotalOf(so[n], items)
    BY <2>1, TotalBounds
  <2>4. \A b \in Blocks : so[n][b] \in 0..Columns
    <3> TAKE b \in Blocks
    <3>1. so[n][b] \in Nat
      BY <2>1
    <3>2. CASE b \in ToSet(items)
      <4>1. so[n][b] <= TotalOf(so[n], items)
        BY <2>3, <3>2
      <4> QED
        BY <2>1, <2>2, <2>3, <3>1, <4>1, Sizes
    <3>3. CASE b \notin ToSet(items)
      BY <2>1, <3>1, <3>3, SpansAreCounts, Sizes
    <3> QED
      BY <3>2, <3>3
  <2> QED
    BY <1>3, <2>1, <2>4 DEF Spans
<1> QED
    BY <1>2, <1>7, <1>8

\* A balanced row's blocks have widths of the canvas.
LEMMA RebalanceTyped ==
    ASSUME NEW items \in Seq(Blocks), IsInjective(items), NEW current \in Spans,
           NEW preferred \in Spans, NEW fill, NEW most
    PROVE  RebalanceBlockRow(items, current, preferred, fill, most) \in Spans
<1> DEFINE AtLeast(b, width) == IF width > Minimum[b] THEN width ELSE Minimum[b]
           wanted == [b \in Blocks |-> AtLeast(b, Over(Over(AuthoredSpan, current), preferred)[b])]
           begin == [b \in Blocks |-> IF b \notin ToSet(items) THEN 0
                                      ELSE AtLeast(b, Over(wanted, current)[b])]
           fitted == Shrink(begin, items)
<1>1. \A b \in Blocks, width \in 0..Columns : AtLeast(b, width) \in 0..Columns
    BY Sizes
<1>2. Over(Over(AuthoredSpan, current), preferred) \in Spans
    BY OverTyped, Sizes
<1>3. wanted \in Spans
  <2> HIDE DEF AtLeast
  <2> QED
    BY <1>1, <1>2 DEF Spans
<1> HIDE DEF wanted
<1>4. Over(wanted, current) \in Spans
    BY <1>3, OverTyped
<1>5. begin \in Spans
  <2> HIDE DEF AtLeast
  <2> QED
    BY <1>1, <1>4, Sizes DEF Spans
<1> HIDE DEF begin
<1>6. fitted \in Spans
    BY <1>5, ShrinkTyped
<1> HIDE DEF fitted
<1>7. Grow(fitted, items, wanted) \in Spans
    BY <1>6, GrowTyped
<1>8. RebalanceBlockRow(items, current, preferred, fill, most) \in
          {NoWidths, Grow(fitted, items, wanted), fitted}
    BY DEF RebalanceBlockRow, fitted, begin, wanted
<1> QED
    BY <1>6, <1>7, <1>8, Sizes

\* A row that is balanced has widths no greater than the canvas, and so has
\* one that cannot be.
LEMMA BalancedRowTyped ==
    ASSUME NEW items \in Seq(Blocks), IsInjective(items), NEW layout,
           layout.preferred \in Spans, layout.solo \in Spans, NEW widths \in Spans, NEW most
    PROVE  BalancedRow(items, layout, widths, most) \in Spans
<1>1. (IF Len(items) = 1 THEN Over(widths, layout.solo) ELSE widths) \in Spans
    BY OverTyped
<1> QED
    BY <1>1, RebalanceTyped DEF BalancedRow

-----------------------------------------------------------------------------
(* What is stored, and what is shown of it.                                *)

\* Rows with every block of the region.
Wholes == {rows \in Rows : Partition(rows, Blocks)}

Stored == [rows : Wholes, spans : Spans, preferred : Spans, solo : Spans]

Values == [layout : Stored \cup {NoLayout}, hidden : SUBSET Blocks]

\* The authored rows are a layout of every block.
LEMMA Authored ==
    /\ AuthoredRows \in Wholes /\ RowIds(AuthoredRows) \subseteq RowId
    /\ Len(AuthoredRows) \in Nat /\ DOMAIN AuthoredRows = 1..Len(AuthoredRows)
<1>1. AuthoredRows \in Seq([id : RowIds(AuthoredRows), items : Seq(Blocks)])
    BY LayoutAssumption
<1>2. RowIds(AuthoredRows) \subseteq RowId
    BY DEF RowId
<1>3. \A row \in [id : RowIds(AuthoredRows), items : Seq(Blocks)] : row \in Row
    BY <1>2 DEF Row
<1>4. AuthoredRows \in Rows
  <2>1. /\ Len(AuthoredRows) \in Nat /\ AuthoredRows = [i \in 1..Len(AuthoredRows) |-> AuthoredRows[i]]
        /\ \A i \in 1..Len(AuthoredRows) : AuthoredRows[i] \in [id : RowIds(AuthoredRows), items : Seq(Blocks)]
    <3> DEFINE X == [id : RowIds(AuthoredRows), items : Seq(Blocks)]
    <3>1. AuthoredRows \in Seq(X)
      BY <1>1
    <3> HIDE DEF X
    <3>2. /\ Len(AuthoredRows) \in Nat /\ DOMAIN AuthoredRows = 1..Len(AuthoredRows)
          /\ AuthoredRows \in [1..Len(AuthoredRows) -> X]
      BY <3>1
    <3>3. AuthoredRows = [i \in 1..Len(AuthoredRows) |-> AuthoredRows[i]]
      BY <3>2
    <3> QED
      BY <3>2, <3>3 DEF X
  <2>2. AuthoredRows \in [1..Len(AuthoredRows) -> Row]
    BY <1>3, <2>1
  <2> QED
    BY <2>1, <2>2 DEF Rows
<1> QED
    BY <1>2, <1>4, RowsTyped, LayoutAssumption DEF Wholes

\* An authored row put back is empty: no block is in two rows for it.
LEMMA ReinsertWhole ==
    ASSUME NEW rows \in Wholes, NEW i \in 1..Len(AuthoredRows)
    PROVE  Reinsert(rows, i) \in Wholes
<1> DEFINE row == [id |-> AuthoredRows[i].id, items |-> <<>>]
           next == IF i = Len(AuthoredRows) THEN 0 ELSE IndexOfRow(rows, AuthoredRows[i + 1].id)
           at == IF next = 0 THEN Len(rows) + 1 ELSE next
<1>1. rows \in Rows /\ Partition(rows, Blocks)
    BY DEF Wholes
<1>2. Len(rows) \in Nat
    BY <1>1, RowsTyped
<1>3. next \in 0..Len(rows)
    BY <1>1, <1>2, RowFound
<1> HIDE DEF next
<1>4. at \in 1..(Len(rows) + 1)
    BY <1>2, <1>3
<1>5. row \in Row /\ row.id = AuthoredRows[i].id /\ row.items = <<>>
  <2>1. AuthoredRows[i].id \in RowId
    BY Authored, RowsTyped DEF Wholes
  <2>2. <<>> \in Seq(Blocks)
    OBVIOUS
  <2> QED
    BY <2>1, <2>2 DEF Row
<1>6. ToSet(<<>>) = {} /\ IsInjective(<<>>)
    BY DEF ToSet, IsInjective
<1>7. Reinsert(rows, i) = IF AuthoredRows[i].id \in RowIds(rows) THEN rows ELSE InsertAt(rows, at, row)
    BY DEF Reinsert, next
<1> HIDE DEF at, row
<1>8. CASE AuthoredRows[i].id \in RowIds(rows)
    BY <1>7, <1>8
<1>9. CASE AuthoredRows[i].id \notin RowIds(rows)
  <2>1. /\ row.id \notin RowIds(rows) /\ IsInjective(row.items)
        /\ ToSet(row.items) = {} /\ ToSet(row.items) \cap Blocks = {}
    BY <1>5, <1>6, <1>9
  <2>2. Blocks = Blocks \cup ToSet(row.items)
    BY <2>1
  <2>3. InsertAt(rows, at, row) \in Rows /\ Partition(InsertAt(rows, at, row), Blocks)
    BY <1>1, <1>4, <1>5, <2>1, <2>2, RowInserted
  <2> QED
    BY <1>7, <1>9, <2>3 DEF Wholes
<1> QED
    BY <1>8, <1>9

\* Authored rows put back, the last first.
LEMMA CompletedSteps ==
    ASSUME NEW saved \in Wholes
    PROVE  \E so \in [0..Len(AuthoredRows) -> Wholes] :
              /\ so[0] = saved
              /\ \A k \in 1..Len(AuthoredRows) : so[k] =
                          Reinsert(so[k - 1],
                           [last \in 1..Len(AuthoredRows) |-> Len(AuthoredRows) + 1 - last][k])
              /\ Completed(saved) = so[Len(AuthoredRows)]
<1> DEFINE n == Len(AuthoredRows)
           D == Wholes
           Start == saved
           Step(x, k) == Reinsert(x,
                           [last \in 1..Len(AuthoredRows) |-> Len(AuthoredRows) + 1 - last][k])
           Is(f) == f = [s \in SUBSET (1..n) |->
                        IF s = {} THEN Start ELSE Step(f[s \ {Max(s)}], Max(s))]
           iter == CHOOSE f : Is(f)
<1>1. n \in Nat
    BY Authored
<1>2. Completed(saved) = iter[1..n]
    BY DEF Completed, FoldLeft, MapThenFoldSet
<1>3. Start \in D /\ \A k \in 1..n : \A x \in D : Step(x, k) \in D
  <2>1. \A k \in 1..n : [last \in 1..Len(AuthoredRows) |-> Len(AuthoredRows) + 1 - last][k] \in 1..n
    BY Authored
  <2> QED
    BY <2>1, ReinsertWhole
<1>4. Is(iter)
  <2> DEFINE step == [k \in 1..n |-> [x \in D |-> Step(x, k)]]
  <2>1. \A k \in 1..n : \A x \in D : step[k][x] = Step(x, k) /\ step[k][x] \in D
    BY <1>3
  <2> HIDE DEF n, step, D, Step, Start
  <2>2. PICK f \in [SUBSET (1..n) -> D] : Folds(f, n, Start, step)
    BY <1>1, <1>3, <2>1, FoldExists
  <2>3. \A s \in SUBSET (1..n) : s # {} => Max(s) \in 1..n /\ s \ {Max(s)} \in SUBSET (1..n)
    BY <1>1, MaxOf
  <2>4. \A s \in SUBSET (1..n) :
            f[s] = IF s = {} THEN Start ELSE Step(f[s \ {Max(s)}], Max(s))
    BY <2>1, <2>2, <2>3 DEF Folds
  <2>5. Is(f)
    BY <2>2, <2>4
  <2> HIDE DEF Is
  <2> QED
    BY <2>5
<1> HIDE DEF iter, n, D, Step, Start
<1> DEFINE All == D \cup {iter[s] : s \in SUBSET (1..n)}
           step == [k \in 1..n |-> [x \in All |-> Step(x, k)]]
<1>5. \A k \in 1..n : \A x \in All : step[k][x] = Step(x, k)
    OBVIOUS
<1> HIDE DEF step
<1>6. Folds(iter, n, Start, step)
  <2>1. \A s \in SUBSET (1..n) : s # {} => Max(s) \in 1..n /\ iter[s \ {Max(s)}] \in All
    BY <1>1, MaxOf
  <2>2. /\ iter = [s \in SUBSET (1..n) |-> iter[s]]
        /\ \A s \in SUBSET (1..n) :
               iter[s] = IF s = {} THEN Start ELSE Step(iter[s \ {Max(s)}], Max(s))
    BY <1>4
  <2> HIDE DEF All, Is
  <2>3. \A s \in SUBSET (1..n) :
            iter[s] = IF s = {} THEN Start ELSE step[Max(s)][iter[s \ {Max(s)}]]
    BY <1>5, <2>1, <2>2
  <2> QED
    BY <2>2, <2>3 DEF Folds
<1>7. PICK so \in [0..n -> D] : Climbs(so, iter, n, Start, step)
  <2>1. \A k \in 1..n : \A x \in D : step[k][x] \in D
    BY <1>3, <1>5
  <2> QED
    BY <1>1, <1>3, <1>6, <2>1, FoldClimbs
<1>8. \A k \in 1..n : so[k] = Step(so[k - 1], k)
  <2>1. \A k \in 1..n : k - 1 \in 0..n /\ so[k - 1] \in All
    BY <1>1
  <2> QED
    BY <1>5, <1>7, <2>1 DEF Climbs
<1>9. so[0] = Start /\ iter[1..n] = so[n]
    BY <1>7 DEF Climbs
<1> USE DEF n, D, Step, Start
<1> QED
    BY <1>2, <1>8, <1>9

\* Rows that have every block have nothing to be placed.
LEMMA PlaceWhole ==
    ASSUME NEW rows \in Wholes, NEW b \in Blocks
    PROVE  Place(rows, b) = rows
    BY DEF Wholes, Partition, Place

\* The blocks in their authored order.
LEMMA AuthoredBlocks ==
    /\ BlocksIn(AuthoredRows) \in Seq(Blocks) /\ Len(BlocksIn(AuthoredRows)) \in Nat
    /\ DOMAIN BlocksIn(AuthoredRows) = 1..Len(BlocksIn(AuthoredRows))
    /\ \A k \in 1..Len(BlocksIn(AuthoredRows)) : BlocksIn(AuthoredRows)[k] \in Blocks
<1>1. BlocksIn(AuthoredRows) \in Seq(Blocks)
    BY Authored, BlocksInOnce DEF Wholes
<1> QED
    BY <1>1

\* Blocks placed, one after the other.
LEMMA PlaceSteps ==
    ASSUME NEW rows \in Wholes
    PROVE  \E so \in [0..Len(BlocksIn(AuthoredRows)) -> Wholes] :
              /\ so[0] = rows
              /\ \A k \in 1..Len(BlocksIn(AuthoredRows)) : so[k] = Place(so[k - 1], BlocksIn(AuthoredRows)[k])
              /\ FoldLeft(Place, rows, BlocksIn(AuthoredRows)) = so[Len(BlocksIn(AuthoredRows))]
<1> DEFINE n == Len(BlocksIn(AuthoredRows))
           D == Wholes
           Start == rows
           Step(x, k) == Place(x, BlocksIn(AuthoredRows)[k])
           Is(f) == f = [s \in SUBSET (1..n) |->
                        IF s = {} THEN Start ELSE Step(f[s \ {Max(s)}], Max(s))]
           iter == CHOOSE f : Is(f)
<1>1. n \in Nat
    BY AuthoredBlocks
<1>2. FoldLeft(Place, rows, BlocksIn(AuthoredRows)) = iter[1..n]
    BY AuthoredBlocks DEF FoldLeft, MapThenFoldSet
<1>3. Start \in D /\ \A k \in 1..n : \A x \in D : Step(x, k) \in D
    BY PlaceWhole, AuthoredBlocks
<1>4. Is(iter)
  <2> DEFINE step == [k \in 1..n |-> [x \in D |-> Step(x, k)]]
  <2>1. \A k \in 1..n : \A x \in D : step[k][x] = Step(x, k) /\ step[k][x] \in D
    BY <1>3
  <2> HIDE DEF n, step, D, Step, Start
  <2>2. PICK f \in [SUBSET (1..n) -> D] : Folds(f, n, Start, step)
    BY <1>1, <1>3, <2>1, FoldExists
  <2>3. \A s \in SUBSET (1..n) : s # {} => Max(s) \in 1..n /\ s \ {Max(s)} \in SUBSET (1..n)
    BY <1>1, MaxOf
  <2>4. \A s \in SUBSET (1..n) :
            f[s] = IF s = {} THEN Start ELSE Step(f[s \ {Max(s)}], Max(s))
    BY <2>1, <2>2, <2>3 DEF Folds
  <2>5. Is(f)
    BY <2>2, <2>4
  <2> HIDE DEF Is
  <2> QED
    BY <2>5
<1> HIDE DEF iter, n, D, Step, Start
<1> DEFINE All == D \cup {iter[s] : s \in SUBSET (1..n)}
           step == [k \in 1..n |-> [x \in All |-> Step(x, k)]]
<1>5. \A k \in 1..n : \A x \in All : step[k][x] = Step(x, k)
    OBVIOUS
<1> HIDE DEF step
<1>6. Folds(iter, n, Start, step)
  <2>1. \A s \in SUBSET (1..n) : s # {} => Max(s) \in 1..n /\ iter[s \ {Max(s)}] \in All
    BY <1>1, MaxOf
  <2>2. /\ iter = [s \in SUBSET (1..n) |-> iter[s]]
        /\ \A s \in SUBSET (1..n) :
               iter[s] = IF s = {} THEN Start ELSE Step(iter[s \ {Max(s)}], Max(s))
    BY <1>4
  <2> HIDE DEF All, Is
  <2>3. \A s \in SUBSET (1..n) :
            iter[s] = IF s = {} THEN Start ELSE step[Max(s)][iter[s \ {Max(s)}]]
    BY <1>5, <2>1, <2>2
  <2> QED
    BY <2>2, <2>3 DEF Folds
<1>7. PICK so \in [0..n -> D] : Climbs(so, iter, n, Start, step)
  <2>1. \A k \in 1..n : \A x \in D : step[k][x] \in D
    BY <1>3, <1>5
  <2> QED
    BY <1>1, <1>3, <1>6, <2>1, FoldClimbs
<1>8. \A k \in 1..n : so[k] = Step(so[k - 1], k)
  <2>1. \A k \in 1..n : k - 1 \in 0..n /\ so[k - 1] \in All
    BY <1>1
  <2> QED
    BY <1>5, <1>7, <2>1 DEF Climbs
<1>9. so[0] = Start /\ iter[1..n] = so[n]
    BY <1>7 DEF Climbs
<1> USE DEF n, D, Step, Start
<1> QED
    BY <1>2, <1>8, <1>9

\* The rows of a value have each block once.
LEMMA FullRowsWhole ==
    ASSUME NEW value \in Values
    PROVE  FullRows(value) \in Wholes
<1>1. ASSUME NEW rows \in Wholes
      PROVE  ReconcileBlockRows(rows) \in Wholes
  <2>1. Completed(rows) \in Wholes
    <3>1. PICK so \in [0..Len(AuthoredRows) -> Wholes] : Completed(rows) = so[Len(AuthoredRows)]
      BY CompletedSteps
    <3> QED
      BY <3>1, Authored
  <2>2. PICK so \in [0..Len(BlocksIn(AuthoredRows)) -> Wholes] :
           FoldLeft(Place, Completed(rows), BlocksIn(AuthoredRows)) = so[Len(BlocksIn(AuthoredRows))]
    BY <2>1, PlaceSteps
  <2>3. so[Len(BlocksIn(AuthoredRows))] \in Wholes
    BY AuthoredBlocks
  <2> QED
    BY <2>2, <2>3 DEF ReconcileBlockRows
<1>2. value.layout \in Stored \cup {NoLayout}
    BY DEF Values
<1>3. CASE value.layout = NoLayout
    BY <1>3, Authored DEF FullRows
<1>4. CASE value.layout # NoLayout
  <2>1. value.layout.rows \in Wholes
    BY <1>2, <1>4 DEF Stored
  <2> QED
    BY <1>1, <1>4, <2>1 DEF FullRows
<1> QED
    BY <1>3, <1>4

\* The widths of what is stored, or of nothing, are widths.
LEMMA SavedTyped ==
    ASSUME NEW value \in Values
    PROVE  Saved(value, "spans") \in Spans /\ Saved(value, "preferred") \in Spans /\ Saved(value, "solo") \in Spans
<1>1. value.layout \in Stored \cup {NoLayout}
    BY DEF Values
<1>2. value.layout # NoLayout =>
         /\ value.layout["spans"] \in Spans /\ value.layout["preferred"] \in Spans
         /\ value.layout["solo"] \in Spans
    BY <1>1 DEF Stored
<1> QED
    BY <1>2, Sizes DEF Saved

\* The rows of a layout balanced, one after the other.
LEMMA BalancedSteps ==
    ASSUME NEW layout, layout.rows \in Rows, NEW S, Partition(layout.rows, S), layout.spans \in Spans,
           layout.preferred \in Spans, layout.solo \in Spans
    PROVE  \E so \in [0..Len(layout.rows) -> Spans] :
              /\ so[0] = layout.spans
              /\ \A k \in 1..Len(layout.rows) : so[k] =
                          Over(so[k - 1],
                           BalancedRow(layout.rows[k].items, layout, layout.spans, Cardinality(Blocks)))
              /\ Balanced(layout) = so[Len(layout.rows)]
<1> DEFINE n == Len(layout.rows)
           D == Spans
           Start == layout.spans
           Step(x, k) == Over(x,
                           BalancedRow(layout.rows[k].items, layout, layout.spans, Cardinality(Blocks)))
           Is(f) == f = [s \in SUBSET (1..n) |->
                        IF s = {} THEN Start ELSE Step(f[s \ {Max(s)}], Max(s))]
           iter == CHOOSE f : Is(f)
<1>1. n \in Nat
    BY RowsTyped
<1>2. Balanced(layout) = iter[1..n]
  <2>1. DOMAIN layout.rows = 1..n
    BY RowsTyped
  <2> QED
    BY <2>1 DEF Balanced, FoldLeft, MapThenFoldSet
<1>3. Start \in D /\ \A k \in 1..n : \A x \in D : Step(x, k) \in D
  <2>1. \A k \in 1..n : IsInjective(layout.rows[k].items) /\ layout.rows[k].items \in Seq(Blocks)
    BY RowsTyped DEF Partition
  <2>2. \A k \in 1..n : BalancedRow(layout.rows[k].items, layout, layout.spans, Cardinality(Blocks)) \in Spans
    <3> HIDE DEF n
    <3> QED
      BY <2>1, BalancedRowTyped
  <2> HIDE DEF n
  <2> QED
    BY <2>2, OverTyped
<1>4. Is(iter)
  <2> DEFINE step == [k \in 1..n |-> [x \in D |-> Step(x, k)]]
  <2>1. \A k \in 1..n : \A x \in D : step[k][x] = Step(x, k) /\ step[k][x] \in D
    BY <1>3
  <2> HIDE DEF n, step, D, Step, Start
  <2>2. PICK f \in [SUBSET (1..n) -> D] : Folds(f, n, Start, step)
    BY <1>1, <1>3, <2>1, FoldExists
  <2>3. \A s \in SUBSET (1..n) : s # {} => Max(s) \in 1..n /\ s \ {Max(s)} \in SUBSET (1..n)
    BY <1>1, MaxOf
  <2>4. \A s \in SUBSET (1..n) :
            f[s] = IF s = {} THEN Start ELSE Step(f[s \ {Max(s)}], Max(s))
    BY <2>1, <2>2, <2>3 DEF Folds
  <2>5. Is(f)
    BY <2>2, <2>4
  <2> HIDE DEF Is
  <2> QED
    BY <2>5
<1> HIDE DEF iter, n, D, Step, Start
<1> DEFINE All == D \cup {iter[s] : s \in SUBSET (1..n)}
           step == [k \in 1..n |-> [x \in All |-> Step(x, k)]]
<1>5. \A k \in 1..n : \A x \in All : step[k][x] = Step(x, k)
    OBVIOUS
<1> HIDE DEF step
<1>6. Folds(iter, n, Start, step)
  <2>1. \A s \in SUBSET (1..n) : s # {} => Max(s) \in 1..n /\ iter[s \ {Max(s)}] \in All
    BY <1>1, MaxOf
  <2>2. /\ iter = [s \in SUBSET (1..n) |-> iter[s]]
        /\ \A s \in SUBSET (1..n) :
               iter[s] = IF s = {} THEN Start ELSE Step(iter[s \ {Max(s)}], Max(s))
    BY <1>4
  <2> HIDE DEF All, Is
  <2>3. \A s \in SUBSET (1..n) :
            iter[s] = IF s = {} THEN Start ELSE step[Max(s)][iter[s \ {Max(s)}]]
    BY <1>5, <2>1, <2>2
  <2> QED
    BY <2>2, <2>3 DEF Folds
<1>7. PICK so \in [0..n -> D] : Climbs(so, iter, n, Start, step)
  <2>1. \A k \in 1..n : \A x \in D : step[k][x] \in D
    BY <1>3, <1>5
  <2> QED
    BY <1>1, <1>3, <1>6, <2>1, FoldClimbs
<1>8. \A k \in 1..n : so[k] = Step(so[k - 1], k)
  <2>1. \A k \in 1..n : k - 1 \in 0..n /\ so[k - 1] \in All
    BY <1>1
  <2> QED
    BY <1>5, <1>7, <2>1 DEF Climbs
<1>9. so[0] = Start /\ iter[1..n] = so[n]
    BY <1>7 DEF Climbs
<1> USE DEF n, D, Step, Start
<1> QED
    BY <1>2, <1>8, <1>9

\* A layout balanced row by row has widths no greater than the canvas.
LEMMA BalancedTyped ==
    ASSUME NEW layout, layout.rows \in Rows, NEW S, Partition(layout.rows, S), layout.spans \in Spans,
           layout.preferred \in Spans, layout.solo \in Spans
    PROVE  Balanced(layout) \in Spans
<1>1. PICK so \in [0..Len(layout.rows) -> Spans] : Balanced(layout) = so[Len(layout.rows)]
    BY BalancedSteps
<1> QED
    BY <1>1, RowsTyped

-----------------------------------------------------------------------------
(* What a drag previews.                                                   *)

Canvas == [rows : Rows, spans : Spans, preferred : Spans, solo : Spans, retained : SUBSET RowId]

\* What is kept of the rows of a region while it is dragged about: the visible
\* blocks, each once, and every row that a hidden block must come back to.
Seen(value, layout) ==
    /\ layout \in Canvas
    /\ Partition(layout.rows, Blocks \ value.hidden)
    /\ layout.retained = RetainedRowIds(FullRows(value), value.hidden)
    /\ layout.retained \subseteq RowIds(layout.rows)

\* What is shown of a draft has each of its visible blocks once, and every row
\* that a hidden one needs.
LEMMA RegionSeen ==
    ASSUME NEW value \in Values
    PROVE  Seen(value, Region(value))
<1> DEFINE visible == Blocks \ value.hidden
           full == FullRows(value)
           Clamp(width) == IF width > Columns THEN Columns ELSE width
           Clamped(widths) == [b \in Blocks |-> IF b \in visible THEN Clamp(widths[b]) ELSE 0]
           spans == Clamped(Over(AuthoredSpan, Saved(value, "spans")))
           preferred == Clamped(Over(AuthoredSpan, Saved(value, "preferred")))
           solo == Saved(value, "solo")
           rows == Only(full, visible)
           retained == RetainedRowIds(full, value.hidden)
           unbalanced == [rows |-> rows, spans |-> spans, preferred |-> preferred,
                          solo |-> solo, retained |-> retained]
<1>1. Region(value) = [unbalanced EXCEPT !.spans = Balanced(unbalanced)]
    BY DEF Region
<1>2. \A widths \in Spans : Clamped(widths) \in Spans
    BY Sizes DEF Spans
<1>3. spans \in Spans /\ preferred \in Spans /\ solo \in Spans
  <2>1. solo \in Spans /\ Over(AuthoredSpan, Saved(value, "spans")) \in Spans
        /\ Over(AuthoredSpan, Saved(value, "preferred")) \in Spans
    BY SavedTyped, Sizes, OverTyped
  <2> HIDE DEF Clamped
  <2> QED
    BY <1>2, <2>1
<1> HIDE DEF spans, preferred, solo
<1>4. full \in Rows /\ Partition(full, Blocks)
    BY FullRowsWhole DEF Wholes
<1> HIDE DEF full
<1>5. /\ rows \in Rows /\ Partition(rows, Blocks \cap visible)
      /\ RowIds(rows) = RowIds(full)
    BY <1>4, RowsRestricted
<1>6. Blocks \cap visible = visible
    OBVIOUS
<1>7. retained \subseteq RowIds(full) /\ retained \in SUBSET RowId
  <2>1. retained \subseteq RowIds(full)
    BY DEF RetainedRowIds, RowIds
  <2>2. RowIds(full) \subseteq RowId
    BY <1>4, RowsTyped DEF RowIds
  <2> HIDE DEF retained
  <2> QED
    BY <2>1, <2>2
<1> HIDE DEF rows, retained
<1>8. /\ unbalanced.rows = rows /\ unbalanced.spans = spans
      /\ unbalanced.preferred = preferred /\ unbalanced.solo = solo
    OBVIOUS
<1>9. Balanced(unbalanced) \in Spans
  <2> HIDE DEF unbalanced, visible
  <2> QED
    BY <1>3, <1>5, <1>6, <1>8, BalancedTyped
<1>10. Region(value) = [rows |-> rows, spans |-> Balanced(unbalanced), preferred |-> preferred,
                        solo |-> solo, retained |-> retained]
    BY <1>1
<1> HIDE DEF unbalanced
<1>11. Region(value) \in Canvas
    BY <1>3, <1>5, <1>7, <1>9, <1>10 DEF Canvas
<1>12. Region(value).rows = rows /\ Region(value).retained = retained
    BY <1>10
<1> QED
    BY <1>5, <1>6, <1>7, <1>11, <1>12 DEF Seen, retained, full

\* There is an unused id for a new row: there are more of them than rows.
LEMMA Unused ==
    ASSUME NEW rows \in Rows, NEW b \in Blocks
    PROVE  UniqueRowId(rows, b) \in RowId /\ UniqueRowId(rows, b) \notin RowIds(rows)
<1> DEFINE most == Len(rows) + 1
           Free(n) == <<b, n>> \notin RowIds(rows) /\ \A m \in 1..(n - 1) : <<b, m>> \in RowIds(rows)
<1>1. Len(rows) \in Nat /\ DOMAIN rows = 1..Len(rows) /\ most \in Nat
    BY RowsTyped
<1>2. \E n \in 1..most : <<b, n>> \notin RowIds(rows)
  <2>1. SUFFICES ASSUME \A n \in 1..most : <<b, n>> \in RowIds(rows) PROVE FALSE
    OBVIOUS
  <2> DEFINE row == [n \in 1..most |-> IndexOfRow(rows, <<b, n>>)]
  <2>2. \A n \in 1..most : IndexOfRow(rows, <<b, n>>) \in 1..Len(rows) /\ rows[IndexOfRow(rows, <<b, n>>)].id = <<b, n>>
    BY <1>1, <2>1, RowFound
  <2>3. row \in [1..most -> 1..Len(rows)]
    BY <2>2
  <2>4. /\ IsFiniteSet(1..most) /\ IsFiniteSet(1..Len(rows))
        /\ Cardinality(1..Len(rows)) < Cardinality(1..most)
    <3>1. /\ IsFiniteSet(1..most) /\ Cardinality(1..most) = IF 1 > most THEN 0 ELSE most - 1 + 1
          /\ IsFiniteSet(1..Len(rows))
          /\ Cardinality(1..Len(rows)) = IF 1 > Len(rows) THEN 0 ELSE Len(rows) - 1 + 1
      BY <1>1, FS_Interval
    <3> QED
      BY <1>1, <3>1
  <2> HIDE DEF most
  <2>5. PICK m, n \in 1..most : m # n /\ row[m] = row[n]
    <3> HIDE DEF row
    <3> QED
      BY <2>3, <2>4, FS_PigeonHole
  <2>6. <<b, m>> = <<b, n>>
    BY <2>2, <2>5
  <2> QED
    BY <2>5, <2>6
<1> DEFINE T == {n \in 1..most : <<b, n>> \notin RowIds(rows)}
<1>3. PICK n \in T : \A j \in T : n <= j
  <2>1. T \in SUBSET Nat /\ T # {}
    BY <1>1, <1>2
  <2> HIDE DEF T
  <2> QED
    BY <2>1, Least
<1>4. n \in 1..most /\ Free(n)
  <2>1. n \in 1..most /\ <<b, n>> \notin RowIds(rows)
    OBVIOUS
  <2>2. ASSUME NEW m \in 1..(n - 1)
        PROVE  <<b, m>> \in RowIds(rows)
    <3>1. m \in 1..most /\ ~(n <= m)
      BY <1>1, <2>1
    <3> QED
      BY <1>3, <3>1
  <2> QED
    BY <2>1, <2>2
<1> DEFINE first == CHOOSE k \in 1..most : Free(k)
<1>5. first \in 1..most /\ Free(first)
  <2> HIDE DEF Free, most
  <2> QED
    BY <1>4
<1>6. UniqueRowId(rows, b) = <<b, first>>
    BY DEF UniqueRowId
<1> HIDE DEF first
<1>7. first \in Nat /\ <<b, first>> \notin RowIds(rows)
    BY <1>1, <1>5
<1> QED
    BY <1>6, <1>7 DEF RowId

\* Wherever a block is put, every block is in one row still.
LEMMA PlacedWhole ==
    ASSUME NEW rows \in Rows, NEW S \in SUBSET Blocks, Partition(rows, S),
           NEW b \in S, NEW target \in S, target # b, NEW placement
    PROVE  /\ Placed(rows, b, target, placement).rows \in Rows
           /\ Partition(Placed(rows, b, target, placement).rows, S)
           /\ RowIds(rows) \subseteq RowIds(Placed(rows, b, target, placement).rows)
           /\ Placed(rows, b, target, placement).at \in DOMAIN Placed(rows, b, target, placement).rows
<1> DEFINE without == Only(rows, Blocks \ {b})
           at == IndexOfBlock(rows, target)
           new == at + (IF placement = "below" THEN 1 ELSE 0)
           there == without[at].items
           position == Position(target, there) + (IF placement = "after" THEN 1 ELSE 0)
           row == [id |-> UniqueRowId(without, b), items |-> <<b>>]
           joined == InsertAt(there, position, b)
           placed == Placed(rows, b, target, placement)
<1>1. /\ without \in Rows /\ Partition(without, S \cap (Blocks \ {b}))
      /\ RowIds(without) = RowIds(rows) /\ DOMAIN without = DOMAIN rows
      /\ \A i \in DOMAIN rows : ToSet(without[i].items) = ToSet(rows[i].items) \cap (Blocks \ {b})
    BY RowsRestricted
<1>2. S \cap (Blocks \ {b}) = S \ {b}
    OBVIOUS
<1>3. at \in DOMAIN rows /\ target \in ToSet(rows[at].items)
    BY BlockFound
<1>4. placed = IF placement \in Apart
               THEN [rows |-> InsertAt(without, new, row), at |-> new]
               ELSE [rows |-> WithItems(without, at, joined), at |-> at]
    BY DEF Placed
<1> HIDE DEF without, at, placed
<1>5. /\ Len(without) \in Nat /\ DOMAIN without = 1..Len(without)
      /\ \A i \in DOMAIN without : without[i].items \in Seq(Blocks)
    BY <1>1, RowsTyped
<1>6. CASE placement \in Apart
  <2>1. new \in 1..(Len(without) + 1)
    BY <1>1, <1>3, <1>5
  <2>2. row \in Row /\ row.id \notin RowIds(without) /\ row.items = <<b>>
    <3>1. UniqueRowId(without, b) \in RowId /\ UniqueRowId(without, b) \notin RowIds(without)
      BY <1>1, Unused
    <3>2. <<b>> \in Seq(Blocks)
      OBVIOUS
    <3> QED
      BY <3>1, <3>2 DEF Row
  <2>3. ToSet(<<b>>) = {b} /\ IsInjective(<<b>>)
    BY DEF ToSet, IsInjective
  <2> HIDE DEF new, row
  <2>4. ToSet(row.items) = {b} /\ IsInjective(row.items) /\ ToSet(row.items) \cap (S \ {b}) = {}
    BY <2>2, <2>3
  <2>5. S = (S \ {b}) \cup ToSet(row.items)
    BY <2>4
  <2>6. /\ InsertAt(without, new, row) \in Rows
        /\ Partition(InsertAt(without, new, row), S)
        /\ \A id : id \in RowIds(InsertAt(without, new, row)) <=> id \in RowIds(without) \/ id = row.id
        /\ new \in DOMAIN InsertAt(without, new, row)
    <3> DEFINE P == S \ {b}
    <3>1. Partition(without, P) /\ without \in Rows /\ ToSet(row.items) \cap P = {} /\ S = P \cup ToSet(row.items)
      BY <1>1, <1>2, <2>4, <2>5
    <3> HIDE DEF P
    <3>2. /\ new \in 1..(Len(without) + 1) /\ row \in Row /\ row.id \notin RowIds(without)
          /\ IsInjective(row.items)
      BY <2>1, <2>2, <2>4
    <3> QED
      BY <3>1, <3>2, RowInserted
  <2>7. placed.rows = InsertAt(without, new, row) /\ placed.at = new
    BY <1>4, <1>6
  <2>8. placed.rows \in Rows /\ Partition(placed.rows, S) /\ RowIds(rows) \subseteq RowIds(placed.rows)
        /\ placed.at \in DOMAIN placed.rows
    BY <1>1, <2>6, <2>7
  <2> QED
    BY <2>8 DEF placed
<1>7. CASE placement \notin Apart
  <2>1. there \in Seq(Blocks) /\ IsInjective(there) /\ target \in ToSet(there) /\ b \notin ToSet(there)
        /\ ToSet(there) \subseteq S \ {b}
    <3>1. there \in Seq(Blocks) /\ IsInjective(there)
      BY <1>1, <1>3, <1>5 DEF Partition
    <3>2. ToSet(there) = ToSet(rows[at].items) \cap (Blocks \ {b})
      BY <1>1, <1>3
    <3>3. ToSet(rows[at].items) \subseteq S
      BY <1>3 DEF Partition, Held
    <3> HIDE DEF there
    <3> QED
      BY <1>3, <3>1, <3>2, <3>3
  <2> HIDE DEF there
  <2>2. Position(target, there) \in DOMAIN there
    BY <2>1, PlaceFound
  <2>3. position \in 1..(Len(there) + 1)
    BY <2>1, <2>2
  <2> HIDE DEF position
  <2>4. joined \in Seq(Blocks) /\ ToSet(joined) = ToSet(there) \cup {b} /\ IsInjective(joined)
    BY <2>1, <2>3, Inserted
  <2> HIDE DEF joined
  <2>5. \A j \in DOMAIN without : j # at => ToSet(without[j].items) \cap ToSet(joined) = {}
    <3>1. \A j \in DOMAIN without : j # at => ToSet(without[j].items) \cap ToSet(there) = {}
      BY <1>1, <1>3 DEF Partition, there
    <3>2. \A j \in DOMAIN without : b \notin ToSet(without[j].items)
      BY <1>1
    <3> QED
      BY <2>4, <3>1, <3>2
  <2>6. /\ WithItems(without, at, joined) \in Rows
        /\ Partition(WithItems(without, at, joined), S)
        /\ RowIds(WithItems(without, at, joined)) = RowIds(without)
        /\ DOMAIN WithItems(without, at, joined) = DOMAIN without
    <3> DEFINE P == S \ {b}
    <3>1. Partition(without, P) /\ at \in DOMAIN without /\ without \in Rows
      BY <1>1, <1>2, <1>3
    <3>2. S = Swapped(P, ToSet(without[at].items), ToSet(joined))
      BY <2>1, <2>4 DEF there, Swapped
    <3> HIDE DEF P
    <3> QED
      BY <2>4, <2>5, <3>1, <3>2, ItemsReplaced
  <2>8. placed.rows = WithItems(without, at, joined) /\ placed.at = at
    BY <1>4, <1>7
  <2>9. placed.rows \in Rows /\ Partition(placed.rows, S) /\ RowIds(rows) \subseteq RowIds(placed.rows)
        /\ placed.at \in DOMAIN placed.rows
    BY <1>1, <1>3, <2>6, <2>8
  <2> QED
    BY <2>9 DEF placed
<1> QED
    BY <1>6, <1>7

\* A move leaves each visible block in one row, and the rows hidden ones need.
LEMMA MoveSeen ==
    ASSUME NEW value \in Values, NEW layout, Seen(value, layout),
           NEW b \in Blocks \ value.hidden, NEW target \in Blocks \ value.hidden, target # b,
           NEW placement, ResolveCanvasMove(layout, b, target, placement) # NoLayout
    PROVE  Seen(value, ResolveCanvasMove(layout, b, target, placement))
<1> DEFINE S == Blocks \ value.hidden
           rows == layout.rows
           from == IndexOfBlock(rows, b)
           to == IndexOfBlock(rows, target)
           placed == Placed(rows, b, target, placement)
           joined == placed.rows[placed.at].items
           inRow == from = to /\ placement \in Beside
           even == [c \in Blocks |-> IF c \in ToSet(joined) THEN Columns \div Len(joined) ELSE 0]
           widths == IF from # to /\ placement \in Beside THEN even ELSE layout.spans
           entered == IF inRow THEN NoWidths ELSE BalancedRow(joined, layout, widths, MaxItems)
           left == Among(rows[from].items, Blocks \ {b})
           vacated == IF inRow \/ left = <<>> THEN NoWidths
                      ELSE BalancedRow(left, layout, layout.spans, MaxItems)
           keep == {row \in ToSet(placed.rows) :
                       row.items # <<>> \/ ~IsMade(row.id) \/ row.id \in layout.retained}
           kept == Among(placed.rows, keep)
           spans == Over(Over(layout.spans, entered), vacated)
           next == ResolveCanvasMove(layout, b, target, placement)
<1>1. /\ rows \in Rows /\ layout.spans \in Spans /\ layout.preferred \in Spans /\ layout.solo \in Spans
      /\ layout.retained \in SUBSET RowId /\ Partition(rows, S) /\ layout.retained \subseteq RowIds(rows)
      /\ layout.retained = RetainedRowIds(FullRows(value), value.hidden)
    BY DEF Seen, Canvas
<1>2. next = [layout EXCEPT !.rows = kept, !.spans = spans]
    BY DEF ResolveCanvasMove
<1> HIDE DEF next, rows
<1>3. /\ placed.rows \in Rows /\ Partition(placed.rows, S) /\ RowIds(rows) \subseteq RowIds(placed.rows)
      /\ placed.at \in DOMAIN placed.rows
  <2>1. S \in SUBSET Blocks
    OBVIOUS
  <2> HIDE DEF S, placed
  <2>2. b \in S /\ target \in S
    BY DEF S
  <2> QED
    BY <1>1, <2>1, <2>2, PlacedWhole DEF placed
<1> HIDE DEF placed
<1>4. /\ kept \in Rows /\ Partition(kept, S) /\ ToSet(kept) = ToSet(placed.rows) \cap keep
    BY <1>3, RowsFiltered
<1>5. layout.retained \subseteq RowIds(kept)
  <2>1. \A id \in layout.retained : \E row \in ToSet(placed.rows) : row.id = id
    BY <1>1, <1>3, AsSet
  <2>2. \A id \in layout.retained : \E row \in ToSet(placed.rows) \cap keep : row.id = id
    BY <2>1
  <2>3. RowIds(kept) = {row.id : row \in ToSet(kept)}
    BY <1>4, AsSet
  <2> HIDE DEF kept, keep
  <2> QED
    BY <1>4, <2>2, <2>3
<1> HIDE DEF kept, keep
<1>6. joined \in Seq(Blocks) /\ IsInjective(joined)
    BY <1>3, RowsTyped DEF Partition
<1>7. left \in Seq(Blocks) /\ IsInjective(left)
  <2>1. from \in DOMAIN rows
    <3> HIDE DEF S
    <3>1. b \in S
      BY DEF S
    <3> QED
      BY <1>1, <3>1, BlockFound
  <2>2. rows[from].items \in Seq(Blocks) /\ IsInjective(rows[from].items)
    BY <1>1, <2>1, RowsTyped DEF Partition
  <2> QED
    BY <2>2, AmongIs
<1> HIDE DEF joined, left, from, to, inRow
<1>8. even \in Spans
  <2>1. \A c \in ToSet(joined) : Columns \div Len(joined) \in 0..Columns
    <3> TAKE c \in ToSet(joined)
    <3>1. Len(joined) \in Nat \ {0}
      BY <1>6 DEF ToSet
    <3> QED
      BY <3>1, Sizes
  <2>2. 0 \in 0..Columns
    BY Sizes
  <2> QED
    BY <2>1, <2>2 DEF Spans
<1> HIDE DEF even
<1>9. widths \in Spans
    BY <1>1, <1>8
<1> HIDE DEF widths
<1>10. entered \in Spans /\ vacated \in Spans
    BY <1>1, <1>6, <1>7, <1>9, BalancedRowTyped, Sizes
<1> HIDE DEF entered, vacated
<1>11. spans \in Spans
    BY <1>1, <1>10, OverTyped
<1> HIDE DEF spans, S
<1>12. next \in Canvas /\ next.rows = kept /\ next.retained = layout.retained
  <2>1. layout \in Canvas
    BY DEF Seen
  <2> QED
    BY <1>2, <1>4, <1>11, <2>1 DEF Canvas
<1>13. Seen(value, next)
    BY <1>1, <1>4, <1>5, <1>12 DEF Seen, S
<1> QED
    BY <1>13 DEF next

\* Columns borrowed, from one block after the other.
LEMMA BorrowedSteps ==
    ASSUME NEW layout, layout.spans \in Spans, NEW donors \in Seq(Blocks), NEW wanted \in Nat
    PROVE  Borrowed(layout, donors, wanted) \in [wanted : Nat, given : Spans]
<1> DEFINE n == Len(donors)
           D == [wanted : Nat, given : Spans]
           Start == [wanted |-> wanted, given |-> NoWidths]
           Spare(c) == IF layout.spans[c] > Minimum[c] THEN layout.spans[c] - Minimum[c] ELSE 0
           Taken(x, c) == IF Spare(c) < x.wanted THEN Spare(c) ELSE x.wanted
           Step(x, k) == [wanted |-> x.wanted - Taken(x, donors[k]),
                      given |-> IF Taken(x, donors[k]) = 0 THEN x.given
                                ELSE [x.given EXCEPT ![donors[k]] =
                                         layout.spans[donors[k]] - Taken(x, donors[k])]]
           Is(f) == f = [s \in SUBSET (1..n) |->
                        IF s = {} THEN Start ELSE Step(f[s \ {Max(s)}], Max(s))]
           iter == CHOOSE f : Is(f)
<1>1. n \in Nat
    OBVIOUS
<1>2. Borrowed(layout, donors, wanted) = iter[1..n]
  <2>1. DOMAIN donors = 1..n
    OBVIOUS
  <2> QED
    BY <2>1 DEF Borrowed, FoldLeft, MapThenFoldSet
<1>3. Start \in D /\ \A k \in 1..n : \A x \in D : Step(x, k) \in D
  <2>1. [wanted |-> wanted, given |-> NoWidths] \in D
    BY Sizes
  <2>2. ASSUME NEW k \in 1..n, NEW x \in D
        PROVE  Step(x, k) \in D
    <3> DEFINE c == donors[k]
               spare == IF layout.spans[c] > Minimum[c] THEN layout.spans[c] - Minimum[c] ELSE 0
               taken == IF spare < x.wanted THEN spare ELSE x.wanted
               left == layout.spans[c] - taken
    <3>1. /\ c \in Blocks /\ x.wanted \in Nat /\ x.given \in Spans
          /\ layout.spans[c] \in Nat /\ layout.spans[c] <= Columns /\ Minimum[c] \in Nat /\ Columns \in Nat
      <4>1. donors[k] \in Blocks
        OBVIOUS
      <4> HIDE DEF n, Step
      <4> QED
        BY <4>1, Sizes, SpansAreCounts
    <3>2. Step(x, k) = [wanted |-> x.wanted - taken,
                        given |-> IF taken = 0 THEN x.given ELSE [x.given EXCEPT ![c] = left]]
      OBVIOUS
    <3> HIDE DEF c, Step
    <3>3. spare \in Nat /\ spare <= layout.spans[c]
      BY <3>1
    <3> HIDE DEF spare
    <3>4. taken \in Nat /\ taken <= spare /\ taken <= x.wanted
      BY <3>1, <3>3
    <3> HIDE DEF taken
    <3>5. x.wanted - taken \in Nat /\ left \in 0..Columns
      <4> DEFINE wants == x.wanted
                 has == layout.spans[c]
      <4>1. /\ wants \in Nat /\ has \in Nat /\ has <= Columns /\ Columns \in Nat
            /\ spare \in Nat /\ spare <= has /\ taken \in Nat /\ taken <= spare /\ taken <= wants
        BY <3>1, <3>3, <3>4
      <4> HIDE DEF wants, has
      <4>2. wants - taken \in Nat /\ has - taken \in 0..Columns
        BY <4>1
      <4> QED
        BY <4>2 DEF wants, has
    <3> HIDE DEF left
    <3>6. [x.given EXCEPT ![c] = left] \in Spans
      BY <3>1, <3>5 DEF Spans
    <3> QED
      BY <3>1, <3>2, <3>5, <3>6
  <2> QED
    BY <2>1, <2>2
<1>4. Is(iter)
  <2> DEFINE step == [k \in 1..n |-> [x \in D |-> Step(x, k)]]
  <2>1. \A k \in 1..n : \A x \in D : step[k][x] = Step(x, k) /\ step[k][x] \in D
    BY <1>3
  <2> HIDE DEF n, step, D, Step, Start
  <2>2. PICK f \in [SUBSET (1..n) -> D] : Folds(f, n, Start, step)
    BY <1>1, <1>3, <2>1, FoldExists
  <2>3. \A s \in SUBSET (1..n) : s # {} => Max(s) \in 1..n /\ s \ {Max(s)} \in SUBSET (1..n)
    BY <1>1, MaxOf
  <2>4. \A s \in SUBSET (1..n) :
            f[s] = IF s = {} THEN Start ELSE Step(f[s \ {Max(s)}], Max(s))
    BY <2>1, <2>2, <2>3 DEF Folds
  <2>5. Is(f)
    BY <2>2, <2>4
  <2> HIDE DEF Is
  <2> QED
    BY <2>5
<1> HIDE DEF iter, n, D, Step, Start
<1> DEFINE All == D \cup {iter[s] : s \in SUBSET (1..n)}
           step == [k \in 1..n |-> [x \in All |-> Step(x, k)]]
<1>5. \A k \in 1..n : \A x \in All : step[k][x] = Step(x, k)
    OBVIOUS
<1> HIDE DEF step
<1>6. Folds(iter, n, Start, step)
  <2>1. \A s \in SUBSET (1..n) : s # {} => Max(s) \in 1..n /\ iter[s \ {Max(s)}] \in All
    BY <1>1, MaxOf
  <2>2. /\ iter = [s \in SUBSET (1..n) |-> iter[s]]
        /\ \A s \in SUBSET (1..n) :
               iter[s] = IF s = {} THEN Start ELSE Step(iter[s \ {Max(s)}], Max(s))
    BY <1>4
  <2> HIDE DEF All, Is
  <2>3. \A s \in SUBSET (1..n) :
            iter[s] = IF s = {} THEN Start ELSE step[Max(s)][iter[s \ {Max(s)}]]
    BY <1>5, <2>1, <2>2
  <2> QED
    BY <2>2, <2>3 DEF Folds
<1>7. PICK so \in [0..n -> D] : Climbs(so, iter, n, Start, step)
  <2>1. \A k \in 1..n : \A x \in D : step[k][x] \in D
    BY <1>3, <1>5
  <2> QED
    BY <1>1, <1>3, <1>6, <2>1, FoldClimbs
<1>8. iter[1..n] \in D
    BY <1>1, <1>7 DEF Climbs
<1> USE DEF D
<1> QED
    BY <1>2, <1>8

\* What a row's blocks give is no more than they have.
LEMMA BorrowedTyped ==
    ASSUME NEW layout, layout.spans \in Spans, NEW donors \in Seq(Blocks), NEW wanted \in Nat
    PROVE  Borrowed(layout, donors, wanted).given \in Spans
<1>1. Borrowed(layout, donors, wanted) \in [wanted : Nat, given : Spans]
    BY BorrowedSteps
<1> QED
    BY <1>1

\* A row flows, one block after the other.
LEMMA FlowSteps ==
    ASSUME NEW layout, layout.spans \in Spans, NEW items \in Seq(Blocks)
    PROVE  \E so \in [0..Len(items) -> Nat] :
              /\ so[0] = 0
              /\ \A k \in 1..Len(items) : so[k] =
                          IF so[k - 1] + layout.spans[items[k]] > Columns THEN layout.spans[items[k]]
                            ELSE so[k - 1] + layout.spans[items[k]]
              /\ Flow(layout, items) = so[Len(items)]
<1> DEFINE n == Len(items)
           D == Nat
           Start == 0
           Step(x, k) == IF x + layout.spans[items[k]] > Columns THEN layout.spans[items[k]]
                            ELSE x + layout.spans[items[k]]
           Is(f) == f = [s \in SUBSET (1..n) |->
                        IF s = {} THEN Start ELSE Step(f[s \ {Max(s)}], Max(s))]
           iter == CHOOSE f : Is(f)
<1>1. n \in Nat
    OBVIOUS
<1>2. Flow(layout, items) = iter[1..n]
  <2>1. DOMAIN items = 1..n
    OBVIOUS
  <2> QED
    BY <2>1 DEF Flow, FoldLeft, MapThenFoldSet
<1>3. Start \in D /\ \A k \in 1..n : \A x \in D : Step(x, k) \in D
  <2>1. \A k \in 1..n : layout.spans[items[k]] \in Nat
    BY SpansAreCounts
  <2> HIDE DEF n
  <2> QED
    BY <2>1
<1>4. Is(iter)
  <2> DEFINE step == [k \in 1..n |-> [x \in D |-> Step(x, k)]]
  <2>1. \A k \in 1..n : \A x \in D : step[k][x] = Step(x, k) /\ step[k][x] \in D
    BY <1>3
  <2> HIDE DEF n, step, D, Step, Start
  <2>2. PICK f \in [SUBSET (1..n) -> D] : Folds(f, n, Start, step)
    BY <1>1, <1>3, <2>1, FoldExists
  <2>3. \A s \in SUBSET (1..n) : s # {} => Max(s) \in 1..n /\ s \ {Max(s)} \in SUBSET (1..n)
    BY <1>1, MaxOf
  <2>4. \A s \in SUBSET (1..n) :
            f[s] = IF s = {} THEN Start ELSE Step(f[s \ {Max(s)}], Max(s))
    BY <2>1, <2>2, <2>3 DEF Folds
  <2>5. Is(f)
    BY <2>2, <2>4
  <2> HIDE DEF Is
  <2> QED
    BY <2>5
<1> HIDE DEF iter, n, D, Step, Start
<1> DEFINE All == D \cup {iter[s] : s \in SUBSET (1..n)}
           step == [k \in 1..n |-> [x \in All |-> Step(x, k)]]
<1>5. \A k \in 1..n : \A x \in All : step[k][x] = Step(x, k)
    OBVIOUS
<1> HIDE DEF step
<1>6. Folds(iter, n, Start, step)
  <2>1. \A s \in SUBSET (1..n) : s # {} => Max(s) \in 1..n /\ iter[s \ {Max(s)}] \in All
    BY <1>1, MaxOf
  <2>2. /\ iter = [s \in SUBSET (1..n) |-> iter[s]]
        /\ \A s \in SUBSET (1..n) :
               iter[s] = IF s = {} THEN Start ELSE Step(iter[s \ {Max(s)}], Max(s))
    BY <1>4
  <2> HIDE DEF All, Is
  <2>3. \A s \in SUBSET (1..n) :
            iter[s] = IF s = {} THEN Start ELSE step[Max(s)][iter[s \ {Max(s)}]]
    BY <1>5, <2>1, <2>2
  <2> QED
    BY <2>2, <2>3 DEF Folds
<1>7. PICK so \in [0..n -> D] : Climbs(so, iter, n, Start, step)
  <2>1. \A k \in 1..n : \A x \in D : step[k][x] \in D
    BY <1>3, <1>5
  <2> QED
    BY <1>1, <1>3, <1>6, <2>1, FoldClimbs
<1>8. \A k \in 1..n : so[k] = Step(so[k - 1], k)
  <2>1. \A k \in 1..n : k - 1 \in 0..n /\ so[k - 1] \in All
    BY <1>1
  <2> QED
    BY <1>5, <1>7, <2>1 DEF Climbs
<1>9. so[0] = Start /\ iter[1..n] = so[n]
    BY <1>7 DEF Climbs
<1> USE DEF n, D, Step, Start
<1> QED
    BY <1>2, <1>8, <1>9

\* The second line of a row starts, at least, with the block that begins it.
LEMMA FlowBounds ==
    ASSUME NEW layout, layout.spans \in Spans, NEW items \in Seq(Blocks), items # <<>>
    PROVE  Flow(layout, items) \in Nat /\ layout.spans[items[Len(items)]] <= Flow(layout, items)
<1> DEFINE n == Len(items)
<1>1. PICK so \in [0..n -> Nat] :
         /\ \A k \in 1..n : so[k] = IF so[k - 1] + layout.spans[items[k]] > Columns
                                    THEN layout.spans[items[k]]
                                    ELSE so[k - 1] + layout.spans[items[k]]
         /\ Flow(layout, items) = so[n]
    BY FlowSteps
<1>2. n \in Nat \ {0} /\ items[n] \in Blocks
    OBVIOUS
<1> HIDE DEF n
<1>3. layout.spans[items[n]] \in Nat
    BY <1>2, SpansAreCounts
<1>4. so[n - 1] \in Nat /\ so[n] \in Nat
    BY <1>2
<1>5. so[n] = layout.spans[items[n]] \/ so[n] = so[n - 1] + layout.spans[items[n]]
    BY <1>1, <1>2
<1> QED
    BY <1>1, <1>3, <1>4, <1>5 DEF n

\* A resized row has widths of the canvas: what a block gives its neighbour was
\* its own, and both are on one line.
LEMMA ResizeSeen ==
    ASSUME NEW value \in Values, NEW layout, Seen(value, layout), NEW b \in Blocks \ value.hidden,
           HandleShown(layout, b), NEW span \in Widths, ResizeBlockRow(layout, b, span) # NoLayout
    PROVE  Seen(value, ResizeBlockRow(layout, b, span))
<1> DEFINE S == Blocks \ value.hidden
           here == IndexOfBlock(layout.rows, b)
           items == layout.rows[here].items
           at == Position(b, items)
           current == layout.spans[b]
           neighbour == items[at + 1]
           donors == Among(SubSeq(items, at + 1, Len(items)), Blocks \ Locked)
           borrowed == Borrowed(layout, donors, span - current)
           given == IF span > current THEN borrowed.given
                    ELSE IF span = current THEN NoWidths
                    ELSE [NoWidths EXCEPT ![neighbour] = layout.spans[neighbour] + (current - span)]
           alone == Len(items) = 1
           change == IF alone THEN [NoWidths EXCEPT ![b] = span] ELSE [given EXCEPT ![b] = span]
           solo == IF alone THEN [layout.solo EXCEPT ![b] = span] ELSE layout.solo
           next == ResizeBlockRow(layout, b, span)
<1>1. /\ layout.rows \in Rows /\ layout.spans \in Spans /\ layout.preferred \in Spans /\ layout.solo \in Spans
      /\ Partition(layout.rows, S) /\ layout \in Canvas
    BY DEF Seen, Canvas
<1>2. /\ ~alone => at # Len(items)
      /\ next = [layout EXCEPT !.spans = Over(layout.spans, change),
                               !.preferred = Over(layout.preferred, change),
                               !.solo = solo]
    BY DEF ResizeBlockRow
<1>3. at = Len(items) \/ Flow(layout, SubSeq(items, 1, at)) + layout.spans[neighbour] <= Columns
    BY DEF HandleShown
<1> HIDE DEF next
<1>4. items \in Seq(Blocks) /\ b \in ToSet(items)
  <2> HIDE DEF S
  <2>1. b \in S
    BY DEF S
  <2>2. here \in DOMAIN layout.rows /\ b \in ToSet(items)
    BY <1>1, <2>1, BlockFound
  <2> QED
    BY <1>1, <2>2, RowsTyped
<1> HIDE DEF items
<1>5. at \in 1..Len(items) /\ Len(items) \in Nat /\ items[at] = b
    BY <1>4, PlaceFound
<1> HIDE DEF at
<1>6. current \in Nat /\ current <= Columns /\ span \in Nat /\ span <= Columns /\ Columns \in Nat
    BY <1>1, SpansAreCounts, Sizes, LayoutAssumption
<1>7. ~alone => given \in Spans
  <2>1. CASE span > current
    <3>1. donors \in Seq(Blocks)
      <4>1. SubSeq(items, at + 1, Len(items)) \in Seq(Blocks)
        BY <1>4, <1>5
      <4> QED
        BY <4>1, AmongIs
    <3>2. span - current \in Nat
      BY <1>6, <2>1
    <3> HIDE DEF donors, current
    <3>3. borrowed.given \in Spans
      BY <1>1, <3>1, <3>2, BorrowedTyped
    <3> HIDE DEF borrowed
    <3> QED
      BY <2>1, <3>3
  <2>2. CASE span = current
    BY <1>6, <2>2, Sizes
  <2>3. CASE span < current
    <3>1. SUFFICES ASSUME ~alone PROVE given \in Spans
      OBVIOUS
    <3>2. at + 1 \in 1..Len(items) /\ neighbour \in Blocks
      BY <1>2, <1>4, <1>5, <3>1
    <3>3. layout.spans[neighbour] \in Nat
      BY <1>1, <3>2, SpansAreCounts
    <3> DEFINE line == SubSeq(items, 1, at)
    <3>4. line \in Seq(Blocks) /\ line # <<>> /\ Len(line) = at /\ line[at] = b
      BY <1>4, <1>5
    <3> HIDE DEF line
    <3>5. Flow(layout, line) \in Nat /\ current <= Flow(layout, line)
      BY <1>1, <3>4, FlowBounds
    <3>6. Flow(layout, line) + layout.spans[neighbour] <= Columns
      BY <1>2, <1>3, <3>1 DEF line
    <3> HIDE DEF neighbour, current, alone
    <3>7. layout.spans[neighbour] + (current - span) \in 0..Columns
      BY <1>6, <2>3, <3>3, <3>5, <3>6
    <3>8. given = [NoWidths EXCEPT ![neighbour] = layout.spans[neighbour] + (current - span)]
      BY <1>6, <2>3
    <3> HIDE DEF given
    <3> QED
      BY <3>2, <3>7, <3>8, Sizes DEF Spans
  <2> QED
    BY <1>6, <2>1, <2>2, <2>3
<1> HIDE DEF given, alone, current
<1>8. change \in Spans /\ solo \in Spans
    BY <1>1, <1>6, <1>7, Sizes DEF Spans
<1> HIDE DEF change, solo
<1>9. Over(layout.spans, change) \in Spans /\ Over(layout.preferred, change) \in Spans
    BY <1>1, <1>8, OverTyped
<1>10. next \in Canvas /\ next.rows = layout.rows /\ next.retained = layout.retained
    BY <1>1, <1>2, <1>8, <1>9 DEF Canvas
<1>11. Seen(value, next)
    BY <1>10 DEF Seen
<1> QED
    BY <1>11 DEF next

-----------------------------------------------------------------------------
(* What a drop commits.                                                    *)

Unwalked == [items |-> <<>>, used |-> 0]

\* One block of the row as it was: a hidden one stays, another makes place.
WalkOn(so, b, visible, hidden) ==
    IF b \in hidden THEN [so EXCEPT !.items = Append(@, b)]
    ELSE IF b \in ToSet(visible) /\ so.used < Len(visible)
         THEN [items |-> Append(so.items, visible[so.used + 1]), used |-> so.used + 1]
    ELSE so

WalkedSoFar(visible) == [items : Seq(Blocks), used : 0..Len(visible)]

\* One step through a row uses at most the next visible block, and keeps a
\* hidden one.
LEMMA WalkOnTyped ==
    ASSUME NEW visible \in Seq(Blocks), NEW hidden \in SUBSET Blocks,
           NEW so \in WalkedSoFar(visible), NEW b \in Blocks
    PROVE  /\ WalkOn(so, b, visible, hidden) \in WalkedSoFar(visible)
           /\ b \in hidden => /\ WalkOn(so, b, visible, hidden).items = Append(so.items, b)
                              /\ WalkOn(so, b, visible, hidden).used = so.used
           /\ b \notin hidden =>
                 \/ WalkOn(so, b, visible, hidden) = so
                 \/ /\ so.used + 1 \in 1..Len(visible)
                    /\ WalkOn(so, b, visible, hidden).items = Append(so.items, visible[so.used + 1])
                    /\ WalkOn(so, b, visible, hidden).used = so.used + 1
<1>1. so.items \in Seq(Blocks) /\ so.used \in 0..Len(visible) /\ Len(visible) \in Nat
    BY DEF WalkedSoFar
<1>2. CASE b \in hidden
  <2>1. WalkOn(so, b, visible, hidden) = [so EXCEPT !.items = Append(so.items, b)]
    BY <1>2 DEF WalkOn
  <2>2. Append(so.items, b) \in Seq(Blocks)
    BY <1>1
  <2> QED
    BY <1>2, <2>1, <2>2 DEF WalkedSoFar
<1>3. CASE b \notin hidden /\ b \in ToSet(visible) /\ so.used < Len(visible)
  <2>1. WalkOn(so, b, visible, hidden) = [items |-> Append(so.items, visible[so.used + 1]), used |-> so.used + 1]
    BY <1>3 DEF WalkOn
  <2>2. so.used + 1 \in 1..Len(visible) /\ so.used + 1 \in 0..Len(visible)
    BY <1>1, <1>3
  <2>3. Append(so.items, visible[so.used + 1]) \in Seq(Blocks)
    BY <1>1, <2>2
  <2> QED
    BY <1>3, <2>1, <2>2, <2>3 DEF WalkedSoFar
<1>4. CASE b \notin hidden /\ ~(b \in ToSet(visible) /\ so.used < Len(visible))
    BY <1>4 DEF WalkOn
<1> QED
    BY <1>2, <1>3, <1>4

\* A row walked, one block after the other.
LEMMA WalkedSteps ==
    ASSUME NEW previous \in Seq(Blocks), NEW visible \in Seq(Blocks), NEW hidden \in SUBSET Blocks
    PROVE  \E so \in [0..Len(previous) -> WalkedSoFar(visible)] :
              /\ so[0] = Unwalked
              /\ \A k \in 1..Len(previous) : so[k] = WalkOn(so[k - 1], previous[k], visible, hidden)
              /\ Walked(previous, visible, hidden) = so[Len(previous)]
<1> DEFINE n == Len(previous)
           D == WalkedSoFar(visible)
           Start == Unwalked
           Step(x, k) == WalkOn(x, previous[k], visible, hidden)
           Is(f) == f = [s \in SUBSET (1..n) |->
                        IF s = {} THEN Start ELSE Step(f[s \ {Max(s)}], Max(s))]
           iter == CHOOSE f : Is(f)
<1>1. n \in Nat
    OBVIOUS
<1>2. Walked(previous, visible, hidden) = iter[1..n]
  <2>1. DOMAIN previous = 1..n
    OBVIOUS
  <2> QED
    BY <2>1 DEF Walked, FoldLeft, MapThenFoldSet, WalkOn, Unwalked
<1>3. Start \in D /\ \A k \in 1..n : \A x \in D : Step(x, k) \in D
  <2>1. Unwalked \in WalkedSoFar(visible)
    BY DEF Unwalked, WalkedSoFar
  <2>2. \A k \in 1..n : previous[k] \in Blocks
    OBVIOUS
  <2> HIDE DEF n
  <2> QED
    BY <2>1, <2>2, WalkOnTyped
<1>4. Is(iter)
  <2> DEFINE step == [k \in 1..n |-> [x \in D |-> Step(x, k)]]
  <2>1. \A k \in 1..n : \A x \in D : step[k][x] = Step(x, k) /\ step[k][x] \in D
    BY <1>3
  <2> HIDE DEF n, step, D, Step, Start
  <2>2. PICK f \in [SUBSET (1..n) -> D] : Folds(f, n, Start, step)
    BY <1>1, <1>3, <2>1, FoldExists
  <2>3. \A s \in SUBSET (1..n) : s # {} => Max(s) \in 1..n /\ s \ {Max(s)} \in SUBSET (1..n)
    BY <1>1, MaxOf
  <2>4. \A s \in SUBSET (1..n) :
            f[s] = IF s = {} THEN Start ELSE Step(f[s \ {Max(s)}], Max(s))
    BY <2>1, <2>2, <2>3 DEF Folds
  <2>5. Is(f)
    BY <2>2, <2>4
  <2> HIDE DEF Is
  <2> QED
    BY <2>5
<1> HIDE DEF iter, n, D, Step, Start
<1> DEFINE All == D \cup {iter[s] : s \in SUBSET (1..n)}
           step == [k \in 1..n |-> [x \in All |-> Step(x, k)]]
<1>5. \A k \in 1..n : \A x \in All : step[k][x] = Step(x, k)
    OBVIOUS
<1> HIDE DEF step
<1>6. Folds(iter, n, Start, step)
  <2>1. \A s \in SUBSET (1..n) : s # {} => Max(s) \in 1..n /\ iter[s \ {Max(s)}] \in All
    BY <1>1, MaxOf
  <2>2. /\ iter = [s \in SUBSET (1..n) |-> iter[s]]
        /\ \A s \in SUBSET (1..n) :
               iter[s] = IF s = {} THEN Start ELSE Step(iter[s \ {Max(s)}], Max(s))
    BY <1>4
  <2> HIDE DEF All, Is
  <2>3. \A s \in SUBSET (1..n) :
            iter[s] = IF s = {} THEN Start ELSE step[Max(s)][iter[s \ {Max(s)}]]
    BY <1>5, <2>1, <2>2
  <2> QED
    BY <2>2, <2>3 DEF Folds
<1>7. PICK so \in [0..n -> D] : Climbs(so, iter, n, Start, step)
  <2>1. \A k \in 1..n : \A x \in D : step[k][x] \in D
    BY <1>3, <1>5
  <2> QED
    BY <1>1, <1>3, <1>6, <2>1, FoldClimbs
<1>8. \A k \in 1..n : so[k] = Step(so[k - 1], k)
  <2>1. \A k \in 1..n : k - 1 \in 0..n /\ so[k - 1] \in All
    BY <1>1
  <2> QED
    BY <1>5, <1>7, <2>1 DEF Climbs
<1>9. so[0] = Start /\ iter[1..n] = so[n]
    BY <1>7 DEF Climbs
<1> USE DEF n, D, Step, Start
<1> QED
    BY <1>2, <1>8, <1>9

\* After each block: the hidden ones so far and the visible ones used, each once.
LEMMA WalkedWhole ==
    ASSUME NEW previous \in Seq(Blocks), IsInjective(previous),
           NEW visible \in Seq(Blocks), IsInjective(visible),
           NEW hidden \in SUBSET Blocks, ToSet(visible) \cap hidden = {}
    PROVE  /\ Walked(previous, visible, hidden) \in WalkedSoFar(visible)
           /\ IsInjective(Walked(previous, visible, hidden).items)
           /\ ToSet(Walked(previous, visible, hidden).items) =
                 (ToSet(previous) \cap hidden)
                    \cup {visible[j] : j \in 1..Walked(previous, visible, hidden).used}
<1> DEFINE n == Len(previous)
           D == WalkedSoFar(visible)
           Before(k) == {previous[i] : i \in 1..k} \cap hidden
           Used(m) == {visible[j] : j \in 1..m}
           J == [k \in 0..n |-> {x \in D : IsInjective(x.items) /\ ToSet(x.items) = Before(k) \cup Used(x.used)}]
<1>1. n \in Nat /\ DOMAIN previous = 1..n /\ \A k \in 1..n : previous[k] \in Blocks
    OBVIOUS
<1>2. DOMAIN visible = 1..Len(visible) /\ Len(visible) \in Nat
    OBVIOUS
<1>3. PICK so \in [0..n -> D] : /\ so[0] = Unwalked
                                /\ \A k \in 1..n : so[k] = WalkOn(so[k - 1], previous[k], visible, hidden)
                                /\ Walked(previous, visible, hidden) = so[n]
    BY WalkedSteps
<1> HIDE DEF n
<1>4. so[0] \in J[0]
  <2>1. 0 \in 0..n
    BY <1>1
  <2>2. Unwalked \in D
    BY <1>2 DEF Unwalked, WalkedSoFar
  <2>3. IsInjective(<<>>) /\ ToSet(<<>>) = {}
    BY DEF IsInjective, ToSet
  <2>4. Before(0) = {} /\ Used(0) = {}
    OBVIOUS
  <2>5. Unwalked.items = <<>> /\ Unwalked.used = 0
    BY DEF Unwalked
  <2> HIDE DEF Before, Used, D
  <2>6. ToSet(Unwalked.items) = Before(0) \cup Used(Unwalked.used)
    BY <2>3, <2>4, <2>5
  <2> QED
    BY <1>3, <2>1, <2>2, <2>3, <2>5, <2>6
<1>5. ASSUME NEW k \in 1..n, so[k - 1] \in J[k - 1]
      PROVE  so[k] \in J[k]
  <2>1. k - 1 \in 0..n /\ k \in 0..n /\ k \in Nat
    BY <1>1
  <2> DEFINE x == so[k - 1]
             y == so[k]
             b == previous[k]
  <2>2. x \in D /\ IsInjective(x.items) /\ ToSet(x.items) = Before(k - 1) \cup Used(x.used)
    <3> HIDE DEF Before, Used, D
    <3> QED
      BY <1>5, <2>1
  <2>3. y = WalkOn(x, b, visible, hidden) /\ b \in Blocks
    BY <1>1, <1>3
  <2>4. x.items \in Seq(Blocks) /\ x.used \in Nat /\ x.used <= Len(visible)
    BY <1>2, <2>2 DEF WalkedSoFar
  <2>5. \A i \in 1..(k - 1) : previous[i] # b
    BY <1>1, <2>1 DEF IsInjective
  <2>6. Used(x.used) \subseteq ToSet(visible)
    <3>1. \A j \in 1..x.used : j \in 1..Len(visible)
      BY <1>2, <2>4
    <3> QED
      BY <1>2, <3>1 DEF ToSet
  <2>7. {previous[i] : i \in 1..k} = {previous[i] : i \in 1..(k - 1)} \cup {b}
    <3>1. 1..k = (1..(k - 1)) \cup {k}
      BY <2>1
    <3> QED
      BY <3>1
  <2>10. /\ y \in WalkedSoFar(visible)
         /\ b \in hidden => y.items = Append(x.items, b) /\ y.used = x.used
         /\ b \notin hidden =>
               \/ y = x
               \/ /\ x.used + 1 \in 1..Len(visible)
                  /\ y.items = Append(x.items, visible[x.used + 1])
                  /\ y.used = x.used + 1
    <3>1. x \in WalkedSoFar(visible) /\ b \in Blocks /\ y = WalkOn(x, b, visible, hidden)
      BY <2>2, <2>3
    <3> HIDE DEF b, x, y, J, D
    <3>2. \A s \in WalkedSoFar(visible), c \in Blocks :
             /\ WalkOn(s, c, visible, hidden) \in WalkedSoFar(visible)
             /\ c \in hidden => /\ WalkOn(s, c, visible, hidden).items = Append(s.items, c)
                                /\ WalkOn(s, c, visible, hidden).used = s.used
             /\ c \notin hidden =>
                   \/ WalkOn(s, c, visible, hidden) = s
                   \/ /\ s.used + 1 \in 1..Len(visible)
                      /\ WalkOn(s, c, visible, hidden).items = Append(s.items, visible[s.used + 1])
                      /\ WalkOn(s, c, visible, hidden).used = s.used + 1
      BY WalkOnTyped
    <3>3. y \in WalkedSoFar(visible)
      BY <3>1, <3>2
    <3>4. b \in hidden => y.items = Append(x.items, b) /\ y.used = x.used
      BY <3>1, <3>2
    <3>5. b \notin hidden =>
               \/ y = x
               \/ /\ x.used + 1 \in 1..Len(visible)
                  /\ y.items = Append(x.items, visible[x.used + 1])
                  /\ y.used = x.used + 1
      BY <3>1, <3>2
    <3> QED
      BY <3>3, <3>4, <3>5
  <2>8. y \in D
    BY <2>10
  <2>9. IsInjective(y.items) /\ ToSet(y.items) = Before(k) \cup Used(y.used)
    <3>1. CASE b \in hidden
      <4>1. y.items = Append(x.items, b) /\ y.used = x.used
        BY <2>10, <3>1
      <4>2. Before(k) = Before(k - 1) \cup {b}
        BY <2>7, <3>1
      <4>3. b \notin Before(k - 1) /\ b \notin Used(x.used)
        <5>1. b \notin Before(k - 1)
          BY <2>5
        <5>2. b \notin ToSet(visible)
          BY <3>1
        <5> HIDE DEF Used
        <5> QED
          BY <2>6, <5>1, <5>2
      <4> HIDE DEF Before, Used, x, y, b
      <4>4. ToSet(y.items) = ToSet(x.items) \cup {b} /\ IsInjective(y.items)
        BY <2>2, <2>3, <2>4, <4>1, <4>3, Appended
      <4> QED
        BY <2>2, <4>1, <4>2, <4>4
    <3>2. CASE b \notin hidden
      <4>1. Before(k) = Before(k - 1)
        BY <2>7, <3>2
      <4>2. CASE y = x
        <5> HIDE DEF Before, Used, x, y
        <5> QED
          BY <2>2, <4>1, <4>2
      <4>3. CASE /\ x.used + 1 \in 1..Len(visible)
                 /\ y.items = Append(x.items, visible[x.used + 1])
                 /\ y.used = x.used + 1
        <5> DEFINE u == x.used
                   c == visible[u + 1]
        <5>1. c \in Blocks /\ c \in ToSet(visible)
          BY <1>2, <4>3 DEF ToSet
        <5>2. Used(u + 1) = Used(u) \cup {c}
          <6>1. 1..(u + 1) = (1..u) \cup {u + 1}
            BY <2>4
          <6> HIDE DEF u
          <6> QED
            BY <6>1
        <5>3. c \notin Used(u)
          <6>1. \A j \in 1..u : j \in 1..Len(visible) /\ j # u + 1
            BY <1>2, <2>4
          <6>2. u + 1 \in 1..Len(visible)
            BY <4>3
          <6> HIDE DEF u
          <6>3. \A j \in 1..u : visible[j] # visible[u + 1]
            BY <1>2, <6>1, <6>2 DEF IsInjective
          <6> QED
            BY <6>3
        <5>4. c \notin Before(k - 1)
          BY <5>1
        <5>5. y.items = Append(x.items, c) /\ y.used = u + 1
          BY <4>3
        <5>6. ToSet(x.items) = Before(k - 1) \cup Used(u) /\ x.items \in Seq(Blocks) /\ IsInjective(x.items)
          BY <2>2, <2>4
        <5> HIDE DEF Before, Used, x, y, c, u
        <5>7. ToSet(y.items) = ToSet(x.items) \cup {c} /\ IsInjective(y.items)
          BY <5>1, <5>3, <5>4, <5>5, <5>6, Appended
        <5> QED
          BY <4>1, <5>2, <5>5, <5>6, <5>7
      <4>4. \/ y = x
            \/ /\ x.used + 1 \in 1..Len(visible)
               /\ y.items = Append(x.items, visible[x.used + 1])
               /\ y.used = x.used + 1
        BY <2>10, <3>2
      <4> QED
        BY <4>2, <4>3, <4>4
    <3> QED
      BY <3>1, <3>2
  <2> HIDE DEF Before, Used, D, x
  <2> QED
    BY <2>1, <2>8, <2>9 DEF y
<1>6. so[n] \in J[n]
  <2>1. \A k \in 0..n : so[k] \in J[k]
    <3> HIDE DEF J
    <3> QED
      BY <1>1, <1>4, <1>5, Steps
  <2> HIDE DEF J
  <2> QED
    BY <1>1, <2>1
<1>7. /\ so[n] \in D /\ IsInjective(so[n].items)
      /\ ToSet(so[n].items) = Before(n) \cup Used(so[n].used)
  <2>1. n \in 0..n
    BY <1>1
  <2> HIDE DEF Before, Used, D
  <2> QED
    BY <1>6, <2>1
<1>8. Before(n) = ToSet(previous) \cap hidden
    BY <1>1 DEF ToSet
<1> HIDE DEF Before
<1> QED
    BY <1>3, <1>7, <1>8

\* A row's visible blocks and its hidden ones, each once.
LEMMA PreserveWhole ==
    ASSUME NEW previous \in Seq(Blocks), IsInjective(previous),
           NEW visible \in Seq(Blocks), IsInjective(visible),
           NEW hidden \in SUBSET Blocks, ToSet(visible) \cap hidden = {}
    PROVE  /\ PreserveHiddenBlockPositions(previous, visible, hidden) \in Seq(Blocks)
           /\ ToSet(PreserveHiddenBlockPositions(previous, visible, hidden)) =
                 (ToSet(previous) \cap hidden) \cup ToSet(visible)
           /\ IsInjective(PreserveHiddenBlockPositions(previous, visible, hidden))
<1> DEFINE walked == Walked(previous, visible, hidden)
           u == walked.used
           n == Len(visible)
           rest == SubSeq(visible, u + 1, n)
           Used(m) == {visible[j] : j \in 1..m}
<1>1. /\ walked \in WalkedSoFar(visible) /\ IsInjective(walked.items)
      /\ ToSet(walked.items) = (ToSet(previous) \cap hidden) \cup Used(u)
    BY WalkedWhole
<1> HIDE DEF walked
<1>2. /\ walked.items \in Seq(Blocks) /\ u \in Nat /\ u <= n /\ n \in Nat /\ DOMAIN visible = 1..n
      /\ \A j \in 1..n : visible[j] \in Blocks
    BY <1>1 DEF WalkedSoFar
<1>3. /\ rest \in Seq(Blocks) /\ Len(rest) = n - u /\ DOMAIN rest = 1..(n - u)
      /\ \A k \in 1..(n - u) : rest[k] = visible[u + k]
  <2> HIDE DEF u
  <2>1. \A k \in (u + 1)..n : visible[k] \in Blocks
    BY <1>2
  <2>2. /\ SubSeq(visible, u + 1, n) \in Seq(Blocks)
        /\ Len(SubSeq(visible, u + 1, n)) = IF u + 1 <= n THEN n - (u + 1) + 1 ELSE 0
        /\ \A k \in 1..(n - (u + 1) + 1) : SubSeq(visible, u + 1, n)[k] = visible[u + 1 + k - 1]
    BY <1>2, <2>1, SubSeqProperties, n \in Int, u + 1 \in Int
  <2> HIDE DEF n
  <2>3. n - (u + 1) + 1 = n - u /\ (~(u + 1 <= n) => n - u = 0) /\ \A k \in 1..(n - u) : u + 1 + k - 1 = u + k
    BY <1>2
  <2>4. rest \in Seq(Blocks) /\ Len(rest) = n - u /\ \A k \in 1..(n - u) : rest[k] = visible[u + k]
    BY <1>2, <2>2, <2>3
  <2> HIDE DEF rest
  <2> QED
    BY <2>4
<1> HIDE DEF rest, n, u
<1>4. ToSet(rest) = {visible[j] : j \in (u + 1)..n}
  <2>1. \A k \in 1..(n - u) : u + k \in (u + 1)..n
    BY <1>2
  <2>2. \A j \in (u + 1)..n : j - u \in 1..(n - u) /\ u + (j - u) = j
    BY <1>2
  <2>3. \A c \in ToSet(rest) : c \in {visible[j] : j \in (u + 1)..n}
    BY <1>3, <2>1 DEF ToSet
  <2>4. \A j \in (u + 1)..n : visible[j] \in ToSet(rest)
    <3> TAKE j \in (u + 1)..n
    <3>1. j - u \in DOMAIN rest /\ rest[j - u] = visible[j]
      BY <1>3, <2>2
    <3> QED
      BY <3>1 DEF ToSet
  <2> QED
    BY <2>3, <2>4
<1>5. IsInjective(rest)
  <2>1. ASSUME NEW j \in 1..(n - u), NEW k \in 1..(n - u), rest[j] = rest[k]
        PROVE  j = k
    <3>1. u + j \in 1..n /\ u + k \in 1..n /\ visible[u + j] = visible[u + k]
      BY <1>2, <1>3, <2>1
    <3>2. u + j = u + k
      BY <1>2, <3>1 DEF IsInjective
    <3> QED
      BY <1>2, <3>2
  <2> QED
    BY <1>3, <2>1 DEF IsInjective
<1>6. Used(u) \cup ToSet(rest) = ToSet(visible)
  <2>1. 1..n = (1..u) \cup ((u + 1)..n)
    BY <1>2
  <2>2. ToSet(visible) = {visible[j] : j \in 1..n}
    BY <1>2 DEF ToSet
  <2> QED
    BY <1>4, <2>1, <2>2
<1>7. Used(u) \cap ToSet(rest) = {}
  <2>1. \A i \in 1..u, j \in (u + 1)..n : i \in 1..n /\ j \in 1..n /\ i # j
    BY <1>2
  <2>2. \A i \in 1..u, j \in (u + 1)..n : visible[i] # visible[j]
    BY <1>2, <2>1 DEF IsInjective
  <2> QED
    BY <1>4, <2>2
<1> HIDE DEF Used
<1>8. ToSet(walked.items) \cap ToSet(rest) = {}
  <2>1. ToSet(rest) \subseteq ToSet(visible)
    BY <1>6
  <2> QED
    BY <1>1, <1>7, <2>1
<1>9. PreserveHiddenBlockPositions(previous, visible, hidden) = walked.items \o rest
    BY DEF PreserveHiddenBlockPositions, walked, rest, u, n
<1>10. /\ walked.items \o rest \in Seq(Blocks)
       /\ ToSet(walked.items \o rest) = ToSet(walked.items) \cup ToSet(rest)
       /\ IsInjective(walked.items \o rest)
    BY <1>1, <1>2, <1>3, <1>5, <1>8, Joined
<1>11. ToSet(walked.items) \cup ToSet(rest) = (ToSet(previous) \cap hidden) \cup ToSet(visible)
    BY <1>1, <1>6
<1> QED
    BY <1>9, <1>10, <1>11

\* What is committed of a region: the blocks shown are where they were shown,
\* and each hidden one is in the row it was in, for that row was kept.
LEMMA CommitWhole ==
    ASSUME NEW value \in Values, NEW next, Seen(value, next)
    PROVE  Commit(value, next) \in Stored
<1> DEFINE full == FullRows(value)
           hidden == value.hidden
           S == Blocks \ hidden
           rows == next.rows
           Item(i) == PreserveHiddenBlockPositions(
                         full[IndexOfRow(full, rows[i].id)].items, rows[i].items, hidden)
           WithHidden(row) ==
               IF row.id \notin RowIds(full) THEN row
               ELSE [row EXCEPT !.items = PreserveHiddenBlockPositions(
                        full[IndexOfRow(full, row.id)].items, @, hidden)]
           new == [i \in DOMAIN rows |-> WithHidden(rows[i])]
           H(i) == IF rows[i].id \in RowIds(full)
                   THEN ToSet(full[IndexOfRow(full, rows[i].id)].items) \cap hidden ELSE {}
<1>1. full \in Rows /\ Partition(full, Blocks) /\ hidden \in SUBSET Blocks
    BY FullRowsWhole DEF Wholes, Values
<1>2. /\ rows \in Rows /\ Partition(rows, S) /\ next.spans \in Spans /\ next.preferred \in Spans
      /\ next.solo \in Spans
      /\ \A i \in DOMAIN full : ToSet(full[i].items) \cap hidden # {} => full[i].id \in RowIds(rows)
    BY DEF Seen, Canvas, RetainedRowIds
<1> HIDE DEF full, rows, hidden
<1>3. /\ Len(rows) \in Nat /\ DOMAIN rows = 1..Len(rows)
      /\ \A i \in DOMAIN rows : rows[i] \in Row /\ rows[i].id \in RowId /\ rows[i].items \in Seq(Blocks)
    BY <1>2, RowsTyped
<1>4. \A i \in DOMAIN rows : IsInjective(rows[i].items) /\ ToSet(rows[i].items) \subseteq S
    BY <1>2 DEF Partition, Held
<1>5. ASSUME NEW i \in DOMAIN rows
      PROVE  /\ new[i] \in Row /\ new[i].id = rows[i].id /\ IsInjective(new[i].items)
             /\ ToSet(new[i].items) = ToSet(rows[i].items) \cup H(i)
  <2>1. new[i] = WithHidden(rows[i])
    OBVIOUS
  <2> HIDE DEF new
  <2>2. CASE rows[i].id \notin RowIds(full)
    BY <1>3, <1>4, <2>1, <2>2
  <2>3. CASE rows[i].id \in RowIds(full)
    <3> DEFINE was == full[IndexOfRow(full, rows[i].id)].items
               is == rows[i].items
               items == PreserveHiddenBlockPositions(was, is, hidden)
    <3>1. was \in Seq(Blocks) /\ IsInjective(was)
      <4>1. IndexOfRow(full, rows[i].id) \in DOMAIN full
        BY <1>1, <2>3, RowFound
      <4> QED
        BY <1>1, <4>1, RowsTyped DEF Partition
    <3>2. is \in Seq(Blocks) /\ IsInjective(is) /\ ToSet(is) \cap hidden = {}
      BY <1>3, <1>4
    <3>3. new[i] = [rows[i] EXCEPT !.items = items]
      BY <2>1, <2>3
    <3>4. H(i) = ToSet(was) \cap hidden
      BY <2>3
    <3> HIDE DEF was, is, H
    <3>5. /\ items \in Seq(Blocks) /\ IsInjective(items)
          /\ ToSet(items) = (ToSet(was) \cap hidden) \cup ToSet(is)
      BY <1>1, <3>1, <3>2, PreserveWhole
    <3> HIDE DEF items
    <3>6. new[i] \in Row /\ new[i].id = rows[i].id /\ new[i].items = items
      BY <1>3, <3>3, <3>5 DEF Row
    <3>7. ToSet(new[i].items) = ToSet(is) \cup H(i)
      BY <3>4, <3>5, <3>6
    <3> QED
      BY <3>5, <3>6, <3>7 DEF is
  <2> QED
    BY <2>2, <2>3
<1>6. \A i \in DOMAIN rows : H(i) \subseteq hidden
    OBVIOUS
<1>7. ASSUME NEW i \in DOMAIN rows, NEW j \in DOMAIN rows, i # j
      PROVE  new[i].id # new[j].id /\ ToSet(new[i].items) \cap ToSet(new[j].items) = {}
  <2>1. rows[i].id # rows[j].id /\ ToSet(rows[i].items) \cap ToSet(rows[j].items) = {}
    BY <1>2, <1>7 DEF Partition
  <2>2. H(i) \cap H(j) = {}
    <3>1. CASE rows[i].id \in RowIds(full) /\ rows[j].id \in RowIds(full)
      <4> DEFINE k == IndexOfRow(full, rows[i].id)
                 m == IndexOfRow(full, rows[j].id)
      <4>1. k \in DOMAIN full /\ m \in DOMAIN full /\ full[k].id = rows[i].id /\ full[m].id = rows[j].id
        BY <1>1, <3>1, RowFound
      <4>2. H(i) = ToSet(full[k].items) \cap hidden /\ H(j) = ToSet(full[m].items) \cap hidden
        BY <3>1
      <4> HIDE DEF k, m, H
      <4>3. ToSet(full[k].items) \cap ToSet(full[m].items) = {}
        BY <1>1, <2>1, <4>1 DEF Partition
      <4> QED
        BY <4>2, <4>3
    <3>2. CASE rows[i].id \notin RowIds(full) \/ rows[j].id \notin RowIds(full)
      BY <3>2
    <3> QED
      BY <3>1, <3>2
  <2> HIDE DEF new, H
  <2> QED
    BY <1>4, <1>5, <1>6, <2>1, <2>2
<1>8. ASSUME NEW x \in hidden
      PROVE  \E i \in DOMAIN rows : x \in H(i)
  <2> DEFINE k == IndexOfBlock(full, x)
  <2>1. k \in DOMAIN full /\ x \in ToSet(full[k].items)
    BY <1>1, BlockFound
  <2> HIDE DEF k
  <2>2. PICK i \in DOMAIN rows : rows[i].id = full[k].id
    BY <1>2, <2>1 DEF RowIds
  <2>3. rows[i].id \in RowIds(full)
    BY <2>1, <2>2 DEF RowIds
  <2>4. IndexOfRow(full, rows[i].id) \in DOMAIN full /\ full[IndexOfRow(full, rows[i].id)].id = rows[i].id
    BY <1>1, <2>3, RowFound
  <2>5. IndexOfRow(full, rows[i].id) = k
    BY <1>1, <2>1, <2>2, <2>4 DEF Partition
  <2> QED
    BY <2>1, <2>3, <2>5
<1>0. DOMAIN new = DOMAIN rows
    OBVIOUS
<1> HIDE DEF H, new
<1>9. Held(new) = Blocks
  <2>1. \A i \in DOMAIN rows : ToSet(new[i].items) \subseteq Blocks
    BY <1>1, <1>4, <1>5, <1>6
  <2>2. \A x \in Blocks : \E i \in DOMAIN rows : x \in ToSet(new[i].items)
    <3> TAKE x \in Blocks
    <3>1. CASE x \in hidden
      BY <1>5, <1>8, <3>1
    <3>2. CASE x \in S
      <4>1. PICK i \in DOMAIN rows : x \in ToSet(rows[i].items)
        <5> HIDE DEF S
        <5> QED
          BY <1>2, <3>2 DEF Partition, Held
      <4> QED
        BY <1>5, <4>1
    <3> QED
      BY <3>1, <3>2
  <2> QED
    BY <1>0, <2>1, <2>2 DEF Held
<1>10. Partition(new, Blocks)
    BY <1>0, <1>5, <1>7, <1>9 DEF Partition
<1>11. new \in Rows
  <2>1. new = [i \in 1..Len(rows) |-> new[i]]
    BY <1>0, <1>3 DEF new
  <2>2. new \in [1..Len(rows) -> Row]
    BY <1>3, <1>5, <2>1
  <2> QED
    BY <1>3, <2>2 DEF Rows
<1>12. /\ Over(Saved(value, "spans"), next.spans) \in Spans
       /\ Over(Saved(value, "preferred"), next.preferred) \in Spans
    BY <1>2, SavedTyped, OverTyped
<1>13. Commit(value, next) = [rows |-> new, spans |-> Over(Saved(value, "spans"), next.spans),
                              preferred |-> Over(Saved(value, "preferred"), next.preferred),
                              solo |-> next.solo]
    BY DEF Commit, new, full, rows, hidden
<1> QED
    BY <1>2, <1>10, <1>11, <1>12, <1>13 DEF Stored, Wholes

-----------------------------------------------------------------------------
(* What a merge makes of two layouts.                                      *)

\* Orders of all blocks.
Orders == {order \in Seq(Blocks) : IsInjective(order) /\ ToSet(order) = Blocks}

\* A block put elsewhere in an order is in it once.
LEMMA PutOrders ==
    ASSUME NEW order \in Orders, NEW next \in Orders, NEW stable, NEW i \in 1..Len(next)
    PROVE  Put(order, next, stable, i) \in Orders
<1> DEFINE b == next[i]
           rest == Among(order, Blocks \ {b})
           Passed == {j \in 1..Len(next) : next[j] \in stable /\ Position(next[j], next) > i}
           after == SelectInSeq(next, LAMBDA c : c \in stable /\ Position(c, next) > i)
           at == IF after # 0 THEN Position(next[after], rest)
                 ELSE IF i > 1 THEN Position(next[i - 1], rest) + 1
                 ELSE Len(rest) + 1
<1>1. order \in Seq(Blocks) /\ IsInjective(order) /\ ToSet(order) = Blocks
    BY DEF Orders
<1>2. next \in Seq(Blocks) /\ IsInjective(next) /\ ToSet(next) = Blocks
    BY DEF Orders
<1>3. /\ Len(next) \in Nat /\ DOMAIN next = 1..Len(next) /\ b \in Blocks
      /\ \A j \in 1..Len(next) : next[j] \in Blocks
    BY <1>2
<1>4. rest \in Seq(Blocks) /\ ToSet(rest) = Blocks \ {b} /\ IsInjective(rest)
  <2>1. ToSet(order) \cap (Blocks \ {b}) = Blocks \ {b}
    BY <1>1
  <2> QED
    BY <1>1, <2>1, AmongIs
<1>5. Put(order, next, stable, i) = IF b \in stable THEN order ELSE InsertAt(rest, at, b)
    BY DEF Put
<1>6. after = IF Passed # {} THEN Min(Passed) ELSE 0
    BY DEF SelectInSeq
<1>7. after # 0 => after \in 1..Len(next) /\ next[after] \in stable
  <2>1. Passed \in SUBSET (1..Len(next))
    OBVIOUS
  <2>2. Passed # {} => Min(Passed) \in Passed
    <3> HIDE DEF Passed
    <3> QED
      BY <1>3, <2>1, MinOf
  <2> HIDE DEF after
  <2> QED
    BY <1>6, <2>2
<1> HIDE DEF after, rest
<1>8. Len(rest) \in Nat /\ DOMAIN rest = 1..Len(rest)
    BY <1>4
<1>9. \A c \in Blocks \ {b} : Position(c, rest) \in 1..Len(rest)
    BY <1>4, <1>8, PlaceFound
<1>10. CASE b \in stable
    BY <1>5, <1>10
<1>11. CASE b \notin stable
  <2>1. at \in 1..(Len(rest) + 1)
    <3>1. CASE after # 0
      <4>1. next[after] \in Blocks \ {b}
        BY <1>3, <1>7, <1>11, <3>1
      <4>2. Position(next[after], rest) \in 1..Len(rest)
        <5> HIDE DEF b
        <5> QED
          BY <1>9, <4>1
      <4> QED
        BY <1>8, <3>1, <4>2
    <3>2. CASE after = 0 /\ i > 1
      <4>1. i - 1 \in 1..Len(next) /\ i - 1 # i
        BY <1>3, <3>2
      <4>2. next[i - 1] \in Blocks \ {b}
        BY <1>2, <1>3, <4>1 DEF IsInjective
      <4>3. Position(next[i - 1], rest) \in 1..Len(rest)
        <5> HIDE DEF b
        <5> QED
          BY <1>9, <4>2
      <4> QED
        BY <1>8, <3>2, <4>3
    <3>3. CASE after = 0 /\ ~(i > 1)
      BY <1>8, <3>3
    <3> QED
      BY <3>1, <3>2, <3>3
  <2> HIDE DEF at, b
  <2>2. b \notin ToSet(rest)
    BY <1>4
  <2>3. /\ InsertAt(rest, at, b) \in Seq(Blocks)
        /\ ToSet(InsertAt(rest, at, b)) = ToSet(rest) \cup {b}
        /\ IsInjective(InsertAt(rest, at, b))
    BY <1>3, <1>4, <2>1, <2>2, Inserted
  <2>4. ToSet(rest) \cup {b} = Blocks
    BY <1>3, <1>4
  <2> QED
    BY <1>5, <1>11, <2>3, <2>4 DEF Orders
<1> QED
    BY <1>10, <1>11

\* Blocks put elsewhere, one after the other.
LEMMA MergeOrderSteps ==
    ASSUME NEW next \in Orders, NEW stable, NEW latest \in Orders
    PROVE  MergeOrder(next, stable, latest) \in Orders
<1> DEFINE n == Len(next)
           D == Orders
           Start == latest
           Step(x, k) == Put(x, next, stable, [i \in DOMAIN next |-> i][k])
           Is(f) == f = [s \in SUBSET (1..n) |->
                        IF s = {} THEN Start ELSE Step(f[s \ {Max(s)}], Max(s))]
           iter == CHOOSE f : Is(f)
<1>1. n \in Nat
    BY DEF Orders
<1>2. MergeOrder(next, stable, latest) = iter[1..n]
  <2>1. DOMAIN [i \in DOMAIN next |-> i] = 1..n
    BY DEF Orders
  <2> QED
    BY <2>1 DEF MergeOrder, FoldLeftDomain, FoldLeft, MapThenFoldSet
<1>3. Start \in D /\ \A k \in 1..n : \A x \in D : Step(x, k) \in D
  <2>1. \A k \in 1..n : [i \in DOMAIN next |-> i][k] \in 1..Len(next)
    BY DEF Orders
  <2> QED
    BY <2>1, PutOrders
<1>4. Is(iter)
  <2> DEFINE step == [k \in 1..n |-> [x \in D |-> Step(x, k)]]
  <2>1. \A k \in 1..n : \A x \in D : step[k][x] = Step(x, k) /\ step[k][x] \in D
    BY <1>3
  <2> HIDE DEF n, step, D, Step, Start
  <2>2. PICK f \in [SUBSET (1..n) -> D] : Folds(f, n, Start, step)
    BY <1>1, <1>3, <2>1, FoldExists
  <2>3. \A s \in SUBSET (1..n) : s # {} => Max(s) \in 1..n /\ s \ {Max(s)} \in SUBSET (1..n)
    BY <1>1, MaxOf
  <2>4. \A s \in SUBSET (1..n) :
            f[s] = IF s = {} THEN Start ELSE Step(f[s \ {Max(s)}], Max(s))
    BY <2>1, <2>2, <2>3 DEF Folds
  <2>5. Is(f)
    BY <2>2, <2>4
  <2> HIDE DEF Is
  <2> QED
    BY <2>5
<1> HIDE DEF iter, n, D, Step, Start
<1> DEFINE All == D \cup {iter[s] : s \in SUBSET (1..n)}
           step == [k \in 1..n |-> [x \in All |-> Step(x, k)]]
<1>5. \A k \in 1..n : \A x \in All : step[k][x] = Step(x, k)
    OBVIOUS
<1> HIDE DEF step
<1>6. Folds(iter, n, Start, step)
  <2>1. \A s \in SUBSET (1..n) : s # {} => Max(s) \in 1..n /\ iter[s \ {Max(s)}] \in All
    BY <1>1, MaxOf
  <2>2. /\ iter = [s \in SUBSET (1..n) |-> iter[s]]
        /\ \A s \in SUBSET (1..n) :
               iter[s] = IF s = {} THEN Start ELSE Step(iter[s \ {Max(s)}], Max(s))
    BY <1>4
  <2> HIDE DEF All, Is
  <2>3. \A s \in SUBSET (1..n) :
            iter[s] = IF s = {} THEN Start ELSE step[Max(s)][iter[s \ {Max(s)}]]
    BY <1>5, <2>1, <2>2
  <2> QED
    BY <2>2, <2>3 DEF Folds
<1>7. PICK so \in [0..n -> D] : Climbs(so, iter, n, Start, step)
  <2>1. \A k \in 1..n : \A x \in D : step[k][x] \in D
    BY <1>3, <1>5
  <2> QED
    BY <1>1, <1>3, <1>6, <2>1, FoldClimbs
<1>8. iter[1..n] \in D
    BY <1>1, <1>7 DEF Climbs
<1> USE DEF D
<1> QED
    BY <1>2, <1>8

\* The row a block is in is the only one it is in.
LEMMA RowOfIs ==
    ASSUME NEW rows, NEW S, Partition(rows, S), NEW b \in S
    PROVE  /\ \A i \in DOMAIN rows : b \in ToSet(rows[i].items) => RowOf(rows, b) = rows[i].id
           /\ \E i \in DOMAIN rows : b \in ToSet(rows[i].items) /\ RowOf(rows, b) = rows[i].id
<1>1. /\ IndexOfBlock(rows, b) \in DOMAIN rows
      /\ b \in ToSet(rows[IndexOfBlock(rows, b)].items)
      /\ \A i \in DOMAIN rows : b \in ToSet(rows[i].items) => i = IndexOfBlock(rows, b)
    BY BlockFound
<1> QED
    BY <1>1 DEF RowOf

\* A row there, or put where the draft has it, with nothing in it.
LEMMA WithRowWhole ==
    ASSUME NEW rows \in Rows, NEW S, Partition(rows, S), NEW id \in RowId, NEW next \in Rows
    PROVE  /\ WithRow(rows, id, next) \in Rows /\ Partition(WithRow(rows, id, next), S)
           /\ id \in RowIds(WithRow(rows, id, next))
           /\ \A b \in S : RowOf(WithRow(rows, id, next), b) = RowOf(rows, b)
<1> DEFINE Later == {j \in 1..Len(next) : next[j].id \in RowIds(rows)
                                             /\ IndexOfRow(next, next[j].id) > IndexOfRow(next, id)}
           following == SelectInSeq(next, LAMBDA row :
                            row.id \in RowIds(rows) /\ IndexOfRow(next, row.id) > IndexOfRow(next, id))
           at == IF following = 0 THEN Len(rows) + 1 ELSE IndexOfRow(rows, next[following].id)
           empty == [id |-> id, items |-> <<>>]
           more == InsertAt(rows, at, empty)
<1>1. Len(next) \in Nat /\ Len(rows) \in Nat /\ DOMAIN rows = 1..Len(rows)
    BY RowsTyped
<1>2. WithRow(rows, id, next) = IF id \in RowIds(rows) THEN rows ELSE more
    BY DEF WithRow
<1>3. following = IF Later # {} THEN Min(Later) ELSE 0
    BY DEF SelectInSeq
<1>4. following # 0 => next[following].id \in RowIds(rows)
  <2>1. Later \in SUBSET (1..Len(next))
    OBVIOUS
  <2>2. Later # {} => Min(Later) \in Later
    <3> HIDE DEF Later
    <3> QED
      BY <1>1, <2>1, MinOf
  <2> HIDE DEF following
  <2> QED
    BY <1>3, <2>2
<1> HIDE DEF following
<1>5. at \in 1..(Len(rows) + 1)
  <2>1. CASE following = 0
    BY <1>1, <2>1
  <2>2. CASE following # 0
    <3>1. IndexOfRow(rows, next[following].id) \in 1..Len(rows)
      BY <1>1, <1>4, <2>2, RowFound
    <3> QED
      BY <1>1, <2>2, <3>1
  <2> QED
    BY <2>1, <2>2
<1>6. CASE id \in RowIds(rows)
    BY <1>2, <1>6
<1>7. CASE id \notin RowIds(rows)
  <2>1. ToSet(<<>>) = {} /\ IsInjective(<<>>) /\ <<>> \in Seq(Blocks)
    BY DEF ToSet, IsInjective
  <2>2. /\ empty \in Row /\ empty.id \notin RowIds(rows) /\ IsInjective(empty.items)
        /\ ToSet(empty.items) = {} /\ ToSet(empty.items) \cap S = {} /\ empty.id = id
    BY <1>7, <2>1 DEF Row
  <2> HIDE DEF empty, at
  <2>3. S = S \cup ToSet(empty.items)
    BY <2>2
  <2>4. /\ more \in Rows /\ Partition(more, S)
        /\ \A i : i \in RowIds(more) <=> i \in RowIds(rows) \/ i = empty.id
        /\ ToSet(more) = ToSet(rows) \cup {empty}
    <3>1. /\ at \in 1..(Len(rows) + 1) /\ empty \in Row /\ empty.id \notin RowIds(rows)
          /\ IsInjective(empty.items) /\ ToSet(empty.items) \cap S = {}
      BY <1>5, <2>2
    <3>2. /\ more \in Rows /\ Partition(more, S \cup ToSet(empty.items))
          /\ \A i : i \in RowIds(more) <=> i \in RowIds(rows) \/ i = empty.id
          /\ ToSet(more) = ToSet(rows) \cup {empty}
      BY <3>1, RowInserted
    <3> HIDE DEF more
    <3> QED
      BY <2>3, <3>2
  <2> HIDE DEF more
  <2>5. Partition(more, S) /\ id \in RowIds(more)
    BY <2>2, <2>4
  <2>6. ASSUME NEW b \in S
        PROVE  RowOf(more, b) = RowOf(rows, b)
    <3>1. PICK i \in DOMAIN rows : b \in ToSet(rows[i].items) /\ RowOf(rows, b) = rows[i].id
      BY RowOfIs
    <3>2. rows[i] \in ToSet(more)
      BY <2>4 DEF ToSet
    <3>3. PICK j \in DOMAIN more : more[j] = rows[i]
      BY <3>2 DEF ToSet
    <3>4. RowOf(more, b) = more[j].id
      BY <2>5, <3>1, <3>3, RowOfIs
    <3> QED
      BY <3>1, <3>3, <3>4
  <2> QED
    BY <1>2, <1>7, <2>4, <2>5, <2>6
<1> QED
    BY <1>6, <1>7

\* A block put in a row: every other is where it was.
LEMMA PutInRowWhole ==
    ASSUME NEW rows \in Rows, NEW S \in SUBSET Blocks, Partition(rows, S), NEW id \in RowId,
           NEW next \in Rows, NEW b \in Blocks \ S
    PROVE  /\ PutInRow(rows, id, next, b) \in Rows
           /\ Partition(PutInRow(rows, id, next, b), S \cup {b})
           /\ RowOf(PutInRow(rows, id, next, b), b) = id
           /\ \A c \in S : RowOf(PutInRow(rows, id, next, b), c) = RowOf(rows, c)
<1> DEFINE ready == WithRow(rows, id, next)
           at == IndexOfRow(ready, id)
           was == ready[at].items
           items == Append(was, b)
           new == WithItems(ready, at, items)
<1>1. /\ ready \in Rows /\ Partition(ready, S) /\ id \in RowIds(ready)
      /\ \A c \in S : RowOf(ready, c) = RowOf(rows, c)
    BY WithRowWhole
<1>2. PutInRow(rows, id, next, b) = new
    BY DEF PutInRow
<1> HIDE DEF ready
<1>3. at \in DOMAIN ready /\ ready[at].id = id
    BY <1>1, RowFound
<1> HIDE DEF at
<1>4. was \in Seq(Blocks) /\ IsInjective(was) /\ ToSet(was) \subseteq S
    BY <1>1, <1>3, RowsTyped DEF Partition, Held
<1> HIDE DEF was
<1>5. items \in Seq(Blocks) /\ ToSet(items) = ToSet(was) \cup {b} /\ IsInjective(items)
  <2>1. b \notin ToSet(was) /\ b \in Blocks
    BY <1>4
  <2> QED
    BY <1>4, <2>1, Appended
<1> HIDE DEF items
<1>6. \A j \in DOMAIN ready : j # at => ToSet(ready[j].items) \cap ToSet(items) = {}
  <2>1. \A j \in DOMAIN ready : j # at => ToSet(ready[j].items) \cap ToSet(was) = {}
    BY <1>1, <1>3 DEF Partition, was
  <2>2. \A j \in DOMAIN ready : b \notin ToSet(ready[j].items)
    BY <1>1 DEF Partition, Held
  <2> QED
    BY <1>5, <2>1, <2>2
<1>7. S \cup {b} = Swapped(S, ToSet(ready[at].items), ToSet(items))
    BY <1>4, <1>5 DEF was, Swapped
<1>8. /\ new \in Rows /\ Partition(new, S \cup {b})
      /\ DOMAIN new = DOMAIN ready
      /\ \A j \in DOMAIN ready :
            /\ new[j].id = ready[j].id
            /\ new[j].items = IF j = at THEN items ELSE ready[j].items
  <2> DEFINE P == S \cup {b}
  <2>1. /\ ready \in Rows /\ Partition(ready, S) /\ at \in DOMAIN ready
        /\ items \in Seq(Blocks) /\ IsInjective(items) /\ P = Swapped(S, ToSet(ready[at].items), ToSet(items))
    BY <1>1, <1>3, <1>5, <1>7
  <2> HIDE DEF P, new
  <2>2. \A j \in DOMAIN ready : j # at => ToSet(ready[j].items) \cap ToSet(items) = {}
    BY <1>6
  <2> HIDE DEF ready, at, items
  <2>3. WithItems(ready, at, items) \in Rows
    BY <2>1, <2>2, ItemsReplaced
  <2>4. Partition(WithItems(ready, at, items), P)
    BY <2>1, <2>2, ItemsReplaced
  <2>5. /\ DOMAIN WithItems(ready, at, items) = DOMAIN ready
        /\ \A j \in DOMAIN ready :
              /\ WithItems(ready, at, items)[j].id = ready[j].id
              /\ WithItems(ready, at, items)[j].items = IF j = at THEN items ELSE ready[j].items
    BY <2>1, <2>2, ItemsReplaced
  <2> QED
    BY <2>3, <2>4, <2>5 DEF P, new
<1> HIDE DEF new
<1>9. RowOf(new, b) = id
  <2>1. b \in ToSet(new[at].items) /\ at \in DOMAIN new /\ new[at].id = id
    BY <1>3, <1>5, <1>8
  <2>2. b \in S \cup {b}
    OBVIOUS
  <2> QED
    BY <1>8, <2>1, <2>2, RowOfIs
<1>10. ASSUME NEW c \in S
       PROVE  RowOf(new, c) = RowOf(ready, c)
  <2>1. PICK i \in DOMAIN ready : c \in ToSet(ready[i].items) /\ RowOf(ready, c) = ready[i].id
    BY <1>1, RowOfIs
  <2>2. c \in ToSet(new[i].items) /\ i \in DOMAIN new /\ new[i].id = ready[i].id
    BY <1>5, <1>8, <2>1 DEF was
  <2>3. c \in S \cup {b}
    OBVIOUS
  <2>4. RowOf(new, c) = new[i].id
    BY <1>8, <2>2, <2>3, RowOfIs
  <2> QED
    BY <2>1, <2>2, <2>4
<1> QED
    BY <1>1, <1>2, <1>8, <1>9, <1>10

\* The rows with a block where the draft has it, if the owner put it there.
Rehomed(rows, b, previous, next, new) ==
    \A c \in Blocks : RowOf(new, c) =
       IF c = b /\ RowOf(next, b) # RowOf(previous, b) THEN RowOf(next, b) ELSE RowOf(rows, c)

\* A block the owner put in another row goes there; every other stays.
LEMMA MoveToRowWhole ==
    ASSUME NEW rows \in Wholes, NEW b \in Blocks, NEW previous \in Wholes, NEW next \in Wholes
    PROVE  /\ MoveToRow(rows, b, previous, next) \in Wholes
           /\ Rehomed(rows, b, previous, next, MoveToRow(rows, b, previous, next))
<1> DEFINE id == RowOf(next, b)
           S == Blocks \ {b}
           without == Only(rows, S)
           new == PutInRow(without, id, next, b)
<1>1. rows \in Rows /\ Partition(rows, Blocks) /\ next \in Rows /\ Partition(next, Blocks)
    BY DEF Wholes
<1>2. MoveToRow(rows, b, previous, next) = IF id = RowOf(previous, b) THEN rows ELSE new
    BY DEF MoveToRow
<1>3. id \in RowId
  <2>1. PICK i \in DOMAIN next : id = next[i].id
    BY <1>1, RowOfIs
  <2> QED
    BY <1>1, <2>1, RowsTyped
<1>4. /\ without \in Rows /\ Partition(without, Blocks \cap S) /\ DOMAIN without = DOMAIN rows
      /\ \A i \in DOMAIN rows : /\ without[i].id = rows[i].id
                                /\ ToSet(without[i].items) = ToSet(rows[i].items) \cap S
    BY <1>1, RowsRestricted
<1>5. Blocks \cap S = S /\ S \cup {b} = Blocks /\ S \in SUBSET Blocks /\ b \in Blocks \ S
    OBVIOUS
<1> HIDE DEF id, without, S
<1>6. /\ new \in Rows /\ Partition(new, S \cup {b}) /\ RowOf(new, b) = id
      /\ \A c \in S : RowOf(new, c) = RowOf(without, c)
    BY <1>1, <1>3, <1>4, <1>5, PutInRowWhole
<1>7. ASSUME NEW c \in S
      PROVE  RowOf(without, c) = RowOf(rows, c)
  <2>1. c \in Blocks
    BY <1>5
  <2>2. PICK i \in DOMAIN rows : c \in ToSet(rows[i].items) /\ RowOf(rows, c) = rows[i].id
    BY <1>1, <2>1, RowOfIs
  <2>3. c \in ToSet(without[i].items) /\ i \in DOMAIN without /\ without[i].id = rows[i].id
    BY <1>4, <2>2
  <2>4. RowOf(without, c) = without[i].id
    BY <1>4, <1>5, <2>3, RowOfIs
  <2> QED
    BY <2>2, <2>3, <2>4
<1> HIDE DEF new
<1>8. CASE id = RowOf(previous, b)
    BY <1>2, <1>8 DEF id, Rehomed
<1>9. CASE id # RowOf(previous, b)
  <2>1. MoveToRow(rows, b, previous, next) = new
    BY <1>2, <1>9
  <2>2. new \in Wholes
    BY <1>5, <1>6 DEF Wholes
  <2>3. \A c \in Blocks : RowOf(new, c) = IF c = b THEN id ELSE RowOf(rows, c)
    BY <1>6, <1>7 DEF S
  <2> QED
    BY <1>9, <2>1, <2>2, <2>3 DEF id, Rehomed
<1> QED
    BY <1>8, <1>9

\* The steps of such a move.
Moving(previous, next, latest) ==
    \E so \in [0..Len(BlocksIn(next)) -> Wholes] :
        /\ so[0] = latest
        /\ \A k \in 1..Len(BlocksIn(next)) : so[k] = MoveToRow(so[k - 1], BlocksIn(next)[k], previous, next)
        /\ Moved(previous, next, latest) = so[Len(BlocksIn(next))]

\* Blocks moved, one after the other.
LEMMA MovedSteps ==
    ASSUME NEW previous \in Wholes, NEW next \in Wholes, NEW latest \in Wholes
    PROVE  Moving(previous, next, latest)
<1> DEFINE n == Len(BlocksIn(next))
           D == Wholes
           Start == latest
           Step(x, k) == MoveToRow(x, BlocksIn(next)[k], previous, next)
           Is(f) == f = [s \in SUBSET (1..n) |->
                        IF s = {} THEN Start ELSE Step(f[s \ {Max(s)}], Max(s))]
           iter == CHOOSE f : Is(f)
<1>1. n \in Nat
    
  <2>1. BlocksIn(next) \in Seq(Blocks)
    BY BlocksInOnce DEF Wholes
  <2> QED
    BY <2>1
<1>2. Moved(previous, next, latest) = iter[1..n]
  <2>1. BlocksIn(next) \in Seq(Blocks)
    BY BlocksInOnce DEF Wholes
  <2>2. DOMAIN BlocksIn(next) = 1..n
    BY <2>1
  <2> QED
    BY <2>2 DEF Moved, FoldLeft, MapThenFoldSet
<1>3. Start \in D /\ \A k \in 1..n : \A x \in D : Step(x, k) \in D
  <2>1. BlocksIn(next) \in Seq(Blocks)
    BY BlocksInOnce DEF Wholes
  <2>2. \A k \in 1..n : BlocksIn(next)[k] \in Blocks
    BY <2>1
  <2> HIDE DEF n
  <2> QED
    BY <2>2, MoveToRowWhole
<1>4. Is(iter)
  <2> DEFINE step == [k \in 1..n |-> [x \in D |-> Step(x, k)]]
  <2>1. \A k \in 1..n : \A x \in D : step[k][x] = Step(x, k) /\ step[k][x] \in D
    BY <1>3
  <2> HIDE DEF n, step, D, Step, Start
  <2>2. PICK f \in [SUBSET (1..n) -> D] : Folds(f, n, Start, step)
    BY <1>1, <1>3, <2>1, FoldExists
  <2>3. \A s \in SUBSET (1..n) : s # {} => Max(s) \in 1..n /\ s \ {Max(s)} \in SUBSET (1..n)
    BY <1>1, MaxOf
  <2>4. \A s \in SUBSET (1..n) :
            f[s] = IF s = {} THEN Start ELSE Step(f[s \ {Max(s)}], Max(s))
    BY <2>1, <2>2, <2>3 DEF Folds
  <2>5. Is(f)
    BY <2>2, <2>4
  <2> HIDE DEF Is
  <2> QED
    BY <2>5
<1> HIDE DEF iter, n, D, Step, Start
<1> DEFINE All == D \cup {iter[s] : s \in SUBSET (1..n)}
           step == [k \in 1..n |-> [x \in All |-> Step(x, k)]]
<1>5. \A k \in 1..n : \A x \in All : step[k][x] = Step(x, k)
    OBVIOUS
<1> HIDE DEF step
<1>6. Folds(iter, n, Start, step)
  <2>1. \A s \in SUBSET (1..n) : s # {} => Max(s) \in 1..n /\ iter[s \ {Max(s)}] \in All
    BY <1>1, MaxOf
  <2>2. /\ iter = [s \in SUBSET (1..n) |-> iter[s]]
        /\ \A s \in SUBSET (1..n) :
               iter[s] = IF s = {} THEN Start ELSE Step(iter[s \ {Max(s)}], Max(s))
    BY <1>4
  <2> HIDE DEF All, Is
  <2>3. \A s \in SUBSET (1..n) :
            iter[s] = IF s = {} THEN Start ELSE step[Max(s)][iter[s \ {Max(s)}]]
    BY <1>5, <2>1, <2>2
  <2> QED
    BY <2>2, <2>3 DEF Folds
<1>7. PICK so \in [0..n -> D] : Climbs(so, iter, n, Start, step)
  <2>1. \A k \in 1..n : \A x \in D : step[k][x] \in D
    BY <1>3, <1>5
  <2> QED
    BY <1>1, <1>3, <1>6, <2>1, FoldClimbs
<1>8. \A k \in 1..n : so[k] = Step(so[k - 1], k)
  <2>1. \A k \in 1..n : k - 1 \in 0..n /\ so[k - 1] \in All
    BY <1>1
  <2> QED
    BY <1>5, <1>7, <2>1 DEF Climbs
<1>9. so[0] = Start /\ iter[1..n] = so[n]
    BY <1>7 DEF Climbs
<1> USE DEF n, D, Step, Start
<1> QED
    BY <1>2, <1>8, <1>9 DEF Moving

\* Rows with every block where the draft has it, if the owner put it there.
Followed(previous, next, latest, new) ==
    \A c \in Blocks : RowOf(new, c) =
       IF RowOf(next, c) # RowOf(previous, c) THEN RowOf(next, c) ELSE RowOf(latest, c)

\* Every block whose row the owner changed is in the owner's row, the others
\* are where the server has them.
LEMMA MovedWhole ==
    ASSUME NEW previous \in Wholes, NEW next \in Wholes, NEW latest \in Wholes
    PROVE  /\ Moved(previous, next, latest) \in Wholes
           /\ Followed(previous, next, latest, Moved(previous, next, latest))
<1> DEFINE bs == BlocksIn(next)
           n == Len(bs)
           Before(k) == {bs[i] : i \in 1..k}
           SoFar(x, k) == \A c \in Blocks : RowOf(x, c) =
                            IF c \in Before(k) /\ RowOf(next, c) # RowOf(previous, c)
                            THEN RowOf(next, c) ELSE RowOf(latest, c)
           J == [k \in 0..n |-> {x \in Wholes : SoFar(x, k)}]
<1>1. bs \in Seq(Blocks) /\ ToSet(bs) = Blocks /\ IsInjective(bs)
    BY BlocksInOnce DEF Wholes
<1>2. PICK so \in [0..n -> Wholes] :
         /\ so[0] = latest
         /\ \A k \in 1..n : so[k] = MoveToRow(so[k - 1], bs[k], previous, next)
         /\ Moved(previous, next, latest) = so[n]
  <2>1. Moving(previous, next, latest)
    BY MovedSteps
  <2> QED
    BY <2>1 DEF Moving
<1>3. n \in Nat /\ DOMAIN bs = 1..n /\ \A k \in 1..n : bs[k] \in Blocks
    BY <1>1
<1> HIDE DEF n, bs
<1>4. so[0] \in J[0]
  <2>1. 0 \in 0..n /\ Before(0) = {}
    BY <1>3
  <2> HIDE DEF Before
  <2>2. SoFar(latest, 0)
    BY <2>1
  <2> HIDE DEF SoFar
  <2> QED
    BY <1>2, <2>1, <2>2
<1>5. ASSUME NEW k \in 1..n, so[k - 1] \in J[k - 1]
      PROVE  so[k] \in J[k]
  <2>1. k - 1 \in 0..n /\ k \in 0..n /\ k \in Nat
    BY <1>3
  <2> DEFINE x == so[k - 1]
             y == so[k]
             b == bs[k]
  <2>2. x \in Wholes /\ SoFar(x, k - 1)
    <3> HIDE DEF SoFar
    <3> QED
      BY <1>5, <2>1
  <2>3. y = MoveToRow(x, b, previous, next) /\ b \in Blocks /\ y \in Wholes
    BY <1>2, <1>3, <2>1
  <2> HIDE DEF x, y, b
  <2>4. \A c \in Blocks : RowOf(y, c) =
           IF c = b /\ RowOf(next, b) # RowOf(previous, b) THEN RowOf(next, b) ELSE RowOf(x, c)
    <3>1. Rehomed(x, b, previous, next, y)
      BY <2>2, <2>3, MoveToRowWhole
    <3> QED
      BY <3>1 DEF Rehomed
  <2>5. Before(k) = Before(k - 1) \cup {b}
    <3>1. 1..k = (1..(k - 1)) \cup {k}
      BY <2>1
    <3> QED
      BY <3>1 DEF b
  <2> HIDE DEF Before
  <2>6. SoFar(y, k)
    <3>1. ASSUME NEW c \in Blocks
          PROVE  RowOf(y, c) = IF c \in Before(k) /\ RowOf(next, c) # RowOf(previous, c)
                               THEN RowOf(next, c) ELSE RowOf(latest, c)
      <4>1. RowOf(x, c) = IF c \in Before(k - 1) /\ RowOf(next, c) # RowOf(previous, c)
                          THEN RowOf(next, c) ELSE RowOf(latest, c)
        BY <2>2
      <4>2. CASE c = b
        BY <2>4, <2>5, <4>1, <4>2
      <4>3. CASE c # b
        BY <2>4, <2>5, <4>1, <4>3
      <4> QED
        BY <4>2, <4>3
    <3> QED
      BY <3>1
  <2> HIDE DEF SoFar
  <2> QED
    BY <2>1, <2>3, <2>6 DEF y
<1>6. so[n] \in J[n]
  <2>1. \A k \in 0..n : so[k] \in J[k]
    <3> HIDE DEF J
    <3> QED
      BY <1>3, <1>4, <1>5, Steps
  <2> HIDE DEF J
  <2> QED
    BY <1>3, <2>1
<1>7. so[n] \in Wholes /\ SoFar(so[n], n)
  <2>1. n \in 0..n
    BY <1>3
  <2> HIDE DEF SoFar
  <2> QED
    BY <1>6, <2>1
<1>8. Before(n) = Blocks
    BY <1>1, <1>3 DEF ToSet
<1> HIDE DEF Before
<1> QED
    BY <1>2, <1>7, <1>8 DEF Followed

\* The rows merged: each block is in the row it was moved to.
LEMMA MergeRowsWhole ==
    ASSUME NEW previous \in Wholes, NEW next \in Wholes, NEW latest \in Wholes, NEW order \in Orders
    PROVE  /\ MergeRows(previous, next, latest, order) \in Wholes
           /\ Followed(previous, next, latest, MergeRows(previous, next, latest, order))
<1> DEFINE moved == Moved(previous, next, latest)
           some == {row \in ToSet(moved) : row.items # <<>>}
           filled == Among(moved, some)
           new == [i \in DOMAIN filled |-> [filled[i] EXCEPT !.items = Among(order, ToSet(@))]]
<1>1. /\ moved \in Rows /\ Partition(moved, Blocks)
      /\ \A c \in Blocks : RowOf(moved, c) =
            IF RowOf(next, c) # RowOf(previous, c) THEN RowOf(next, c) ELSE RowOf(latest, c)
    BY MovedWhole DEF Wholes, Followed
<1>2. MergeRows(previous, next, latest, order) = new
    BY DEF MergeRows
<1> HIDE DEF moved
<1>3. filled \in Rows /\ Partition(filled, Blocks) /\ ToSet(filled) = ToSet(moved) \cap some
  <2>1. \A row \in ToSet(moved) : row \notin some => row.items = <<>>
    OBVIOUS
  <2> HIDE DEF some
  <2> QED
    BY <1>1, <2>1, RowsFiltered
<1>4. ASSUME NEW c \in Blocks
      PROVE  RowOf(filled, c) = RowOf(moved, c)
  <2> HIDE DEF filled
  <2>1. PICK i \in DOMAIN filled : c \in ToSet(filled[i].items) /\ RowOf(filled, c) = filled[i].id
    BY <1>3, RowOfIs
  <2>2. filled[i] \in ToSet(moved)
    <3>1. filled[i] \in ToSet(filled)
      BY <2>1 DEF ToSet
    <3> QED
      BY <1>3, <3>1
  <2>3. PICK j \in DOMAIN moved : moved[j] = filled[i]
    BY <2>2 DEF ToSet
  <2>4. RowOf(moved, c) = moved[j].id
    BY <1>1, <2>1, <2>3, RowOfIs
  <2> QED
    BY <2>1, <2>3, <2>4
<1> HIDE DEF filled
<1>5. /\ Len(filled) \in Nat /\ DOMAIN filled = 1..Len(filled)
      /\ \A i \in DOMAIN filled : /\ filled[i] \in Row /\ filled[i].id \in RowId
                                  /\ ToSet(filled[i].items) \subseteq Blocks
    BY <1>3, RowsTyped
<1>6. order \in Seq(Blocks) /\ IsInjective(order) /\ ToSet(order) = Blocks
    BY DEF Orders
<1>0. DOMAIN new = DOMAIN filled
    OBVIOUS
<1>7. ASSUME NEW i \in DOMAIN filled
      PROVE  /\ new[i] \in Row /\ new[i].id = filled[i].id /\ IsInjective(new[i].items)
             /\ ToSet(new[i].items) = ToSet(filled[i].items)
  <2> DEFINE T == ToSet(filled[i].items)
             items == Among(order, T)
  <2>1. items \in Seq(Blocks) /\ ToSet(items) = T /\ IsInjective(items)
    <3>1. items \in Seq(Blocks) /\ ToSet(items) = ToSet(order) \cap T /\ IsInjective(items)
      <4> HIDE DEF T
      <4> QED
        BY <1>6, AmongIs
    <3>2. ToSet(order) \cap T = T
      BY <1>5, <1>6
    <3> HIDE DEF items, T
    <3> QED
      BY <3>1, <3>2
  <2>2. new[i] = [filled[i] EXCEPT !.items = items]
    OBVIOUS
  <2> HIDE DEF new, items
  <2>3. new[i] \in Row /\ new[i].id = filled[i].id /\ new[i].items = items
    BY <1>5, <2>1, <2>2 DEF Row
  <2> QED
    BY <2>1, <2>3
<1>8. new \in Rows
  <2>1. new = [i \in 1..Len(filled) |-> new[i]]
    BY <1>0, <1>5
  <2> HIDE DEF new
  <2>2. new \in [1..Len(filled) -> Row]
    BY <1>5, <1>7, <2>1
  <2> QED
    BY <1>5, <2>2 DEF Rows
<1> HIDE DEF new
<1>9. Partition(new, Blocks)
  <2>1. \A i, j \in DOMAIN new : i # j =>
           new[i].id # new[j].id /\ ToSet(new[i].items) \cap ToSet(new[j].items) = {}
    BY <1>0, <1>3, <1>7 DEF Partition
  <2>2. {ToSet(new[i].items) : i \in DOMAIN new} = {ToSet(filled[i].items) : i \in DOMAIN filled}
    BY <1>0, <1>7
  <2>3. Held(new) = Held(filled)
    BY <2>2 DEF Held
  <2> QED
    BY <1>0, <1>3, <1>7, <2>1, <2>3 DEF Partition
<1>10. ASSUME NEW c \in Blocks
       PROVE  RowOf(new, c) = RowOf(filled, c)
  <2>1. PICK i \in DOMAIN filled : c \in ToSet(filled[i].items) /\ RowOf(filled, c) = filled[i].id
    BY <1>3, RowOfIs
  <2>2. c \in ToSet(new[i].items) /\ i \in DOMAIN new /\ new[i].id = filled[i].id
    BY <1>0, <1>7, <2>1
  <2>3. RowOf(new, c) = new[i].id
    BY <1>9, <2>2, RowOfIs
  <2> QED
    BY <2>1, <2>2, <2>3
<1> QED
    BY <1>1, <1>2, <1>4, <1>8, <1>9, <1>10 DEF Wholes, Followed

\* What a merge keeps of three layouts.
Both(previous, next, latest, merged) ==
    \A b \in Blocks :
       /\ Kept(RowOf(previous.rows, b), RowOf(next.rows, b), RowOf(latest.rows, b), RowOf(merged.rows, b))
       /\ \A f \in {"spans", "preferred", "solo"} :
             Kept(previous[f][b], next[f][b], latest[f][b], merged[f][b])

\* Merging layouts makes a layout of every block, with the rows and widths
\* each owner chose.
LEMMA MergedWhole ==
    ASSUME NEW previous \in Stored, NEW next \in Stored, NEW latest \in Stored
    PROVE  /\ MergeBlockLayout(previous, next, latest) \in Stored
           /\ NoLayout \notin {previous, next, latest} =>
                 Both(previous, next, latest, MergeBlockLayout(previous, next, latest))
<1> DEFINE Mine(was, is, theirs) == [b \in Blocks |-> IF was[b] # is[b] THEN is[b] ELSE theirs[b]]
           stable == Stable(BlocksIn(previous.rows), BlocksIn(next.rows))
           order == MergeOrder(BlocksIn(next.rows), stable, BlocksIn(latest.rows))
           rows == MergeRows(previous.rows, next.rows, latest.rows, order)
           spans == Mine(previous.spans, next.spans, latest.spans)
           preferred == Mine(previous.preferred, next.preferred, latest.preferred)
           solo == Mine(previous.solo, next.solo, latest.solo)
           new == [rows |-> rows, spans |-> spans, preferred |-> preferred, solo |-> solo]
           merged == MergeBlockLayout(previous, next, latest)
<1>1. \A layout \in Stored : /\ layout.rows \in Wholes /\ layout.spans \in Spans
                             /\ layout.preferred \in Spans /\ layout.solo \in Spans
                             /\ layout["spans"] = layout.spans
                             /\ layout["preferred"] = layout.preferred /\ layout["solo"] = layout.solo
    BY DEF Stored
<1>2. merged = IF previous = NoLayout \/ latest = NoLayout \/ previous = latest THEN next
               ELSE IF previous = next THEN latest ELSE new
    BY DEF MergeBlockLayout
<1>3. order \in Orders
  <2>1. \A r \in Wholes : BlocksIn(r) \in Orders
    BY BlocksInOnce DEF Wholes, Orders
  <2>2. BlocksIn(next.rows) \in Orders /\ BlocksIn(latest.rows) \in Orders
    BY <1>1, <2>1
  <2> HIDE DEF stable
  <2> QED
    BY <2>2, MergeOrderSteps
<1> HIDE DEF order
<1>4. /\ rows \in Wholes
      /\ \A c \in Blocks : RowOf(rows, c) =
            IF RowOf(next.rows, c) # RowOf(previous.rows, c) THEN RowOf(next.rows, c)
            ELSE RowOf(latest.rows, c)
  <2>1. previous.rows \in Wholes /\ next.rows \in Wholes /\ latest.rows \in Wholes
    BY <1>1
  <2> QED
    <3>1. rows \in Wholes /\ Followed(previous.rows, next.rows, latest.rows, rows)
      BY <1>3, <2>1, MergeRowsWhole
    <3> QED
      BY <3>1 DEF Followed
<1> HIDE DEF rows
<1>5. \A is, theirs, was \in Spans : Mine(was, is, theirs) \in Spans
    BY DEF Spans
<1>6. spans \in Spans /\ preferred \in Spans /\ solo \in Spans
  <2> HIDE DEF Mine
  <2> QED
    BY <1>1, <1>5
<1>7. \A b \in Blocks : /\ Kept(previous.spans[b], next.spans[b], latest.spans[b], spans[b])
                        /\ Kept(previous.preferred[b], next.preferred[b], latest.preferred[b], preferred[b])
                        /\ Kept(previous.solo[b], next.solo[b], latest.solo[b], solo[b])
    BY DEF Kept
<1> HIDE DEF spans, preferred, solo
<1>8. new \in Stored
    BY <1>4, <1>6 DEF Stored
<1>9. Both(previous, next, latest, new)
  <2>1. /\ new.rows = rows /\ new["spans"] = spans /\ new["preferred"] = preferred /\ new["solo"] = solo
    OBVIOUS
  <2> HIDE DEF new
  <2>2. ASSUME NEW b \in Blocks
        PROVE  /\ Kept(RowOf(previous.rows, b), RowOf(next.rows, b), RowOf(latest.rows, b), RowOf(new.rows, b))
               /\ Kept(previous["spans"][b], next["spans"][b], latest["spans"][b], new["spans"][b])
               /\ Kept(previous["preferred"][b], next["preferred"][b], latest["preferred"][b], new["preferred"][b])
               /\ Kept(previous["solo"][b], next["solo"][b], latest["solo"][b], new["solo"][b])
    <3>1. Kept(RowOf(previous.rows, b), RowOf(next.rows, b), RowOf(latest.rows, b), RowOf(new.rows, b))
      BY <1>4, <2>1 DEF Kept
    <3> QED
      BY <1>1, <1>7, <2>1, <3>1
  <2> QED
    BY <2>2 DEF Both
<1> HIDE DEF new
<1>10. merged \in Stored
    BY <1>2, <1>8
<1>11. previous = latest => Both(previous, next, latest, next)
    BY DEF Both, Kept
<1>12. previous = next => Both(previous, next, latest, latest)
    BY DEF Both, Kept
<1>13. NoLayout \notin {previous, next, latest} => Both(previous, next, latest, merged)
    BY <1>2, <1>9, <1>11, <1>12
<1> QED
    BY <1>10, <1>13

-----------------------------------------------------------------------------
(* The inductive invariant.                                                *)

Drags == [block : Blocks, layout : Canvas]

\* Everything anybody holds is a layout of every block; what a drag previews
\* is a rearrangement of what its owner's draft shows; and a draft is without
\* a layout only when the one it was made from was.
Invariant ==
    /\ stored \in Values
    /\ base \in [Owners -> Values]
    /\ draft \in [Owners -> Values]
    /\ drag \in [Owners -> Drags \cup {NoLayout}]
    /\ edits \in 0..MaxEdits
    /\ \A o \in Owners : drag[o] # NoLayout =>
           Seen(draft[o], drag[o].layout) /\ drag[o].block \in Visible(o)
    /\ \A o \in Owners : draft[o].layout \in Stored \/ base[o].layout = NoLayout

\* A value of these can be saved.
LEMMA ValuesAccepted ==
    ASSUME NEW value \in Values
    PROVE  Accepted(value) /\ value.hidden \subseteq Blocks
<1>1. value.layout \in Stored \cup {NoLayout} /\ value.hidden \subseteq Blocks
    BY DEF Values
<1>2. CASE value.layout = NoLayout
    BY <1>1, <1>2 DEF Accepted
<1>3. CASE value.layout \in Stored
  <2>1. /\ Partition(value.layout.rows, Blocks)
        /\ value.layout.spans \in Spans /\ value.layout.preferred \in Spans /\ value.layout.solo \in Spans
    BY <1>3 DEF Stored, Wholes
  <2> QED
    BY <1>1, <2>1 DEF Accepted, Spans
<1> QED
    BY <1>1, <1>2, <1>3

\* What a save sends is a layout of every block, merged or not, and keeps both.
LEMMA MergeTyped ==
    ASSUME NEW previous \in Values, NEW next \in Values, NEW latest \in Values,
           next.layout \in Stored \/ previous.layout = NoLayout
    PROVE  /\ Merge(previous, next, latest) \in Values
           /\ NoLayout \notin {previous.layout, next.layout, latest.layout} =>
                 Both(previous.layout, next.layout, latest.layout, Merge(previous, next, latest).layout)
<1> DEFINE P == previous.layout
           N == next.layout
           L == latest.layout
           M == IF P = N THEN L ELSE MergeBlockLayout(P, N, L)
           H == IF previous.hidden = next.hidden THEN latest.hidden ELSE next.hidden
<1>1. /\ P \in Stored \cup {NoLayout} /\ N \in Stored \cup {NoLayout} /\ L \in Stored \cup {NoLayout}
      /\ H \in SUBSET Blocks /\ (N \in Stored \/ P = NoLayout)
    BY DEF Values
<1>2. Merge(previous, next, latest) = [layout |-> M, hidden |-> H]
    BY DEF Merge
<1> HIDE DEF P, N, L, H
<1>3. M \in Stored \cup {NoLayout}
  <2>1. CASE P = N
    BY <1>1, <2>1
  <2>2. CASE P # N /\ (P = NoLayout \/ L = NoLayout)
    <3>1. MergeBlockLayout(P, N, L) = N
      BY <2>2 DEF MergeBlockLayout
    <3> QED
      BY <1>1, <2>2, <3>1
  <2>3. CASE P # N /\ P # NoLayout /\ L # NoLayout
    <3>1. MergeBlockLayout(P, N, L) \in Stored
      BY <1>1, <2>3, MergedWhole
    <3> QED
      BY <2>3, <3>1
  <2> QED
    BY <2>1, <2>2, <2>3
<1>4. ASSUME NoLayout \notin {P, N, L}
      PROVE  Both(P, N, L, M)
  <2>1. P \in Stored /\ N \in Stored /\ L \in Stored
    BY <1>1, <1>4
  <2>2. CASE P = N
    BY <2>2 DEF Both, Kept
  <2>3. CASE P # N
    <3>1. Both(P, N, L, MergeBlockLayout(P, N, L))
      BY <1>4, <2>1, MergedWhole
    <3> QED
      BY <2>3, <3>1
  <2> QED
    BY <2>2, <2>3
<1> HIDE DEF M
<1>5. Merge(previous, next, latest) \in Values /\ Merge(previous, next, latest).layout = M
    BY <1>1, <1>2, <1>3 DEF Values
<1> QED
    BY <1>4, <1>5 DEF P, N, L

\* What a save sends can be stored.
LEMMA SentTyped ==
    ASSUME Invariant, NEW o \in Owners
    PROVE  Sent(o) \in Values
<1>1. /\ stored \in Values /\ base[o] \in Values /\ draft[o] \in Values
      /\ draft[o].layout \in Stored \/ base[o].layout = NoLayout
    BY DEF Invariant
<1>2. Merge(base[o], draft[o], stored) \in Values
    BY <1>1, MergeTyped
<1> QED
    BY <1>1, <1>2 DEF Sent

\* In such a state every draft can be saved.
LEMMA InvariantTypeOK ==
    ASSUME Invariant
    PROVE  TypeOK
<1>1. \A value \in {stored} \cup {base[o] : o \in Owners} \cup {draft[o] : o \in Owners} :
         Accepted(value) /\ value.hidden \subseteq Blocks
  <2>1. \A value \in {stored} \cup {base[o] : o \in Owners} \cup {draft[o] : o \in Owners} : value \in Values
    BY DEF Invariant
  <2> QED
    BY <2>1, ValuesAccepted
<1>2. ASSUME NEW o \in Owners
      PROVE  /\ drag[o] # NoLayout => drag[o].block \in Visible(o)
             /\ \A sent \in {Sent(o)} : Accepted(sent)
    BY SentTyped, ValuesAccepted DEF Invariant
<1>3. edits \in 0..MaxEdits
    BY DEF Invariant
<1> QED
    BY <1>1, <1>2, <1>3 DEF TypeOK

\* The invariant holds before anybody edits.
LEMMA Initially ==
    ASSUME Init
    PROVE  Invariant
<1>1. Nothing \in Values /\ Nothing.layout = NoLayout
    BY DEF Nothing, Values
<1>2. AsAuthored \in Values /\ AsAuthored.layout \in Stored
  <2>1. Commit(Nothing, Region(Nothing)) \in Stored
    BY <1>1, RegionSeen, CommitWhole
  <2> QED
    BY <2>1 DEF AsAuthored, Values
<1>3. stored \in Values /\ (stored.layout \in Stored \/ stored.layout = NoLayout)
    BY <1>1, <1>2 DEF Init
<1>4. edits \in 0..MaxEdits
    BY LayoutAssumption DEF Init
<1> QED
    BY <1>3, <1>4 DEF Init, Invariant

\* A drag previews another arrangement of the same visible blocks.
LEMMA DragToKeeps ==
    ASSUME Invariant, NEW o \in Owners, DragTo(o)
    PROVE  Invariant'
<1> DEFINE now == IF drag[o] = NoLayout THEN Region(draft[o]) ELSE drag[o].layout
           dragged == IF drag[o] = NoLayout THEN Visible(o) ELSE {drag[o].block}
<1>0. PICK b \in dragged : \E target \in Visible(o) \ {b}, placement \in Beside \cup Apart :
         /\ ResolveCanvasMove(now, b, target, placement) # NoLayout
         /\ drag' = [drag EXCEPT ![o] = [block |-> b, layout |-> ResolveCanvasMove(now, b, target, placement)]]
    BY DEF DragTo
<1>1. PICK target \in Visible(o) \ {b}, placement \in Beside \cup Apart :
         /\ ResolveCanvasMove(now, b, target, placement) # NoLayout
         /\ drag' = [drag EXCEPT ![o] = [block |-> b, layout |-> ResolveCanvasMove(now, b, target, placement)]]
    BY <1>0
<1>2. /\ draft[o] \in Values
      /\ drag[o] # NoLayout => Seen(draft[o], drag[o].layout) /\ drag[o].block \in Visible(o)
    BY DEF Invariant
<1>3. Seen(draft[o], now) /\ b \in Visible(o)
    BY <1>2, RegionSeen
<1>4. Visible(o) = Blocks \ draft[o].hidden
    BY DEF Visible
<1> HIDE DEF now
<1> DEFINE next == ResolveCanvasMove(now, b, target, placement)
<1>5. Seen(draft[o], next)
    BY <1>1, <1>2, <1>3, <1>4, MoveSeen
<1> DEFINE new == [block |-> b, layout |-> next]
<1>6. new \in Drags /\ new.layout = next /\ new.block = b
    BY <1>3, <1>4, <1>5 DEF Drags, Seen
<1>7. drag' = [drag EXCEPT ![o] = new]
    BY <1>1
<1> HIDE DEF next, new
<1>8. /\ stored' = stored /\ base' = base /\ draft' = draft
      /\ edits < MaxEdits /\ edits' = edits + 1
    BY DEF DragTo
<1>9. edits' \in 0..MaxEdits
    BY <1>8, LayoutAssumption DEF Invariant
<1>10. drag' \in [Owners -> Drags \cup {NoLayout}]
    BY <1>6, <1>7 DEF Invariant
<1>11. ASSUME NEW p \in Owners, drag'[p] # NoLayout
       PROVE  Seen(draft'[p], drag'[p].layout) /\ drag'[p].block \in Visible(p)'
  <2>1. Visible(p)' = Visible(p) /\ draft'[p] = draft[p]
    BY <1>8 DEF Visible
  <2>2. CASE p = o
    <3>1. drag'[p] = new
      BY <1>7, <2>2 DEF Invariant
    <3> QED
      BY <1>3, <1>5, <1>6, <2>1, <2>2, <3>1
  <2>3. CASE p # o
    <3>1. drag'[p] = drag[p]
      BY <1>7, <2>3 DEF Invariant
    <3> QED
      BY <1>11, <2>1, <3>1 DEF Invariant
  <2> QED
    BY <2>2, <2>3
<1> QED
    BY <1>8, <1>9, <1>10, <1>11 DEF Invariant

\* A draft replaced, or a drag ended, with no drag left of that owner.
LEMMA DraftKeeps ==
    ASSUME Invariant, NEW o \in Owners, NEW value \in Values,
           value.layout \in Stored \/ base'[o].layout = NoLayout,
           draft' = [draft EXCEPT ![o] = value], drag' = [drag EXCEPT ![o] = NoLayout],
           stored' \in Values, base' \in [Owners -> Values],
           \A p \in Owners : p # o => base'[p] = base[p], edits' \in 0..MaxEdits
    PROVE  Invariant'
<1>1. draft' \in [Owners -> Values] /\ drag' \in [Owners -> Drags \cup {NoLayout}]
    BY DEF Invariant
<1>2. /\ draft'[o] = value /\ drag'[o] = NoLayout
      /\ \A p \in Owners : p # o => draft'[p] = draft[p] /\ drag'[p] = drag[p]
    BY DEF Invariant
<1>3. ASSUME NEW p \in Owners, drag'[p] # NoLayout
      PROVE  Seen(draft'[p], drag'[p].layout) /\ drag'[p].block \in Visible(p)'
  <2>1. p # o /\ draft'[p] = draft[p] /\ drag'[p] = drag[p]
    BY <1>2, <1>3
  <2>2. Visible(p)' = Visible(p)
    BY <2>1 DEF Visible
  <2> QED
    BY <1>3, <2>1, <2>2 DEF Invariant
<1>4. ASSUME NEW p \in Owners
      PROVE  draft'[p].layout \in Stored \/ base'[p].layout = NoLayout
  <2>1. CASE p = o
    BY <1>2, <2>1
  <2>2. CASE p # o
    BY <1>2, <2>2 DEF Invariant
  <2> QED
    BY <2>1, <2>2
<1> QED
    BY <1>1, <1>3, <1>4 DEF Invariant

\* Nothing is new, for a drag of none.
LEMMA Unchanged ==
    ASSUME Invariant, NEW o \in Owners
    PROVE  /\ draft = [draft EXCEPT ![o] = draft[o]]
           /\ drag[o] = NoLayout => drag = [drag EXCEPT ![o] = NoLayout]
    BY DEF Invariant

\* A draft with another layout or other hidden blocks.
LEMMA WithLayout ==
    ASSUME Invariant, NEW o \in Owners, NEW layout \in Stored
    PROVE  /\ [draft[o] EXCEPT !.layout = layout] \in Values
           /\ [draft[o] EXCEPT !.layout = layout].layout = layout
<1>1. draft[o] \in Values
    BY DEF Invariant
<1> QED
    BY <1>1 DEF Values

\* A drop stores a layout of every block.
LEMMA DropKeeps ==
    ASSUME Invariant, NEW o \in Owners, Drop(o)
    PROVE  Invariant'
<1> DEFINE next == drag[o].layout
           changed == next.retained = {} \/ next # Region(draft[o])
           new == [draft[o] EXCEPT !.layout = Commit(draft[o], next)]
<1>1. /\ drag[o] # NoLayout /\ drag' = [drag EXCEPT ![o] = NoLayout]
      /\ stored' = stored /\ base' = base /\ edits' = edits
      /\ draft' = IF changed THEN [draft EXCEPT ![o].layout = Commit(draft[o], next)] ELSE draft
    BY DEF Drop
<1>2. stored' \in Values /\ base' \in [Owners -> Values] /\ edits' \in 0..MaxEdits /\ draft[o] \in Values
    BY <1>1 DEF Invariant
<1>3. Commit(draft[o], next) \in Stored
    BY <1>1, <1>2, CommitWhole DEF Invariant
<1>4. CASE changed
  <2>1. new \in Values /\ new.layout \in Stored
    BY <1>3, WithLayout
  <2>2. draft' = [draft EXCEPT ![o] = new]
    BY <1>1, <1>4
  <2> HIDE DEF new
  <2> QED
    BY <1>1, <1>2, <2>1, <2>2, DraftKeeps
<1>5. CASE ~changed
  <2>1. draft' = [draft EXCEPT ![o] = draft[o]]
    BY <1>1, <1>5, Unchanged
  <2>2. draft[o].layout \in Stored \/ base'[o].layout = NoLayout
    BY <1>1 DEF Invariant
  <2> QED
    BY <1>1, <1>2, <2>1, <2>2, DraftKeeps
<1> QED
    BY <1>4, <1>5

\* A drag given up leaves the draft as it was.
LEMMA CancelDragKeeps ==
    ASSUME Invariant, NEW o \in Owners, CancelDrag(o)
    PROVE  Invariant'
<1>1. /\ drag' = [drag EXCEPT ![o] = NoLayout]
      /\ stored' = stored /\ base' = base /\ edits' = edits /\ draft' = draft
    BY DEF CancelDrag
<1>2. draft' = [draft EXCEPT ![o] = draft[o]]
    BY <1>1, Unchanged
<1>3. /\ draft[o] \in Values /\ (draft[o].layout \in Stored \/ base'[o].layout = NoLayout)
      /\ stored' \in Values /\ base' \in [Owners -> Values] /\ edits' \in 0..MaxEdits
    BY <1>1 DEF Invariant
<1> QED
    BY <1>1, <1>2, <1>3, DraftKeeps

\* A width is changed within the canvas.
LEMMA SetBlockWidthKeeps ==
    ASSUME Invariant, NEW o \in Owners, SetBlockWidth(o)
    PROVE  Invariant'
<1> DEFINE now == Region(draft[o])
<1>1. /\ drag[o] = NoLayout /\ edits < MaxEdits /\ edits' = edits + 1
      /\ stored' = stored /\ base' = base /\ drag' = drag
    BY DEF SetBlockWidth
<1>2. PICK b \in {c \in Visible(o) : HandleShown(now, c)}, span \in Widths :
         /\ ResizeBlockRow(now, b, span) # NoLayout
         /\ draft' = [draft EXCEPT ![o].layout = Commit(draft[o], ResizeBlockRow(now, b, span))]
    BY DEF SetBlockWidth
<1>3. /\ draft[o] \in Values /\ stored' \in Values /\ base' \in [Owners -> Values]
      /\ edits' \in 0..MaxEdits
    BY <1>1, LayoutAssumption DEF Invariant
<1>4. Seen(draft[o], now)
    BY <1>3, RegionSeen
<1>5. b \in Blocks \ draft[o].hidden /\ HandleShown(now, b)
    BY DEF Visible
<1> HIDE DEF now
<1> DEFINE next == ResizeBlockRow(now, b, span)
           new == [draft[o] EXCEPT !.layout = Commit(draft[o], next)]
<1>6. Seen(draft[o], next)
    BY <1>2, <1>3, <1>4, <1>5, ResizeSeen
<1>7. Commit(draft[o], next) \in Stored
  <2> HIDE DEF next
  <2> QED
    BY <1>3, <1>6, CommitWhole
<1>8. new \in Values /\ new.layout \in Stored
  <2> HIDE DEF next
  <2> QED
    BY <1>7, WithLayout
<1>9. draft' = [draft EXCEPT ![o] = new] /\ drag' = [drag EXCEPT ![o] = NoLayout]
    BY <1>1, <1>2, Unchanged
<1> HIDE DEF new
<1> QED
    BY <1>1, <1>3, <1>8, <1>9, DraftKeeps

\* Hiding a block changes no stored row: nothing is being dragged.
LEMMA HideOrRestoreKeeps ==
    ASSUME Invariant, NEW o \in Owners, HideOrRestore(o)
    PROVE  Invariant'
<1>1. /\ drag[o] = NoLayout /\ edits < MaxEdits /\ edits' = edits + 1
      /\ stored' = stored /\ base' = base /\ drag' = drag
    BY DEF HideOrRestore
<1>2. /\ draft[o] \in Values /\ (draft[o].layout \in Stored \/ base'[o].layout = NoLayout)
      /\ stored' \in Values /\ base' \in [Owners -> Values] /\ edits' \in 0..MaxEdits
    BY <1>1, LayoutAssumption DEF Invariant
<1>3. PICK hidden \in SUBSET Blocks : draft' = [draft EXCEPT ![o].hidden = hidden]
  <2>1. CASE \E b \in Visible(o) : draft' = [draft EXCEPT ![o].hidden = @ \cup {b}]
    <3>1. PICK b \in Visible(o) : draft' = [draft EXCEPT ![o].hidden = @ \cup {b}]
        BY <2>1
    <3>2. draft[o].hidden \cup {b} \in SUBSET Blocks
        BY <1>2 DEF Values, Visible
    <3> QED
        BY <3>1, <3>2
  <2>2. CASE draft' = [draft EXCEPT ![o].hidden = {}]
      BY <2>2
  <2> QED
      BY <2>1, <2>2 DEF HideOrRestore
<1> DEFINE new == [draft[o] EXCEPT !.hidden = hidden]
<1>4. new \in Values /\ new.layout = draft[o].layout
    BY <1>2 DEF Values
<1>5. draft' = [draft EXCEPT ![o] = new] /\ drag' = [drag EXCEPT ![o] = NoLayout]
    BY <1>1, <1>3, Unchanged
<1> HIDE DEF new
<1> QED
    BY <1>1, <1>2, <1>4, <1>5, DraftKeeps

\* What was sent is stored, and is what the next draft is made from.
LEMMA SaveKeeps ==
    ASSUME Invariant, NEW o \in Owners, Save(o)
    PROVE  Invariant'
<1> DEFINE next == Sent(o)
<1>1. /\ drag[o] = NoLayout /\ stored' = next /\ base' = [base EXCEPT ![o] = next]
      /\ draft' = [draft EXCEPT ![o] = next] /\ drag' = drag /\ edits' = edits
    BY DEF Save
<1>2. next \in Values
    BY SentTyped
<1> HIDE DEF next
<1>3. /\ base' \in [Owners -> Values] /\ base'[o] = next /\ edits' \in 0..MaxEdits
      /\ \A p \in Owners : p # o => base'[p] = base[p]
    BY <1>1, <1>2 DEF Invariant
<1>4. next.layout \in Stored \/ base'[o].layout = NoLayout
    BY <1>2, <1>3 DEF Values
<1>5. drag' = [drag EXCEPT ![o] = NoLayout]
    BY <1>1, Unchanged
<1> QED
    BY <1>1, <1>2, <1>3, <1>4, <1>5, DraftKeeps

\* A reload takes what is stored.
LEMMA ReloadKeeps ==
    ASSUME Invariant, NEW o \in Owners, Reload(o)
    PROVE  Invariant'
<1>1. /\ base' = [base EXCEPT ![o] = stored] /\ draft' = [draft EXCEPT ![o] = stored]
      /\ drag' = [drag EXCEPT ![o] = NoLayout] /\ stored' = stored /\ edits' = edits
    BY DEF Reload
<1>2. stored \in Values /\ stored' \in Values
    BY <1>1 DEF Invariant
<1>3. /\ base' \in [Owners -> Values] /\ base'[o] = stored /\ edits' \in 0..MaxEdits
      /\ \A p \in Owners : p # o => base'[p] = base[p]
    BY <1>1, <1>2 DEF Invariant
<1>4. stored.layout \in Stored \/ base'[o].layout = NoLayout
    BY <1>2, <1>3 DEF Values
<1> QED
    BY <1>1, <1>2, <1>3, <1>4, DraftKeeps

\* Every step of every owner keeps the invariant.
LEMMA StepKeeps ==
    ASSUME Invariant, [Next]_vars
    PROVE  Invariant'
<1>1. CASE UNCHANGED vars
  <2>1. \A o \in Owners : Visible(o)' = Visible(o)
    BY <1>1 DEF vars, Visible
  <2> QED
    BY <1>1, <2>1 DEF Invariant, vars
<1>2. ASSUME NEW o \in Owners, DragTo(o) PROVE Invariant'
    BY <1>2, DragToKeeps
<1>3. ASSUME NEW o \in Owners, SetBlockWidth(o) PROVE Invariant'
    BY <1>3, SetBlockWidthKeeps
<1>4. ASSUME NEW o \in Owners, HideOrRestore(o) PROVE Invariant'
    BY <1>4, HideOrRestoreKeeps
<1>5. ASSUME NEW o \in Owners, Drop(o) PROVE Invariant'
    BY <1>5, DropKeeps
<1>6. ASSUME NEW o \in Owners, CancelDrag(o) PROVE Invariant'
    BY <1>6, CancelDragKeeps
<1>7. ASSUME NEW o \in Owners, Save(o) PROVE Invariant'
    BY <1>7, SaveKeeps
<1>8. ASSUME NEW o \in Owners, Reload(o) PROVE Invariant'
    BY <1>8, ReloadKeeps
<1> QED
    BY <1>1, <1>2, <1>3, <1>4, <1>5, <1>6, <1>7, <1>8 DEF Next

\* Whatever the owners do, everything held is a layout of every block, and a
\* drag previews a rearrangement of what its owner's draft shows.
THEOREM Invariance == Spec => []Invariant
<1>1. Init => Invariant
    BY Initially
<1>2. Invariant /\ [Next]_vars => Invariant'
    BY StepKeeps
<1> QED
    BY <1>1, <1>2, PTL DEF Spec

\* Every draft, and every merge of it with what another owner saved, is
\* something the server takes: each block in one row, no row id twice, no
\* width greater than the canvas.
THEOREM TypeCorrect == Spec => []TypeOK
<1>1. Invariant => TypeOK
    BY InvariantTypeOK
<1> QED
    BY <1>1, Invariance, PTL

\* A save after another owner's keeps, for each block, the row and the widths
\* its owner gave it, and otherwise those the other had saved.
THEOREM MergeKeeps == Spec => MergeKeepsBoth
<1> DEFINE Promise(o) ==
               LET was == base[o].layout
                   is == draft[o].layout
                   theirs == stored.layout
                   merged == stored'.layout
               IN  base'[o] # base[o] /\ stored' # stored /\ NoLayout \notin {was, is, theirs} =>
                   \A b \in Blocks :
                      /\ Kept(RowOf(was.rows, b), RowOf(is.rows, b),
                              RowOf(theirs.rows, b), RowOf(merged.rows, b))
                      /\ \A f \in {"spans", "preferred", "solo"} :
                            Kept(was[f][b], is[f][b], theirs[f][b], merged[f][b])
<1>1. ASSUME Invariant, [Next]_vars, NEW o \in Owners
      PROVE  Promise(o)
  <2>1. SUFFICES ASSUME base'[o] # base[o], stored' # stored,
                        NoLayout \notin {base[o].layout, draft[o].layout, stored.layout}
                 PROVE  Both(base[o].layout, draft[o].layout, stored.layout, stored'.layout)
    BY DEF Both
  <2>2. PICK p \in Owners : Save(p)
    BY <1>1, <2>1 DEF Next, vars, DragTo, SetBlockWidth, HideOrRestore, Drop, CancelDrag, Reload
  <2>3. stored' = Sent(p) /\ base' = [base EXCEPT ![p] = Sent(p)]
    BY <2>2 DEF Save
  <2>4. p = o
    BY <1>1, <2>1, <2>3 DEF Invariant
  <2>5. CASE stored = base[o]
    <3>1. stored' = draft[o]
      BY <2>3, <2>4, <2>5 DEF Sent
    <3> QED
      BY <2>5, <3>1 DEF Both, Kept
  <2>6. CASE stored # base[o]
    <3>1. stored' = Merge(base[o], draft[o], stored)
      BY <2>3, <2>4, <2>6 DEF Sent
    <3>2. /\ base[o] \in Values /\ draft[o] \in Values /\ stored \in Values
          /\ draft[o].layout \in Stored \/ base[o].layout = NoLayout
      BY <1>1 DEF Invariant
    <3> QED
      BY <2>1, <3>1, <3>2, MergeTyped
  <2> QED
    BY <2>5, <2>6
<1>2. Invariant /\ [Next]_vars => \A o \in Owners : Promise(o)
    BY <1>1
<1>3. MergeKeepsBoth <=> [][\A o \in Owners : Promise(o)]_vars
    BY DEF MergeKeepsBoth
<1> HIDE DEF Promise
<1> QED
    BY <1>2, <1>3, Invariance, PTL DEF Spec

=============================================================================
