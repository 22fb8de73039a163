----------------------------- MODULE PagingSteps -----------------------------
(***************************************************************************)
(* Towards the inductive invariant of memory bring-up: the indices of an   *)
(* address, the allocator, and what ensure_table, map_4k and map_2m do to  *)
(* the translations of every address in every space.  PagingProofs has the *)
(* rest.                                                                   *)
(***************************************************************************)
EXTENDS Paging, TLAPS

Index == 0 .. Radix - 1

-----------------------------------------------------------------------------
\* Division with remainder.
LEMMA Division ==
  ASSUME NEW x \in Nat, NEW d \in Nat \ {0}
  PROVE  x \div d \in Nat /\ x % d \in 0 .. d - 1 /\ x = (d * (x \div d)) + (x % d)
OBVIOUS

\* The quotient and the remainder are the only ones.
LEMMA Quotient ==
  ASSUME NEW d \in Nat \ {0}, NEW q \in Nat, NEW r \in Nat, r < d
  PROVE  ((d * q) + r) \div d = q /\ ((d * q) + r) % d = r
OBVIOUS

\* Dividing twice.
LEMMA DivDiv ==
  ASSUME NEW x \in Nat, NEW d \in Nat \ {0}, NEW e \in Nat \ {0}
  PROVE  x \div (d * e) = (x \div d) \div e
OBVIOUS

\* A page on.
LEMMA PageOn ==
  ASSUME NEW s \in Nat, s % PAGE = 0
  PROVE  (s + PAGE) % PAGE = 0
<1>1. PAGE \in Nat \ {0}
  BY PagingAssumption
<1>2. PICK q \in Nat : s = (PAGE * q) + 0
  <2>1. s \div PAGE \in Nat /\ s = (PAGE * (s \div PAGE)) + (s % PAGE)
    BY <1>1, Division, Zenon
  <2> QED
    BY <2>1, Zenon
<1>3. s + PAGE = (PAGE * (q + 1)) + 0
  BY <1>1, <1>2
<1>4. q + 1 \in Nat /\ 0 \in Nat /\ 0 < PAGE
  BY <1>1
<1>5. ((PAGE * (q + 1)) + 0) % PAGE = 0
  BY <1>1, <1>4, Quotient, Zenon
<1> QED
  BY <1>3, <1>5, Zenon

\* Levels are different, and a frame is not the answer for none.
LEMMA Distinct == 1 # 2 /\ 3 # 2 /\ 3 > 1 /\ \A x \in Nat : x # -1
OBVIOUS

\* What is at the places of a queue without its head.
LEMMA TailAt ==
  ASSUME NEW R, NEW q \in Seq(R), q # <<>>
  PROVE  /\ Head(q) \in R /\ 1 \in DOMAIN q /\ q[1] = Head(q) /\ Tail(q) \in Seq(R)
         /\ \A k \in DOMAIN Tail(q) : k + 1 \in DOMAIN q /\ k + 1 # 1 /\ Tail(q)[k] = q[k + 1]
         /\ \A j \in DOMAIN q : j # 1 => j - 1 \in DOMAIN Tail(q) /\ Tail(q)[j - 1] = q[j]
OBVIOUS

\* What is at the places of a queue with a new head.
LEMMA ConsAt ==
  ASSUME NEW R, NEW t \in Seq(R), NEW x \in R, NEW w, w = <<x>> \o t
  PROVE  /\ w \in Seq(R) /\ 1 \in DOMAIN w /\ w[1] = x
         /\ \A k \in DOMAIN t : k + 1 \in DOMAIN w /\ w[k + 1] = t[k]
         /\ \A k \in DOMAIN w : k # 1 => k - 1 \in DOMAIN t /\ w[k] = t[k - 1]
OBVIOUS

\* The addresses of a range, and a queue of ranges in ascending order.
RangeVAs(r) == r.virt .. r.virt + r.len - 1
Ordered(q) == \A j, k \in DOMAIN q : j < k => q[j].virt + q[j].len <= q[k].virt

\* A round of map_range takes its part off the first range of the queue q of
\* ranges in A; w is left.
Cut(q, r, size, w, A) ==
  /\ q \in Seq([virt : Nat, phys : Nat, len : Nat \ {0}]) /\ q # <<>> /\ Ordered(q)
  /\ r = Head(q) /\ size \in 1 .. r.len
  /\ w = (IF r.len - size = 0 THEN <<>>
          ELSE <<Span(r.virt + size, r.phys + size, r.len - size)>>) \o Tail(q)
  /\ \A k \in DOMAIN q : RangeVAs(q[k]) \subseteq A

\* What is left is in order and where it was, behind what the round maps.
LEMMA RestOrdered ==
  ASSUME NEW q, NEW r, NEW size, NEW w, NEW A, Cut(q, r, size, w, A)
  PROVE  /\ Ordered(w)
         /\ \A k \in DOMAIN w : w[k].virt \in Nat /\ r.virt + size <= w[k].virt /\ RangeVAs(w[k]) \subseteq A
<1>1. PICK R : R = [virt : Nat, phys : Nat, len : Nat \ {0}] /\ q \in Seq(R) /\ q # <<>> /\ r = Head(q)
  BY Zenon DEF Cut
<1>2. PICK t \in Seq(R) :
        /\ t = Tail(q) /\ r \in R /\ 1 \in DOMAIN q /\ q[1] = r
        /\ \A k \in DOMAIN t : k + 1 \in DOMAIN q /\ t[k] = q[k + 1]
  <2>1. /\ Head(q) \in R /\ 1 \in DOMAIN q /\ q[1] = Head(q) /\ Tail(q) \in Seq(R)
        /\ \A k \in DOMAIN Tail(q) : k + 1 \in DOMAIN q /\ k + 1 # 1 /\ Tail(q)[k] = q[k + 1]
    <3>1. q \in Seq(R) /\ q # <<>>
      BY <1>1, Zenon
    <3> QED
      BY <3>1, TailAt
  <2> QED
    BY <1>1, <2>1, Zenon
<1>3. PICK a \in Nat, b \in Nat, c \in Nat \ {0} : a = r.virt /\ b = r.phys /\ c = r.len
  BY <1>1, <1>2, Zenon
<1>4. \A k \in DOMAIN t : k \in Nat /\ 1 < k + 1 /\ \A j \in DOMAIN t : j < k => j + 1 < k + 1
  BY <1>2
<1>5. ASSUME NEW k \in DOMAIN t
      PROVE  t[k].virt \in Nat /\ a + c <= t[k].virt /\ RangeVAs(t[k]) \subseteq A
  <2>1. t[k] \in R
    BY <1>2, <1>5
  <2> QED
    BY <1>1, <1>2, <1>3, <1>4, <1>5, <2>1, Zenon DEF Ordered, Cut
<1>6. Ordered(t)
  BY <1>2, <1>4, Zenon DEF Ordered, Cut
<1>7. size \in 1 .. c /\ ((c - size = 0) <=> (c = size))
  <2>1. size \in 1 .. c
    BY <1>3, Zenon DEF Cut
  <2> QED
    BY <2>1
<1>8. \A y \in Nat : a + c <= y => a + size <= y
  BY <1>7
<1>9. CASE c = size
  <2>1. <<>> \o t = t
    BY <1>2
  <2>2. w = t
    BY <1>2, <1>3, <1>7, <1>9, <2>1, Zenon DEF Cut
  <2> QED
    BY <1>3, <1>5, <1>6, <1>8, <2>2, Zenon
<1>10. CASE c # size
  <2>1. PICK x : x = [virt |-> a + size, phys |-> b + size, len |-> c - size]
    BY Zenon
  <2>2. x \in R /\ x.virt = a + size /\ x.len = c - size /\ a + size \in Nat
    <3>1. a + size \in Nat /\ b + size \in Nat /\ c - size \in Nat \ {0}
      BY <1>7, <1>10
    <3> QED
      BY <1>1, <2>1, <3>1, Zenon
  <2>3. w = <<x>> \o t
    BY <1>2, <1>3, <1>7, <1>10, <2>1, Zenon DEF Span, Cut
  <2>4. /\ 1 \in DOMAIN w /\ w[1] = x
        /\ \A k \in DOMAIN w : k # 1 => k - 1 \in DOMAIN t /\ w[k] = t[k - 1]
    <3>1. x \in R
      BY <2>2, Zenon
    <3> QED
      BY <2>3, <3>1, ConsAt
  <2>5. /\ a + size <= a + size /\ (a + size) + (c - size) = a + c
        /\ (a + size) .. (a + size) + (c - size) - 1 \subseteq a .. a + c - 1
    BY <1>7
  <2>6. RangeVAs(x) \subseteq A
    <3>1. RangeVAs(r) \subseteq A
      BY <1>2, Zenon DEF Cut
    <3> QED
      BY <1>3, <2>2, <2>5, <3>1, Zenon DEF RangeVAs
  <2>7. \A k \in DOMAIN w : w[k].virt \in Nat /\ a + size <= w[k].virt /\ RangeVAs(w[k]) \subseteq A
    BY <1>5, <1>8, <2>2, <2>4, <2>5, <2>6, Zenon
  <2>8. DOMAIN w \subseteq Nat \ {0}
    BY <2>2, <2>3
  <2>9. ASSUME NEW j \in DOMAIN w, NEW k \in DOMAIN w, j < k
        PROVE  w[j].virt + w[j].len <= w[k].virt
    <3>1. k # 1 /\ (j # 1 => j - 1 < k - 1)
      BY <2>8, <2>9
    <3>2. CASE j = 1
      BY <1>5, <2>2, <2>4, <2>5, <3>1, <3>2, Zenon
    <3>3. CASE j # 1
      BY <1>6, <2>4, <3>1, <3>3, Zenon DEF Ordered
    <3> QED
      BY <3>2, <3>3, Zenon
  <2> QED
    BY <1>3, <2>7, <2>9, Zenon DEF Ordered
<1> QED
  BY <1>9, <1>10, Zenon

\* An address in a segment is in one of the pages image::load maps for it.
LEMMA EntryPage ==
  ASSUME NEW s \in [vaddr : Nat, memsz : Nat \ {0}], NEW e \in Nat, e < s.vaddr + s.memsz
  PROVE  e \div PAGE < s.vaddr \div PAGE + SegmentPages(s)
<1>1. PICK v \in Nat, m \in Nat \ {0}, p \in Nat \ {0} : v = s.vaddr /\ m = s.memsz /\ p = PAGE
  BY PagingAssumption, Zenon
<1>2. PICK a \in Nat, b \in Nat : a = v \div p /\ b = v % p /\ v = (p * a) + b
  <2>1. v \div p \in Nat /\ v % p \in 0 .. p - 1 /\ v = (p * (v \div p)) + (v % p)
    BY Division, Zenon
  <2>2. v % p \in Nat
    BY <2>1
  <2> QED
    BY <2>1, <2>2, Zenon
<1>3. PICK z \in Nat, n \in Nat : z = b + m + p - 1 /\ n = z \div p /\ z < (p * n) + p
  <2>1. PICK z \in Nat : z = b + m + p - 1
    BY <1>1, <1>2
  <2>2. z \div p \in Nat /\ z % p \in 0 .. p - 1 /\ z = (p * (z \div p)) + (z % p)
    BY <1>1, <2>1, Division, Zenon
  <2>3. PICK n \in Nat, k \in Nat : n = z \div p /\ k = p * n
    BY <1>1, <2>2, SMT
  <2>4. z < k + p
    BY <1>1, <2>1, <2>2, <2>3, SMT
  <2> QED
    BY <2>1, <2>3, <2>4, Zenon
<1>4. e < p * (a + n)
  <2>1. p * (a + n) = (p * a) + (p * n)
    BY <1>1, <1>2, <1>3, SMT
  <2>2. PICK x \in Nat, y \in Nat : x = p * a /\ y = p * n
    BY <1>1, <1>2, <1>3, SMT
  <2>3. e < v + m /\ v = x + b /\ b + m + p - 1 < y + p
    BY <1>1, <1>2, <1>3, <2>2, Zenon
  <2>4. e < x + y
    BY <1>1, <1>2, <2>2, <2>3, SMT
  <2> QED
    BY <2>1, <2>2, <2>4, Zenon
<1>5. e \div p < a + n
  <2>1. PICK u \in Nat : u = a + n
    BY <1>2, <1>3
  <2>2. PICK f \in Nat, g \in Nat : f = e \div p /\ g < p /\ e = (p * f) + g
    <3>1. e \div p \in Nat /\ e % p \in 0 .. p - 1 /\ e = (p * (e \div p)) + (e % p)
      BY Division, Zenon
    <3>2. e % p \in Nat /\ e % p < p
      BY <3>1
    <3> QED
      BY <3>1, <3>2, Zenon
  <2>3. ~(u <= f)
    <3>1. ASSUME u <= f
          PROVE  p * u <= p * f
      <4>1. PICK d \in Nat : f = u + d
        BY <3>1
      <4>2. p * (u + d) = (p * u) + (p * d)
        BY SMT
      <4>3. p * u \in Nat /\ p * d \in Nat
        BY SMT
      <4>4. PICK x \in Nat, y \in Nat : x = p * u /\ y = p * d /\ p * f = x + y
        BY <4>1, <4>2, <4>3, Zenon
      <4> QED
        BY <4>4
    <3>2. PICK x \in Nat, y \in Nat : x = p * u /\ y = p * f
      <4>1. p * u \in Nat /\ p * f \in Nat
        BY SMT
      <4> QED
        BY <4>1, Zenon
    <3>3. e < x /\ e = y + g
      BY <1>4, <2>1, <2>2, <3>2, Zenon
    <3> QED
      BY <2>2, <3>1, <3>2, <3>3
  <2> QED
    BY <2>1, <2>2, <2>3
<1> QED
  BY <1>1, <1>2, <1>3, <1>5, Zenon DEF SegmentPages

\* The four indices of an address are its digits, the lowest last.
LEMMA Digits ==
  ASSUME NEW va \in Nat
  PROVE  /\ pt_index(va) = va % Radix
         /\ pd_index(va) = (va \div Radix) % Radix
         /\ pdpt_index(va) = ((va \div Radix) \div Radix) % Radix
         /\ pml4_index(va) = (((va \div Radix) \div Radix) \div Radix) % Radix
         /\ pt_index(va) \in Index /\ pd_index(va) \in Index
         /\ pdpt_index(va) \in Index /\ pml4_index(va) \in Index
<1>1. Radix \in Nat \ {0} /\ Radix * Radix \in Nat \ {0}
  BY PagingAssumption
<1>2. /\ va \div (Radix * Radix) = (va \div Radix) \div Radix
      /\ va \div (Radix * Radix * Radix) = (va \div (Radix * Radix)) \div Radix
  BY <1>1, DivDiv, Zenon
<1>3. va \div Radix \in Nat /\ (va \div Radix) \div Radix \in Nat
      /\ ((va \div Radix) \div Radix) \div Radix \in Nat
  BY <1>1, Division, Zenon
<1> QED
  BY <1>1, <1>2, <1>3, Division, Zenon DEF pt_index, pd_index, pdpt_index, pml4_index, Index

\* The highest digit of an address of the address space is what is above the
\* other three; it tells the halves apart.
LEMMA TopDigit ==
  ASSUME NEW va \in Pages
  PROVE  /\ va \in Nat
         /\ pml4_index(va) = ((va \div Radix) \div Radix) \div Radix
         /\ va < Half <=> 2 * pml4_index(va) < Radix
<1> DEFINE R == Radix
           a == va \div R
           b == a \div R
           c == b \div R
<1>1. R \in Nat \ {0} /\ R % 2 = 0 /\ va \in Nat /\ va < R * R * R * R
  BY PagingAssumption DEF Pages, Top
<1>2. PICK h \in Nat : R = 2 * h /\ Half = h * R * R * R
  <2>1. R \div 2 \in Nat /\ R = 2 * (R \div 2)
    BY <1>1
  <2> QED
    BY <2>1, Zenon DEF Half
<1>3. /\ a \in Nat /\ b \in Nat /\ c \in Nat
      /\ va % R \in 0 .. R - 1 /\ a % R \in 0 .. R - 1 /\ b % R \in 0 .. R - 1
      /\ va = (R * a) + (va % R) /\ a = (R * b) + (a % R) /\ b = (R * c) + (b % R)
  <2>1. a \in Nat /\ va % R \in 0 .. R - 1 /\ va = (R * a) + (va % R)
    BY <1>1, Division, Zenon
  <2>2. b \in Nat /\ a % R \in 0 .. R - 1 /\ a = (R * b) + (a % R)
    BY <1>1, <2>1, Division, Zenon
  <2>3. c \in Nat /\ b % R \in 0 .. R - 1 /\ b = (R * c) + (b % R)
    BY <1>1, <2>2, Division, Zenon
  <2> QED
    BY <2>1, <2>2, <2>3, Zenon
<1>4. pml4_index(va) = c % R
  BY <1>1, Digits, Zenon
<1> HIDE DEF R, a, b, c
<1>5. \A n \in Nat : va < n * R * R * R <=> c < n
  <2> SUFFICES ASSUME NEW n \in Nat PROVE va < n * R * R * R <=> c < n
    BY Zenon
  <2>1. va < R * (n * R * R) <=> a < n * R * R
    BY <1>1, <1>3
  <2>2. a < R * (n * R) <=> b < n * R
    BY <1>1, <1>3
  <2>3. b < R * n <=> c < n
    BY <1>1, <1>3
  <2>4. R * (n * R * R) = n * R * R * R /\ R * (n * R) = n * R * R /\ R * n = n * R
    BY <1>1
  <2> QED
    BY <2>1, <2>2, <2>3, <2>4, Zenon
<1>6. c < R
  BY <1>1, <1>5, Zenon
<1>7. c % R = c
  BY <1>1, <1>3, <1>6
<1>8. va < Half <=> 2 * c < R
  <2>1. va < Half <=> c < h
    BY <1>2, <1>5, Zenon
  <2> QED
    BY <1>2, <1>3, <2>1
<1> QED
  BY <1>1, <1>4, <1>7, <1>8, Zenon DEF a, b, c, R

\* Two addresses with the same three upper indices are in the same large
\* page; with the same four, they are the same.
LEMMA SamePlace ==
  ASSUME NEW va \in Pages, NEW vb \in Pages, pml4_index(va) = pml4_index(vb),
         pdpt_index(va) = pdpt_index(vb), pd_index(va) = pd_index(vb)
  PROVE  /\ va \div Radix = vb \div Radix
         /\ pt_index(va) = pt_index(vb) => va = vb
<1>1. Radix \in Nat \ {0} /\ va \in Nat /\ vb \in Nat
  BY PagingAssumption, TopDigit, Zenon
<1>2. ((va \div Radix) \div Radix) \div Radix = ((vb \div Radix) \div Radix) \div Radix
  BY TopDigit, Zenon
<1>3. va \div Radix \in Nat /\ (va \div Radix) \div Radix \in Nat
  BY <1>1, Division, Zenon
<1>4. vb \div Radix \in Nat /\ (vb \div Radix) \div Radix \in Nat
  BY <1>1, Division, Zenon
<1>5. \A x, y \in Nat : x \div Radix = y \div Radix /\ x % Radix = y % Radix => x = y
  <2> SUFFICES ASSUME NEW x \in Nat, NEW y \in Nat,
                      x \div Radix = y \div Radix, x % Radix = y % Radix
               PROVE  x = y
    BY Zenon
  <2>1. x = (Radix * (x \div Radix)) + (x % Radix) /\ y = (Radix * (y \div Radix)) + (y % Radix)
    BY <1>1, Division, Zenon
  <2> QED
    BY <2>1, Zenon
<1>6. /\ pt_index(va) = va % Radix /\ pd_index(va) = (va \div Radix) % Radix
      /\ pdpt_index(va) = ((va \div Radix) \div Radix) % Radix
  BY <1>1, Digits, Zenon
<1>7. /\ pt_index(vb) = vb % Radix /\ pd_index(vb) = (vb \div Radix) % Radix
      /\ pdpt_index(vb) = ((vb \div Radix) \div Radix) % Radix
  BY <1>1, Digits, Zenon
<1>8. ((va \div Radix) \div Radix) % Radix = ((vb \div Radix) \div Radix) % Radix
  BY <1>6, <1>7, Zenon
<1>9. (va \div Radix) \div Radix = (vb \div Radix) \div Radix
  BY <1>2, <1>3, <1>4, <1>5, <1>8, Zenon
<1>10. (va \div Radix) % Radix = (vb \div Radix) % Radix
  BY <1>6, <1>7, Zenon
<1>11. va \div Radix = vb \div Radix
  BY <1>3, <1>4, <1>5, <1>9, <1>10, Zenon
<1>12. pt_index(va) = pt_index(vb) => va % Radix = vb % Radix
  BY <1>6, <1>7, Zenon
<1> QED
  BY <1>1, <1>5, <1>11, <1>12, Zenon

\* The pages of a large page: addresses with its upper indices, and no other.
LEMMA LargePage ==
  ASSUME NEW va \in Pages, va % Radix = 0
  PROVE  /\ va + Radix <= Top
         /\ \A i \in Index : /\ va + i \in Pages /\ pt_index(va + i) = i
                             /\ pml4_index(va + i) = pml4_index(va)
                             /\ pdpt_index(va + i) = pdpt_index(va)
                             /\ pd_index(va + i) = pd_index(va)
         /\ \A vb \in Pages : va \div Radix = vb \div Radix => vb = va + (vb % Radix)
<1>1. Radix \in Nat \ {0} /\ va \in Nat /\ va < Radix * (Radix * Radix * Radix)
  BY PagingAssumption DEF Pages, Top
<1>2. PICK q \in Nat : va = Radix * q /\ va \div Radix = q
  <2>1. va \div Radix \in Nat /\ va = (Radix * (va \div Radix)) + (va % Radix)
    BY <1>1, Division, Zenon
  <2>2. va = Radix * (va \div Radix)
    BY <1>1, <2>1
  <2> QED
    BY <2>1, <2>2, Zenon
<1>3. q + 1 <= Radix * Radix * Radix
  BY <1>1, <1>2
<1>4. va + Radix <= Top
  BY <1>1, <1>2, <1>3 DEF Top
<1>5. \A i \in Index : va + i \in Pages
  <2>1. Top \in Nat
    BY <1>1 DEF Top
  <2> QED
    BY <1>1, <1>4, <2>1 DEF Pages, Index
<1>6. \A i \in Index : (va + i) \div Radix = q /\ (va + i) % Radix = i
  BY <1>1, <1>2, Quotient DEF Index
<1>7. \A i \in Index : /\ va + i \in Pages /\ pt_index(va + i) = i
                       /\ pml4_index(va + i) = pml4_index(va)
                       /\ pdpt_index(va + i) = pdpt_index(va)
                       /\ pd_index(va + i) = pd_index(va)
  <2> TAKE i \in Index
  <2>1. va + i \in Pages /\ va + i \in Nat
    BY <1>5 DEF Pages
  <2>2. (va + i) \div Radix = va \div Radix /\ (va + i) % Radix = i
    BY <1>2, <1>6, Zenon
  <2>3. /\ pt_index(va + i) = (va + i) % Radix
        /\ pd_index(va + i) = ((va + i) \div Radix) % Radix
        /\ pdpt_index(va + i) = (((va + i) \div Radix) \div Radix) % Radix
        /\ pml4_index(va + i) = ((((va + i) \div Radix) \div Radix) \div Radix) % Radix
    BY <2>1, Digits, Zenon
  <2>4. /\ pd_index(va) = (va \div Radix) % Radix
        /\ pdpt_index(va) = ((va \div Radix) \div Radix) % Radix
        /\ pml4_index(va) = (((va \div Radix) \div Radix) \div Radix) % Radix
    BY <1>1, Digits, Zenon
  <2> QED
    BY <2>1, <2>2, <2>3, <2>4, Zenon
<1>8. \A vb \in Pages : va \div Radix = vb \div Radix => vb = va + (vb % Radix)
  <2> TAKE vb \in Pages
  <2>1. vb \in Nat /\ vb = (Radix * (vb \div Radix)) + (vb % Radix)
    BY <1>1, Division DEF Pages
  <2> QED
    BY <1>2, <2>1, Zenon
<1> QED
  BY <1>4, <1>7, <1>8, Zenon

-----------------------------------------------------------------------------
\* The allocator works in whole pages, off page zero.
BumpOK(b) ==
  /\ b \in [start : Nat, cursor : Nat, end : Nat]
  /\ PAGE <= b.start /\ b.start <= b.cursor /\ b.cursor <= b.end
  /\ b.start % PAGE = 0 /\ b.cursor % PAGE = 0

\* align_up leaves whole pages alone, and otherwise goes to the next.
LEMMA AlignUp ==
  ASSUME NEW x \in Nat
  PROVE  /\ align_up(x) \in Nat /\ x <= align_up(x) /\ align_up(x) < x + PAGE
         /\ align_up(x) % PAGE = 0
         /\ x % PAGE = 0 => align_up(x) = x
<1>1. PAGE \in Nat \ {0}
  BY PagingAssumption, Zenon
<1>2. PICK q \in Nat, r \in 0 .. PAGE - 1 : x + PAGE - 1 = (PAGE * q) + r /\ align_up(x) = PAGE * q
  <2>1. PICK y \in Nat : y = x + PAGE - 1
    BY <1>1
  <2>2. y \div PAGE \in Nat /\ y % PAGE \in 0 .. PAGE - 1 /\ y = (PAGE * (y \div PAGE)) + (y % PAGE)
    BY <1>1, <2>1, Division, Zenon
  <2>3. align_up(x) = PAGE * (y \div PAGE)
    BY <1>1, <2>1, <2>2 DEF align_up
  <2> QED
    BY <2>1, <2>2, <2>3, Zenon
<1>3. align_up(x) \in Nat /\ x <= align_up(x) /\ align_up(x) < x + PAGE
  BY <1>1, <1>2
<1>4. align_up(x) % PAGE = 0
  <2>1. PICK y : y = align_up(x) /\ y = (PAGE * q) + 0
    BY <1>1, <1>2
  <2>2. y % PAGE = 0
    BY <1>1, <2>1
  <2> QED
    BY <2>1, <2>2, Zenon
<1>5. ASSUME x % PAGE = 0 PROVE align_up(x) = x
  <2>1. x \div PAGE \in Nat /\ x = (PAGE * (x \div PAGE)) + (x % PAGE)
    BY <1>1, Division, Zenon
  <2>2. PICK p \in Nat : x = PAGE * p
    BY <1>1, <1>5, <2>1
  <2>3. p = q
    BY <1>1, <1>2, <2>2
  <2> QED
    BY <1>2, <2>2, <2>3, Zenon
<1> QED
  BY <1>3, <1>4, <1>5, Zenon

\* A request that fits gets the pages at the cursor.
LEMMA Alloc ==
  ASSUME NEW b, BumpOK(b), NEW n \in Nat, Fits(b, n), NEW c, c = alloc_pages(b, n)
  PROVE  /\ BumpOK(c) /\ c.start = b.start /\ c.end = b.end
         /\ b.cursor \div PAGE = FirstFrame(b)
         /\ c.cursor \div PAGE = FirstFrame(b) + n
         /\ FirstFrame(b) \in Nat \ {0} /\ b.start \div PAGE <= FirstFrame(b)
<1>1. PAGE \in Nat \ {0}
  BY PagingAssumption, Zenon
<1>2. /\ b \in [start : Nat, cursor : Nat, end : Nat] /\ b.cursor \in Nat /\ b.start \in Nat /\ b.end \in Nat
      /\ PAGE <= b.start /\ b.start <= b.cursor /\ b.cursor <= b.end
      /\ b.start % PAGE = 0 /\ b.cursor % PAGE = 0
  BY Zenon DEF BumpOK
<1>3. align_up(b.cursor) = b.cursor
  BY <1>2, AlignUp, Zenon
<1>4. PICK q \in Nat : b.cursor = PAGE * q /\ b.cursor \div PAGE = q
  <2>1. b.cursor \div PAGE \in Nat
        /\ b.cursor = (PAGE * (b.cursor \div PAGE)) + (b.cursor % PAGE)
    BY <1>1, <1>2, Division, Zenon
  <2>2. b.cursor = PAGE * (b.cursor \div PAGE)
    BY <1>1, <1>2, <2>1
  <2> QED
    BY <2>1, <2>2, Zenon
<1>5. PICK p \in Nat : b.start = PAGE * p /\ b.start \div PAGE = p
  <2>1. b.start \div PAGE \in Nat
        /\ b.start = (PAGE * (b.start \div PAGE)) + (b.start % PAGE)
    BY <1>1, <1>2, Division, Zenon
  <2>2. b.start = PAGE * (b.start \div PAGE)
    BY <1>1, <1>2, <2>1
  <2> QED
    BY <2>1, <2>2, Zenon
<1>6. FirstFrame(b) = q
  BY <1>3, <1>4, Zenon DEF FirstFrame
<1>7. 1 <= p /\ p <= q
  BY <1>1, <1>2, <1>4, <1>5
<1>8. c.start = b.start /\ c.end = b.end /\ c.cursor = b.cursor + (n * PAGE)
      /\ c \in [start : Nat, cursor : Nat, end : Nat]
  <2>1. c = [b EXCEPT !.cursor = b.cursor + (n * PAGE)]
    BY <1>3, Zenon DEF alloc_pages
  <2>2. b.cursor + (n * PAGE) \in Nat
    BY <1>1, <1>2
  <2> QED
    BY <1>2, <2>1, <2>2, Zenon
<1>9. c.cursor = (PAGE * (q + n)) + 0
  BY <1>1, <1>4, <1>8
<1>10. c.cursor \div PAGE = q + n /\ c.cursor % PAGE = 0
  BY <1>1, <1>9
<1>11. b.cursor <= c.cursor /\ c.cursor <= c.end
  BY <1>1, <1>2, <1>3, <1>8 DEF Fits
<1>12. BumpOK(c)
  BY <1>1, <1>2, <1>8, <1>10, <1>11 DEF BumpOK
<1> QED
  BY <1>4, <1>5, <1>6, <1>7, <1>8, <1>10, <1>12

-----------------------------------------------------------------------------
\* Tables ts, with top tables sp, form trees: a table of some level is found
\* in one place only, its key.  The key of a top table is the number of its
\* space, that of another table the key of the one above it and the index
\* there, except that the upper halves hang below the kernel's space in all.
EntrySet == [frame : Nat, present : BOOLEAN, huge : BOOLEAN]

Branch(l, k, i) == <<IF l = 4 /\ 2 * i >= Radix THEN 1 ELSE k, i>>

Hangs(ts, level, key, f, i) ==
  level[f] > 1 /\ ts[f][i].present /\ ~ts[f][i].huge =>
    /\ ts[f][i].frame \in DOMAIN ts
    /\ level[ts[f][i].frame] = level[f] - 1
    /\ key[ts[f][i].frame] = Branch(level[f], key[f], i)

Shaped(ts, sp, level, key) ==
  /\ 0 \notin DOMAIN ts
  /\ \A f \in DOMAIN ts : ts[f] \in [Index -> EntrySet] /\ level[f] \in 1 .. 4
  /\ \A f \in DOMAIN ts, i \in Index :
       Hangs(ts, level, key, f, i) /\ (ts[f][i].huge => level[f] = 2 /\ ts[f][i].present)
  /\ \A n \in DOMAIN sp : sp[n] \in DOMAIN ts /\ level[sp[n]] = 4 /\ key[sp[n]] = n
  /\ \A i \in Index : 1 \in DOMAIN sp /\ 2 * i < Radix => ~ts[sp[1]][i].present

\* The tables the unit comes through, and their keys.
Pdpt(ts, s, va) == Follow(ts, s, pml4_index(va))
Pd(ts, s, va) == Follow(ts, Pdpt(ts, s, va), pdpt_index(va))
Pt(ts, s, va) == Follow(ts, Pd(ts, s, va), pd_index(va))

KeyPdpt(n, va) == Branch(4, n, pml4_index(va))
KeyPd(n, va) == <<KeyPdpt(n, va), pdpt_index(va)>>
KeyPt(n, va) == <<KeyPd(n, va), pd_index(va)>>

\* What the unit answers when it has come to the tables pd and pt.
Answer(ts, pd, pt, va) ==
  IF pd # 0 /\ ts[pd][pd_index(va)].huge
  THEN (ts[pd][pd_index(va)].frame \div HUGE) * HUGE + (va % HUGE)
  ELSE IF pt # 0 /\ ts[pt][pt_index(va)].present THEN ts[pt][pt_index(va)].frame
  ELSE -1

\* A walk goes through the three tables.
LEMMA WalkAnswer ==
  ASSUME NEW ts, NEW s, NEW va
  PROVE  Walk(ts, s, va) = Answer(ts, Pd(ts, s, va), Pt(ts, s, va), va)
BY Zenon DEF Walk, Answer, Pt, Pd, Pdpt

\* Following an entry leads one level down, to the table with that key.
LEMMA FollowDown ==
  ASSUME NEW ts, NEW sp, NEW level, NEW key, Shaped(ts, sp, level, key),
         NEW f \in DOMAIN ts, NEW i \in Index, level[f] > 1, NEW c, c = Follow(ts, f, i), c # 0
  PROVE  /\ c \in DOMAIN ts /\ level[c] = level[f] - 1 /\ key[c] = Branch(level[f], key[f], i)
         /\ ts[f][i].present /\ ~ts[f][i].huge /\ ts[f][i].frame = c
<1>1. ts[f][i].present /\ ~ts[f][i].huge /\ ts[f][i].frame = c
  BY Zenon DEF Follow
<1>2. Hangs(ts, level, key, f, i)
  BY Zenon DEF Shaped
<1> QED
  BY <1>1, <1>2, Zenon DEF Hangs

\* The tables of a walk have the levels and the keys they should have.
LEMMA WalkKeys ==
  ASSUME NEW ts, NEW sp, NEW level, NEW key, Shaped(ts, sp, level, key),
         NEW n \in DOMAIN sp, NEW va \in Nat, NEW p3, p3 = Pdpt(ts, sp[n], va),
         NEW p2, p2 = Pd(ts, sp[n], va), NEW p1, p1 = Pt(ts, sp[n], va)
  PROVE  /\ p3 # 0 => p3 \in DOMAIN ts /\ level[p3] = 3 /\ key[p3] = KeyPdpt(n, va)
         /\ p2 # 0 => p2 \in DOMAIN ts /\ level[p2] = 2 /\ key[p2] = KeyPd(n, va) /\ p3 # 0
         /\ p1 # 0 => p1 \in DOMAIN ts /\ level[p1] = 1 /\ key[p1] = KeyPt(n, va) /\ p2 # 0
<1>1. sp[n] \in DOMAIN ts /\ level[sp[n]] = 4 /\ key[sp[n]] = n
  BY Zenon DEF Shaped
<1>2. pml4_index(va) \in Index /\ pdpt_index(va) \in Index /\ pd_index(va) \in Index
  BY Digits, Zenon
<1>3. /\ p3 = Follow(ts, sp[n], pml4_index(va))
      /\ p2 = Follow(ts, p3, pdpt_index(va))
      /\ p1 = Follow(ts, p2, pd_index(va))
  BY Zenon DEF Pt, Pd, Pdpt
<1>4. (p3 = 0 => p2 = 0) /\ (p2 = 0 => p1 = 0)
  BY <1>3, Zenon DEF Follow
<1>5. \A k, i : Branch(3, k, i) = <<k, i>> /\ Branch(2, k, i) = <<k, i>>
  BY DEF Branch
<1>6. ASSUME p3 # 0 PROVE p3 \in DOMAIN ts /\ level[p3] = 3 /\ key[p3] = KeyPdpt(n, va)
  <2>1. level[sp[n]] > 1 /\ 4 - 1 = 3
    BY <1>1
  <2>3. /\ p3 \in DOMAIN ts /\ level[p3] = level[sp[n]] - 1
        /\ key[p3] = Branch(level[sp[n]], key[sp[n]], pml4_index(va))
    BY <1>1, <1>2, <1>3, <1>6, <2>1, FollowDown
  <2> QED
    BY <1>1, <2>1, <2>3, Zenon DEF KeyPdpt
<1>7. ASSUME p2 # 0 PROVE p2 \in DOMAIN ts /\ level[p2] = 2 /\ key[p2] = KeyPd(n, va)
  <2>1. p3 \in DOMAIN ts /\ level[p3] = 3 /\ key[p3] = KeyPdpt(n, va)
    BY <1>4, <1>6, <1>7, Zenon
  <2>2. level[p3] > 1 /\ 3 - 1 = 2
    BY <2>1
  <2>3. /\ p2 \in DOMAIN ts /\ level[p2] = level[p3] - 1
        /\ key[p2] = Branch(level[p3], key[p3], pdpt_index(va))
    BY <1>2, <1>3, <1>7, <2>1, <2>2, FollowDown
  <2> QED
    BY <1>5, <2>1, <2>2, <2>3, Zenon DEF KeyPd
<1>8. ASSUME p1 # 0 PROVE p1 \in DOMAIN ts /\ level[p1] = 1 /\ key[p1] = KeyPt(n, va)
  <2>1. p2 \in DOMAIN ts /\ level[p2] = 2 /\ key[p2] = KeyPd(n, va)
    BY <1>4, <1>7, <1>8, Zenon
  <2>2. level[p2] > 1 /\ 2 - 1 = 1
    BY <2>1
  <2>3. /\ p1 \in DOMAIN ts /\ level[p1] = level[p2] - 1
        /\ key[p1] = Branch(level[p2], key[p2], pd_index(va))
    BY <1>2, <1>3, <1>8, <2>1, <2>2, FollowDown
  <2> QED
    BY <1>5, <2>1, <2>2, <2>3, Zenon DEF KeyPt
<1> QED
  BY <1>4, <1>6, <1>7, <1>8, Zenon

-----------------------------------------------------------------------------
\* ts2 is ts with an empty table at the frame next, below an entry of at that
\* was absent: what ensure_table makes.
Grown(ts, at, index, next, ts2) ==
  /\ DOMAIN ts2 = DOMAIN ts \cup {next} /\ ts2[next] = EmptyTable
  /\ \A f \in DOMAIN ts :
       /\ ts2[f] \in [Index -> EntrySet]
       /\ \A i \in Index :
            ts2[f][i] = IF f = at /\ i = index THEN Entry(next, FALSE) ELSE ts[f][i]

\* Where a table may be put.
Room(ts, sp, level, at, index, next) ==
  /\ at \in DOMAIN ts /\ index \in Index /\ level[at] > 1 /\ ~ts[at][index].present
  /\ next \in Nat \ {0} /\ next \notin DOMAIN ts
  /\ 1 \in DOMAIN sp /\ at = sp[1] => 2 * index >= Radix

\* The levels and keys l2 and k2 agree with level and key on the tables of ts.
Extend(ts, level, key, l2, k2) == \A f \in DOMAIN ts : l2[f] = level[f] /\ k2[f] = key[f]

\* An empty table has no entry.
LEMMA Empty ==
  ASSUME NEW i \in Index
  PROVE  /\ EmptyTable \in [Index -> EntrySet] /\ EmptyTable[i] = Absent
         /\ ~EmptyTable[i].present /\ ~EmptyTable[i].huge
<1>1. Absent \in EntrySet /\ ~Absent.present /\ ~Absent.huge
  <2>1. 0 \in Nat
    BY Zenon
  <2> QED
    BY <2>1, Zenon DEF Absent, EntrySet
<1> QED
  BY <1>1, Zenon DEF EmptyTable, Index

\* An entry for a table or a page.
LEMMA Entries ==
  ASSUME NEW frame \in Nat, NEW huge \in BOOLEAN, NEW e, e = Entry(frame, huge)
  PROVE  e \in EntrySet /\ e.present /\ e.huge = huge /\ e.frame = frame
BY Zenon DEF Entry, EntrySet

\* The new table hangs in the tree.
LEMMA GrownShape ==
  ASSUME NEW ts, NEW sp, NEW level, NEW key, Shaped(ts, sp, level, key),
         NEW at, NEW index, NEW next, Room(ts, sp, level, at, index, next),
         NEW ts2, Grown(ts, at, index, next, ts2)
  PROVE  \E l2, k2 :
           /\ Shaped(ts2, sp, l2, k2) /\ Extend(ts, level, key, l2, k2)
           /\ l2[next] = level[at] - 1 /\ k2[next] = Branch(level[at], key[at], index)
<1>1. PICK l2 : l2 = [f \in DOMAIN ts \cup {next} |-> IF f = next THEN level[at] - 1 ELSE level[f]]
  BY Zenon
<1>2. PICK k2 : k2 = [f \in DOMAIN ts \cup {next} |->
                        IF f = next THEN Branch(level[at], key[at], index) ELSE key[f]]
  BY Zenon
<1>3. next \in Nat \ {0} /\ next \notin DOMAIN ts /\ at \in DOMAIN ts /\ index \in Index
      /\ level[at] > 1 /\ level[at] \in 1 .. 4
  BY Zenon DEF Room, Shaped
<1>4. /\ \A f \in DOMAIN ts : l2[f] = level[f] /\ k2[f] = key[f]
      /\ l2[next] = level[at] - 1 /\ k2[next] = Branch(level[at], key[at], index)
  BY <1>1, <1>2, <1>3, Zenon
<1>5. /\ DOMAIN ts2 = DOMAIN ts \cup {next} /\ ts2[next] = EmptyTable
      /\ \A f \in DOMAIN ts : ts2[f] \in [Index -> EntrySet]
      /\ \A f \in DOMAIN ts, i \in Index : f # at \/ i # index => ts2[f][i] = ts[f][i]
      /\ ts2[at][index] = Entry(next, FALSE)
  BY <1>3, Zenon DEF Grown
<1>6. ts2[at][index].present /\ ~ts2[at][index].huge /\ ts2[at][index].frame = next
  <2>1. next \in Nat /\ FALSE \in BOOLEAN
    BY <1>3, Zenon
  <2> QED
    BY <1>5, <2>1, Entries, Zenon
<1>7. 0 \notin DOMAIN ts2
  BY <1>3, <1>5, Zenon DEF Shaped
<1>8. \A f \in DOMAIN ts2 : ts2[f] \in [Index -> EntrySet] /\ l2[f] \in 1 .. 4
  <2>1. level[at] - 1 \in 1 .. 4
    BY <1>3
  <2>2. \A f \in DOMAIN ts : level[f] \in 1 .. 4
    BY Zenon DEF Shaped
  <2> QED
    BY <1>3, <1>4, <1>5, <2>1, <2>2, Empty, Zenon
<1>9. ASSUME NEW f \in DOMAIN ts2, NEW i \in Index
      PROVE  Hangs(ts2, l2, k2, f, i) /\ (ts2[f][i].huge => l2[f] = 2 /\ ts2[f][i].present)
  <2>1. CASE f = next
    BY <1>5, <2>1, Empty, Zenon DEF Hangs
  <2>2. CASE f = at /\ i = index
    BY <1>3, <1>4, <1>5, <1>6, <2>2, Zenon DEF Hangs
  <2>3. CASE f \in DOMAIN ts /\ ~(f = at /\ i = index)
    <3>1. Hangs(ts, level, key, f, i) /\ (ts[f][i].huge => level[f] = 2 /\ ts[f][i].present)
      BY <2>3, Zenon DEF Shaped
    <3>2. ts2[f][i] = ts[f][i] /\ l2[f] = level[f] /\ k2[f] = key[f]
      BY <1>4, <1>5, <2>3, Zenon
    <3>3. ASSUME l2[f] > 1, ts2[f][i].present, ~ts2[f][i].huge
          PROVE  /\ ts2[f][i].frame \in DOMAIN ts2
                 /\ l2[ts2[f][i].frame] = l2[f] - 1
                 /\ k2[ts2[f][i].frame] = Branch(l2[f], k2[f], i)
      <4>1. /\ ts[f][i].frame \in DOMAIN ts
            /\ level[ts[f][i].frame] = level[f] - 1
            /\ key[ts[f][i].frame] = Branch(level[f], key[f], i)
        BY <3>1, <3>2, <3>3, Zenon DEF Hangs
      <4> QED
        BY <1>4, <1>5, <3>2, <4>1, Zenon
    <3> QED
      BY <3>1, <3>2, <3>3, Zenon DEF Hangs
  <2> QED
    BY <1>5, <2>1, <2>2, <2>3, Zenon
<1>10. \A n \in DOMAIN sp : sp[n] \in DOMAIN ts2 /\ l2[sp[n]] = 4 /\ k2[sp[n]] = n
  BY <1>4, <1>5, Zenon DEF Shaped
<1>11. ASSUME NEW i \in Index, 1 \in DOMAIN sp, 2 * i < Radix PROVE ~ts2[sp[1]][i].present
  <2>1. ~ts[sp[1]][i].present /\ sp[1] \in DOMAIN ts
    BY <1>11, Zenon DEF Shaped
  <2>2. ~(sp[1] = at /\ i = index)
    <3>1. ~(2 * i >= Radix)
      BY <1>11, PagingAssumption DEF Index
    <3> QED
      BY <1>11, <3>1, Zenon DEF Room
  <2> QED
    BY <1>5, <2>1, <2>2, Zenon
<1>12. Shaped(ts2, sp, l2, k2)
  BY <1>7, <1>8, <1>9, <1>10, <1>11, Zenon DEF Shaped
<1> QED
  BY <1>4, <1>12, Zenon DEF Extend

\* An entry leads to the same table as before, or nowhere before and to the
\* new table now, from which none leads on.
Leads(ts, ts2, next) ==
  /\ \A f \in DOMAIN ts \cup {0}, i \in Index :
       \/ Follow(ts2, f, i) = Follow(ts, f, i)
       \/ Follow(ts, f, i) = 0 /\ Follow(ts2, f, i) = next
  /\ \A i \in Index : Follow(ts, 0, i) = 0 /\ Follow(ts2, next, i) = 0

\* That is so when ensure_table has made a table.
LEMMA FollowGrown ==
  ASSUME NEW ts, NEW sp, NEW level, NEW key, Shaped(ts, sp, level, key),
         NEW at, NEW index, NEW next, Room(ts, sp, level, at, index, next),
         NEW ts2, Grown(ts, at, index, next, ts2)
  PROVE  Leads(ts, ts2, next)
<1>1. /\ ts2[next] = EmptyTable /\ ts2[at][index] = Entry(next, FALSE)
      /\ \A h \in DOMAIN ts, j \in Index : h # at \/ j # index => ts2[h][j] = ts[h][j]
  BY Zenon DEF Grown, Room
<1>2. ASSUME NEW i \in Index PROVE Follow(ts, 0, i) = 0 /\ Follow(ts2, next, i) = 0
  BY <1>1, Empty, Zenon DEF Follow
<1>3. ASSUME NEW f \in DOMAIN ts \cup {0}, NEW i \in Index
      PROVE  \/ Follow(ts2, f, i) = Follow(ts, f, i)
             \/ Follow(ts, f, i) = 0 /\ Follow(ts2, f, i) = next
  <2>1. CASE f = 0
    BY <2>1, Zenon DEF Follow
  <2>2. CASE f = at /\ i = index
    <3>1. ~ts[at][index].present /\ next \in Nat /\ next # 0 /\ FALSE \in BOOLEAN
      BY Zenon DEF Room
    <3>2. ts2[at][index].present /\ ~ts2[at][index].huge /\ ts2[at][index].frame = next
      BY <1>1, <3>1, Entries, Zenon
    <3>3. at # 0
      BY Zenon DEF Room, Shaped
    <3> QED
      BY <2>2, <3>1, <3>2, <3>3, Zenon DEF Follow
  <2>3. CASE f \in DOMAIN ts /\ ~(f = at /\ i = index)
    BY <1>1, <2>3, Zenon DEF Follow
  <2> QED
    BY <2>1, <2>2, <2>3, Zenon
<1> QED
  BY <1>2, <1>3, Zenon DEF Leads

\* A new empty table changes no translation.
LEMMA GrownWalk ==
  ASSUME NEW ts, NEW sp, NEW level, NEW key, Shaped(ts, sp, level, key),
         NEW at, NEW index, NEW next, Room(ts, sp, level, at, index, next),
         NEW ts2, Grown(ts, at, index, next, ts2), NEW n \in DOMAIN sp, NEW va \in Nat
  PROVE  Walk(ts2, sp[n], va) = Walk(ts, sp[n], va)
<1>1. PICK p3, p2, p1 : /\ p3 = Pdpt(ts, sp[n], va) /\ p2 = Pd(ts, sp[n], va)
                        /\ p1 = Pt(ts, sp[n], va)
  BY Zenon
<1>2. PICK q3, q2, q1 : /\ q3 = Pdpt(ts2, sp[n], va) /\ q2 = Pd(ts2, sp[n], va)
                        /\ q1 = Pt(ts2, sp[n], va)
  BY Zenon
<1>3. /\ p3 = Follow(ts, sp[n], pml4_index(va)) /\ q3 = Follow(ts2, sp[n], pml4_index(va))
      /\ p2 = Follow(ts, p3, pdpt_index(va)) /\ q2 = Follow(ts2, q3, pdpt_index(va))
      /\ p1 = Follow(ts, p2, pd_index(va)) /\ q1 = Follow(ts2, q2, pd_index(va))
  BY <1>1, <1>2, Zenon DEF Pt, Pd, Pdpt
<1>4. /\ pml4_index(va) \in Index /\ pdpt_index(va) \in Index /\ pd_index(va) \in Index
      /\ pt_index(va) \in Index
  BY Digits, Zenon
<1>5. /\ p3 # 0 => p3 \in DOMAIN ts /\ level[p3] = 3
      /\ p2 # 0 => p2 \in DOMAIN ts /\ level[p2] = 2
      /\ p1 # 0 => p1 \in DOMAIN ts /\ level[p1] = 1
  BY <1>1, WalkKeys
<1>6. sp[n] \in DOMAIN ts \cup {0} /\ p3 \in DOMAIN ts \cup {0} /\ p2 \in DOMAIN ts \cup {0}
  BY <1>5, Zenon DEF Shaped
<1>a. Leads(ts, ts2, next)
  BY FollowGrown, Zenon
<1>7. q3 = p3 \/ (p3 = 0 /\ q3 = next)
  <2>1. \/ Follow(ts2, sp[n], pml4_index(va)) = Follow(ts, sp[n], pml4_index(va))
        \/ Follow(ts, sp[n], pml4_index(va)) = 0 /\ Follow(ts2, sp[n], pml4_index(va)) = next
    BY <1>4, <1>6, <1>a, Zenon DEF Leads
  <2> QED
    BY <1>3, <2>1, Zenon
<1>8. q2 = p2 \/ (p2 = 0 /\ q2 = next)
  <2>1. \/ Follow(ts2, p3, pdpt_index(va)) = Follow(ts, p3, pdpt_index(va))
        \/ Follow(ts, p3, pdpt_index(va)) = 0 /\ Follow(ts2, p3, pdpt_index(va)) = next
    BY <1>4, <1>6, <1>a, Zenon DEF Leads
  <2>2. Follow(ts, 0, pdpt_index(va)) = 0 /\ Follow(ts2, next, pdpt_index(va)) = 0
    BY <1>4, <1>a, Zenon DEF Leads
  <2> QED
    BY <1>3, <1>7, <2>1, <2>2, Zenon
<1>9. q1 = p1 \/ (p1 = 0 /\ q1 = next)
  <2>1. \/ Follow(ts2, p2, pd_index(va)) = Follow(ts, p2, pd_index(va))
        \/ Follow(ts, p2, pd_index(va)) = 0 /\ Follow(ts2, p2, pd_index(va)) = next
    BY <1>4, <1>6, <1>a, Zenon DEF Leads
  <2>2. Follow(ts, 0, pd_index(va)) = 0 /\ Follow(ts2, next, pd_index(va)) = 0
    BY <1>4, <1>a, Zenon DEF Leads
  <2> QED
    BY <1>3, <1>8, <2>1, <2>2, Zenon
<1>10. /\ ts2[next] = EmptyTable /\ ts2[at][index] = Entry(next, FALSE) /\ next # 0
       /\ \A h \in DOMAIN ts, j \in Index : h # at \/ j # index => ts2[h][j] = ts[h][j]
       /\ ~ts[at][index].present /\ level[at] > 1 /\ at \in DOMAIN ts /\ index \in Index
  BY Zenon DEF Grown, Room
<1>11. CASE p2 = q2 /\ p2 # 0 /\ ~(p2 = at /\ pd_index(va) = index)
  <2>1. ts2[p2][pd_index(va)] = ts[p2][pd_index(va)]
    BY <1>4, <1>5, <1>10, <1>11, Zenon
  <2>2. ASSUME p1 = 0, q1 = next PROVE Answer(ts2, q2, q1, va) = Answer(ts, p2, p1, va)
    BY <1>4, <1>10, <1>11, <2>1, <2>2, Empty, Zenon DEF Answer
  <2>3. ASSUME p1 = q1, p1 # 0 PROVE Answer(ts2, q2, q1, va) = Answer(ts, p2, p1, va)
    <3>1. p1 # at
      BY <1>5, <1>10, <2>3
    <3>2. ts2[p1][pt_index(va)] = ts[p1][pt_index(va)]
      BY <1>4, <1>5, <1>10, <2>3, <3>1, Zenon
    <3> QED
      BY <1>11, <2>1, <2>3, <3>2, Zenon DEF Answer
  <2>4. ASSUME p1 = q1, p1 = 0 PROVE Answer(ts2, q2, q1, va) = Answer(ts, p2, p1, va)
    BY <1>11, <2>1, <2>4, Zenon DEF Answer
  <2>5. Answer(ts2, q2, q1, va) = Answer(ts, p2, p1, va)
    BY <1>9, <2>2, <2>3, <2>4, Zenon
  <2> QED
    BY <1>1, <1>2, <2>5, WalkAnswer, Zenon
<1>12. CASE p2 = q2 /\ p2 # 0 /\ p2 = at /\ pd_index(va) = index
  <2>1. ~ts[p2][pd_index(va)].present /\ ~ts[p2][pd_index(va)].huge
    BY <1>10, <1>12, Zenon DEF Shaped
  <2>2. p1 = 0
    BY <1>3, <2>1, Zenon DEF Follow
  <2>3. Answer(ts, p2, p1, va) = -1
    BY <2>1, <2>2, Zenon DEF Answer
  <2>4. ~ts2[q2][pd_index(va)].huge
    <3>1. ts2[q2][pd_index(va)] = Entry(next, FALSE)
      BY <1>10, <1>12, Zenon
    <3> QED
      BY <3>1 DEF Entry
  <2>5. q1 = 0 \/ ~ts2[q1][pt_index(va)].present
    BY <1>4, <1>9, <1>10, <2>2, Empty, Zenon
  <2>6. Answer(ts2, q2, q1, va) = -1
    BY <2>4, <2>5, Zenon DEF Answer
  <2> QED
    BY <1>1, <1>2, <2>3, <2>6, WalkAnswer, Zenon
<1>13. CASE p2 = 0
  <2>1. p1 = 0
    BY <1>3, <1>13, Zenon DEF Follow
  <2>2. Answer(ts, p2, p1, va) = -1
    BY <1>13, <2>1, Zenon DEF Answer
  <2>3. q2 = 0 \/ (~ts2[q2][pd_index(va)].huge /\ ~ts2[q2][pd_index(va)].present)
    BY <1>4, <1>8, <1>10, <1>13, Empty, Zenon
  <2>4. q1 = 0
    BY <1>3, <2>3, Zenon DEF Follow
  <2>5. Answer(ts2, q2, q1, va) = -1
    BY <2>3, <2>4, Zenon DEF Answer
  <2> QED
    BY <1>1, <1>2, <2>2, <2>5, WalkAnswer, Zenon
<1> QED
  BY <1>8, <1>11, <1>12, <1>13, Zenon

-----------------------------------------------------------------------------
\* ts2 is ts with the entry e written: the end of map_4k and map_2m.
Written(ts, at, index, e, ts2) ==
  /\ DOMAIN ts2 = DOMAIN ts
  /\ \A f \in DOMAIN ts :
       /\ ts2[f] \in [Index -> EntrySet]
       /\ \A i \in Index : ts2[f][i] = IF f = at /\ i = index THEN e ELSE ts[f][i]

\* The entry of a page, in a table of the lowest level or, for a large page,
\* of the one above.
Fitting(ts, level, at, index, e) ==
  /\ at \in DOMAIN ts /\ index \in Index /\ e \in EntrySet /\ e.present
  /\ \/ level[at] = 1 /\ ~e.huge
     \/ level[at] = 2 /\ e.huge

\* Writing the entry of a page leaves the trees as they are.
LEMMA WrittenShape ==
  ASSUME NEW ts, NEW sp, NEW level, NEW key, Shaped(ts, sp, level, key),
         NEW at, NEW index, NEW e, Fitting(ts, level, at, index, e),
         NEW ts2, Written(ts, at, index, e, ts2)
  PROVE  Shaped(ts2, sp, level, key)
<1>1. /\ at \in DOMAIN ts /\ index \in Index /\ e.present /\ level[at] \in {1, 2}
      /\ e.huge => level[at] = 2
      /\ ~e.huge => level[at] = 1
  BY Zenon DEF Fitting
<1>2. /\ DOMAIN ts2 = DOMAIN ts
      /\ \A f \in DOMAIN ts : ts2[f] \in [Index -> EntrySet]
      /\ \A f \in DOMAIN ts, i \in Index : f # at \/ i # index => ts2[f][i] = ts[f][i]
      /\ ts2[at][index] = e
  BY <1>1, Zenon DEF Written
<1>3. ASSUME NEW f \in DOMAIN ts, NEW i \in Index
      PROVE  Hangs(ts2, level, key, f, i) /\ (ts2[f][i].huge => level[f] = 2 /\ ts2[f][i].present)
  <2>1. CASE f = at /\ i = index
    <3>1. ~(1 > 1)
      OBVIOUS
    <3> QED
      BY <1>1, <1>2, <2>1, <3>1, Zenon DEF Hangs
  <2>2. CASE ~(f = at /\ i = index)
    <3>1. Hangs(ts, level, key, f, i) /\ (ts[f][i].huge => level[f] = 2 /\ ts[f][i].present)
      BY Zenon DEF Shaped
    <3>2. ts2[f][i] = ts[f][i]
      BY <1>2, <2>2, Zenon
    <3> QED
      BY <1>2, <3>1, <3>2, Zenon DEF Hangs
  <2> QED
    BY <2>1, <2>2, Zenon
<1>4. ASSUME NEW i \in Index, 1 \in DOMAIN sp, 2 * i < Radix PROVE ~ts2[sp[1]][i].present
  <2>1. ~ts[sp[1]][i].present /\ sp[1] \in DOMAIN ts /\ level[sp[1]] = 4
    BY <1>4, Zenon DEF Shaped
  <2>2. sp[1] # at
    BY <1>1, <2>1
  <2> QED
    BY <1>2, <2>1, <2>2, Zenon
<1> QED
  BY <1>2, <1>3, <1>4, Zenon DEF Shaped

\* In the upper half nothing is mapped once there is a second space.
Alone(sp, n, va) == \A j \in DOMAIN sp : j = n \/ 2 * pml4_index(va) < Radix

\* Keys tell places apart.
LEMMA KeysDiffer ==
  ASSUME NEW sp, NEW n \in DOMAIN sp, NEW j \in DOMAIN sp,
         NEW va \in Pages, NEW vb \in Pages, Alone(sp, n, va)
  PROVE  /\ KeyPd(n, va) = KeyPd(j, vb) =>
              j = n /\ pml4_index(va) = pml4_index(vb) /\ pdpt_index(va) = pdpt_index(vb)
         /\ KeyPt(n, va) = KeyPt(j, vb) =>
              KeyPd(n, va) = KeyPd(j, vb) /\ pd_index(va) = pd_index(vb)
<1>1. KeyPt(n, va) = KeyPt(j, vb) => KeyPd(n, va) = KeyPd(j, vb) /\ pd_index(va) = pd_index(vb)
  BY Zenon DEF KeyPt
<1>2. KeyPd(n, va) = KeyPd(j, vb) =>
        KeyPdpt(n, va) = KeyPdpt(j, vb) /\ pdpt_index(va) = pdpt_index(vb)
  BY Zenon DEF KeyPd
<1>3. KeyPdpt(n, va) = KeyPdpt(j, vb) => j = n /\ pml4_index(va) = pml4_index(vb)
  <2>1. pml4_index(va) \in Nat /\ Radix \in Nat
    <3>1. va \in Nat
      BY DEF Pages
    <3> QED
      BY <3>1, Digits, PagingAssumption DEF Index
  <2>2. j = n \/ ~(2 * pml4_index(va) >= Radix)
    BY <2>1 DEF Alone
  <2> QED
    BY <2>2, Zenon DEF KeyPdpt, Branch
<1> QED
  BY <1>1, <1>2, <1>3, Zenon

\* A table that was not written leads where it led.
LEMMA FollowWritten ==
  ASSUME NEW ts, NEW at, NEW index, NEW e, NEW ts2, Written(ts, at, index, e, ts2),
         NEW f \in DOMAIN ts \cup {0}, NEW i \in Index, f # at \/ i # index
  PROVE  Follow(ts2, f, i) = Follow(ts, f, i)
<1>1. CASE f = 0
  BY <1>1, Zenon DEF Follow
<1>2. CASE f \in DOMAIN ts
  <2>1. ts2[f][i] = ts[f][i]
    BY <1>2, Zenon DEF Written
  <2> QED
    BY <2>1, Zenon DEF Follow
<1> QED
  BY <1>1, <1>2, Zenon

\* The entry of a small page, in the table the unit comes to for it, is its
\* translation.
LEMMA WalkSmall ==
  ASSUME NEW ts, NEW s, NEW va, NEW at, at = Pt(ts, s, va), at # 0
  PROVE  Walk(ts, s, va) = IF ts[at][pt_index(va)].present THEN ts[at][pt_index(va)].frame ELSE -1
<1>1. ~ts[Pd(ts, s, va)][pd_index(va)].huge
  BY Zenon DEF Pt, Follow
<1>2. Walk(ts, s, va) = Answer(ts, Pd(ts, s, va), at, va)
  BY WalkAnswer, Zenon
<1> QED
  BY <1>1, <1>2, Zenon DEF Answer

\* The entry of a large page is that of all its pages.
LEMMA WalkLarge ==
  ASSUME NEW ts, NEW s, NEW va, NEW pd, pd = Pd(ts, s, va), pd # 0
  PROVE  /\ ts[pd][pd_index(va)].huge =>
              Walk(ts, s, va) = (ts[pd][pd_index(va)].frame \div HUGE) * HUGE + (va % HUGE)
         /\ ~ts[pd][pd_index(va)].huge /\ ~ts[pd][pd_index(va)].present => Walk(ts, s, va) = -1
<1>1. Walk(ts, s, va) = Answer(ts, pd, Pt(ts, s, va), va)
  BY WalkAnswer, Zenon
<1>2. ~ts[pd][pd_index(va)].present => Pt(ts, s, va) = 0
  BY Zenon DEF Pt, Follow
<1> QED
  BY <1>1, <1>2, Zenon DEF Answer

\* Writing the entry of a small page changes its translation and no other, in
\* this space or another.
LEMMA WrittenSmall ==
  ASSUME NEW ts, NEW sp, NEW level, NEW key, Shaped(ts, sp, level, key),
         NEW n \in DOMAIN sp, NEW va \in Pages, Alone(sp, n, va),
         NEW at, at = Pt(ts, sp[n], va), at # 0, NEW e, e.present,
         NEW ts2, Written(ts, at, pt_index(va), e, ts2)
  PROVE  \A j \in DOMAIN sp, vb \in Pages :
           Walk(ts2, sp[j], vb) = IF j = n /\ vb = va THEN e.frame ELSE Walk(ts, sp[j], vb)
<1> SUFFICES ASSUME NEW j \in DOMAIN sp, NEW vb \in Pages
             PROVE  Walk(ts2, sp[j], vb) = IF j = n /\ vb = va THEN e.frame
                                           ELSE Walk(ts, sp[j], vb)
  BY Zenon
<1>1. va \in Nat /\ vb \in Nat
  BY DEF Pages
<1>2. at \in DOMAIN ts /\ level[at] = 1 /\ key[at] = KeyPt(n, va)
  BY <1>1, WalkKeys
<1>3. PICK p3, p2, p1 : /\ p3 = Pdpt(ts, sp[j], vb) /\ p2 = Pd(ts, sp[j], vb)
                        /\ p1 = Pt(ts, sp[j], vb)
  BY Zenon
<1>4. /\ p3 # 0 => p3 \in DOMAIN ts /\ level[p3] = 3
      /\ p2 # 0 => p2 \in DOMAIN ts /\ level[p2] = 2
      /\ p1 # 0 => p1 \in DOMAIN ts /\ level[p1] = 1 /\ key[p1] = KeyPt(j, vb)
  BY <1>1, <1>3, WalkKeys
<1>5. sp[j] \in DOMAIN ts /\ level[sp[j]] = 4
  BY Zenon DEF Shaped
<1>6. /\ pml4_index(vb) \in Index /\ pdpt_index(vb) \in Index /\ pd_index(vb) \in Index
      /\ pt_index(vb) \in Index /\ pt_index(va) \in Index
  BY <1>1, Digits, Zenon
<1>7. sp[j] # at /\ p3 # at /\ p2 # at
  BY <1>2, <1>4, <1>5
<1>8. Pdpt(ts2, sp[j], vb) = p3 /\ Pd(ts2, sp[j], vb) = p2 /\ Pt(ts2, sp[j], vb) = p1
  <2>1. Pdpt(ts2, sp[j], vb) = p3
    BY <1>3, <1>5, <1>6, <1>7, FollowWritten DEF Pdpt
  <2>2. Pd(ts2, sp[j], vb) = p2
    BY <1>3, <1>4, <1>6, <1>7, <2>1, FollowWritten DEF Pd
  <2>3. Pt(ts2, sp[j], vb) = p1
    BY <1>3, <1>4, <1>6, <1>7, <2>2, FollowWritten DEF Pt
  <2> QED
    BY <2>1, <2>2, <2>3, Zenon
<1>9. /\ \A f \in DOMAIN ts, i \in Index : f # at \/ i # pt_index(va) => ts2[f][i] = ts[f][i]
      /\ ts2[at][pt_index(va)] = e
  BY <1>2, <1>6, Zenon DEF Written
<1>10. CASE p1 = at /\ pt_index(vb) = pt_index(va)
  <2>1. KeyPt(n, va) = KeyPt(j, vb)
    BY <1>2, <1>4, <1>10, Zenon
  <2>2. j = n /\ pml4_index(va) = pml4_index(vb) /\ pdpt_index(va) = pdpt_index(vb)
        /\ pd_index(va) = pd_index(vb)
    BY <2>1, KeysDiffer
  <2>3. va = vb
    BY <1>10, <2>2, SamePlace, Zenon
  <2>4. Walk(ts2, sp[j], vb) = e.frame
    <3>1. Walk(ts2, sp[j], vb) = IF ts2[at][pt_index(vb)].present
                                 THEN ts2[at][pt_index(vb)].frame ELSE -1
      BY <1>8, <1>10, WalkSmall, Zenon
    <3> QED
      BY <1>9, <1>10, <3>1, Zenon
  <2> QED
    BY <2>2, <2>3, <2>4, Zenon
<1>11. CASE ~(p1 = at /\ pt_index(vb) = pt_index(va))
  <2>1. ~(j = n /\ vb = va)
    BY <1>3, <1>11, Zenon
  <2>2. p2 # 0 => ts2[p2][pd_index(vb)] = ts[p2][pd_index(vb)]
    BY <1>4, <1>6, <1>7, <1>9, Zenon
  <2>3. p1 # 0 => ts2[p1][pt_index(vb)] = ts[p1][pt_index(vb)]
    BY <1>4, <1>6, <1>9, <1>11, Zenon
  <2>4. Answer(ts2, p2, p1, vb) = Answer(ts, p2, p1, vb)
    BY <2>2, <2>3, Zenon DEF Answer
  <2>5. Walk(ts2, sp[j], vb) = Walk(ts, sp[j], vb)
    BY <1>3, <1>8, <2>4, WalkAnswer, Zenon
  <2> QED
    BY <2>1, <2>5, Zenon
<1> QED
  BY <1>10, <1>11, Zenon

\* Two addresses in one large page have the same upper indices.
LEMMA SameLarge ==
  ASSUME NEW va \in Nat, NEW vb \in Nat, va \div Radix = vb \div Radix
  PROVE  /\ pml4_index(va) = pml4_index(vb) /\ pdpt_index(va) = pdpt_index(vb)
         /\ pd_index(va) = pd_index(vb)
<1>1. /\ pd_index(va) = (va \div Radix) % Radix
      /\ pdpt_index(va) = ((va \div Radix) \div Radix) % Radix
      /\ pml4_index(va) = (((va \div Radix) \div Radix) \div Radix) % Radix
  BY Digits, Zenon
<1>2. /\ pd_index(vb) = (vb \div Radix) % Radix
      /\ pdpt_index(vb) = ((vb \div Radix) \div Radix) % Radix
      /\ pml4_index(vb) = (((vb \div Radix) \div Radix) \div Radix) % Radix
  BY Digits, Zenon
<1> QED
  BY <1>1, <1>2, Zenon

\* Writing the entry of a large page changes the translations of its pages
\* and no other.
LEMMA WrittenLarge ==
  ASSUME NEW ts, NEW sp, NEW level, NEW key, Shaped(ts, sp, level, key),
         NEW n \in DOMAIN sp, NEW va \in Pages, Alone(sp, n, va),
         NEW at, at = Pd(ts, sp[n], va), at # 0, ~ts[at][pd_index(va)].present,
         NEW e, e.present, e.huge, NEW ts2, Written(ts, at, pd_index(va), e, ts2)
  PROVE  \A j \in DOMAIN sp, vb \in Pages :
           Walk(ts2, sp[j], vb) = IF j = n /\ vb \div Radix = va \div Radix
                                  THEN (e.frame \div HUGE) * HUGE + (vb % HUGE)
                                  ELSE Walk(ts, sp[j], vb)
<1> SUFFICES ASSUME NEW j \in DOMAIN sp, NEW vb \in Pages
             PROVE  Walk(ts2, sp[j], vb) = IF j = n /\ vb \div Radix = va \div Radix
                                           THEN (e.frame \div HUGE) * HUGE + (vb % HUGE)
                                           ELSE Walk(ts, sp[j], vb)
  BY Zenon
<1>1. va \in Nat /\ vb \in Nat
  BY DEF Pages
<1>2. at \in DOMAIN ts /\ level[at] = 2 /\ key[at] = KeyPd(n, va)
  BY <1>1, WalkKeys
<1>3. PICK p3, p2, p1 : /\ p3 = Pdpt(ts, sp[j], vb) /\ p2 = Pd(ts, sp[j], vb)
                        /\ p1 = Pt(ts, sp[j], vb)
  BY Zenon
<1>4. /\ p3 # 0 => p3 \in DOMAIN ts /\ level[p3] = 3
      /\ p2 # 0 => p2 \in DOMAIN ts /\ level[p2] = 2 /\ key[p2] = KeyPd(j, vb)
      /\ p1 # 0 => p1 \in DOMAIN ts /\ level[p1] = 1
  BY <1>1, <1>3, WalkKeys
<1>5. sp[j] \in DOMAIN ts /\ level[sp[j]] = 4
  BY Zenon DEF Shaped
<1>6. /\ pml4_index(vb) \in Index /\ pdpt_index(vb) \in Index /\ pd_index(vb) \in Index
      /\ pt_index(vb) \in Index /\ pd_index(va) \in Index
  BY <1>1, Digits, Zenon
<1>7. sp[j] # at /\ p3 # at /\ p1 # at
  BY <1>2, <1>4, <1>5
<1>8. Pdpt(ts2, sp[j], vb) = p3 /\ Pd(ts2, sp[j], vb) = p2
  <2>1. Pdpt(ts2, sp[j], vb) = p3
    BY <1>3, <1>5, <1>6, <1>7, FollowWritten DEF Pdpt
  <2>2. Pd(ts2, sp[j], vb) = p2
    BY <1>3, <1>4, <1>6, <1>7, <2>1, FollowWritten DEF Pd
  <2> QED
    BY <2>1, <2>2, Zenon
<1>9. /\ \A f \in DOMAIN ts, i \in Index : f # at \/ i # pd_index(va) => ts2[f][i] = ts[f][i]
      /\ ts2[at][pd_index(va)] = e
  BY <1>2, <1>6, Zenon DEF Written
<1>10. CASE p2 = at /\ pd_index(vb) = pd_index(va)
  <2>1. KeyPd(n, va) = KeyPd(j, vb)
    BY <1>2, <1>4, <1>10, Zenon
  <2>2. j = n /\ pml4_index(va) = pml4_index(vb) /\ pdpt_index(va) = pdpt_index(vb)
    BY <2>1, KeysDiffer
  <2>3. va \div Radix = vb \div Radix
    BY <1>10, <2>2, SamePlace, Zenon
  <2>4. ts2[p2][pd_index(vb)] = e
    BY <1>9, <1>10, Zenon
  <2>5. Walk(ts2, sp[j], vb) = (e.frame \div HUGE) * HUGE + (vb % HUGE)
    BY <1>8, <1>10, <2>4, WalkLarge, Zenon
  <2> QED
    BY <2>2, <2>3, <2>5, Zenon
<1>11. CASE ~(p2 = at /\ pd_index(vb) = pd_index(va))
  <2>1. ~(j = n /\ vb \div Radix = va \div Radix)
    <3>1. ASSUME j = n, vb \div Radix = va \div Radix PROVE FALSE
      <4>1. /\ pml4_index(va) = pml4_index(vb) /\ pdpt_index(va) = pdpt_index(vb)
            /\ pd_index(va) = pd_index(vb)
        BY <1>1, <3>1, SameLarge, Zenon
      <4>2. p2 = at
        BY <1>3, <3>1, <4>1, Zenon DEF Pd, Pdpt
      <4> QED
        BY <1>11, <4>1, <4>2, Zenon
    <3> QED
      BY <3>1, Zenon
  <2>2. p2 # 0 => ts2[p2][pd_index(vb)] = ts[p2][pd_index(vb)]
    BY <1>4, <1>6, <1>9, <1>11, Zenon
  <2>3. p1 # 0 => ts2[p1][pt_index(vb)] = ts[p1][pt_index(vb)]
    BY <1>4, <1>6, <1>7, <1>9, Zenon
  <2>4. Pt(ts2, sp[j], vb) = p1
    <3>1. p2 # at \/ pd_index(vb) # pd_index(va)
      BY <1>11, Zenon
    <3>2. p2 \in DOMAIN ts \cup {0}
      BY <1>4, Zenon
    <3> QED
      BY <1>3, <1>6, <1>8, <3>1, <3>2, FollowWritten DEF Pt
  <2>5. Answer(ts2, p2, p1, vb) = Answer(ts, p2, p1, vb)
    BY <2>2, <2>3, Zenon DEF Answer
  <2>6. Walk(ts2, sp[j], vb) = Walk(ts, sp[j], vb)
    BY <1>3, <1>8, <2>4, <2>5, WalkAnswer, Zenon
  <2> QED
    BY <2>1, <2>6, Zenon
<1> QED
  BY <1>10, <1>11, Zenon

-----------------------------------------------------------------------------
\* Tables and the allocator they come from.
Sound(ts, b, sp, level, key) ==
  /\ Shaped(ts, sp, level, key) /\ BumpOK(b) /\ DOMAIN ts \subseteq Frames(b.start, b.cursor)

\* From ts and b to ts2 and b2 nothing was mapped or unmapped: there may be
\* new tables, from new pages, of which only x may be of the lowest level.
Carry(ts, b, sp, level, key, ts2, b2, l2, k2, x) ==
  /\ Sound(ts2, b2, sp, l2, k2)
  /\ DOMAIN ts \subseteq DOMAIN ts2 /\ Extend(ts, level, key, l2, k2)
  /\ b2.start = b.start /\ b2.end = b.end /\ b.cursor <= b2.cursor
  /\ \A f \in DOMAIN ts2 \ DOMAIN ts : f >= b.cursor \div PAGE /\ (f = x \/ l2[f] > 1)
  /\ \A n \in DOMAIN sp, va \in Nat : Walk(ts2, sp[n], va) = Walk(ts, sp[n], va)
  /\ \A f \in DOMAIN ts, i \in Index : ts[f][i].present => ts2[f][i] = ts[f][i]

\* ensure_table that failed, or that came to a table.
Ensured(ts, at, index, level, m, l2) ==
  /\ m = [tables |-> m.tables, bump |-> m.bump, at |-> m.at, error |-> m.error]
  /\ \/ /\ m.error = "" /\ m.at \in DOMAIN m.tables /\ l2[m.at] = level[at] - 1
        /\ Follow(m.tables, at, index) = m.at
     \/ m.error = "collision" /\ m.tables = ts /\ ts[at][index].huge
     \/ m.error = "memory" /\ m.tables = ts

\* The page at the cursor is in no table's place, and the ones before it are
\* below it.
LEMMA NextFrame ==
  ASSUME NEW b, BumpOK(b), Fits(b, 1), NEW next, next = FirstFrame(b),
         NEW c, c = alloc_pages(b, 1)
  PROVE  /\ BumpOK(c) /\ c.start = b.start /\ c.end = b.end /\ b.cursor <= c.cursor
         /\ next \in Nat \ {0} /\ next = b.cursor \div PAGE /\ next \notin Frames(b.start, b.cursor)
         /\ next \in Frames(c.start, c.cursor)
         /\ Frames(b.start, b.cursor) \subseteq Frames(c.start, c.cursor)
<1>1. /\ BumpOK(c) /\ c.start = b.start /\ c.end = b.end
      /\ b.cursor \div PAGE = FirstFrame(b)
      /\ c.cursor \div PAGE = FirstFrame(b) + 1
      /\ FirstFrame(b) \in Nat \ {0} /\ b.start \div PAGE <= FirstFrame(b)
  <2>1. 1 \in Nat
    BY Zenon
  <2> QED
    BY <2>1, Alloc, Zenon
<1>2. b.cursor \in Nat /\ c.cursor \in Nat /\ PAGE \in Nat \ {0} /\ b.start \div PAGE \in Nat
  <2>1. b.cursor \in Nat /\ c.cursor \in Nat /\ b.start \in Nat
    BY <1>1, Zenon DEF BumpOK
  <2> QED
    BY <2>1, PagingAssumption, Division, Zenon
<1>3. b.cursor <= c.cursor
  <2>1. /\ b.cursor = (PAGE * (b.cursor \div PAGE)) + (b.cursor % PAGE)
        /\ c.cursor = (PAGE * (c.cursor \div PAGE)) + (c.cursor % PAGE)
    BY <1>2, Division, Zenon
  <2>2. b.cursor % PAGE = 0 /\ c.cursor % PAGE = 0
    BY <1>1, Zenon DEF BumpOK
  <2>3. PICK q \in Nat : b.cursor = (PAGE * q) + 0 /\ c.cursor = (PAGE * (q + 1)) + 0
    BY <1>1, <2>1, <2>2, Zenon
  <2> QED
    BY <1>2, <2>3
<1> QED
  BY <1>1, <1>2, <1>3 DEF Frames

\* A mapper at a table, before any error.
Mapper(ts, b, at) == [tables |-> ts, bump |-> b, at |-> at, error |-> ""]

\* The parts of a mapper.
LEMMA Parts ==
  ASSUME NEW ts, NEW b, NEW at, NEW e, NEW m,
         m = [tables |-> ts, bump |-> b, at |-> at, error |-> e]
  PROVE  m.tables = ts /\ m.bump = b /\ m.at = at /\ m.error = e
BY Zenon

\* What was true of the tables stays so when ensure_table does nothing.
LEMMA CarrySame ==
  ASSUME NEW ts, NEW b, NEW sp, NEW level, NEW key, Sound(ts, b, sp, level, key), NEW x
  PROVE  Carry(ts, b, sp, level, key, ts, b, level, key, x)
<1>1. b.cursor <= b.cursor
  BY DEF Sound, BumpOK
<1> QED
  BY <1>1, Zenon DEF Carry, Extend

\* ensure_table maps nothing, and ends at the table below the entry.
LEMMA EnsureTable ==
  ASSUME NEW ts, NEW b, NEW sp, NEW level, NEW key, Sound(ts, b, sp, level, key),
         NEW at \in DOMAIN ts, NEW index \in Index, level[at] > 1,
         1 \in DOMAIN sp /\ at = sp[1] => 2 * index >= Radix,
         NEW m, m = ensure_table(Mapper(ts, b, at), index)
  PROVE  \E l2, k2 : /\ Carry(ts, b, sp, level, key, m.tables, m.bump, l2, k2, m.at)
                     /\ Ensured(ts, at, index, level, m, l2)
<1>1. PICK s : s = [tables |-> ts, bump |-> b, at |-> at, error |-> ""]
  BY Zenon
<1>2. s = Mapper(ts, b, at) /\ s.tables = ts /\ s.bump = b /\ s.at = at /\ s.error = ""
  BY <1>1, Parts, Zenon DEF Mapper
<1>3. PICK next : next = FirstFrame(b)
  BY Zenon
<1>4. PICK current : current = ts[at][index]
  BY Zenon
<1>5. m = IF current.present /\ current.huge THEN [s EXCEPT !.error = "collision"]
          ELSE IF current.present THEN [s EXCEPT !.at = current.frame]
          ELSE IF ~Fits(b, 1) THEN [s EXCEPT !.error = "memory"]
          ELSE [tables |-> WithTable([ts EXCEPT ![at][index] = Entry(next, FALSE)],
                                     next, EmptyTable),
                bump |-> alloc_pages(b, 1), at |-> next, error |-> ""]
  BY <1>1, <1>2, <1>3, <1>4, Zenon DEF ensure_table
<1>6. Shaped(ts, sp, level, key) /\ BumpOK(b) /\ DOMAIN ts \subseteq Frames(b.start, b.cursor)
  BY Zenon DEF Sound
<1>a. PICK none : none = ""
  BY Zenon
<1>7. CASE current.present /\ current.huge
  <2>1. m = [tables |-> ts, bump |-> b, at |-> at, error |-> "collision"]
    BY <1>1, <1>5, <1>7, Zenon
  <2>2. m.tables = ts /\ m.bump = b /\ m.at = at /\ m.error = "collision"
    BY <2>1
  <2>3. Ensured(ts, at, index, level, m, level)
    BY <1>4, <1>7, <2>1, <2>2, Zenon DEF Ensured
  <2> QED
    BY <2>2, <2>3, CarrySame, Zenon
<1>8. CASE current.present /\ ~current.huge
  <2>1. m = [tables |-> ts, bump |-> b, at |-> current.frame, error |-> none]
    BY <1>1, <1>5, <1>8, <1>a, Zenon
  <2>2. m.tables = ts /\ m.bump = b /\ m.at = current.frame /\ m.error = none
    BY <2>1
  <2>3. current.frame \in DOMAIN ts /\ level[current.frame] = level[at] - 1
    <3>1. Hangs(ts, level, key, at, index)
      BY <1>6, Zenon DEF Shaped
    <3> QED
      BY <1>4, <1>8, <3>1, Zenon DEF Hangs
  <2>4. Follow(ts, at, index) = current.frame
    BY <1>4, <1>6, <1>8, Zenon DEF Shaped, Follow
  <2>5. Ensured(ts, at, index, level, m, level)
    BY <1>a, <2>1, <2>2, <2>3, <2>4, Zenon DEF Ensured
  <2> QED
    BY <2>2, <2>5, CarrySame, Zenon
<1>9. CASE ~current.present /\ ~Fits(b, 1)
  <2>1. m = [tables |-> ts, bump |-> b, at |-> at, error |-> "memory"]
    BY <1>1, <1>5, <1>9, Zenon
  <2>2. m.tables = ts /\ m.bump = b /\ m.at = at /\ m.error = "memory"
    BY <2>1
  <2>3. Ensured(ts, at, index, level, m, level)
    BY <2>1, <2>2, Zenon DEF Ensured
  <2> QED
    BY <2>2, <2>3, CarrySame, Zenon
<1>10. CASE ~current.present /\ Fits(b, 1)
  <2>1. PICK ts2 : ts2 = WithTable([ts EXCEPT ![at][index] = Entry(next, FALSE)], next, EmptyTable)
    BY Zenon
  <2>2. PICK c : c = alloc_pages(b, 1)
    BY Zenon
  <2>3. m = [tables |-> ts2, bump |-> c, at |-> next, error |-> none]
    BY <1>5, <1>10, <1>a, <2>1, <2>2, Zenon
  <2>4. m.tables = ts2 /\ m.bump = c /\ m.at = next /\ m.error = none
    BY <2>3
  <2>5. /\ BumpOK(c) /\ c.start = b.start /\ c.end = b.end /\ b.cursor <= c.cursor
        /\ next \in Nat \ {0} /\ next = b.cursor \div PAGE /\ next \notin Frames(b.start, b.cursor)
        /\ next \in Frames(c.start, c.cursor)
        /\ Frames(b.start, b.cursor) \subseteq Frames(c.start, c.cursor)
    BY <1>3, <1>6, <1>10, <2>2, NextFrame, Zenon
  <2>6. next \notin DOMAIN ts
    BY <1>6, <2>5, Zenon
  <2>7. Room(ts, sp, level, at, index, next)
    BY <1>4, <1>10, <2>5, <2>6, Zenon DEF Room
  <2>8. Entry(next, FALSE) \in EntrySet
    BY <2>5, Entries, Zenon
  <2>9. Grown(ts, at, index, next, ts2)
    <3>1. PICK u : u = [ts EXCEPT ![at][index] = Entry(next, FALSE)]
      BY Zenon
    <3>2. /\ DOMAIN u = DOMAIN ts /\ u[at] = [ts[at] EXCEPT ![index] = Entry(next, FALSE)]
          /\ \A f \in DOMAIN ts : f # at => u[f] = ts[f]
      BY <3>1, Zenon
    <3>3. \A f \in DOMAIN ts : ts[f] \in [Index -> EntrySet]
      BY <1>6, Zenon DEF Shaped
    <3>4. ASSUME NEW f \in DOMAIN ts
          PROVE  /\ u[f] \in [Index -> EntrySet]
                 /\ \A i \in Index :
                      u[f][i] = IF f = at /\ i = index THEN Entry(next, FALSE) ELSE ts[f][i]
      <4>1. CASE f = at
        BY <2>8, <3>2, <3>3, <4>1, Zenon
      <4>2. CASE f # at
        BY <3>2, <3>3, <4>2, Zenon
      <4> QED
        BY <4>1, <4>2, Zenon
    <3>5. ts2 = WithTable(u, next, EmptyTable)
      BY <2>1, <3>1, Zenon
    <3>6. /\ DOMAIN ts2 = DOMAIN ts \cup {next} /\ ts2[next] = EmptyTable
          /\ \A f \in DOMAIN ts : ts2[f] = u[f]
      BY <2>6, <3>2, <3>5, Zenon DEF WithTable
    <3> QED
      BY <3>4, <3>6, Zenon DEF Grown
  <2>10. PICK l2, k2 : /\ Shaped(ts2, sp, l2, k2) /\ Extend(ts, level, key, l2, k2)
                       /\ l2[next] = level[at] - 1
    BY <1>6, <2>7, <2>9, GrownShape
  <2>11. \A n \in DOMAIN sp, va \in Nat : Walk(ts2, sp[n], va) = Walk(ts, sp[n], va)
    BY <1>6, <2>7, <2>9, GrownWalk
  <2>12. \A f \in DOMAIN ts, i \in Index : ts[f][i].present => ts2[f][i] = ts[f][i]
    BY <1>4, <1>10, <2>9, Zenon DEF Grown
  <2>13. DOMAIN ts2 = DOMAIN ts \cup {next} /\ ts2[at][index] = Entry(next, FALSE)
    BY <2>9, Zenon DEF Grown
  <2>14. Sound(ts2, c, sp, l2, k2)
    BY <1>6, <2>5, <2>10, <2>13, Zenon DEF Sound
  <2>15. b.cursor \div PAGE >= b.cursor \div PAGE
    BY <2>5
  <2>16. Carry(ts, b, sp, level, key, ts2, c, l2, k2, next)
    BY <2>5, <2>10, <2>11, <2>12, <2>13, <2>14, <2>15, Zenon DEF Carry
  <2>17. Follow(ts2, at, index) = next
    <3>1. ts2[at][index].present /\ ~ts2[at][index].huge /\ ts2[at][index].frame = next
      BY <2>5, <2>13, Entries, Zenon
    <3>2. at # 0
      BY <1>6, Zenon DEF Shaped
    <3> QED
      BY <3>1, <3>2, Zenon DEF Follow
  <2>18. Ensured(ts, at, index, level, m, l2)
    BY <1>a, <2>3, <2>4, <2>10, <2>13, <2>17, Zenon DEF Ensured
  <2> QED
    BY <2>4, <2>16, <2>18, Zenon
<1> QED
  BY <1>7, <1>8, <1>9, <1>10, Zenon

\* ensure_table after ensure_table.
LEMMA CarryOn ==
  ASSUME NEW ts, NEW b, NEW sp, NEW level, NEW key, BumpOK(b),
         NEW ts1, NEW b1, NEW l1, NEW k1, NEW x1,
         Carry(ts, b, sp, level, key, ts1, b1, l1, k1, x1), x1 \in DOMAIN ts1 => l1[x1] > 1,
         NEW ts2, NEW b2, NEW l2, NEW k2, NEW x,
         Carry(ts1, b1, sp, l1, k1, ts2, b2, l2, k2, x)
  PROVE  Carry(ts, b, sp, level, key, ts2, b2, l2, k2, x)
<1>1. /\ Sound(ts1, b1, sp, l1, k1)
      /\ DOMAIN ts \subseteq DOMAIN ts1 /\ Extend(ts, level, key, l1, k1)
      /\ b1.start = b.start /\ b1.end = b.end /\ b.cursor <= b1.cursor
      /\ \A f \in DOMAIN ts1 \ DOMAIN ts : f >= b.cursor \div PAGE /\ l1[f] > 1
      /\ \A n \in DOMAIN sp, va \in Nat : Walk(ts1, sp[n], va) = Walk(ts, sp[n], va)
      /\ \A f \in DOMAIN ts, i \in Index : ts[f][i].present => ts1[f][i] = ts[f][i]
  BY Zenon DEF Carry
<1>2. /\ Sound(ts2, b2, sp, l2, k2)
      /\ DOMAIN ts1 \subseteq DOMAIN ts2 /\ Extend(ts1, l1, k1, l2, k2)
      /\ b2.start = b1.start /\ b2.end = b1.end /\ b1.cursor <= b2.cursor
      /\ \A f \in DOMAIN ts2 \ DOMAIN ts1 : f >= b1.cursor \div PAGE /\ (f = x \/ l2[f] > 1)
      /\ \A n \in DOMAIN sp, va \in Nat : Walk(ts2, sp[n], va) = Walk(ts1, sp[n], va)
      /\ \A f \in DOMAIN ts1, i \in Index : ts1[f][i].present => ts2[f][i] = ts1[f][i]
  BY Zenon DEF Carry
<1>3. /\ b.cursor \in Nat /\ b1.cursor \in Nat /\ b2.cursor \in Nat
      /\ b.cursor \div PAGE \in Nat /\ b1.cursor \div PAGE \in Nat
      /\ b.cursor \div PAGE <= b1.cursor \div PAGE
  <2>1. b.cursor \in Nat /\ b1.cursor \in Nat /\ b2.cursor \in Nat
    BY <1>1, <1>2, Zenon DEF Sound, BumpOK
  <2> QED
    BY <1>1, <2>1, PagingAssumption
<1>4. b2.start = b.start /\ b2.end = b.end /\ b.cursor <= b2.cursor
  BY <1>1, <1>2, <1>3
<1>5. DOMAIN ts2 \subseteq Nat
  <2>1. BumpOK(b2) /\ DOMAIN ts2 \subseteq Frames(b2.start, b2.cursor)
    BY <1>2, Zenon DEF Sound
  <2>2. b2.start \div PAGE \in Nat /\ b2.cursor \div PAGE \in Nat
    BY <2>1, PagingAssumption, Division, Zenon DEF BumpOK
  <2> QED
    BY <2>1, <2>2 DEF Frames
<1>6. ASSUME NEW f \in DOMAIN ts2 \ DOMAIN ts
      PROVE  f >= b.cursor \div PAGE /\ (f = x \/ l2[f] > 1)
  <2>1. CASE f \in DOMAIN ts1
    BY <1>1, <1>2, <2>1, Zenon DEF Extend
  <2>2. CASE f \notin DOMAIN ts1
    <3>1. f >= b1.cursor \div PAGE /\ (f = x \/ l2[f] > 1) /\ f \in Nat
      BY <1>2, <1>5, <2>2, Zenon
    <3>2. f >= b.cursor \div PAGE
      BY <1>3, <3>1
    <3> QED
      BY <3>1, <3>2, Zenon
  <2> QED
    BY <2>1, <2>2, Zenon
<1>7. Extend(ts, level, key, l2, k2)
  BY <1>1, <1>2, Zenon DEF Extend
<1>8. \A n \in DOMAIN sp, va \in Nat : Walk(ts2, sp[n], va) = Walk(ts, sp[n], va)
  BY <1>1, <1>2, Zenon
<1>9. \A f \in DOMAIN ts, i \in Index : ts[f][i].present => ts2[f][i] = ts[f][i]
  BY <1>1, <1>2, Zenon
<1>10. DOMAIN ts \subseteq DOMAIN ts2
  BY <1>1, <1>2, Zenon
<1> QED
  BY <1>2, <1>4, <1>6, <1>7, <1>8, <1>9, <1>10, Zenon DEF Carry

\* A table that was found is still found.
LEMMA CarryFollow ==
  ASSUME NEW ts, NEW b, NEW sp, NEW level, NEW key, NEW ts2, NEW b2, NEW l2, NEW k2, NEW x,
         Carry(ts, b, sp, level, key, ts2, b2, l2, k2, x),
         NEW f \in DOMAIN ts, NEW i \in Index, NEW c, c # 0, Follow(ts, f, i) = c
  PROVE  Follow(ts2, f, i) = c
<1>1. ts[f][i].present
  BY Zenon DEF Follow
<1>2. ts2[f][i] = ts[f][i]
  BY <1>1, Zenon DEF Carry
<1> QED
  BY <1>2, Zenon DEF Follow

\* Where map_4k and map_2m may work: in the space n, which for the kernel's
\* means in the upper half.
Place(sp, n, va) ==
  /\ n \in DOMAIN sp /\ va \in Pages /\ Alone(sp, n, va)
  /\ n = 1 => 2 * pml4_index(va) >= Radix

\* ToPd that failed for want of memory, or that came to the table of level 2.
AtPd(s, va, m, l2) ==
  /\ m = [tables |-> m.tables, bump |-> m.bump, at |-> m.at, error |-> m.error]
  /\ \/ /\ m.error = "" /\ m.at = Pd(m.tables, s, va) /\ m.at \in DOMAIN m.tables
        /\ l2[m.at] = 2
     \/ m.error = "memory"

\* ensure_table passes an error on.
LEMMA EnsureError ==
  ASSUME NEW m, NEW index, m.error # ""
  PROVE  ensure_table(m, index) = m
BY Zenon DEF ensure_table

\* The first two tables of a map.
LEMMA WalkToPd ==
  ASSUME NEW ts, NEW b, NEW sp, NEW level, NEW key, Sound(ts, b, sp, level, key),
         NEW n, NEW va, Place(sp, n, va), NEW m, m = ToPd(Mapper(ts, b, sp[n]), va)
  PROVE  \E l2, k2 : /\ Carry(ts, b, sp, level, key, m.tables, m.bump, l2, k2, 0)
                     /\ AtPd(sp[n], va, m, l2)
<1>1. n \in DOMAIN sp /\ va \in Pages /\ va \in Nat /\ (n = 1 => 2 * pml4_index(va) >= Radix)
  BY TopDigit, Zenon DEF Place
<1>2. pml4_index(va) \in Index /\ pdpt_index(va) \in Index
  BY <1>1, Digits, Zenon
<1>3. Shaped(ts, sp, level, key) /\ BumpOK(b)
  BY Zenon DEF Sound
<1>4. sp[n] \in DOMAIN ts /\ level[sp[n]] = 4
      /\ \A k \in DOMAIN sp : key[sp[k]] = k /\ level[sp[k]] = 4
  BY <1>1, <1>3, Zenon DEF Shaped
<1>5. PICK m1 : m1 = ensure_table(Mapper(ts, b, sp[n]), pml4_index(va))
  BY Zenon
<1>6. m = ensure_table(m1, pdpt_index(va))
  BY <1>5, Zenon DEF ToPd
<1>7. PICK l1, k1 : /\ Carry(ts, b, sp, level, key, m1.tables, m1.bump, l1, k1, m1.at)
                    /\ Ensured(ts, sp[n], pml4_index(va), level, m1, l1)
  <2>1. 1 \in DOMAIN sp /\ sp[n] = sp[1] => 2 * pml4_index(va) >= Radix
    BY <1>1, <1>4, Zenon
  <2>2. level[sp[n]] > 1
    BY <1>4
  <2> QED
    BY <1>2, <1>4, <1>5, <2>1, <2>2, EnsureTable, Zenon
<1>8. /\ m1 = [tables |-> m1.tables, bump |-> m1.bump, at |-> m1.at, error |-> m1.error]
      /\ m1.error # "" => m1.error = "memory" /\ m1.tables = ts
      /\ m1.error = "" => /\ m1.at \in DOMAIN m1.tables /\ l1[m1.at] = level[sp[n]] - 1
                          /\ Follow(m1.tables, sp[n], pml4_index(va)) = m1.at
  <2>1. ~ts[sp[n]][pml4_index(va)].huge
    <3>1. level[sp[n]] # 2
      BY <1>4
    <3> QED
      BY <1>2, <1>3, <1>4, <3>1, Zenon DEF Shaped
  <2> QED
    BY <1>7, <2>1, Zenon DEF Ensured
<1>9. CASE m1.error # ""
  <2>1. m = m1 /\ m1.error = "memory" /\ m1.tables = ts
    BY <1>6, <1>8, <1>9, EnsureError, Zenon
  <2>2. AtPd(sp[n], va, m, l1)
    BY <1>8, <2>1, Zenon DEF AtPd
  <2>3. Carry(ts, b, sp, level, key, m.tables, m.bump, l1, k1, 0)
    BY <1>7, <2>1, Zenon DEF Carry
  <2> QED
    BY <2>2, <2>3, Zenon
<1>10. CASE m1.error = ""
  <2>1. PICK ts1, b1, a1 : ts1 = m1.tables /\ b1 = m1.bump /\ a1 = m1.at
    BY Zenon
  <2>2. m = ensure_table(Mapper(ts1, b1, a1), pdpt_index(va))
    BY <1>6, <1>8, <1>10, <2>1, Zenon DEF Mapper
  <2>3. /\ Carry(ts, b, sp, level, key, ts1, b1, l1, k1, a1) /\ a1 \in DOMAIN ts1
        /\ l1[a1] = level[sp[n]] - 1 /\ Follow(ts1, sp[n], pml4_index(va)) = a1
    BY <1>7, <1>8, <1>10, <2>1, Zenon
  <2>4. Sound(ts1, b1, sp, l1, k1) /\ Shaped(ts1, sp, l1, k1)
    BY <2>3, Zenon DEF Carry, Sound
  <2>5. l1[a1] = 3 /\ l1[a1] > 1 /\ a1 # 0
    <3>1. level[sp[n]] - 1 = 3
      BY <1>4
    <3>2. l1[a1] = 3
      BY <2>3, <3>1, Zenon
    <3> QED
      BY <2>3, <2>4, <3>2, Distinct, Zenon DEF Shaped
  <2>6. /\ 1 \in DOMAIN sp => a1 # sp[1]
        /\ sp[n] \in DOMAIN ts1
    <3>1. 1 \in DOMAIN sp => l1[sp[1]] = 4
      BY <2>4, Zenon DEF Shaped
    <3> QED
      BY <1>1, <2>4, <2>5, <3>1 DEF Shaped
  <2>7. PICK l2, k2 : /\ Carry(ts1, b1, sp, l1, k1, m.tables, m.bump, l2, k2, m.at)
                      /\ Ensured(ts1, a1, pdpt_index(va), l1, m, l2)
    BY <1>2, <2>2, <2>3, <2>4, <2>5, <2>6, EnsureTable, Zenon
  <2>8. /\ m = [tables |-> m.tables, bump |-> m.bump, at |-> m.at, error |-> m.error]
        /\ m.error # "" => m.error = "memory" /\ m.tables = ts1
        /\ m.error = "" => /\ m.at \in DOMAIN m.tables /\ l2[m.at] = l1[a1] - 1
                           /\ Follow(m.tables, a1, pdpt_index(va)) = m.at
    <3>1. l1[a1] # 2
      BY <2>5, Distinct, Zenon
    <3>2. ~ts1[a1][pdpt_index(va)].huge
      BY <1>2, <2>3, <2>4, <3>1, Zenon DEF Shaped
    <3> QED
      BY <2>7, <3>2, Zenon DEF Ensured
  <2>9. Follow(m.tables, sp[n], pml4_index(va)) = a1
    BY <1>2, <2>3, <2>5, <2>6, <2>7, CarryFollow
  <2>10. AtPd(sp[n], va, m, l2)
    <3>1. m.error = "" => m.at = Pd(m.tables, sp[n], va)
      BY <2>8, <2>9, Zenon DEF Pd, Pdpt
    <3>2. 3 - 1 = 2
      OBVIOUS
    <3>3. m.error = "" => l2[m.at] = 2
      BY <2>5, <2>8, <3>2, Zenon
    <3> QED
      BY <2>8, <3>1, <3>3, Zenon DEF AtPd
  <2>11. Carry(ts1, b1, sp, l1, k1, m.tables, m.bump, l2, k2, 0)
    <3>1. \A f \in DOMAIN m.tables \ DOMAIN ts1 : l2[f] > 1
      <4>1. 3 - 1 > 1
        OBVIOUS
      <4>2. m.error = "" => l2[m.at] > 1
        BY <2>5, <2>8, <4>1, Zenon
      <4> QED
        BY <2>7, <2>8, <4>2, Zenon DEF Carry
    <3> QED
      BY <2>7, <3>1, Zenon DEF Carry
  <2>12. Carry(ts, b, sp, level, key, m.tables, m.bump, l2, k2, 0)
    <3>1. a1 \in DOMAIN ts1 => l1[a1] > 1
      BY <2>5, Zenon
    <3>2. BumpOK(b) /\ Carry(ts, b, sp, level, key, ts1, b1, l1, k1, a1)
      BY <1>3, <2>3, Zenon
    <3> QED
      BY <2>11, <3>1, <3>2, CarryOn, Zenon
  <2> QED
    BY <2>10, <2>12, Zenon
<1> QED
  BY <1>9, <1>10, Zenon

\* Every table of the lowest level has an entry.
Filled(ts, level) ==
  \A f \in DOMAIN ts : level[f] = 1 => \E i \in Index : ts[f][i].present

\* What a map leaves of tables and allocator, whether it fails or not.
Kept(ts, b, sp, m, l2, k2) ==
  /\ Sound(m.tables, m.bump, sp, l2, k2) /\ DOMAIN ts \subseteq DOMAIN m.tables
  /\ m.bump.start = b.start /\ m.bump.end = b.end /\ b.cursor <= m.bump.cursor
  /\ \A f \in DOMAIN m.tables \ DOMAIN ts : f >= b.cursor \div PAGE

\* A map of size pages that failed, or that mapped them: it changes their
\* translations, which were none or the same, and no other.
Maps(ts, sp, n, va, frame, size, m, l2) ==
  \/ /\ m.error = "" /\ Filled(m.tables, l2)
     /\ \A j \in DOMAIN sp, vb \in Pages :
          Walk(m.tables, sp[j], vb) = IF j = n /\ vb \in va .. va + size - 1
                                      THEN frame + (vb - va) ELSE Walk(ts, sp[j], vb)
     /\ \A vb \in va .. va + size - 1 : Walk(ts, sp[n], vb) \in {-1, frame + (vb - va)}
  \/ /\ m.error \in {"memory", "collision", "conflict"}
     /\ \A j \in DOMAIN sp, vb \in Pages : Walk(m.tables, sp[j], vb) = Walk(ts, sp[j], vb)
     /\ m.error # "memory" => \E vb \in va .. va + size - 1 : Walk(ts, sp[n], vb) # -1

\* The table of level 2 is still found.
LEMMA CarryPd ==
  ASSUME NEW ts, NEW b, NEW sp, NEW level, NEW key, Shaped(ts, sp, level, key),
         NEW ts2, NEW b2, NEW l2, NEW k2, NEW x,
         Carry(ts, b, sp, level, key, ts2, b2, l2, k2, x),
         NEW n \in DOMAIN sp, NEW va \in Nat, NEW c, c # 0, Pd(ts, sp[n], va) = c
  PROVE  Pd(ts2, sp[n], va) = c
<1>1. PICK p3 : p3 = Pdpt(ts, sp[n], va)
  BY Zenon
<1>2. p3 # 0 /\ p3 \in DOMAIN ts
  BY <1>1, WalkKeys
<1>3. pml4_index(va) \in Index /\ pdpt_index(va) \in Index /\ sp[n] \in DOMAIN ts
  BY Digits, Zenon DEF Shaped
<1>4. Follow(ts2, sp[n], pml4_index(va)) = p3
  BY <1>1, <1>2, <1>3, CarryFollow DEF Pdpt
<1>5. Follow(ts2, p3, pdpt_index(va)) = c
  BY <1>1, <1>2, <1>3, CarryFollow DEF Pd
<1> QED
  BY <1>4, <1>5, Zenon DEF Pd, Pdpt

\* Filled, but for a table.
FilledBut(ts, level, x) ==
  \A f \in DOMAIN ts : f # x /\ level[f] = 1 => \E i \in Index : ts[f][i].present

\* Tables of the lowest level that were there keep their entries.
LEMMA CarryFilled ==
  ASSUME NEW ts, NEW b, NEW sp, NEW level, NEW key, Filled(ts, level),
         NEW ts2, NEW b2, NEW l2, NEW k2, NEW x,
         Carry(ts, b, sp, level, key, ts2, b2, l2, k2, x)
  PROVE  FilledBut(ts2, l2, x)
<1> SUFFICES ASSUME NEW f \in DOMAIN ts2, f # x, l2[f] = 1
             PROVE  \E i \in Index : ts2[f][i].present
  BY Zenon DEF FilledBut
<1>1. f \in DOMAIN ts
  <2>1. ~(l2[f] > 1)
    OBVIOUS
  <2> QED
    BY <2>1, Zenon DEF Carry
<1>2. PICK i \in Index : ts[f][i].present
  BY <1>1, Zenon DEF Filled, Carry, Extend
<1>3. ts2[f][i] = ts[f][i]
  BY <1>1, <1>2, Zenon DEF Carry
<1> QED
  BY <1>2, <1>3, Zenon

\* The four ways WriteEntry goes, by the entry c it finds.
Wrote(ts, b, at, index, e, c, m) ==
  /\ m.bump = b
  /\ \/ ~c.present /\ Written(ts, at, index, e, m.tables) /\ m.error = ""
     \/ c.present /\ c.huge # e.huge /\ m.tables = ts /\ m.error = "collision"
     \/ c.present /\ c.huge = e.huge /\ c.frame # e.frame /\ m.tables = ts /\ m.error = "conflict"
     \/ c.present /\ c.huge = e.huge /\ c.frame = e.frame /\ m.tables = ts /\ m.error = ""

\* It goes one of them.
LEMMA WriteCases ==
  ASSUME NEW ts, NEW b, NEW sp, NEW level, NEW key, Shaped(ts, sp, level, key),
         NEW at, NEW index, NEW e, Fitting(ts, level, at, index, e),
         NEW m, m = WriteEntry(Mapper(ts, b, at), index, e), NEW c, c = ts[at][index]
  PROVE  Wrote(ts, b, at, index, e, c, m)
<1>1. PICK s : s = [tables |-> ts, bump |-> b, at |-> at, error |-> ""]
  BY Zenon
<1>2. s = Mapper(ts, b, at) /\ s.tables = ts /\ s.bump = b /\ s.at = at /\ s.error = ""
  BY <1>1, Parts, Zenon DEF Mapper
<1>4. PICK ts2 : ts2 = [ts EXCEPT ![at][index] = e]
  BY Zenon
<1>5. m = IF ~c.present THEN [s EXCEPT !.tables = ts2]
          ELSE IF c.huge # e.huge THEN [s EXCEPT !.error = "collision"]
          ELSE IF c.frame # e.frame THEN [s EXCEPT !.error = "conflict"]
          ELSE s
  BY <1>1, <1>2, <1>4, Zenon DEF WriteEntry
<1>6. PICK none : none = "" /\ s = [tables |-> ts, bump |-> b, at |-> at, error |-> none]
  BY <1>1, Zenon
<1>7. CASE ~c.present
  <2>1. m = [s EXCEPT !.tables = ts2]
    BY <1>5, <1>7, Zenon
  <2>2. m = [tables |-> ts2, bump |-> b, at |-> at, error |-> none]
    BY <1>6, <2>1, Zenon
  <2>3. m.bump = b /\ m.tables = ts2 /\ m.error = none
    BY <2>2
  <2>4. Written(ts, at, index, e, ts2)
    <3>1. /\ DOMAIN ts2 = DOMAIN ts /\ ts2[at] = [ts[at] EXCEPT ![index] = e]
          /\ \A f \in DOMAIN ts : f # at => ts2[f] = ts[f]
      BY <1>4, Zenon DEF Fitting
    <3>2. \A f \in DOMAIN ts : ts[f] \in [Index -> EntrySet]
      BY Zenon DEF Shaped
    <3>3. at \in DOMAIN ts /\ index \in Index /\ e \in EntrySet
      BY Zenon DEF Fitting
    <3>4. ASSUME NEW f \in DOMAIN ts
          PROVE  /\ ts2[f] \in [Index -> EntrySet]
                 /\ \A i \in Index : ts2[f][i] = IF f = at /\ i = index THEN e ELSE ts[f][i]
      <4>1. CASE f = at
        <5>1. PICK row, new : row = ts[at] /\ new = ts2[at]
          BY Zenon
        <5>2. row \in [Index -> EntrySet] /\ new = [row EXCEPT ![index] = e]
          BY <3>1, <3>2, <3>3, <5>1, Zenon
        <5>3. new \in [Index -> EntrySet] /\ \A i \in Index : new[i] = IF i = index THEN e ELSE row[i]
          BY <3>3, <5>2, Zenon
        <5> QED
          BY <4>1, <5>1, <5>3, Zenon
      <4>2. CASE f # at
        BY <3>1, <3>2, <4>2, Zenon
      <4> QED
        BY <4>1, <4>2, Zenon
    <3> QED
      BY <3>1, <3>4, Zenon DEF Written
  <2> QED
    BY <1>6, <1>7, <2>3, <2>4, Zenon DEF Wrote
<1>8. CASE c.present /\ c.huge # e.huge
  <2>1. m = [s EXCEPT !.error = "collision"]
    BY <1>5, <1>8, Zenon
  <2>2. m.bump = b /\ m.tables = ts /\ m.error = "collision"
    BY <1>6, <2>1, Zenon
  <2> QED
    BY <1>8, <2>2, Zenon DEF Wrote
<1>9. CASE c.present /\ c.huge = e.huge /\ c.frame # e.frame
  <2>1. m = [s EXCEPT !.error = "conflict"]
    BY <1>5, <1>9, Zenon
  <2>2. m.bump = b /\ m.tables = ts /\ m.error = "conflict"
    BY <1>6, <2>1, Zenon
  <2> QED
    BY <1>9, <2>2, Zenon DEF Wrote
<1>10. CASE c.present /\ c.huge = e.huge /\ c.frame = e.frame
  <2>1. m = s
    BY <1>5, <1>10, Zenon
  <2> QED
    BY <1>2, <1>10, <2>1, Zenon DEF Wrote
<1> QED
  BY <1>7, <1>8, <1>9, <1>10, Zenon

\* WriteEntry passes an error on.
LEMMA WriteError ==
  ASSUME NEW m, NEW index, NEW e, m.error # ""
  PROVE  WriteEntry(m, index, e) = m
BY Zenon DEF WriteEntry

\* An entry of a table.
LEMMA TableEntry ==
  ASSUME NEW ts, NEW sp, NEW level, NEW key, Shaped(ts, sp, level, key),
         NEW f \in DOMAIN ts, NEW i \in Index
  PROVE  /\ ts[f][i] \in EntrySet /\ ts[f][i].frame \in Nat /\ ts[f][i].huge \in BOOLEAN
         /\ ts[f][i].huge => level[f] = 2 /\ ts[f][i].present
<1>1. ts[f] \in [Index -> EntrySet]
  BY Zenon DEF Shaped
<1>2. ts[f][i] \in EntrySet
  BY <1>1, Zenon
<1>3. ts[f][i].huge => level[f] = 2 /\ ts[f][i].present
  BY Zenon DEF Shaped
<1> QED
  BY <1>2, <1>3, Zenon DEF EntrySet

\* Tables in which the entry of a page was written are kept.
LEMMA WrittenKept ==
  ASSUME NEW ts, NEW b, NEW sp, NEW level, NEW key, NEW l2, NEW k2, NEW x, NEW ts1, NEW b1,
         Carry(ts, b, sp, level, key, ts1, b1, l2, k2, x),
         NEW at, NEW index, NEW e, Fitting(ts1, l2, at, index, e),
         NEW m, m.bump = b1, Written(ts1, at, index, e, m.tables)
  PROVE  Kept(ts, b, sp, m, l2, k2)
<1>1. Sound(ts1, b1, sp, l2, k2) /\ Shaped(ts1, sp, l2, k2) /\ DOMAIN m.tables = DOMAIN ts1
  BY Zenon DEF Carry, Sound, Written
<1>2. Shaped(m.tables, sp, l2, k2)
  BY <1>1, WrittenShape, Zenon
<1>3. Sound(m.tables, m.bump, sp, l2, k2)
  BY <1>1, <1>2, Zenon DEF Sound
<1> QED
  BY <1>1, <1>3, Zenon DEF Carry, Kept

\* The end of map_4k.
LEMMA WriteSmall ==
  ASSUME NEW ts, NEW b, NEW sp, NEW level, NEW key, Filled(ts, level),
         NEW n, NEW va, Place(sp, n, va), NEW frame \in Nat,
         NEW ts2, NEW b2, NEW l2, NEW k2, NEW at,
         Carry(ts, b, sp, level, key, ts2, b2, l2, k2, at),
         at \in DOMAIN ts2, l2[at] = 1, at = Pt(ts2, sp[n], va),
         NEW m, m = WriteEntry(Mapper(ts2, b2, at), pt_index(va), Entry(frame, FALSE))
  PROVE  \E l3, k3 : Kept(ts, b, sp, m, l3, k3) /\ Maps(ts, sp, n, va, frame, 1, m, l3)
<1>1. n \in DOMAIN sp /\ va \in Pages /\ va \in Nat /\ Alone(sp, n, va)
  BY TopDigit, Zenon DEF Place
<1>2. pt_index(va) \in Index
  BY <1>1, Digits, Zenon
<1>3. \A vb : vb \in va .. va + 1 - 1 <=> vb = va
  BY <1>1
<1>4. frame + (va - va) = frame
  BY <1>1
<1>5. PICK e : e = Entry(frame, FALSE)
  BY Zenon
<1>6. e \in EntrySet /\ e.present /\ ~e.huge /\ e.frame = frame
  BY <1>5, Entries, Zenon
<1>7. PICK c : c = ts2[at][pt_index(va)]
  BY Zenon
<1>8. Shaped(ts2, sp, l2, k2) /\ at # 0
  BY Zenon DEF Carry, Sound, Shaped
<1>9. c.frame \in Nat /\ ~c.huge /\ c.huge \in BOOLEAN
  <2>1. c.frame \in Nat /\ c.huge \in BOOLEAN /\ (c.huge => l2[at] = 2)
    BY <1>2, <1>7, <1>8, TableEntry
  <2>2. l2[at] # 2
    BY Distinct, Zenon
  <2> QED
    BY <2>1, <2>2, Zenon
<1>10. Fitting(ts2, l2, at, pt_index(va), e)
  BY <1>2, <1>6, Zenon DEF Fitting
<1>11. \A j \in DOMAIN sp, vb \in Pages : Walk(ts2, sp[j], vb) = Walk(ts, sp[j], vb)
  <2>1. \A vb \in Pages : vb \in Nat
    BY DEF Pages
  <2> QED
    BY <2>1, Zenon DEF Carry
<1>12. Walk(ts, sp[n], va) = IF c.present THEN c.frame ELSE -1
  BY <1>1, <1>7, <1>8, <1>11, WalkSmall, Zenon
<1>13. /\ m.bump = b2
       /\ \/ ~c.present /\ Written(ts2, at, pt_index(va), e, m.tables) /\ m.error = ""
          \/ c.present /\ c.huge # e.huge /\ m.tables = ts2 /\ m.error = "collision"
          \/ c.present /\ c.frame # e.frame /\ m.tables = ts2 /\ m.error = "conflict"
          \/ c.present /\ c.frame = e.frame /\ m.tables = ts2 /\ m.error = ""
  <2>1. m = WriteEntry(Mapper(ts2, b2, at), pt_index(va), e)
    BY <1>5, Zenon
  <2>2. Wrote(ts2, b2, at, pt_index(va), e, c, m)
    BY <1>7, <1>8, <1>10, <2>1, WriteCases, Zenon
  <2> QED
    BY <2>2, Zenon DEF Wrote
<1>14. c.huge = e.huge
  <2>1. e.huge \in BOOLEAN
    BY <1>6, Zenon DEF EntrySet
  <2> QED
    BY <1>6, <1>9, <2>1, Zenon
<1>15. \A f \in DOMAIN ts2 : f # at /\ l2[f] = 1 => \E i \in Index : ts2[f][i].present
  <2>1. FilledBut(ts2, l2, at)
    BY CarryFilled, Zenon
  <2> QED
    BY <2>1, Zenon DEF FilledBut
<1>16. ASSUME m.tables = ts2 PROVE Kept(ts, b, sp, m, l2, k2)
  BY <1>13, <1>16, Zenon DEF Carry, Kept
<1>17. CASE ~c.present /\ Written(ts2, at, pt_index(va), e, m.tables) /\ m.error = ""
  <2>a. PICK ts3 : ts3 = m.tables
    BY Zenon
  <2>b. Written(ts2, at, pt_index(va), e, ts3) /\ m.bump = b2
    BY <1>13, <1>17, <2>a, Zenon
  <2>1. Kept(ts, b, sp, m, l2, k2)
    BY <1>10, <2>a, <2>b, WrittenKept, Zenon
  <2>2. \A j \in DOMAIN sp, vb \in Pages :
           Walk(ts3, sp[j], vb) = IF j = n /\ vb = va THEN e.frame ELSE Walk(ts2, sp[j], vb)
    BY <1>1, <1>6, <1>8, <2>b, WrittenSmall
  <2>3. Filled(ts3, l2)
    <3>1. /\ DOMAIN ts3 = DOMAIN ts2 /\ ts3[at][pt_index(va)] = e
          /\ \A f \in DOMAIN ts2, i \in Index : f # at => ts3[f][i] = ts2[f][i]
      BY <1>2, <2>b, Zenon DEF Written
    <3> QED
      <4> SUFFICES ASSUME NEW f \in DOMAIN ts2, l2[f] = 1 PROVE \E i \in Index : ts3[f][i].present
        BY <3>1, Zenon DEF Filled
      <4>1. CASE f = at
        BY <1>2, <1>6, <3>1, <4>1, Zenon
      <4>2. CASE f # at
        BY <1>15, <3>1, <4>2, Zenon
      <4> QED
        BY <4>1, <4>2, Zenon
  <2>4. \A j \in DOMAIN sp, vb \in Pages :
           Walk(ts3, sp[j], vb) = IF j = n /\ vb \in va .. va + 1 - 1 THEN frame + (vb - va)
                                  ELSE Walk(ts, sp[j], vb)
    <3> TAKE j \in DOMAIN sp, vb \in Pages
    <3>1. CASE j = n /\ vb = va
      BY <1>3, <1>4, <1>6, <2>2, <3>1, Zenon
    <3>2. CASE ~(j = n /\ vb = va)
      BY <1>3, <1>11, <2>2, <3>2, Zenon
    <3> QED
      BY <3>1, <3>2, Zenon
  <2>5. \A vb \in va .. va + 1 - 1 : Walk(ts, sp[n], vb) \in {-1, frame + (vb - va)}
    BY <1>3, <1>12, <1>17, Zenon
  <2>6. Maps(ts, sp, n, va, frame, 1, m, l2)
    BY <1>17, <2>a, <2>3, <2>4, <2>5, Zenon DEF Maps
  <2> QED
    BY <2>1, <2>6, Zenon
<1>18. CASE c.present /\ c.frame # e.frame /\ m.tables = ts2 /\ m.error = "conflict"
  <2>1. Walk(ts, sp[n], va) # -1
    <3>1. c.frame # -1
      BY <1>9, Distinct, Zenon
    <3> QED
      BY <1>12, <1>18, <3>1, Zenon
  <2>2. Maps(ts, sp, n, va, frame, 1, m, l2)
    BY <1>3, <1>11, <1>18, <2>1, Zenon DEF Maps
  <2> QED
    BY <1>16, <1>18, <2>2, Zenon
<1>19. CASE c.present /\ c.frame = e.frame /\ m.tables = ts2 /\ m.error = ""
  <2>1. Filled(m.tables, l2)
    BY <1>2, <1>7, <1>15, <1>19, Zenon DEF Filled
  <2>2. Walk(ts, sp[n], va) = frame
    BY <1>6, <1>12, <1>19, Zenon
  <2>3. \A j \in DOMAIN sp, vb \in Pages :
           Walk(ts2, sp[j], vb) = IF j = n /\ vb \in va .. va + 1 - 1 THEN frame + (vb - va)
                                  ELSE Walk(ts, sp[j], vb)
    <3> TAKE j \in DOMAIN sp, vb \in Pages
    <3>1. CASE j = n /\ vb = va
      BY <1>3, <1>4, <1>11, <2>2, <3>1, Zenon
    <3>2. CASE ~(j = n /\ vb = va)
      BY <1>3, <1>11, <3>2, Zenon
    <3> QED
      BY <3>1, <3>2, Zenon
  <2>4. \A vb \in va .. va + 1 - 1 : Walk(ts, sp[n], vb) \in {-1, frame + (vb - va)}
    <3> TAKE vb \in va .. va + 1 - 1
    <3>1. vb = va
      BY <1>3, Zenon
    <3>2. Walk(ts, sp[n], va) \in {-1, frame + (va - va)}
      BY <1>4, <2>2, Zenon
    <3> QED
      BY <3>1, <3>2, Zenon
  <2>5. Maps(ts, sp, n, va, frame, 1, m, l2)
    BY <1>19, <2>1, <2>3, <2>4, Zenon DEF Maps
  <2> QED
    BY <1>16, <1>19, <2>5, Zenon
<1> QED
  BY <1>13, <1>14, <1>17, <1>18, <1>19, Zenon

\* map_4k maps a page, or fails.
LEMMA MapSmall ==
  ASSUME NEW ts, NEW b, NEW sp, NEW level, NEW key, Sound(ts, b, sp, level, key),
         Filled(ts, level), NEW n, NEW va, Place(sp, n, va), NEW frame \in Nat,
         NEW m, m = map_4k(Mapper(ts, b, sp[n]), va, frame)
  PROVE  \E l2, k2 : Kept(ts, b, sp, m, l2, k2) /\ Maps(ts, sp, n, va, frame, 1, m, l2)
<1>1. n \in DOMAIN sp /\ va \in Pages /\ va \in Nat /\ Alone(sp, n, va)
  BY TopDigit, Zenon DEF Place
<1>2. pd_index(va) \in Index /\ pt_index(va) \in Index
  BY <1>1, Digits, Zenon
<1>3. \A vb : vb \in va .. va + 1 - 1 <=> vb = va
  BY <1>1
<1>4. frame + (va - va) = frame
  BY <1>1
<1>5. PICK e : e = Entry(frame, FALSE)
  BY Zenon
<1>6. e \in EntrySet /\ e.present /\ ~e.huge /\ e.frame = frame
  BY <1>5, Entries, Zenon
<1>7. PICK p : p = ToPd(Mapper(ts, b, sp[n]), va)
  BY Zenon
<1>8. PICK q : q = ensure_table(p, pd_index(va))
  BY Zenon
<1>9. m = WriteEntry(q, pt_index(va), e)
  BY <1>5, <1>7, <1>8, Zenon DEF map_4k
<1>10. PICK l1, k1 : /\ Carry(ts, b, sp, level, key, p.tables, p.bump, l1, k1, 0)
                     /\ AtPd(sp[n], va, p, l1)
  BY <1>7, WalkToPd, Zenon
<1>a. \A vb \in Pages : vb \in Nat
  BY DEF Pages
<1>11. CASE p.error # ""
  <2>1. m = p /\ p.error = "memory"
    BY <1>8, <1>9, <1>10, <1>11, EnsureError, WriteError, Zenon DEF AtPd
  <2>2. /\ Kept(ts, b, sp, m, l1, k1)
        /\ \A j \in DOMAIN sp, vb \in Pages : Walk(m.tables, sp[j], vb) = Walk(ts, sp[j], vb)
    BY <1>10, <1>a, <2>1, Zenon DEF Carry, Kept
  <2>3. Maps(ts, sp, n, va, frame, 1, m, l1)
    BY <2>1, <2>2, Zenon DEF Maps
  <2> QED
    BY <2>2, <2>3, Zenon
<1>12. CASE p.error = ""
  <2>1. PICK ts1, b1, a1 : ts1 = p.tables /\ b1 = p.bump /\ a1 = p.at
    BY Zenon
  <2>2. /\ p = Mapper(ts1, b1, a1) /\ a1 = Pd(ts1, sp[n], va) /\ a1 \in DOMAIN ts1 /\ l1[a1] = 2
        /\ Carry(ts, b, sp, level, key, ts1, b1, l1, k1, 0)
    BY <1>10, <1>12, <2>1, Zenon DEF AtPd, Mapper
  <2>3. Sound(ts1, b1, sp, l1, k1) /\ Shaped(ts1, sp, l1, k1) /\ a1 # 0
    BY <2>2, Zenon DEF Carry, Sound, Shaped
  <2>4. l1[a1] > 1 /\ l1[a1] - 1 = 1 /\ (1 \in DOMAIN sp => a1 # sp[1])
    <3>1. 1 \in DOMAIN sp => l1[sp[1]] = 4
      BY <2>3, Zenon DEF Shaped
    <3> QED
      BY <2>2, <3>1
  <2>5. q = ensure_table(Mapper(ts1, b1, a1), pd_index(va))
    BY <1>8, <2>2, Zenon
  <2>6. PICK l2, k2 : /\ Carry(ts1, b1, sp, l1, k1, q.tables, q.bump, l2, k2, q.at)
                      /\ Ensured(ts1, a1, pd_index(va), l1, q, l2)
    BY <1>2, <2>2, <2>3, <2>4, <2>5, EnsureTable, Zenon
  <2>7. Carry(ts, b, sp, level, key, q.tables, q.bump, l2, k2, q.at)
    <3>1. BumpOK(b) /\ 0 \notin DOMAIN ts1
      BY <2>3, Zenon DEF Sound, Shaped
    <3> QED
      BY <2>2, <2>6, <3>1, CarryOn, Zenon
  <2>8. /\ Kept(ts, b, sp, q, l2, k2)
        /\ \A j \in DOMAIN sp, vb \in Pages : Walk(q.tables, sp[j], vb) = Walk(ts, sp[j], vb)
    BY <1>a, <2>7, Zenon DEF Carry, Kept
  <2>9. CASE q.error # ""
    <3>1. m = q
      BY <1>9, <2>9, WriteError, Zenon
    <3>2. \/ q.error = "memory"
          \/ q.error = "collision" /\ ts1[a1][pd_index(va)].huge
      BY <2>6, <2>9, Zenon DEF Ensured
    <3>3. ASSUME ts1[a1][pd_index(va)].huge PROVE Walk(ts, sp[n], va) # -1
      <4>1. PICK g : g = ts1[a1][pd_index(va)].frame
        BY Zenon
      <4>2. g \in Nat
        BY <1>2, <2>2, <2>3, <4>1, TableEntry, Zenon
      <4>3. Walk(ts1, sp[n], va) = (g \div HUGE) * HUGE + (va % HUGE)
        BY <2>2, <2>3, <3>3, <4>1, WalkLarge, Zenon
      <4>4. Walk(ts1, sp[n], va) \in Nat
        BY <1>1, <4>2, <4>3, PagingAssumption DEF HUGE
      <4>5. Walk(ts1, sp[n], va) = Walk(ts, sp[n], va)
        BY <1>1, <2>2, Zenon DEF Carry
      <4> QED
        BY <4>4, <4>5
    <3>4. Maps(ts, sp, n, va, frame, 1, m, l2)
      BY <1>3, <2>8, <3>1, <3>2, <3>3, Zenon DEF Maps
    <3> QED
      BY <2>8, <3>1, <3>4, Zenon
  <2>10. CASE q.error = ""
    <3>1. PICK ts2, b2, a2 : ts2 = q.tables /\ b2 = q.bump /\ a2 = q.at
      BY Zenon
    <3>2. /\ q = Mapper(ts2, b2, a2) /\ a2 \in DOMAIN ts2 /\ l2[a2] = 1
          /\ Follow(ts2, a1, pd_index(va)) = a2
      BY <2>4, <2>6, <2>10, <3>1, Zenon DEF Ensured, Mapper
    <3>3. Carry(ts, b, sp, level, key, ts2, b2, l2, k2, a2)
      BY <2>7, <3>1, Zenon
    <3>4. Carry(ts1, b1, sp, l1, k1, ts2, b2, l2, k2, a2)
      BY <2>6, <3>1, Zenon
    <3>5. Pd(ts2, sp[n], va) = a1
      BY <1>1, <2>2, <2>3, <3>4, CarryPd
    <3>6. Pt(ts2, sp[n], va) = a2
      BY <3>2, <3>5, Zenon DEF Pt
    <3>7. m = WriteEntry(Mapper(ts2, b2, a2), pt_index(va), e)
      BY <1>9, <3>2, Zenon
    <3> QED
      BY <1>5, <3>2, <3>3, <3>6, <3>7, WriteSmall, Zenon
  <2> QED
    BY <2>9, <2>10, Zenon
<1> QED
  BY <1>11, <1>12, Zenon

\* The pages of a large page and their frames, counted from its start.
LEMMA LargeOffset ==
  ASSUME NEW va \in Nat, va % Radix = 0, NEW vb \in Nat, NEW frame \in Nat
  PROVE  /\ vb \in va .. va + HUGE - 1 <=> vb \div Radix = va \div Radix
         /\ frame % HUGE = 0 /\ vb \in va .. va + HUGE - 1 =>
              (frame \div HUGE) * HUGE + (vb % HUGE) = frame + (vb - va)
<1>1. Radix \in Nat \ {0} /\ HUGE = Radix
  BY PagingAssumption, Zenon DEF HUGE
<1>2. PICK q, p, r \in Nat : va = Radix * q /\ vb = (Radix * p) + r /\ r < Radix
                             /\ va \div Radix = q /\ vb \div Radix = p /\ vb % Radix = r
  <2>1. /\ va \div Radix \in Nat /\ va = (Radix * (va \div Radix)) + (va % Radix)
        /\ vb \div Radix \in Nat /\ vb = (Radix * (vb \div Radix)) + (vb % Radix)
        /\ vb % Radix \in 0 .. Radix - 1
    BY <1>1, Division, Zenon
  <2>2. va = Radix * (va \div Radix)
    BY <1>1, <2>1
  <2>3. vb % Radix \in Nat /\ vb % Radix < Radix
    BY <1>1, <2>1
  <2> QED
    BY <2>1, <2>2, <2>3, Zenon
<1>3. vb \in va .. va + Radix - 1 <=> p = q
  BY <1>1, <1>2
<1>4. ASSUME frame % Radix = 0, p = q
      PROVE  (frame \div Radix) * Radix + (vb % Radix) = frame + (vb - va)
  <2>1. frame \div Radix \in Nat /\ frame = (Radix * (frame \div Radix)) + (frame % Radix)
    BY <1>1, Division, Zenon
  <2>2. PICK g \in Nat : g = frame \div Radix /\ frame = Radix * g
    BY <1>1, <1>4, <2>1
  <2>3. g * Radix + r = frame + (vb - va)
    BY <1>1, <1>2, <1>4, <2>2
  <2> QED
    BY <1>2, <2>2, <2>3, Zenon
<1> QED
  BY <1>1, <1>2, <1>3, <1>4, Zenon

\* map_2m maps the pages of a large page, or fails.
LEMMA MapLarge ==
  ASSUME NEW ts, NEW b, NEW sp, NEW level, NEW key, Sound(ts, b, sp, level, key),
         Filled(ts, level), NEW n, NEW va, Place(sp, n, va), NEW frame \in Nat,
         va % HUGE = 0, frame % HUGE = 0,
         NEW m, m = map_2m(Mapper(ts, b, sp[n]), va, frame)
  PROVE  \E l2, k2 : Kept(ts, b, sp, m, l2, k2) /\ Maps(ts, sp, n, va, frame, HUGE, m, l2)
<1>1. n \in DOMAIN sp /\ va \in Pages /\ va \in Nat /\ Alone(sp, n, va) /\ va % Radix = 0
  BY TopDigit, Zenon DEF Place, HUGE
<1>2. pd_index(va) \in Index
  BY <1>1, Digits, Zenon
<1>3. PICK e : e = Entry(frame, TRUE)
  BY Zenon
<1>4. e \in EntrySet /\ e.present /\ e.huge /\ e.frame = frame
  BY <1>3, Entries, Zenon
<1>5. PICK p : p = ToPd(Mapper(ts, b, sp[n]), va)
  BY Zenon
<1>6. m = WriteEntry(p, pd_index(va), e)
  BY <1>3, <1>5, Zenon DEF map_2m
<1>7. PICK l1, k1 : /\ Carry(ts, b, sp, level, key, p.tables, p.bump, l1, k1, 0)
                    /\ AtPd(sp[n], va, p, l1)
  BY <1>5, WalkToPd, Zenon
<1>8. \A vb \in Pages : vb \in Nat
  BY DEF Pages
<1>9. \A vb \in va .. va + HUGE - 1 : vb \in Pages
  <2>1. va + Radix <= Top /\ Top \in Nat /\ Radix \in Nat
    BY <1>1, LargePage, PagingAssumption DEF Top
  <2> QED
    BY <1>1, <2>1 DEF HUGE, Pages
<1>10. CASE p.error # ""
  <2>1. m = p /\ p.error = "memory"
    BY <1>6, <1>7, <1>10, WriteError, Zenon DEF AtPd
  <2>2. /\ Kept(ts, b, sp, m, l1, k1)
        /\ \A j \in DOMAIN sp, vb \in Pages : Walk(m.tables, sp[j], vb) = Walk(ts, sp[j], vb)
    BY <1>7, <1>8, <2>1, Zenon DEF Carry, Kept
  <2>3. Maps(ts, sp, n, va, frame, HUGE, m, l1)
    BY <2>1, <2>2, Zenon DEF Maps
  <2> QED
    BY <2>2, <2>3, Zenon
<1>11. CASE p.error = ""
  <2>1. PICK ts2, b2, at : ts2 = p.tables /\ b2 = p.bump /\ at = p.at
    BY Zenon
  <2>2. /\ p = Mapper(ts2, b2, at) /\ at = Pd(ts2, sp[n], va) /\ at \in DOMAIN ts2 /\ l1[at] = 2
        /\ Carry(ts, b, sp, level, key, ts2, b2, l1, k1, 0)
    BY <1>7, <1>11, <2>1, Zenon DEF AtPd, Mapper
  <2>3. Shaped(ts2, sp, l1, k1) /\ at # 0 /\ 0 \notin DOMAIN ts2
    BY <2>2, Zenon DEF Carry, Sound, Shaped
  <2>4. PICK c : c = ts2[at][pd_index(va)]
    BY Zenon
  <2>5. Fitting(ts2, l1, at, pd_index(va), e)
    BY <1>2, <1>4, <2>2, Zenon DEF Fitting
  <2>6. \A j \in DOMAIN sp, vb \in Pages : Walk(ts2, sp[j], vb) = Walk(ts, sp[j], vb)
    BY <1>8, <2>2, Zenon DEF Carry
  <2>7. Wrote(ts2, b2, at, pd_index(va), e, c, m)
    <3>1. m = WriteEntry(Mapper(ts2, b2, at), pd_index(va), e)
      BY <1>6, <2>2, Zenon
    <3> QED
      BY <2>3, <2>4, <2>5, <3>1, WriteCases, Zenon
  <2>8. Filled(ts2, l1)
    <3>1. \A f \in DOMAIN ts2 : f # 0 /\ l1[f] = 1 => \E i \in Index : ts2[f][i].present
      <4>1. FilledBut(ts2, l1, 0)
        BY <2>2, CarryFilled, Zenon
      <4> QED
        BY <4>1, Zenon DEF FilledBut
    <3> QED
      BY <2>3, <3>1, Zenon DEF Filled
  <2>9. c.frame \in Nat /\ c.huge \in BOOLEAN /\ (c.huge => c.present)
    BY <1>2, <2>2, <2>3, <2>4, TableEntry, Zenon
  <2>10. ASSUME m.tables = ts2 PROVE Kept(ts, b, sp, m, l1, k1)
    BY <2>2, <2>7, <2>10, Zenon DEF Carry, Kept, Wrote
  <2>11. \A vb \in va .. va + HUGE - 1 :
           /\ Pd(ts2, sp[n], vb) = at /\ pd_index(vb) = pd_index(va)
           /\ Walk(ts, sp[n], vb) = Walk(ts2, sp[n], vb)
    <3> TAKE vb \in va .. va + HUGE - 1
    <3>1. vb \in Pages /\ vb \in Nat
      BY <1>8, <1>9, Zenon
    <3>2. vb \div Radix = va \div Radix
      BY <1>1, <3>1, LargeOffset, Zenon
    <3>3. /\ pml4_index(vb) = pml4_index(va) /\ pdpt_index(vb) = pdpt_index(va)
          /\ pd_index(vb) = pd_index(va)
      BY <1>1, <3>1, <3>2, SameLarge, Zenon
    <3> QED
      BY <1>1, <2>2, <2>6, <3>1, <3>3, Zenon DEF Pd, Pdpt
  <2>12. CASE ~c.present
    <3>1. PICK ts3 : ts3 = m.tables
      BY Zenon
    <3>2. Written(ts2, at, pd_index(va), e, ts3) /\ m.bump = b2 /\ m.error = ""
      BY <2>7, <2>12, <3>1, Zenon DEF Wrote
    <3>3. Written(ts2, at, pd_index(va), e, ts3) /\ m.bump = b2
      BY <3>2, Zenon
    <3>4. Kept(ts, b, sp, m, l1, k1)
      BY <2>2, <2>5, <3>1, <3>3, WrittenKept, Zenon
    <3>5. \A j \in DOMAIN sp, vb \in Pages :
            Walk(ts3, sp[j], vb) = IF j = n /\ vb \div Radix = va \div Radix
                                   THEN (e.frame \div HUGE) * HUGE + (vb % HUGE)
                                   ELSE Walk(ts2, sp[j], vb)
      BY <1>1, <1>4, <2>2, <2>3, <2>4, <2>12, <3>3, WrittenLarge
    <3>6. \A j \in DOMAIN sp, vb \in Pages :
            Walk(ts3, sp[j], vb) = IF j = n /\ vb \in va .. va + HUGE - 1
                                   THEN frame + (vb - va) ELSE Walk(ts, sp[j], vb)
      <4> TAKE j \in DOMAIN sp, vb \in Pages
      <4>1. /\ vb \in va .. va + HUGE - 1 <=> vb \div Radix = va \div Radix
            /\ vb \in va .. va + HUGE - 1 =>
                 (frame \div HUGE) * HUGE + (vb % HUGE) = frame + (vb - va)
        BY <1>1, <1>8, LargeOffset, Zenon
      <4> QED
        BY <1>4, <2>6, <3>5, <4>1, Zenon
    <3>7. \A vb \in va .. va + HUGE - 1 : Walk(ts, sp[n], vb) = -1
      <4> TAKE vb \in va .. va + HUGE - 1
      <4>1. Pd(ts2, sp[n], vb) = at /\ pd_index(vb) = pd_index(va)
            /\ Walk(ts, sp[n], vb) = Walk(ts2, sp[n], vb)
        BY <2>11, Zenon
      <4>2. ~ts2[at][pd_index(vb)].huge /\ ~ts2[at][pd_index(vb)].present
        BY <2>4, <2>9, <2>12, <4>1, Zenon
      <4>3. Walk(ts2, sp[n], vb) = -1
        BY <2>3, <4>1, <4>2, WalkLarge, Zenon
      <4> QED
        BY <4>1, <4>3, Zenon
    <3>8. Filled(ts3, l1)
      <4>1. /\ DOMAIN ts3 = DOMAIN ts2
            /\ \A f \in DOMAIN ts2, i \in Index : f # at => ts3[f][i] = ts2[f][i]
        BY <3>3, Zenon DEF Written
      <4>2. l1[at] # 1
        <5>1. l1[at] = 2
          BY <2>2, Zenon
        <5> QED
          BY <5>1, Distinct, Zenon
      <4> QED
        BY <2>8, <4>1, <4>2, Zenon DEF Filled
    <3>9. Maps(ts, sp, n, va, frame, HUGE, m, l1)
      BY <3>1, <3>2, <3>6, <3>7, <3>8, Zenon DEF Maps
    <3> QED
      BY <3>4, <3>9, Zenon
  <2>13. CASE c.present /\ ~c.huge
    <3>1. m.tables = ts2 /\ m.error = "collision"
      BY <1>4, <2>7, <2>13, Zenon DEF Wrote
    <3>2. PICK a1 : a1 = Pt(ts2, sp[n], va)
      BY Zenon
    <3>3. a1 = c.frame
      BY <2>2, <2>3, <2>4, <2>13, <3>2, Zenon DEF Pt, Follow
    <3>4. Hangs(ts2, l1, k1, at, pd_index(va))
      BY <1>2, <2>2, <2>3, Zenon DEF Shaped
    <3>5. a1 \in DOMAIN ts2 /\ l1[a1] = 1
      <4>1. l1[at] > 1 /\ l1[at] - 1 = 1
        BY <2>2
      <4> QED
        BY <2>4, <2>13, <3>3, <3>4, <4>1, Zenon DEF Hangs
    <3>6. PICK i \in Index : ts2[a1][i].present
      BY <2>8, <3>5, Zenon DEF Filled
    <3>7. va + i \in Pages /\ pt_index(va + i) = i /\ va + i \in va .. va + HUGE - 1
      <4>1. va + i \in Pages /\ pt_index(va + i) = i
        BY <1>1, LargePage, Zenon
      <4> QED
        BY <1>1, <4>1, PagingAssumption DEF HUGE, Index
    <3>8. Pd(ts2, sp[n], va + i) = at /\ pd_index(va + i) = pd_index(va)
          /\ Walk(ts, sp[n], va + i) = Walk(ts2, sp[n], va + i)
      BY <2>11, <3>7, Zenon
    <3>9. Pt(ts2, sp[n], va + i) = a1 /\ a1 # 0
      BY <2>2, <2>3, <3>2, <3>5, <3>8, Zenon DEF Pt
    <3>10. Walk(ts2, sp[n], va + i) = ts2[a1][i].frame
      <4>1. Walk(ts2, sp[n], va + i) = IF ts2[a1][pt_index(va + i)].present
                                       THEN ts2[a1][pt_index(va + i)].frame ELSE -1
        BY <3>9, WalkSmall, Zenon
      <4> QED
        BY <3>6, <3>7, <4>1, Zenon
    <3>11. ts2[a1][i].frame # -1
      <4>1. ts2[a1][i].frame \in Nat
        BY <2>3, <3>5, <3>6, TableEntry, Zenon
      <4> QED
        BY <4>1, Distinct, Zenon
    <3>12. Maps(ts, sp, n, va, frame, HUGE, m, l1)
      BY <2>6, <3>1, <3>7, <3>8, <3>10, <3>11, Zenon DEF Maps
    <3> QED
      BY <2>10, <3>1, <3>12, Zenon
  <2>14. ASSUME c.huge
         PROVE  \A vb \in va .. va + HUGE - 1 :
                  Walk(ts, sp[n], vb) = (c.frame \div HUGE) * HUGE + (vb % HUGE)
    <3> TAKE vb \in va .. va + HUGE - 1
    <3>1. Pd(ts2, sp[n], vb) = at /\ pd_index(vb) = pd_index(va)
          /\ Walk(ts, sp[n], vb) = Walk(ts2, sp[n], vb)
      BY <2>11, Zenon
    <3>2. ts2[at][pd_index(vb)].huge /\ ts2[at][pd_index(vb)].frame = c.frame
      BY <2>4, <2>14, <3>1, Zenon
    <3>3. Walk(ts2, sp[n], vb) = (c.frame \div HUGE) * HUGE + (vb % HUGE)
      <4>1. at = Pd(ts2, sp[n], vb) /\ at # 0
        BY <2>3, <3>1, Zenon
      <4>2. ts2[at][pd_index(vb)].huge =>
              Walk(ts2, sp[n], vb) = (ts2[at][pd_index(vb)].frame \div HUGE) * HUGE + (vb % HUGE)
        BY <4>1, WalkLarge, Zenon
      <4> QED
        BY <3>2, <4>2, Zenon
    <3> QED
      BY <3>1, <3>3, Zenon
  <2>15. CASE c.present /\ c.huge /\ c.frame # e.frame
    <3>1. m.tables = ts2 /\ m.error = "conflict"
      <4>1. c.huge = e.huge
        BY <1>4, <2>9, <2>15, Zenon DEF EntrySet
      <4> QED
        BY <2>7, <2>15, <4>1, Zenon DEF Wrote
    <3>2. va \in va .. va + HUGE - 1
      BY <1>1, PagingAssumption DEF HUGE
    <3>3. Walk(ts, sp[n], va) # -1
      <4>1. Walk(ts, sp[n], va) = (c.frame \div HUGE) * HUGE + (va % HUGE)
        BY <2>14, <2>15, <3>2, Zenon
      <4> QED
        BY <1>1, <2>9, <4>1, PagingAssumption DEF HUGE
    <3>4. Maps(ts, sp, n, va, frame, HUGE, m, l1)
      BY <2>6, <3>1, <3>2, <3>3, Zenon DEF Maps
    <3> QED
      BY <2>10, <3>1, <3>4, Zenon
  <2>16. CASE c.present /\ c.huge /\ c.frame = e.frame
    <3>1. m.tables = ts2 /\ m.error = ""
      <4>1. c.huge = e.huge
        BY <1>4, <2>9, <2>16, Zenon DEF EntrySet
      <4> QED
        BY <2>7, <2>16, <4>1, Zenon DEF Wrote
    <3>2. ASSUME NEW vb \in va .. va + HUGE - 1 PROVE Walk(ts, sp[n], vb) = frame + (vb - va)
      <4>1. Walk(ts, sp[n], vb) = (frame \div HUGE) * HUGE + (vb % HUGE)
        BY <1>4, <2>14, <2>16, Zenon
      <4>2. (frame \div HUGE) * HUGE + (vb % HUGE) = frame + (vb - va)
        BY <1>1, <1>8, <1>9, LargeOffset, Zenon
      <4> QED
        BY <4>1, <4>2, Zenon
    <3>3. \A j \in DOMAIN sp, vb \in Pages :
            Walk(ts2, sp[j], vb) = IF j = n /\ vb \in va .. va + HUGE - 1
                                   THEN frame + (vb - va) ELSE Walk(ts, sp[j], vb)
      BY <2>6, <3>2, Zenon
    <3>4. Maps(ts, sp, n, va, frame, HUGE, m, l1)
      BY <2>8, <3>1, <3>2, <3>3, Zenon DEF Maps
    <3> QED
      BY <2>10, <3>1, <3>4, Zenon
  <2> QED
    BY <2>9, <2>12, <2>13, <2>15, <2>16, Zenon
<1> QED
  BY <1>10, <1>11, Zenon
=============================================================================
