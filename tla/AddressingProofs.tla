--------------------------- MODULE AddressingProofs ---------------------------
(***************************************************************************)
(* What Addressing keeps, for any number of requests, devices, templates and    *)
(* pools and any width of an address: the search finds the first free address,    *)
(* no address is given twice, pools stay disjoint and sessions end.             *)
(* First the operators (subnets, the search, sequences without doubles, the       *)
(* choice of pools), then what the requests have read and may do with it, then     *)
(* one part for each property.  A request that was alone from its beginning holds   *)
(* what it has read: that is the inductive invariant of every part.              *)
(***************************************************************************)
EXTENDS Addressing, NaturalsInduction, WellFoundedInduction, FiniteSetTheorems, TLAPS

-----------------------------------------------------------------------------
(* Numbers.                                                                   *)

(* A set of numbers that is not empty has a least one. *)
LEMMA Least ==
    ASSUME NEW S \in SUBSET Nat, S # {}
    PROVE  /\ Min(S) \in S
           /\ \A m \in S : Min(S) <= m
<1> DEFINE R == OpToRel(<, Nat)
<1>1. \A m, n \in Nat : m < n => <<m, n>> \in R
  BY DEF OpToRel
<1>2. IsWellFoundedOn(R, Nat)
  BY NatLessThanWellFounded
<1> HIDE DEF R
<1>3. PICK n \in S : \A m \in S : ~(<<m, n>> \in R)
  BY <1>2, WFMin
<1>4. ASSUME NEW m \in S
      PROVE  n <= m
  <2>1. m \in Nat /\ n \in Nat
    OBVIOUS
  <2>2. ~(m < n)
    BY <1>1, <1>3, <2>1
  <2> QED
    BY <2>1, <2>2
<1>5. \E x \in S : \A y \in S : x <= y
  BY <1>4
<1> QED
  BY <1>5 DEF Min

(* A subnet has as many addresses as its mask leaves, and an address between two *)
(* of a subnet is in it.                                                      *)
LEMMA SubnetFacts ==
    ASSUME NEW a \in Nat, NEW bits \in 0 .. Width
    PROVE  /\ Block(bits) \in Nat \ {0}
           /\ Subnet(a, bits) \in Nat /\ Broadcast(a, bits) \in Nat
           /\ Subnet(a, bits) <= a /\ a <= Broadcast(a, bits)
           /\ \A b \in Nat, c \in Nat :
                a <= b /\ b <= c /\ Subnet(a, bits) = Subnet(c, bits) =>
                Subnet(b, bits) = Subnet(a, bits)
<1> DEFINE B == Block(bits)
<1>1. B \in Nat \ {0}
  BY WidthAssumption
<1>2. /\ Subnet(a, bits) = a - (a % B)
      /\ Broadcast(a, bits) = (a - (a % B)) + B - 1
      /\ \A b : Subnet(b, bits) = b - (b % B)
  BY DEF Subnet, Broadcast
<1> HIDE DEF B
<1>3. /\ a % B \in 0 .. B - 1 /\ a - (a % B) <= a /\ a - (a % B) \in Nat
  BY <1>1
<1>4. ASSUME NEW b \in Nat, NEW c \in Nat, a <= b, b <= c, a - (a % B) = c - (c % B)
      PROVE  b - (b % B) = a - (a % B)
  BY <1>1, <1>4
<1> QED
  BY <1>1, <1>2, <1>3, <1>4 DEF B

(* The search ends where it should. *)
LEMMA Searched ==
    ASSUME NEW hi \in Nat, NEW used, NEW next,
           next = [a \in Nat |-> IF a > hi \/ a \notin used THEN a ELSE next[a + 1]],
           NEW start \in Nat
    PROVE  /\ next[start] \in Nat /\ start <= next[start]
           /\ next[start] > hi \/ next[start] \notin used
           /\ \A a \in start .. next[start] - 1 : a <= hi /\ a \in used
<1> DEFINE Good(n) == /\ next[n] \in Nat /\ n <= next[n]
                      /\ next[n] > hi \/ next[n] \notin used
                      /\ \A a \in n .. next[n] - 1 : a <= hi /\ a \in used
           Bad == {k \in Nat : \E n \in Nat : k = hi - n /\ n <= hi /\ ~Good(n)}
<1>1. \A n \in Nat : n > hi => Good(n)
  <2> TAKE n \in Nat
  <2> HAVE n > hi
  <2>1. next[n] = n
    OBVIOUS
  <2> QED
    BY <2>1
<1>2. Bad = {}
  <2> SUFFICES ASSUME Bad # {} PROVE FALSE
    OBVIOUS
  <2>1. Bad \in SUBSET Nat
    OBVIOUS
  <2>2. Min(Bad) \in Bad /\ \A m \in Bad : Min(Bad) <= m
    BY <2>1, Least
  <2>3. PICK n \in Nat : Min(Bad) = hi - n /\ n <= hi /\ ~Good(n)
    BY <2>2
  <2>4. Good(n + 1)
    <3>1. CASE n + 1 > hi
      BY <1>1, <3>1
    <3>2. CASE n + 1 <= hi
      <4>1. hi - (n + 1) < Min(Bad) /\ hi - (n + 1) \in Nat
        BY <2>3, <3>2
      <4>2. hi - (n + 1) \notin Bad
        <5>1. Min(Bad) \in Nat
          BY <2>1, <2>2
        <5> QED
          BY <2>2, <4>1, <5>1
      <4> QED
        BY <3>2, <4>1, <4>2
    <3> QED
      BY <3>1, <3>2
  <2>5. CASE n > hi \/ n \notin used
    <3>1. next[n] = n
      BY <2>5
    <3> QED
      BY <2>3, <2>5, <3>1
  <2>6. CASE n <= hi /\ n \in used
    <3>1. next[n] = next[n + 1]
      BY <2>6
    <3>2. \A a \in n .. next[n] - 1 : a = n \/ a \in n + 1 .. next[n] - 1
      BY <2>4, <3>1
    <3> QED
      BY <2>3, <2>4, <2>6, <3>1, <3>2
  <2> QED
    BY <2>5, <2>6
<1>3. CASE start > hi
  BY <1>1, <1>3
<1>4. CASE start <= hi
  <2>1. hi - start \in Nat
    BY <1>4
  <2>2. hi - start \notin Bad
    BY <1>2
  <2>3. Good(start)
    BY <1>4, <2>1, <2>2
  <2> QED
    BY <2>3
<1> QED
  BY <1>3, <1>4

(* There is a function that searches. *)
LEMMA SearchExists ==
    ASSUME NEW hi \in Nat, NEW used
    PROVE  \E g : g = [a \in Nat |-> IF a > hi \/ a \notin used THEN a ELSE g[a + 1]]
<1> DEFINE Past(a) == {b \in Nat : a <= b /\ (b > hi \/ b \notin used)}
           g == [a \in Nat |-> Min(Past(a))]
<1>1. ASSUME NEW a \in Nat
      PROVE  g[a] = IF a > hi \/ a \notin used THEN a ELSE g[a + 1]
  <2>1. CASE a > hi \/ a \notin used
    <3>1. a \in Past(a) /\ Past(a) \in SUBSET Nat /\ \A b \in Past(a) : a <= b
      BY <2>1
    <3>2. Min(Past(a)) \in Past(a) /\ Min(Past(a)) <= a
      BY <3>1, Least
    <3>3. Min(Past(a)) = a
      BY <3>1, <3>2
    <3> QED
      BY <2>1, <3>3
  <2>2. CASE ~(a > hi \/ a \notin used)
    <3>1. \A b \in Nat : b \in Past(a) <=> b \in Past(a + 1)
      BY <2>2
    <3>2. Past(a) = Past(a + 1)
      BY <3>1
    <3>3. a + 1 \in Nat
      OBVIOUS
    <3> QED
      BY <2>2, <3>2, <3>3
  <2> QED
    BY <2>1, <2>2
<1>2. g = [a \in Nat |-> g[a]]
  OBVIOUS
<1> HIDE DEF g
<1>3. g = [a \in Nat |-> IF a > hi \/ a \notin used THEN a ELSE g[a + 1]]
  BY <1>1, <1>2
<1> QED
  BY <1>3

(* In a range that may be given to a pool all addresses are of one subnet. *)
LEMMA OneSubnet ==
    ASSUME NEW r \in Span
    PROVE  /\ r.lo \in Nat /\ r.hi \in Nat /\ r.bits \in 0 .. Width
           /\ r.lo <= r.hi
           /\ \A a \in r.lo .. r.hi :
                /\ Subnet(a, r.bits) = Subnet(r.lo, r.bits)
                /\ Broadcast(a, r.bits) = Broadcast(r.lo, r.bits)
           /\ r.hi <= Broadcast(r.lo, r.bits)
           /\ Subnet(r.lo, r.bits) \in Nat /\ Subnet(r.lo, r.bits) <= r.lo
           /\ Broadcast(r.lo, r.bits) \in Nat
<1>1. /\ r.lo \in Address /\ r.hi \in Address /\ r.bits \in 0 .. Width
      /\ r.lo <= r.hi /\ Subnet(r.lo, r.bits) = Subnet(r.hi, r.bits)
  BY SpanAssumption DEF Valid
<1>2. \A a \in Address : a \in Nat
  BY DEF Address
<1>3. r.lo \in Nat /\ r.hi \in Nat
  BY <1>1, <1>2
<1>4. ASSUME NEW a \in r.lo .. r.hi
      PROVE  /\ Subnet(a, r.bits) = Subnet(r.lo, r.bits)
             /\ Broadcast(a, r.bits) = Broadcast(r.lo, r.bits)
  <2>1. a \in Nat /\ r.lo <= a /\ a <= r.hi
    BY <1>3
  <2>2. Subnet(a, r.bits) = Subnet(r.lo, r.bits)
    BY <1>1, <1>3, <2>1, SubnetFacts
  <2> QED
    BY <2>2 DEF Broadcast
<1>5. r.hi \in r.lo .. r.hi
  BY <1>1, <1>3
<1>6. r.hi <= Broadcast(r.hi, r.bits)
  BY <1>1, <1>3, SubnetFacts
<1>7. /\ Subnet(r.lo, r.bits) \in Nat /\ Subnet(r.lo, r.bits) <= r.lo
      /\ Broadcast(r.lo, r.bits) \in Nat
  BY <1>1, <1>3, SubnetFacts
<1> QED
  BY <1>1, <1>3, <1>4, <1>5, <1>6, <1>7

(* FirstAvailableAddress finds the least usable address that is not used. *)
THEOREM FirstAvailable ==
    ASSUME NEW r \in Span, NEW used
    PROVE  LET free == Usable(r) \ used IN
           FirstAvailableAddress(r, used) =
               IF free = {} THEN None ELSE [addr |-> Min(free), bits |-> r.bits]
<1> DEFINE next[a \in Nat] == IF a > r.hi \/ a \notin used THEN a ELSE next[a + 1]
           start == IF r.lo = Subnet(r.lo, r.bits) THEN r.lo + 1 ELSE r.lo
           first == next[start]
           free == Usable(r) \ used
           s == Subnet(r.lo, r.bits)
           b == Broadcast(r.lo, r.bits)
<1>1. /\ r.lo \in Nat /\ r.hi \in Nat /\ r.lo <= r.hi
      /\ \A a \in r.lo .. r.hi : Subnet(a, r.bits) = s /\ Broadcast(a, r.bits) = b
      /\ r.hi <= b /\ s \in Nat /\ s <= r.lo /\ b \in Nat
  BY OneSubnet
<1>2. \E g : g = [a \in Nat |-> IF a > r.hi \/ a \notin used THEN a ELSE g[a + 1]]
  BY <1>1, SearchExists
<1>3. next = [a \in Nat |-> IF a > r.hi \/ a \notin used THEN a ELSE next[a + 1]]
  BY <1>2
<1>4. start \in Nat /\ r.lo <= start /\ s < start /\ \A a \in r.lo .. r.hi : a # s => start <= a
  BY <1>1
<1>5. FirstAvailableAddress(r, used) =
        IF first > r.hi \/ first = Broadcast(first, r.bits) THEN None
        ELSE [addr |-> first, bits |-> r.bits]
  BY DEF FirstAvailableAddress
<1>6. \A a : a \in free <=> a \in r.lo .. r.hi /\ a # s /\ a # b /\ a \notin used
  BY <1>1 DEF Usable
<1> HIDE DEF next, start, free, s, b
<1>7. /\ first \in Nat /\ start <= first
      /\ first > r.hi \/ first \notin used
      /\ \A a \in start .. first - 1 : a <= r.hi /\ a \in used
  BY <1>1, <1>3, <1>4, Searched
<1> HIDE DEF first
<1>8. CASE first > r.hi
  <2>1. \A a : a \notin free
    BY <1>1, <1>4, <1>6, <1>7, <1>8
  <2> QED
    BY <1>5, <1>8, <2>1 DEF free
<1>9. CASE first <= r.hi
  <2>1. first \in r.lo .. r.hi /\ Broadcast(first, r.bits) = b
    BY <1>1, <1>4, <1>7, <1>9
  <2>2. CASE first = b
    <3>1. \A a : a \notin free
      BY <1>1, <1>4, <1>6, <1>7, <1>9, <2>2
    <3> QED
      BY <1>5, <2>1, <2>2, <3>1 DEF free
  <2>3. CASE first # b
    <3>1. first \in free /\ free \in SUBSET Nat
      BY <1>1, <1>4, <1>6, <1>7, <1>9, <2>1, <2>3
    <3>2. \A a \in free : first <= a
      BY <1>1, <1>4, <1>6, <1>7
    <3>3. Min(free) = first
      <4>1. Min(free) \in free /\ Min(free) <= first
        BY <3>1, Least
      <4>2. first <= Min(free) /\ Min(free) \in Nat
        BY <3>1, <3>2, <4>1
      <4> QED
        BY <1>7, <4>1, <4>2
    <3>4. ~(first > r.hi)
      BY <1>1, <1>7, <1>9
    <3>5. FirstAvailableAddress(r, used) = [addr |-> Min(free), bits |-> r.bits]
      BY <1>5, <2>1, <2>3, <3>3, <3>4
    <3> QED
      BY <3>1, <3>5 DEF free
  <2> QED
    BY <2>2, <2>3
<1> QED
  BY <1>1, <1>7, <1>8, <1>9

(* What is found has the mask of the range, is in it, and is not used; if nothing is    *)
(* found, everything is used.                                                 *)
LEMMA LeastFree ==
    ASSUME NEW r \in Span, NEW used, Usable(r) \ used # {}
    PROVE  LET a == [addr |-> Min(Usable(r) \ used), bits |-> r.bits] IN
           a \in Prefix /\ Belongs(a, r) /\ a.addr \in r.lo .. r.hi /\ a.addr \notin used
<1> DEFINE free == Usable(r) \ used
           a == [addr |-> Min(free), bits |-> r.bits]
<1>1. /\ r.lo \in Nat /\ r.hi \in Nat /\ r.lo <= r.hi /\ r.bits \in 0 .. Width
  BY OneSubnet
<1>2. free \in SUBSET (r.lo .. r.hi) /\ free \in SUBSET Nat
  BY <1>1 DEF Usable
<1>3. Min(free) \in free
  BY <1>2, Least
<1>4. \A b \in r.lo .. r.hi : b \in Address
  <2>1. 2^Width \in Nat
    <3>1. Width - 0 = Width /\ 0 \in 0 .. Width
      BY WidthAssumption
    <3> QED
      BY <3>1, WidthAssumption DEF Block
  <2>2. r.hi \in 0 .. 2^Width - 1
    BY SpanAssumption DEF Address
  <2> QED
    BY <1>1, <2>1, <2>2 DEF Address
<1>5. a.addr \in r.lo .. r.hi /\ a.addr \notin used /\ a.bits = r.bits /\ a \in Prefix
  BY <1>1, <1>2, <1>3, <1>4 DEF Prefix
<1> QED
  BY <1>1, <1>5 DEF Belongs

LEMMA FoundAddress ==
    ASSUME NEW r \in Span, NEW used,
           FirstAvailableAddress(r, used) # None
    PROVE  /\ FirstAvailableAddress(r, used) \in Prefix
           /\ Belongs(FirstAvailableAddress(r, used), r)
           /\ FirstAvailableAddress(r, used).addr \in r.lo .. r.hi
           /\ FirstAvailableAddress(r, used).addr \notin used
<1>1. /\ Usable(r) \ used # {}
      /\ FirstAvailableAddress(r, used) = [addr |-> Min(Usable(r) \ used), bits |-> r.bits]
  BY FirstAvailable
<1> QED
  BY <1>1, LeastFree

LEMMA NoneFound ==
    ASSUME NEW r \in Span, NEW used,
           FirstAvailableAddress(r, used) = None
    PROVE  Usable(r) \subseteq used
<1> SUFFICES ASSUME Usable(r) \ used # {} PROVE FALSE
  OBVIOUS
<1>1. FirstAvailableAddress(r, used) = [addr |-> Min(Usable(r) \ used), bits |-> r.bits]
  BY FirstAvailable
<1>2. FirstAvailableAddress(r, used) \in Prefix
  BY <1>1, LeastFree
<1> QED
  BY <1>2, NoneAssumption

-----------------------------------------------------------------------------
(* Categories of the addresses of a device.                                   *)

Entry == [pool : Pool, range : Span]

(* Lists of pools that name each once. *)
Listing(P) ==
    /\ P \in Seq(Entry)
    /\ \A i, j \in DOMAIN P : P[i].pool = P[j].pool => i = j

(* The addresses of s are one of each pool that is covered. *)
Fitting(s, P, covered) ==
    \E f \in [DOMAIN s -> DOMAIN P] :
        /\ \A i, j \in DOMAIN s : f[i] = f[j] => i = j
        /\ \A i \in DOMAIN s : Belongs(s[i], P[f[i]].range)
        /\ \A j \in DOMAIN P : P[j].pool \in covered <=> \E i \in DOMAIN s : f[i] = j

LEMMA FittingNone ==
    ASSUME NEW P
    PROVE  Fitting(<<>>, P, {})
<1> DEFINE f == [i \in DOMAIN <<>> |-> i]
<1>1. DOMAIN <<>> = {}
  OBVIOUS
<1>2. f \in [DOMAIN <<>> -> DOMAIN P]
  BY <1>1
<1> QED
  BY <1>1, <1>2 DEF Fitting

(* One more address, of a pool without. *)
LEMMA FittingAppend ==
    ASSUME NEW P, Listing(P), NEW s \in Seq(Prefix), NEW covered, Fitting(s, P, covered),
           NEW a \in Prefix, NEW k \in DOMAIN P, P[k].pool \notin covered, Belongs(a, P[k].range)
    PROVE  Fitting(Append(s, a), P, covered \cup {P[k].pool})
<1>1. PICK f \in [DOMAIN s -> DOMAIN P] :
        /\ \A i, j \in DOMAIN s : f[i] = f[j] => i = j
        /\ \A i \in DOMAIN s : Belongs(s[i], P[f[i]].range)
        /\ \A j \in DOMAIN P : P[j].pool \in covered <=> \E i \in DOMAIN s : f[i] = j
  BY DEF Fitting
<1> DEFINE n == Len(s)
           s2 == Append(s, a)
           g == [i \in DOMAIN s2 |-> IF i = n + 1 THEN k ELSE f[i]]
<1>2. /\ n \in Nat /\ DOMAIN s = 1 .. n /\ DOMAIN s2 = 1 .. n + 1
      /\ \A i \in 1 .. n : s2[i] = s[i]
      /\ s2[n + 1] = a
  OBVIOUS
<1> HIDE DEF n, s2
<1>3. \A i \in 1 .. n : i \in 1 .. n + 1 /\ i # n + 1
  BY <1>2
<1>4. \A i \in 1 .. n + 1 : i \in 1 .. n \/ i = n + 1
  BY <1>2
<1>5. n + 1 \in 1 .. n + 1
  BY <1>2
<1>6. /\ g \in [DOMAIN s2 -> DOMAIN P]
      /\ \A i \in 1 .. n : g[i] = f[i]
      /\ g[n + 1] = k
  BY <1>1, <1>2, <1>3, <1>4, <1>5
<1> HIDE DEF g
<1>7. \A i \in 1 .. n : f[i] # k
  BY <1>1, <1>2
<1>8. \A i, j \in DOMAIN s2 : g[i] = g[j] => i = j
  BY <1>1, <1>2, <1>4, <1>6, <1>7
<1>9. \A i \in DOMAIN s2 : Belongs(s2[i], P[g[i]].range)
  BY <1>1, <1>2, <1>4, <1>6
<1>10. ASSUME NEW j \in DOMAIN P
       PROVE  P[j].pool \in covered \cup {P[k].pool} <=> \E i \in DOMAIN s2 : g[i] = j
  <2>1. P[j].pool = P[k].pool <=> j = k
    BY DEF Listing
  <2>2. (\E i \in DOMAIN s2 : g[i] = j) <=> (\E i \in 1 .. n : f[i] = j) \/ j = k
    BY <1>2, <1>3, <1>4, <1>5, <1>6
  <2> QED
    BY <1>1, <1>2, <2>1, <2>2
<1> QED
  BY <1>6, <1>8, <1>9, <1>10 DEF Fitting, s2

(* A pool that is found has no address yet, and the address belongs to it. *)
LEMMA CandidateFound ==
    ASSUME NEW P, Listing(P), NEW a \in Prefix, NEW covered,
           \E i \in DOMAIN P : P[i].pool \notin covered /\ Belongs(a, P[i].range)
    PROVE  \E k \in DOMAIN P : /\ FindPool(a, P, covered) = P[k].pool
                               /\ P[k].pool \notin covered
                               /\ Belongs(a, P[k].range)
<1> DEFINE candidates == {i \in DOMAIN P : P[i].pool \notin covered /\ Belongs(a, P[i].range)}
           size(i) == P[i].range.hi - P[i].range.lo
           smallest == {i \in candidates : \A j \in candidates : size(i) <= size(j)}
<1>1. candidates # {} /\ FindPool(a, P, covered) = P[Min(smallest)].pool
  BY DEF FindPool
<1>2. \A i \in DOMAIN P : P[i].range \in Span
  <2>1. \A i \in DOMAIN P : P[i] \in Entry
    BY DEF Listing
  <2> QED
    BY <2>1 DEF Entry
<1>3. \A i \in DOMAIN P : size(i) \in Nat
  BY <1>2, OneSubnet
<1> DEFINE sizes == {size(i) : i \in candidates}
<1>4. sizes \in SUBSET Nat /\ sizes # {}
  BY <1>1, <1>3
<1>5. Min(sizes) \in sizes /\ \A m \in sizes : Min(sizes) <= m
  BY <1>4, Least
<1>6. smallest # {}
  <2>1. PICK i \in candidates : Min(sizes) = size(i)
    BY <1>5
  <2>2. \A j \in candidates : size(j) \in sizes
    OBVIOUS
  <2>3. \A j \in candidates : size(i) <= size(j)
    BY <1>5, <2>1, <2>2
  <2> QED
    BY <2>3
<1>7. DOMAIN P \in SUBSET Nat
  BY DEF Listing
<1>8. smallest \in SUBSET Nat
  BY <1>7
<1>9. Min(smallest) \in smallest
  BY <1>6, <1>8, Least
<1> QED
  BY <1>1, <1>9

LEMMA FoundPool ==
    ASSUME NEW P, Listing(P), NEW a \in Prefix, NEW covered,
           FindPool(a, P, covered) # None
    PROVE  \E k \in DOMAIN P : /\ FindPool(a, P, covered) = P[k].pool
                               /\ P[k].pool \notin covered
                               /\ Belongs(a, P[k].range)
<1>1. \E i \in DOMAIN P : P[i].pool \notin covered /\ Belongs(a, P[i].range)
  BY DEF FindPool
<1> QED
  BY <1>1, CandidateFound

(* The only address that a device has of a pool finds this one uncovered, and so is     *)
(* kept, be it for another.                                                   *)
Lone(k, s, P) ==
    \E i \in DOMAIN P :
        /\ Belongs(s[k], P[i].range)
        /\ \A m \in DOMAIN s \ {k} : ~Belongs(s[m], P[i].range)

LEMMA LoneFound ==
    ASSUME NEW P, Listing(P), NEW s \in Seq(Prefix), NEW k \in DOMAIN s, Lone(k, s, P),
           NEW keep, NEW covered, Fitting(keep, P, covered),
           \A m \in DOMAIN keep : \E i \in DOMAIN s \ {k} : keep[m] = s[i]
    PROVE  FindPool(s[k], P, covered) # None
<1>1. PICK i \in DOMAIN P : /\ Belongs(s[k], P[i].range)
                          /\ \A m \in DOMAIN s \ {k} : ~Belongs(s[m], P[i].range)
  BY DEF Lone
<1>2. P[i].pool \notin covered
  BY <1>1 DEF Fitting
<1>3. s[k] \in Prefix
  OBVIOUS
<1>4. PICK j \in DOMAIN P : FindPool(s[k], P, covered) = P[j].pool
  BY <1>1, <1>2, <1>3, CandidateFound
<1>5. P[j] \in Entry
  BY DEF Listing
<1> QED
  BY <1>4, <1>5, NoneAssumption DEF Entry

(* What lists of addresses have when one is added, two are joined, or the first *)
(* is taken away.                                                             *)
LEMMA Appended ==
    ASSUME NEW s \in Seq(Prefix), NEW a \in Prefix
    PROVE  /\ Append(s, a) \in Seq(Prefix)
           /\ Own(Append(s, a)) = Own(s) \cup {a.addr}
           /\ Distinct(s) /\ a.addr \notin Own(s) => Distinct(Append(s, a))
<1> DEFINE n == Len(s)
           t == Append(s, a)
<1>1. /\ n \in Nat /\ DOMAIN s = 1 .. n /\ DOMAIN t = 1 .. n + 1
      /\ \A i \in 1 .. n : t[i] = s[i]
      /\ t[n + 1] = a
      /\ t \in Seq(Prefix)
  OBVIOUS
<1> HIDE DEF n, t
<1>2. /\ \A i \in 1 .. n : i \in 1 .. n + 1
      /\ \A i \in 1 .. n + 1 : i \in 1 .. n \/ i = n + 1
      /\ n + 1 \in 1 .. n + 1
  BY <1>1
<1>3. \A x : x \in Own(t) <=> x \in Own(s) \cup {a.addr}
  <2>1. \A x : x \in Own(t) <=> \E i \in 1 .. n + 1 : x = t[i].addr
    BY <1>1 DEF Own
  <2>2. \A x : x \in Own(s) <=> \E i \in 1 .. n : x = s[i].addr
    BY <1>1 DEF Own
  <2> QED
    BY <1>1, <1>2, <2>1, <2>2
<1>4. ASSUME Distinct(s), a.addr \notin Own(s)
      PROVE  Distinct(t)
  <2>1. \A i \in 1 .. n : s[i].addr # a.addr
    BY <1>1, <1>4 DEF Own
  <2>2. \A i, j \in 1 .. n : i # j => s[i].addr # s[j].addr
    BY <1>1, <1>4 DEF Distinct
  <2>3. \A i, j \in 1 .. n + 1 : i # j => t[i].addr # t[j].addr
    BY <1>1, <1>2, <2>1, <2>2
  <2> QED
    BY <1>1, <2>3 DEF Distinct
<1> QED
  BY <1>1, <1>3, <1>4 DEF t

LEMMA Joined ==
    ASSUME NEW s \in Seq(Prefix), NEW u \in Seq(Prefix)
    PROVE  /\ s \o u \in Seq(Prefix)
           /\ Own(s \o u) = Own(s) \cup Own(u)
           /\ Distinct(s) /\ Distinct(u) /\ Own(s) \cap Own(u) = {} => Distinct(s \o u)
<1> DEFINE n == Len(s)
           m == Len(u)
           t == s \o u
<1>1. /\ n \in Nat /\ m \in Nat /\ DOMAIN s = 1 .. n /\ DOMAIN u = 1 .. m /\ DOMAIN t = 1 .. n + m
      /\ \A i \in 1 .. n + m : t[i] = IF i <= n THEN s[i] ELSE u[i - n]
      /\ t \in Seq(Prefix)
  OBVIOUS
<1> HIDE DEF n, m, t
<1>2. /\ \A i \in 1 .. n : i \in 1 .. n + m /\ t[i] = s[i]
      /\ \A i \in 1 .. m : i + n \in 1 .. n + m /\ t[i + n] = u[i]
      /\ \A i \in 1 .. n + m : i \notin 1 .. n => i - n \in 1 .. m /\ t[i] = u[i - n]
  BY <1>1
<1>3. \A x : x \in Own(t) <=> x \in Own(s) \cup Own(u)
  <2>1. \A x : x \in Own(t) <=> \E i \in 1 .. n + m : x = t[i].addr
    BY <1>1 DEF Own
  <2>2. \A x : x \in Own(s) <=> \E i \in 1 .. n : x = s[i].addr
    BY <1>1 DEF Own
  <2>3. \A x : x \in Own(u) <=> \E i \in 1 .. m : x = u[i].addr
    BY <1>1 DEF Own
  <2>4. ASSUME NEW x \in Own(t)
        PROVE  x \in Own(s) \cup Own(u)
    <3>1. PICK i \in 1 .. n + m : x = t[i].addr
      BY <2>1
    <3>2. CASE i \in 1 .. n
      BY <1>2, <2>2, <3>1, <3>2
    <3>3. CASE i \notin 1 .. n
      BY <1>2, <2>3, <3>1, <3>3
    <3> QED
      BY <3>2, <3>3
  <2>5. ASSUME NEW x \in Own(s)
        PROVE  x \in Own(t)
    BY <1>2, <2>1, <2>2
  <2>6. ASSUME NEW x \in Own(u)
        PROVE  x \in Own(t)
    BY <1>2, <2>1, <2>3
  <2> QED
    BY <2>4, <2>5, <2>6
<1>4. ASSUME Distinct(s), Distinct(u), Own(s) \cap Own(u) = {}
      PROVE  Distinct(t)
  <2>1. \A i \in 1 .. n, j \in 1 .. m : s[i].addr # u[j].addr
    BY <1>1, <1>4 DEF Own
  <2>2. /\ \A i, j \in 1 .. n : i # j => s[i].addr # s[j].addr
        /\ \A i, j \in 1 .. m : i # j => u[i].addr # u[j].addr
    BY <1>1, <1>4 DEF Distinct
  <2>3. \A i, j \in 1 .. n + m : i # j => t[i].addr # t[j].addr
    <3> SUFFICES ASSUME NEW i \in 1 .. n + m, NEW j \in 1 .. n + m, i # j
                 PROVE  t[i].addr # t[j].addr
      OBVIOUS
    <3>1. i - n # j - n
      BY <1>1
    <3> QED
      BY <1>2, <2>1, <2>2, <3>1
  <2> QED
    BY <1>1, <2>3 DEF Distinct
<1> QED
  BY <1>1, <1>3, <1>4 DEF t

LEMMA Headed ==
    ASSUME NEW s \in Seq(Prefix), s # <<>>
    PROVE  /\ Head(s) \in Prefix /\ Tail(s) \in Seq(Prefix)
           /\ Head(s).addr \in Own(s)
           /\ Own(Tail(s)) \subseteq Own(s)
           /\ Distinct(s) => Distinct(Tail(s)) /\ Head(s).addr \notin Own(Tail(s))
<1> DEFINE n == Len(s)
           t == Tail(s)
           h == Head(s)
<1>1. /\ n \in Nat \ {0} /\ DOMAIN s = 1 .. n /\ DOMAIN t = 1 .. n - 1
      /\ \A i \in 1 .. n - 1 : t[i] = s[i + 1]
      /\ h = s[1] /\ h \in Prefix
      /\ t \in Seq(Prefix)
  OBVIOUS
<1> HIDE DEF n, t, h
<1>2. /\ 1 \in 1 .. n
      /\ \A i \in 1 .. n - 1 : i + 1 \in 1 .. n /\ i + 1 # 1
      /\ \A i, j \in 1 .. n - 1 : i # j => i + 1 # j + 1
  BY <1>1
<1>3. \A x : x \in Own(t) <=> \E i \in 1 .. n - 1 : x = s[i + 1].addr
  <2>1. \A x : x \in Own(t) <=> \E i \in 1 .. n - 1 : x = t[i].addr
    BY <1>1 DEF Own
  <2>2. \A i \in 1 .. n - 1 : t[i].addr = s[i + 1].addr
    BY <1>1
  <2> QED
    BY <2>1, <2>2, Zenon
<1>4. \A x : x \in Own(s) <=> \E i \in 1 .. n : x = s[i].addr
  BY <1>1 DEF Own
<1>5. h.addr \in Own(s) /\ Own(t) \subseteq Own(s)
  BY <1>1, <1>2, <1>3, <1>4
<1>6. ASSUME Distinct(s)
      PROVE  Distinct(t) /\ h.addr \notin Own(t)
  <2>1. \A i, j \in 1 .. n : i # j => s[i].addr # s[j].addr
    BY <1>1, <1>6 DEF Distinct
  <2>2. \A i, j \in 1 .. n - 1 : i # j => t[i].addr # t[j].addr
    BY <1>1, <1>2, <2>1
  <2> QED
    BY <1>1, <1>2, <1>3, <2>1, <2>2 DEF Distinct
<1> QED
  BY <1>1, <1>5, <1>6 DEF h, t

(* There is a function that categorizes. *)
LEMMA KeptExists ==
    ASSUME NEW s \in Seq(Prefix), NEW P
    PROVE  \E g : g = [n \in 0 .. Len(s) |->
                         IF n = 0 THEN [keep |-> <<>>, covered |-> {}] ELSE Keeping(g[n - 1], s[n], P)]
<1> DEFINE F(g, n) == IF n = 0 THEN [keep |-> <<>>, covered |-> {}] ELSE Keeping(g[n - 1], s[n], P)
           Upto(n) == \E g : g = [m \in 0 .. n |-> F(g, m)]
           Bad == {n \in Nat : ~Upto(n)}
<1>1. Bad = {}
  <2> SUFFICES ASSUME Bad # {} PROVE FALSE
    OBVIOUS
  <2> DEFINE n == Min(Bad)
  <2>1. Bad \in SUBSET Nat
    OBVIOUS
  <2>2. n \in Bad /\ \A m \in Bad : n <= m
    BY <2>1, Least
  <2>3. n \in Nat /\ ~Upto(n)
    BY <2>2
  <2>4. \A m \in Nat : m < n => Upto(m)
    <3> HIDE DEF Upto, n
    <3> QED
      BY <2>2, <2>3
  <2> HIDE DEF n, Bad
  <2>5. Upto(n)
    <3>1. CASE n = 0
      <4> DEFINE g == [m \in 0 .. n |-> [keep |-> <<>>, covered |-> {}]]
      <4>1. g = [m \in 0 .. n |-> F(g, m)]
        BY <3>1
      <4> HIDE DEF g
      <4> QED
        BY <4>1
    <3>2. CASE n # 0
      <4>1. n - 1 \in Nat /\ n - 1 < n
        BY <2>3, <3>2
      <4>2. PICK g : g = [m \in 0 .. n - 1 |-> F(g, m)]
        BY <2>4, <4>1
      <4> DEFINE h == [m \in 0 .. n |-> IF m = n THEN F(g, m) ELSE g[m]]
      <4>3. \A m \in 0 .. n : m # n => m \in 0 .. n - 1
        BY <2>3
      <4>4. \A m \in 0 .. n : m # 0 => m - 1 \in 0 .. n - 1 /\ m - 1 \in 0 .. n /\ m - 1 # n
        BY <2>3
      <4>5. \A m \in 0 .. n : m # 0 => h[m - 1] = g[m - 1]
        BY <4>4
      <4>6. ASSUME NEW m \in 0 .. n
            PROVE  h[m] = F(h, m)
        <5>1. F(h, m) = F(g, m)
          BY <4>5
        <5>2. m # n => g[m] = F(g, m)
          BY <4>2, <4>3
        <5> QED
          BY <5>1, <5>2
      <4>7. h = [m \in 0 .. n |-> h[m]]
        OBVIOUS
      <4> HIDE DEF h
      <4>8. h = [m \in 0 .. n |-> F(h, m)]
        BY <4>6, <4>7
      <4> QED
        BY <4>8
    <3> QED
      BY <3>1, <3>2
  <2> QED
    BY <2>3, <2>5
<1>2. Len(s) \in Nat
  OBVIOUS
<1>3. Upto(Len(s))
  BY <1>1, <1>2
<1> QED
  BY <1>3

(* What is kept of the first n addresses. *)
Fine(kept, n, s, P) ==
    /\ kept.keep \in Seq(Prefix) /\ Len(kept.keep) <= n
    /\ kept.covered \subseteq Pool
    /\ Own(kept.keep) \subseteq {s[i].addr : i \in 1 .. n}
    /\ Distinct(s) => Distinct(kept.keep)
    /\ Fitting(kept.keep, P, kept.covered)
    /\ Len(kept.keep) = n => \A i \in 1 .. n : kept.keep[i] = s[i]
    /\ \A m \in DOMAIN kept.keep : \E i \in 1 .. n : kept.keep[m] = s[i]
    /\ \A i \in 1 .. n : Lone(i, s, P) => \E m \in DOMAIN kept.keep : kept.keep[m] = s[i]

LEMMA FineKeeping ==
    ASSUME NEW P, Listing(P), NEW s \in Seq(Prefix),
           NEW n \in Nat, n + 1 <= Len(s), NEW kept, Fine(kept, n, s, P)
    PROVE  Fine(Keeping(kept, s[n + 1], P), n + 1, s, P)
<1> DEFINE a == s[n + 1]
           p == FindPool(a, P, kept.covered)
<1>1. a \in Prefix /\ DOMAIN s = 1 .. Len(s) /\ n + 1 \in DOMAIN s /\ \A i \in 1 .. n : i \in DOMAIN s
  OBVIOUS
<1>2. \A i \in 1 .. n : i \in 1 .. n + 1
  OBVIOUS
<1>3. \A m \in DOMAIN kept.keep : \E i \in DOMAIN s \ {n + 1} : kept.keep[m] = s[i]
  <2>1. \A i \in 1 .. n : i # n + 1
    OBVIOUS
  <2> QED
    BY <1>1, <2>1 DEF Fine
<1>4. CASE p = None
  <2>1. Keeping(kept, a, P) = kept
    BY <1>4 DEF Keeping
  <2>2. kept.keep \in Seq(Prefix) /\ Len(kept.keep) <= n /\ Len(kept.keep) \in Nat
    BY DEF Fine
  <2>3. Len(kept.keep) <= n + 1 /\ Len(kept.keep) # n + 1
    BY <2>2
  <2>4. {s[i].addr : i \in 1 .. n} \subseteq {s[i].addr : i \in 1 .. n + 1}
    BY <1>2
  <2>5. \A m \in DOMAIN kept.keep : \E i \in 1 .. n + 1 : kept.keep[m] = s[i]
    BY <1>2 DEF Fine
  <2>6. ~Lone(n + 1, s, P)
    BY <1>1, <1>4, <1>3, LoneFound DEF Fine
  <2>7. \A i \in 1 .. n + 1 : Lone(i, s, P) => \E m \in DOMAIN kept.keep : kept.keep[m] = s[i]
    <3>1. \A i \in 1 .. n + 1 : i \in 1 .. n \/ i = n + 1
      OBVIOUS
    <3> QED
      BY <2>6, <3>1 DEF Fine
  <2>8. Fine(kept, n + 1, s, P)
    BY <2>2, <2>3, <2>4, <2>5, <2>7 DEF Fine
  <2> QED
    BY <2>1, <2>8
<1>5. CASE p # None
  <2>1. PICK k \in DOMAIN P : p = P[k].pool /\ P[k].pool \notin kept.covered /\ Belongs(a, P[k].range)
    BY <1>1, <1>5, FoundPool
  <2> DEFINE keep == Append(kept.keep, a)
             covered == kept.covered \cup {p}
  <2>2. Keeping(kept, a, P) = [keep |-> keep, covered |-> covered]
    BY <1>5 DEF Keeping
  <2>3. kept.keep \in Seq(Prefix)
    BY DEF Fine
  <2>4. /\ keep \in Seq(Prefix)
        /\ Own(keep) = Own(kept.keep) \cup {a.addr}
        /\ Distinct(kept.keep) /\ a.addr \notin Own(kept.keep) => Distinct(keep)
    BY <1>1, <2>3, Appended
  <2>5. Fitting(keep, P, covered)
    BY <1>1, <2>1, <2>3, FittingAppend DEF Fine
  <2>6. P[k] \in Entry
    BY DEF Listing
  <2>7. covered \subseteq Pool
    BY <2>1, <2>6 DEF Fine, Entry
  <2>8. Own(keep) \subseteq {s[i].addr : i \in 1 .. n + 1}
    <3>1. Own(kept.keep) \subseteq {s[i].addr : i \in 1 .. n + 1}
      BY <1>2 DEF Fine
    <3>2. n + 1 \in 1 .. n + 1
      OBVIOUS
    <3> QED
      BY <2>4, <3>1, <3>2
  <2>9. ASSUME Distinct(s)
        PROVE  Distinct(keep)
    <3>1. \A i \in 1 .. n : s[i].addr # a.addr
      <4>1. \A i \in 1 .. n : i # n + 1
        OBVIOUS
      <4> QED
        BY <1>1, <2>9, <4>1 DEF Distinct
    <3>2. a.addr \notin Own(kept.keep)
      BY <3>1 DEF Fine
    <3> QED
      BY <2>4, <2>9, <3>2 DEF Fine
  <2>10. /\ Len(keep) = Len(kept.keep) + 1
         /\ \A i \in 1 .. Len(kept.keep) : keep[i] = kept.keep[i]
         /\ keep[Len(kept.keep) + 1] = a
         /\ Len(kept.keep) \in Nat
    BY <2>3
  <2>11. Len(kept.keep) <= n
    BY DEF Fine
  <2>12. ASSUME Len(keep) = n + 1
         PROVE  \A i \in 1 .. n + 1 : keep[i] = s[i]
    <3>1. Len(kept.keep) = n
      BY <2>10, <2>12
    <3>2. \A i \in 1 .. n : kept.keep[i] = s[i]
      BY <3>1 DEF Fine
    <3>3. \A i \in 1 .. n + 1 : i \in 1 .. n \/ i = n + 1
      OBVIOUS
    <3> HIDE DEF keep
    <3> QED
      BY <2>10, <3>1, <3>2, <3>3
  <2>13. Len(keep) <= n + 1
    BY <2>10, <2>11
  <2>14. \A m \in DOMAIN keep : m \in DOMAIN kept.keep \/ m = Len(kept.keep) + 1
    BY <2>3
  <2>15. /\ \A m \in DOMAIN kept.keep : m \in DOMAIN keep /\ keep[m] = kept.keep[m]
         /\ Len(kept.keep) + 1 \in DOMAIN keep
    BY <2>3
  <2> HIDE DEF keep, covered
  <2>16. \A m \in DOMAIN keep : \E i \in 1 .. n + 1 : keep[m] = s[i]
    <3>1. n + 1 \in 1 .. n + 1
      OBVIOUS
    <3>2. \A m \in DOMAIN kept.keep : \E i \in 1 .. n + 1 : kept.keep[m] = s[i]
      BY <1>2 DEF Fine
    <3> QED
      BY <2>10, <2>14, <2>15, <3>1, <3>2
  <2>17. \A i \in 1 .. n + 1 : Lone(i, s, P) => \E m \in DOMAIN keep : keep[m] = s[i]
    <3>1. \A i \in 1 .. n + 1 : i \in 1 .. n \/ i = n + 1
      OBVIOUS
    <3>2. \A i \in 1 .. n : Lone(i, s, P) => \E m \in DOMAIN kept.keep : kept.keep[m] = s[i]
      BY DEF Fine
    <3> QED
      BY <2>10, <2>15, <3>1, <3>2
  <2>18. Fine([keep |-> keep, covered |-> covered], n + 1, s, P)
    BY <2>4, <2>5, <2>7, <2>8, <2>9, <2>12, <2>13, <2>16, <2>17 DEF Fine
  <2> QED
    BY <2>2, <2>18
<1> QED
  BY <1>4, <1>5

(* Of the addresses of a device at most one of each pool is kept, and of a pool that has  *)
(* only one, this (categorizeDeviceAddresses).                                *)
THEOREM Categorized ==
    ASSUME NEW P, Listing(P), NEW s \in Seq(Prefix)
    PROVE  LET kept == Categorize(s, P) IN
           /\ kept.keep \in Seq(Prefix)
           /\ kept.covered \subseteq Pool
           /\ Own(kept.keep) \subseteq Own(s)
           /\ Distinct(s) => Distinct(kept.keep)
           /\ Fitting(kept.keep, P, kept.covered)
           /\ Len(kept.keep) = Len(s) => kept.keep = s
           /\ \A k \in DOMAIN s : Lone(k, s, P) => \E m \in DOMAIN kept.keep : kept.keep[m] = s[k]
<1> DEFINE kept[n \in 0 .. Len(s)] ==
             IF n = 0 THEN [keep |-> <<>>, covered |-> {}] ELSE Keeping(kept[n - 1], s[n], P)
<1>1. \E g : g = [n \in 0 .. Len(s) |->
                   IF n = 0 THEN [keep |-> <<>>, covered |-> {}] ELSE Keeping(g[n - 1], s[n], P)]
  BY KeptExists
<1>2. kept = [n \in 0 .. Len(s) |->
               IF n = 0 THEN [keep |-> <<>>, covered |-> {}] ELSE Keeping(kept[n - 1], s[n], P)]
  BY <1>1
<1>3. Categorize(s, P) = kept[Len(s)]
  BY DEF Categorize
<1> HIDE DEF kept
<1> DEFINE Bad == {n \in 0 .. Len(s) : ~Fine(kept[n], n, s, P)}
<1>4. Len(s) \in Nat /\ DOMAIN s = 1 .. Len(s)
  OBVIOUS
<1>5. Bad = {}
  <2> SUFFICES ASSUME Bad # {} PROVE FALSE
    OBVIOUS
  <2> DEFINE n == Min(Bad)
  <2>1. Bad \in SUBSET Nat
    BY <1>4
  <2>2. n \in Bad /\ \A m \in Bad : n <= m
    BY <2>1, Least
  <2>3. n \in 0 .. Len(s) /\ ~Fine(kept[n], n, s, P)
    BY <2>2
  <2>4. \A m \in 0 .. Len(s) : m < n => Fine(kept[m], m, s, P)
    BY <1>4, <2>2, <2>3
  <2> HIDE DEF n, Bad
  <2>5. CASE n = 0
    <3>1. kept[0] = [keep |-> <<>>, covered |-> {}]
      BY <1>2, <1>4
    <3>2. Fitting(<<>>, P, {})
      BY FittingNone
    <3>3. Own(<<>>) = {} /\ Distinct(<<>>)
      BY DEF Own, Distinct
    <3>4. Fine([keep |-> <<>>, covered |-> {}], 0, s, P)
      BY <3>2, <3>3 DEF Fine
    <3> QED
      BY <2>3, <2>5, <3>1, <3>4
  <2>6. CASE n # 0
    <3> DEFINE m == n - 1
    <3>1. m \in Nat /\ m \in 0 .. Len(s) /\ m < n /\ n = m + 1 /\ m + 1 <= Len(s)
      BY <1>4, <2>3, <2>6
    <3>2. kept[n] = Keeping(kept[m], s[n], P)
      BY <1>2, <2>3, <2>6
    <3> HIDE DEF m
    <3>3. Fine(kept[m], m, s, P)
      BY <2>4, <3>1
    <3>4. Fine(Keeping(kept[m], s[m + 1], P), m + 1, s, P)
      BY <3>1, <3>3, FineKeeping
    <3> QED
      BY <2>3, <3>1, <3>2, <3>4
  <2> QED
    BY <2>5, <2>6
<1>6. Fine(kept[Len(s)], Len(s), s, P)
  BY <1>4, <1>5
<1>7. \A n \in Nat : n = Len(s) => {s[i].addr : i \in 1 .. n} = Own(s)
  BY <1>4 DEF Own
<1>8. ASSUME Len(kept[Len(s)].keep) = Len(s)
      PROVE  kept[Len(s)].keep = s
  <2>1. kept[Len(s)].keep \in Seq(Prefix) /\ \A i \in 1 .. Len(s) : kept[Len(s)].keep[i] = s[i]
    BY <1>6, <1>8 DEF Fine
  <2> QED
    BY <1>8, <2>1
<1> QED
  BY <1>3, <1>4, <1>6, <1>7, <1>8 DEF Fine

-----------------------------------------------------------------------------
(* Types, and what a request knows at each stage.                             *)

Kind == Writes \cup {"none", "pool", "template"}

Stage == {"new", "done", "insert", "update", "endSessions", "allocate", "insertAddress", "write",
          "endSession", "listDevices", "nextDevice", "rewrite", "delete"}

Requests ==
    [kind : Kind, stage : Stage, template : Template \cup {None}, device : Device \cup {None},
     pools : Seq(Entry), addrs : Seq(Prefix), keep : Seq(Prefix), old : Seq(Prefix),
     covered : SUBSET Pool, todo : SUBSET (Pool \cup Device), handled : SUBSET Device,
     changed : BOOLEAN, alone : BOOLEAN]

StageForm(l) ==
    \/ l = Blank
    \/ l.stage = "done"
    \/ /\ l.kind = "template" /\ l.stage \in {"insert", "update", "endSessions"}
       /\ l.template \in Template /\ l.todo \subseteq Pool
    \/ l.kind = "create" /\ l.stage \in {"allocate", "insert"} /\ l.template \in Template
    \/ l.kind = "create" /\ l.stage = "insertAddress" /\ l.device \in Device
    \/ l.kind = "updateDevice" /\ l.stage \in {"write", "endSession"} /\ l.device \in Device
    \/ /\ l.kind = "resync" /\ l.stage \in {"listDevices", "nextDevice"}
       /\ l.template \in Template /\ l.todo \subseteq Device
    \/ /\ l.kind = "resync" /\ l.stage \in {"allocate", "rewrite", "delete"}
       /\ l.template \in Template /\ l.todo \subseteq Device /\ l.device \in Device

CallForm(l) == l \in Requests /\ Listing(l.pools) /\ StageForm(l)

CallsOK == call \in [Call -> Requests] /\ \A c \in Call : CallForm(call[c])

TableOK ==
    /\ range \in [Pool -> Span \cup {None}]
    /\ template \subseteq Template
    /\ pools \in [Template -> SUBSET Pool]
    /\ \A t \in template : \A p \in pools[t] : range[p] # None
    /\ moved \subseteq Template

DeviceOK ==
    /\ device \in [Device -> Template \cup {None}]
    /\ addrs \in [Device -> Seq(Prefix)]
    /\ session \in [Device -> {"none", "current", "outdated"}]
    /\ excuse \in [Device -> Cause]
    /\ unsafe \subseteq Device
    /\ \A d \in Device :
        /\ device[d] \in template \cup {None}
        /\ ~Exists(d) => addrs[d] = <<>> /\ session[d] = "none" /\ d \notin unsafe

Typed == TableOK /\ DeviceOK /\ CallsOK

LEMMA NoneFacts == /\ None \notin Call /\ None \notin Device /\ None \notin Template
                   /\ None \notin Pool /\ None \notin Span
  BY NoneAssumption

LEMMA BlankForm ==
    /\ Blank \in Requests /\ CallForm(Blank)
    /\ \A kind \in Kind, stage \in Stage :
        /\ Request(kind, stage) \in Requests
        /\ Request(kind, stage).kind = kind /\ Request(kind, stage).stage = stage
        /\ Request(kind, stage).pools = <<>> /\ Request(kind, stage).todo = {}
<1>1. Blank \in Requests
  BY DEF Blank, Requests, Kind, Stage
<1>2. Listing(<<>>)
  <2>1. <<>> \in Seq(Entry) /\ DOMAIN <<>> = {}
    OBVIOUS
  <2> QED
    BY <2>1 DEF Listing
<1>3. CallForm(Blank)
  BY <1>1, <1>2 DEF CallForm, StageForm, Blank
<1>4. ASSUME NEW kind \in Kind, NEW stage \in Stage
      PROVE  /\ Request(kind, stage) \in Requests
             /\ Request(kind, stage).kind = kind /\ Request(kind, stage).stage = stage
             /\ Request(kind, stage).pools = <<>> /\ Request(kind, stage).todo = {}
  BY <1>1 DEF Blank, Request, Requests
<1> QED
  BY <1>1, <1>3, <1>4

(* Requests that are answered in one step. *)
LEMMA PlainForm ==
    ASSUME NEW kind \in Kind
    PROVE  CallForm(Request(kind, "done")) /\ Request(kind, "done").kind = kind
<1>1. /\ Request(kind, "done") \in Requests
      /\ Request(kind, "done").kind = kind /\ Request(kind, "done").stage = "done"
      /\ Request(kind, "done").pools = <<>>
  BY BlankForm DEF Stage
<1>2. Listing(<<>>)
  BY DEF Listing
<1> QED
  BY <1>1, <1>2 DEF CallForm, StageForm

LEMMA DoneForm ==
    ASSUME NEW l, CallForm(l)
    PROVE  CallForm([l EXCEPT !.stage = "done"])
<1>1. [l EXCEPT !.stage = "done"] \in Requests /\ [l EXCEPT !.stage = "done"].pools = l.pools
      /\ [l EXCEPT !.stage = "done"].stage = "done"
  BY DEF CallForm, Requests, Stage
<1> QED
  BY <1>1 DEF CallForm, StageForm

LEMMA AloneForm ==
    ASSUME NEW l, CallForm(l), l # Blank, NEW b \in BOOLEAN
    PROVE  CallForm([l EXCEPT !.alone = b])
<1> DEFINE m == [l EXCEPT !.alone = b]
<1>1. /\ m \in Requests
      /\ m.kind = l.kind /\ m.stage = l.stage /\ m.template = l.template /\ m.device = l.device
      /\ m.pools = l.pools /\ m.todo = l.todo
  BY DEF CallForm, Requests
<1> HIDE DEF m
<1>2. StageForm(m)
  BY <1>1 DEF CallForm, StageForm
<1> QED
  BY <1>1, <1>2 DEF CallForm, m

LEMMA SetForm ==
    ASSUME CallsOK, NEW c \in Call, NEW l, CallForm(l), Set(c, l)
    PROVE  CallsOK'
<1>1. l \in Requests
  BY DEF CallForm
<1>2. call' \in [Call -> Requests] /\ call'[c] = l /\ \A b \in Call \ {c} : call'[b] = call[b]
  BY <1>1 DEF CallsOK, Set
<1> QED
  BY <1>2 DEF CallsOK

LEMMA BeginForm ==
    ASSUME CallsOK, NEW c \in Call, NEW l, CallForm(l), Begin(c, l)
    PROVE  CallsOK'
  BY SetForm DEF Begin, Set

LEMMA BeginWritingForm ==
    ASSUME CallsOK, NEW c \in Call, NEW l, CallForm(l), l.kind \in Writes, BeginWriting(c, l)
    PROVE  CallsOK'
<1> DEFINE others == {b \in Call \ {c} : call[b].kind \in Writes /\ call[b].stage # "done"}
<1>1. Blank.kind \notin Writes
  BY DEF Blank, Writes
<1>2. CallForm([l EXCEPT !.alone = others = {}])
  <2>1. (others = {}) \in BOOLEAN
    OBVIOUS
  <2> HIDE DEF others
  <2> QED
    BY <1>1, <2>1, AloneForm
<1>3. \A b \in others : CallForm([call[b] EXCEPT !.alone = FALSE])
  BY <1>1, AloneForm DEF CallsOK
<1>4. call' = [b \in Call |-> IF b = c THEN [l EXCEPT !.alone = others = {}]
                               ELSE IF b \in others THEN [call[b] EXCEPT !.alone = FALSE]
                               ELSE call[b]]
  BY DEF BeginWriting
<1> HIDE DEF others
<1>5. \A b \in Call : CallForm(call'[b])
  BY <1>2, <1>3, <1>4 DEF CallsOK
<1>6. \A b \in Call : call'[b] \in Requests
  BY <1>5 DEF CallForm
<1>7. call' \in [Call -> Requests]
  BY <1>4, <1>6
<1> QED
  BY <1>5, <1>7 DEF CallsOK

(* The pools of a template are listed each once. *)
LEMMA ListedForm ==
    ASSUME TableOK, NEW t \in template, NEW s \in Listed(t)
    PROVE  Listing(s)
<1>1. pools[t] \in SUBSET Pool /\ \A p \in pools[t] : p \in Pool /\ range[p] \in Span
  BY DEF TableOK
<1>2. IsFiniteSet(pools[t])
  BY <1>1, PoolAssumption, FS_Subset
<1> DEFINE n == Cardinality(pools[t])
<1>3. n \in Nat
  BY <1>2, FS_CardinalityType
<1>4. PICK q \in SetToSeqs(pools[t]) : s = [i \in DOMAIN q |-> [pool |-> q[i], range |-> range[q[i]]]]
  BY DEF Listed
<1>5. q \in [1 .. n -> pools[t]] /\ \A i, j \in 1 .. n : i # j => q[i] # q[j]
  BY <1>4 DEF SetToSeqs
<1> HIDE DEF n
<1>6. /\ s = [i \in 1 .. n |-> [pool |-> q[i], range |-> range[q[i]]]]
      /\ \A i \in 1 .. n : q[i] \in pools[t]
  BY <1>4, <1>5
<1>7. \A i \in 1 .. n : [pool |-> q[i], range |-> range[q[i]]] \in Entry
  BY <1>1, <1>6 DEF Entry
<1>8. s \in [1 .. n -> Entry]
  BY <1>6, <1>7
<1>9. s \in Seq(Entry)
  BY <1>3, <1>8
<1>10. \A i, j \in 1 .. n : s[i].pool = s[j].pool => i = j
  BY <1>5, <1>6
<1> QED
  BY <1>8, <1>9, <1>10 DEF Listing

LEMMA InitTyped == Init => Typed
<1> SUFFICES ASSUME Init PROVE Typed
  OBVIOUS
<1>1. TableOK
  BY NoneFacts DEF Init, TableOK
<1>2. DeviceOK
  <2>1. PICK D \in SUBSET Device, t \in Template, g \in [Device -> Given] :
          /\ device = [d \in Device |-> IF d \in D THEN t ELSE None]
          /\ addrs = [d \in Device |-> IF d \in D THEN g[d] ELSE <<>>]
          /\ session = [d \in Device |-> IF d \in D THEN "current" ELSE "none"]
          /\ \A d \in D : Own(addrs[d]) \cap UsedBut(d) = {} /\ Distinct(addrs[d])
    BY DEF Init
  <2>2. \A d \in Device : g[d] \in Seq(Prefix)
    BY GivenAssumption
  <2>3. addrs \in [Device -> Seq(Prefix)]
    BY <2>1, <2>2
  <2>4. \A d \in Device : Exists(d) <=> d \in D
    BY <2>1, NoneFacts DEF Exists
  <2> QED
    BY <2>1, <2>3, <2>4 DEF DeviceOK, Init, Cause
<1>3. CallsOK
  BY BlankForm DEF Init, CallsOK
<1> QED
  BY <1>1, <1>2, <1>3 DEF Typed

(* Devices that are deleted have nothing left. *)
LEMMA EraseForm ==
    ASSUME Typed, NEW D \in SUBSET Device, Erase(D),
           template' \subseteq template, \A d \in Device \ D : device[d] \in template' \cup {None}
    PROVE  DeviceOK'
<1>1. /\ device' = [d \in Device |-> IF d \in D THEN None ELSE device[d]]
      /\ addrs' = [d \in Device |-> IF d \in D THEN <<>> ELSE addrs[d]]
      /\ session' = [d \in Device |-> IF d \in D THEN "none" ELSE session[d]]
      /\ excuse' = [d \in Device |-> IF d \in D THEN "no" ELSE excuse[d]]
      /\ unsafe' = unsafe \ D
  BY DEF Erase
<1>2. DeviceOK
  BY DEF Typed
<1>3. /\ device' \in [Device -> Template \cup {None}]
      /\ session' \in [Device -> {"none", "current", "outdated"}]
      /\ excuse' \in [Device -> Cause]
      /\ unsafe' \subseteq Device
  BY <1>1, <1>2 DEF DeviceOK, Cause
<1>4. addrs' \in [Device -> Seq(Prefix)]
  <2>1. <<>> \in Seq(Prefix)
    OBVIOUS
  <2> QED
    BY <1>1, <1>2, <2>1 DEF DeviceOK
<1>5. \A d \in Device :
        /\ device'[d] \in template' \cup {None}
        /\ device'[d] = None => addrs'[d] = <<>> /\ session'[d] = "none" /\ d \notin unsafe'
  BY <1>1, <1>2 DEF DeviceOK, Exists
<1> QED
  BY <1>3, <1>4, <1>5 DEF DeviceOK, Exists

(* Addresses of a device that exists change, and its session is outdated. *)
LEMMA OutdateForm ==
    ASSUME Typed, NEW d \in Device, Exists(d), NEW s \in Seq(Prefix), NEW cause \in Cause,
           addrs' = [addrs EXCEPT ![d] = s],
           unsafe' \subseteq unsafe \cup {d},
           Outdate(d, cause) \/ UNCHANGED <<session, excuse>>,
           UNCHANGED <<template, device>>
    PROVE  DeviceOK'
<1>1. DeviceOK
  BY DEF Typed
<1>2. addrs' \in [Device -> Seq(Prefix)] /\ \A e \in Device \ {d} : addrs'[e] = addrs[e]
  BY <1>1 DEF DeviceOK
<1>3. /\ session' \in [Device -> {"none", "current", "outdated"}]
      /\ \A e \in Device \ {d} : session'[e] = session[e]
  BY <1>1 DEF DeviceOK, Outdate
<1>4. excuse' \in [Device -> Cause]
  <2>1. CASE Outdate(d, cause)
    <3>1. excuse' = [excuse EXCEPT ![d] = IF session'[d] = "outdated" /\ cause # "no" THEN cause ELSE @]
      BY <2>1 DEF Outdate
    <3> QED
      BY <1>1, <3>1 DEF DeviceOK
  <2> QED
    BY <1>1, <2>1 DEF DeviceOK
<1>5. device'[d] # None
  BY DEF Exists
<1> QED
  BY <1>1, <1>2, <1>3, <1>4, <1>5 DEF DeviceOK, Exists

LEMMA StartTyped ==
    ASSUME Typed, NEW c \in Call, Start(c)
    PROVE  Typed'
<1> USE DEF Typed
<1>1. ASSUME NEW p \in Pool, DeleteAddressPool(c, p)
      PROVE  Typed'
  <2>1. CallForm(Request("pool", "done"))
    BY PlainForm DEF Kind
  <2>2. CallsOK'
    BY <1>1, <2>1, BeginForm DEF DeleteAddressPool
  <2>3. TableOK'
    BY <1>1 DEF DeleteAddressPool, Restricted, TableOK
  <2>4. DeviceOK'
    BY <1>1 DEF DeleteAddressPool, DeviceOK, Exists
  <2> QED
    BY <2>2, <2>3, <2>4
<1>2. ASSUME NEW p \in Pool, NEW r \in Span, CreateAddressPool(c, p, r)
      PROVE  Typed'
  <2>1. CallForm(Request("pool", "done"))
    BY PlainForm DEF Kind
  <2>2. CallsOK'
    BY <1>2, <2>1, BeginForm DEF CreateAddressPool
  <2>3. TableOK'
    BY <1>2, NoneFacts DEF CreateAddressPool, TableOK
  <2>4. DeviceOK'
    BY <1>2 DEF CreateAddressPool, DeviceOK, Exists
  <2> QED
    BY <2>2, <2>3, <2>4
<1>3. ASSUME NEW p \in Pool, NEW r \in Span, UpdateAddressPool(c, p, r)
      PROVE  Typed'
  <2>1. CallForm(Request("pool", "done"))
    BY PlainForm DEF Kind
  <2>2. call' = [b \in Call |-> IF b = c THEN Request("pool", "done")
                                ELSE IF p \in call[b].todo THEN [call[b] EXCEPT !.alone = FALSE]
                                ELSE call[b]]
    BY <1>3 DEF UpdateAddressPool
  <2>3. Blank.todo = {}
    BY DEF Blank
  <2>4. \A b \in Call : p \in call[b].todo => CallForm([call[b] EXCEPT !.alone = FALSE])
    BY <2>3, AloneForm DEF CallsOK
  <2>5. \A b \in Call : CallForm(call'[b])
    BY <2>1, <2>2, <2>4 DEF CallsOK
  <2>6. \A b \in Call : call'[b] \in Requests
    BY <2>5 DEF CallForm
  <2>7. call' \in [Call -> Requests]
    BY <2>2, <2>6
  <2>8. CallsOK'
    BY <2>5, <2>7 DEF CallsOK
  <2>9. TableOK'
    BY <1>3, NoneFacts DEF UpdateAddressPool, TableOK
  <2>10. DeviceOK'
    BY <1>3 DEF UpdateAddressPool, DeviceOK, Exists
  <2> QED
    BY <2>8, <2>9, <2>10
<1>4. ASSUME NEW t \in Template, NEW P \in SUBSET Pool, NEW changed \in BOOLEAN,
             LookAtPools(c, t, P, changed)
      PROVE  Typed'
  <2> DEFINE stage == IF t \in template THEN "update" ELSE "insert"
             l == [Request("template", stage) EXCEPT !.template = t, !.todo = P, !.changed = changed]
  <2>1. /\ "template" \in Kind /\ stage \in Stage
    BY DEF Kind, Stage
  <2>2. /\ Request("template", stage) \in Requests
        /\ Request("template", stage).kind = "template" /\ Request("template", stage).stage = stage
        /\ Request("template", stage).pools = <<>>
    BY <2>1, BlankForm
  <2>3. /\ l \in Requests /\ l.kind = "template" /\ l.stage = stage /\ l.template = t /\ l.todo = P
        /\ l.pools = <<>>
    BY <2>2 DEF Requests
  <2>4. Listing(<<>>)
    BY DEF Listing
  <2>5. Begin(c, l)
    BY <1>4 DEF LookAtPools
  <2> HIDE DEF l
  <2>6. CallForm(l)
    BY <2>3, <2>4 DEF CallForm, StageForm
  <2>7. CallsOK'
    BY <2>5, <2>6, BeginForm
  <2>8. TableOK'
    BY <1>4 DEF LookAtPools, TableOK, table
  <2>9. DeviceOK'
    BY <1>4 DEF LookAtPools, DeviceOK, Exists, table
  <2> QED
    BY <2>7, <2>8, <2>9
<1>5. ASSUME NEW t \in Template, DeleteTemplate(c, t)
      PROVE  Typed'
  <2>1. CallForm(Request("deleteTemplate", "done")) /\ Request("deleteTemplate", "done").kind \in Writes
    BY PlainForm DEF Kind, Writes
  <2>2. CallsOK'
    BY <1>5, <2>1, BeginWritingForm DEF DeleteTemplate
  <2>3. TableOK'
    BY <1>5 DEF DeleteTemplate, TableOK
  <2> DEFINE D == {d \in Device : device[d] = t}
  <2>4. template' = template \ {t} /\ Erase(D)
    BY <1>5 DEF DeleteTemplate
  <2>5. D \in SUBSET Device /\ \A d \in Device \ D : device[d] \in template' \cup {None}
    BY <2>4 DEF DeviceOK
  <2> HIDE DEF D
  <2>6. DeviceOK'
    BY <2>4, <2>5, EraseForm
  <2> QED
    BY <2>2, <2>3, <2>6
<1>6. ASSUME NEW t \in Template, CreateDevice(c, t)
      PROVE  Typed'
  <2>1. PICK s \in Listed(t) :
          BeginWriting(c, [Request("create", "allocate") EXCEPT !.template = t, !.pools = s])
    BY <1>6 DEF CreateDevice
  <2> DEFINE l == [Request("create", "allocate") EXCEPT !.template = t, !.pools = s]
  <2>2. Listing(s)
    BY <1>6, ListedForm DEF CreateDevice
  <2>3. /\ Request("create", "allocate") \in Requests
        /\ Request("create", "allocate").kind = "create" /\ Request("create", "allocate").stage = "allocate"
    BY BlankForm DEF Kind, Stage, Writes
  <2>4. /\ l \in Requests /\ l.kind = "create" /\ l.stage = "allocate" /\ l.template = t /\ l.pools = s
    BY <2>2, <2>3 DEF Requests, Listing
  <2> HIDE DEF l
  <2>5. CallForm(l) /\ l.kind \in Writes
    BY <2>2, <2>4 DEF CallForm, StageForm, Writes
  <2>6. CallsOK'
    BY <2>1, <2>5, BeginWritingForm DEF l
  <2>7. TableOK'
    BY <1>6 DEF CreateDevice, TableOK, table
  <2>8. DeviceOK'
    BY <1>6 DEF CreateDevice, DeviceOK, Exists, table
  <2> QED
    BY <2>6, <2>7, <2>8
<1>7. ASSUME NEW t \in Template, NEW g \in Given, CreateGivenDevice(c, t, g)
      PROVE  Typed'
  <2> DEFINE l == [Request("create", "insert") EXCEPT !.template = t, !.addrs = g]
  <2>1. /\ Request("create", "insert") \in Requests /\ Request("create", "insert").pools = <<>>
        /\ Request("create", "insert").kind = "create" /\ Request("create", "insert").stage = "insert"
    BY BlankForm DEF Kind, Stage, Writes
  <2>2. /\ l \in Requests /\ l.kind = "create" /\ l.stage = "insert" /\ l.template = t /\ l.pools = <<>>
    BY <2>1, GivenAssumption DEF Requests
  <2>3. BeginWriting(c, l)
    BY <1>7 DEF CreateGivenDevice
  <2> HIDE DEF l
  <2>4. Listing(<<>>)
    BY DEF Listing
  <2>5. CallForm(l) /\ l.kind \in Writes
    BY <2>2, <2>4 DEF CallForm, StageForm, Writes
  <2>6. CallsOK'
    BY <2>3, <2>5, BeginWritingForm
  <2>7. TableOK'
    BY <1>7 DEF CreateGivenDevice, TableOK, table
  <2>8. DeviceOK'
    BY <1>7 DEF CreateGivenDevice, DeviceOK, Exists, table
  <2> QED
    BY <2>6, <2>7, <2>8
<1>8. ASSUME NEW t \in Template, Resync(c, t)
      PROVE  Typed'
  <2>1. PICK s \in Listed(t) :
          BeginWriting(c, [Request("resync", "listDevices") EXCEPT !.template = t, !.pools = s])
    BY <1>8 DEF Resync
  <2> DEFINE l == [Request("resync", "listDevices") EXCEPT !.template = t, !.pools = s]
  <2>2. Listing(s)
    BY <1>8, ListedForm DEF Resync
  <2>3. /\ Request("resync", "listDevices") \in Requests
        /\ Request("resync", "listDevices").kind = "resync" /\ Request("resync", "listDevices").stage = "listDevices"
        /\ Request("resync", "listDevices").todo = {}
    BY BlankForm DEF Kind, Stage, Writes
  <2>4. /\ l \in Requests /\ l.kind = "resync" /\ l.stage = "listDevices" /\ l.template = t /\ l.pools = s
        /\ l.todo = {}
    BY <2>2, <2>3 DEF Requests, Listing
  <2> HIDE DEF l
  <2>5. CallForm(l) /\ l.kind \in Writes
    BY <2>2, <2>4 DEF CallForm, StageForm, Writes
  <2>6. CallsOK'
    BY <2>1, <2>5, BeginWritingForm DEF l
  <2>7. TableOK'
    BY <1>8 DEF Resync, TableOK, table
  <2>8. DeviceOK'
    BY <1>8 DEF Resync, DeviceOK, Exists, table
  <2> QED
    BY <2>6, <2>7, <2>8
<1>9. ASSUME NEW d \in Device, DeleteDevice(c, d)
      PROVE  Typed'
  <2>1. CallForm(Request("deleteDevice", "done")) /\ Request("deleteDevice", "done").kind \in Writes
    BY PlainForm DEF Kind, Writes
  <2>2. CallsOK'
    BY <1>9, <2>1, BeginWritingForm DEF DeleteDevice
  <2>3. TableOK'
    BY <1>9 DEF DeleteDevice, TableOK
  <2>4. DeviceOK'
    BY <1>9, EraseForm DEF DeleteDevice, DeviceOK
  <2> QED
    BY <2>2, <2>3, <2>4
<1>10. ASSUME NEW d \in Device, NEW g \in Given, UpdateDevice(c, d, g)
       PROVE  Typed'
  <2> DEFINE l == [Request("updateDevice", "write") EXCEPT !.device = d, !.addrs = g, !.old = addrs[d]]
  <2>1. /\ Request("updateDevice", "write") \in Requests /\ Request("updateDevice", "write").pools = <<>>
        /\ Request("updateDevice", "write").kind = "updateDevice"
        /\ Request("updateDevice", "write").stage = "write"
    BY BlankForm DEF Kind, Stage, Writes
  <2>2. /\ l \in Requests /\ l.kind = "updateDevice" /\ l.stage = "write" /\ l.device = d /\ l.pools = <<>>
    BY <2>1, GivenAssumption DEF Requests, DeviceOK
  <2>3. BeginWriting(c, l)
    BY <1>10 DEF UpdateDevice
  <2> HIDE DEF l
  <2>4. Listing(<<>>)
    BY DEF Listing
  <2>5. CallForm(l) /\ l.kind \in Writes
    BY <2>2, <2>4 DEF CallForm, StageForm, Writes
  <2>6. CallsOK'
    BY <2>3, <2>5, BeginWritingForm
  <2>7. TableOK'
    BY <1>10 DEF UpdateDevice, TableOK, table
  <2>8. DeviceOK'
    BY <1>10 DEF UpdateDevice, DeviceOK, Exists, table
  <2> QED
    BY <2>6, <2>7, <2>8
<1> QED
  BY <1>1, <1>2, <1>3, <1>4, <1>5, <1>6, <1>7, <1>8, <1>9, <1>10 DEF Start

(* A list in another order has the same addresses. *)
LEMMA Permuted ==
    ASSUME NEW s \in Seq(Prefix), NEW q \in SetToSeqs(DOMAIN s)
    PROVE  LET u == [i \in DOMAIN q |-> s[q[i]]] IN
           /\ u \in Seq(Prefix)
           /\ Own(u) \subseteq Own(s)
           /\ Distinct(s) => Distinct(u)
<1> DEFINE n == Cardinality(DOMAIN s)
           u == [i \in DOMAIN q |-> s[q[i]]]
<1>1. Len(s) \in Nat /\ DOMAIN s = 1 .. Len(s)
  OBVIOUS
<1>2. IsFiniteSet(1 .. Len(s))
  BY <1>1, FS_Interval
<1>3. n \in Nat
  BY <1>1, <1>2, FS_CardinalityType
<1>4. q \in [1 .. n -> DOMAIN s] /\ \A i, j \in 1 .. n : i # j => q[i] # q[j]
  BY DEF SetToSeqs
<1> HIDE DEF n
<1>5. \A i \in 1 .. n : q[i] \in DOMAIN s /\ s[q[i]] \in Prefix
  BY <1>4
<1>6. u \in [1 .. n -> Prefix] /\ \A i \in 1 .. n : u[i] = s[q[i]]
  BY <1>4, <1>5
<1>7. u \in Seq(Prefix) /\ DOMAIN u = 1 .. n
  BY <1>3, <1>6
<1> HIDE DEF u
<1>8. Own(u) \subseteq Own(s)
  BY <1>5, <1>6, <1>7 DEF Own
<1>9. Distinct(s) => Distinct(u)
  BY <1>4, <1>5, <1>6, <1>7 DEF Distinct
<1> QED
  BY <1>7, <1>8, <1>9 DEF u

(* A device at which an error occurs is left as it was. *)
LEMMA FailFacts ==
    ASSUME NEW c \in Call, CallForm(call[c]), FailDevice(c),
           NEW m, m = [call[c] EXCEPT !.stage = "nextDevice"]
    PROVE  /\ call[c].kind = "resync" /\ call[c].stage \in {"allocate", "rewrite", "delete"}
           /\ Set(c, m) /\ CallForm(m) /\ m.stage = "nextDevice" /\ m.kind = call[c].kind
           /\ m.alone = call[c].alone /\ m.pools = call[c].pools /\ m.todo = call[c].todo
           /\ m.handled = call[c].handled
           /\ UNCHANGED <<range, template, pools, device, addrs, session, moved, unsafe, excuse>>
<1> DEFINE l == call[c]
<1>1. /\ l.kind = "resync" /\ l.stage \in {"allocate", "rewrite", "delete"} /\ Set(c, m)
      /\ UNCHANGED <<range, template, pools, device, addrs, session, moved, unsafe, excuse>>
  BY DEF FailDevice, Goto, table
<1>2. /\ m \in Requests /\ m.stage = "nextDevice" /\ m.kind = l.kind /\ m.alone = l.alone
      /\ m.pools = l.pools /\ m.todo = l.todo /\ m.handled = l.handled /\ m.template = l.template
  BY DEF CallForm, Requests, Stage
<1> HIDE DEF l
<1>3. CallForm(l)
  BY DEF l
<1>4. l.template \in Template /\ l.todo \subseteq Device
  BY <1>1, <1>3 DEF CallForm, StageForm, Blank
<1>5. CallForm(m)
  BY <1>1, <1>2, <1>3, <1>4 DEF CallForm, StageForm
<1> QED
  BY <1>1, <1>2, <1>5 DEF l

LEMMA ContinueTyped ==
    ASSUME Typed, NEW c \in Call, Continue(c)
    PROVE  Typed'
<1> USE DEF Typed
<1> DEFINE l == call[c]
<1>a. CallForm(l) /\ l \in Requests
  BY DEF CallsOK, CallForm
<1>b. CallForm([l EXCEPT !.stage = "done"])
  BY <1>a, DoneForm
<1>1. ASSUME WriteTemplate(c)
      PROVE  Typed'
  <2>1. l.kind = "template" /\ l.stage \in {"insert", "update"}
    BY <1>1 DEF WriteTemplate
  <2>2. l.template \in Template /\ l.todo \subseteq Pool
    BY <1>a, <2>1 DEF CallForm, StageForm, Blank
  <2>3. CASE (l.template \in template) = (l.stage = "update") /\ \A p \in l.todo : range[p] # None
    <3> DEFINE stage == IF l.changed THEN "endSessions" ELSE "done"
               m == [l EXCEPT !.stage = stage, !.todo = {}]
               devices == {d \in Device : device[d] = l.template /\ l.changed /\ session[d] = "current"}
    <3>1. /\ template' = template \cup {l.template}
          /\ pools' = [pools EXCEPT ![l.template] = l.todo]
          /\ moved' = IF l.alone THEN moved \ {l.template} ELSE moved \cup {l.template}
          /\ session' = [d \in Device |-> IF d \in devices THEN "outdated" ELSE session[d]]
          /\ Set(c, m)
          /\ UNCHANGED <<range, device, addrs, unsafe, excuse>>
      BY <1>1, <2>3 DEF WriteTemplate
    <3>2. /\ m \in Requests /\ m.pools = l.pools /\ m.stage \in {"endSessions", "done"}
          /\ m.kind = l.kind /\ m.template = l.template /\ m.todo = {}
      BY <1>a DEF Requests, Stage
    <3> HIDE DEF m
    <3>3. CallForm(m)
      BY <1>a, <2>1, <2>2, <3>2 DEF CallForm, StageForm
    <3>4. CallsOK'
      BY <3>1, <3>3, SetForm
    <3>5. TableOK'
      BY <2>2, <2>3, <3>1 DEF TableOK
    <3>6. \A d \in devices : device[d] # None
      BY <2>2, NoneFacts
    <3>7. DeviceOK'
      BY <3>1, <3>6 DEF DeviceOK, Exists
    <3> QED
      BY <3>4, <3>5, <3>7
  <2>4. CASE ~((l.template \in template) = (l.stage = "update") /\ \A p \in l.todo : range[p] # None)
    <3> DEFINE m == [l EXCEPT !.stage = "done", !.todo = {}]
    <3>1. /\ Set(c, m)
          /\ UNCHANGED <<range, template, pools, moved, session, device, addrs, unsafe, excuse>>
      BY <1>1, <2>4 DEF WriteTemplate
    <3>2. m \in Requests /\ m.pools = l.pools /\ m.stage = "done"
      BY <1>a DEF Requests, Stage
    <3> HIDE DEF m
    <3>3. CallForm(m)
      BY <1>a, <3>2 DEF CallForm, StageForm
    <3>4. CallsOK'
      BY <3>1, <3>3, SetForm
    <3>5. TableOK'
      BY <3>1 DEF TableOK
    <3>6. DeviceOK'
      BY <3>1 DEF DeviceOK, Exists
    <3> QED
      BY <3>4, <3>5, <3>6
  <2> QED
    BY <2>3, <2>4
<1>2. ASSUME EndSessions(c)
      PROVE  Typed'
  <2>1. CallsOK'
    BY <1>2, <1>b, SetForm DEF EndSessions, Goto
  <2>2. TableOK'
    BY <1>2 DEF EndSessions, TableOK, table
  <2>3. DeviceOK'
    BY <1>2 DEF EndSessions, DeviceOK, Exists, table, Cause
  <2> QED
    BY <2>1, <2>2, <2>3
<1>3. ASSUME Allocate(c)
      PROVE  Typed'
  <2> DEFINE rest == {i \in DOMAIN l.pools : l.pools[i].pool \notin l.covered}
             p == l.pools[Min(rest)]
             a == FirstAvailableAddress(p.range, Used(p.range))
  <2>1. /\ l.stage = "allocate"
        /\ Set(c, IF rest = {} THEN [l EXCEPT !.stage = IF l.kind = "create" THEN "insert" ELSE "rewrite"]
                  ELSE IF a = None THEN [l EXCEPT !.stage = IF l.kind = "create" THEN "done" ELSE "delete"]
                  ELSE [l EXCEPT !.addrs = Append(@, a), !.covered = @ \cup {p.pool}])
        /\ UNCHANGED <<table, session, unsafe, moved, excuse>>
    BY <1>3 DEF Allocate
  <2>2. \/ l.kind = "create" /\ l.template \in Template
        \/ l.kind = "resync" /\ l.template \in Template /\ l.todo \subseteq Device /\ l.device \in Device
    <3>1. l.stage = "allocate"
      BY <2>1
    <3> HIDE DEF l
    <3> QED
      BY <1>a, <3>1 DEF CallForm, StageForm, Blank
  <2>3. ASSUME NEW m, Set(c, m), CallForm(m)
        PROVE  Typed'
    <3>1. CallsOK'
      BY <2>3, SetForm
    <3>2. TableOK' /\ DeviceOK'
      BY <2>1 DEF TableOK, DeviceOK, Exists, table
    <3> QED
      BY <3>1, <3>2
  <2>4. ASSUME NEW stage \in {"insert", "rewrite", "done", "delete"},
               l.kind = "create" => stage \in {"insert", "done"},
               l.kind = "resync" => stage \in {"rewrite", "delete"}
        PROVE  CallForm([l EXCEPT !.stage = stage])
    <3> DEFINE m == [l EXCEPT !.stage = stage]
    <3>1. /\ m \in Requests /\ m.pools = l.pools /\ m.stage = stage /\ m.kind = l.kind
          /\ m.template = l.template /\ m.todo = l.todo /\ m.device = l.device
      BY <1>a DEF Requests, Stage
    <3> HIDE DEF m
    <3>2. CallForm(m)
      BY <1>a, <2>2, <2>4, <3>1 DEF CallForm, StageForm
    <3> QED
      BY <3>2 DEF m
  <2>5. CASE rest = {}
    <3>1. Set(c, [l EXCEPT !.stage = IF l.kind = "create" THEN "insert" ELSE "rewrite"])
      BY <2>1, <2>5
    <3>2. CallForm([l EXCEPT !.stage = IF l.kind = "create" THEN "insert" ELSE "rewrite"])
      BY <2>2, <2>4
    <3> QED
      BY <2>3, <3>1, <3>2
  <2>6. CASE rest # {} /\ a = None
    <3>1. Set(c, [l EXCEPT !.stage = IF l.kind = "create" THEN "done" ELSE "delete"])
      BY <2>1, <2>6
    <3>2. CallForm([l EXCEPT !.stage = IF l.kind = "create" THEN "done" ELSE "delete"])
      BY <2>2, <2>4
    <3> QED
      BY <2>3, <3>1, <3>2
  <2>7. CASE rest # {} /\ a # None
    <3> DEFINE m == [l EXCEPT !.addrs = Append(@, a), !.covered = @ \cup {p.pool}]
    <3>1. Set(c, m)
      BY <2>1, <2>7
    <3>2. l.pools \in Seq(Entry)
      BY <1>a DEF CallForm, Listing
    <3>3. rest \in SUBSET Nat
      BY <3>2
    <3>4. Min(rest) \in rest
      BY <2>7, <3>3, Least
    <3>5. p \in Entry
      <4>1. Min(rest) \in DOMAIN l.pools
        BY <3>4
      <4> HIDE DEF rest, l
      <4> QED
        BY <3>2, <4>1
    <3>6. p.pool \in Pool /\ p.range \in Span
      BY <3>5 DEF Entry
    <3>7. a \in Prefix
      BY <2>7, <3>6, FoundAddress
    <3> HIDE DEF p, a, rest
    <3>8. l.addrs \in Seq(Prefix) /\ l.covered \subseteq Pool
      BY <1>a DEF Requests
    <3>9. Append(l.addrs, a) \in Seq(Prefix)
      BY <3>7, <3>8
    <3>10. /\ m \in Requests /\ m.pools = l.pools /\ m.stage = l.stage /\ m.kind = l.kind
           /\ m.template = l.template /\ m.todo = l.todo /\ m.device = l.device
      BY <1>a, <3>6, <3>8, <3>9 DEF Requests
    <3> HIDE DEF m
    <3>11. CallForm(m)
      BY <1>a, <2>1, <2>2, <3>10 DEF CallForm, StageForm
    <3> QED
      BY <2>3, <3>1, <3>11
  <2> QED
    BY <2>5, <2>6, <2>7
<1>4. ASSUME NEW d \in Device, InsertDevice(c, d)
      PROVE  Typed'
  <2>1. l.kind = "create" /\ l.stage = "insert" /\ ~Exists(d) /\ UNCHANGED <<range, template, pools, addrs, session, unsafe, moved, excuse>>
    BY <1>4 DEF InsertDevice, Unknown
  <2>2. l.template \in Template
    BY <1>a, <2>1 DEF CallForm, StageForm, Blank
  <2>3. TableOK'
    BY <2>1 DEF TableOK
  <2>4. CASE l.template \in template
    <3> DEFINE m == [l EXCEPT !.stage = "insertAddress", !.device = d]
    <3>1. device' = [device EXCEPT ![d] = l.template] /\ Set(c, m)
      BY <1>4, <2>4 DEF InsertDevice
    <3>2. m \in Requests /\ m.pools = l.pools /\ m.stage = "insertAddress" /\ m.kind = l.kind /\ m.device = d
      BY <1>a DEF Requests, Stage
    <3> HIDE DEF m
    <3>3. CallForm(m)
      BY <1>a, <2>1, <3>2 DEF CallForm, StageForm
    <3>4. CallsOK'
      BY <3>1, <3>3, SetForm
    <3>5. DeviceOK'
      BY <2>1, <2>2, <2>4, <3>1 DEF DeviceOK, Exists
    <3> QED
      BY <2>3, <3>4, <3>5
  <2>5. CASE l.template \notin template
    <3>1. Goto(c, "done") /\ UNCHANGED device
      BY <1>4, <2>5 DEF InsertDevice
    <3>2. CallsOK'
      BY <3>1, <1>b, SetForm DEF Goto
    <3>3. DeviceOK'
      BY <2>1, <3>1 DEF DeviceOK, Exists
    <3> QED
      BY <2>3, <3>2, <3>3
  <2> QED
    BY <2>4, <2>5
<1>5. ASSUME InsertAddress(c)
      PROVE  Typed'
  <2> DEFINE d == l.device
  <2>1. l.stage = "insertAddress" /\ UNCHANGED <<range, template, pools, device, moved>>
    BY <1>5 DEF InsertAddress
  <2>2. l.kind = "create" /\ d \in Device
    BY <1>a, <2>1 DEF CallForm, StageForm, Blank
  <2>3. TableOK'
    BY <2>1 DEF TableOK
  <2>4. CASE l.addrs # <<>> /\ Exists(d)
    <3> DEFINE m == [l EXCEPT !.addrs = Tail(@)]
               s == Append(addrs[d], Head(l.addrs))
    <3>1. /\ addrs' = [addrs EXCEPT ![d] = s]
          /\ Set(c, m)
          /\ unsafe' \subseteq unsafe \cup {d}
          /\ Outdate(d, "overlap")
      BY <1>5, <2>4 DEF InsertAddress, Record
    <3>2. l.addrs \in Seq(Prefix) /\ addrs[d] \in Seq(Prefix)
      BY <1>a, <2>2 DEF Requests, DeviceOK
    <3>3. Tail(l.addrs) \in Seq(Prefix) /\ s \in Seq(Prefix)
      BY <2>4, <3>2, Headed, Appended
    <3> HIDE DEF s
    <3>4. /\ m \in Requests /\ m.pools = l.pools /\ m.stage = l.stage /\ m.kind = l.kind /\ m.device = d
      BY <1>a, <3>3 DEF Requests
    <3> HIDE DEF m, d
    <3>5. CallForm(m)
      BY <1>a, <2>1, <2>2, <3>4 DEF CallForm, StageForm
    <3>6. CallsOK'
      BY <3>1, <3>5, SetForm
    <3>7. DeviceOK'
      BY <2>1, <2>2, <2>4, <3>1, <3>3, OutdateForm DEF Cause
    <3> QED
      BY <2>3, <3>6, <3>7
  <2>5. CASE ~(l.addrs # <<>> /\ Exists(d))
    <3>1. Goto(c, "done") /\ UNCHANGED <<addrs, unsafe, session, excuse>>
      BY <1>5, <2>5 DEF InsertAddress
    <3>2. CallsOK'
      BY <3>1, <1>b, SetForm DEF Goto
    <3>3. DeviceOK'
      BY <2>1, <3>1 DEF DeviceOK, Exists
    <3> QED
      BY <2>3, <3>2, <3>3
  <2> QED
    BY <2>4, <2>5
<1>6. ASSUME WriteDevice(c)
      PROVE  Typed'
  <2> DEFINE d == l.device
  <2>1. l.stage = "write" /\ UNCHANGED <<range, template, pools, device, moved>>
    BY <1>6 DEF WriteDevice
  <2>2. l.kind = "updateDevice" /\ d \in Device /\ l.addrs \in Seq(Prefix)
    BY <1>a, <2>1 DEF CallForm, StageForm, Blank, Requests
  <2>3. TableOK'
    BY <2>1 DEF TableOK
  <2>4. CASE Exists(d)
    <3> DEFINE stage == IF Differs(l) THEN "endSession" ELSE "done"
               m == [l EXCEPT !.stage = stage]
               cause == IF l.addrs = l.old THEN "overlap" ELSE "no"
    <3>1. /\ addrs' = [addrs EXCEPT ![d] = l.addrs]
          /\ unsafe' \subseteq unsafe \cup {d}
          /\ Outdate(d, cause) \/ UNCHANGED <<session, excuse>>
          /\ Goto(c, stage)
      BY <1>6, <2>4 DEF WriteDevice
    <3>2. Set(c, m)
      BY <3>1 DEF Goto
    <3>3. /\ m \in Requests /\ m.pools = l.pools /\ m.stage = stage /\ m.kind = l.kind /\ m.device = d
      BY <1>a DEF Requests, Stage
    <3> HIDE DEF m, d
    <3>4. CallForm(m)
      BY <1>a, <2>2, <3>3 DEF CallForm, StageForm
    <3>5. CallsOK'
      BY <3>2, <3>4, SetForm
    <3>6. cause \in Cause
      BY DEF Cause
    <3> HIDE DEF cause
    <3>7. DeviceOK'
      BY <2>1, <2>2, <2>4, <3>1, <3>6, OutdateForm
    <3> QED
      BY <2>3, <3>5, <3>7
  <2>5. CASE ~Exists(d)
    <3>1. Goto(c, "done") /\ UNCHANGED <<addrs, unsafe, session, excuse>>
      BY <1>6, <2>5 DEF WriteDevice
    <3>2. CallsOK'
      BY <3>1, <1>b, SetForm DEF Goto
    <3>3. DeviceOK'
      BY <2>1, <3>1 DEF DeviceOK, Exists
    <3> QED
      BY <2>3, <3>2, <3>3
  <2> QED
    BY <2>4, <2>5
<1>7. ASSUME EndSession(c)
      PROVE  Typed'
  <2>1. CallsOK'
    BY <1>7, <1>b, SetForm DEF EndSession, Goto
  <2>2. TableOK'
    BY <1>7 DEF EndSession, TableOK, table
  <2>3. DeviceOK'
    BY <1>7 DEF EndSession, DeviceOK, Exists, table, Cause
  <2> QED
    BY <2>1, <2>2, <2>3
<1>8. ASSUME ListDevices(c)
      PROVE  Typed'
  <2> DEFINE D == {d \in Device : device[d] = l.template}
             m == [l EXCEPT !.stage = "nextDevice", !.todo = D]
  <2>1. l.stage = "listDevices" /\ Set(c, m) /\ UNCHANGED <<table, session, unsafe, moved, excuse>>
    BY <1>8 DEF ListDevices
  <2>2. l.kind = "resync" /\ l.template \in Template
    BY <1>a, <2>1 DEF CallForm, StageForm, Blank
  <2>3. D \subseteq Device
    OBVIOUS
  <2> HIDE DEF D
  <2>4. /\ m \in Requests /\ m.pools = l.pools /\ m.stage = "nextDevice" /\ m.kind = l.kind
        /\ m.template = l.template /\ m.todo = D
    BY <1>a, <2>3 DEF Requests, Stage
  <2> HIDE DEF m
  <2>5. CallForm(m)
    BY <1>a, <2>2, <2>3, <2>4 DEF CallForm, StageForm
  <2>6. CallsOK'
    BY <2>1, <2>5, SetForm
  <2>7. TableOK' /\ DeviceOK'
    BY <2>1 DEF TableOK, DeviceOK, Exists, table
  <2> QED
    BY <2>6, <2>7
<1>9. ASSUME NEW d \in Device, NextDevice(c, d)
      PROVE  Typed'
  <2>1. l.stage = "nextDevice" /\ UNCHANGED <<table, session, unsafe, moved, excuse>>
    BY <1>9 DEF NextDevice
  <2>2. PICK s \in SetToSeqs(DOMAIN addrs[d]) :
          LET current == [i \in DOMAIN s |-> addrs[d][s[i]]]
              kept == Categorize(current, l.pools) IN
          Set(c, [l EXCEPT !.stage = "allocate", !.device = d, !.todo = @ \ {d}, !.old = current,
                           !.keep = kept.keep, !.covered = kept.covered, !.addrs = <<>>])
    BY <1>9 DEF NextDevice
  <2> DEFINE current == [i \in DOMAIN s |-> addrs[d][s[i]]]
             kept == Categorize(current, l.pools)
             m == [l EXCEPT !.stage = "allocate", !.device = d, !.todo = @ \ {d}, !.old = current,
                            !.keep = kept.keep, !.covered = kept.covered, !.addrs = <<>>]
  <2>3. l.kind = "resync" /\ l.template \in Template /\ l.todo \subseteq Device /\ Listing(l.pools)
    BY <1>a, <2>1 DEF CallForm, StageForm, Blank
  <2>4. current \in Seq(Prefix)
    BY Permuted DEF DeviceOK
  <2> HIDE DEF current
  <2>5. kept.keep \in Seq(Prefix) /\ kept.covered \subseteq Pool
    BY <2>3, <2>4, Categorized
  <2> HIDE DEF kept
  <2>6. /\ m \in Requests /\ m.pools = l.pools /\ m.stage = "allocate" /\ m.kind = l.kind
        /\ m.template = l.template /\ m.todo \subseteq l.todo /\ m.device = d
    <3>1. <<>> \in Seq(Prefix) /\ l.todo \ {d} \in SUBSET (Pool \cup Device)
      BY <1>a DEF Requests
    <3> HIDE DEF l
    <3> QED
      BY <1>a, <2>4, <2>5, <3>1 DEF Requests, Stage
  <2>7. Set(c, m)
    BY <2>2 DEF current, kept
  <2> HIDE DEF m
  <2>8. CallForm(m)
    BY <1>a, <2>3, <2>6 DEF CallForm, StageForm
  <2>9. CallsOK'
    BY <2>7, <2>8, SetForm
  <2>10. TableOK' /\ DeviceOK'
    BY <2>1 DEF TableOK, DeviceOK, Exists, table
  <2> QED
    BY <2>9, <2>10
<1>10. ASSUME l.stage \in {"rewrite", "delete"}, Set(c, Handled(l))
       PROVE  CallsOK'
  <2>1. l.kind = "resync" /\ l.template \in Template /\ l.todo \subseteq Device /\ l.device \in Device
    BY <1>a, <1>10 DEF CallForm, StageForm, Blank
  <2> DEFINE m == Handled(l)
  <2>2. /\ m \in Requests /\ m.pools = l.pools /\ m.stage = "nextDevice" /\ m.kind = l.kind
        /\ m.template = l.template /\ m.todo = l.todo
    BY <1>a, <2>1 DEF Requests, Handled, Stage
  <2> HIDE DEF m
  <2>3. CallForm(m)
    BY <1>a, <2>1, <2>2 DEF CallForm, StageForm
  <2> QED
    BY <1>10, <2>3, SetForm DEF m
<1>11. ASSUME Rewrite(c)
       PROVE  Typed'
  <2> DEFINE d == l.device
  <2>1. /\ l.stage = "rewrite" /\ UNCHANGED <<range, template, pools, device, moved>>
        /\ Set(c, Handled(l))
    BY <1>11 DEF Rewrite
  <2>2. d \in Device
    BY <1>a, <2>1 DEF CallForm, StageForm, Blank
  <2>3. CallsOK'
    BY <1>10, <2>1
  <2>4. TableOK'
    BY <2>1 DEF TableOK
  <2>5. CASE Exists(d) /\ Changes(l)
    <3> DEFINE s == l.keep \o l.addrs
    <3>1. /\ addrs' = [addrs EXCEPT ![d] = s]
          /\ unsafe' \subseteq unsafe \cup {d}
          /\ Outdate(d, "resync")
      BY <1>11, <2>5 DEF Rewrite, Record
    <3>2. s \in Seq(Prefix)
      BY <1>a, Joined DEF Requests
    <3> HIDE DEF s, d
    <3>3. DeviceOK'
      BY <2>1, <2>2, <2>5, <3>1, <3>2, OutdateForm DEF Cause
    <3> QED
      BY <2>3, <2>4, <3>3
  <2>6. CASE ~(Exists(d) /\ Changes(l))
    <3>1. UNCHANGED <<addrs, unsafe, session, excuse>>
      BY <1>11, <2>6 DEF Rewrite
    <3>2. DeviceOK'
      BY <2>1, <3>1 DEF DeviceOK, Exists
    <3> QED
      BY <2>3, <2>4, <3>2
  <2> QED
    BY <2>5, <2>6
<1>12. ASSUME DeleteResynced(c)
       PROVE  Typed'
  <2>1. /\ l.stage = "delete" /\ Erase({l.device}) /\ Set(c, Handled(l))
        /\ UNCHANGED <<range, template, pools, moved>>
    BY <1>12 DEF DeleteResynced
  <2>2. l.device \in Device
    BY <1>a, <2>1 DEF CallForm, StageForm, Blank
  <2>3. CallsOK'
    BY <1>10, <2>1
  <2>4. TableOK'
    BY <2>1 DEF TableOK
  <2>5. DeviceOK'
    BY <2>1, <2>2, EraseForm DEF DeviceOK
  <2> QED
    BY <2>3, <2>4, <2>5
<1>13. ASSUME EndResync(c)
       PROVE  Typed'
  <2>1. CallsOK'
    BY <1>13, <1>b, SetForm DEF EndResync, Goto
  <2>2. TableOK' /\ DeviceOK'
    BY <1>13 DEF EndResync, TableOK, DeviceOK, Exists, table
  <2> QED
    BY <2>1, <2>2
<1>14. ASSUME FailDevice(c)
       PROVE  Typed'
  <2>1. PICK m : m = [l EXCEPT !.stage = "nextDevice"]
    OBVIOUS
  <2>2. /\ Set(c, m) /\ CallForm(m)
        /\ UNCHANGED <<range, template, pools, device, addrs, session, moved, unsafe, excuse>>
    BY <1>14, <1>a, <2>1, FailFacts
  <2>3. CallsOK'
    BY <2>2, SetForm
  <2>4. TableOK' /\ DeviceOK'
    BY <2>2 DEF TableOK, DeviceOK, Exists
  <2> QED
    BY <2>3, <2>4
<1> QED
  BY <1>1, <1>2, <1>3, <1>4, <1>5, <1>6, <1>7, <1>8, <1>9, <1>11, <1>12, <1>13, <1>14 DEF Continue

LEMMA NextTyped == Typed /\ [Next]_vars => Typed'
<1> SUFFICES ASSUME Typed, [Next]_vars PROVE Typed'
  OBVIOUS
<1>1. ASSUME NEW d \in Device, Login(d)
      PROVE  Typed'
  BY <1>1 DEF Login, Typed, TableOK, DeviceOK, CallsOK, Exists, table, Cause
<1>2. CASE UNCHANGED vars
  BY <1>2 DEF vars, table, Typed, TableOK, DeviceOK, CallsOK, Exists
<1> QED
  BY <1>1, <1>2, StartTyped, ContinueTyped DEF Next

LEMMA TypedImplies == Typed => TypeOK
<1> SUFFICES ASSUME Typed PROVE TypeOK
  OBVIOUS
<1>1. \A c \in Call : DOMAIN call[c] = DOMAIN Blank
  BY DEF Typed, CallsOK, Requests, Blank
<1> QED
  BY <1>1 DEF Typed, TypeOK, TableOK, DeviceOK, CallsOK

LEMMA TypedAlways == Spec => []Typed
  BY InitTyped, NextTyped, PTL DEF Spec

(* Pools have a valid range, templates name pools that there are, a device that  *)
(* was deleted has left neither addresses nor a session (manager.go,           *)
(* device.go).                                                               *)
THEOREM TypeCorrect == Spec => []TypeOK
  BY TypedAlways, TypedImplies, PTL

(* QueryUsedAddrsForSubnet and FirstAvailableAddress together find the least     *)
(* address of a pool that a device may have and nobody has, in every state and    *)
(* for every width, subnet and range, also at the ends of a subnet.              *)
THEOREM FirstFreeFound == Spec => []FirstFree
<1>1. Typed => FirstFree
  <2> SUFFICES ASSUME Typed, NEW c \in Call, NEW i \in DOMAIN call[c].pools
               PROVE  LET r == call[c].pools[i].range
                          free == Usable(r) \ Used(r) IN
                      FirstAvailableAddress(r, Used(r)) =
                          IF free = {} THEN None ELSE [addr |-> Min(free), bits |-> r.bits]
    BY DEF FirstFree
  <2>1. call[c].pools \in Seq(Entry)
    BY DEF Typed, CallsOK, CallForm, Listing
  <2>2. call[c].pools[i] \in Entry
    BY <2>1
  <2>3. call[c].pools[i].range \in Span
    BY <2>2 DEF Entry
  <2> QED
    BY <2>3, FirstAvailable
<1> QED
  BY <1>1, TypedAlways, PTL

-----------------------------------------------------------------------------
(* Sessions.                                                                  *)

(* A step of c leaves other requests alone, but for the history of them. *)
OthersStay(c) ==
    \A b \in Call \ {c} : call'[b] = call[b] \/ call'[b] = [call[b] EXCEPT !.alone = FALSE]

LEMMA OthersFacts ==
    ASSUME Typed, NEW c \in Call, OthersStay(c), NEW b \in Call \ {c}
    PROVE  /\ call'[b].kind = call[b].kind /\ call'[b].stage = call[b].stage
           /\ call'[b].template = call[b].template /\ call'[b].device = call[b].device
           /\ call'[b].pools = call[b].pools /\ call'[b].addrs = call[b].addrs
           /\ call'[b].keep = call[b].keep /\ call'[b].old = call[b].old
           /\ call'[b].covered = call[b].covered /\ call'[b].todo = call[b].todo
           /\ call'[b].handled = call[b].handled
           /\ call'[b].alone => call[b].alone
<1>1. call[b] \in Requests
  BY DEF Typed, CallsOK
<1>2. call'[b] = call[b] \/ call'[b] = [call[b] EXCEPT !.alone = FALSE]
  BY DEF OthersStay
<1> QED
  BY <1>1, <1>2 DEF Requests

LEMMA SetFrame ==
    ASSUME Typed, NEW c \in Call, NEW l, Set(c, l)
    PROVE  OthersStay(c) /\ call'[c] = l /\ \A b \in Call \ {c} : call'[b] = call[b]
  BY DEF Set, OthersStay, Typed, CallsOK

LEMMA BeginWritingFrame ==
    ASSUME Typed, NEW c \in Call, NEW l \in Requests, BeginWriting(c, l)
    PROVE  /\ OthersStay(c) /\ call[c] = Blank
           /\ call'[c] \in Requests
           /\ call'[c].kind = l.kind /\ call'[c].stage = l.stage
           /\ call'[c].template = l.template /\ call'[c].device = l.device
           /\ call'[c].pools = l.pools /\ call'[c].addrs = l.addrs
           /\ call'[c].keep = l.keep /\ call'[c].old = l.old
           /\ call'[c].covered = l.covered /\ call'[c].todo = l.todo
           /\ call'[c].handled = l.handled
           /\ \A b \in Call \ {c} : call[b].kind \in Writes /\ call[b].stage # "done" =>
                ~call'[b].alone /\ ~call'[c].alone
<1> DEFINE others == {b \in Call \ {c} : call[b].kind \in Writes /\ call[b].stage # "done"}
<1>1. /\ call[c] = Blank
      /\ call' = [b \in Call |-> IF b = c THEN [l EXCEPT !.alone = others = {}]
                                 ELSE IF b \in others THEN [call[b] EXCEPT !.alone = FALSE]
                                 ELSE call[b]]
  BY DEF BeginWriting
<1>2. (others = {}) \in BOOLEAN
  OBVIOUS
<1>3. \A b \in Call \ {c} : call[b] \in Requests
  BY DEF Typed, CallsOK
<1>4. \A b \in Call \ {c} : call[b].kind \in Writes /\ call[b].stage # "done" => b \in others
  OBVIOUS
<1> HIDE DEF others
<1>5. OthersStay(c)
  BY <1>1 DEF OthersStay
<1>6. call'[c] = [l EXCEPT !.alone = others = {}]
  BY <1>1
<1>7. \A b \in others : others # {}
  OBVIOUS
<1>8. \A b \in Call \ {c} : b \in others => ~call'[b].alone
  BY <1>1, <1>3 DEF Requests
<1>9. \A b \in Call \ {c} : b \in others => ~call'[c].alone
  BY <1>6, <1>7 DEF Requests
<1>10. /\ call'[c] \in Requests
       /\ call'[c].kind = l.kind /\ call'[c].stage = l.stage
       /\ call'[c].template = l.template /\ call'[c].device = l.device
       /\ call'[c].pools = l.pools /\ call'[c].addrs = l.addrs
       /\ call'[c].keep = l.keep /\ call'[c].old = l.old
       /\ call'[c].covered = l.covered /\ call'[c].todo = l.todo
       /\ call'[c].handled = l.handled
  BY <1>2, <1>6 DEF Requests
<1> QED
  BY <1>1, <1>4, <1>5, <1>8, <1>9, <1>10

(* What requests start with. *)
LEMMA StartFrame ==
    ASSUME Typed, NEW c \in Call, Start(c)
    PROVE  OthersStay(c) /\ call[c] = Blank
<1>1. ASSUME NEW kind \in Kind
      PROVE  Request(kind, "done") \in Requests
  BY <1>1, BlankForm DEF Stage
<1>2. ASSUME NEW p \in Pool, DeleteAddressPool(c, p)
      PROVE  OthersStay(c) /\ call[c] = Blank
  BY <1>2, SetFrame DEF DeleteAddressPool, Begin, Set
<1>3. ASSUME NEW p \in Pool, NEW r \in Span, CreateAddressPool(c, p, r)
      PROVE  OthersStay(c) /\ call[c] = Blank
  BY <1>3, SetFrame DEF CreateAddressPool, Begin, Set
<1>4. ASSUME NEW p \in Pool, NEW r \in Span, UpdateAddressPool(c, p, r)
      PROVE  OthersStay(c) /\ call[c] = Blank
  BY <1>4 DEF UpdateAddressPool, OthersStay
<1>5. ASSUME NEW t \in Template, NEW P \in SUBSET Pool, NEW changed \in BOOLEAN,
             LookAtPools(c, t, P, changed)
      PROVE  OthersStay(c) /\ call[c] = Blank
  BY <1>5, SetFrame DEF LookAtPools, Begin, Set
<1>6. ASSUME NEW l, BeginWriting(c, l)
      PROVE  OthersStay(c) /\ call[c] = Blank
  BY <1>6 DEF BeginWriting, OthersStay
<1> QED
  BY <1>2, <1>3, <1>4, <1>5, <1>6
     DEF Start, DeleteTemplate, CreateDevice, CreateGivenDevice, Resync, DeleteDevice, UpdateDevice

(* A step that may outdate the sessions of D. *)
LEMMA SessionsStay ==
    ASSUME Typed, SessionFollowsDevice, NEW c \in Call, OthersStay(c), NEW D \in SUBSET Device,
           \A e \in Device \ D : /\ session'[e] = session[e] /\ excuse'[e] = excuse[e]
                                 /\ session[e] = "outdated" => device'[e] = device[e],
           \A e \in D : session'[e] = "outdated" /\ excuse'[e] = "no" => Pending(e)',
           call[c].stage = "endSession" => call[c].device \in D,
           call[c].stage = "endSessions" => \A e \in Device \ D : device[e] # call[c].template
    PROVE  SessionFollowsDevice'
<1> SUFFICES ASSUME NEW e \in Device \ D, session'[e] = "outdated", excuse'[e] = "no"
             PROVE  Pending(e)'
  BY DEF SessionFollowsDevice
<1>1. Pending(e) /\ device'[e] = device[e]
  BY DEF SessionFollowsDevice
<1>2. PICK b \in Call : \/ call[b].stage = "endSession" /\ call[b].device = e
                        \/ call[b].stage = "endSessions" /\ call[b].template = device[e]
  BY <1>1 DEF Pending
<1>3. b # c
  BY <1>2
<1>4. call'[b].stage = call[b].stage /\ call'[b].template = call[b].template
      /\ call'[b].device = call[b].device
  BY <1>3, OthersFacts
<1> QED
  BY <1>1, <1>2, <1>4 DEF Pending

LEMMA SessionsKept ==
    ASSUME Typed, SessionFollowsDevice, NEW c \in Call, OthersStay(c),
           UNCHANGED <<session, excuse>>,
           \A e \in Device : session[e] = "outdated" => device'[e] = device[e],
           call[c].stage \notin {"endSession", "endSessions"}
    PROVE  SessionFollowsDevice'
<1> DEFINE D == {}
<1>1. D \in SUBSET Device
  OBVIOUS
<1>2. \A e \in Device \ D : /\ session'[e] = session[e] /\ excuse'[e] = excuse[e]
                            /\ session[e] = "outdated" => device'[e] = device[e]
  OBVIOUS
<1>3. \A e \in D : session'[e] = "outdated" /\ excuse'[e] = "no" => Pending(e)'
  OBVIOUS
<1> HIDE DEF D
<1> QED
  BY <1>1, <1>2, <1>3, SessionsStay

LEMMA SessionStays ==
    ASSUME Typed, SessionFollowsDevice, NEW c \in Call, OthersStay(c), NEW d \in Device,
           \A e \in Device \ {d} : session'[e] = session[e] /\ excuse'[e] = excuse[e],
           session'[d] = "outdated" /\ excuse'[d] = "no" => Pending(d)',
           device' = device,
           call[c].stage = "endSession" => call[c].device = d,
           call[c].stage # "endSessions"
    PROVE  SessionFollowsDevice'
<1> DEFINE D == {d}
<1>1. D \in SUBSET Device
  OBVIOUS
<1>2. \A e \in Device \ D : /\ session'[e] = session[e] /\ excuse'[e] = excuse[e]
                            /\ session[e] = "outdated" => device'[e] = device[e]
  OBVIOUS
<1>3. \A e \in D : session'[e] = "outdated" /\ excuse'[e] = "no" => Pending(e)'
  OBVIOUS
<1>4. call[c].stage = "endSession" => call[c].device \in D
  OBVIOUS
<1> HIDE DEF D
<1> QED
  BY <1>1, <1>2, <1>3, <1>4, SessionsStay

(* Where sessions change as Outdate says, with a cause, or not at all. *)
LEMMA OutdatedStay ==
    ASSUME Typed, SessionFollowsDevice, NEW c \in Call, OthersStay(c),
           NEW d \in Device, NEW cause \in Cause \ {"no"},
           Outdate(d, cause) \/ UNCHANGED <<session, excuse>>,
           device' = device, call[c].stage \notin {"endSession", "endSessions"}
    PROVE  SessionFollowsDevice'
<1>1. CASE Outdate(d, cause)
  <2>1. \A e \in Device \ {d} : session'[e] = session[e] /\ excuse'[e] = excuse[e]
    BY <1>1 DEF Outdate, Typed, DeviceOK
  <2>2. session'[d] = "outdated" => excuse'[d] = cause
    BY <1>1 DEF Outdate, Typed, DeviceOK
  <2> QED
    BY <2>1, <2>2, SessionStays
<1>2. CASE UNCHANGED <<session, excuse>>
  BY <1>2, SessionsKept
<1> QED
  BY <1>1, <1>2

LEMMA EraseStays ==
    ASSUME Typed, SessionFollowsDevice, NEW c \in Call, OthersStay(c), NEW D \in SUBSET Device,
           Erase(D), call[c].stage \notin {"endSession", "endSessions"}
    PROVE  SessionFollowsDevice'
<1>1. /\ \A e \in Device \ D : session'[e] = session[e] /\ excuse'[e] = excuse[e] /\ device'[e] = device[e]
      /\ \A e \in D : session'[e] = "none"
  BY DEF Erase
<1> QED
  BY <1>1, SessionsStay

LEMMA StartSessions ==
    ASSUME Typed, SessionFollowsDevice, NEW c \in Call, Start(c)
    PROVE  SessionFollowsDevice'
<1>1. OthersStay(c) /\ call[c].stage = "new"
  BY StartFrame DEF Blank
<1>2. ASSUME NEW t \in Template, DeleteTemplate(c, t)
      PROVE  SessionFollowsDevice'
  <2> DEFINE D == {d \in Device : device[d] = t}
  <2>1. Erase(D) /\ D \in SUBSET Device
    BY <1>2 DEF DeleteTemplate
  <2> HIDE DEF D
  <2> QED
    BY <1>1, <2>1, EraseStays
<1>3. ASSUME NEW d \in Device, DeleteDevice(c, d)
      PROVE  SessionFollowsDevice'
  BY <1>1, <1>3, EraseStays DEF DeleteDevice
<1>4. ASSUME UNCHANGED <<device, session, excuse>>
      PROVE  SessionFollowsDevice'
  BY <1>1, <1>4, SessionsKept
<1>5. ASSUME NEW p \in Pool,
             DeleteAddressPool(c, p) \/ \E r \in Span : CreateAddressPool(c, p, r) \/ UpdateAddressPool(c, p, r)
      PROVE  UNCHANGED <<device, session, excuse>>
  BY <1>5 DEF DeleteAddressPool, CreateAddressPool, UpdateAddressPool
<1>6. ASSUME NEW t \in Template,
             \/ \E P \in SUBSET Pool, changed \in BOOLEAN : LookAtPools(c, t, P, changed)
             \/ CreateDevice(c, t)
             \/ \E g \in Given : CreateGivenDevice(c, t, g)
             \/ Resync(c, t)
      PROVE  UNCHANGED <<device, session, excuse>>
  BY <1>6 DEF LookAtPools, CreateDevice, CreateGivenDevice, Resync, table
<1>7. ASSUME NEW d \in Device, \E g \in Given : UpdateDevice(c, d, g)
      PROVE  UNCHANGED <<device, session, excuse>>
  BY <1>7 DEF UpdateDevice, table
<1> QED
  BY <1>2, <1>3, <1>4, <1>5, <1>6, <1>7 DEF Start

LEMMA ContinueSessions ==
    ASSUME Typed, SessionFollowsDevice, NEW c \in Call, Continue(c)
    PROVE  SessionFollowsDevice'
<1> DEFINE l == call[c]
<1>a. CallForm(l)
  BY DEF Typed, CallsOK
<1>b. ASSUME NEW m, Set(c, m), UNCHANGED <<device, session, excuse>>,
             l.stage \notin {"endSession", "endSessions"}
      PROVE  SessionFollowsDevice'
  BY <1>b, SetFrame, SessionsKept
<1>1. ASSUME WriteTemplate(c)
      PROVE  SessionFollowsDevice'
  <2>1. l.stage \in {"insert", "update"} /\ UNCHANGED <<device, excuse>>
    BY <1>1 DEF WriteTemplate
  <2>2. CASE (l.template \in template) = (l.stage = "update") /\ \A p \in l.todo : range[p] # None
    <3> DEFINE m == [l EXCEPT !.stage = IF l.changed THEN "endSessions" ELSE "done", !.todo = {}]
               devices == {d \in Device : device[d] = l.template /\ l.changed /\ session[d] = "current"}
    <3>1. /\ session' = [d \in Device |-> IF d \in devices THEN "outdated" ELSE session[d]]
          /\ Set(c, m)
      BY <1>1, <2>2 DEF WriteTemplate
    <3>2. OthersStay(c) /\ call'[c] = m
      BY <3>1, SetFrame
    <3>3. ASSUME NEW e \in devices
          PROVE  Pending(e)'
      <4>1. l.changed /\ device'[e] = l.template
        BY <2>1
      <4>2. m.stage = "endSessions" /\ m.template = l.template
        BY <1>a, <4>1 DEF CallForm, Requests
      <4> QED
        BY <3>2, <4>1, <4>2 DEF Pending
    <3>4. devices \in SUBSET Device
      OBVIOUS
    <3> HIDE DEF devices, m
    <3>5. \A e \in Device \ devices : session'[e] = session[e] /\ excuse'[e] = excuse[e] /\ device'[e] = device[e]
      BY <2>1, <3>1
    <3> QED
      BY <2>1, <3>2, <3>3, <3>4, <3>5, SessionsStay
  <2>3. CASE ~((l.template \in template) = (l.stage = "update") /\ \A p \in l.todo : range[p] # None)
    <3>1. session' = session /\ Set(c, [l EXCEPT !.stage = "done", !.todo = {}])
      BY <1>1, <2>3 DEF WriteTemplate
    <3> QED
      BY <1>b, <2>1, <3>1
  <2> QED
    BY <2>2, <2>3
<1>2. ASSUME EndSessions(c)
      PROVE  SessionFollowsDevice'
  <2> DEFINE D == {d \in Device : device[d] = l.template}
  <2>1. /\ l.stage = "endSessions" /\ device' = device
        /\ \/ /\ session' = [d \in Device |-> IF d \in D THEN "none" ELSE session[d]]
              /\ UNCHANGED excuse
           \/ /\ excuse' = [d \in Device |-> IF d \in D /\ session[d] = "outdated" THEN "failed" ELSE excuse[d]]
              /\ UNCHANGED session
        /\ Set(c, [l EXCEPT !.stage = "done"])
    BY <1>2 DEF EndSessions, Goto, table
  <2>2. OthersStay(c)
    BY <2>1, SetFrame
  <2>3. /\ \A e \in Device \ D : session'[e] = session[e] /\ excuse'[e] = excuse[e]
        /\ \A e \in D : ~(session'[e] = "outdated" /\ excuse'[e] = "no")
    BY <2>1
  <2>4. D \in SUBSET Device /\ \A e \in Device \ D : device[e] # l.template
    OBVIOUS
  <2> HIDE DEF D
  <2> QED
    BY <2>1, <2>2, <2>3, <2>4, SessionsStay
<1>3. ASSUME Allocate(c)
      PROVE  SessionFollowsDevice'
  <2>1. l.stage = "allocate" /\ (\E m : Set(c, m)) /\ UNCHANGED <<device, session, excuse>>
    BY <1>3 DEF Allocate, table
  <2> QED
    BY <1>b, <2>1
<1>4. ASSUME NEW d \in Device, InsertDevice(c, d)
      PROVE  SessionFollowsDevice'
  <2>1. /\ l.stage = "insert" /\ (\E m : Set(c, m)) /\ UNCHANGED <<session, excuse>>
        /\ ~Exists(d) /\ device' \in {device, [device EXCEPT ![d] = l.template]}
    BY <1>4 DEF InsertDevice, Goto, Unknown
  <2>2. OthersStay(c)
    BY <2>1, SetFrame
  <2>3. session[d] = "none"
    BY <2>1 DEF Typed, DeviceOK
  <2>4. \A e \in Device : session[e] = "outdated" => device'[e] = device[e]
    BY <2>1, <2>3 DEF Typed, DeviceOK
  <2> QED
    BY <2>1, <2>2, <2>4, SessionsKept
<1>5. ASSUME InsertAddress(c)
      PROVE  SessionFollowsDevice'
  <2>1. /\ l.stage = "insertAddress" /\ (\E m : Set(c, m)) /\ device' = device
        /\ Outdate(l.device, "overlap") \/ UNCHANGED <<session, excuse>>
    BY <1>5 DEF InsertAddress, Goto
  <2>2. l.device \in Device
    BY <1>a, <2>1 DEF CallForm, StageForm, Blank
  <2>3. OthersStay(c)
    BY <2>1, SetFrame
  <2> QED
    BY <2>1, <2>2, <2>3, OutdatedStay DEF Cause
<1>6. ASSUME WriteDevice(c)
      PROVE  SessionFollowsDevice'
  <2>1. l.stage = "write" /\ device' = device
    BY <1>6 DEF WriteDevice
  <2>2. PICK d \in Device : d = l.device
    BY <1>a, <2>1 DEF CallForm, StageForm, Blank
  <2>3. CASE Exists(d) /\ addrs[d] # l.addrs /\ l.addrs # l.old
    <3>1. Outdate(d, "no") /\ Goto(c, "endSession")
      BY <1>6, <2>2, <2>3 DEF WriteDevice, Differs
    <3>2. OthersStay(c) /\ call'[c] = [l EXCEPT !.stage = "endSession"]
      BY <3>1, SetFrame DEF Goto
    <3>3. call'[c].stage = "endSession" /\ call'[c].device = d
      BY <1>a, <2>2, <3>2 DEF CallForm, Requests
    <3>4. Pending(d)'
      BY <3>3 DEF Pending
    <3>5. \A e \in Device \ {d} : session'[e] = session[e] /\ excuse'[e] = excuse[e]
      BY <3>1 DEF Outdate, Typed, DeviceOK
    <3> QED
      BY <2>1, <2>2, <3>2, <3>4, <3>5, SessionStays
  <2>4. CASE Exists(d) /\ addrs[d] # l.addrs /\ l.addrs = l.old
    <3>1. Outdate(d, "overlap") /\ (\E m : Set(c, m))
      BY <1>6, <2>2, <2>4 DEF WriteDevice, Goto
    <3>2. OthersStay(c)
      BY <3>1, SetFrame
    <3> QED
      BY <2>1, <2>2, <3>1, <3>2, OutdatedStay DEF Cause
  <2>5. CASE ~Exists(d) \/ addrs[d] = l.addrs
    <3>1. UNCHANGED <<session, excuse>> /\ (\E m : Set(c, m))
      BY <1>6, <2>2, <2>5 DEF WriteDevice, Goto
    <3> QED
      BY <1>b, <2>1, <3>1
  <2> QED
    BY <2>3, <2>4, <2>5
<1>7. ASSUME EndSession(c)
      PROVE  SessionFollowsDevice'
  <2> DEFINE d == l.device
  <2>1. /\ l.stage = "endSession" /\ device' = device
        /\ \/ /\ session' = [session EXCEPT ![d] = "none"]
              /\ UNCHANGED excuse
           \/ /\ excuse' = [excuse EXCEPT ![d] = IF session[d] = "outdated" THEN "failed" ELSE @]
              /\ UNCHANGED session
        /\ Set(c, [l EXCEPT !.stage = "done"])
    BY <1>7 DEF EndSession, Goto, table
  <2>2. d \in Device
    BY <1>a, <2>1 DEF CallForm, StageForm, Blank
  <2>3. OthersStay(c)
    BY <2>1, SetFrame
  <2>4. /\ \A e \in Device \ {d} : session'[e] = session[e] /\ excuse'[e] = excuse[e]
        /\ ~(session'[d] = "outdated" /\ excuse'[d] = "no")
    BY <2>1, <2>2 DEF Typed, DeviceOK
  <2> QED
    BY <2>1, <2>2, <2>3, <2>4, SessionStays
<1>8. ASSUME ListDevices(c)
      PROVE  SessionFollowsDevice'
  <2>1. l.stage = "listDevices" /\ (\E m : Set(c, m)) /\ UNCHANGED <<device, session, excuse>>
    BY <1>8 DEF ListDevices, table
  <2> QED
    BY <1>b, <2>1
<1>9. ASSUME NEW d \in Device, NextDevice(c, d)
      PROVE  SessionFollowsDevice'
  <2>1. l.stage = "nextDevice" /\ (\E m : Set(c, m)) /\ UNCHANGED <<device, session, excuse>>
    BY <1>9 DEF NextDevice, table
  <2> QED
    BY <1>b, <2>1
<1>10. ASSUME Rewrite(c)
       PROVE  SessionFollowsDevice'
  <2>1. /\ l.stage = "rewrite" /\ (\E m : Set(c, m)) /\ device' = device
        /\ Outdate(l.device, "resync") \/ UNCHANGED <<session, excuse>>
    BY <1>10 DEF Rewrite
  <2>2. l.device \in Device
    BY <1>a, <2>1 DEF CallForm, StageForm, Blank
  <2>3. OthersStay(c)
    BY <2>1, SetFrame
  <2> QED
    BY <2>1, <2>2, <2>3, OutdatedStay DEF Cause
<1>11. ASSUME DeleteResynced(c)
       PROVE  SessionFollowsDevice'
  <2>1. l.stage = "delete" /\ (\E m : Set(c, m)) /\ Erase({l.device})
    BY <1>11 DEF DeleteResynced
  <2>2. l.device \in Device
    BY <1>a, <2>1 DEF CallForm, StageForm, Blank
  <2>3. OthersStay(c)
    BY <2>1, SetFrame
  <2> QED
    BY <2>1, <2>2, <2>3, EraseStays
<1>12. ASSUME EndResync(c)
       PROVE  SessionFollowsDevice'
  <2>1. l.stage = "nextDevice" /\ (\E m : Set(c, m)) /\ UNCHANGED <<device, session, excuse>>
    BY <1>12 DEF EndResync, Goto, table
  <2> QED
    BY <1>b, <2>1
<1>13. ASSUME FailDevice(c)
       PROVE  SessionFollowsDevice'
  <2>1. /\ l.stage \in {"allocate", "rewrite", "delete"} /\ (\E m : Set(c, m))
        /\ UNCHANGED <<device, session, excuse>>
    BY <1>13 DEF FailDevice, Goto, table
  <2> QED
    BY <1>b, <2>1
<1> QED
  BY <1>1, <1>2, <1>3, <1>4, <1>5, <1>6, <1>7, <1>8, <1>9, <1>10, <1>11, <1>12, <1>13 DEF Continue

(* WriteTemplate and WriteDevice outdate the sessions of those whose pools or     *)
(* addresses they change, and the same request ends them afterwards: whatever     *)
(* runs at a time, a session is outdated without the end being due only for a      *)
(* cause that history names (UpdateDeviceTemplate, UpdateDevice, session.go).     *)
THEOREM DeviceSessionsEnd == Spec => []SessionFollowsDevice
<1>1. Init => SessionFollowsDevice
  <2> SUFFICES ASSUME Init, NEW d \in Device PROVE session[d] # "outdated"
    BY DEF SessionFollowsDevice
  <2> QED
    BY DEF Init
<1>2. ASSUME Typed, SessionFollowsDevice, [Next]_vars
      PROVE  SessionFollowsDevice'
  <2>1. ASSUME NEW d \in Device, Login(d)
        PROVE  SessionFollowsDevice'
    <3>1. UNCHANGED <<device, call>> /\ session' = [session EXCEPT ![d] = "current"]
          /\ excuse' = [excuse EXCEPT ![d] = "no"]
      BY <2>1 DEF Login, table
    <3>2. \A e \in Device : session'[e] = "outdated" => session[e] = "outdated" /\ excuse'[e] = excuse[e]
      BY <1>2, <3>1 DEF Typed, DeviceOK
    <3> QED
      BY <1>2, <3>1, <3>2 DEF SessionFollowsDevice, Pending
  <2>2. CASE UNCHANGED vars
    BY <1>2, <2>2 DEF vars, table, SessionFollowsDevice, Pending
  <2> QED
    BY <1>2, <2>1, <2>2, StartSessions, ContinueSessions DEF Next
<1> QED
  BY <1>1, <1>2, TypedAlways, PTL DEF Spec

-----------------------------------------------------------------------------
(* Pools of a template.                                                       *)

(* What all steps of a request have in common. *)
LEMMA ContinueFrame ==
    ASSUME Typed, NEW c \in Call, Continue(c)
    PROVE  /\ OthersStay(c) /\ \A b \in Call \ {c} : call'[b] = call[b]
           /\ call[c].stage \notin {"new", "done"}
           /\ call'[c].kind = call[c].kind /\ call'[c].alone = call[c].alone
           /\ call'[c].pools = call[c].pools
           /\ range' = range
           /\ \/ WriteTemplate(c)
              \/ /\ UNCHANGED <<template, pools, moved>>
                 /\ call[c].kind = "template" => call'[c].stage = "done"
<1> DEFINE l == call[c]
<1>a. CallForm(l) /\ l \in Requests
  BY DEF Typed, CallsOK, CallForm
<1>b. ASSUME NEW m, Set(c, m), m.kind = l.kind, m.alone = l.alone, m.pools = l.pools
      PROVE  /\ OthersStay(c) /\ \A b \in Call \ {c} : call'[b] = call[b]
             /\ call'[c] = m
             /\ call'[c].kind = call[c].kind /\ call'[c].alone = call[c].alone
             /\ call'[c].pools = call[c].pools
  BY <1>b, SetFrame
<1>c. ASSUME NEW stage, Goto(c, stage)
      PROVE  /\ OthersStay(c) /\ \A b \in Call \ {c} : call'[b] = call[b]
             /\ call'[c].kind = call[c].kind /\ call'[c].alone = call[c].alone
             /\ call'[c].pools = call[c].pools
             /\ call'[c].stage = stage
  <2> DEFINE m == [l EXCEPT !.stage = stage]
  <2>1. Set(c, m)
    BY <1>c DEF Goto
  <2>2. m.kind = l.kind /\ m.alone = l.alone /\ m.pools = l.pools /\ m.stage = stage
    BY <1>a DEF Requests
  <2> HIDE DEF m, l
  <2> QED
    BY <1>b, <2>1, <2>2 DEF l
<1>1. CASE WriteTemplate(c)
  <2>1. l.stage \in {"insert", "update"} /\ range' = range
    BY <1>1 DEF WriteTemplate
  <2>2. \E stage \in {"endSessions", "done"} : Set(c, [l EXCEPT !.stage = stage, !.todo = {}])
    BY <1>1 DEF WriteTemplate
  <2>3. PICK stage \in {"endSessions", "done"} : Set(c, [l EXCEPT !.stage = stage, !.todo = {}])
    BY <2>2
  <2> DEFINE m == [l EXCEPT !.stage = stage, !.todo = {}]
  <2>4. m.kind = l.kind /\ m.alone = l.alone /\ m.pools = l.pools
    BY <1>a DEF Requests
  <2> HIDE DEF m
  <2> QED
    BY <1>1, <1>b, <2>1, <2>3, <2>4 DEF m
<1>2. CASE EndSessions(c)
  <2>1. l.stage = "endSessions" /\ Goto(c, "done") /\ UNCHANGED <<range, template, pools, moved>>
    BY <1>2 DEF EndSessions, table
  <2> QED
    BY <1>c, <2>1
<1>3. CASE Allocate(c)
  <2>1. l.stage = "allocate" /\ UNCHANGED <<range, template, pools, moved>>
    BY <1>3 DEF Allocate, table
  <2>2. l.kind # "template"
    BY <1>a, <2>1 DEF CallForm, StageForm, Blank
  <2>3. \/ \E stage : Set(c, [l EXCEPT !.stage = stage])
        \/ \E s, covered : Set(c, [l EXCEPT !.addrs = s, !.covered = covered])
    BY <1>3 DEF Allocate
  <2>4. CASE \E stage : Set(c, [l EXCEPT !.stage = stage])
    <3>1. PICK stage : Set(c, [l EXCEPT !.stage = stage])
      BY <2>4
    <3> DEFINE m == [l EXCEPT !.stage = stage]
    <3>2. m.kind = l.kind /\ m.alone = l.alone /\ m.pools = l.pools
      BY <1>a DEF Requests
    <3> HIDE DEF m
    <3> QED
      BY <1>b, <2>1, <2>2, <3>1, <3>2 DEF m
  <2>5. CASE \E s, covered : Set(c, [l EXCEPT !.addrs = s, !.covered = covered])
    <3>1. PICK s, covered : Set(c, [l EXCEPT !.addrs = s, !.covered = covered])
      BY <2>5
    <3> DEFINE m == [l EXCEPT !.addrs = s, !.covered = covered]
    <3>2. m.kind = l.kind /\ m.alone = l.alone /\ m.pools = l.pools
      BY <1>a DEF Requests
    <3> HIDE DEF m
    <3> QED
      BY <1>b, <2>1, <2>2, <3>1, <3>2 DEF m
  <2> QED
    BY <2>3, <2>4, <2>5
<1>4. CASE \E d \in Device : InsertDevice(c, d)
  <2>1. PICK d \in Device : InsertDevice(c, d)
    BY <1>4
  <2>2. l.stage = "insert" /\ l.kind = "create" /\ UNCHANGED <<range, template, pools, moved>>
    BY <2>1 DEF InsertDevice
  <2>3. Goto(c, "done") \/ Set(c, [l EXCEPT !.stage = "insertAddress", !.device = d])
    BY <2>1 DEF InsertDevice
  <2> DEFINE m == [l EXCEPT !.stage = "insertAddress", !.device = d]
  <2>4. m.kind = l.kind /\ m.alone = l.alone /\ m.pools = l.pools
    BY <1>a DEF Requests
  <2> HIDE DEF m
  <2> QED
    BY <1>b, <1>c, <2>2, <2>3, <2>4 DEF m
<1>5. CASE InsertAddress(c)
  <2>1. l.stage = "insertAddress" /\ UNCHANGED <<range, template, pools, moved>>
    BY <1>5 DEF InsertAddress
  <2>2. l.kind = "create"
    BY <1>a, <2>1 DEF CallForm, StageForm, Blank
  <2> DEFINE m == [l EXCEPT !.addrs = Tail(@)]
  <2>3. Goto(c, "done") \/ Set(c, m)
    BY <1>5 DEF InsertAddress
  <2>4. m.kind = l.kind /\ m.alone = l.alone /\ m.pools = l.pools
    BY <1>a DEF Requests
  <2> HIDE DEF m
  <2> QED
    BY <1>b, <1>c, <2>1, <2>2, <2>3, <2>4
<1>6. CASE WriteDevice(c)
  <2>1. l.stage = "write" /\ UNCHANGED <<range, template, pools, moved>> /\ (\E stage : Goto(c, stage))
    BY <1>6 DEF WriteDevice
  <2>2. l.kind = "updateDevice"
    BY <1>a, <2>1 DEF CallForm, StageForm, Blank
  <2> QED
    BY <1>c, <2>1, <2>2
<1>7. CASE EndSession(c)
  <2>1. l.stage = "endSession" /\ Goto(c, "done") /\ UNCHANGED <<range, template, pools, moved>>
    BY <1>7 DEF EndSession, table
  <2> QED
    BY <1>c, <2>1
<1>8. CASE ListDevices(c)
  <2>1. l.stage = "listDevices" /\ UNCHANGED <<range, template, pools, moved>>
    BY <1>8 DEF ListDevices, table
  <2>2. l.kind = "resync"
    BY <1>a, <2>1 DEF CallForm, StageForm, Blank
  <2> DEFINE m == [l EXCEPT !.stage = "nextDevice", !.todo = {d \in Device : device[d] = l.template}]
  <2>3. Set(c, m)
    BY <1>8 DEF ListDevices
  <2>4. m.kind = l.kind /\ m.alone = l.alone /\ m.pools = l.pools
    BY <1>a DEF Requests
  <2> HIDE DEF m
  <2> QED
    BY <1>b, <2>1, <2>2, <2>3, <2>4
<1>9. CASE \E d \in Device : NextDevice(c, d)
  <2>1. PICK d \in Device : NextDevice(c, d)
    BY <1>9
  <2>2. l.stage = "nextDevice" /\ UNCHANGED <<range, template, pools, moved>>
    BY <2>1 DEF NextDevice, table
  <2>3. l.kind = "resync"
    BY <1>a, <2>2 DEF CallForm, StageForm, Blank
  <2>4. \E old, keep, covered :
          Set(c, [l EXCEPT !.stage = "allocate", !.device = d, !.todo = @ \ {d}, !.old = old,
                           !.keep = keep, !.covered = covered, !.addrs = <<>>])
    BY <2>1 DEF NextDevice
  <2>5. PICK old, keep, covered :
          Set(c, [l EXCEPT !.stage = "allocate", !.device = d, !.todo = @ \ {d}, !.old = old,
                           !.keep = keep, !.covered = covered, !.addrs = <<>>])
    BY <2>4
  <2> DEFINE m == [l EXCEPT !.stage = "allocate", !.device = d, !.todo = @ \ {d}, !.old = old,
                            !.keep = keep, !.covered = covered, !.addrs = <<>>]
  <2>6. m.kind = l.kind /\ m.alone = l.alone /\ m.pools = l.pools
    BY <1>a DEF Requests
  <2>7. Set(c, m)
    BY <2>5
  <2> HIDE DEF m
  <2> QED
    BY <1>b, <2>2, <2>3, <2>6, <2>7
<1>10. CASE Rewrite(c) \/ DeleteResynced(c)
  <2>1. /\ l.stage \in {"rewrite", "delete"} /\ UNCHANGED <<range, template, pools, moved>>
        /\ Set(c, Handled(l))
    BY <1>10 DEF Rewrite, DeleteResynced
  <2>2. l.kind = "resync"
    BY <1>a, <2>1 DEF CallForm, StageForm, Blank
  <2>3. Handled(l).kind = l.kind /\ Handled(l).alone = l.alone /\ Handled(l).pools = l.pools
    BY <1>a DEF Requests, Handled
  <2> QED
    BY <1>b, <2>1, <2>2, <2>3
<1>11. CASE EndResync(c)
  <2>1. l.stage = "nextDevice" /\ Goto(c, "done") /\ UNCHANGED <<range, template, pools, moved>>
    BY <1>11 DEF EndResync, table
  <2> QED
    BY <1>c, <2>1
<1>12. CASE FailDevice(c)
  <2>1. /\ l.kind = "resync" /\ l.stage \in {"allocate", "rewrite", "delete"}
        /\ Goto(c, "nextDevice") /\ UNCHANGED <<range, template, pools, moved>>
    BY <1>12 DEF FailDevice, table
  <2> QED
    BY <1>c, <2>1
<1> QED
  BY <1>1, <1>2, <1>3, <1>4, <1>5, <1>6, <1>7, <1>8, <1>9, <1>10, <1>11, <1>12 DEF Continue

(* The pools that a request has looked at are disjoint as far as they exist, until  *)
(* one of them changes. *)
LookedAt ==
    \A c \in Call : call[c].kind = "template" /\ call[c].stage \in {"insert", "update"} /\ call[c].alone =>
        \A p, q \in call[c].todo :
            p # q /\ range[p] # None /\ range[q] # None => ~Overlap(range[p], range[q])

LEMMA LookedAtStays ==
    ASSUME Typed, LookedAt, NEW c \in Call, OthersStay(c), range' = range,
           call'[c].kind = "template" => call'[c].stage \notin {"insert", "update"}
    PROVE  LookedAt'
<1> SUFFICES ASSUME NEW b \in Call, call'[b].kind = "template", call'[b].stage \in {"insert", "update"},
                    call'[b].alone
             PROVE  \A p, q \in call'[b].todo :
                      p # q /\ range[p] # None /\ range[q] # None => ~Overlap(range[p], range[q])
  BY DEF LookedAt, Overlap
<1>1. b # c
  OBVIOUS
<1> QED
  BY <1>1, OthersFacts DEF LookedAt

LEMMA StartPools ==
    ASSUME Typed, LookedAt, DisjointUnlessMoved, NEW c \in Call, Start(c)
    PROVE  LookedAt' /\ DisjointUnlessMoved'
<1>1. OthersStay(c) /\ call[c] = Blank
  BY StartFrame
<1>a. ASSUME UNCHANGED <<range, template, pools, moved>>
      PROVE  DisjointUnlessMoved'
  BY <1>a DEF DisjointUnlessMoved, Disjoint, Overlap
<1>b. ASSUME NEW l \in Requests, BeginWriting(c, l), range' = range, l.kind # "template"
      PROVE  LookedAt'
  <2>1. call'[c].kind # "template"
    BY <1>b, BeginWritingFrame
  <2> QED
    BY <1>1, <1>b, <2>1, LookedAtStays
<1>2. ASSUME NEW p \in Pool, DeleteAddressPool(c, p)
      PROVE  LookedAt' /\ DisjointUnlessMoved'
  <2>1. /\ range' = [range EXCEPT ![p] = None] /\ UNCHANGED <<template, pools, moved>>
        /\ \A t \in template : p \notin pools[t]
        /\ Set(c, Request("pool", "done"))
    BY <1>2 DEF DeleteAddressPool, Restricted, Begin, Set
  <2>2. call'[c].kind # "template" /\ \A b \in Call \ {c} : call'[b] = call[b]
    BY <2>1, SetFrame, PlainForm DEF Kind
  <2>3. \A q \in Pool : range'[q] # None => range'[q] = range[q]
    BY <2>1 DEF Typed, TableOK
  <2>4. LookedAt'
    <3> SUFFICES ASSUME NEW b \in Call, call'[b].kind = "template", call'[b].stage \in {"insert", "update"},
                        call'[b].alone, NEW q1 \in call'[b].todo, NEW q2 \in call'[b].todo,
                        q1 # q2, range'[q1] # None, range'[q2] # None
                 PROVE  ~Overlap(range'[q1], range'[q2])
      BY DEF LookedAt, Overlap
    <3>1. call'[b] = call[b]
      BY <2>2
    <3>2. call[b].todo \subseteq Pool
      BY <3>1 DEF Typed, CallsOK, CallForm, StageForm, Blank
    <3> QED
      BY <2>3, <3>1, <3>2 DEF LookedAt
  <2>5. ASSUME NEW t \in template, NEW q \in pools[t]
        PROVE  range'[q] = range[q]
    BY <2>1, <2>5 DEF Typed, TableOK
  <2>6. DisjointUnlessMoved'
    BY <2>1, <2>5 DEF DisjointUnlessMoved, Disjoint, Overlap
  <2> QED
    BY <2>4, <2>6
<1>3. ASSUME NEW p \in Pool, NEW r \in Span, CreateAddressPool(c, p, r)
      PROVE  LookedAt' /\ DisjointUnlessMoved'
  <2>1. /\ range[p] = None /\ range' = [range EXCEPT ![p] = r] /\ UNCHANGED <<template, pools, moved>>
        /\ \A b \in Call : p \notin call[b].todo
        /\ Set(c, Request("pool", "done"))
    BY <1>3 DEF CreateAddressPool, Begin, Set
  <2>2. call'[c].kind # "template" /\ \A b \in Call \ {c} : call'[b] = call[b]
    BY <2>1, SetFrame, PlainForm DEF Kind
  <2>3. \A q \in Pool : q # p => range'[q] = range[q]
    BY <2>1 DEF Typed, TableOK
  <2>4. LookedAt'
    <3> SUFFICES ASSUME NEW b \in Call, call'[b].kind = "template", call'[b].stage \in {"insert", "update"},
                        call'[b].alone, NEW q1 \in call'[b].todo, NEW q2 \in call'[b].todo,
                        q1 # q2, range'[q1] # None, range'[q2] # None
                 PROVE  ~Overlap(range'[q1], range'[q2])
      BY DEF LookedAt, Overlap
    <3>1. call'[b] = call[b]
      BY <2>2
    <3>2. call[b].todo \subseteq Pool
      BY <3>1 DEF Typed, CallsOK, CallForm, StageForm, Blank
    <3> QED
      BY <2>1, <2>3, <3>1, <3>2 DEF LookedAt
  <2>5. ASSUME NEW t \in template, NEW q \in pools[t]
        PROVE  range'[q] = range[q]
    BY <2>1, <2>5 DEF Typed, TableOK
  <2>6. DisjointUnlessMoved'
    BY <2>1, <2>5 DEF DisjointUnlessMoved, Disjoint, Overlap
  <2> QED
    BY <2>4, <2>6
<1>4. ASSUME NEW p \in Pool, NEW r \in Span, UpdateAddressPool(c, p, r)
      PROVE  LookedAt' /\ DisjointUnlessMoved'
  <2>1. /\ range' = [range EXCEPT ![p] = r] /\ UNCHANGED <<template, pools>>
        /\ moved' = moved \cup {t \in template : p \in pools[t]}
        /\ call' = [b \in Call |-> IF b = c THEN Request("pool", "done")
                                   ELSE IF p \in call[b].todo THEN [call[b] EXCEPT !.alone = FALSE]
                                   ELSE call[b]]
    BY <1>4 DEF UpdateAddressPool
  <2>2. Request("pool", "done").kind # "template"
    BY PlainForm DEF Kind
  <2>3. call'[c].kind # "template"
    BY <2>1, <2>2
  <2>4. ASSUME NEW b \in Call \ {c}, call'[b].alone
        PROVE  call'[b] = call[b] /\ p \notin call[b].todo
    <3>1. call[b] \in Requests
      BY DEF Typed, CallsOK
    <3>2. p \in call[b].todo => call'[b] = [call[b] EXCEPT !.alone = FALSE]
      BY <2>1
    <3>3. [call[b] EXCEPT !.alone = FALSE].alone = FALSE
      BY <3>1 DEF Requests
    <3> QED
      BY <2>1, <2>4, <3>2, <3>3
  <2>5. \A q \in Pool : q # p => range'[q] = range[q]
    BY <2>1 DEF Typed, TableOK
  <2>6. LookedAt'
    <3> SUFFICES ASSUME NEW b \in Call, call'[b].kind = "template", call'[b].stage \in {"insert", "update"},
                        call'[b].alone, NEW q1 \in call'[b].todo, NEW q2 \in call'[b].todo,
                        q1 # q2, range'[q1] # None, range'[q2] # None
                 PROVE  ~Overlap(range'[q1], range'[q2])
      BY DEF LookedAt, Overlap
    <3>1. call'[b] = call[b] /\ p \notin call[b].todo
      BY <2>3, <2>4
    <3>2. call[b].todo \subseteq Pool
      BY <3>1 DEF Typed, CallsOK, CallForm, StageForm, Blank
    <3> QED
      BY <2>5, <3>1, <3>2 DEF LookedAt
  <2>7. ASSUME NEW t \in template \ moved', NEW q \in pools[t]
        PROVE  range'[q] = range[q] /\ t \notin moved
    BY <2>1, <2>5, <2>7 DEF Typed, TableOK
  <2>8. DisjointUnlessMoved'
    BY <2>1, <2>7 DEF DisjointUnlessMoved, Disjoint, Overlap
  <2> QED
    BY <2>6, <2>8
<1>5. ASSUME NEW t \in Template, NEW P \in SUBSET Pool, NEW changed \in BOOLEAN,
             LookAtPools(c, t, P, changed)
      PROVE  LookedAt' /\ DisjointUnlessMoved'
  <2> DEFINE l == [Request("template", IF t \in template THEN "update" ELSE "insert") EXCEPT
                     !.template = t, !.todo = P, !.changed = changed]
  <2>1. Set(c, l) /\ Disjoint(P) /\ UNCHANGED <<range, template, pools, moved>>
    BY <1>5 DEF LookAtPools, Begin, Set, table, VerifyPoolsNotOverlap
  <2>2. Request("template", IF t \in template THEN "update" ELSE "insert") \in Requests
    BY BlankForm DEF Kind, Stage
  <2>3. l.todo = P
    BY <2>2 DEF Requests
  <2> HIDE DEF l
  <2>4. call'[c].todo = P /\ \A b \in Call \ {c} : call'[b] = call[b]
    BY <2>1, <2>3, SetFrame
  <2>5. LookedAt'
    <3> SUFFICES ASSUME NEW b \in Call, call'[b].kind = "template", call'[b].stage \in {"insert", "update"},
                        call'[b].alone, NEW q1 \in call'[b].todo, NEW q2 \in call'[b].todo,
                        q1 # q2, range[q1] # None, range[q2] # None
                 PROVE  ~Overlap(range[q1], range[q2])
      BY <2>1 DEF LookedAt, Overlap
    <3>1. CASE b = c
      BY <2>1, <2>4, <3>1 DEF Disjoint
    <3>2. CASE b # c
      BY <2>4, <3>2 DEF LookedAt
    <3> QED
      BY <3>1, <3>2
  <2> QED
    BY <1>a, <2>1, <2>5
<1>6. ASSUME NEW t \in Template, DeleteTemplate(c, t)
      PROVE  LookedAt' /\ DisjointUnlessMoved'
  <2>1. /\ BeginWriting(c, Request("deleteTemplate", "done")) /\ range' = range
        /\ template' = template \ {t} /\ pools' = [pools EXCEPT ![t] = {}] /\ moved' = moved \ {t}
    BY <1>6 DEF DeleteTemplate
  <2>2. Request("deleteTemplate", "done") \in Requests /\ Request("deleteTemplate", "done").kind # "template"
    BY PlainForm DEF Kind, Writes, CallForm
  <2>3. LookedAt'
    BY <1>b, <2>1, <2>2
  <2>4. \A u \in template' \ moved' : u \in template \ moved /\ pools'[u] = pools[u]
    BY <2>1 DEF Typed, TableOK
  <2> QED
    BY <2>1, <2>3, <2>4 DEF DisjointUnlessMoved, Disjoint, Overlap
<1>7. ASSUME NEW t \in Template, CreateDevice(c, t) \/ Resync(c, t)
      PROVE  LookedAt' /\ DisjointUnlessMoved'
  <2>1. t \in template /\ UNCHANGED <<range, template, pools, moved>>
    BY <1>7 DEF CreateDevice, Resync, table
  <2>2. PICK s \in Listed(t), kind \in {"create", "resync"}, stage \in {"allocate", "listDevices"} :
          BeginWriting(c, [Request(kind, stage) EXCEPT !.template = t, !.pools = s])
    BY <1>7 DEF CreateDevice, Resync
  <2>3. s \in Seq(Entry)
    BY <2>1, ListedForm DEF Typed, Listing
  <2>4. Request(kind, stage) \in Requests /\ Request(kind, stage).kind = kind
    BY BlankForm DEF Kind, Stage, Writes
  <2> DEFINE l == [Request(kind, stage) EXCEPT !.template = t, !.pools = s]
  <2>5. l \in Requests /\ l.kind = kind
    BY <2>3, <2>4 DEF Requests
  <2> HIDE DEF l
  <2>6. l.kind # "template" /\ BeginWriting(c, l)
    BY <2>2, <2>5 DEF l
  <2> QED
    BY <1>a, <1>b, <2>1, <2>5, <2>6
<1>8. ASSUME NEW t \in Template, NEW g \in Given, CreateGivenDevice(c, t, g)
      PROVE  LookedAt' /\ DisjointUnlessMoved'
  <2> DEFINE l == [Request("create", "insert") EXCEPT !.template = t, !.addrs = g]
  <2>1. BeginWriting(c, l) /\ UNCHANGED <<range, template, pools, moved>>
    BY <1>8 DEF CreateGivenDevice, table
  <2>2. Request("create", "insert") \in Requests /\ Request("create", "insert").kind = "create"
    BY BlankForm DEF Kind, Stage, Writes
  <2>3. l \in Requests /\ l.kind # "template"
    BY <2>2, GivenAssumption DEF Requests
  <2> HIDE DEF l
  <2> QED
    BY <1>a, <1>b, <2>1, <2>3
<1>9. ASSUME NEW d \in Device, DeleteDevice(c, d)
      PROVE  LookedAt' /\ DisjointUnlessMoved'
  <2>1. BeginWriting(c, Request("deleteDevice", "done")) /\ UNCHANGED <<range, template, pools, moved>>
    BY <1>9 DEF DeleteDevice
  <2>2. Request("deleteDevice", "done") \in Requests /\ Request("deleteDevice", "done").kind # "template"
    BY PlainForm DEF Kind, Writes, CallForm
  <2> QED
    BY <1>a, <1>b, <2>1, <2>2
<1>10. ASSUME NEW d \in Device, NEW g \in Given, UpdateDevice(c, d, g)
       PROVE  LookedAt' /\ DisjointUnlessMoved'
  <2> DEFINE l == [Request("updateDevice", "write") EXCEPT !.device = d, !.addrs = g, !.old = addrs[d]]
  <2>1. BeginWriting(c, l) /\ UNCHANGED <<range, template, pools, moved>>
    BY <1>10 DEF UpdateDevice, table
  <2>2. Request("updateDevice", "write") \in Requests /\ Request("updateDevice", "write").kind = "updateDevice"
    BY BlankForm DEF Kind, Stage, Writes
  <2>3. addrs[d] \in Seq(Prefix)
    BY DEF Typed, DeviceOK
  <2>4. l \in Requests /\ l.kind # "template"
    BY <2>2, <2>3, GivenAssumption DEF Requests
  <2> HIDE DEF l
  <2> QED
    BY <1>a, <1>b, <2>1, <2>4
<1> QED
  BY <1>2, <1>3, <1>4, <1>5, <1>6, <1>7, <1>8, <1>9, <1>10 DEF Start

LEMMA ContinuePools ==
    ASSUME Typed, LookedAt, DisjointUnlessMoved, NEW c \in Call, Continue(c)
    PROVE  LookedAt' /\ DisjointUnlessMoved'
<1> DEFINE l == call[c]
<1>a. CallForm(l) /\ l \in Requests
  BY DEF Typed, CallsOK, CallForm
<1>b. OthersStay(c) /\ call'[c].kind = l.kind /\ range' = range
  BY ContinueFrame
<1>1. CASE WriteTemplate(c)
  <2>1. l.kind = "template" /\ l.stage \in {"insert", "update"}
    BY <1>1 DEF WriteTemplate
  <2>2. l.template \in Template /\ l.todo \subseteq Pool
    BY <1>a, <2>1 DEF CallForm, StageForm, Blank
  <2>3. PICK stage \in {"endSessions", "done"} : Set(c, [l EXCEPT !.stage = stage, !.todo = {}])
    BY <1>1 DEF WriteTemplate
  <2>4. [l EXCEPT !.stage = stage, !.todo = {}].stage = stage
    BY <1>a DEF Requests
  <2>5. call'[c].stage \notin {"insert", "update"}
    BY <2>3, <2>4, SetFrame
  <2>6. LookedAt'
    BY <1>b, <2>5, LookedAtStays
  <2>7. CASE (l.template \in template) = (l.stage = "update") /\ \A p \in l.todo : range[p] # None
    <3>1. /\ template' = template \cup {l.template}
          /\ pools' = [pools EXCEPT ![l.template] = l.todo]
          /\ moved' = IF l.alone THEN moved \ {l.template} ELSE moved \cup {l.template}
      BY <1>1, <2>7 DEF WriteTemplate
    <3>2. \A u \in template' \ moved' : u # l.template => u \in template \ moved /\ pools'[u] = pools[u]
      BY <3>1 DEF Typed, TableOK
    <3>3. pools'[l.template] = l.todo
      BY <2>2, <3>1 DEF Typed, TableOK
    <3>4. l.alone => \A p, q \in l.todo : p # q => ~Overlap(range[p], range[q])
      BY <2>1, <2>7 DEF LookedAt
    <3>5. l.template \in template' \ moved' => l.alone
      BY <3>1
    <3>6. ASSUME NEW u \in template' \ moved', NEW p \in pools'[u], NEW q \in pools'[u], p # q
          PROVE  ~Overlap(range'[p], range'[q])
      <4>1. CASE u = l.template
        BY <1>b, <3>3, <3>4, <3>5, <3>6, <4>1
      <4>2. CASE u # l.template
        BY <1>b, <3>2, <3>6, <4>2 DEF DisjointUnlessMoved, Disjoint
      <4> QED
        BY <4>1, <4>2
    <3>7. DisjointUnlessMoved'
      BY <3>6 DEF DisjointUnlessMoved, Disjoint, Overlap
    <3> QED
      BY <2>6, <3>7
  <2>8. CASE ~((l.template \in template) = (l.stage = "update") /\ \A p \in l.todo : range[p] # None)
    <3>1. UNCHANGED <<template, pools, moved>>
      BY <1>1, <2>8 DEF WriteTemplate
    <3>2. DisjointUnlessMoved'
      BY <1>b, <3>1 DEF DisjointUnlessMoved, Disjoint, Overlap
    <3> QED
      BY <2>6, <3>2
  <2> QED
    BY <2>7, <2>8
<1>2. CASE ~WriteTemplate(c)
  <2>1. UNCHANGED <<template, pools, moved>> /\ (l.kind = "template" => call'[c].stage = "done")
    BY <1>2, ContinueFrame
  <2>2. LookedAt'
    BY <1>b, <2>1, LookedAtStays
  <2>3. DisjointUnlessMoved'
    BY <1>b, <2>1 DEF DisjointUnlessMoved, Disjoint, Overlap
  <2> QED
    BY <2>2, <2>3
<1> QED
  BY <1>1, <1>2

(* The pools of a template were disjoint when CreateDeviceTemplate or             *)
(* UpdateDeviceTemplate looked at them, and are when they are named, unless one of   *)
(* them was changed in between or since (UpdateAddressPool asks no template).     *)
THEOREM PoolsDisjoint == Spec => []DisjointUnlessMoved
<1>1. Init => LookedAt /\ DisjointUnlessMoved
  <2> SUFFICES ASSUME Init PROVE LookedAt /\ DisjointUnlessMoved
    OBVIOUS
  <2>1. \A c \in Call : call[c] = Blank
    BY DEF Init
  <2>2. LookedAt
    BY <2>1 DEF LookedAt, Blank
  <2>3. DisjointUnlessMoved
    BY DEF Init, DisjointUnlessMoved
  <2> QED
    BY <2>2, <2>3
<1>2. ASSUME Typed, LookedAt, DisjointUnlessMoved, [Next]_vars
      PROVE  LookedAt' /\ DisjointUnlessMoved'
  <2>1. ASSUME NEW d \in Device, Login(d)
        PROVE  LookedAt' /\ DisjointUnlessMoved'
    BY <1>2, <2>1 DEF Login, table, LookedAt, DisjointUnlessMoved, Disjoint, Overlap
  <2>2. CASE UNCHANGED vars
    BY <1>2, <2>2 DEF vars, table, LookedAt, DisjointUnlessMoved, Disjoint, Overlap
  <2> QED
    BY <1>2, <2>1, <2>2, StartPools, ContinuePools DEF Next
<1> QED
  BY <1>1, <1>2, TypedAlways, PTL DEF Spec

-----------------------------------------------------------------------------
(* Addresses.                                                                 *)

Active(l) == l.kind \in Writes /\ l.stage # "done"

(* Of two requests that are under way both know that they are not alone. *)
AloneOK ==
    \A b, c \in Call : b # c /\ Active(call[b]) /\ Active(call[c]) => ~call[b].alone

(* The pools of a request have no address in common. *)
Apart(l) == \A i, j \in DOMAIN l.pools : i # j => ~Overlap(l.pools[i].range, l.pools[j].range)

(* What was allocated is from the pools that are covered, ... *)
InCovered(l) ==
    \A k \in DOMAIN l.addrs : \E i \in DOMAIN l.pools :
        /\ l.pools[i].pool \in l.covered
        /\ l.pools[i].range.lo <= l.addrs[k].addr /\ l.addrs[k].addr <= l.pools[i].range.hi

(* ... and is of nobody, given the addresses A of devices. *)
Fresh(s, A) ==
    /\ Distinct(s)
    /\ Own(s) \cap Reserved = {}
    /\ \A e \in Device : Own(s) \cap Own(A[e]) = {}

(* What is kept was the device's. *)
Kept(l, A) ==
    /\ Own(l.keep) \subseteq Own(A[l.device])
    /\ Distinct(A[l.device]) => Distinct(l.keep)

(* What a request has chosen that was alone, from pools that are apart. *)
Chose(l, A) ==
    l.alone /\ Apart(l) =>
        /\ l.kind = "create" /\ l.stage = "allocate" => InCovered(l)
        /\ l.kind = "create" /\ l.stage \in {"allocate", "insert", "insertAddress"} /\ l.pools # <<>> =>
             Fresh(l.addrs, A)
        /\ l.kind = "resync" /\ l.stage \in {"allocate", "rewrite"} =>
             InCovered(l) /\ Fresh(l.addrs, A) /\ Kept(l, A)

Chosen == \A c \in Call : Chose(call[c], addrs)

NoTwice(A, U) ==
    \A d, e \in Device \ U :
        /\ Own(A[d]) \cap Reserved = {}
        /\ Distinct(A[d])
        /\ d # e => Own(A[d]) \cap Own(A[e]) = {}

LEMMA EmptyFacts == Own(<<>>) = {} /\ Distinct(<<>>)
<1>1. DOMAIN <<>> = {}
  OBVIOUS
<1> QED
  BY <1>1 DEF Own, Distinct

(* d has the addresses s instead of others. *)
LEMMA NoTwiceWrite ==
    ASSUME NEW A \in [Device -> Seq(Prefix)], NEW U, NoTwice(A, U), NEW d \in Device, NEW s \in Seq(Prefix),
           NEW V, U \ {d} \subseteq V,
           \/ d \in V
           \/ /\ Own(s) \cap Reserved = {} /\ Distinct(s)
              /\ \A e \in Device \ (V \cup {d}) : Own(s) \cap Own(A[e]) = {}
    PROVE  NoTwice([A EXCEPT ![d] = s], V)
<1> DEFINE B == [A EXCEPT ![d] = s]
<1>1. B[d] = s /\ \A e \in Device \ {d} : B[e] = A[e]
  OBVIOUS
<1> HIDE DEF B
<1>2. ASSUME NEW e \in Device \ V
      PROVE  Own(B[e]) \cap Reserved = {} /\ Distinct(B[e])
  BY <1>1, <1>2 DEF NoTwice
<1>3. ASSUME NEW e \in Device \ V, NEW f \in Device \ V, e # f
      PROVE  Own(B[e]) \cap Own(B[f]) = {}
  <2>1. CASE e # d /\ f # d
    BY <1>1, <1>3, <2>1 DEF NoTwice
  <2>2. CASE e = d
    BY <1>1, <1>3, <2>2
  <2>3. CASE f = d
    BY <1>1, <1>3, <2>3
  <2> QED
    BY <2>1, <2>2, <2>3
<1>4. NoTwice(B, V)
  BY <1>2, <1>3 DEF NoTwice
<1> QED
  BY <1>4 DEF B

LEMMA NoTwiceErase ==
    ASSUME NEW A, NEW U, NoTwice(A, U), NEW D \in SUBSET Device
    PROVE  NoTwice([d \in Device |-> IF d \in D THEN <<>> ELSE A[d]], U \ D)
<1> DEFINE B == [d \in Device |-> IF d \in D THEN <<>> ELSE A[d]]
<1>1. \A d \in Device : IF d \in D THEN B[d] = <<>> ELSE B[d] = A[d]
  OBVIOUS
<1> HIDE DEF B
<1>2. NoTwice(B, U \ D)
  BY <1>1, EmptyFacts DEF NoTwice
<1> QED
  BY <1>2 DEF B

(* What was chosen stays so when the request itself has not changed. *)
LEMMA ChoseStays ==
    ASSUME NEW l, NEW m, NEW A, Chose(l, A),
           m.kind = l.kind, m.stage = l.stage, m.device = l.device, m.pools = l.pools, m.addrs = l.addrs,
           m.keep = l.keep, m.covered = l.covered, m.alone => l.alone
    PROVE  Chose(m, A)
<1>1. Apart(m) <=> Apart(l)
  BY DEF Apart
<1>2. InCovered(m) <=> InCovered(l)
  BY DEF InCovered
<1>3. Kept(m, A) <=> Kept(l, A)
  BY DEF Kept
<1> QED
  BY <1>1, <1>2, <1>3 DEF Chose

(* Addresses change only by a request that is under way or begins. *)
LEMMA ChosenOthers ==
    ASSUME Typed, AloneOK, Chosen, NEW c \in Call, OthersStay(c),
           \/ addrs' = addrs
           \/ Active(call[c])
           \/ \A b \in Call \ {c} : Active(call[b]) => ~call'[b].alone,
           NEW b \in Call \ {c}
    PROVE  Chose(call'[b], addrs')
<1>1. /\ call'[b].kind = call[b].kind /\ call'[b].stage = call[b].stage
      /\ call'[b].device = call[b].device /\ call'[b].pools = call[b].pools
      /\ call'[b].addrs = call[b].addrs /\ call'[b].keep = call[b].keep
      /\ call'[b].covered = call[b].covered
      /\ call'[b].alone => call[b].alone
  BY OthersFacts
<1>2. CASE addrs' = addrs
  BY <1>1, <1>2, ChoseStays DEF Chosen
<1>3. CASE call'[b].alone /\ addrs' # addrs
  <2>1. ~Active(call[b])
    BY <1>1, <1>3 DEF AloneOK
  <2>2. ~(call'[b].kind \in {"create", "resync"} /\ call'[b].stage # "done")
    BY <1>1, <2>1 DEF Active, Writes
  <2> QED
    BY <2>2 DEF Chose
<1>4. CASE ~call'[b].alone
  BY <1>4 DEF Chose
<1> QED
  BY <1>2, <1>3, <1>4

(* How requests begin. *)
LEMMA StartKinds ==
    ASSUME Typed, NEW c \in Call, Start(c)
    PROVE  \/ /\ OthersStay(c) /\ call'[c].kind \notin Writes
              /\ UNCHANGED <<device, addrs, unsafe>>
           \/ \E l \in Requests :
                /\ BeginWriting(c, l)
                /\ \/ l.kind = "create" /\ l.stage = "allocate" /\ l.addrs = <<>> /\ l.handled = {}
                   \/ l.kind = "create" /\ l.stage = "insert" /\ l.pools = <<>>
                   \/ l.kind = "resync" /\ l.stage = "listDevices" /\ l.handled = {}
                   \/ l.kind = "updateDevice" /\ l.stage = "write"
                   \/ l.stage = "done"
                /\ \/ UNCHANGED <<device, addrs, unsafe>>
                   \/ l.stage = "done" /\ \E D \in SUBSET Device : Erase(D)
<1>1. OthersStay(c)
  BY StartFrame
<1>2. ASSUME NEW p \in Pool,
             DeleteAddressPool(c, p) \/ \E r \in Span : CreateAddressPool(c, p, r) \/ UpdateAddressPool(c, p, r)
      PROVE  call'[c].kind \notin Writes /\ UNCHANGED <<device, addrs, unsafe>>
  <2>1. call'[c] = Request("pool", "done") /\ UNCHANGED <<device, addrs, unsafe>>
    BY <1>2 DEF DeleteAddressPool, CreateAddressPool, UpdateAddressPool, Begin, Typed, CallsOK
  <2>2. Request("pool", "done").kind = "pool"
    BY PlainForm DEF Kind
  <2> QED
    BY <2>1, <2>2 DEF Writes
<1>3. ASSUME NEW t \in Template, NEW P \in SUBSET Pool, NEW changed \in BOOLEAN,
             LookAtPools(c, t, P, changed)
      PROVE  call'[c].kind \notin Writes /\ UNCHANGED <<device, addrs, unsafe>>
  <2> DEFINE q == Request("template", IF t \in template THEN "update" ELSE "insert")
             l == [q EXCEPT !.template = t, !.todo = P, !.changed = changed]
  <2>1. Set(c, l) /\ UNCHANGED <<device, addrs, unsafe>>
    BY <1>3 DEF LookAtPools, Begin, Set, table
  <2>2. q \in Requests /\ q.kind = "template"
    BY BlankForm DEF Kind, Stage
  <2> HIDE DEF q
  <2>3. l.kind = "template"
    BY <2>2 DEF Requests
  <2> HIDE DEF l
  <2> QED
    BY <2>1, <2>3, SetFrame DEF Writes
<1>4. ASSUME NEW t \in Template, DeleteTemplate(c, t)
      PROVE  \E l \in Requests : BeginWriting(c, l) /\ l.stage = "done" /\ \E D \in SUBSET Device : Erase(D)
  <2> DEFINE D == {d \in Device : device[d] = t}
             l == Request("deleteTemplate", "done")
  <2>1. BeginWriting(c, l) /\ Erase(D)
    BY <1>4 DEF DeleteTemplate
  <2>2. D \in SUBSET Device
    OBVIOUS
  <2>3. l \in Requests /\ l.stage = "done"
    BY BlankForm DEF Kind, Stage, Writes
  <2> HIDE DEF D, l
  <2> QED
    BY <2>1, <2>2, <2>3
<1>5. ASSUME NEW d \in Device, DeleteDevice(c, d)
      PROVE  \E l \in Requests : BeginWriting(c, l) /\ l.stage = "done" /\ \E D \in SUBSET Device : Erase(D)
  <2> DEFINE l == Request("deleteDevice", "done")
  <2>1. BeginWriting(c, l) /\ Erase({d})
    BY <1>5 DEF DeleteDevice
  <2>2. l \in Requests /\ l.stage = "done"
    BY BlankForm DEF Kind, Stage, Writes
  <2> HIDE DEF l
  <2> QED
    BY <2>1, <2>2
<1>6. ASSUME NEW t \in Template, CreateDevice(c, t)
      PROVE  \E l \in Requests : /\ BeginWriting(c, l)
                                 /\ l.kind = "create" /\ l.stage = "allocate" /\ l.addrs = <<>> /\ l.handled = {}
                                 /\ UNCHANGED <<device, addrs, unsafe>>
  <2>1. t \in template /\ UNCHANGED <<device, addrs, unsafe>>
    BY <1>6 DEF CreateDevice, table
  <2>2. PICK s \in Listed(t) :
          BeginWriting(c, [Request("create", "allocate") EXCEPT !.template = t, !.pools = s])
    BY <1>6 DEF CreateDevice
  <2> DEFINE q == Request("create", "allocate")
             l == [q EXCEPT !.template = t, !.pools = s]
  <2>3. s \in Seq(Entry)
    BY <2>1, ListedForm DEF Typed, Listing
  <2>4. q \in Requests /\ q.kind = "create" /\ q.stage = "allocate" /\ q.addrs = <<>> /\ q.handled = {}
    BY BlankForm DEF Kind, Stage, Writes, Request, Blank
  <2>5. BeginWriting(c, l)
    BY <2>2
  <2> HIDE DEF q
  <2>6. l \in Requests /\ l.kind = "create" /\ l.stage = "allocate" /\ l.addrs = <<>> /\ l.handled = {}
    BY <2>3, <2>4 DEF Requests
  <2> HIDE DEF l
  <2> QED
    BY <2>1, <2>5, <2>6
<1>7. ASSUME NEW t \in Template, Resync(c, t)
      PROVE  \E l \in Requests : /\ BeginWriting(c, l)
                                 /\ l.kind = "resync" /\ l.stage = "listDevices" /\ l.handled = {}
                                 /\ UNCHANGED <<device, addrs, unsafe>>
  <2>1. t \in template /\ UNCHANGED <<device, addrs, unsafe>>
    BY <1>7 DEF Resync, table
  <2>2. PICK s \in Listed(t) :
          BeginWriting(c, [Request("resync", "listDevices") EXCEPT !.template = t, !.pools = s])
    BY <1>7 DEF Resync
  <2> DEFINE q == Request("resync", "listDevices")
             l == [q EXCEPT !.template = t, !.pools = s]
  <2>3. s \in Seq(Entry)
    BY <2>1, ListedForm DEF Typed, Listing
  <2>4. q \in Requests /\ q.kind = "resync" /\ q.stage = "listDevices" /\ q.handled = {}
    BY BlankForm DEF Kind, Stage, Writes, Request, Blank
  <2>5. BeginWriting(c, l)
    BY <2>2
  <2> HIDE DEF q
  <2>6. l \in Requests /\ l.kind = "resync" /\ l.stage = "listDevices" /\ l.handled = {}
    BY <2>3, <2>4 DEF Requests
  <2> HIDE DEF l
  <2> QED
    BY <2>1, <2>5, <2>6
<1>8. ASSUME NEW t \in Template, NEW g \in Given, CreateGivenDevice(c, t, g)
      PROVE  \E l \in Requests : /\ BeginWriting(c, l)
                                 /\ l.kind = "create" /\ l.stage = "insert" /\ l.pools = <<>>
                                 /\ UNCHANGED <<device, addrs, unsafe>>
  <2> DEFINE q == Request("create", "insert")
             l == [q EXCEPT !.template = t, !.addrs = g]
  <2>1. BeginWriting(c, l) /\ UNCHANGED <<device, addrs, unsafe>>
    BY <1>8 DEF CreateGivenDevice, table
  <2>2. q \in Requests /\ q.kind = "create" /\ q.stage = "insert" /\ q.pools = <<>>
    BY BlankForm DEF Kind, Stage, Writes
  <2> HIDE DEF q
  <2>3. l \in Requests /\ l.kind = "create" /\ l.stage = "insert" /\ l.pools = <<>>
    BY <2>2, GivenAssumption DEF Requests
  <2> HIDE DEF l
  <2> QED
    BY <2>1, <2>3
<1>9. ASSUME NEW d \in Device, NEW g \in Given, UpdateDevice(c, d, g)
      PROVE  \E l \in Requests : /\ BeginWriting(c, l)
                                 /\ l.kind = "updateDevice" /\ l.stage = "write"
                                 /\ UNCHANGED <<device, addrs, unsafe>>
  <2> DEFINE q == Request("updateDevice", "write")
             l == [q EXCEPT !.device = d, !.addrs = g, !.old = addrs[d]]
  <2>1. BeginWriting(c, l) /\ UNCHANGED <<device, addrs, unsafe>>
    BY <1>9 DEF UpdateDevice, table
  <2>2. q \in Requests /\ q.kind = "updateDevice" /\ q.stage = "write"
    BY BlankForm DEF Kind, Stage, Writes
  <2> HIDE DEF q
  <2>3. addrs[d] \in Seq(Prefix)
    BY DEF Typed, DeviceOK
  <2>4. l \in Requests /\ l.kind = "updateDevice" /\ l.stage = "write"
    BY <2>2, <2>3, GivenAssumption DEF Requests
  <2> HIDE DEF l
  <2> QED
    BY <2>1, <2>4
<1> DEFINE Goal == \E l \in Requests :
                /\ BeginWriting(c, l)
                /\ \/ l.kind = "create" /\ l.stage = "allocate" /\ l.addrs = <<>> /\ l.handled = {}
                   \/ l.kind = "create" /\ l.stage = "insert" /\ l.pools = <<>>
                   \/ l.kind = "resync" /\ l.stage = "listDevices" /\ l.handled = {}
                   \/ l.kind = "updateDevice" /\ l.stage = "write"
                   \/ l.stage = "done"
                /\ \/ UNCHANGED <<device, addrs, unsafe>>
                   \/ l.stage = "done" /\ \E D \in SUBSET Device : Erase(D)
<1>10. ASSUME NEW t \in Template, DeleteTemplate(c, t) PROVE Goal
  BY <1>4, <1>10
<1>11. ASSUME NEW d \in Device, DeleteDevice(c, d) PROVE Goal
  BY <1>5, <1>11
<1>12. ASSUME NEW t \in Template, CreateDevice(c, t) PROVE Goal
  BY <1>6, <1>12
<1>13. ASSUME NEW t \in Template, Resync(c, t) PROVE Goal
  BY <1>7, <1>13
<1>14. ASSUME NEW t \in Template, NEW g \in Given, CreateGivenDevice(c, t, g) PROVE Goal
  BY <1>8, <1>14
<1>15. ASSUME NEW d \in Device, NEW g \in Given, UpdateDevice(c, d, g) PROVE Goal
  BY <1>9, <1>15
<1> HIDE DEF Goal
<1>16. \/ call'[c].kind \notin Writes /\ UNCHANGED <<device, addrs, unsafe>>
       \/ Goal
  BY <1>2, <1>3, <1>10, <1>11, <1>12, <1>13, <1>14, <1>15 DEF Start
<1> QED
  BY <1>1, <1>16 DEF Goal

LEMMA StartAddresses ==
    ASSUME Typed, AloneOK, Chosen, NoAddressTwice, NEW c \in Call, Start(c)
    PROVE  AloneOK' /\ Chosen' /\ NoAddressTwice'
<1>1. OthersStay(c)
  BY StartFrame
<1>a. \A b \in Call \ {c} : /\ Active(call'[b]) <=> Active(call[b])
                            /\ call'[b].alone => call[b].alone
  BY <1>1, OthersFacts DEF Active
<1>2. CASE call'[c].kind \notin Writes /\ UNCHANGED <<addrs, unsafe>>
  <2>1. ~Active(call'[c])
    BY <1>2 DEF Active
  <2>2. AloneOK'
    BY <1>a, <2>1 DEF AloneOK, Active
  <2>3. Chose(call'[c], addrs')
    BY <1>2 DEF Chose, Writes
  <2>4. Chosen'
    BY <1>1, <1>2, <2>3, ChosenOthers DEF Chosen
  <2>5. NoAddressTwice'
    BY <1>2 DEF NoAddressTwice
  <2> QED
    BY <2>2, <2>4, <2>5
<1>3. ASSUME NEW l \in Requests, BeginWriting(c, l),
             \/ l.kind = "create" /\ l.stage = "allocate" /\ l.addrs = <<>>
             \/ l.kind = "create" /\ l.stage = "insert" /\ l.pools = <<>>
             \/ l.kind = "resync" /\ l.stage = "listDevices"
             \/ l.kind = "updateDevice" /\ l.stage = "write"
             \/ l.stage = "done",
             UNCHANGED <<addrs, unsafe>> \/ \E D \in SUBSET Device : Erase(D)
      PROVE  AloneOK' /\ Chosen' /\ NoAddressTwice'
  <2>1. /\ call'[c].kind = l.kind /\ call'[c].stage = l.stage
        /\ call'[c].pools = l.pools /\ call'[c].addrs = l.addrs
        /\ \A b \in Call \ {c} : Active(call[b]) => ~call'[b].alone /\ ~call'[c].alone
    BY <1>3, BeginWritingFrame DEF Active
  <2>2. AloneOK'
    <3> SUFFICES ASSUME NEW b1 \in Call, NEW b2 \in Call, b1 # b2, Active(call'[b1]), Active(call'[b2])
                 PROVE  ~call'[b1].alone
      BY DEF AloneOK, Active
    <3>1. CASE b1 = c
      BY <1>a, <2>1, <3>1
    <3>2. CASE b1 # c
      BY <1>a, <2>1, <3>2
    <3> QED
      BY <3>1, <3>2
  <2>3. Chose(call'[c], addrs')
    <3>1. CASE l.kind = "create" /\ l.stage = "allocate" /\ l.addrs = <<>>
      <4>1. DOMAIN <<>> = {}
        OBVIOUS
      <4>2. InCovered(call'[c])
        BY <2>1, <3>1, <4>1 DEF InCovered
      <4>3. Fresh(<<>>, addrs')
        BY EmptyFacts DEF Fresh
      <4> QED
        BY <2>1, <3>1, <4>2, <4>3 DEF Chose
    <3>2. CASE l.kind = "create" /\ l.stage = "insert" /\ l.pools = <<>>
      BY <2>1, <3>2 DEF Chose
    <3>3. CASE \/ l.kind = "resync" /\ l.stage = "listDevices"
               \/ l.kind = "updateDevice" /\ l.stage = "write"
               \/ l.stage = "done"
      BY <2>1, <3>3 DEF Chose
    <3> QED
      BY <1>3, <3>1, <3>2, <3>3
  <2>4. \A b \in Call \ {c} : Active(call[b]) => ~call'[b].alone
    BY <2>1
  <2>5. \A b \in Call \ {c} : Chose(call'[b], addrs')
    BY <1>1, <2>4, ChosenOthers
  <2>6. Chosen'
    BY <2>3, <2>5 DEF Chosen
  <2>7. NoAddressTwice'
    <3>1. CASE UNCHANGED <<addrs, unsafe>>
      BY <3>1 DEF NoAddressTwice
    <3>2. CASE \E D \in SUBSET Device : Erase(D)
      <4>1. PICK D \in SUBSET Device : Erase(D)
        BY <3>2
      <4>2. NoTwice(addrs, unsafe)
        BY DEF NoAddressTwice, NoTwice
      <4>3. NoTwice(addrs', unsafe')
        BY <4>1, <4>2, NoTwiceErase DEF Erase
      <4> QED
        BY <4>3 DEF NoAddressTwice, NoTwice
    <3> QED
      BY <1>3, <3>1, <3>2
  <2> QED
    BY <2>2, <2>6, <2>7
<1> QED
  BY <1>2, <1>3, StartKinds

(* An address that is found for a request that was alone is of nobody. *)
LEMMA AllocateFresh ==
    ASSUME Typed, NEW c \in Call, call[c].stage = "allocate", Apart(call[c]), InCovered(call[c]),
           Fresh(call[c].addrs, addrs),
           NEW i \in DOMAIN call[c].pools, call[c].pools[i].pool \notin call[c].covered,
           NEW a, a = FirstAvailableAddress(call[c].pools[i].range, Used(call[c].pools[i].range)), a # None
    PROVE  /\ a \in Prefix
           /\ Belongs(a, call[c].pools[i].range)
           /\ Fresh(Append(call[c].addrs, a), addrs)
           /\ \A m : m.pools = call[c].pools /\ m.addrs = Append(call[c].addrs, a)
                     /\ m.covered = call[c].covered \cup {call[c].pools[i].pool} => InCovered(m)
<1> DEFINE l == call[c]
           r == l.pools[i].range
<1>1. l.pools \in Seq(Entry) /\ l.addrs \in Seq(Prefix)
  BY DEF Typed, CallsOK, CallForm, Listing, Requests
<1>2. \A j \in DOMAIN l.pools : l.pools[j].range \in Span
  <2>1. \A j \in DOMAIN l.pools : l.pools[j] \in Entry
    BY <1>1
  <2> QED
    BY <2>1 DEF Entry
<1>3. /\ a \in Prefix /\ Belongs(a, r) /\ a.addr \in r.lo .. r.hi /\ a.addr \notin Used(r)
  BY <1>2, FoundAddress
<1>4. /\ r.lo \in Nat /\ r.hi \in Nat /\ Subnet(a.addr, r.bits) = Subnet(r.lo, r.bits)
      /\ r.lo <= a.addr /\ a.addr <= r.hi /\ a.addr \in Nat
  BY <1>2, <1>3, OneSubnet
<1>5. a.addr \notin Reserved \cup UNION {Own(addrs[d]) : d \in Device}
  BY <1>3, <1>4 DEF Used
<1>6. a.addr \notin Own(l.addrs)
  <2> SUFFICES ASSUME a.addr \in Own(l.addrs) PROVE FALSE
    OBVIOUS
  <2>1. PICK k \in DOMAIN l.addrs : a.addr = l.addrs[k].addr
    BY DEF Own
  <2>2. PICK j \in DOMAIN l.pools :
          /\ l.pools[j].pool \in l.covered
          /\ l.pools[j].range.lo <= a.addr /\ a.addr <= l.pools[j].range.hi
    BY <2>1 DEF InCovered
  <2>3. i # j
    BY <2>2
  <2>4. ~Overlap(r, l.pools[j].range)
    BY <2>3 DEF Apart
  <2>5. l.pools[j].range.lo \in Nat /\ l.pools[j].range.hi \in Nat
    BY <1>2, OneSubnet
  <2>6. ~(r.lo <= l.pools[j].range.hi /\ l.pools[j].range.lo <= r.hi)
    BY <2>4 DEF Overlap
  <2> HIDE DEF r, l
  <2> QED
    BY <1>4, <2>2, <2>5, <2>6
<1>7. /\ Own(Append(l.addrs, a)) = Own(l.addrs) \cup {a.addr}
      /\ Distinct(l.addrs) /\ a.addr \notin Own(l.addrs) => Distinct(Append(l.addrs, a))
  BY <1>1, <1>3, Appended
<1>8. Fresh(Append(l.addrs, a), addrs)
  <2>1. a.addr \notin Reserved /\ \A e \in Device : a.addr \notin Own(addrs[e])
    BY <1>5
  <2> DEFINE s == Append(l.addrs, a)
  <2>2. Own(s) = Own(l.addrs) \cup {a.addr} /\ Distinct(s)
    BY <1>6, <1>7 DEF Fresh
  <2> HIDE DEF s
  <2>3. Fresh(s, addrs)
    BY <2>1, <2>2 DEF Fresh
  <2> QED
    BY <2>3 DEF s
<1>9. ASSUME NEW m, m.pools = l.pools, m.addrs = Append(l.addrs, a),
             m.covered = l.covered \cup {l.pools[i].pool}
      PROVE  InCovered(m)
  <2> SUFFICES ASSUME NEW k \in DOMAIN m.addrs
               PROVE  \E j \in DOMAIN l.pools :
                        /\ l.pools[j].pool \in m.covered
                        /\ l.pools[j].range.lo <= m.addrs[k].addr /\ m.addrs[k].addr <= l.pools[j].range.hi
    BY <1>9 DEF InCovered
  <2>1. \/ k \in DOMAIN l.addrs /\ m.addrs[k] = l.addrs[k]
        \/ m.addrs[k] = a
    BY <1>1, <1>9
  <2>2. CASE k \in DOMAIN l.addrs /\ m.addrs[k] = l.addrs[k]
    <3>1. PICK j \in DOMAIN l.pools :
            /\ l.pools[j].pool \in l.covered
            /\ l.pools[j].range.lo <= l.addrs[k].addr /\ l.addrs[k].addr <= l.pools[j].range.hi
      BY <2>2 DEF InCovered
    <3> QED
      BY <1>9, <2>2, <3>1
  <2>3. CASE m.addrs[k] = a
    BY <1>4, <1>9, <2>3
  <2> QED
    BY <2>1, <2>2, <2>3
<1> QED
  BY <1>3, <1>8, <1>9

(* A step of a request keeps what there is if it does so for its own addresses. *)
LEMMA ContinueAlone ==
    ASSUME Typed, AloneOK, Chosen, NEW c \in Call, Continue(c),
           addrs' = addrs \/ Active(call[c]), Chose(call'[c], addrs')
    PROVE  AloneOK' /\ Chosen'
<1>1. /\ OthersStay(c) /\ \A b \in Call \ {c} : call'[b] = call[b]
      /\ call[c].stage # "done" /\ call'[c].kind = call[c].kind /\ call'[c].alone = call[c].alone
  BY ContinueFrame
<1>2. \A b \in Call : /\ Active(call'[b]) => Active(call[b])
                      /\ call'[b].alone = call[b].alone
  BY <1>1 DEF Active
<1>3. AloneOK'
  BY <1>2 DEF AloneOK, Active
<1>4. \A b \in Call \ {c} : Chose(call'[b], addrs')
  BY <1>1, ChosenOthers
<1> QED
  BY <1>3, <1>4 DEF Chosen

LEMMA ContinueAddresses ==
    ASSUME Typed, AloneOK, Chosen, NoAddressTwice, NEW c \in Call, Continue(c)
    PROVE  AloneOK' /\ Chosen' /\ NoAddressTwice'
<1> DEFINE l == call[c]
           Kinds == {"create", "updateDevice", "resync"}
<1>a. CallForm(l) /\ l \in Requests
  BY DEF Typed, CallsOK, CallForm
<1>b. ASSUME addrs' = addrs, unsafe' = unsafe, Chose(call'[c], addrs)
      PROVE  AloneOK' /\ Chosen' /\ NoAddressTwice'
  <2>1. Chose(call'[c], addrs')
    BY <1>b
  <2>2. NoAddressTwice'
    BY <1>b DEF NoAddressTwice
  <2> QED
    BY <1>b, <2>1, <2>2, ContinueAlone
<1>c. ASSUME NEW m, Set(c, m)
      PROVE  call'[c] = m
  BY <1>c, SetFrame
<1>d. ASSUME NEW m, ~(m.kind \in {"create", "resync"} /\ m.stage \in {"allocate", "insert", "insertAddress", "rewrite"})
      PROVE  \A A : Chose(m, A)
  BY <1>d DEF Chose
<1>e. NoTwice(addrs, unsafe) /\ Chose(l, addrs)
  BY DEF NoAddressTwice, NoTwice, Chosen
<1>f. ASSUME NoTwice(addrs', unsafe'), l.kind \in Kinds, l.stage # "done", Chose(call'[c], addrs')
      PROVE  AloneOK' /\ Chosen' /\ NoAddressTwice'
  <2>1. Active(l)
    BY <1>f DEF Active, Writes
  <2>2. NoAddressTwice'
    BY <1>f DEF NoAddressTwice, NoTwice
  <2> QED
    BY <1>f, <2>1, <2>2, ContinueAlone
<1>g. /\ call'[c].kind = l.kind /\ call'[c].alone = l.alone /\ call'[c].pools = l.pools
  BY ContinueFrame
<1>h. addrs \in [Device -> Seq(Prefix)]
  BY DEF Typed, DeviceOK
<1>1. CASE WriteTemplate(c) \/ EndSessions(c)
  <2>1. l.stage \in {"insert", "update", "endSessions"} /\ UNCHANGED <<addrs, unsafe>>
    BY <1>1 DEF WriteTemplate, EndSessions, table
  <2>2. l.kind = "template"
    BY <1>1, <1>a, <2>1 DEF WriteTemplate, EndSessions, CallForm, StageForm, Blank
  <2> QED
    BY <1>b, <1>d, <1>g, <2>1, <2>2
<1>2. CASE EndSession(c)
  <2>1. l.stage = "endSession" /\ UNCHANGED <<addrs, unsafe>>
    BY <1>2 DEF EndSession, table
  <2>2. l.kind = "updateDevice"
    BY <1>a, <2>1 DEF CallForm, StageForm, Blank
  <2> QED
    BY <1>b, <1>d, <1>g, <2>1, <2>2
<1>3. CASE Allocate(c)
  <2> DEFINE rest == {i \in DOMAIN l.pools : l.pools[i].pool \notin l.covered}
             p == l.pools[Min(rest)]
             a == FirstAvailableAddress(p.range, Used(p.range))
  <2>1. /\ l.stage = "allocate"
        /\ Set(c, IF rest = {} THEN [l EXCEPT !.stage = IF l.kind = "create" THEN "insert" ELSE "rewrite"]
                  ELSE IF a = None THEN [l EXCEPT !.stage = IF l.kind = "create" THEN "done" ELSE "delete"]
                  ELSE [l EXCEPT !.addrs = Append(@, a), !.covered = @ \cup {p.pool}])
        /\ UNCHANGED <<addrs, unsafe>>
    BY <1>3 DEF Allocate, table
  <2>2. l.stage = "allocate"
    BY <2>1
  <2>3. l.kind \in {"create", "resync"}
    <3> HIDE DEF l
    <3> QED
      BY <1>a, <2>2 DEF CallForm, StageForm, Blank
  <2>4. CASE rest = {}
    <3> DEFINE m == [l EXCEPT !.stage = IF l.kind = "create" THEN "insert" ELSE "rewrite"]
    <3>1. call'[c] = m
      BY <1>c, <2>1, <2>4
    <3>2. /\ m.kind = l.kind /\ m.pools = l.pools /\ m.addrs = l.addrs /\ m.keep = l.keep
          /\ m.covered = l.covered /\ m.device = l.device /\ m.alone = l.alone
          /\ m.stage = IF l.kind = "create" THEN "insert" ELSE "rewrite"
      BY <1>a DEF Requests
    <3> HIDE DEF m, l
    <3>3. (Apart(m) <=> Apart(l)) /\ (InCovered(m) <=> InCovered(l)) /\ (Kept(m, addrs) <=> Kept(l, addrs))
      BY <3>2 DEF Apart, InCovered, Kept
    <3>4. Chose(m, addrs)
      BY <1>e, <2>2, <2>3, <3>2, <3>3 DEF Chose
    <3> QED
      BY <1>b, <2>1, <3>1, <3>4
  <2>5. CASE rest # {} /\ a = None
    <3> DEFINE m == [l EXCEPT !.stage = IF l.kind = "create" THEN "done" ELSE "delete"]
    <3>1. call'[c] = m
      BY <1>c, <2>1, <2>5
    <3>2. m.stage \in {"done", "delete"}
      BY <1>a DEF Requests
    <3> HIDE DEF m, l
    <3>3. Chose(m, addrs)
      BY <1>d, <3>2
    <3> QED
      BY <1>b, <2>1, <3>1, <3>3
  <2>6. CASE rest # {} /\ a # None
    <3> DEFINE m == [l EXCEPT !.addrs = Append(@, a), !.covered = @ \cup {p.pool}]
    <3>1. call'[c] = m
      BY <1>c, <2>1, <2>6
    <3>2. /\ m.kind = l.kind /\ m.pools = l.pools /\ m.addrs = Append(l.addrs, a) /\ m.keep = l.keep
          /\ m.covered = l.covered \cup {p.pool} /\ m.device = l.device /\ m.alone = l.alone
          /\ m.stage = l.stage
      BY <1>a DEF Requests
    <3>3. rest \in SUBSET Nat
      BY <1>a DEF CallForm, Listing
    <3>4. Min(rest) \in rest
      BY <2>6, <3>3, Least
    <3>5. Min(rest) \in DOMAIN l.pools /\ p.pool \notin l.covered
      BY <3>4
    <3> DEFINE i == Min(rest)
    <3>6. i \in DOMAIN l.pools /\ p = l.pools[i]
      BY <3>5
    <3> HIDE DEF rest, m, i
    <3>7. l.alone /\ Apart(l) /\ InCovered(l) /\ Fresh(l.addrs, addrs) =>
            Fresh(Append(l.addrs, a), addrs) /\ InCovered(m)
      <4> SUFFICES ASSUME l.alone, Apart(l), InCovered(l), Fresh(l.addrs, addrs)
                   PROVE  Fresh(Append(l.addrs, a), addrs) /\ InCovered(m)
        OBVIOUS
      <4> QED
        BY <2>2, <2>6, <3>2, <3>5, <3>6, AllocateFresh
    <3>8. (Apart(m) <=> Apart(l)) /\ (Kept(m, addrs) <=> Kept(l, addrs))
      BY <3>2 DEF Apart, Kept
    <3>9. l.pools # <<>>
      BY <3>6
    <3> HIDE DEF a, p, l
    <3>10. Chose(m, addrs)
      BY <1>e, <2>2, <2>3, <3>2, <3>7, <3>8, <3>9 DEF Chose
    <3> QED
      BY <1>b, <2>1, <3>1, <3>10
  <2> QED
    BY <2>4, <2>5, <2>6
<1>4. ASSUME NEW d \in Device, InsertDevice(c, d)
      PROVE  AloneOK' /\ Chosen' /\ NoAddressTwice'
  <2>1. /\ l.kind = "create" /\ l.stage = "insert" /\ UNCHANGED <<addrs, unsafe>>
        /\ \/ Set(c, [l EXCEPT !.stage = "insertAddress", !.device = d])
           \/ Goto(c, "done")
    BY <1>4 DEF InsertDevice
  <2>2. CASE Set(c, [l EXCEPT !.stage = "insertAddress", !.device = d])
    <3> DEFINE m == [l EXCEPT !.stage = "insertAddress", !.device = d]
    <3>1. call'[c] = m
      BY <1>c, <2>2
    <3>2. /\ m.kind = l.kind /\ m.pools = l.pools /\ m.addrs = l.addrs
          /\ m.alone = l.alone /\ m.stage = "insertAddress"
      BY <1>a DEF Requests
    <3> HIDE DEF m, l
    <3>3. Apart(m) <=> Apart(l)
      BY <3>2 DEF Apart
    <3>4. Chose(m, addrs)
      BY <1>e, <2>1, <3>2, <3>3 DEF Chose
    <3> QED
      BY <1>b, <2>1, <3>1, <3>4
  <2>3. CASE Goto(c, "done")
    <3>1. call'[c].stage = "done"
      BY <1>a, <1>c, <2>3 DEF Goto, Requests
    <3>2. Chose(call'[c], addrs)
      BY <1>d, <3>1
    <3> QED
      BY <1>b, <2>1, <3>2
  <2> QED
    BY <2>1, <2>2, <2>3
<1>5. CASE InsertAddress(c)
  <2>1. l.stage = "insertAddress"
    BY <1>5 DEF InsertAddress
  <2>2. l.kind = "create" /\ l.device \in Device
    BY <1>a, <2>1 DEF CallForm, StageForm, Blank
  <2>3. PICK d \in Device : d = l.device
    BY <2>2
  <2>4. CASE l.addrs # <<>> /\ Exists(d)
    <3> DEFINE h == Head(l.addrs)
               s == Append(addrs[d], h)
               m == [l EXCEPT !.addrs = Tail(@)]
    <3>1. /\ addrs' = [addrs EXCEPT ![d] = s]
          /\ Set(c, m)
          /\ IF l.pools = <<>>
             THEN unsafe' = IF h.addr \in UsedBut(d) \cup Own(addrs[d]) THEN unsafe \cup {d} ELSE unsafe
             ELSE unsafe' = IF l.alone /\ Apart(l) THEN unsafe ELSE unsafe \cup {d}
      BY <1>5, <2>3, <2>4 DEF InsertAddress, Record, Apart
    <3>2. l.addrs \in Seq(Prefix) /\ addrs[d] \in Seq(Prefix)
      BY <1>a, <1>h DEF Requests
    <3>3. /\ h \in Prefix /\ Tail(l.addrs) \in Seq(Prefix)
          /\ h.addr \in Own(l.addrs) /\ Own(Tail(l.addrs)) \subseteq Own(l.addrs)
          /\ Distinct(l.addrs) => Distinct(Tail(l.addrs)) /\ h.addr \notin Own(Tail(l.addrs))
      BY <2>4, <3>2, Headed
    <3>4. /\ s \in Seq(Prefix) /\ Own(s) = Own(addrs[d]) \cup {h.addr}
          /\ Distinct(addrs[d]) /\ h.addr \notin Own(addrs[d]) => Distinct(s)
      BY <3>2, <3>3, Appended
    <3>5. call'[c] = m
      BY <1>c, <3>1
    <3>6. /\ m.kind = l.kind /\ m.pools = l.pools /\ m.addrs = Tail(l.addrs)
          /\ m.alone = l.alone /\ m.stage = l.stage
      BY <1>a DEF Requests
    <3>7. l.alone /\ Apart(l) /\ l.pools # <<>> => Fresh(l.addrs, addrs)
      BY <1>e, <2>1, <2>2 DEF Chose
    <3> HIDE DEF m, s
    <3>8. addrs'[d] = s /\ \A e \in Device \ {d} : addrs'[e] = addrs[e]
      BY <1>h, <3>1
    <3>9. ASSUME l.alone, Apart(l), l.pools # <<>>
          PROVE  Fresh(Tail(l.addrs), addrs')
      <4>1. Fresh(l.addrs, addrs)
        BY <3>7, <3>9
      <4>2. Distinct(Tail(l.addrs)) /\ Own(Tail(l.addrs)) \cap Reserved = {} /\ h.addr \notin Own(Tail(l.addrs))
        BY <3>3, <4>1 DEF Fresh
      <4>3. ASSUME NEW e \in Device
            PROVE  Own(Tail(l.addrs)) \cap Own(addrs'[e]) = {}
        <5>1. CASE e = d
          BY <3>3, <3>4, <3>8, <4>1, <4>2, <5>1 DEF Fresh
        <5>2. CASE e # d
          BY <3>3, <3>8, <4>1, <5>2 DEF Fresh
        <5> QED
          BY <5>1, <5>2
      <4> QED
        BY <4>2, <4>3 DEF Fresh
    <3>10. Chose(m, addrs')
      <4>1. Apart(m) <=> Apart(l)
        BY <3>6 DEF Apart
      <4> QED
        BY <2>1, <2>2, <3>6, <3>9, <4>1 DEF Chose
    <3>11. NoTwice(addrs', unsafe')
      <4>1. unsafe \ {d} \subseteq unsafe'
        BY <3>1
      <4>2. d \in unsafe' \/ (d \notin unsafe /\ h.addr \notin Reserved /\ \A e \in Device : h.addr \notin Own(addrs[e]))
        <5>1. CASE l.pools = <<>>
          <6>1. h.addr \notin UsedBut(d) \cup Own(addrs[d]) =>
                  h.addr \notin Reserved /\ \A e \in Device : h.addr \notin Own(addrs[e])
            BY DEF UsedBut
          <6> QED
            BY <3>1, <5>1, <6>1
        <5>2. CASE l.pools # <<>>
          BY <3>1, <3>3, <3>7, <5>2 DEF Fresh
        <5> QED
          BY <5>1, <5>2
      <4>3. ASSUME d \notin unsafe'
            PROVE  /\ Own(s) \cap Reserved = {} /\ Distinct(s)
                   /\ \A e \in Device \ (unsafe' \cup {d}) : Own(s) \cap Own(addrs[e]) = {}
        <5>1. /\ d \notin unsafe /\ h.addr \notin Reserved /\ \A e \in Device : h.addr \notin Own(addrs[e])
          BY <4>2, <4>3
        <5>2. /\ Own(addrs[d]) \cap Reserved = {} /\ Distinct(addrs[d])
              /\ \A e \in Device \ (unsafe \cup {d}) : Own(addrs[d]) \cap Own(addrs[e]) = {}
          BY <1>e, <5>1 DEF NoTwice
        <5>3. unsafe \subseteq unsafe'
          BY <4>1, <5>1
        <5> QED
          BY <3>4, <5>1, <5>2, <5>3
      <4>4. \/ d \in unsafe'
            \/ /\ Own(s) \cap Reserved = {} /\ Distinct(s)
               /\ \A e \in Device \ (unsafe' \cup {d}) : Own(s) \cap Own(addrs[e]) = {}
        BY <4>3
      <4>5. s \in Seq(Prefix) /\ NoTwice(addrs, unsafe)
        BY <1>e, <3>4
      <4>6. NoTwice([addrs EXCEPT ![d] = s], unsafe')
        <5>1. PICK V : V = unsafe'
          OBVIOUS
        <5>2. PICK t \in Seq(Prefix) : t = s
          BY <4>5
        <5>3. /\ unsafe \ {d} \subseteq V
              /\ \/ d \in V
                 \/ /\ Own(t) \cap Reserved = {} /\ Distinct(t)
                    /\ \A e \in Device \ (V \cup {d}) : Own(t) \cap Own(addrs[e]) = {}
          BY <4>1, <4>4, <5>1, <5>2
        <5>4. NoTwice([addrs EXCEPT ![d] = t], V)
          BY <1>h, <4>5, <5>3, NoTwiceWrite
        <5> QED
          BY <5>1, <5>2, <5>4
      <4> QED
        BY <3>1, <4>6
    <3> QED
      BY <1>f, <2>1, <2>2, <3>5, <3>10, <3>11
  <2>5. CASE ~(l.addrs # <<>> /\ Exists(d))
    <3>1. Goto(c, "done") /\ UNCHANGED <<addrs, unsafe>>
      BY <1>5, <2>3, <2>5 DEF InsertAddress
    <3>2. call'[c].stage = "done"
      BY <1>a, <1>c, <3>1 DEF Goto, Requests
    <3>3. Chose(call'[c], addrs)
      BY <1>d, <3>2
    <3> QED
      BY <1>b, <3>1, <3>3
  <2> QED
    BY <2>4, <2>5
<1>6. CASE WriteDevice(c)
  <2>1. l.stage = "write"
    BY <1>6 DEF WriteDevice
  <2>2. l.kind = "updateDevice" /\ l.device \in Device /\ l.addrs \in Seq(Prefix)
    BY <1>a, <2>1 DEF CallForm, StageForm, Blank, Requests
  <2>3. PICK d \in Device : d = l.device
    BY <2>2
  <2>4. \A A : Chose(call'[c], A)
    BY <1>d, <1>g, <2>2
  <2>5. CASE Exists(d)
    <3> DEFINE s == l.addrs
    <3>1. /\ addrs' = [addrs EXCEPT ![d] = s]
          /\ unsafe' = IF Own(s) \cap UsedBut(d) = {} /\ Distinct(s) THEN unsafe \ {d} ELSE unsafe \cup {d}
      BY <1>6, <2>3, <2>5 DEF WriteDevice
    <3>2. s \in Seq(Prefix)
      BY <2>2
    <3> HIDE DEF s
    <3>3. unsafe \ {d} \subseteq unsafe'
      BY <3>1
    <3>4. Own(s) \cap UsedBut(d) = {} => /\ Own(s) \cap Reserved = {}
                                         /\ \A e \in Device \ {d} : Own(s) \cap Own(addrs[e]) = {}
      BY DEF UsedBut
    <3>5. \/ d \in unsafe'
          \/ /\ Own(s) \cap Reserved = {} /\ Distinct(s)
             /\ \A e \in Device \ (unsafe' \cup {d}) : Own(s) \cap Own(addrs[e]) = {}
      BY <3>1, <3>4
    <3>6. NoTwice([addrs EXCEPT ![d] = s], unsafe')
      BY <1>e, <1>h, <3>2, <3>3, <3>5, NoTwiceWrite
    <3>7. NoTwice(addrs', unsafe')
      BY <3>1, <3>6
    <3> QED
      BY <1>f, <2>1, <2>2, <2>4, <3>7
  <2>6. CASE ~Exists(d)
    <3>1. UNCHANGED <<addrs, unsafe>>
      BY <1>6, <2>3, <2>6 DEF WriteDevice
    <3> QED
      BY <1>b, <2>4, <3>1
  <2> QED
    BY <2>5, <2>6
<1>7. CASE ListDevices(c) \/ EndResync(c)
  <2>1. l.stage \in {"listDevices", "nextDevice"} /\ UNCHANGED <<addrs, unsafe>>
    BY <1>7 DEF ListDevices, EndResync, table
  <2>2. call'[c].stage \in {"nextDevice", "done"}
    BY <1>7, <1>a, <1>c DEF ListDevices, EndResync, Goto, Requests
  <2>3. Chose(call'[c], addrs)
    BY <1>d, <2>2
  <2> QED
    BY <1>b, <2>1, <2>3
<1>8. ASSUME NEW d \in Device, NextDevice(c, d)
      PROVE  AloneOK' /\ Chosen' /\ NoAddressTwice'
  <2>1. l.stage = "nextDevice" /\ UNCHANGED <<addrs, unsafe>>
    BY <1>8 DEF NextDevice, table
  <2>2. PICK s \in SetToSeqs(DOMAIN addrs[d]) :
          LET current == [i \in DOMAIN s |-> addrs[d][s[i]]]
              kept == Categorize(current, l.pools) IN
          Set(c, [l EXCEPT !.stage = "allocate", !.device = d, !.todo = @ \ {d}, !.old = current,
                           !.keep = kept.keep, !.covered = kept.covered, !.addrs = <<>>])
    BY <1>8 DEF NextDevice
  <2> DEFINE current == [i \in DOMAIN s |-> addrs[d][s[i]]]
             kept == Categorize(current, l.pools)
             m == [l EXCEPT !.stage = "allocate", !.device = d, !.todo = @ \ {d}, !.old = current,
                            !.keep = kept.keep, !.covered = kept.covered, !.addrs = <<>>]
  <2>3. l.kind = "resync" /\ Listing(l.pools)
    BY <1>a, <2>1 DEF CallForm, StageForm, Blank
  <2>4. /\ current \in Seq(Prefix) /\ Own(current) \subseteq Own(addrs[d])
        /\ Distinct(addrs[d]) => Distinct(current)
    BY <1>h, Permuted
  <2> HIDE DEF current
  <2>5. /\ Own(kept.keep) \subseteq Own(current)
        /\ Distinct(current) => Distinct(kept.keep)
    BY <2>3, <2>4, Categorized
  <2>6. Set(c, m)
    BY <2>2 DEF current
  <2> HIDE DEF kept
  <2>7. call'[c] = m
    BY <1>c, <2>6
  <2>8. /\ m.kind = l.kind /\ m.device = d /\ m.keep = kept.keep /\ m.addrs = <<>> /\ m.stage = "allocate"
    BY <1>a DEF Requests
  <2> HIDE DEF m, l
  <2>9. InCovered(m)
    <3>1. DOMAIN <<>> = {}
      OBVIOUS
    <3> QED
      BY <2>8, <3>1 DEF InCovered
  <2>10. Fresh(m.addrs, addrs) /\ Kept(m, addrs)
    BY <2>4, <2>5, <2>8, EmptyFacts DEF Fresh, Kept
  <2>11. Chose(m, addrs)
    BY <2>3, <2>8, <2>9, <2>10 DEF Chose
  <2> QED
    BY <1>b, <2>1, <2>7, <2>11
<1>9. ASSUME l.stage \in {"rewrite", "delete"}, Set(c, Handled(l))
      PROVE  l.kind = "resync" /\ l.device \in Device /\ \A A : Chose(call'[c], A)
  <2>1. l.kind = "resync" /\ l.device \in Device
    BY <1>a, <1>9 DEF CallForm, StageForm, Blank
  <2>2. Handled(l).stage = "nextDevice"
    BY <1>a DEF Handled, Requests
  <2> QED
    BY <1>c, <1>d, <1>9, <2>1, <2>2
<1>10. CASE Rewrite(c)
  <2>1. l.stage = "rewrite" /\ Set(c, Handled(l))
    BY <1>10 DEF Rewrite
  <2>2. l.kind = "resync" /\ l.device \in Device /\ \A A : Chose(call'[c], A)
    BY <1>9, <2>1
  <2>3. PICK d \in Device : d = l.device
    BY <2>2
  <2>4. CASE Exists(d) /\ Changes(l)
    <3> DEFINE s == l.keep \o l.addrs
    <3>1. /\ addrs' = [addrs EXCEPT ![d] = s]
          /\ unsafe' = IF l.alone /\ Apart(l) THEN unsafe ELSE unsafe \cup {d}
      BY <1>10, <2>3, <2>4 DEF Rewrite, Record, Apart
    <3>2. /\ s \in Seq(Prefix)
          /\ Own(s) = Own(l.keep) \cup Own(l.addrs)
          /\ Distinct(l.keep) /\ Distinct(l.addrs) /\ Own(l.keep) \cap Own(l.addrs) = {} => Distinct(s)
      BY <1>a, Joined DEF Requests
    <3> HIDE DEF s
    <3>3. unsafe \ {d} \subseteq unsafe'
      BY <3>1
    <3>4. ASSUME d \notin unsafe'
          PROVE  /\ Own(s) \cap Reserved = {} /\ Distinct(s)
                 /\ \A e \in Device \ (unsafe' \cup {d}) : Own(s) \cap Own(addrs[e]) = {}
      <4>1. l.alone /\ Apart(l) /\ unsafe' = unsafe
        BY <3>1, <3>4
      <4>2. Fresh(l.addrs, addrs) /\ Kept(l, addrs)
        BY <1>e, <2>1, <2>2, <4>1 DEF Chose
      <4>3. /\ Own(addrs[d]) \cap Reserved = {} /\ Distinct(addrs[d])
            /\ \A e \in Device \ (unsafe \cup {d}) : Own(addrs[d]) \cap Own(addrs[e]) = {}
        BY <1>e, <3>4, <4>1 DEF NoTwice
      <4>4. Own(l.keep) \subseteq Own(addrs[d]) /\ Distinct(l.keep)
        BY <2>3, <4>2, <4>3 DEF Kept
      <4>5. /\ Distinct(l.addrs) /\ Own(l.addrs) \cap Reserved = {}
            /\ \A e \in Device : Own(l.addrs) \cap Own(addrs[e]) = {}
        BY <4>2 DEF Fresh
      <4>6. Own(l.keep) \cap Own(l.addrs) = {}
        BY <4>4, <4>5
      <4> QED
        BY <3>2, <4>1, <4>3, <4>4, <4>5, <4>6
    <3>5. \/ d \in unsafe'
          \/ /\ Own(s) \cap Reserved = {} /\ Distinct(s)
             /\ \A e \in Device \ (unsafe' \cup {d}) : Own(s) \cap Own(addrs[e]) = {}
      BY <3>4
    <3>6. s \in Seq(Prefix) /\ NoTwice(addrs, unsafe)
      BY <1>e, <3>2
    <3>7. NoTwice([addrs EXCEPT ![d] = s], unsafe')
      <4>1. PICK V : V = unsafe'
        OBVIOUS
      <4>2. PICK t \in Seq(Prefix) : t = s
        BY <3>6
      <4>3. /\ unsafe \ {d} \subseteq V
            /\ \/ d \in V
               \/ /\ Own(t) \cap Reserved = {} /\ Distinct(t)
                  /\ \A e \in Device \ (V \cup {d}) : Own(t) \cap Own(addrs[e]) = {}
        BY <3>3, <3>5, <4>1, <4>2
      <4>4. NoTwice([addrs EXCEPT ![d] = t], V)
        BY <1>h, <3>6, <4>3, NoTwiceWrite
      <4> QED
        BY <4>1, <4>2, <4>4
    <3>8. NoTwice(addrs', unsafe')
      BY <3>1, <3>7
    <3> QED
      BY <1>f, <2>1, <2>2, <3>8
  <2>5. CASE ~(Exists(d) /\ Changes(l))
    <3>1. UNCHANGED <<addrs, unsafe>>
      BY <1>10, <2>3, <2>5 DEF Rewrite
    <3> QED
      BY <1>b, <2>2, <3>1
  <2> QED
    BY <2>4, <2>5
<1>11. CASE DeleteResynced(c)
  <2>1. l.stage = "delete" /\ Set(c, Handled(l)) /\ Erase({l.device})
    BY <1>11 DEF DeleteResynced
  <2>2. l.kind = "resync" /\ l.device \in Device /\ \A A : Chose(call'[c], A)
    BY <1>9, <2>1
  <2> DEFINE D == {l.device}
  <2>3. Erase(D) /\ D \in SUBSET Device
    BY <2>1, <2>2
  <2> HIDE DEF D
  <2>4. NoTwice(addrs', unsafe')
    BY <1>e, <2>3, NoTwiceErase DEF Erase
  <2> QED
    BY <1>f, <2>1, <2>2, <2>4
<1>12. CASE FailDevice(c)
  <2>1. PICK m : m = [l EXCEPT !.stage = "nextDevice"]
    OBVIOUS
  <2>2. Set(c, m) /\ m.stage = "nextDevice" /\ UNCHANGED <<addrs, unsafe>>
    BY <1>12, <1>a, <2>1, FailFacts
  <2>3. call'[c].stage = "nextDevice"
    BY <1>c, <2>2
  <2> QED
    BY <1>b, <1>d, <2>2, <2>3
<1> QED
  BY <1>1, <1>2, <1>3, <1>4, <1>5, <1>6, <1>7, <1>8, <1>10, <1>11, <1>12 DEF Continue

AddressInv == AloneOK /\ Chosen /\ NoAddressTwice

LEMMA AddressesAlways == Spec => []AddressInv
<1>1. Init => AddressInv
  <2> SUFFICES ASSUME Init PROVE AddressInv
    OBVIOUS
  <2>1. \A c \in Call : call[c].kind = "none"
    BY DEF Init, Blank
  <2>2. AloneOK /\ Chosen
    BY <2>1 DEF AloneOK, Active, Chosen, Chose, Writes
  <2>3. PICK D \in SUBSET Device, t \in Template, g \in [Device -> Given] :
          /\ device = [d \in Device |-> IF d \in D THEN t ELSE None]
          /\ addrs = [d \in Device |-> IF d \in D THEN g[d] ELSE <<>>]
          /\ session = [d \in Device |-> IF d \in D THEN "current" ELSE "none"]
          /\ \A d \in D : Own(addrs[d]) \cap UsedBut(d) = {} /\ Distinct(addrs[d])
    BY DEF Init
  <2>4. \A d \in Device \ D : Own(addrs[d]) = {} /\ Distinct(addrs[d])
    BY <2>3, EmptyFacts
  <2>5. \A d, e \in Device : d # e => Own(addrs[e]) \subseteq UsedBut(d)
    BY DEF UsedBut
  <2>6. \A d \in Device : Own(addrs[d]) \cap UsedBut(d) = {} /\ Distinct(addrs[d])
    BY <2>3, <2>4
  <2>7. \A d \in Device : Reserved \subseteq UsedBut(d)
    BY DEF UsedBut
  <2>8. NoAddressTwice
    BY <2>5, <2>6, <2>7 DEF NoAddressTwice
  <2> QED
    BY <2>2, <2>8 DEF AddressInv
<1>2. ASSUME Typed, AddressInv, [Next]_vars
      PROVE  AddressInv'
  <2>1. ASSUME NEW d \in Device, Login(d)
        PROVE  AddressInv'
    BY <1>2, <2>1 DEF Login, table, AddressInv, AloneOK, Chosen, NoAddressTwice
  <2>2. CASE UNCHANGED vars
    BY <1>2, <2>2 DEF vars, table, AddressInv, AloneOK, Chosen, NoAddressTwice
  <2> QED
    BY <1>2, <2>1, <2>2, StartAddresses, ContinueAddresses DEF Next, AddressInv
<1> QED
  BY <1>1, <1>2, TypedAlways, PTL DEF Spec

(* With the types and the disjoint pools: no address is given to two devices,      *)
(* twice to one, or is a server's, in any interleaving of requests, unless given    *)
(* by hand, by requests that were under way at a time, or from pools that overlap    *)
(* (CreateDeviceWithAutogenData, UpdateDevice, ResyncDeviceTemplate).            *)
THEOREM AddressesCorrect == Spec => []AddressesSound
<1>1. TypeOK /\ AddressInv /\ DisjointUnlessMoved => AddressesSound
  BY DEF AddressesSound, AddressInv
<1> QED
  BY <1>1, TypeCorrect, AddressesAlways, PoolsDisjoint, PTL


-----------------------------------------------------------------------------
(* A resynchronisation brings devices in line.                                *)

(* The sequence u is s in another order. *)
Same(u, s) ==
    /\ Len(u) = Len(s)
    /\ \E q \in [DOMAIN u -> DOMAIN s] :
        /\ \A k \in DOMAIN s : \E i \in DOMAIN u : q[i] = k
        /\ \A i, j \in DOMAIN u : q[i] = q[j] => i = j
        /\ \A i \in DOMAIN u : u[i] = s[q[i]]

(* One that was alone knows of the device in hand: what was read is what it has,    *)
(* what is kept and what was found fit to pools of their own.                    *)
Bringing(l, A) ==
    l.kind = "resync" /\ l.alone =>
        /\ l.stage = "listDevices" => l.handled = {}
        /\ l.stage \in {"nextDevice", "allocate", "rewrite", "delete"} => l.todo \cap l.handled = {}
        /\ l.stage \in {"allocate", "rewrite", "delete"} => l.device \notin l.todo \cup l.handled
        /\ l.stage \in {"allocate", "rewrite"} =>
             /\ Fitting(l.keep \o l.addrs, l.pools, l.covered)
             /\ Same(l.old, A[l.device])
             /\ Len(l.keep) = Len(l.old) => l.keep = l.old
        /\ l.stage = "rewrite" => \A j \in DOMAIN l.pools : l.pools[j].pool \in l.covered

(* And of what it must spare: a device in hand is there, the only address of a pool is    *)
(* among those kept, and a device to be deleted lacks an address of a pool in which     *)
(* all are in use.                                                            *)
UsedOf(A, r) ==
    {a \in Reserved \cup UNION {Own(A[d]) : d \in Device} : Subnet(a, r.bits) = Subnet(r.lo, r.bits)}

Sparing(l, D, A) ==
    l.kind = "resync" /\ l.alone =>
        /\ l.stage \in {"nextDevice", "allocate", "rewrite", "delete"} => \A d \in l.todo : D[d] # None
        /\ l.stage \in {"allocate", "rewrite", "delete"} => D[l.device] # None
        /\ l.stage \in {"allocate", "rewrite"} =>
             \A k \in DOMAIN l.old : Lone(k, l.old, l.pools) => \E m \in DOMAIN l.keep : l.keep[m] = l.old[k]
        /\ l.stage = "delete" =>
             \E i \in DOMAIN l.pools : Usable(l.pools[i].range) \subseteq UsedOf(A, l.pools[i].range)

Brought(l, D, A) ==
    /\ Bringing(l, A)
    /\ Sparing(l, D, A)
    /\ l.kind = "resync" /\ l.stage # "done" /\ l.alone =>
         \A d \in l.handled : D[d] # None => InLine(A[d], l.pools)

AllBrought == \A c \in Call : Brought(call[c], device, addrs)

(* One address of every pool. *)
LEMMA FittingInLine ==
    ASSUME NEW s \in Seq(Prefix), NEW P, Listing(P), NEW covered, Fitting(s, P, covered),
           \A j \in DOMAIN P : P[j].pool \in covered
    PROVE  InLine(s, P)
<1>1. PICK f \in [DOMAIN s -> DOMAIN P] :
        /\ \A i, j \in DOMAIN s : f[i] = f[j] => i = j
        /\ \A i \in DOMAIN s : Belongs(s[i], P[f[i]].range)
        /\ \A j \in DOMAIN P : P[j].pool \in covered <=> \E i \in DOMAIN s : f[i] = j
  BY DEF Fitting
<1>2. /\ Len(s) \in Nat /\ DOMAIN s = 1 .. Len(s)
      /\ Len(P) \in Nat /\ DOMAIN P = 1 .. Len(P)
  BY DEF Listing
<1>3. /\ IsFiniteSet(DOMAIN s) /\ Cardinality(DOMAIN s) = Len(s)
      /\ IsFiniteSet(DOMAIN P) /\ Cardinality(DOMAIN P) = Len(P)
  <2>1. \A n \in Nat : IsFiniteSet(1 .. n) /\ Cardinality(1 .. n) = n
    BY FS_Interval
  <2> QED
    BY <1>2, <2>1
<1>4. f \in Bijection(DOMAIN s, DOMAIN P)
  BY <1>1 DEF Bijection, Injection, Surjection, IsInjective
<1>5. Len(s) = Len(P)
  BY <1>3, <1>4, FS_Bijection DEF ExistsBijection
<1> QED
  BY <1>1, <1>5 DEF InLine

LEMMA SameInLine ==
    ASSUME NEW s \in Seq(Prefix), NEW u \in Seq(Prefix), NEW P, Same(u, s), InLine(u, P)
    PROVE  InLine(s, P)
<1>1. PICK q \in [DOMAIN u -> DOMAIN s] :
        /\ \A k \in DOMAIN s : \E i \in DOMAIN u : q[i] = k
        /\ \A i \in DOMAIN u : u[i] = s[q[i]]
  BY DEF Same
<1>2. PICK f \in [DOMAIN u -> DOMAIN P] :
        /\ \A i, j \in DOMAIN u : f[i] = f[j] => i = j
        /\ \A i \in DOMAIN u : Belongs(u[i], P[f[i]].range)
  BY DEF InLine
<1> DEFINE from(k) == CHOOSE i \in DOMAIN u : q[i] = k
           g == [k \in DOMAIN s |-> f[from(k)]]
<1>3. \A k \in DOMAIN s : from(k) \in DOMAIN u /\ q[from(k)] = k
  BY <1>1
<1> HIDE DEF from
<1>4. /\ g \in [DOMAIN s -> DOMAIN P]
      /\ \A k \in DOMAIN s : g[k] = f[from(k)]
  BY <1>2, <1>3
<1> HIDE DEF g
<1>5. ASSUME NEW j \in DOMAIN s, NEW k \in DOMAIN s, g[j] = g[k]
      PROVE  j = k
  <2>1. from(j) = from(k)
    BY <1>2, <1>3, <1>4, <1>5
  <2> QED
    BY <1>3, <2>1
<1>6. ASSUME NEW k \in DOMAIN s
      PROVE  Belongs(s[k], P[g[k]].range)
  <2>1. s[k] = u[from(k)]
    BY <1>1, <1>3
  <2> QED
    BY <1>2, <1>3, <1>4, <2>1
<1>7. Len(s) = Len(P)
  BY DEF Same, InLine
<1> QED
  BY <1>4, <1>5, <1>6, <1>7 DEF InLine

(* Read in any order, the addresses are the same. *)
LEMMA PermutedSame ==
    ASSUME NEW s \in Seq(Prefix), NEW q \in SetToSeqs(DOMAIN s)
    PROVE  Same([i \in DOMAIN q |-> s[q[i]]], s)
<1> DEFINE n == Cardinality(DOMAIN s)
           u == [i \in DOMAIN q |-> s[q[i]]]
<1>1. Len(s) \in Nat /\ DOMAIN s = 1 .. Len(s)
  OBVIOUS
<1>2. IsFiniteSet(DOMAIN s) /\ n = Len(s)
  BY <1>1, FS_Interval
<1>3. q \in [1 .. n -> DOMAIN s] /\ \A i, j \in 1 .. n : i # j => q[i] # q[j]
  BY DEF SetToSeqs
<1> HIDE DEF n
<1>4. u \in [1 .. n -> Prefix] /\ \A i \in 1 .. n : u[i] = s[q[i]]
  BY <1>3
<1>5. u \in Seq(Prefix) /\ DOMAIN u = DOMAIN s /\ Len(u) = Len(s)
  BY <1>1, <1>2, <1>4
<1>6. q \in [DOMAIN s -> DOMAIN s] /\ \A i, j \in DOMAIN s : q[i] = q[j] => i = j
  BY <1>1, <1>2, <1>3
<1>7. \A k \in DOMAIN s : \E i \in DOMAIN s : q[i] = k
  <2>1. q \in Injection(DOMAIN s, DOMAIN s)
    BY <1>6 DEF Injection, IsInjective
  <2>2. q \in Surjection(DOMAIN s, DOMAIN s)
    BY <1>2, <2>1, FS_Injection
  <2> QED
    BY <2>2 DEF Surjection
<1> HIDE DEF u
<1>8. Same(u, s)
  <2>1. \A i \in DOMAIN u : u[i] = s[q[i]]
    BY <1>1, <1>2, <1>4, <1>5
  <2>2. /\ q \in [DOMAIN u -> DOMAIN s]
        /\ \A k \in DOMAIN s : \E i \in DOMAIN u : q[i] = k
    BY <1>5, <1>6, <1>7
  <2>3. \A i, j \in DOMAIN u : q[i] = q[j] => i = j
    BY <1>5, <1>6
  <2> QED
    BY <1>5, <2>1, <2>2, <2>3 DEF Same
<1> QED
  BY <1>8 DEF u

(* The steps of others leave what it knows, and the devices, alone. *)
LEMMA BroughtStays ==
    ASSUME Typed, AllBrought, NEW c \in Call, OthersStay(c), NEW b \in Call \ {c},
           ~Active(call[b]) \/ ~call'[b].alone \/ UNCHANGED <<device, addrs>>
    PROVE  Brought(call'[b], device', addrs')
<1>1. /\ call'[b].kind = call[b].kind /\ call'[b].stage = call[b].stage
      /\ call'[b].device = call[b].device
      /\ call'[b].pools = call[b].pools /\ call'[b].addrs = call[b].addrs
      /\ call'[b].keep = call[b].keep /\ call'[b].old = call[b].old
      /\ call'[b].covered = call[b].covered /\ call'[b].todo = call[b].todo
      /\ call'[b].handled = call[b].handled
      /\ call'[b].alone => call[b].alone
  BY OthersFacts
<1>2. CASE ~Active(call[b])
  <2>1. call'[b].kind # "resync" \/ call'[b].stage = "done"
    BY <1>1, <1>2 DEF Active, Writes
  <2> QED
    BY <2>1 DEF Brought, Bringing, Sparing
<1>3. CASE ~call'[b].alone
  BY <1>3 DEF Brought, Bringing, Sparing
<1>4. CASE UNCHANGED <<device, addrs>>
  <2>1. Brought(call[b], device, addrs)
    BY DEF AllBrought
  <2>2. PICK l : l = call[b]
    OBVIOUS
  <2>3. PICK m : m = call'[b]
    OBVIOUS
  <2>4. Brought(m, device, addrs)
    BY <1>1, <2>1, <2>2, <2>3 DEF Brought, Bringing, Sparing
  <2> QED
    BY <1>4, <2>3, <2>4
<1> QED
  BY <1>2, <1>3, <1>4

LEMMA StartBrought ==
    ASSUME Typed, AllBrought, NEW c \in Call, Start(c)
    PROVE  AllBrought'
<1>1. OthersStay(c)
  BY StartFrame
<1>2. CASE call'[c].kind \notin Writes /\ UNCHANGED <<device, addrs, unsafe>>
  <2>1. Brought(call'[c], device', addrs')
    BY <1>2 DEF Brought, Bringing, Sparing, Writes
  <2>2. \A b \in Call \ {c} : Brought(call'[b], device', addrs')
    BY <1>1, <1>2, BroughtStays
  <2> QED
    BY <2>1, <2>2 DEF AllBrought
<1>3. ASSUME NEW l \in Requests, BeginWriting(c, l),
             \/ l.kind = "create"
             \/ l.kind = "resync" /\ l.stage = "listDevices" /\ l.handled = {}
             \/ l.kind = "updateDevice"
             \/ l.stage = "done",
             UNCHANGED <<device, addrs, unsafe>> \/ l.stage = "done"
      PROVE  AllBrought'
  <2>1. /\ call'[c].kind = l.kind /\ call'[c].stage = l.stage /\ call'[c].handled = l.handled
        /\ \A b \in Call \ {c} : call[b].kind \in Writes /\ call[b].stage # "done" => ~call'[b].alone
    BY <1>3, BeginWritingFrame
  <2>2. Brought(call'[c], device', addrs')
    BY <1>3, <2>1 DEF Brought, Bringing, Sparing
  <2>3. \A b \in Call \ {c} : Brought(call'[b], device', addrs')
    BY <1>1, <2>1, BroughtStays DEF Active
  <2> QED
    BY <2>2, <2>3 DEF AllBrought
<1> QED
  BY <1>2, <1>3, StartKinds

(* Requests that do not write addresses leave the devices alone. *)
LEMMA ContinueQuiet ==
    ASSUME Typed, NEW c \in Call, Continue(c), ~Active(call[c])
    PROVE  UNCHANGED <<device, addrs>>
<1> DEFINE l == call[c]
<1>1. l.stage \notin {"new", "done"} /\ l.kind \notin Writes
  BY ContinueFrame DEF Active
<1>2. CallForm(l)
  BY DEF Typed, CallsOK
<1>3. l.kind = "template" /\ l.stage \in {"insert", "update", "endSessions"}
  <2> HIDE DEF l
  <2> QED
    BY <1>1, <1>2 DEF CallForm, StageForm, Blank, Writes
<1>4. WriteTemplate(c) \/ EndSessions(c)
  BY <1>3 DEF Continue, Allocate, InsertDevice, InsertAddress, WriteDevice, EndSession, ListDevices,
              NextDevice, Rewrite, DeleteResynced, FailDevice, EndResync
<1> QED
  BY <1>4 DEF WriteTemplate, EndSessions, table

LEMMA ContinueBrought ==
    ASSUME Typed, AloneOK, AllBrought, NEW c \in Call, Continue(c)
    PROVE  AllBrought'
<1> DEFINE l == call[c]
<1>a. CallForm(l) /\ l \in Requests
  BY DEF Typed, CallsOK, CallForm
<1>b. /\ OthersStay(c) /\ \A b \in Call \ {c} : call'[b] = call[b]
      /\ call'[c].kind = l.kind /\ call'[c].alone = l.alone /\ call'[c].pools = l.pools
      /\ l.stage \notin {"new", "done"}
  BY ContinueFrame
<1>c. \A b \in Call \ {c} : Brought(call'[b], device', addrs')
  <2> SUFFICES ASSUME NEW b \in Call \ {c} PROVE Brought(call'[b], device', addrs')
    OBVIOUS
  <2>1. CASE Active(l)
    <3>1. ~Active(call[b]) \/ ~call'[b].alone
      BY <1>b, <2>1 DEF AloneOK
    <3> QED
      BY <1>b, <3>1, BroughtStays
  <2>2. CASE ~Active(l)
    BY <1>b, <2>2, ContinueQuiet, BroughtStays
  <2> QED
    BY <2>1, <2>2
<1>d. ASSUME Brought(call'[c], device', addrs')
      PROVE  AllBrought'
  BY <1>c, <1>d DEF AllBrought
<1>e. Brought(l, device, addrs)
  BY DEF AllBrought
<1>f. ASSUME NEW m, Set(c, m)
      PROVE  call'[c] = m
  BY <1>f, SetFrame
<1>g. addrs \in [Device -> Seq(Prefix)] /\ device \in [Device -> Template \cup {None}]
  BY DEF Typed, DeviceOK
<1>h. ASSUME l.kind # "resync" \/ ~l.alone \/ call'[c].stage = "done"
      PROVE  AllBrought'
  <2>1. Brought(call'[c], device', addrs')
    BY <1>b, <1>h DEF Brought, Bringing, Sparing
  <2> QED
    BY <1>d, <2>1
<1>i. l.kind = "resync" => l.stage \in {"listDevices", "nextDevice", "allocate", "rewrite", "delete"}
  <2> HIDE DEF l
  <2> QED
    BY <1>a, <1>b DEF CallForm, StageForm, Blank
<1>1. CASE l.kind # "resync" \/ ~l.alone
  BY <1>1, <1>h
<1> SUFFICES ASSUME l.kind = "resync", l.alone PROVE AllBrought'
  BY <1>1
<1>2. \/ ListDevices(c) \/ Allocate(c) \/ (\E d \in Device : NextDevice(c, d)) \/ Rewrite(c)
      \/ DeleteResynced(c) \/ FailDevice(c) \/ EndResync(c)
  BY <1>i DEF Continue, WriteTemplate, EndSessions, InsertDevice, InsertAddress, WriteDevice, EndSession
<1>3. CASE ListDevices(c)
  <2> DEFINE T == {d \in Device : device[d] = l.template}
             m == [l EXCEPT !.stage = "nextDevice", !.todo = T]
  <2>1. l.stage = "listDevices" /\ Set(c, m) /\ UNCHANGED <<device, addrs>>
    BY <1>3 DEF ListDevices, table
  <2>2. l.handled = {}
    BY <1>e, <2>1 DEF Brought, Bringing, Sparing
  <2>3. m.stage = "nextDevice" /\ m.handled = {} /\ m.todo = T
    BY <1>a, <2>2 DEF Requests
  <2>4. l.template \in Template
    BY <1>a, <2>1 DEF CallForm, StageForm, Blank
  <2>5. \A d \in T : device[d] # None
    BY <2>4, NoneFacts
  <2> HIDE DEF m, T
  <2>6. Brought(m, device, addrs)
    BY <2>3, <2>5 DEF Brought, Bringing, Sparing
  <2> QED
    BY <1>d, <1>f, <2>1, <2>6
<1>4. CASE EndResync(c)
  <2> DEFINE m == [l EXCEPT !.stage = "done"]
  <2>1. Set(c, m)
    BY <1>4 DEF EndResync, Goto
  <2>2. m.stage = "done"
    BY <1>a DEF Requests
  <2> HIDE DEF m
  <2> QED
    BY <1>f, <1>h, <2>1, <2>2
<1>5. ASSUME NEW d \in Device, NextDevice(c, d)
      PROVE  AllBrought'
  <2>1. l.stage = "nextDevice" /\ d \in l.todo /\ UNCHANGED <<device, addrs>>
    BY <1>5 DEF NextDevice, table
  <2>2. PICK s \in SetToSeqs(DOMAIN addrs[d]) :
          LET current == [i \in DOMAIN s |-> addrs[d][s[i]]]
              kept == Categorize(current, l.pools) IN
          Set(c, [l EXCEPT !.stage = "allocate", !.device = d, !.todo = @ \ {d}, !.old = current,
                           !.keep = kept.keep, !.covered = kept.covered, !.addrs = <<>>])
    BY <1>5 DEF NextDevice
  <2> DEFINE current == [i \in DOMAIN s |-> addrs[d][s[i]]]
             kept == Categorize(current, l.pools)
             m == [l EXCEPT !.stage = "allocate", !.device = d, !.todo = @ \ {d}, !.old = current,
                            !.keep = kept.keep, !.covered = kept.covered, !.addrs = <<>>]
  <2>3. Listing(l.pools)
    BY <1>a DEF CallForm
  <2>4. current \in Seq(Prefix) /\ Same(current, addrs[d])
    BY <1>g, Permuted, PermutedSame
  <2> HIDE DEF current
  <2>5. /\ kept.keep \in Seq(Prefix)
        /\ Fitting(kept.keep, l.pools, kept.covered)
        /\ Len(kept.keep) = Len(current) => kept.keep = current
        /\ \A k \in DOMAIN current :
             Lone(k, current, l.pools) => \E n \in DOMAIN kept.keep : kept.keep[n] = current[k]
    BY <2>3, <2>4, Categorized
  <2>6. Set(c, m)
    BY <2>2 DEF current
  <2> HIDE DEF kept
  <2>7. /\ m.kind = l.kind /\ m.device = d /\ m.keep = kept.keep /\ m.addrs = <<>> /\ m.stage = "allocate"
        /\ m.old = current /\ m.covered = kept.covered /\ m.pools = l.pools /\ m.alone = l.alone
        /\ m.todo = l.todo \ {d} /\ m.handled = l.handled
    BY <1>a DEF Requests
  <2>8. /\ l.todo \cap l.handled = {} /\ \A e \in l.handled : device[e] # None => InLine(addrs[e], l.pools)
        /\ \A e \in l.todo : device[e] # None
    BY <1>e, <2>1 DEF Brought, Bringing, Sparing
  <2> HIDE DEF m, l
  <2>9. m.keep \o m.addrs = kept.keep
    BY <2>5, <2>7
  <2>10. Bringing(m, addrs)
    BY <2>1, <2>4, <2>5, <2>7, <2>8, <2>9 DEF Bringing
  <2>11. Sparing(m, device, addrs)
    BY <2>1, <2>5, <2>7, <2>8 DEF Sparing
  <2>12. Brought(m, device, addrs)
    BY <2>7, <2>8, <2>10, <2>11 DEF Brought
  <2> QED
    BY <1>d, <1>f, <2>1, <2>6, <2>12
<1>6. CASE Allocate(c)
  <2> DEFINE rest == {i \in DOMAIN l.pools : l.pools[i].pool \notin l.covered}
             p == l.pools[Min(rest)]
             a == FirstAvailableAddress(p.range, Used(p.range))
  <2>1. /\ l.stage = "allocate"
        /\ Set(c, IF rest = {} THEN [l EXCEPT !.stage = "rewrite"]
                  ELSE IF a = None THEN [l EXCEPT !.stage = "delete"]
                  ELSE [l EXCEPT !.addrs = Append(@, a), !.covered = @ \cup {p.pool}])
        /\ UNCHANGED <<device, addrs>>
    BY <1>6 DEF Allocate, table
  <2>2. /\ l.todo \cap l.handled = {} /\ l.device \notin l.todo \cup l.handled
        /\ Fitting(l.keep \o l.addrs, l.pools, l.covered)
        /\ Same(l.old, addrs[l.device])
        /\ Len(l.keep) = Len(l.old) => l.keep = l.old
        /\ \A e \in l.handled : device[e] # None => InLine(addrs[e], l.pools)
        /\ \A e \in l.todo : device[e] # None
        /\ device[l.device] # None
        /\ \A k \in DOMAIN l.old : Lone(k, l.old, l.pools) => \E n \in DOMAIN l.keep : l.keep[n] = l.old[k]
    BY <1>e, <2>1 DEF Brought, Bringing, Sparing
  <2>3. ASSUME NEW m, Set(c, m), Brought(m, device, addrs)
        PROVE  AllBrought'
    BY <1>d, <1>f, <2>1, <2>3
  <2>4. ASSUME rest # {}
        PROVE  Min(rest) \in rest /\ p.range \in Span
    <3>1. l.pools \in Seq(Entry) /\ \A i \in DOMAIN l.pools : l.pools[i] \in Entry
      BY <1>a DEF CallForm, Listing
    <3>2. rest \in SUBSET Nat
      BY <3>1
    <3>3. Min(rest) \in rest
      BY <2>4, <3>2, Least
    <3>4. p \in Entry
      BY <3>1, <3>3
    <3> QED
      BY <3>3, <3>4 DEF Entry
  <2>5. CASE rest = {}
    <3> DEFINE m == [l EXCEPT !.stage = "rewrite"]
    <3>1. /\ m.pools = l.pools /\ m.addrs = l.addrs /\ m.keep = l.keep /\ m.old = l.old
          /\ m.covered = l.covered /\ m.device = l.device /\ m.todo = l.todo /\ m.handled = l.handled
          /\ m.stage = "rewrite"
      BY <1>a DEF Requests
    <3>2. \A j \in DOMAIN l.pools : l.pools[j].pool \in l.covered
      BY <2>5
    <3>3. Set(c, m)
      BY <2>1, <2>5
    <3> HIDE DEF m, l
    <3>4. Brought(m, device, addrs)
      BY <2>2, <3>1, <3>2 DEF Brought, Bringing, Sparing
    <3> QED
      BY <2>3, <3>3, <3>4
  <2>6. CASE rest # {} /\ a = None
    <3> DEFINE m == [l EXCEPT !.stage = "delete"]
    <3>1. /\ m.pools = l.pools /\ m.device = l.device /\ m.todo = l.todo /\ m.handled = l.handled
          /\ m.stage = "delete"
      BY <1>a DEF Requests
    <3>2. Set(c, m)
      BY <2>1, <2>6
    <3> DEFINE i == Min(rest)
               r == p.range
    <3>3. i \in DOMAIN l.pools /\ r = l.pools[i].range /\ r \in Span
      BY <2>6, <2>4
    <3>4. FirstAvailableAddress(r, Used(r)) = None
      BY <2>6
    <3> HIDE DEF i, r, p
    <3>5. Usable(r) \subseteq UsedOf(addrs, r)
      <4>1. UsedOf(addrs, r) = Used(r)
        BY DEF UsedOf, Used
      <4> QED
        BY <3>3, <3>4, <4>1, NoneFound
    <3> HIDE DEF m, l
    <3>6. Brought(m, device, addrs)
      BY <2>2, <3>1, <3>3, <3>5 DEF Brought, Bringing, Sparing
    <3> QED
      BY <2>3, <3>2, <3>6
  <2>7. CASE rest # {} /\ a # None
    <3> DEFINE m == [l EXCEPT !.addrs = Append(@, a), !.covered = @ \cup {p.pool}]
    <3>1. Set(c, m)
      BY <2>1, <2>7
    <3>2. /\ m.pools = l.pools /\ m.addrs = Append(l.addrs, a) /\ m.keep = l.keep /\ m.old = l.old
          /\ m.covered = l.covered \cup {p.pool} /\ m.device = l.device /\ m.todo = l.todo
          /\ m.handled = l.handled /\ m.stage = "allocate"
      BY <1>a, <2>1 DEF Requests
    <3>3. Listing(l.pools) /\ l.keep \in Seq(Prefix) /\ l.addrs \in Seq(Prefix)
      BY <1>a DEF CallForm, Requests
    <3>4. Min(rest) \in DOMAIN l.pools /\ p.pool \notin l.covered
      BY <2>7, <2>4
    <3>5. p.range \in Span
      BY <2>7, <2>4
    <3>6. a \in Prefix /\ Belongs(a, p.range)
      BY <2>7, <3>5, FoundAddress
    <3> HIDE DEF a, m, rest, l
    <3>7. Fitting(Append(l.keep \o l.addrs, a), l.pools, l.covered \cup {p.pool})
      <4>1. l.keep \o l.addrs \in Seq(Prefix)
        BY <3>3
      <4> QED
        BY <2>2, <3>3, <3>4, <3>6, <4>1, FittingAppend
    <3>8. m.keep \o m.addrs = Append(l.keep \o l.addrs, a)
      <4>1. \A s, u \in Seq(Prefix), x \in Prefix : s \o Append(u, x) = Append(s \o u, x)
        OBVIOUS
      <4> QED
        BY <3>2, <3>3, <3>6, <4>1
    <3>9. Fitting(m.keep \o m.addrs, m.pools, m.covered)
      BY <3>2, <3>7, <3>8
    <3>10. Brought(m, device, addrs)
      BY <2>2, <3>2, <3>9 DEF Brought, Bringing, Sparing
    <3> QED
      BY <2>3, <3>1, <3>10
  <2> QED
    BY <2>5, <2>6, <2>7
<1>7. ASSUME l.stage \in {"rewrite", "delete"}, Set(c, Handled(l)),
             \A e \in Device \ {l.device} : addrs'[e] = addrs[e] /\ device'[e] = device[e],
             device'[l.device] # None => InLine(addrs'[l.device], l.pools)
      PROVE  AllBrought'
  <2> DEFINE m == Handled(l)
  <2>1. /\ m.pools = l.pools /\ m.todo = l.todo /\ m.handled = l.handled \cup {l.device}
        /\ m.stage = "nextDevice"
    BY <1>a DEF Requests, Handled
  <2>2. /\ l.todo \cap l.handled = {} /\ l.device \notin l.todo
        /\ \A e \in l.handled : device[e] # None => InLine(addrs[e], l.pools)
        /\ \A e \in l.todo : device[e] # None
    BY <1>b, <1>e, <1>7 DEF Brought, Bringing, Sparing
  <2>3. l.handled \subseteq Device
    BY <1>a DEF Requests
  <2>4. l.todo \subseteq Device
    BY <1>a, <1>7 DEF CallForm, StageForm, Blank
  <2> HIDE DEF m
  <2>5. \A e \in m.handled : device'[e] # None => InLine(addrs'[e], m.pools)
    BY <1>7, <2>1, <2>2, <2>3
  <2>6. \A e \in m.todo : device'[e] # None
    BY <1>7, <2>1, <2>2, <2>4
  <2>7. Brought(m, device', addrs')
    BY <2>1, <2>2, <2>5, <2>6 DEF Brought, Bringing, Sparing
  <2>8. call'[c] = m
    BY <1>7, <1>f DEF m
  <2> QED
    BY <1>d, <2>7, <2>8
<1>8. ASSUME l.stage \in {"rewrite", "delete"}
      PROVE  l.device \in Device
  BY <1>a, <1>8 DEF CallForm, StageForm, Blank
<1>9. CASE Rewrite(c)
  <2>1. l.stage = "rewrite" /\ Set(c, Handled(l)) /\ UNCHANGED device
    BY <1>9 DEF Rewrite
  <2>2. PICK d \in Device : d = l.device
    BY <1>8, <2>1
  <2>3. /\ Fitting(l.keep \o l.addrs, l.pools, l.covered)
        /\ Same(l.old, addrs[d])
        /\ Len(l.keep) = Len(l.old) => l.keep = l.old
        /\ \A j \in DOMAIN l.pools : l.pools[j].pool \in l.covered
    BY <1>e, <2>1, <2>2 DEF Brought, Bringing, Sparing
  <2>4. /\ Listing(l.pools) /\ l.keep \in Seq(Prefix) /\ l.addrs \in Seq(Prefix) /\ l.old \in Seq(Prefix)
        /\ l.keep \o l.addrs \in Seq(Prefix)
    BY <1>a DEF CallForm, Requests
  <2>5. InLine(l.keep \o l.addrs, l.pools)
    BY <2>3, <2>4, FittingInLine
  <2>6. CASE Exists(d) /\ Changes(l)
    <3> DEFINE s == l.keep \o l.addrs
    <3>1. addrs' = [addrs EXCEPT ![d] = s]
      BY <1>9, <2>2, <2>6 DEF Rewrite
    <3> HIDE DEF s
    <3>2. addrs'[d] = s /\ \A e \in Device \ {d} : addrs'[e] = addrs[e]
      BY <1>g, <3>1
    <3>3. InLine(addrs'[d], l.pools)
      BY <2>5, <3>2 DEF s
    <3> QED
      BY <1>7, <2>1, <2>2, <3>2, <3>3
  <2>7. CASE Exists(d) /\ ~Changes(l)
    <3>1. UNCHANGED addrs
      BY <1>9, <2>2, <2>7 DEF Rewrite
    <3>2. l.addrs = <<>> /\ l.keep = l.old
      BY <2>3, <2>7 DEF Changes
    <3>3. l.keep \o l.addrs = l.old
      BY <2>4, <3>2
    <3>4. InLine(l.old, l.pools)
      BY <2>5, <3>3
    <3>5. InLine(addrs[d], l.pools)
      BY <1>g, <2>3, <2>4, <3>4, SameInLine
    <3> QED
      BY <1>7, <2>1, <2>2, <3>1, <3>5
  <2>8. CASE ~Exists(d)
    <3>1. UNCHANGED addrs
      BY <1>9, <2>2, <2>8 DEF Rewrite
    <3>2. device'[d] = None
      BY <2>1, <2>8 DEF Exists
    <3> QED
      BY <1>7, <2>1, <2>2, <3>1, <3>2
  <2> QED
    BY <2>6, <2>7, <2>8
<1>10. CASE DeleteResynced(c)
  <2>1. l.stage = "delete" /\ Set(c, Handled(l)) /\ Erase({l.device})
    BY <1>10 DEF DeleteResynced
  <2>2. l.device \in Device
    BY <1>8, <2>1
  <2>3. /\ device'[l.device] = None
        /\ \A e \in Device \ {l.device} : addrs'[e] = addrs[e] /\ device'[e] = device[e]
    BY <2>1, <2>2 DEF Erase
  <2> QED
    BY <1>7, <2>1, <2>3
<1>11. CASE FailDevice(c)
  <2>1. PICK m : m = [l EXCEPT !.stage = "nextDevice"]
    OBVIOUS
  <2>2. /\ Set(c, m) /\ m.stage = "nextDevice" /\ m.todo = l.todo /\ m.handled = l.handled
        /\ m.pools = l.pools /\ l.stage \in {"allocate", "rewrite", "delete"} /\ UNCHANGED <<device, addrs>>
    BY <1>11, <1>a, <2>1, FailFacts
  <2>3. /\ l.todo \cap l.handled = {} /\ \A e \in l.handled : device[e] # None => InLine(addrs[e], l.pools)
        /\ \A e \in l.todo : device[e] # None
    BY <1>e, <2>2 DEF Brought, Bringing, Sparing
  <2> HIDE DEF l
  <2>4. Brought(m, device, addrs)
    BY <2>2, <2>3 DEF Brought, Bringing, Sparing
  <2>5. call'[c] = m
    BY <1>f, <2>2
  <2> QED
    BY <1>d, <2>2, <2>4, <2>5
<1> QED
  BY <1>2, <1>3, <1>4, <1>5, <1>6, <1>9, <1>10, <1>11

LEMMA BroughtAlways == Spec => []AllBrought
<1>1. Init => AllBrought
  BY DEF Init, Blank, AllBrought, Brought, Bringing, Sparing
<1>2. ASSUME Typed, AddressInv, AllBrought, [Next]_vars
      PROVE  AllBrought'
  <2>1. ASSUME NEW d \in Device, Login(d)
        PROVE  AllBrought'
    BY <1>2, <2>1 DEF Login, table, AllBrought
  <2>2. CASE UNCHANGED vars
    BY <1>2, <2>2 DEF vars, table, AllBrought
  <2> QED
    BY <1>2, <2>1, <2>2, StartBrought, ContinueBrought DEF Next, AddressInv
<1> QED
  BY <1>1, <1>2, TypedAlways, AddressesAlways, PTL DEF Spec

(* A resynchronisation that nobody disturbs leaves each device that it has handled    *)
(* with exactly one address of each pool, in whatever order it reads them and however  *)
(* many devices and pools there are (ResyncDeviceTemplate, resyncDeviceAddresses).     *)
THEOREM ResyncCorrect == Spec => []ResyncLeavesInLine
<1>1. AllBrought => ResyncLeavesInLine
  BY DEF AllBrought, Brought, ResyncLeavesInLine, Exists
<1> QED
  BY <1>1, BroughtAlways, PTL

(* The only address of a pool is so in any order. *)
LEMMA SameLone ==
    ASSUME NEW s \in Seq(Prefix), NEW u \in Seq(Prefix), NEW P, Same(u, s),
           NEW k \in DOMAIN s, Lone(k, s, P)
    PROVE  \E i \in DOMAIN u : u[i] = s[k] /\ Lone(i, u, P)
<1>1. PICK q \in [DOMAIN u -> DOMAIN s] :
        /\ \A n \in DOMAIN s : \E i \in DOMAIN u : q[i] = n
        /\ \A i, j \in DOMAIN u : q[i] = q[j] => i = j
        /\ \A i \in DOMAIN u : u[i] = s[q[i]]
  BY DEF Same
<1>2. PICK j \in DOMAIN P : /\ Belongs(s[k], P[j].range)
                          /\ \A m \in DOMAIN s \ {k} : ~Belongs(s[m], P[j].range)
  BY DEF Lone
<1>3. PICK i \in DOMAIN u : q[i] = k
  BY <1>1
<1>4. u[i] = s[k]
  BY <1>1, <1>3
<1>5. \A m \in DOMAIN u \ {i} : ~Belongs(u[m], P[j].range)
  <2>1. \A m \in DOMAIN u \ {i} : q[m] \in DOMAIN s \ {k} /\ u[m] = s[q[m]]
    BY <1>1, <1>3
  <2> QED
    BY <1>2, <2>1
<1> QED
  BY <1>2, <1>4, <1>5 DEF Lone

LEMMA ContinueLittle ==
    ASSUME Typed, AllBrought, NEW c \in Call, Continue(c),
           call[c].kind = "resync", call[c].alone, call'[c].handled # call[c].handled
    PROVE  LET l == call[c]
               d == l.device
               range_(i) == l.pools[i].range IN
           IF Exists(d)'
           THEN \A k \in DOMAIN addrs[d], i \in DOMAIN l.pools :
                   /\ Belongs(addrs[d][k], range_(i))
                   /\ \A m \in DOMAIN addrs[d] \ {k} : ~Belongs(addrs[d][m], range_(i))
                   => \E m \in DOMAIN addrs'[d] : addrs'[d][m] = addrs[d][k]
           ELSE \E i \in DOMAIN l.pools : Usable(range_(i)) \subseteq Used(range_(i))
<1> DEFINE l == call[c]
<1>1. CallForm(l) /\ l \in Requests
  BY DEF Typed, CallsOK, CallForm
<1>2. l.stage \in {"listDevices", "nextDevice", "allocate", "rewrite", "delete"}
  <2>1. l.stage \notin {"new", "done"}
    BY ContinueFrame
  <2> HIDE DEF l
  <2>2. l.kind = "resync"
    BY DEF l
  <2> QED
    BY <1>1, <2>1, <2>2 DEF CallForm, StageForm, Blank
<1>3. Rewrite(c) \/ DeleteResynced(c)
  <2>1. ASSUME NEW m, Set(c, m), m.handled = l.handled
        PROVE  FALSE
    BY <2>1, SetFrame
  <2>2. ASSUME ListDevices(c) PROVE FALSE
    <3> DEFINE T == {d \in Device : device[d] = l.template}
               m == [l EXCEPT !.stage = "nextDevice", !.todo = T]
    <3>1. Set(c, m)
      BY <2>2 DEF ListDevices
    <3>2. m.handled = l.handled
      BY <1>1 DEF Requests
    <3> HIDE DEF m, l
    <3> QED
      BY <2>1, <3>1, <3>2
  <2>3. ASSUME NEW d \in Device, NextDevice(c, d) PROVE FALSE
    <3>1. PICK s \in SetToSeqs(DOMAIN addrs[d]) :
            LET current == [i \in DOMAIN s |-> addrs[d][s[i]]]
                kept == Categorize(current, l.pools) IN
            Set(c, [l EXCEPT !.stage = "allocate", !.device = d, !.todo = @ \ {d}, !.old = current,
                             !.keep = kept.keep, !.covered = kept.covered, !.addrs = <<>>])
      BY <2>3 DEF NextDevice
    <3> DEFINE current == [i \in DOMAIN s |-> addrs[d][s[i]]]
               kept == Categorize(current, l.pools)
               m == [l EXCEPT !.stage = "allocate", !.device = d, !.todo = @ \ {d}, !.old = current,
                              !.keep = kept.keep, !.covered = kept.covered, !.addrs = <<>>]
    <3>2. Set(c, m)
      BY <3>1
    <3> HIDE DEF current, kept
    <3>3. m.handled = l.handled
      BY <1>1 DEF Requests
    <3> HIDE DEF m, l
    <3> QED
      BY <2>1, <3>2, <3>3
  <2>4. ASSUME Allocate(c) PROVE FALSE
    <3> DEFINE rest == {i \in DOMAIN l.pools : l.pools[i].pool \notin l.covered}
               p == l.pools[Min(rest)]
               a == FirstAvailableAddress(p.range, Used(p.range))
               m == IF rest = {} THEN [l EXCEPT !.stage = IF l.kind = "create" THEN "insert" ELSE "rewrite"]
                    ELSE IF a = None THEN [l EXCEPT !.stage = IF l.kind = "create" THEN "done" ELSE "delete"]
                    ELSE [l EXCEPT !.addrs = Append(@, a), !.covered = @ \cup {p.pool}]
    <3>1. Set(c, m)
      BY <2>4 DEF Allocate
    <3> HIDE DEF a, p, rest
    <3>2. m.handled = l.handled
      BY <1>1 DEF Requests
    <3> HIDE DEF m, l
    <3> QED
      BY <2>1, <3>1, <3>2
  <2>5. ASSUME EndResync(c) PROVE FALSE
    <3> DEFINE m == [l EXCEPT !.stage = "done"]
    <3>1. Set(c, m)
      BY <2>5 DEF EndResync, Goto
    <3>2. m.handled = l.handled
      BY <1>1 DEF Requests
    <3> HIDE DEF m, l
    <3> QED
      BY <2>1, <3>1, <3>2
  <2>6. \/ ListDevices(c) \/ Allocate(c) \/ (\E d \in Device : NextDevice(c, d)) \/ Rewrite(c)
        \/ DeleteResynced(c) \/ FailDevice(c) \/ EndResync(c)
    BY <1>2 DEF Continue, WriteTemplate, EndSessions, InsertDevice, InsertAddress, WriteDevice, EndSession
  <2>7. ASSUME FailDevice(c) PROVE FALSE
    <3>1. PICK m : m = [l EXCEPT !.stage = "nextDevice"]
      OBVIOUS
    <3>2. Set(c, m) /\ m.handled = l.handled
      BY <1>1, <2>7, <3>1, FailFacts
    <3> QED
      BY <2>1, <3>2
  <2> QED
    BY <2>2, <2>3, <2>4, <2>5, <2>6, <2>7
<1>4. l.stage \in {"rewrite", "delete"}
  BY <1>3 DEF Rewrite, DeleteResynced
<1>5. l.device \in Device
  BY <1>1, <1>4 DEF CallForm, StageForm, Blank
<1>6. PICK d \in Device : d = l.device
  BY <1>5
<1>7. Brought(l, device, addrs)
  BY DEF AllBrought
<1>8. device[d] # None
  BY <1>4, <1>6, <1>7 DEF Brought, Sparing
<1>9. addrs \in [Device -> Seq(Prefix)]
  BY DEF Typed, DeviceOK
<1>10. CASE Rewrite(c)
  <2>1. l.stage = "rewrite" /\ device' = device
    BY <1>10 DEF Rewrite
  <2>2. Exists(d) /\ device'[d] # None
    BY <1>8, <2>1 DEF Exists
  <2>3. ASSUME NEW k \in DOMAIN addrs[d], Lone(k, addrs[d], l.pools)
        PROVE  \E m \in DOMAIN addrs'[d] : addrs'[d][m] = addrs[d][k]
    <3>1. CASE Changes(l)
      <4>1. addrs' = [addrs EXCEPT ![d] = l.keep \o l.addrs]
        BY <1>6, <1>10, <2>2, <3>1 DEF Rewrite
      <4>2. addrs'[d] = l.keep \o l.addrs
        BY <1>9, <4>1
      <4>3. /\ l.keep \in Seq(Prefix) /\ l.addrs \in Seq(Prefix) /\ l.old \in Seq(Prefix)
            /\ addrs[d] \in Seq(Prefix)
        BY <1>1, <1>9 DEF Requests
      <4>4. Same(l.old, addrs[d])
        BY <1>6, <1>7, <2>1 DEF Brought, Bringing
      <4>5. PICK i \in DOMAIN l.old : l.old[i] = addrs[d][k] /\ Lone(i, l.old, l.pools)
        BY <2>3, <4>3, <4>4, SameLone
      <4>6. PICK m \in DOMAIN l.keep : l.keep[m] = l.old[i]
        BY <1>7, <2>1, <4>5 DEF Brought, Sparing
      <4>7. m \in DOMAIN (l.keep \o l.addrs) /\ (l.keep \o l.addrs)[m] = l.keep[m]
        <5>1. \A s, u \in Seq(Prefix) : \A n \in DOMAIN s : n \in DOMAIN (s \o u) /\ (s \o u)[n] = s[n]
          OBVIOUS
        <5> QED
          BY <4>3, <4>6, <5>1
      <4> QED
        BY <4>2, <4>5, <4>6, <4>7
    <3>2. CASE ~Changes(l)
      <4>1. addrs' = addrs
        BY <1>6, <1>10, <2>2, <3>2 DEF Rewrite
      <4> QED
        BY <4>1
    <3> QED
      BY <3>1, <3>2
  <2>4. ASSUME NEW k \in DOMAIN addrs[d], NEW i \in DOMAIN l.pools,
               Belongs(addrs[d][k], l.pools[i].range),
               \A m \in DOMAIN addrs[d] \ {k} : ~Belongs(addrs[d][m], l.pools[i].range)
        PROVE  \E m \in DOMAIN addrs'[d] : addrs'[d][m] = addrs[d][k]
    <3>1. Lone(k, addrs[d], l.pools)
      BY <2>4 DEF Lone
    <3> QED
      BY <2>3, <3>1
  <2>5. device'[l.device] # None /\ device'[call'[c].device] # None
    <3>1. call'[c] = Handled(l)
      BY <1>10, SetFrame DEF Rewrite
    <3>2. Handled(l).device = l.device
      BY <1>1 DEF Handled, Requests
    <3> QED
      BY <1>6, <2>2, <3>1, <3>2
  <2> QED
    BY <1>6, <2>4, <2>5 DEF Exists
<1>11. CASE DeleteResynced(c)
  <2>1. l.stage = "delete" /\ Set(c, Handled(l)) /\ Erase({l.device})
    BY <1>11 DEF DeleteResynced
  <2>2. PICK i \in DOMAIN l.pools : Usable(l.pools[i].range) \subseteq UsedOf(addrs, l.pools[i].range)
    BY <1>7, <2>1 DEF Brought, Sparing
  <2>3. UsedOf(addrs, l.pools[i].range) = Used(l.pools[i].range)
    BY DEF UsedOf, Used
  <2>4. device'[l.device] = None /\ device'[call'[c].device] = None
    <3>1. call'[c] = Handled(l)
      BY <2>1, SetFrame
    <3>2. Handled(l).device = l.device
      BY <1>1 DEF Handled, Requests
    <3>3. device'[d] = None
      BY <1>6, <2>1 DEF Erase
    <3> QED
      BY <1>6, <3>1, <3>2, <3>3
  <2> QED
    BY <2>2, <2>3, <2>4 DEF Exists
<1> QED
  BY <1>3, <1>10, <1>11

(* And it takes no more than it must: the only address that a device has of a pool     *)
(* stays (categorizeDeviceAddresses), and a device is deleted only if all addresses of    *)
(* some pool are in use (allocateAddressesForPools).                          *)
THEOREM ResyncSpares == Spec => ResyncTakesLittle
<1>1. ASSUME Typed, AllBrought, Next
      PROVE  TakesLittle
  <2> SUFFICES ASSUME NEW c \in Call, call[c].kind = "resync", call[c].alone,
                      call'[c].handled # call[c].handled
               PROVE  LET l == call[c]
                          d == l.device
                          range_(i) == l.pools[i].range IN
                      IF Exists(d)'
                      THEN \A k \in DOMAIN addrs[d], i \in DOMAIN l.pools :
                              /\ Belongs(addrs[d][k], range_(i))
                              /\ \A m \in DOMAIN addrs[d] \ {k} : ~Belongs(addrs[d][m], range_(i))
                              => \E m \in DOMAIN addrs'[d] : addrs'[d][m] = addrs[d][k]
                      ELSE \E i \in DOMAIN l.pools : Usable(range_(i)) \subseteq Used(range_(i))
    BY DEF TakesLittle
  <2>1. ASSUME NEW b \in Call \ {c}, Start(b) \/ Continue(b)
        PROVE  FALSE
    <3>1. OthersStay(b)
      BY <1>1, <2>1, StartFrame, ContinueFrame
    <3> QED
      BY <1>1, <3>1, OthersFacts
  <2>2. ASSUME Start(c)
        PROVE  FALSE
    BY <1>1, <2>2, StartFrame DEF Blank
  <2>3. ASSUME NEW d \in Device, Login(d)
        PROVE  FALSE
    BY <2>3 DEF Login
  <2>4. Continue(c)
    BY <1>1, <2>1, <2>2, <2>3 DEF Next
  <2> QED
    BY <1>1, <2>4, ContinueLittle
<1>2. Typed /\ AllBrought /\ [Next]_vars => [TakesLittle]_vars
  BY <1>1
<1> QED
  BY <1>2, TypedAlways, BroughtAlways, PTL DEF Spec, ResyncTakesLittle

=============================================================================
