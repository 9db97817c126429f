------------------------ MODULE UpdateSchedule_proofs ------------------------
(***************************************************************************)
(* Proofs about the schedule of updates for any numbers of slots per epoch *)
(* and period, any slotsJump, and any chain: findClosestValidBlock finds   *)
(* the first valid block, finds it again when the chain has grown, and the *)
(* updates that getNextSlot chooses are the ones the circuit can prove.    *)
(***************************************************************************)
EXTENDS UpdateSchedule, WellFoundedInduction, TLAPS

-----------------------------------------------------------------------------
(* Numbers *)

\* A set of naturals has a least element.
LEMMA LeastIsThere ==
  ASSUME NEW S, S # {}, S \subseteq Nat
  PROVE  Min(S) \in S /\ \A x \in S : Min(S) <= x
<1>. DEFINE Less == {pair \in Nat \X Nat : pair[1] < pair[2]}
<1>1. IsWellFoundedOn(Less, Nat)
  BY NatLessThanWellFounded DEF OpToRel
<1>2. PICK x \in S : \A y \in S : ~(<<y, x>> \in Less)
  BY <1>1, WFMin
<1>3. ASSUME NEW y \in S PROVE x <= y
  <2>1. ~(<<y, x>> \in Less) /\ x \in Nat /\ y \in Nat
    BY <1>2
  <2>2. QED
    BY <2>1
<1>. QED
  BY <1>3 DEF Min

\* A bounded set of naturals has a greatest element.
LEMMA GreatestIsThere ==
  ASSUME NEW S, S # {}, S \subseteq Nat, NEW b \in Nat, \A x \in S : x <= b
  PROVE  Max(S) \in S /\ \A x \in S : x <= Max(S)
<1>. DEFINE T == {b - x : x \in S}
<1>1. T # {} /\ T \subseteq Nat
  <2>1. \A x \in S : b - x \in Nat
    OBVIOUS
  <2>2. QED
    BY <2>1
<1>2. PICK x \in S : b - x = Min(T)
  BY <1>1, LeastIsThere
<1>3. \A y \in S : y <= x
  BY <1>1, <1>2, LeastIsThere
<1>. QED
  BY <1>3 DEF Max

\* Quotient and remainder.
LEMMA Div ==
  ASSUME NEW b \in Nat \ {0}, NEW x \in Nat
  PROVE  /\ x \div b \in Nat
         /\ x % b \in 0 .. b - 1
         /\ x = (x \div b) * b + (x % b)
  OBVIOUS

\* More times a number is not less.
LEMMA TimesMono ==
  ASSUME NEW p \in Nat, NEW q \in Nat, NEW b \in Nat, p <= q
  PROVE  p * b <= q * b
<1>1. PICK d \in Nat : q = p + d
  <2>1. q - p \in Nat /\ q = p + (q - p)
    OBVIOUS
  <2>2. QED
    BY <2>1
<1>2. q * b = p * b + d * b
  BY <1>1
<1>3. p * b \in Nat /\ d * b \in Nat
  BY <1>1
<1>. QED
  BY <1>2, <1>3

\* Below a multiple the quotient is below its factor.
LEMMA DivLess ==
  ASSUME NEW b \in Nat \ {0}, NEW x \in Nat, NEW k \in Nat, x < k * b
  PROVE  x \div b < k
<1>. DEFINE q == x \div b
<1>1. q \in Nat /\ x % b \in Nat /\ x = q * b + (x % b)
  BY Div
<1>2. SUFFICES ASSUME k <= q PROVE FALSE
  BY <1>1
<1>. HIDE DEF q
<1>3. k * b <= q * b
  BY <1>1, <1>2, TimesMono
<1>4. k * b \in Nat /\ q * b \in Nat
  BY <1>1
<1>. QED
  BY <1>1, <1>3, <1>4

\* A later slot is not in an earlier period.
LEMMA DivMono ==
  ASSUME NEW b \in Nat \ {0}, NEW x \in Nat, NEW y \in Nat, x <= y
  PROVE  x \div b <= y \div b
<1>. DEFINE q == x \div b
            r == y \div b
<1>1. SUFFICES ASSUME r + 1 <= q PROVE FALSE
  BY Div
<1>2. q \in Nat /\ r \in Nat
  BY Div
<1>3. (r + 1) * b <= q * b
  BY <1>1, <1>2
<1>4. (r + 1) * b = r * b + b
  BY <1>2
<1>5. q * b \in Nat /\ r * b \in Nat
  BY <1>2
<1>6. x = q * b + (x % b) /\ y = r * b + (y % b) /\ x % b \in 0 .. b - 1 /\ y % b \in 0 .. b - 1
  BY Div
<1>. HIDE DEF q, r
<1> QED
  BY <1>3, <1>4, <1>5, <1>6
-----------------------------------------------------------------------------
(* The search *)

\* A chain that has a slot H.
IsChain(c, H) == H \in Nat /\ \E n \in Nat : H <= n /\ c \in [0 .. n -> BlockKind]

\* The blocks from a slot on whose next block carries enough signers.
Valid(c, slot, H) ==
  {h \in BlocksBetween(c, slot, H) :
     \E a \in BlocksBetween(c, h + 1, H) :
       /\ c[a] = "strong"
       /\ BlocksBetween(c, h + 1, a - 1) = {}}

\* The next block after h, which carries the signers of h.
Carrier(c, h, H) == Min(BlocksBetween(c, h + 1, H))

\* What the search is to find.
FirstValid(c, slot, H) ==
  IF Valid(c, slot, H) = {} THEN NotFound
  ELSE [slot |-> Min(Valid(c, slot, H)), signature |-> Carrier(c, Min(Valid(c, slot, H)), H)]

\* The equation of the search in findClosestValidBlock.
Body(c, H, search, slot) ==
  LET headers == BlocksBetween(c, slot, H)
      header == Min(headers)
      carriers == BlocksBetween(c, header + 1, H)
      carrier == Min(carriers)
  IN  CASE headers = {} -> NotFound
        [] headers # {} /\ carriers = {} -> NotFound
        [] headers # {} /\ carriers # {} /\ c[carrier] = "strong" ->
             [slot |-> header, signature |-> carrier]
        [] OTHER -> search[carrier]

IsSearch(c, H, f) == f = [slot \in Nat |-> Body(c, H, f, slot)]

\* The search is the function that satisfies its equation.
LEMMA SearchIs ==
  ASSUME NEW c, NEW H, NEW to
  PROVE  findClosestValidBlock(to, c, H) = (CHOOSE f : IsSearch(c, H, f))[to]
  BY DEF findClosestValidBlock, IsSearch, Body

\* The blocks between two slots, and where the first of them is.
LEMMA BlocksAre ==
  ASSUME NEW c, NEW H, IsChain(c, H), NEW slot \in Nat
  PROVE  /\ BlocksBetween(c, slot, H) \subseteq Nat
         /\ \A s \in BlocksBetween(c, slot, H) :
              s \in Nat /\ slot <= s /\ s <= H /\ c[s] # "none" /\ c[s] \in BlockKind
         /\ BlocksBetween(c, slot, H) # {} =>
              /\ Min(BlocksBetween(c, slot, H)) \in BlocksBetween(c, slot, H)
              /\ \A s \in BlocksBetween(c, slot, H) : Min(BlocksBetween(c, slot, H)) <= s
<1>1. ASSUME NEW s \in BlocksBetween(c, slot, H)
      PROVE  s \in Nat /\ slot <= s /\ s <= H /\ c[s] # "none" /\ c[s] \in BlockKind
  BY DEF BlocksBetween, IsChain
<1>2. BlocksBetween(c, slot, H) \subseteq Nat
  BY <1>1
<1>. QED
  BY <1>1, <1>2, LeastIsThere

\* A block is valid when the next one carries enough signers.
LEMMA ValidAre ==
  ASSUME NEW c, NEW H, IsChain(c, H), NEW slot \in Nat, NEW h
  PROVE  h \in Valid(c, slot, H) <=>
           /\ h \in BlocksBetween(c, slot, H)
           /\ BlocksBetween(c, h + 1, H) # {}
           /\ c[Carrier(c, h, H)] = "strong"
<1>1. SUFFICES ASSUME h \in BlocksBetween(c, slot, H)
               PROVE  h \in Valid(c, slot, H) <=>
                        /\ BlocksBetween(c, h + 1, H) # {}
                        /\ c[Carrier(c, h, H)] = "strong"
  BY DEF Valid
<1>2. h \in Nat /\ h + 1 \in Nat /\ H \in Nat
  <2>1. h \in Nat
    BY <1>1, BlocksAre
  <2>2. H \in Nat
    BY DEF IsChain
  <2>. QED
    BY <2>1, <2>2
<1>. DEFINE next == BlocksBetween(c, h + 1, H)
            a == Carrier(c, h, H)
<1>3. next # {} => a \in next /\ a \in Nat /\ \A s \in next : a <= s
  BY <1>2, BlocksAre DEF Carrier
<1>4. ASSUME next # {}, c[a] = "strong" PROVE h \in Valid(c, slot, H)
  <2>1. BlocksBetween(c, h + 1, a - 1) = {}
    <3>1. ASSUME NEW s \in BlocksBetween(c, h + 1, a - 1) PROVE FALSE
      <4>1. s \in h + 1 .. a - 1 /\ c[s] # "none"
        BY DEF BlocksBetween
      <4>2. a <= H
        BY <1>3, <1>4, <1>2, BlocksAre
      <4>3. s \in next /\ s < a
        BY <4>1, <4>2, <1>2, <1>3, <1>4 DEF BlocksBetween
      <4>. QED
        BY <4>3, <1>3, <1>2, <4>1
    <3>. QED
      BY <3>1
  <2>. QED
    BY <1>1, <1>3, <1>4, <2>1 DEF Valid
<1>5. ASSUME h \in Valid(c, slot, H) PROVE next # {} /\ c[a] = "strong"
  <2>1. PICK b \in next : c[b] = "strong" /\ BlocksBetween(c, h + 1, b - 1) = {}
    BY <1>5 DEF Valid
  <2>2. b \in Nat /\ b <= H
    BY <1>2, BlocksAre
  <2>3. ~(a < b)
    <3>1. SUFFICES ASSUME a < b PROVE FALSE
      OBVIOUS
    <3>2. a \in h + 1 .. b - 1 /\ c[a] # "none"
      BY <1>2, <1>3, <2>1, <2>2, <3>1, BlocksAre DEF BlocksBetween
    <3>. QED
      BY <2>1, <3>2 DEF BlocksBetween
  <2>4. a = b
    BY <1>3, <2>1, <2>2, <2>3
  <2>. QED
    BY <2>1, <2>4
<1>. QED
  BY <1>4, <1>5

\* One round of the search: it ends at a valid block, at the end of the
\* chain, or goes on from the block that carried too few signers.
LEMMA SearchRound ==
  ASSUME NEW c, NEW H, IsChain(c, H), NEW slot \in Nat
  PROVE  LET h == Min(BlocksBetween(c, slot, H))
             a == Carrier(c, h, H)
         IN  /\ BlocksBetween(c, slot, H) = {} => Valid(c, slot, H) = {}
             /\ BlocksBetween(c, slot, H) # {} =>
                  /\ h \in Nat /\ slot <= h
                  /\ BlocksBetween(c, h + 1, H) = {} => Valid(c, slot, H) = {}
                  /\ BlocksBetween(c, h + 1, H) # {} =>
                       /\ a \in Nat /\ h < a /\ a <= H
                       /\ c[a] = "strong" => /\ Valid(c, slot, H) # {}
                                             /\ Min(Valid(c, slot, H)) = h
                       /\ c[a] # "strong" => Valid(c, slot, H) = Valid(c, a, H)
<1>. DEFINE headers == BlocksBetween(c, slot, H)
            h == Min(headers)
            carriers == BlocksBetween(c, h + 1, H)
            a == Carrier(c, h, H)
            V == Valid(c, slot, H)
<1>0. H \in Nat
  BY DEF IsChain
<1>1. CASE headers = {}
  BY <1>1 DEF Valid
<1>2. CASE headers # {}
  <2>1. h \in headers /\ h \in Nat /\ slot <= h /\ h <= H /\ h + 1 \in Nat
    BY <1>2, BlocksAre
  <2>2. \A s \in headers : s \in Nat /\ h <= s
    BY <1>2, BlocksAre
  <2>3. \A s \in headers : s # h => s \in carriers
    BY <2>1, <2>2, <1>0 DEF BlocksBetween
  <2>4. CASE carriers = {}
    <3>1. \A s \in V : s \in headers /\ BlocksBetween(c, s + 1, H) # {}
      BY ValidAre
    <3>2. V = {}
      BY <3>1, <2>3, <2>4
    <3>. QED
      BY <3>2, <2>1, <2>4
  <2>5. CASE carriers # {}
    <3>1. a \in carriers /\ a \in Nat /\ h + 1 <= a /\ a <= H /\ \A s \in carriers : s \in Nat /\ a <= s
      BY <2>5, <2>1, BlocksAre DEF Carrier
    <3>2. CASE c[a] = "strong"
      <4>1. h \in V
        BY <2>1, <2>5, <3>2, ValidAre
      <4>2. \A s \in V : s \in headers
        BY ValidAre
      <4>3. V \subseteq Nat
        BY <4>2, <2>2
      <4>4. Min(V) \in V /\ \A s \in V : Min(V) <= s
        BY <4>1, <4>3, LeastIsThere
      <4>5. Min(V) <= h /\ h <= Min(V) /\ Min(V) \in Nat
        BY <4>1, <4>2, <4>3, <4>4, <2>2
      <4>6. Min(V) = h
        BY <4>5, <2>1
      <4>. QED
        BY <4>1, <4>6, <3>1, <3>2, <2>1, <2>5
    <3>3. CASE c[a] # "strong"
      <4>1. ASSUME NEW s PROVE s \in V <=> s \in Valid(c, a, H)
        <5>1. s \in V => s # h
          BY <3>3, ValidAre
        <5>2. s \in headers /\ s # h <=> s \in BlocksBetween(c, a, H)
          <6>1. s \in headers /\ s # h => s \in BlocksBetween(c, a, H)
            BY <2>3, <3>1, <1>0 DEF BlocksBetween
          <6>2. s \in BlocksBetween(c, a, H) => s \in headers /\ s # h
            BY <2>1, <3>1, <1>0 DEF BlocksBetween
          <6>. QED
            BY <6>1, <6>2
        <5>. QED
          BY <5>1, <5>2, <3>1, ValidAre
      <4>2. V = Valid(c, a, H)
        BY <4>1
      <4>. QED
        BY <4>2, <3>1, <3>3, <2>1, <2>5
    <3>. QED
      BY <3>2, <3>3
  <2>. QED
    BY <2>4, <2>5
<1>. QED
  BY <1>1, <1>2

\* So the first valid block from each slot on is a search.
LEMMA FirstValidIsSearch ==
  ASSUME NEW c, NEW H, IsChain(c, H)
  PROVE  IsSearch(c, H, [slot \in Nat |-> FirstValid(c, slot, H)])
<1>. DEFINE f == [slot \in Nat |-> FirstValid(c, slot, H)]
<1>1. ASSUME NEW slot \in Nat PROVE f[slot] = Body(c, H, f, slot)
  <2>. DEFINE headers == BlocksBetween(c, slot, H)
              h == Min(headers)
              carriers == BlocksBetween(c, h + 1, H)
              a == Carrier(c, h, H)
  <2>1. CASE headers = {} \/ carriers = {}
    BY <2>1, SearchRound DEF FirstValid, Body
  <2>2. CASE headers # {} /\ carriers # {} /\ c[a] = "strong"
    BY <2>2, SearchRound DEF FirstValid, Body, Carrier
  <2>3. CASE headers # {} /\ carriers # {} /\ c[a] # "strong"
    <3>1. a \in Nat /\ Valid(c, slot, H) = Valid(c, a, H)
      BY <2>3, SearchRound
    <3>2. f[a] = FirstValid(c, slot, H)
      BY <3>1 DEF FirstValid
    <3>3. Body(c, H, f, slot) = f[a]
      BY <2>3 DEF Body, Carrier
    <3>. QED
      BY <3>2, <3>3
  <2>. QED
    BY <2>1, <2>2, <2>3
<1>. QED
  BY <1>1 DEF IsSearch

\* And there is no other search: the loop goes up to the head.
LEMMA SearchIsUnique ==
  ASSUME NEW c, NEW H, IsChain(c, H), NEW f, IsSearch(c, H, f), NEW g, IsSearch(c, H, g)
  PROVE  f = g
<1>. DEFINE Differ == {slot \in Nat : f[slot] # g[slot]}
<1>0. H \in Nat
  BY DEF IsChain
<1>1. \A slot \in Nat : f[slot] = Body(c, H, f, slot) /\ g[slot] = Body(c, H, g, slot)
  BY DEF IsSearch
<1>2. ASSUME NEW slot \in Differ PROVE slot <= H /\ \E b \in Differ : slot < b
  <2>. DEFINE headers == BlocksBetween(c, slot, H)
              h == Min(headers)
              carriers == BlocksBetween(c, h + 1, H)
              a == Carrier(c, h, H)
  <2>1. Body(c, H, f, slot) # Body(c, H, g, slot)
    BY <1>1
  <2>2. headers # {} /\ carriers # {} /\ f[a] # g[a]
    BY <2>1 DEF Body, Carrier
  <2>3. h \in Nat /\ slot <= h /\ a \in Nat /\ h < a /\ a <= H
    BY <2>2, SearchRound
  <2>. QED
    BY <2>2, <2>3, <1>0
<1>3. Differ = {}
  <2>1. SUFFICES ASSUME Differ # {} PROVE FALSE
    OBVIOUS
  <2>2. Differ \subseteq Nat /\ \A slot \in Differ : slot <= H
    BY <1>2
  <2>3. \A slot \in Differ : \E b \in Differ : slot < b
    BY <1>2
  <2>. HIDE DEF Differ
  <2>4. Max(Differ) \in Differ /\ \A slot \in Differ : slot <= Max(Differ)
    BY <2>1, <2>2, <1>0, GreatestIsThere
  <2>5. PICK b \in Differ : Max(Differ) < b
    BY <2>3, <2>4
  <2>6. b <= Max(Differ) /\ b \in Nat /\ Max(Differ) \in Nat
    BY <2>2, <2>4, <2>5
  <2>. QED
    BY <2>5, <2>6
<1>4. \A slot \in Nat : f[slot] = g[slot]
  BY <1>3
<1>. QED
  BY <1>4 DEF IsSearch

\* findClosestValidBlock finds the first valid block.
THEOREM SearchFindsFirst ==
  ASSUME NEW c, NEW H, IsChain(c, H), NEW to \in Nat
  PROVE  findClosestValidBlock(to, c, H) = FirstValid(c, to, H)
<1>. DEFINE f == [slot \in Nat |-> FirstValid(c, slot, H)]
            g == CHOOSE s : IsSearch(c, H, s)
<1>1. IsSearch(c, H, f)
  BY FirstValidIsSearch
<1>2. IsSearch(c, H, g)
  BY <1>1
<1>3. f = g
  BY <1>1, <1>2, SearchIsUnique
<1>4. findClosestValidBlock(to, c, H) = g[to]
  BY SearchIs
<1>. QED
  BY <1>3, <1>4

\* The chain grows, and what was found stays found: a later head brings no
\* earlier valid block.
LEMMA FoundStays ==
  ASSUME NEW c, NEW H, IsChain(c, H), NEW d, NEW K, IsChain(d, K), H <= K,
         \A s \in 0 .. H : d[s] = c[s],
         NEW slot \in Nat, Valid(c, slot, H) # {}
  PROVE  Valid(d, slot, K) # {} /\ FirstValid(d, slot, K) = FirstValid(c, slot, H)
<1>. DEFINE V == Valid(c, slot, H)
            W == Valid(d, slot, K)
            h == Min(V)
            a == Carrier(c, h, H)
<1>0. H \in Nat /\ K \in Nat
  BY DEF IsChain
<1>1. h \in V /\ V \subseteq Nat /\ \A s \in V : h <= s
  <2>1. \A s \in V : s \in BlocksBetween(c, slot, H)
    BY ValidAre
  <2>2. V \subseteq Nat
    BY <2>1, BlocksAre
  <2>. QED
    BY <2>2, LeastIsThere
<1>2. h \in BlocksBetween(c, slot, H) /\ BlocksBetween(c, h + 1, H) # {} /\ c[a] = "strong"
  BY <1>1, ValidAre
<1>3. h \in Nat /\ slot <= h /\ h <= H /\ c[h] # "none"
  BY <1>2, BlocksAre
<1>4. /\ a \in BlocksBetween(c, h + 1, H) /\ a \in Nat /\ h + 1 <= a /\ a <= H
      /\ \A s \in BlocksBetween(c, h + 1, H) : a <= s
  BY <1>2, <1>3, BlocksAre DEF Carrier
<1>5. ASSUME NEW s \in Nat, s <= H
      PROVE  /\ BlocksBetween(c, s, H) \subseteq BlocksBetween(d, s, K)
             /\ \A b \in BlocksBetween(d, s, K) : b <= H => b \in BlocksBetween(c, s, H)
  BY <1>0, <1>5 DEF BlocksBetween
<1>6. ASSUME NEW s \in Nat, s <= h
      PROVE  s + 1 \in Nat /\ BlocksBetween(d, s + 1, K) # {} /\ Carrier(d, s, K) = Carrier(c, s, H)
  <2>1. s + 1 \in Nat /\ s + 1 <= H
    BY <1>3, <1>4, <1>6, <1>0
  <2>2. a \in BlocksBetween(c, s + 1, H)
    BY <1>3, <1>4, <1>6, <1>0 DEF BlocksBetween
  <2>3. /\ BlocksBetween(c, s + 1, H) \subseteq BlocksBetween(d, s + 1, K)
        /\ \A b \in BlocksBetween(d, s + 1, K) : b <= H => b \in BlocksBetween(c, s + 1, H)
    BY <2>1, <1>5
  <2>4. /\ Carrier(c, s, H) \in BlocksBetween(c, s + 1, H)
        /\ Carrier(c, s, H) \in Nat /\ Carrier(c, s, H) <= H
        /\ \A b \in BlocksBetween(c, s + 1, H) : Carrier(c, s, H) <= b
    BY <2>1, <2>2, BlocksAre DEF Carrier
  <2>5. /\ Carrier(d, s, K) \in BlocksBetween(d, s + 1, K)
        /\ Carrier(d, s, K) \in Nat
        /\ \A b \in BlocksBetween(d, s + 1, K) : Carrier(d, s, K) <= b
    BY <2>1, <2>2, <2>3, BlocksAre DEF Carrier
  <2>6. Carrier(d, s, K) <= Carrier(c, s, H)
    BY <2>3, <2>4, <2>5
  <2>7. Carrier(d, s, K) \in BlocksBetween(c, s + 1, H)
    BY <2>3, <2>4, <2>5, <2>6, <1>0
  <2>8. Carrier(d, s, K) = Carrier(c, s, H)
    BY <2>4, <2>5, <2>6, <2>7
  <2>. QED
    BY <2>1, <2>2, <2>3, <2>8
<1>7. h \in W
  <2>1. Carrier(d, h, K) = a /\ BlocksBetween(d, h + 1, K) # {}
    BY <1>3, <1>6
  <2>2. d[a] = "strong"
    BY <1>2, <1>4, <1>0
  <2>3. h \in BlocksBetween(d, slot, K)
    BY <1>3, <1>0 DEF BlocksBetween
  <2>. QED
    BY <2>1, <2>2, <2>3, ValidAre
<1>8. ASSUME NEW s \in W, s < h PROVE FALSE
  <2>1. s \in BlocksBetween(d, slot, K) /\ d[Carrier(d, s, K)] = "strong"
    BY ValidAre
  <2>2. s \in Nat /\ slot <= s /\ d[s] # "none"
    BY <2>1, BlocksAre
  <2>3. s \in BlocksBetween(c, slot, H)
    BY <2>2, <1>8, <1>3, <1>0 DEF BlocksBetween
  <2>4. s + 1 \in Nat /\ a \in BlocksBetween(c, s + 1, H)
    BY <2>2, <1>8, <1>3, <1>4, <1>0 DEF BlocksBetween
  <2>5. Carrier(c, s, H) \in Nat /\ Carrier(c, s, H) <= H
    BY <2>4, BlocksAre DEF Carrier
  <2>6. Carrier(d, s, K) = Carrier(c, s, H)
    BY <2>2, <1>8, <1>3, <1>6
  <2>7. c[Carrier(c, s, H)] = "strong"
    BY <2>1, <2>5, <2>6, <1>0
  <2>8. s \in V
    BY <2>3, <2>4, <2>7, ValidAre
  <2>. QED
    BY <2>8, <2>2, <1>1, <1>3, <1>8
<1>9. W \subseteq Nat
  <2>1. \A s \in W : s \in BlocksBetween(d, slot, K)
    BY ValidAre
  <2>. QED
    BY <2>1, BlocksAre
<1>10. Min(W) = h
  <2>1. Min(W) \in W /\ \A s \in W : Min(W) <= s
    BY <1>7, <1>9, LeastIsThere
  <2>2. Min(W) <= h /\ ~(Min(W) < h) /\ Min(W) \in Nat
    BY <2>1, <1>7, <1>8, <1>9
  <2>. QED
    BY <2>2, <1>3
<1>11. Carrier(d, h, K) = a
  BY <1>3, <1>6
<1>. QED
  BY <1>7, <1>10, <1>11 DEF FirstValid

\* What is found is a valid block at or after the slot, and again the first
\* valid block from its own slot on.
LEMMA FoundIsValid ==
  ASSUME NEW c, NEW H, IsChain(c, H), NEW slot \in Nat, FirstValid(c, slot, H) # NotFound
  PROVE  LET found == FirstValid(c, slot, H)
         IN  /\ Valid(c, slot, H) # {} /\ found.slot = Min(Valid(c, slot, H))
             /\ found = [slot |-> found.slot, signature |-> found.signature]
             /\ found.slot \in Nat /\ found.signature \in Nat
             /\ slot <= found.slot /\ found.slot < found.signature /\ found.signature <= H
             /\ Valid(c, found.slot, H) # {}
             /\ FirstValid(c, found.slot, H) = found
<1>. DEFINE V == Valid(c, slot, H)
            h == Min(V)
            a == Carrier(c, h, H)
            U == Valid(c, h, H)
<1>0. H \in Nat
  BY DEF IsChain
<1>1. V # {} /\ FirstValid(c, slot, H) = [slot |-> h, signature |-> a]
  BY DEF FirstValid
<1>2. h \in V /\ \A s \in V : h <= s
  <2>1. \A s \in V : s \in BlocksBetween(c, slot, H)
    BY ValidAre
  <2>2. V \subseteq Nat
    BY <2>1, BlocksAre
  <2>. QED
    BY <1>1, <2>2, LeastIsThere
<1>3. h \in BlocksBetween(c, slot, H) /\ BlocksBetween(c, h + 1, H) # {} /\ c[a] = "strong"
  BY <1>2, ValidAre
<1>4. h \in Nat /\ slot <= h /\ h <= H /\ c[h] # "none" /\ h + 1 \in Nat
  BY <1>3, BlocksAre
<1>5. a \in Nat /\ h + 1 <= a /\ a <= H
  BY <1>3, <1>4, BlocksAre DEF Carrier
<1>6. h \in U
  <2>1. h \in BlocksBetween(c, h, H)
    BY <1>4, <1>0 DEF BlocksBetween
  <2>. QED
    BY <2>1, <1>3, <1>4, ValidAre
<1>7. \A s \in U : s \in Nat /\ h <= s
  <2>1. \A s \in U : s \in BlocksBetween(c, h, H)
    BY <1>4, ValidAre
  <2>. QED
    BY <2>1, <1>4, BlocksAre
<1>8. Min(U) = h
  <2>1. Min(U) \in U /\ \A s \in U : Min(U) <= s
    BY <1>6, <1>7, LeastIsThere
  <2>. QED
    BY <2>1, <1>4, <1>6, <1>7
<1>9. FirstValid(c, h, H) = [slot |-> h, signature |-> a]
  BY <1>6, <1>8 DEF FirstValid
<1>. QED
  BY <1>1, <1>4, <1>5, <1>6, <1>9
-----------------------------------------------------------------------------
(* The slots of the relay *)

\* A period has whole epochs, so at least one.
LEMMA EpochsFitThePeriod == SLOTS_PER_EPOCH <= SLOTS_PER_PERIOD
<1>. DEFINE q == SLOTS_PER_PERIOD \div SLOTS_PER_EPOCH
<1>1. /\ q \in Nat /\ SLOTS_PER_PERIOD = q * SLOTS_PER_EPOCH
      /\ SLOTS_PER_PERIOD \in Nat \ {0} /\ SLOTS_PER_EPOCH \in Nat \ {0}
  BY BeaconSlotsAssumption, Div
<1>. HIDE DEF q
<1>2. q # 0
  BY <1>1
<1>3. 1 * SLOTS_PER_EPOCH <= q * SLOTS_PER_EPOCH
  BY <1>1, <1>2, TimesMono
<1>. QED
  BY <1>1, <1>3

\* Catching up from a slot goes forward, to the last epoch of its next period.
LEMMA CatchUpIsAhead ==
  ASSUME NEW slot \in Nat
  PROVE  LET p == computeSyncCommitteePeriodAt(slot)
         IN  /\ p \in Nat /\ CatchUpTarget(slot) \in Nat
             /\ slot < CatchUpTarget(slot)
             /\ CatchUpTarget(slot) = (p + 2) * SLOTS_PER_PERIOD - SLOTS_PER_EPOCH
<1>. DEFINE p == computeSyncCommitteePeriodAt(slot)
            P == SLOTS_PER_PERIOD
<1>1. P \in Nat \ {0} /\ SLOTS_PER_EPOCH \in Nat \ {0} /\ SLOTS_PER_EPOCH <= P
  BY BeaconSlotsAssumption, EpochsFitThePeriod
<1>2. p \in Nat /\ slot = p * P + (slot % P) /\ slot % P \in 0 .. P - 1
  BY <1>1, Div DEF computeSyncCommitteePeriodAt
<1>3. CatchUpTarget(slot) = (p + 1) * P + (P - SLOTS_PER_EPOCH)
  BY DEF CatchUpTarget
<1>. HIDE DEF p, P
<1>4. (p + 1) * P = p * P + P /\ (p + 2) * P = p * P + P + P /\ p * P \in Nat
  BY <1>1, <1>2
<1>5. CatchUpTarget(slot) = (p + 2) * P - SLOTS_PER_EPOCH
  BY <1>1, <1>3, <1>4
<1>6. slot < CatchUpTarget(slot) /\ CatchUpTarget(slot) \in Nat
  BY <1>1, <1>2, <1>3, <1>4
<1>. QED
  BY <1>2, <1>5, <1>6 DEF p, P

\* The last multiple of slotsJump is at most slotsJump - 1 slots behind.
LEMMA HeadTargetIsBehind ==
  ASSUME NEW H \in Nat
  PROVE  HeadTarget(H) \in Nat /\ HeadTarget(H) <= H /\ H < HeadTarget(H) + slotsJump
<1>. DEFINE q == H \div slotsJump
            r == H % slotsJump
<1>1. slotsJump \in Nat \ {0} /\ q \in Nat /\ r \in 0 .. slotsJump - 1 /\ H = q * slotsJump + r
  BY BeaconSlotsAssumption, Div
<1>2. HeadTarget(H) = H - r
  BY DEF HeadTarget
<1>. HIDE DEF q, r
<1>3. q * slotsJump \in Nat
  BY <1>1
<1>. QED
  BY <1>1, <1>2, <1>3

\* A run of slots is as long as its last slot.
LEMMA LastOfSlots ==
  ASSUME NEW n \in Nat
  PROVE  Max(0 .. n) = n
<1>1. Max(0 .. n) \in 0 .. n /\ \A x \in 0 .. n : x <= Max(0 .. n)
  BY GreatestIsThere
<1>. QED
  BY <1>1

-----------------------------------------------------------------------------
(* The invariant of the schedule *)

Head == getCurrentHeadSlot(chain)

\* The chain has the deployed header and the blocks before it.
ChainShape ==
  /\ \E n \in FirstSlot .. MaxSlot : chain \in [0 .. n -> BlockKind]
  /\ \A s \in 0 .. FirstSlot : chain[s] = "strong"

Record == [slot |-> job.to, signature |-> job.signature]

\* The job is the first valid block from its own slot on, and either its
\* signers are at most a period after its start or it caught up.
JobIsFound ==
  job # NoJob =>
    /\ job.from \in Nat /\ FirstSlot <= job.from
    /\ FirstValid(chain, job.to, Head) = Record
    /\ \/ computeSyncCommitteePeriodAt(job.signature)
            <= computeSyncCommitteePeriodAt(job.from) + 1
       \/ FirstValid(chain, CatchUpTarget(job.from), Head) = Record

JobShape ==
  /\ job \in [from : Int, to : Nat, signature : Int]
  /\ FirstSlot <= job.to /\ -1 <= job.from /\ job.from < job.to
  /\ -1 <= job.signature /\ job.to <= Head /\ job.signature <= Head

IInv == ChainShape /\ JobShape /\ JobIsFound

\* A chain with the deployed header has a head, and no block is past it.
LEMMA HeadOfChain ==
  ASSUME NEW c, NEW n \in FirstSlot .. MaxSlot, c \in [0 .. n -> BlockKind], c[FirstSlot] = "strong"
  PROVE  LET H == getCurrentHeadSlot(c)
         IN  /\ H \in Nat /\ FirstSlot <= H /\ H <= n
             /\ IsChain(c, H)
             /\ \A s \in 0 .. n : c[s] # "none" => s <= H
<1>. DEFINE Blocks == {s \in DOMAIN c : c[s] # "none"}
<1>1. FirstSlot \in Nat \ {0} /\ MaxSlot \in Nat /\ n \in Nat
  BY ScheduleAssumption
<1>2. FirstSlot \in Blocks /\ Blocks \subseteq Nat /\ \A s \in Blocks : s <= n
  BY <1>1
<1>3. Max(Blocks) \in Blocks /\ \A s \in Blocks : s <= Max(Blocks)
  BY <1>1, <1>2, GreatestIsThere
<1>4. Max(Blocks) \in Nat /\ FirstSlot <= Max(Blocks) /\ Max(Blocks) <= n
  BY <1>2, <1>3
<1>5. getCurrentHeadSlot(c) = Max(Blocks)
  BY DEF getCurrentHeadSlot
<1>6. IsChain(c, Max(Blocks))
  BY <1>1, <1>4 DEF IsChain
<1>. QED
  BY <1>3, <1>4, <1>5, <1>6

\* So the schedule's chain has one, and a block before it.
LEMMA HeadIsThere ==
  ASSUME ChainShape
  PROVE  /\ Head \in FirstSlot .. LastSlot /\ LastSlot \in FirstSlot .. MaxSlot
         /\ chain \in [0 .. LastSlot -> BlockKind]
         /\ FirstSlot \in Nat /\ Head \in Nat /\ headSlot \in Nat /\ headSlot <= Head
         /\ IsChain(chain, Head) /\ IsChain(chain, headSlot)
         /\ \A s \in 0 .. LastSlot : chain[s] # "none" => s <= Head
<1>1. PICK n \in FirstSlot .. MaxSlot : chain \in [0 .. n -> BlockKind]
  BY DEF ChainShape
<1>2. FirstSlot \in Nat \ {0} /\ MaxSlot \in Nat /\ n \in Nat
  BY <1>1, ScheduleAssumption
<1>3. DOMAIN chain = 0 .. n /\ LastSlot = n
  BY <1>1, <1>2, LastOfSlots DEF LastSlot
<1>4. chain[FirstSlot] = "strong"
  BY <1>2 DEF ChainShape
<1>5. /\ Head \in Nat /\ FirstSlot <= Head /\ Head <= n /\ IsChain(chain, Head)
      /\ \A s \in 0 .. n : chain[s] # "none" => s <= Head
  BY <1>1, <1>4, HeadOfChain DEF Head
<1>6. headSlot = Head - 1 /\ headSlot \in Nat /\ headSlot <= Head
  BY <1>2, <1>5 DEF headSlot, Head
<1>7. IsChain(chain, headSlot)
  BY <1>1, <1>2, <1>5, <1>6 DEF IsChain
<1>. QED
  BY <1>1, <1>2, <1>3, <1>5, <1>6, <1>7

\* The next slot is the first valid block from the target on.
LEMMA NextSlotIsFound ==
  ASSUME ChainShape, NEW slot \in Nat
  PROVE  LET target == IF WithinNextPeriod(slot, headSlot) THEN HeadTarget(headSlot)
                                                          ELSE CatchUpTarget(slot)
         IN  target \in Nat /\ getNextSlot(slot, chain, headSlot) = FirstValid(chain, target, headSlot)
<1>. DEFINE target == IF WithinNextPeriod(slot, headSlot) THEN HeadTarget(headSlot)
                                                          ELSE CatchUpTarget(slot)
<1>1. headSlot \in Nat /\ IsChain(chain, headSlot)
  BY HeadIsThere
<1>2. target \in Nat
  BY <1>1, HeadTargetIsBehind, CatchUpIsAhead
<1>3. getNextSlot(slot, chain, headSlot) = findClosestValidBlock(target, chain, headSlot)
  BY DEF getNextSlot
<1>. HIDE DEF target
<1>4. findClosestValidBlock(target, chain, headSlot) = FirstValid(chain, target, headSlot)
  BY <1>1, <1>2, SearchFindsFirst
<1>. QED
  BY <1>2, <1>3, <1>4 DEF target

\* A new slot leaves the slots before it as they are.
LEMMA ChainGrows ==
  ASSUME ChainShape, NEW kind \in BlockKind, NewSlot(kind)
  PROVE  /\ ChainShape' /\ Head <= Head'
         /\ \A s \in 0 .. Head : chain'[s] = chain[s]
<1>. DEFINE n == LastSlot
<1>1. /\ n \in FirstSlot .. MaxSlot /\ n < MaxSlot /\ chain \in [0 .. n -> BlockKind]
      /\ chain' = [s \in 0 .. n + 1 |-> IF s <= n THEN chain[s] ELSE kind]
      /\ FirstSlot \in Nat /\ MaxSlot \in Nat /\ n \in Nat
      /\ Head \in FirstSlot .. n /\ Head \in Nat
  BY HeadIsThere, ScheduleAssumption DEF NewSlot
<1>. HIDE DEF n
<1>2. chain' \in [0 .. n + 1 -> BlockKind] /\ n + 1 \in FirstSlot .. MaxSlot
  BY <1>1
<1>3. \A s \in 0 .. n : chain'[s] = chain[s]
  BY <1>1
<1>4. ChainShape'
  BY <1>1, <1>2, <1>3 DEF ChainShape
<1>5. \A s \in 0 .. Head : s \in 0 .. n /\ chain'[s] = chain[s]
  BY <1>1, <1>3
<1>6. Head <= Head'
  <2>1. chain'[FirstSlot] = "strong" /\ chain[FirstSlot] = "strong"
    BY <1>1, <1>4 DEF ChainShape
  <2>2. Head \in 0 .. n /\ chain[Head] # "none"
    <3>1. Head = Max({s \in DOMAIN chain : chain[s] # "none"})
      BY DEF Head, getCurrentHeadSlot
    <3>2. FirstSlot \in {s \in DOMAIN chain : chain[s] # "none"}
      BY <1>1, <2>1
    <3>3. \A s \in {s \in DOMAIN chain : chain[s] # "none"} : s \in Nat /\ s <= n
      BY <1>1
    <3>4. Head \in {s \in DOMAIN chain : chain[s] # "none"}
      BY <1>1, <3>1, <3>2, <3>3, GreatestIsThere
    <3>. QED
      BY <3>4, <1>1
  <2>3. chain'[Head] # "none" /\ Head \in 0 .. n + 1
    BY <1>1, <1>3, <2>2
  <2>4. \A s \in 0 .. n + 1 : chain'[s] # "none" => s <= getCurrentHeadSlot(chain')
    BY <1>2, <2>1, HeadOfChain
  <2>. QED
    BY <2>3, <2>4 DEF Head
<1>. QED
  BY <1>4, <1>5, <1>6

\* Before the first update there is the deployed header's chain.
LEMMA InitIInv == Init => IInv
<1>. SUFFICES ASSUME Init PROVE IInv
  OBVIOUS
<1>1. FirstSlot \in Nat \ {0} /\ MaxSlot \in Nat /\ FirstSlot < MaxSlot
  BY ScheduleAssumption
<1>2. chain = [s \in 0 .. FirstSlot |-> "strong"] /\ job = NoJob
  BY DEF Init
<1>3. ChainShape
  BY <1>1, <1>2 DEF ChainShape, BlockKind
<1>4. Head \in Nat /\ FirstSlot <= Head
  BY <1>1, <1>3, HeadIsThere
<1>5. JobShape
  BY <1>1, <1>2, <1>4 DEF JobShape, NoJob
<1>. QED
  BY <1>2, <1>3, <1>5 DEF IInv, JobIsFound

\* A job found is found again in the longer chain.
LEMMA NewSlotIInv ==
  ASSUME IInv, NEW kind \in BlockKind, NewSlot(kind)
  PROVE  IInv'
<1>1. ChainShape /\ JobShape /\ JobIsFound /\ job' = job
  BY DEF IInv, NewSlot
<1>2. ChainShape' /\ Head <= Head' /\ \A s \in 0 .. Head : chain'[s] = chain[s]
  BY <1>1, ChainGrows
<1>3. Head \in Nat /\ IsChain(chain, Head)
  BY <1>1, HeadIsThere
<1>4. Head' \in Nat /\ IsChain(chain', Head')
  <2>1. PICK n \in FirstSlot .. MaxSlot : chain' \in [0 .. n -> BlockKind]
    BY <1>2 DEF ChainShape
  <2>2. chain'[FirstSlot] = "strong"
    BY <1>2, ScheduleAssumption DEF ChainShape
  <2>. QED
    BY <2>1, <2>2, HeadOfChain DEF Head
<1>5. JobShape'
  <2>1. job.to \in Int /\ job.signature \in Int
    BY <1>1 DEF JobShape
  <2>2. job.to <= Head' /\ job.signature <= Head'
    BY <1>1, <1>2, <1>3, <1>4, <2>1 DEF JobShape
  <2>. QED
    BY <1>1, <2>2 DEF JobShape
<1>6. ASSUME NEW slot \in Nat, FirstValid(chain, slot, Head) = Record, job # NoJob
      PROVE  FirstValid(chain', slot, Head') = Record'
  <2>1. Record # NotFound
    BY <1>1, ScheduleAssumption DEF Record, NotFound, JobShape
  <2>2. Valid(chain, slot, Head) # {}
    BY <1>6, <2>1 DEF FirstValid
  <2>3. FirstValid(chain', slot, Head') = FirstValid(chain, slot, Head)
    BY <1>2, <1>3, <1>4, <2>2, FoundStays
  <2>. QED
    BY <1>1, <1>6, <2>3 DEF Record
<1>7. JobIsFound'
  <2>1. SUFFICES ASSUME job # NoJob PROVE JobIsFound'
    BY <1>1 DEF JobIsFound
  <2>2. job.to \in Nat /\ job.from \in Nat /\ CatchUpTarget(job.from) \in Nat
    BY <1>1, <2>1, CatchUpIsAhead DEF JobIsFound, JobShape
  <2>3. FirstValid(chain', job.to, Head') = Record'
    BY <1>1, <1>6, <2>1, <2>2 DEF JobIsFound
  <2>4. FirstValid(chain, CatchUpTarget(job.from), Head) = Record
          => FirstValid(chain', CatchUpTarget(job.from), Head') = Record'
    BY <1>6, <2>1, <2>2
  <2>. QED
    BY <1>1, <2>1, <2>3, <2>4 DEF JobIsFound
<1>. QED
  BY <1>2, <1>5, <1>7 DEF IInv

\* A job added is found from the target of its start.
LEMMA AddUpdateIInv ==
  ASSUME IInv, addUpdate
  PROVE  IInv'
<1>. DEFINE next == getNextSlot(job.to, chain, headSlot)
            target == IF WithinNextPeriod(job.to, headSlot) THEN HeadTarget(headSlot)
                                                            ELSE CatchUpTarget(job.to)
<1>1. ChainShape /\ JobShape /\ JobIsFound /\ chain' = chain
  BY DEF IInv, addUpdate
<1>2. /\ next # NotFound /\ job.to < next.slot
      /\ job' = [from |-> job.to, to |-> next.slot, signature |-> next.signature]
  BY DEF addUpdate
<1>3. job.to \in Nat /\ FirstSlot <= job.to
  BY <1>1 DEF JobShape
<1>4. target \in Nat /\ next = FirstValid(chain, target, headSlot)
  BY <1>1, <1>3, NextSlotIsFound
<1>5. /\ Head \in Nat /\ headSlot \in Nat /\ headSlot <= Head /\ FirstSlot \in Nat
      /\ IsChain(chain, Head) /\ IsChain(chain, headSlot)
  BY <1>1, HeadIsThere
<1>6. Head' = Head
  BY <1>1 DEF Head
<1>. HIDE DEF next, target
<1>7. /\ Valid(chain, target, headSlot) # {}
      /\ next = [slot |-> next.slot, signature |-> next.signature]
      /\ next.slot \in Nat /\ next.signature \in Nat
      /\ next.slot < next.signature /\ next.signature <= headSlot
      /\ Valid(chain, next.slot, headSlot) # {}
      /\ FirstValid(chain, next.slot, headSlot) = next
  BY <1>2, <1>4, <1>5, FoundIsValid
<1>8. FirstValid(chain, target, Head) = next /\ FirstValid(chain, next.slot, Head) = next
  BY <1>4, <1>5, <1>7, FoundStays
<1>9. job'.from = job.to /\ job'.to = next.slot /\ job'.signature = next.signature
  BY <1>2
<1>10. Record' = next
  BY <1>7, <1>9 DEF Record
<1>11. JobShape'
  BY <1>2, <1>3, <1>5, <1>6, <1>7 DEF JobShape
<1>12. \/ computeSyncCommitteePeriodAt(job'.signature) <= computeSyncCommitteePeriodAt(job'.from) + 1
       \/ FirstValid(chain', CatchUpTarget(job'.from), Head') = Record'
  <2>1. CASE WithinNextPeriod(job.to, headSlot)
    <3>1. computeSyncCommitteePeriodAt(next.signature) <= computeSyncCommitteePeriodAt(headSlot)
      BY <1>5, <1>7, BeaconSlotsAssumption, DivMono DEF computeSyncCommitteePeriodAt
    <3>2. /\ computeSyncCommitteePeriodAt(next.signature) \in Nat
          /\ computeSyncCommitteePeriodAt(headSlot) \in Nat
          /\ computeSyncCommitteePeriodAt(job.to) \in Nat
      BY <1>3, <1>5, <1>7, BeaconSlotsAssumption, Div DEF computeSyncCommitteePeriodAt
    <3>3. computeSyncCommitteePeriodAt(headSlot) <= computeSyncCommitteePeriodAt(job.to) + 1
      BY <2>1, <3>2 DEF WithinNextPeriod
    <3>. QED
      BY <1>9, <3>1, <3>2, <3>3
  <2>2. CASE ~WithinNextPeriod(job.to, headSlot)
    BY <2>2, <1>1, <1>6, <1>8, <1>9, <1>10 DEF target
  <2>. QED
    BY <2>1, <2>2
<1>13. FirstValid(chain', job'.to, Head') = Record'
  BY <1>1, <1>6, <1>8, <1>9, <1>10
<1>14. JobIsFound'
  BY <1>3, <1>9, <1>12, <1>13 DEF JobIsFound
<1>15. ChainShape'
  BY <1>1 DEF ChainShape
<1>. QED
  BY <1>11, <1>14, <1>15 DEF IInv

\* Every step of the chain and of askForUpdates preserves the invariant.
LEMMA StepIInv == IInv /\ [Next]_vars => IInv'
<1>. SUFFICES ASSUME IInv, [Next]_vars PROVE IInv'
  OBVIOUS
<1>1. ASSUME NEW kind \in BlockKind, NewSlot(kind) PROVE IInv'
  BY <1>1, NewSlotIInv
<1>2. CASE addUpdate
  BY <1>2, AddUpdateIInv
<1>3. CASE UNCHANGED vars
  BY <1>3 DEF vars, IInv, ChainShape, JobShape, JobIsFound, Record, Head
<1>. QED
  BY <1>1, <1>2, <1>3 DEF Next

\* Hence it always holds.
LEMMA SpecIInv == Spec => []IInv
  BY InitIInv, StepIInv, PTL DEF Spec

\* Chains and jobs have their types, and every update goes forward: the job
\* that addUpdate makes is between two slots of the chain.
THEOREM TypeCorrect == Spec => []TypeOK
<1>1. ASSUME IInv PROVE TypeOK
  <2>1. ChainShape /\ JobShape
    BY <1>1 DEF IInv
  <2>2. /\ Head \in FirstSlot .. LastSlot /\ LastSlot \in FirstSlot .. MaxSlot
        /\ chain \in [0 .. LastSlot -> BlockKind] /\ FirstSlot \in Nat /\ MaxSlot \in Nat
    BY <2>1, HeadIsThere, ScheduleAssumption
  <2>3. /\ job.from \in Int /\ job.to \in Nat /\ job.signature \in Int
        /\ -1 <= job.from /\ job.from < job.to /\ job.to <= Head
        /\ -1 <= job.signature /\ job.signature <= Head
        /\ job = [from |-> job.from, to |-> job.to, signature |-> job.signature]
    BY <2>1 DEF JobShape
  <2>4. job.from \in -1 .. LastSlot /\ job.to \in 0 .. LastSlot /\ job.signature \in -1 .. LastSlot
    BY <2>2, <2>3
  <2>. QED
    BY <2>2, <2>3, <2>4 DEF TypeOK
<1>. QED
  BY <1>1, SpecIInv, PTL

\* findClosestValidBlock, which goes from block to block, ends at the first
\* block from its start on that is valid by the definition.
THEOREM SearchGoesToFirst == Spec => []SearchIsExact
<1>1. ASSUME IInv PROVE SearchIsExact
  <2>. DEFINE target == HeadTarget(headSlot)
  <2>1. ChainShape
    BY <1>1 DEF IInv
  <2>2. headSlot \in Nat /\ IsChain(chain, headSlot)
    BY <2>1, HeadIsThere
  <2>3. target \in Nat
    BY <2>2, HeadTargetIsBehind
  <2>4. ValidBlocks(target, headSlot) = Valid(chain, target, headSlot)
    BY DEF ValidBlocks, Valid
  <2>. HIDE DEF target
  <2>5. findClosestValidBlock(target, chain, headSlot) = FirstValid(chain, target, headSlot)
    BY <2>2, <2>3, SearchFindsFirst
  <2>6. IF ValidBlocks(target, headSlot) = {}
        THEN findClosestValidBlock(target, chain, headSlot) = NotFound
        ELSE findClosestValidBlock(target, chain, headSlot).slot = Min(ValidBlocks(target, headSlot))
    BY <2>4, <2>5 DEF FirstValid
  <2>. QED
    BY <2>6 DEF SearchIsExact, target
<1>. QED
  BY <1>1, SpecIInv, PTL

\* getProofInput of the polling worker, which searches again with a later
\* head, finds the blocks that askForUpdates scheduled.
THEOREM PollingFindsScheduled == Spec => []PollFindsTheJob
<1>1. ASSUME IInv PROVE PollFindsTheJob
  <2>1. SUFFICES ASSUME job # NoJob
                 PROVE  findClosestValidBlock(job.to, chain, Head) = Record
    BY DEF PollFindsTheJob, Head, Record
  <2>2. IsChain(chain, Head)
    BY <1>1, HeadIsThere DEF IInv
  <2>3. job.to \in Nat /\ FirstValid(chain, job.to, Head) = Record
    BY <1>1, <2>1 DEF IInv, JobShape, JobIsFound
  <2>. QED
    BY <2>2, <2>3, SearchFindsFirst
<1>. QED
  BY <1>1, SpecIInv, PTL

\* The finalized header of a slot is not past it.
LEMMA FinalizedIsBefore ==
  ASSUME ChainShape, NEW slot \in Nat
  PROVE  FinalizedSlot(chain, slot) \in Nat /\ FinalizedSlot(chain, slot) <= slot
<1>. DEFINE epoch == slot \div SLOTS_PER_EPOCH
            checkpoint == IF epoch < 2 THEN 0 ELSE (epoch - 2) * SLOTS_PER_EPOCH
            B == BlocksBetween(chain, 0, checkpoint)
<1>1. SLOTS_PER_EPOCH \in Nat \ {0} /\ epoch \in Nat /\ slot % SLOTS_PER_EPOCH \in Nat
      /\ slot = epoch * SLOTS_PER_EPOCH + (slot % SLOTS_PER_EPOCH)
  BY BeaconSlotsAssumption, Div
<1>2. checkpoint \in Nat /\ checkpoint <= slot
  <2>. HIDE DEF epoch
  <2>1. CASE epoch < 2
    BY <2>1
  <2>2. CASE ~(epoch < 2)
    <3>1. epoch - 2 \in Nat /\ (epoch - 2) * SLOTS_PER_EPOCH \in Nat
      BY <1>1, <2>2
    <3>2. (epoch - 2) * SLOTS_PER_EPOCH <= epoch * SLOTS_PER_EPOCH /\ epoch * SLOTS_PER_EPOCH \in Nat
      BY <1>1, <3>1, TimesMono
    <3>. QED
      BY <1>1, <2>2, <3>1, <3>2
  <2>. QED
    BY <2>1, <2>2
<1>3. FinalizedSlot(chain, slot) = Max(B)
  BY DEF FinalizedSlot
<1>. HIDE DEF checkpoint
<1>4. 0 \in B
  <2>1. chain[0] = "strong"
    BY ScheduleAssumption DEF ChainShape
  <2>. QED
    BY <1>2, <2>1 DEF BlocksBetween
<1>5. B \subseteq Nat /\ \A s \in B : s <= checkpoint
  BY <1>2 DEF BlocksBetween
<1>6. Max(B) \in B
  BY <1>2, <1>4, <1>5, GreatestIsThere
<1>7. Max(B) \in Nat /\ Max(B) <= checkpoint
  BY <1>5, <1>6
<1>. QED
  BY <1>2, <1>3, <1>7

\* The circuit can prove every update getNextSlot chose, given that the
\* finalized header is in the period of the start, and that catching up stops
\* in the period after it.
THEOREM UpdatesAreProvable == Spec => []UpdatesArePeriodic
<1>1. ASSUME IInv PROVE UpdatesArePeriodic
  <2>. DEFINE Period(slot) == computeSyncCommitteePeriodAt(slot)
              start == FinalizedSlot(chain, job.from)
              stop == findClosestValidBlock(CatchUpTarget(job.from), chain, Head)
  <2>1. SUFFICES ASSUME job # NoJob, Period(start) = Period(job.from),
                        stop.signature < (Period(job.from) + 2) * SLOTS_PER_PERIOD
                 PROVE  CircuitAccepts(start, job.to, job.signature)
    BY DEF UpdatesArePeriodic, Provable, Head
  <2>2. ChainShape /\ JobShape /\ JobIsFound
    BY <1>1 DEF IInv
  <2>3. /\ job.from \in Nat /\ job.to \in Nat /\ job.from < job.to
        /\ FirstValid(chain, job.to, Head) = Record
    BY <2>1, <2>2 DEF JobShape, JobIsFound
  <2>4. IsChain(chain, Head)
    BY <2>2, HeadIsThere
  <2>5. Record # NotFound /\ Record.slot = job.to /\ Record.signature = job.signature
    BY <2>3 DEF Record, NotFound
  <2>6. job.signature \in Nat /\ job.to < job.signature
    BY <2>3, <2>4, <2>5, FoundIsValid
  <2>7. start \in Nat /\ start <= job.from
    BY <2>2, <2>3, FinalizedIsBefore
  <2>8. stop = FirstValid(chain, CatchUpTarget(job.from), Head)
    BY <2>3, <2>4, CatchUpIsAhead, SearchFindsFirst
  <2>. HIDE DEF start, stop
  <2>9. /\ Period(job.from) \in Nat /\ Period(start) \in Nat /\ Period(job.signature) \in Nat
        /\ SLOTS_PER_PERIOD \in Nat \ {0}
    BY <2>3, <2>6, <2>7, BeaconSlotsAssumption, Div DEF computeSyncCommitteePeriodAt
  <2>10. Period(job.signature) <= Period(job.from) + 1
    <3>1. CASE FirstValid(chain, CatchUpTarget(job.from), Head) = Record
      <4>1. job.signature < (Period(job.from) + 2) * SLOTS_PER_PERIOD
        BY <2>1, <2>5, <2>8, <3>1
      <4>. DEFINE k == Period(job.from) + 2
      <4>2. job.signature \div SLOTS_PER_PERIOD < k
        <5>1. k \in Nat /\ job.signature < k * SLOTS_PER_PERIOD
          BY <2>9, <4>1
        <5>. HIDE DEF k
        <5>. QED
          BY <2>6, <2>9, <5>1, DivLess
      <4>3. Period(job.signature) < Period(job.from) + 2
        BY <4>2 DEF computeSyncCommitteePeriodAt
      <4>. QED
        BY <2>9, <4>3
    <3>. QED
      BY <2>1, <2>2, <3>1 DEF JobIsFound
  <2>11. Period(start) <= Period(job.signature)
    <3>1. start <= job.signature
      BY <2>3, <2>6, <2>7
    <3>. QED
      BY <2>6, <2>7, <2>9, <3>1, DivMono DEF computeSyncCommitteePeriodAt
  <2>12. start < job.to
    BY <2>3, <2>7
  <2>. HIDE DEF Period
  <2>13. Period(start) + 1 >= Period(job.signature)
    BY <2>1, <2>9, <2>10
  <2>14. Period(start) = Period(job.signature) \/ Period(start) + 1 = Period(job.signature)
    BY <2>9, <2>11, <2>13
  <2>. QED
    BY <2>6, <2>12, <2>13, <2>14 DEF CircuitAccepts, CommitteePeriod, Period
<1>. QED
  BY <1>1, SpecIInv, PTL

\* slotsJump is an operator's setting.  With at most an epoch, or a number of
\* jumps that makes a period (64, as in README.md:175), a head past a period
\* has a multiple of slotsJump in that period's last epoch or after it.
JumpsReachPeriods ==
  slotsJump <= SLOTS_PER_EPOCH \/ SLOTS_PER_PERIOD % slotsJump = 0

\* The head's target is then not before the target of catching up.
LEMMA HeadTargetIsPastCatchUp ==
  ASSUME JumpsReachPeriods, NEW slot \in Nat, NEW H \in Nat, ~WithinNextPeriod(slot, H)
  PROVE  CatchUpTarget(slot) <= HeadTarget(H)
<1>. DEFINE p == computeSyncCommitteePeriodAt(slot)
            P == SLOTS_PER_PERIOD
            target == CatchUpTarget(slot)
<1>1. P \in Nat \ {0} /\ SLOTS_PER_EPOCH \in Nat \ {0} /\ slotsJump \in Nat \ {0}
  BY BeaconSlotsAssumption
<1>2. p \in Nat /\ target \in Nat /\ target = (p + 2) * P - SLOTS_PER_EPOCH
  BY CatchUpIsAhead
<1>3. HeadTarget(H) \in Nat /\ H < HeadTarget(H) + slotsJump
  BY HeadTargetIsBehind
<1>4. H \div P \in Nat /\ H % P \in Nat /\ H = (H \div P) * P + (H % P) /\ p + 1 < H \div P
  BY <1>1, <1>2, Div DEF WithinNextPeriod, computeSyncCommitteePeriodAt
<1>5. (p + 2) * P <= H /\ (p + 2) * P \in Nat
  <2>. HIDE DEF p, P
  <2>1. (p + 2) * P <= (H \div P) * P /\ (p + 2) * P \in Nat /\ (H \div P) * P \in Nat
    BY <1>1, <1>2, <1>4, TimesMono
  <2>. QED
    BY <1>4, <2>1
<1>. HIDE DEF p, P, target
<1>6. CASE slotsJump <= SLOTS_PER_EPOCH
  BY <1>1, <1>2, <1>3, <1>5, <1>6 DEF target
<1>7. CASE SLOTS_PER_PERIOD % slotsJump = 0
  <2>. DEFINE k == P \div slotsJump
              m == (p + 2) * k
  <2>1. k \in Nat /\ P = k * slotsJump
    <3>1. P \in Nat /\ P % slotsJump = 0
      BY <1>1, <1>7 DEF P
    <3>2. k \in Nat /\ P = k * slotsJump + (P % slotsJump)
      BY <1>1, <3>1, Div
    <3>. HIDE DEF k
    <3>3. k * slotsJump \in Nat
      BY <1>1, <3>2
    <3>. QED
      BY <3>1, <3>2, <3>3
  <2>. HIDE DEF k
  <2>2. m \in Nat /\ (p + 2) * P = m * slotsJump
    <3>1. (p + 2) * (k * slotsJump) = ((p + 2) * k) * slotsJump
      BY <1>1, <1>2, <2>1
    <3>. QED
      BY <1>1, <1>2, <2>1, <3>1
  <2>. HIDE DEF m
  <2>3. H \div slotsJump \in Nat /\ H % slotsJump \in 0 .. slotsJump - 1
        /\ H = (H \div slotsJump) * slotsJump + (H % slotsJump)
    BY <1>1, Div
  <2>4. m <= H \div slotsJump
    <3>1. SUFFICES ASSUME H \div slotsJump + 1 <= m PROVE FALSE
      BY <2>2, <2>3
    <3>2. (H \div slotsJump + 1) * slotsJump <= m * slotsJump
      BY <1>1, <2>2, <2>3, <3>1, TimesMono
    <3>3. (H \div slotsJump + 1) * slotsJump = (H \div slotsJump) * slotsJump + slotsJump
          /\ (H \div slotsJump) * slotsJump \in Nat /\ m * slotsJump \in Nat
      BY <1>1, <2>2, <2>3
    <3>. QED
      BY <1>1, <1>5, <2>2, <2>3, <3>2, <3>3
  <2>5. m * slotsJump <= (H \div slotsJump) * slotsJump
    BY <1>1, <2>2, <2>3, <2>4, TimesMono
  <2>6. HeadTarget(H) = (H \div slotsJump) * slotsJump
    <3>1. (H \div slotsJump) * slotsJump \in Nat
      BY <1>1, <2>3
    <3>. QED
      BY <1>1, <2>3, <3>1 DEF HeadTarget
  <2>. QED
    BY <1>1, <1>2, <1>3, <1>5, <2>2, <2>5, <2>6 DEF target
<1>. QED
  BY <1>6, <1>7, BeaconSlotsAssumption DEF JumpsReachPeriods, target

\* askForUpdates pauses only when the updates have reached the last multiple
\* of slotsJump that has a valid block: catching up never gets stuck.
THEOREM ScheduleReachesHead == JumpsReachPeriods => (Spec => []NothingToAddOnlyAtHead)
<1>. SUFFICES ASSUME JumpsReachPeriods PROVE Spec => []NothingToAddOnlyAtHead
  OBVIOUS
<1>1. ASSUME IInv PROVE NothingToAddOnlyAtHead
  <2>. DEFINE next == getNextSlot(job.to, chain, headSlot)
              last == findClosestValidBlock(HeadTarget(headSlot), chain, headSlot)
              back == CatchUpTarget(job.to)
              front == HeadTarget(headSlot)
  <2>1. SUFFICES ASSUME next = NotFound \/ next.slot <= job.to
                 PROVE  last = NotFound \/ last.slot <= job.to
    BY DEF NothingToAddOnlyAtHead
  <2>2. ChainShape /\ job.to \in Nat
    BY <1>1 DEF IInv, JobShape
  <2>3. headSlot \in Nat /\ IsChain(chain, headSlot)
    BY <2>2, HeadIsThere
  <2>4. CASE WithinNextPeriod(job.to, headSlot)
    BY <2>1, <2>4 DEF getNextSlot
  <2>5. CASE ~WithinNextPeriod(job.to, headSlot)
    <3>1. back \in Nat /\ job.to < back /\ front \in Nat /\ back <= front
      BY <2>2, <2>3, <2>5, CatchUpIsAhead, HeadTargetIsBehind, HeadTargetIsPastCatchUp
    <3>2. next = findClosestValidBlock(back, chain, headSlot)
      BY <2>5 DEF getNextSlot
    <3>. HIDE DEF back, front
    <3>3. next = FirstValid(chain, back, headSlot)
      BY <2>3, <3>1, <3>2, SearchFindsFirst
    <3>4. next = NotFound
      <4>1. SUFFICES ASSUME next # NotFound PROVE FALSE
        OBVIOUS
      <4>2. next.slot \in Nat /\ back <= next.slot
        BY <2>3, <3>1, <3>3, <4>1, FoundIsValid
      <4>. QED
        BY <2>1, <2>2, <3>1, <4>1, <4>2
    <3>5. Valid(chain, back, headSlot) = {}
      <4>1. SUFFICES ASSUME Valid(chain, back, headSlot) # {} PROVE FALSE
        OBVIOUS
      <4>2. next = [slot |-> Min(Valid(chain, back, headSlot)),
                    signature |-> Carrier(chain, Min(Valid(chain, back, headSlot)), headSlot)]
        BY <3>3, <4>1 DEF FirstValid
      <4>3. \A h \in Valid(chain, back, headSlot) : h \in Nat
        BY <2>3, <3>1, ValidAre, BlocksAre
      <4>4. Min(Valid(chain, back, headSlot)) \in Nat
        BY <4>1, <4>3, LeastIsThere
      <4>. QED
        BY <3>4, <4>2, <4>4 DEF NotFound
    <3>6. Valid(chain, front, headSlot) = {}
      <4>1. ASSUME NEW h \in Valid(chain, front, headSlot) PROVE h \in Valid(chain, back, headSlot)
        <5>1. h \in BlocksBetween(chain, front, headSlot)
          BY <2>3, <3>1, ValidAre
        <5>2. h \in BlocksBetween(chain, back, headSlot)
          BY <5>1, <2>3, <3>1 DEF BlocksBetween
        <5>. QED
          BY <2>3, <3>1, <4>1, <5>2, ValidAre
      <4>. QED
        BY <3>5, <4>1
    <3>7. findClosestValidBlock(front, chain, headSlot) = NotFound
      BY <2>3, <3>1, <3>6, SearchFindsFirst DEF FirstValid
    <3>. QED
      BY <3>7 DEF front
  <2>. QED
    BY <2>4, <2>5
<1>. QED
  BY <1>1, SpecIInv, PTL
=============================================================================
