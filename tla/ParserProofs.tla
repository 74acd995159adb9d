----------------------------- MODULE ParserProofs -----------------------------
(***************************************************************************)
(* For every text and any number of functions: the levels of every parser  *)
(* count the loops and functions it is in, whatever was thrown and caught; *)
(* the parser of a block that met no error reads the block and no further. *)
(***************************************************************************)
EXTENDS Parser, Integers, FiniteSetTheorems, FunctionTheorems, SequenceTheorems,
        WellFoundedInduction, TLAPS

-----------------------------------------------------------------------------
(* What is raised and what is lowered, in a pile f of n items.             *)

\* statement() is at work, or has failed.
Holds(x) == x \in {"catch statement", "report"}

\* A level is raised above the statement it is lowered behind, and statement()
\* catches what is thrown in between.
PairedAt(f, n, k, up, down) ==
  /\ f[k] = up => k >= 3 /\ f[k - 1] = "statement" /\ f[k - 2] = down
  /\ f[k] = down =>
       \/ k = n
       \/ k < n /\ Holds(f[k + 1])
       \/ k < n /\ f[k + 1] = "statement" /\ (k + 1 = n \/ (k + 1 < n /\ f[k + 2] = up))

Paired(f, n, up, down) == \A k \in 1 .. n : PairedAt(f, n, k, up, down)

\* Where a level that has been raised will be lowered.
OpenAt(f, n, k, up, down) == f[k] = down /\ ~(k + 1 < n /\ f[k + 2] = up)
Open(f, n, up, down) == {k \in 1 .. n : OpenAt(f, n, k, up, down)}

Counter(up, down) ==
  /\ up # down /\ up # "statement" /\ down # "statement"
  /\ ~Holds(up) /\ ~Holds(down) /\ up \notin Handler /\ down \notin Handler

LEMMA HoldsOnly ==
  /\ ~Holds("statement")
  /\ \A x : Holds(x) => x \in Handler \/ x = "report"
BY DEF Holds, Handler

Agree(f, g, n) == \A k \in 1 .. n : f[k] = g[k]

\* What lies deep in both piles.
LEMMA Deep ==
  ASSUME NEW f, NEW g, NEW m \in Nat, NEW n \in Nat, NEW c \in Nat, c <= m, c <= n, Agree(f, g, c),
         NEW up, NEW down, NEW k \in 1 .. c, k + 1 < c
  PROVE  /\ PairedAt(f, m, k, up, down) => PairedAt(g, n, k, up, down)
         /\ OpenAt(f, m, k, up, down) <=> OpenAt(g, n, k, up, down)
<1>1. f[k] = g[k]
  BY DEF Agree
<1>2. f[k + 1] = g[k + 1]
  <2>1. k + 1 \in 1 .. c
    OBVIOUS
  <2> QED BY <2>1 DEF Agree
<1>3. f[k + 2] = g[k + 2]
  <2>1. k + 2 \in 1 .. c
    OBVIOUS
  <2> QED BY <2>1 DEF Agree
<1>4. k >= 3 => f[k - 1] = g[k - 1] /\ f[k - 2] = g[k - 2]
  <2> HAVE k >= 3
  <2>1. k - 1 \in 1 .. c /\ k - 2 \in 1 .. c
    OBVIOUS
  <2> QED BY <2>1 DEF Agree
<1>5. k # m /\ k < n /\ k + 1 # m /\ k + 1 < n /\ k + 1 < m
  OBVIOUS
<1> QED BY ONLY <1>1, <1>2, <1>3, <1>4, <1>5 DEF PairedAt, OpenAt

\* What is raised is seen from below.
LEMMA UpAt ==
  ASSUME NEW f, NEW g, NEW m \in Nat, NEW n \in Nat, NEW c \in Nat, c <= m, c <= n, Agree(f, g, c),
         NEW up, NEW down, NEW k \in 1 .. c, PairedAt(f, m, k, up, down)
  PROVE  g[k] = f[k] /\ (g[k] = up => k >= 3 /\ g[k - 1] = "statement" /\ g[k - 2] = down)
<1>1. f[k] = g[k]
  BY DEF Agree
<1>4. k >= 3 => f[k - 1] = g[k - 1] /\ f[k - 2] = g[k - 2]
  <2> HAVE k >= 3
  <2>1. k - 1 \in 1 .. c /\ k - 2 \in 1 .. c
    OBVIOUS
  <2> QED BY <2>1 DEF Agree
<1> QED BY ONLY <1>1, <1>4, PairedAt(f, m, k, up, down) DEF PairedAt

\* 
LEMMA Cut ==
  ASSUME NEW f, NEW g, NEW n \in Nat, NEW c \in Nat, c <= n, Agree(f, g, c),
         NEW up, NEW down, Counter(up, down), Paired(f, n, up, down)
  PROVE  Paired(g, c, up, down)
<1> SUFFICES ASSUME NEW k \in 1 .. c PROVE PairedAt(g, c, k, up, down)
  BY DEF Paired
<1>1. PairedAt(f, n, k, up, down) /\ k \in 1 .. n
  BY DEF Paired
<1>2. g[k] = f[k] /\ (g[k] = up => k >= 3 /\ g[k - 1] = "statement" /\ g[k - 2] = down)
  BY <1>1, UpAt
<1>3. CASE k + 1 < c
  BY <1>1, <1>3, Deep
<1>4. CASE k = c
  BY <1>2, <1>4 DEF PairedAt
<1>5. CASE k + 1 = c
  <2>1. k + 1 \in 1 .. c /\ k < c /\ k < n /\ k # n
    BY <1>5
  <2>2. f[k + 1] = g[k + 1]
    BY <2>1 DEF Agree
  <2> QED BY <2>1, <2>2, <1>1, <1>2, <1>5 DEF PairedAt
<1> QED BY <1>3, <1>4, <1>5

\* Nothing rests on the item on top.
Free(f, n, down) ==
  n > 0 => f[n] # down /\ (n > 1 => ~(f[n] = "statement" /\ f[n - 1] = down))

\* Nothing but the two items on top see what is put on them.
LEMMA Push ==
  ASSUME NEW f, NEW g, NEW m \in Nat, NEW n \in Nat, m <= n, Agree(f, g, m),
         NEW up, NEW down, Counter(up, down), Paired(f, m, up, down), Free(f, m, down),
         \A k \in m + 1 .. n : PairedAt(g, n, k, up, down) /\ ~OpenAt(g, n, k, up, down)
  PROVE  Paired(g, n, up, down) /\ Open(g, n, up, down) = Open(f, m, up, down)
<1>1. ASSUME NEW k \in 1 .. m
      PROVE  /\ PairedAt(g, n, k, up, down)
             /\ OpenAt(f, m, k, up, down) <=> OpenAt(g, n, k, up, down)
  <2>1. PairedAt(f, m, k, up, down)
    BY DEF Paired
  <2>2. g[k] = f[k] /\ (g[k] = up => k >= 3 /\ g[k - 1] = "statement" /\ g[k - 2] = down)
    BY <2>1, UpAt
  <2>3. CASE k + 1 < m
    BY <2>1, <2>3, Deep
  <2>4. CASE k = m
    <3>1. f[k] # down
      BY <2>4 DEF Free
    <3> QED BY <3>1, <2>2 DEF PairedAt, OpenAt
  <2>5. CASE k + 1 = m
    <3>1. k + 1 \in 1 .. m /\ k < n /\ k < m /\ m > 1 /\ k = m - 1 /\ k # m
      BY <2>5
    <3>2. f[k + 1] = g[k + 1]
      BY <3>1 DEF Agree
    <3>3. f[k] = down => f[k + 1] # "statement"
      BY <3>1, <2>5 DEF Free
    <3>4. f[k] = down => Holds(f[k + 1])
      BY <3>1, <3>3, <2>1 DEF PairedAt
    <3>5. PairedAt(g, n, k, up, down)
      BY <3>1, <3>2, <3>4, <2>2 DEF PairedAt
    <3>6. ASSUME f[k] = down, k + 1 < n PROVE g[k + 2] # up
      <4>1. PICK j \in m + 1 .. n : j = k + 2
        BY <3>1, <3>6, <2>5
      <4>2. PairedAt(g, n, j, up, down) /\ j - 1 = k + 1
        BY <4>1
      <4>3. g[j] = up => g[k + 1] = "statement"
        BY <4>2 DEF PairedAt
      <4> QED BY <4>1, <4>3, <3>2, <3>3, <3>6
    <3>7. ~(k + 1 < m /\ f[k + 2] = up)
      BY <2>5
    <3> QED BY <3>5, <3>6, <3>7, <2>2 DEF OpenAt
  <2> QED BY <2>3, <2>4, <2>5
<1>2. \A k \in 1 .. n : k \in 1 .. m \/ k \in m + 1 .. n
  OBVIOUS
<1>3. 1 .. m \subseteq 1 .. n
  OBVIOUS
<1>4. Paired(g, n, up, down)
  BY <1>1, <1>2 DEF Paired
<1>5. Open(g, n, up, down) = Open(f, m, up, down)
  BY <1>1, <1>2, <1>3 DEF Open
<1> QED BY <1>4, <1>5

\* The items of most rows.
LEMMA Plain ==
  ASSUME NEW g, NEW n \in Nat, NEW k \in Nat, NEW up, NEW down, g[k] # up, g[k] # down
  PROVE  PairedAt(g, n, k, up, down) /\ ~OpenAt(g, n, k, up, down)
BY DEF PairedAt, OpenAt

\* A statement that is counted.
LEMMA Raised ==
  ASSUME NEW f, NEW g, NEW m \in Nat, Agree(f, g, m),
         NEW up, NEW down, Counter(up, down), Paired(f, m, up, down), Free(f, m, down),
         g[m + 1] = down, g[m + 2] = "statement", g[m + 3] = up
  PROVE  /\ Paired(g, m + 3, up, down) /\ Open(g, m + 3, up, down) = Open(f, m, up, down)
         /\ Free(g, m + 3, down)
<1> DEFINE n == m + 3
<1>1. ASSUME NEW k \in Nat, k = m + 1
      PROVE  PairedAt(g, n, k, up, down) /\ ~OpenAt(g, n, k, up, down)
  <2>1. k < n /\ k + 1 < n /\ k + 1 = m + 2 /\ k + 2 = m + 3
    BY <1>1
  <2> HIDE DEF n
  <2> QED BY <2>1, <1>1 DEF PairedAt, OpenAt, Counter
<1>2. ASSUME NEW k \in Nat, k = m + 2
      PROVE  PairedAt(g, n, k, up, down) /\ ~OpenAt(g, n, k, up, down)
  <2> HIDE DEF n
  <2> QED BY <1>2 DEF PairedAt, OpenAt, Counter
<1>3. ASSUME NEW k \in Nat, k = m + 3
      PROVE  PairedAt(g, n, k, up, down) /\ ~OpenAt(g, n, k, up, down)
  <2>1. k >= 3 /\ k - 1 = m + 2 /\ k - 2 = m + 1
    BY <1>3
  <2> HIDE DEF n
  <2> QED BY <2>1, <1>3 DEF PairedAt, OpenAt, Counter
<1>4. \A k \in m + 1 .. n : k \in Nat /\ (k = m + 1 \/ k = m + 2 \/ k = m + 3)
  OBVIOUS
<1>5. n \in Nat /\ m <= n
  OBVIOUS
<1>6. Free(g, n, down)
  BY DEF Free, Counter
<1> HIDE DEF n
<1>7. \A k \in m + 1 .. n : PairedAt(g, n, k, up, down) /\ ~OpenAt(g, n, k, up, down)
  BY <1>1, <1>2, <1>3, <1>4
<1> QED BY <1>5, <1>6, <1>7, Push DEF n

\* No level that is open above c, and none below it that is paired with the rest.
Apart(f, n, c, up, down) ==
  /\ f[c + 1] # up /\ (c + 1 < n => f[c + 2] # up)
  /\ \A k \in 1 .. n : OpenAt(f, n, k, up, down) => k \in 1 .. c

\* What statement() and the handlers put in place of what is on top.
LEMMA Cover ==
  ASSUME NEW f, NEW g, NEW m \in Nat, NEW n \in Nat, NEW c \in Nat, c < m, c < n, Agree(f, g, c),
         NEW up, NEW down, Counter(up, down), Paired(f, m, up, down),
         Apart(f, m, c, up, down), Holds(g[c + 1]),
         \A k \in c + 1 .. n : g[k] # up /\ g[k] # down
  PROVE  Paired(g, n, up, down) /\ Open(g, n, up, down) = Open(f, m, up, down)
<1>1. ASSUME NEW k \in 1 .. c
      PROVE  /\ PairedAt(g, n, k, up, down)
             /\ OpenAt(f, m, k, up, down) <=> OpenAt(g, n, k, up, down)
  <2>1. PairedAt(f, m, k, up, down) /\ k \in 1 .. m
    BY DEF Paired
  <2>2. g[k] = f[k] /\ (g[k] = up => k >= 3 /\ g[k - 1] = "statement" /\ g[k - 2] = down)
    BY <2>1, UpAt
  <2>3. CASE k + 1 < c
    BY <2>1, <2>3, Deep
  <2>4. CASE k = c
    <3>1. ~(k + 1 < n /\ g[k + 2] = up)
      <4> SUFFICES ASSUME k + 1 < n PROVE g[k + 2] # up
        OBVIOUS
      <4>1. PICK j \in c + 1 .. n : j = k + 2
        BY <2>4
      <4> QED BY <4>1
    <3>2. ~(k + 1 < m /\ f[k + 2] = up)
      BY <2>4 DEF Apart
    <3> QED BY <3>1, <3>2, <2>2, <2>4 DEF PairedAt, OpenAt
  <2>5. CASE k + 1 = c
    <3>1. k + 1 \in 1 .. c /\ k < n /\ k < m /\ k # m /\ k + 1 # m /\ k + 2 = c + 1
      BY <2>5
    <3>2. f[k + 1] = g[k + 1]
      BY <3>1 DEF Agree
    <3>3. f[k + 2] # up /\ g[k + 2] # up
      <4>1. c + 1 \in c + 1 .. n
        OBVIOUS
      <4>2. f[c + 1] # up
        BY DEF Apart
      <4> QED BY <3>1, <4>1, <4>2
    <3> QED BY <3>1, <3>2, <3>3, <2>1, <2>2 DEF PairedAt, OpenAt
  <2> QED BY <2>3, <2>4, <2>5
<1>2. ASSUME NEW k \in c + 1 .. n
      PROVE  PairedAt(g, n, k, up, down) /\ ~OpenAt(g, n, k, up, down)
  BY Plain
<1>3. \A k \in 1 .. n : k \in 1 .. c \/ k \in c + 1 .. n
  OBVIOUS
<1>4. 1 .. c \subseteq 1 .. n /\ 1 .. c \subseteq 1 .. m
  OBVIOUS
<1>5. Paired(g, n, up, down)
  BY <1>1, <1>2, <1>3 DEF Paired
<1>7. Open(g, n, up, down) = Open(f, m, up, down)
  BY <1>1, <1>2, <1>3, <1>4 DEF Open, Apart
<1> QED BY <1>5, <1>7

\* What is dropped down to a handler is not counted.
LEMMA Dropped ==
  ASSUME NEW f, NEW n \in Nat, NEW c \in Nat, c < n,
         NEW up, NEW down, Counter(up, down), Paired(f, n, up, down),
         f[c + 1] \in Handler, \A k \in 1 .. n : k > c + 1 => f[k] \notin Handler,
         \A k \in 1 .. n : f[k] # "report", f[n] # down, f[n] # "statement"
  PROVE  Apart(f, n, c, up, down)
<1>1. ASSUME c + 1 < n PROVE f[c + 2] # up
  <2>1. PICK j \in 1 .. n : j = c + 2
    BY <1>1
  <2>2. PairedAt(f, n, j, up, down) /\ j - 1 = c + 1
    BY <2>1 DEF Paired
  <2>3. "statement" \notin Handler
    BY DEF Handler
  <2> QED BY <2>1, <2>2, <2>3 DEF PairedAt
<1>2. ASSUME NEW k \in 1 .. n, OpenAt(f, n, k, up, down) PROVE k \in 1 .. c
  <2>1. PairedAt(f, n, k, up, down) /\ f[k] = down
    BY <1>2 DEF Paired, OpenAt
  <2>2. k # n /\ k # c + 1
    BY <2>1 DEF Counter
  <2>3. f[k + 1] \in Handler
    <3>1. k + 1 \in 1 .. n
      BY <2>2
    <3>2. f[k + 1] # "report" /\ (k + 1 = n => f[k + 1] # "statement")
      BY <3>1
    <3>3. Holds(f[k + 1])
      BY <1>2, <2>1, <2>2, <3>2 DEF PairedAt, OpenAt
    <3> QED BY <3>2, <3>3, HoldsOnly
  <2>4. ~(k > c)
    <3> SUFFICES ASSUME k > c PROVE FALSE
      OBVIOUS
    <3>1. PICK j \in 1 .. n : j = k + 1 /\ j > c + 1
      BY <2>2
    <3> QED BY <3>1, <2>3
  <2> QED BY <2>4
<1> QED BY <1>1, <1>2 DEF Counter, Apart

\* An item on top is taken away.
LEMMA Pop ==
  ASSUME NEW f, NEW g, NEW m \in Nat, NEW n \in Nat, n = m + 1, Agree(f, g, m),
         NEW up, NEW down, Counter(up, down), Paired(f, n, up, down)
  PROVE  /\ f[n] # up /\ f[n] # down => Open(g, m, up, down) = Open(f, n, up, down)
         /\ f[n] = up => /\ Open(g, m, up, down) = Open(f, n, up, down) \cup {n - 2}
                         /\ n - 2 \notin Open(f, n, up, down)
         /\ f[n] = down => /\ Open(g, m, up, down) = Open(f, n, up, down) \ {n}
                           /\ n \in Open(f, n, up, down)
<1>1. ASSUME NEW k \in 1 .. m
      PROVE  /\ k # n /\ k \in 1 .. n
             /\ k # n - 2 => (OpenAt(g, m, k, up, down) <=> OpenAt(f, n, k, up, down))
  <2>1. f[k] = g[k]
    BY DEF Agree
  <2>2. CASE k + 1 < m
    BY <2>2, Deep
  <2>3. CASE k = m
    BY <2>1, <2>3 DEF OpenAt
  <2>4. CASE k + 1 = m
    BY <2>4
  <2> QED BY <2>2, <2>3, <2>4
<1>2. ASSUME n - 2 \in 1 .. m
      PROVE  /\ OpenAt(g, m, n - 2, up, down) <=> f[n - 2] = down
             /\ OpenAt(f, n, n - 2, up, down) <=> f[n - 2] = down /\ f[n] # up
  <2>1. PICK k \in 1 .. m : k = n - 2 /\ k + 1 = m /\ k + 2 = n /\ k + 1 < n
    BY <1>2
  <2>2. f[k] = g[k]
    BY DEF Agree
  <2> QED BY <2>1, <2>2 DEF OpenAt
<1>3. n \in 1 .. n /\ n \notin 1 .. m /\ \A k \in 1 .. n : k \in 1 .. m \/ k = n
  OBVIOUS
<1>4. OpenAt(f, n, n, up, down) <=> f[n] = down
  BY DEF OpenAt
<1>5. ASSUME f[n] # up, f[n] # down PROVE Open(g, m, up, down) = Open(f, n, up, down)
  BY <1>1, <1>2, <1>3, <1>4, <1>5 DEF Open
<1>6. ASSUME f[n] = up
      PROVE  /\ Open(g, m, up, down) = Open(f, n, up, down) \cup {n - 2}
             /\ n - 2 \notin Open(f, n, up, down)
  <2>1. n - 2 \in 1 .. m /\ f[n - 2] = down
    BY <1>3, <1>6 DEF Paired, PairedAt
  <2>2. n - 2 # n
    OBVIOUS
  <2>3. f[n] # down
    BY <1>6 DEF Counter
  <2> QED BY <1>1, <1>2, <1>3, <1>4, <1>6, <2>1, <2>2, <2>3 DEF Open
<1>7. ASSUME f[n] = down
      PROVE  /\ Open(g, m, up, down) = Open(f, n, up, down) \ {n}
             /\ n \in Open(f, n, up, down)
  <2>1. f[n] # up
    BY <1>7 DEF Counter
  <2> QED BY <1>1, <1>2, <1>3, <1>4, <1>7, <2>1 DEF Open
<1> QED BY <1>5, <1>6, <1>7

\* Levels that were raised are levels to be lowered.
LEMMA Counted ==
  ASSUME NEW f, NEW n \in Nat, NEW up, NEW down, Counter(up, down), Paired(f, n, up, down)
  PROVE  /\ Cardinality(Open(f, n, up, down)) \in Nat
         /\ Cardinality(Open(f, n, up, down)) + Cardinality({k \in 1 .. n : f[k] = up})
              = Cardinality({k \in 1 .. n : f[k] = down})
<1> DEFINE U == {k \in 1 .. n : f[k] = up}
           D == {k \in 1 .. n : f[k] = down}
           O == Open(f, n, up, down)
           V == D \ O
           h == [k \in U |-> k - 2]
<1>1. IsFiniteSet(1 .. n)
  BY FS_Interval
<1>2. U \in SUBSET (1 .. n) /\ D \in SUBSET (1 .. n) /\ O \in SUBSET D
  BY DEF Open, OpenAt
<1>3. V = {k \in 1 .. n : f[k] = down /\ k + 1 < n /\ f[k + 2] = up}
  BY DEF Open, OpenAt
<1>4. h \in Bijection(U, V)
  <2>1. ASSUME NEW k \in U PROVE k - 2 \in V
    <3>1. k >= 3 /\ f[k - 2] = down
      BY DEF Paired, PairedAt
    <3>2. PICK j \in 1 .. n : j = k - 2 /\ j + 1 < n /\ j + 2 = k
      BY <3>1
    <3> QED BY <3>1, <3>2, <1>3
  <2>2. ASSUME NEW k \in V PROVE \E j \in U : h[j] = k
    <3>1. k \in 1 .. n /\ k + 1 < n /\ f[k + 2] = up
      BY <1>3
    <3>2. PICK j \in 1 .. n : j = k + 2 /\ j - 2 = k
      BY <3>1
    <3> QED BY <3>1, <3>2
  <2>3. h \in [U -> V]
    BY <2>1
  <2>4. \A a, b \in U : h[a] = h[b] => a = b
    OBVIOUS
  <2> HIDE DEF h, U, V
  <2> QED BY <2>2, <2>3, <2>4, Fun_IsBij
<1> HIDE DEF U, D, O, h
<1>5. IsFiniteSet(U) /\ IsFiniteSet(D) /\ IsFiniteSet(O)
  BY <1>1, <1>2, FS_Subset
<1>6. Cardinality(V) = Cardinality(U)
  BY <1>4, <1>5, FS_Bijection DEF ExistsBijection
<1>7. /\ Cardinality(U) \in Nat /\ Cardinality(D) \in Nat /\ Cardinality(O) \in Nat
      /\ Cardinality(V) = Cardinality(D) - Cardinality(D \cap O)
  BY <1>5, FS_CardinalityType, FS_Difference
<1>8. Cardinality(D \cap O) = Cardinality(O)
  <2>1. D \cap O = O
    BY <1>2
  <2> QED BY <2>1
<1> HIDE DEF V
<1>9. Cardinality(O) + Cardinality(U) = Cardinality(D)
  <2>1. \A a, b, d \in Nat : a = b - d => d + a = b
    OBVIOUS
  <2> QED BY <2>1, <1>6, <1>7, <1>8
<1> QED BY <1>7, <1>9 DEF U, D, O

-----------------------------------------------------------------------------
(* Stacks as piles: what is pushed on top moves nothing.                   *)

Pile(s) == [k \in 1 .. Len(s) |-> s[Len(s) + 1 - k]]

\* Indices from the top and from the bottom.
LEMMA Turned ==
  /\ \A n \in Nat : \A k \in 1 .. n : \E j \in 1 .. n : j = n + 1 - k /\ k = n + 1 - j
  /\ \A i, m, n \in Nat : \A k \in 1 .. m : n = m + i =>
       k \in 1 .. n /\ m + 1 - k \in 1 .. n - i /\ i + 1 + (m + 1 - k) - 1 = n + 1 - k
OBVIOUS

LEMMA TailPile ==
  ASSUME NEW S, NEW s \in Seq(S), s # <<>>
  PROVE  /\ Tail(s) \in Seq(S) /\ Len(Tail(s)) \in Nat
         /\ Len(s) \in Nat /\ Len(s) = Len(Tail(s)) + 1
         /\ Agree(Pile(s), Pile(Tail(s)), Len(Tail(s)))
         /\ Pile(s)[Len(s)] = Head(s) /\ Head(s) \in S
<1>1. /\ Tail(s) \in Seq(S) /\ Len(Tail(s)) = Len(s) - 1 /\ Len(s) \in Nat \ {0}
      /\ \A i \in 1 .. Len(Tail(s)) : Tail(s)[i] = s[i + 1]
      /\ Head(s) \in S /\ Head(s) = s[1]
  BY HeadTailProperties, EmptySeq
<1>2. ASSUME NEW k \in 1 .. Len(Tail(s)) PROVE Pile(s)[k] = Pile(Tail(s))[k]
  <2>1. Len(s) - k \in 1 .. Len(Tail(s)) /\ Len(s) - k + 1 = Len(s) + 1 - k
        /\ Len(Tail(s)) + 1 - k = Len(s) - k
    BY <1>1
  <2>2. Tail(s)[Len(s) - k] = s[Len(s) + 1 - k]
    BY <1>1, <2>1
  <2> QED BY <1>1, <2>1, <2>2 DEF Pile
<1>3. Pile(s)[Len(s)] = s[1]
  <2>1. Len(s) \in 1 .. Len(s) /\ Len(s) + 1 - Len(s) = 1
    BY <1>1
  <2> QED BY <2>1 DEF Pile
<1>4. Len(Tail(s)) \in Nat /\ Len(s) = Len(Tail(s)) + 1
  BY <1>1
<1> QED BY <1>1, <1>2, <1>3, <1>4 DEF Agree

LEMMA SubSeqPile ==
  ASSUME NEW S, NEW s \in Seq(S), NEW i \in 1 .. Len(s)
  PROVE  LET t == SubSeq(s, i + 1, Len(s))
         IN  t \in Seq(S) /\ Len(t) = Len(s) - i /\ Agree(Pile(s), Pile(t), Len(t))
<1> DEFINE t == SubSeq(s, i + 1, Len(s))
<1>1. \A j \in i + 1 .. Len(s) : s[j] \in S
  BY ElementOfSeq
<1>2. Len(s) \in Nat /\ i + 1 \in Int /\ Len(s) \in Int
  OBVIOUS
<1>3. /\ t \in Seq(S) /\ Len(t) = IF i + 1 <= Len(s) THEN Len(s) - (i + 1) + 1 ELSE 0
      /\ \A j \in 1 .. Len(s) - (i + 1) + 1 : t[j] = s[i + 1 + j - 1]
  BY <1>1, <1>2, SubSeqProperties
<1> HIDE DEF t
<1>4. Len(t) = Len(s) - i /\ Len(s) - (i + 1) + 1 = Len(s) - i
  BY <1>2, <1>3
<1>5. ASSUME NEW k \in 1 .. Len(t) PROVE Pile(s)[k] = Pile(t)[k]
  <2> DEFINE j == Len(t) + 1 - k
  <2>1. i \in Nat /\ Len(t) \in Nat /\ Len(s) \in Nat /\ Len(s) = Len(t) + i
    BY <1>2, <1>4
  <2>2. k \in 1 .. Len(s) /\ j \in 1 .. Len(s) - i /\ i + 1 + j - 1 = Len(s) + 1 - k
    BY <2>1, Turned
  <2> HIDE DEF j
  <2>3. t[j] = s[Len(s) + 1 - k]
    BY <1>3, <1>4, <2>2
  <2> QED BY <2>2, <2>3 DEF Pile, j
<1> QED BY <1>3, <1>4, <1>5 DEF Agree, t

LEMMA PushPile ==
  ASSUME NEW S, NEW s \in Seq(S), NEW r \in Seq(S)
  PROVE  LET t == r \o s
         IN  /\ t \in Seq(S) /\ Len(t) = Len(r) + Len(s)
             /\ Len(s) \in Nat /\ Len(r) \in Nat /\ Len(t) \in Nat /\ Len(s) <= Len(t)
             /\ Agree(Pile(s), Pile(t), Len(s))
             /\ \A i \in 1 .. Len(r) : Pile(t)[Len(t) + 1 - i] = r[i]
             /\ \A k \in Len(s) + 1 .. Len(t) : \E i \in 1 .. Len(r) : Pile(t)[k] = r[i]
<1> DEFINE t == r \o s
<1>1. /\ t \in Seq(S) /\ Len(t) = Len(r) + Len(s) /\ Len(s) \in Nat /\ Len(r) \in Nat
      /\ \A i \in 1 .. Len(r) + Len(s) : t[i] = IF i <= Len(r) THEN r[i] ELSE s[i - Len(r)]
  BY ConcatProperties
<1> HIDE DEF t
<1>2. Len(t) \in Nat /\ Len(s) <= Len(t)
  BY <1>1
<1>3. ASSUME NEW k \in 1 .. Len(s) PROVE Pile(s)[k] = Pile(t)[k]
  <2> DEFINE j == Len(t) + 1 - k
  <2>1. \A a, b, c \in Nat : \A d \in 1 .. b : c = a + b =>
          /\ c + 1 - d \in 1 .. a + b /\ ~(c + 1 - d <= a) /\ d \in 1 .. c
          /\ c + 1 - d - a = b + 1 - d
    OBVIOUS
  <2>2. /\ j \in 1 .. Len(r) + Len(s) /\ ~(j <= Len(r)) /\ k \in 1 .. Len(t)
        /\ j - Len(r) = Len(s) + 1 - k
    BY <1>1, <1>2, <2>1
  <2> HIDE DEF j
  <2>3. t[j] = s[Len(s) + 1 - k]
    BY <1>1, <2>2
  <2> QED BY <2>2, <2>3 DEF Pile, j
<1>4. ASSUME NEW i \in 1 .. Len(r) PROVE Pile(t)[Len(t) + 1 - i] = r[i]
  <2>1. i \in 1 .. Len(t) /\ t[i] = r[i]
    BY <1>1
  <2>2. PICK k \in 1 .. Len(t) : k = Len(t) + 1 - i /\ i = Len(t) + 1 - k
    BY <1>2, <2>1, Turned
  <2> QED BY <2>1, <2>2 DEF Pile
<1>5. ASSUME NEW k \in Len(s) + 1 .. Len(t) PROVE \E i \in 1 .. Len(r) : Pile(t)[k] = r[i]
  <2>1. \A a, b, c \in Nat : \A d \in b + 1 .. c : c = a + b =>
          c + 1 - d \in 1 .. a /\ c + 1 - (c + 1 - d) = d
    OBVIOUS
  <2> DEFINE i == Len(t) + 1 - k
  <2>2. i \in 1 .. Len(r) /\ Len(t) + 1 - i = k
    BY <1>1, <1>2, <2>1
  <2> HIDE DEF i
  <2>3. Pile(t)[k] = r[i]
    BY <2>2, <1>4
  <2> QED BY <2>2, <2>3
<1> QED BY <1>1, <1>2, <1>3, <1>4, <1>5 DEF Agree, t

-----------------------------------------------------------------------------
(* The stacks of the parser.                                               *)

Balanced(s, up, down) == Paired(Pile(s), Len(s), up, down)
Within(s, up, down)   == Open(Pile(s), Len(s), up, down)

\* What is left of a parser outside of every try block.
Idle == {"parse", "statement", "synchronize", "report"}

\* Whatever may throw is on top of a handler.
Guarded(s) ==
  \A k \in 1 .. Len(s) : Pile(s)[k] \in Idle \/ \E j \in 1 .. k : Pile(s)[j] \in Handler

\* An error is reported before anything else, once there is a place to go on.
Reported(s) ==
  \A k \in 1 .. Len(s) :
    Pile(s)[k] = "report" => k = Len(s) \/ (k + 1 = Len(s) /\ Head(s) = "synchronize")

StackOK(s) ==
  /\ s \in Seq(StackItem) /\ Guarded(s) /\ Reported(s)
  /\ Balanced(s, "loop++", "loop--") /\ Balanced(s, "func++", "func--")

\* A stack that takes the place of another one in the same loops and functions.
Kept(t, s) ==
  /\ StackOK(t)
  /\ Within(t, "loop++", "loop--") = Within(s, "loop++", "loop--")
  /\ Within(t, "func++", "func--") = Within(s, "func++", "func--")

Counting    == {"loop++", "loop--", "func++", "func--"}
Ordinary(x) == x \notin Counting /\ x \notin Handler /\ x \notin Idle
Common      == StackItem \ (Counting \cup {"report"})

LEMMA Counters == Counter("loop++", "loop--") /\ Counter("func++", "func--")
BY DEF Counter, Holds, Handler

LEMMA OrdinaryOnly ==
  ASSUME NEW x, Ordinary(x)
  PROVE  /\ x \notin Counting /\ x \notin Handler /\ x \notin Idle /\ ~Holds(x)
         /\ x # "statement" /\ x # "report" /\ x # "synchronize"
BY DEF Ordinary, Idle, Holds, Handler

LEMMA TailBalanced ==
  ASSUME NEW s \in Seq(StackItem), s # <<>>, NEW up, NEW down, Counter(up, down),
         Balanced(s, up, down)
  PROVE  /\ Balanced(Tail(s), up, down)
         /\ Head(s) # up /\ Head(s) # down => Within(Tail(s), up, down) = Within(s, up, down)
BY TailPile, Cut, Pop DEF Balanced, Within

LEMMA TailGuarded ==
  ASSUME NEW s \in Seq(StackItem), s # <<>>, Guarded(s), Reported(s)
  PROVE  Guarded(Tail(s)) /\ Reported(Tail(s))
<1> DEFINE t == Tail(s)
<1>1. /\ Len(t) \in Nat /\ Len(s) = Len(t) + 1
      /\ \A k \in 1 .. Len(t) : Pile(t)[k] = Pile(s)[k]
  BY TailPile DEF Agree
<1> HIDE DEF t
<1>2. \A k \in 1 .. Len(t) : k \in 1 .. Len(s) /\ k # Len(s) /\ \A j \in 1 .. k : j \in 1 .. Len(t)
  BY <1>1
<1>3. Guarded(t)
  BY <1>1, <1>2 DEF Guarded
<1>4. \A k \in 1 .. Len(t) : k + 1 = Len(s) => k = Len(t)
  BY <1>1
<1>5. Reported(t)
  BY <1>1, <1>2, <1>4 DEF Reported
<1> QED BY <1>3, <1>5 DEF t

LEMMA TailKept ==
  ASSUME NEW s, StackOK(s), s # <<>>
  PROVE  StackOK(Tail(s)) /\ (Head(s) \notin Counting => Kept(Tail(s), s))
<1>1. s \in Seq(StackItem) /\ Tail(s) \in Seq(StackItem)
  BY TailPile DEF StackOK
<1>2. StackOK(Tail(s))
  BY <1>1, TailBalanced, TailGuarded, Counters DEF StackOK
<1>3. ASSUME Head(s) \notin Counting
      PROVE  /\ Within(Tail(s), "loop++", "loop--") = Within(s, "loop++", "loop--")
             /\ Within(Tail(s), "func++", "func--") = Within(s, "func++", "func--")
  BY <1>1, <1>3, TailBalanced, Counters DEF StackOK, Counting
<1> QED BY <1>2, <1>3 DEF Kept

\* What is below an ordinary item.
LEMMA TailFree ==
  ASSUME NEW s \in Seq(StackItem), s # <<>>, NEW up, NEW down, Counter(up, down),
         Balanced(s, up, down), Head(s) # up, Head(s) # "statement", ~Holds(Head(s))
  PROVE  Free(Pile(Tail(s)), Len(Tail(s)), down)
<1> DEFINE m == Len(Tail(s))
           f == Pile(s)
           g == Pile(Tail(s))
<1>1. /\ m \in Nat /\ Len(s) = m + 1 /\ Agree(f, g, m) /\ f[m + 1] = Head(s)
      /\ Paired(f, m + 1, up, down)
  BY TailPile DEF Balanced
<1> HIDE DEF m, f, g
<1>2. ASSUME m > 0 PROVE g[m] # down
  <2>1. PICK k \in 1 .. m + 1 : k = m /\ k + 1 = m + 1
    BY <1>1, <1>2
  <2>2. PairedAt(f, m + 1, k, up, down) /\ f[k + 1] = Head(s) /\ k # m + 1
    BY <1>1, <2>1 DEF Paired
  <2>3. f[k] # down
    BY <2>2 DEF PairedAt
  <2> QED BY <1>1, <2>1, <2>3 DEF Agree
<1>3. ASSUME m > 1, g[m] = "statement" PROVE g[m - 1] # down
  <2>1. PICK k \in 1 .. m : k = m - 1 /\ k + 1 = m /\ k + 2 = m + 1 /\ k # m + 1 /\ k + 1 # m + 1
    BY <1>1, <1>3
  <2>2. m \in 1 .. m /\ k \in 1 .. m + 1
    BY <1>1, <1>3, <2>1
  <2>3. /\ PairedAt(f, m + 1, k, up, down) /\ f[k + 2] = Head(s)
        /\ f[k + 1] = "statement" /\ f[k] = g[m - 1]
    BY <1>1, <1>3, <2>1, <2>2 DEF Paired, Agree
  <2>4. f[k] # down
    BY <2>1, <2>3, HoldsOnly DEF PairedAt
  <2> QED BY <2>3, <2>4
<1> QED BY <1>2, <1>3 DEF Free, m, g

LEMMA PushBalanced ==
  ASSUME NEW s \in Seq(StackItem), NEW r \in Seq(StackItem), NEW up, NEW down, Counter(up, down),
         Balanced(s, up, down), Free(Pile(s), Len(s), down),
         \A i \in 1 .. Len(r) : r[i] # up /\ r[i] # down
  PROVE  Balanced(r \o s, up, down) /\ Within(r \o s, up, down) = Within(s, up, down)
<1> DEFINE t == r \o s
<1>1. /\ Len(s) \in Nat /\ Len(t) \in Nat /\ Len(s) <= Len(t)
      /\ Agree(Pile(s), Pile(t), Len(s))
      /\ \A k \in Len(s) + 1 .. Len(t) : \E i \in 1 .. Len(r) : Pile(t)[k] = r[i]
  BY PushPile
<1> HIDE DEF t
<1>2. ASSUME NEW k \in Len(s) + 1 .. Len(t)
      PROVE  PairedAt(Pile(t), Len(t), k, up, down) /\ ~OpenAt(Pile(t), Len(t), k, up, down)
  <2>1. Pile(t)[k] # up /\ Pile(t)[k] # down /\ k \in Nat
    BY <1>1
  <2> QED BY <2>1, <1>1, Plain
<1>3. Paired(Pile(t), Len(t), up, down)
      /\ Open(Pile(t), Len(t), up, down) = Open(Pile(s), Len(s), up, down)
  BY <1>1, <1>2, Push DEF Balanced
<1> QED BY <1>3 DEF Balanced, Within, t

LEMMA RaisedBalanced ==
  ASSUME NEW s \in Seq(StackItem), NEW r \in Seq(StackItem), NEW up, NEW down, Counter(up, down),
         Balanced(s, up, down), Free(Pile(s), Len(s), down),
         Len(r) = 3, r[1] = up, r[2] = "statement", r[3] = down
  PROVE  LET t == r \o s
         IN  /\ Balanced(t, up, down) /\ Within(t, up, down) = Within(s, up, down)
             /\ Free(Pile(t), Len(t), down)
<1> DEFINE t == r \o s
<1>2. /\ Len(s) \in Nat /\ Len(t) = Len(r) + Len(s) /\ Agree(Pile(s), Pile(t), Len(s))
      /\ \A i \in 1 .. Len(r) : Pile(t)[Len(t) + 1 - i] = r[i]
  BY ONLY s \in Seq(StackItem), r \in Seq(StackItem), PushPile
<1> HIDE DEF t
<1>3. Len(t) = Len(s) + 3 /\ Len(t) + 1 - 1 = Len(s) + 3 /\ Len(t) + 1 - 2 = Len(s) + 2
      /\ Len(t) + 1 - 3 = Len(s) + 1
  BY <1>2
<1>4. 1 \in 1 .. Len(r) /\ 2 \in 1 .. Len(r) /\ 3 \in 1 .. Len(r)
  OBVIOUS
<1>5. /\ Pile(t)[Len(s) + 3] = up /\ Pile(t)[Len(s) + 2] = "statement"
      /\ Pile(t)[Len(s) + 1] = down
  BY <1>2, <1>3, <1>4
<1>6. /\ Paired(Pile(t), Len(s) + 3, up, down) /\ Free(Pile(t), Len(s) + 3, down)
      /\ Open(Pile(t), Len(s) + 3, up, down) = Open(Pile(s), Len(s), up, down)
  BY <1>2, <1>5, Raised DEF Balanced
<1> QED BY <1>3, <1>6 DEF Balanced, Within, t

\* The handler is below, or none is needed.
LEMMA PushGuarded ==
  ASSUME NEW s \in Seq(StackItem), NEW r \in Seq(StackItem), Guarded(s),
         (\E j \in 1 .. Len(s) : Pile(s)[j] \in Handler) \/ \A i \in 1 .. Len(r) : r[i] \in Idle
  PROVE  Guarded(r \o s)
<1> DEFINE t == r \o s
<1>1. /\ Len(s) \in Nat /\ Len(t) \in Nat /\ Len(s) <= Len(t)
      /\ \A k \in 1 .. Len(s) : Pile(t)[k] = Pile(s)[k]
      /\ \A k \in Len(s) + 1 .. Len(t) : \E i \in 1 .. Len(r) : Pile(t)[k] = r[i]
  BY PushPile DEF Agree
<1> HIDE DEF t
<1>2. ASSUME NEW k \in 1 .. Len(s)
      PROVE  Pile(t)[k] \in Idle \/ \E j \in 1 .. k : Pile(t)[j] \in Handler
  <2>1. \A j \in 1 .. k : j \in 1 .. Len(s)
    BY <1>1
  <2> QED BY <2>1, <1>1 DEF Guarded
<1>3. ASSUME NEW k \in Len(s) + 1 .. Len(t)
      PROVE  Pile(t)[k] \in Idle \/ \E j \in 1 .. k : Pile(t)[j] \in Handler
  <2>1. \A j \in 1 .. Len(s) : j \in 1 .. k
    BY <1>1
  <2> QED BY <2>1, <1>1
<1>4. \A k \in 1 .. Len(t) : k \in 1 .. Len(s) \/ k \in Len(s) + 1 .. Len(t)
  BY <1>1
<1>5. Guarded(t)
  BY <1>2, <1>3, <1>4 DEF Guarded
<1> QED BY <1>5 DEF t

\* Nothing is to be reported.
Clear(s) == \A k \in 1 .. Len(s) : Pile(s)[k] # "report"

LEMMA TailClear ==
  ASSUME NEW s \in Seq(StackItem), s # <<>>, Reported(s), Head(s) # "report",
         Head(s) # "synchronize"
  PROVE  Clear(s) /\ Clear(Tail(s))
<1>1. /\ Len(Tail(s)) \in Nat /\ Len(s) = Len(Tail(s)) + 1 /\ Pile(s)[Len(s)] = Head(s)
      /\ \A k \in 1 .. Len(Tail(s)) : Pile(Tail(s))[k] = Pile(s)[k]
  BY TailPile DEF Agree
<1>2. Clear(s)
  BY <1>1 DEF Reported, Clear
<1>3. \A k \in 1 .. Len(Tail(s)) : k \in 1 .. Len(s)
  BY <1>1
<1> QED BY <1>1, <1>2, <1>3 DEF Clear

LEMMA PushClear ==
  ASSUME NEW s \in Seq(StackItem), NEW r \in Seq(StackItem), Clear(s),
         \A i \in 1 .. Len(r) : r[i] # "report"
  PROVE  Clear(r \o s) /\ Reported(r \o s)
<1> DEFINE t == r \o s
<1>1. /\ Len(s) \in Nat /\ Len(t) \in Nat
      /\ \A k \in 1 .. Len(s) : Pile(t)[k] = Pile(s)[k]
      /\ \A k \in Len(s) + 1 .. Len(t) : \E i \in 1 .. Len(r) : Pile(t)[k] = r[i]
  BY PushPile DEF Agree
<1> HIDE DEF t
<1>2. \A k \in 1 .. Len(t) : k \in 1 .. Len(s) \/ k \in Len(s) + 1 .. Len(t)
  BY <1>1
<1>3. Clear(t) /\ Reported(t)
  BY <1>1, <1>2 DEF Clear, Reported
<1> QED BY <1>3 DEF t

\* The handler of an ordinary item.
LEMMA HandlerBelow ==
  ASSUME NEW s \in Seq(StackItem), s # <<>>, Guarded(s), Ordinary(Head(s))
  PROVE  \E j \in 1 .. Len(Tail(s)) : Pile(Tail(s))[j] \in Handler
<1>1. /\ Len(Tail(s)) \in Nat /\ Len(s) = Len(Tail(s)) + 1 /\ Pile(s)[Len(s)] = Head(s)
      /\ \A k \in 1 .. Len(Tail(s)) : Pile(Tail(s))[k] = Pile(s)[k]
  BY TailPile DEF Agree
<1>2. Len(s) \in 1 .. Len(s)
  BY <1>1
<1>3. PICK j \in 1 .. Len(s) : Pile(s)[j] \in Handler
  BY <1>1, <1>2 DEF Guarded, Ordinary
<1>4. j \in 1 .. Len(Tail(s))
  BY <1>1, <1>3 DEF Ordinary
<1> QED BY <1>1, <1>3, <1>4

\* Rows of items.
LEMMA Rows ==
  ASSUME NEW S, NEW a \in S, NEW b \in S, NEW c \in S, NEW d \in S, NEW e \in S,
         NEW f \in S, NEW g \in S, NEW h \in S
  PROVE  /\ <<>> \in Seq(S) /\ <<a>> \in Seq(S) /\ <<a, b>> \in Seq(S) /\ <<a, b, c>> \in Seq(S)
         /\ <<a, b, c, d>> \in Seq(S) /\ <<a, b, c, d, e>> \in Seq(S)
         /\ <<a, b, c, d, e, f>> \in Seq(S) /\ <<a, b, c, d, e, f, g>> \in Seq(S)
         /\ <<a, b, c, d, e, f, g, h>> \in Seq(S)
OBVIOUS

LEMMA CommonOnly ==
  ASSUME NEW r \in Seq(Common)
  PROVE  /\ r \in Seq(StackItem)
         /\ \A i \in 1 .. Len(r) : r[i] \notin Counting /\ r[i] # "report"
<1>1. \A i \in 1 .. Len(r) : r[i] \in Common
  BY ElementOfSeq
<1>2. Common \subseteq StackItem
  BY DEF Common
<1>3. r \in Seq(StackItem)
  BY <1>2, SeqMonotonic
<1> QED BY <1>1, <1>3 DEF Common

\* A row of a production, on top of a stack where one is expected.
LEMMA RowKept ==
  ASSUME NEW s, StackOK(s), Clear(s), NEW r \in Seq(Common),
         Free(Pile(s), Len(s), "loop--"), Free(Pile(s), Len(s), "func--"),
         (\E j \in 1 .. Len(s) : Pile(s)[j] \in Handler) \/ \A i \in 1 .. Len(r) : r[i] \in Idle
  PROVE  Kept(r \o s, s)
<1>1. s \in Seq(StackItem) /\ r \in Seq(StackItem) /\ r \o s \in Seq(StackItem)
  BY CommonOnly, ConcatProperties DEF StackOK
<1>2. Guarded(r \o s)
  BY <1>1, PushGuarded DEF StackOK
<1>3. Reported(r \o s)
  BY <1>1, CommonOnly, PushClear
<1>4. \A i \in 1 .. Len(r) :
        r[i] # "loop++" /\ r[i] # "loop--" /\ r[i] # "func++" /\ r[i] # "func--"
  BY CommonOnly DEF Counting
<1>5. /\ Balanced(r \o s, "loop++", "loop--")
      /\ Within(r \o s, "loop++", "loop--") = Within(s, "loop++", "loop--")
  BY <1>1, <1>4, PushBalanced, Counters DEF StackOK
<1>6. /\ Balanced(r \o s, "func++", "func--")
      /\ Within(r \o s, "func++", "func--") = Within(s, "func++", "func--")
  BY <1>1, <1>4, PushBalanced, Counters DEF StackOK
<1> QED BY <1>1, <1>2, <1>3, <1>5, <1>6 DEF Kept, StackOK

\* What an ordinary item leaves for the row that replaces it.
Ready(s) ==
  /\ StackOK(s) /\ Clear(s)
  /\ Free(Pile(s), Len(s), "loop--") /\ Free(Pile(s), Len(s), "func--")

LEMMA TailReady ==
  ASSUME NEW s, StackOK(s), s # <<>>, Head(s) \notin Counting, Head(s) # "statement",
         Head(s) # "synchronize", Head(s) # "report", Head(s) \notin Handler
  PROVE  Ready(Tail(s)) /\ Kept(Tail(s), s)
<1>1. s \in Seq(StackItem) /\ Kept(Tail(s), s)
  BY TailKept DEF StackOK
<1>2. Clear(Tail(s))
  BY <1>1, TailClear DEF StackOK
<1>3. ~Holds(Head(s))
  BY HoldsOnly
<1>4. Free(Pile(Tail(s)), Len(Tail(s)), "loop--") /\ Free(Pile(Tail(s)), Len(Tail(s)), "func--")
  BY <1>1, <1>3, TailFree, Counters DEF StackOK, Counting
<1> QED BY <1>1, <1>2, <1>4 DEF Ready, Kept

LEMMA KeptTrans ==
  ASSUME NEW s, NEW t, NEW u, Kept(t, s), Kept(u, t)
  PROVE  Kept(u, s)
BY DEF Kept

LEMMA Produce ==
  ASSUME NEW s, StackOK(s), s # <<>>, Ordinary(Head(s)), NEW r \in Seq(Common)
  PROVE  Kept(r \o Tail(s), s)
<1>1. Ready(Tail(s)) /\ Kept(Tail(s), s)
  BY OrdinaryOnly, TailReady
<1>2. \E j \in 1 .. Len(Tail(s)) : Pile(Tail(s))[j] \in Handler
  BY HandlerBelow DEF StackOK
<1>3. Kept(r \o Tail(s), Tail(s))
  BY <1>1, <1>2, RowKept DEF Ready
<1> QED BY <1>1, <1>3, KeptTrans

\* The bodies of loops and functions.
LoopBody == <<"loop++", "statement", "loop--">>
FuncBody == <<"func++", "statement", "func--">>

LEMMA Bodies ==
  /\ LoopBody \in Seq(StackItem) /\ Len(LoopBody) = 3
  /\ LoopBody[1] = "loop++" /\ LoopBody[2] = "statement" /\ LoopBody[3] = "loop--"
  /\ FuncBody \in Seq(StackItem) /\ Len(FuncBody) = 3
  /\ FuncBody[1] = "func++" /\ FuncBody[2] = "statement" /\ FuncBody[3] = "func--"
<1>1. \A x \in Counting \cup {"statement"} : x \in StackItem
  BY DEF Counting, StackItem, Silent, Function
<1>2. LoopBody \in Seq(StackItem) /\ FuncBody \in Seq(StackItem)
  BY <1>1, Rows DEF LoopBody, FuncBody, Counting
<1> QED BY <1>2 DEF LoopBody, FuncBody

LEMMA OtherBody ==
  ASSUME NEW s \in Seq(StackItem), NEW b \in Seq(StackItem), NEW up, NEW down, Counter(up, down),
         Balanced(s, up, down), Free(Pile(s), Len(s), down), Len(b) = 3,
         \A i \in 1 .. 3 : b[i] # up /\ b[i] # down, b[1] # "statement"
  PROVE  LET t == b \o s
         IN  /\ Balanced(t, up, down) /\ Within(t, up, down) = Within(s, up, down)
             /\ Free(Pile(t), Len(t), down)
<1> DEFINE t == b \o s
<1>1. Balanced(t, up, down) /\ Within(t, up, down) = Within(s, up, down)
  BY PushBalanced
<1>2. Len(t) \in Nat /\ \A i \in 1 .. Len(b) : Pile(t)[Len(t) + 1 - i] = b[i]
  BY ONLY s \in Seq(StackItem), b \in Seq(StackItem), PushPile
<1> HIDE DEF t
<1>3. 1 \in 1 .. Len(b) /\ 1 \in 1 .. 3 /\ Len(t) + 1 - 1 = Len(t)
  BY <1>2
<1>4. Pile(t)[Len(t)] = b[1]
  BY <1>2, <1>3
<1>5. Free(Pile(t), Len(t), down)
  BY <1>3, <1>4 DEF Free
<1> QED BY <1>1, <1>5 DEF t

LEMMA BodyReady ==
  ASSUME NEW s, Ready(s), NEW b, b = LoopBody \/ b = FuncBody,
         \E j \in 1 .. Len(s) : Pile(s)[j] \in Handler
  PROVE  Ready(b \o s) /\ Kept(b \o s, s) /\ \E j \in 1 .. Len(b \o s) : Pile(b \o s)[j] \in Handler
<1>1. s \in Seq(StackItem) /\ b \in Seq(StackItem) /\ b \o s \in Seq(StackItem) /\ Len(b) = 3
      /\ b[2] = "statement"
  BY Bodies, ConcatProperties DEF Ready, StackOK
<1>2. Guarded(b \o s)
  BY <1>1, PushGuarded DEF Ready, StackOK
<1>3. /\ Reported(b \o s) /\ Clear(b \o s)
  <2>1. \A i \in 1 .. 3 : i = 1 \/ i = 2 \/ i = 3
    OBVIOUS
  <2>2. \A i \in 1 .. Len(b) : b[i] # "report"
    BY <1>1, <2>1, Bodies
  <2> QED BY <1>1, <2>2, PushClear DEF Ready
<1>4. \E j \in 1 .. Len(b \o s) : Pile(b \o s)[j] \in Handler
  <2>1. PICK j \in 1 .. Len(s) : Pile(s)[j] \in Handler
    OBVIOUS
  <2>2. Len(s) \in Nat /\ Len(b \o s) \in Nat /\ Len(s) <= Len(b \o s)
        /\ Pile(b \o s)[j] = Pile(s)[j]
    BY <1>1, PushPile DEF Agree
  <2> QED BY <2>1, <2>2
<1>5. \A i \in 1 .. 3 : i = 1 \/ i = 2 \/ i = 3
  OBVIOUS
<1>6. /\ Balanced(b \o s, "loop++", "loop--") /\ Free(Pile(b \o s), Len(b \o s), "loop--")
      /\ Within(b \o s, "loop++", "loop--") = Within(s, "loop++", "loop--")
  <2>1. CASE b = LoopBody
    BY <1>1, <2>1, Bodies, Counters, RaisedBalanced DEF Ready, StackOK
  <2>2. CASE b = FuncBody
    <3>1. (\A i \in 1 .. 3 : b[i] # "loop++" /\ b[i] # "loop--") /\ b[1] # "statement"
      BY <1>5, <2>2, Bodies
    <3> QED BY <1>1, <3>1, Counters, OtherBody DEF Ready, StackOK
  <2> QED BY <2>1, <2>2
<1>7. /\ Balanced(b \o s, "func++", "func--") /\ Free(Pile(b \o s), Len(b \o s), "func--")
      /\ Within(b \o s, "func++", "func--") = Within(s, "func++", "func--")
  <2>1. CASE b = FuncBody
    BY <1>1, <2>1, Bodies, Counters, RaisedBalanced DEF Ready, StackOK
  <2>2. CASE b = LoopBody
    <3>1. (\A i \in 1 .. 3 : b[i] # "func++" /\ b[i] # "func--") /\ b[1] # "statement"
      BY <1>5, <2>2, Bodies
    <3> QED BY <1>1, <3>1, Counters, OtherBody DEF Ready, StackOK
  <2> QED BY <2>1, <2>2
<1> QED BY <1>1, <1>2, <1>3, <1>4, <1>6, <1>7 DEF Ready, StackOK, Kept

LEMMA ProduceBody ==
  ASSUME NEW s, StackOK(s), s # <<>>, Ordinary(Head(s)), NEW r \in Seq(Common),
         NEW b, b = LoopBody \/ b = FuncBody
  PROVE  Kept((r \o b) \o Tail(s), s)
<1>1. Ready(Tail(s)) /\ Kept(Tail(s), s)
  BY OrdinaryOnly, TailReady
<1>2. \E j \in 1 .. Len(Tail(s)) : Pile(Tail(s))[j] \in Handler
  BY HandlerBelow DEF StackOK
<1> DEFINE t == b \o Tail(s)
<1>3. Ready(t) /\ Kept(t, Tail(s)) /\ \E j \in 1 .. Len(t) : Pile(t)[j] \in Handler
  BY <1>1, <1>2, BodyReady
<1> HIDE DEF t
<1>4. Kept(r \o t, t)
  BY <1>3, RowKept DEF Ready
<1>5. (r \o b) \o Tail(s) = r \o t
  <2>1. r \in Seq(StackItem) /\ b \in Seq(StackItem) /\ Tail(s) \in Seq(StackItem)
    BY <1>1, CommonOnly, Bodies DEF Ready, StackOK
  <2> QED BY <2>1, ConcatAssociative DEF t
<1> QED BY <1>1, <1>3, <1>4, <1>5, KeptTrans

\* parse() and the try blocks.
LEMMA ProduceParse ==
  ASSUME NEW s, StackOK(s), s # <<>>, Head(s) = "parse"
  PROVE  Kept(<<"statement", "parse">> \o Tail(s), s)
<1>1. /\ Head(s) \notin Counting /\ Head(s) # "statement" /\ Head(s) # "synchronize"
      /\ Head(s) # "report" /\ Head(s) \notin Handler
  BY DEF Counting, Handler
<1>2. Ready(Tail(s)) /\ Kept(Tail(s), s)
  BY <1>1, TailReady
<1> DEFINE r == <<"statement", "parse">>
<1>3. r \in Seq(Common) /\ \A i \in 1 .. Len(r) : r[i] \in Idle
  <2>1. /\ "statement" \in Common /\ "parse" \in Common
        /\ "statement" \in Idle /\ "parse" \in Idle
    BY DEF Common, Counting, Idle, StackItem, Function
  <2>2. r \in Seq(Common) /\ r \in Seq(Idle)
    BY <2>1, Rows
  <2> HIDE DEF r
  <2> QED BY <2>2, ElementOfSeq
<1> HIDE DEF r
<1>4. Kept(r \o Tail(s), Tail(s))
  BY <1>2, <1>3, RowKept DEF Ready
<1> QED BY <1>2, <1>4, KeptTrans DEF r

\* expect() took the token, or an error has been reported.
LEMMA Drop ==
  ASSUME NEW s, StackOK(s), s # <<>>, Head(s) \notin Counting
  PROVE  Kept(<<>> \o Tail(s), s) /\ Kept(Tail(s), s)
<1>1. Tail(s) \in Seq(StackItem) /\ Kept(Tail(s), s)
  BY TailKept, TailPile DEF StackOK
<1>2. <<>> \o Tail(s) = Tail(s)
  BY <1>1, ConcatEmptySeq
<1> QED BY <1>1, <1>2

LEMMA Stay ==
  ASSUME NEW s, StackOK(s), s # <<>>, Head(s) = "synchronize"
  PROVE  Kept(<<"synchronize">> \o Tail(s), s)
<1>1. s \in Seq(StackItem)
  BY DEF StackOK
<1>2. <<"synchronize">> \o Tail(s) = s
  BY <1>1
<1> QED BY <1>2 DEF Kept

\* One or two items on top of what is left.
LEMMA OneOnTop ==
  ASSUME NEW S, NEW t \in Seq(S), NEW r \in Seq(S), Len(r) = 1
  PROVE  LET u == r \o t
         IN  /\ u \in Seq(S) /\ Len(t) \in Nat /\ Len(u) = Len(t) + 1
             /\ Agree(Pile(t), Pile(u), Len(t))
             /\ Pile(u)[Len(t) + 1] = r[1]
<1> DEFINE u == r \o t
<1>1. /\ u \in Seq(S) /\ Len(t) \in Nat /\ Len(u) = Len(r) + Len(t)
      /\ Agree(Pile(t), Pile(u), Len(t))
      /\ \A i \in 1 .. Len(r) : Pile(u)[Len(u) + 1 - i] = r[i]
  BY ONLY t \in Seq(S), r \in Seq(S), PushPile
<1> HIDE DEF u
<1>2. 1 \in 1 .. Len(r) /\ Len(u) = Len(t) + 1 /\ Len(u) + 1 - 1 = Len(t) + 1
  BY <1>1
<1> QED BY <1>1, <1>2 DEF u

LEMMA TwoOnTop ==
  ASSUME NEW S, NEW t \in Seq(S), NEW r \in Seq(S), Len(r) = 2
  PROVE  LET u == r \o t
         IN  /\ u \in Seq(S) /\ Len(t) \in Nat /\ Len(u) = Len(t) + 2
             /\ Agree(Pile(t), Pile(u), Len(t))
             /\ Pile(u)[Len(t) + 2] = r[1] /\ Pile(u)[Len(t) + 1] = r[2]
<1> DEFINE u == r \o t
<1>1. /\ u \in Seq(S) /\ Len(t) \in Nat /\ Len(u) = Len(r) + Len(t)
      /\ Agree(Pile(t), Pile(u), Len(t))
      /\ \A i \in 1 .. Len(r) : Pile(u)[Len(u) + 1 - i] = r[i]
  BY ONLY t \in Seq(S), r \in Seq(S), PushPile
<1> HIDE DEF u
<1>2. 1 \in 1 .. Len(r) /\ 2 \in 1 .. Len(r) /\ Len(u) = Len(t) + 2
      /\ Len(u) + 1 - 1 = Len(t) + 2 /\ Len(u) + 1 - 2 = Len(t) + 1
  BY <1>1
<1> QED BY <1>1, <1>2 DEF u

\* The try block of statement().
LEMMA ProduceTry ==
  ASSUME NEW s, StackOK(s), s # <<>>, Head(s) = "statement"
  PROVE  Kept(<<"class_decl_stmt", "catch statement">> \o Tail(s), s)
<1> DEFINE t == Tail(s)
           a == "class_decl_stmt"
           b == "catch statement"
           r == <<a, b>>
           u == r \o t
<1>1. /\ s \in Seq(StackItem) /\ t \in Seq(StackItem) /\ Len(t) \in Nat /\ Len(s) = Len(t) + 1
      /\ Agree(Pile(s), Pile(t), Len(t)) /\ Pile(s)[Len(s)] = "statement"
  BY TailPile DEF StackOK
<1>2. /\ a \in StackItem /\ b \in StackItem /\ a \notin Counting /\ b \notin Counting
      /\ a # "report" /\ b # "report" /\ b \in Handler /\ Holds(b) /\ "statement" \notin Counting
      /\ "statement" # "report" /\ "statement" # "synchronize"
  BY DEF StackItem, Function, Silent, Counting, Handler, Holds
<1> HIDE DEF a, b
<1>9. r \in Seq(StackItem) /\ Len(r) = 2 /\ r[1] = a /\ r[2] = b
  BY <1>2, Rows
<1> HIDE DEF r
<1>3. /\ u \in Seq(StackItem) /\ Len(u) = Len(t) + 2 /\ Agree(Pile(t), Pile(u), Len(t))
      /\ Pile(u)[Len(t) + 2] = a /\ Pile(u)[Len(t) + 1] = b
  <2>1. t \in Seq(StackItem)
    BY <1>1
  <2> HIDE DEF t
  <2>2. /\ u \in Seq(StackItem) /\ Len(u) = Len(t) + 2 /\ Agree(Pile(t), Pile(u), Len(t))
        /\ Pile(u)[Len(t) + 2] = r[1] /\ Pile(u)[Len(t) + 1] = r[2]
    BY ONLY <2>1, <1>9, TwoOnTop
  <2> QED BY <2>2, <1>9
<1> HIDE DEF u, t
<1>4. Agree(Pile(s), Pile(u), Len(t))
  BY <1>1, <1>3 DEF Agree
<1>5. ASSUME NEW up, NEW down, Counter(up, down), up \in Counting, down \in Counting,
             Balanced(s, up, down)
      PROVE  Balanced(u, up, down) /\ Within(u, up, down) = Within(s, up, down)
  <2>1. /\ Len(s) \in Nat /\ Len(u) \in Nat /\ Len(t) < Len(s) /\ Len(t) < Len(u)
        /\ ~(Len(t) + 1 < Len(s))
    BY <1>1, <1>3
  <2>2. \A k \in Len(t) + 1 .. Len(u) : k = Len(t) + 1 \/ k = Len(t) + 2
    BY <1>1, <1>3
  <2>3. \A k \in Len(t) + 1 .. Len(u) : Pile(u)[k] # up /\ Pile(u)[k] # down
    BY <2>2, <1>2, <1>3, <1>5
  <2>4. \A k \in 1 .. Len(s) : k \in 1 .. Len(t) \/ k = Len(s)
    BY <1>1
  <2>5. \A k \in 1 .. Len(s) : OpenAt(Pile(s), Len(s), k, up, down) => k \in 1 .. Len(t)
    BY <2>4, <1>1, <1>2, <1>5 DEF OpenAt
  <2>6. Pile(s)[Len(t) + 1] # up /\ Holds(Pile(u)[Len(t) + 1])
    BY <1>1, <1>2, <1>3, <1>5
  <2>7. Paired(Pile(s), Len(s), up, down) /\ Apart(Pile(s), Len(s), Len(t), up, down)
    BY <2>1, <2>5, <2>6, <1>5 DEF Balanced, Apart
  <2>8. /\ Paired(Pile(u), Len(u), up, down)
        /\ Open(Pile(u), Len(u), up, down) = Open(Pile(s), Len(s), up, down)
    BY ONLY <1>1, <1>4, <1>5, <2>1, <2>3, <2>6, <2>7, Cover
  <2> QED BY <2>8 DEF Balanced, Within
<1>6. Guarded(u)
  <2>1. ASSUME NEW k \in 1 .. Len(t)
        PROVE  Pile(u)[k] \in Idle \/ \E j \in 1 .. k : Pile(u)[j] \in Handler
    <3>1. k \in 1 .. Len(s) /\ \A j \in 1 .. k : j \in 1 .. Len(t)
      BY <1>1
    <3> QED BY <3>1, <1>4 DEF Guarded, StackOK, Agree
  <2>2. ASSUME NEW k \in Len(t) + 1 .. Len(u) PROVE \E j \in 1 .. k : Pile(u)[j] \in Handler
    <3>1. Len(t) + 1 \in 1 .. k
      BY <1>1
    <3> QED BY <3>1, <1>2, <1>3
  <2>3. \A k \in 1 .. Len(u) : k \in 1 .. Len(t) \/ k \in Len(t) + 1 .. Len(u)
    BY <1>1, <1>3
  <2> QED BY <2>1, <2>2, <2>3 DEF Guarded
<1>7. Reported(u)
  <2>1. Clear(t)
    BY <1>1, <1>2, TailClear DEF StackOK, t
  <2>2. \A k \in 1 .. Len(u) : k \in 1 .. Len(t) \/ k = Len(t) + 1 \/ k = Len(t) + 2
    BY <1>1, <1>3
  <2>3. \A k \in 1 .. Len(u) : Pile(u)[k] # "report"
    BY <2>1, <2>2, <1>2, <1>3 DEF Clear, Agree
  <2> QED BY <2>3 DEF Reported
<1>8. /\ Balanced(u, "loop++", "loop--") /\ Balanced(u, "func++", "func--")
      /\ Within(u, "loop++", "loop--") = Within(s, "loop++", "loop--")
      /\ Within(u, "func++", "func--") = Within(s, "func++", "func--")
  <2>1. /\ "loop++" \in Counting /\ "loop--" \in Counting
        /\ "func++" \in Counting /\ "func--" \in Counting
    BY DEF Counting
  <2> QED BY <2>1, <1>5, Counters DEF StackOK
<1> QED BY <1>3, <1>6, <1>7, <1>8 DEF Kept, StackOK, t, u, r, a, b

\* There is a handler for what an ordinary item throws: the first one.
LEMMA CatchFound ==
  ASSUME StackOK(This.stack), This.stack # <<>>, Ordinary(Head(This.stack))
  PROVE  /\ Catch \in 1 .. Len(This.stack) /\ This.stack[Catch] \in Handler
         /\ \A j \in 1 .. Catch - 1 : This.stack[j] \notin Handler
<1> DEFINE s == This.stack
           H == {i \in 1 .. Len(s) : s[i] \in Handler}
<1>1. s \in Seq(StackItem) /\ Len(s) \in Nat /\ DOMAIN s = 1 .. Len(s)
  BY DEF StackOK
<1>2. H # {}
  <2>1. PICK k \in 1 .. Len(Tail(s)) : Pile(Tail(s))[k] \in Handler
    BY HandlerBelow DEF StackOK
  <2>2. Len(Tail(s)) \in Nat /\ Len(s) = Len(Tail(s)) + 1 /\ Pile(s)[k] = Pile(Tail(s))[k]
    BY <1>1, TailPile DEF Agree
  <2> HIDE DEF s
  <2>3. k \in 1 .. Len(s)
    BY <2>2
  <2>4. PICK i \in 1 .. Len(s) : i = Len(s) + 1 - k
    BY <1>1, <2>3, Turned
  <2>5. Pile(s)[k] = s[i]
    BY <2>3, <2>4 DEF Pile
  <2> QED BY <2>1, <2>2, <2>5
<1>3. PICK i \in H : \A j \in H : ~(<<j, i>> \in OpToRel(<, Nat))
  <2>1. H \subseteq Nat
    BY <1>1
  <2> HIDE DEF H
  <2> QED BY <1>2, <2>1, NatLessThanWellFounded, WFMin
<1> HIDE DEF s
<1>4. i \in 1 .. Len(s) /\ s[i] \in Handler
  BY <1>3
<1>5. \A j \in H : ~(j < i)
  <2>1. H \subseteq Nat /\ i \in Nat
    BY <1>1, <1>4
  <2> HIDE DEF H
  <2> QED BY <1>3, <2>1 DEF OpToRel
<1>6. \A j \in 1 .. i - 1 : j \in 1 .. Len(s) /\ j < i
  BY <1>1, <1>4
<1>7. i \in DOMAIN s /\ \A j \in 1 .. i - 1 : s[j] \notin Handler
  BY <1>1, <1>4, <1>5, <1>6
<1> QED BY <1>1, <1>4, <1>7 DEF Catch, s

\* What follows an error: the items down to the handler are dropped, and none of
\* them is paired with one that stays.
LEMMA ThrowKept ==
  ASSUME StackOK(This.stack), This.stack # <<>>, Ordinary(Head(This.stack)),
         NEW r \in Seq(Idle), r = <<"report">> \/ r = <<"synchronize", "report">>
  PROVE  Kept(r \o Caught, This.stack)
<1> DEFINE s == This.stack
           t == Caught
           u == r \o t
           f == Pile(s)
           g == Pile(u)
           c == Len(t)
<1>1. /\ s \in Seq(StackItem) /\ Len(s) \in Nat /\ s # <<>> /\ Guarded(s) /\ Reported(s)
      /\ Balanced(s, "loop++", "loop--") /\ Balanced(s, "func++", "func--")
      /\ Ordinary(Head(s))
  BY DEF StackOK
<1>2. /\ Catch \in 1 .. Len(s) /\ s[Catch] \in Handler
      /\ \A j \in 1 .. Catch - 1 : s[j] \notin Handler
  BY CatchFound
<1>3. t \in Seq(StackItem) /\ c = Len(s) - Catch /\ Agree(f, Pile(t), c)
  BY <1>1, <1>2, SubSeqPile DEF Caught
<1>4. f[Len(s)] = Head(s) /\ Clear(s)
  BY <1>1, TailPile, TailClear, OrdinaryOnly
<1>5. /\ "report" \in StackItem /\ "synchronize" \in StackItem /\ Holds("report")
      /\ "report" \in Idle /\ "synchronize" \in Idle
      /\ "report" \notin Counting /\ "synchronize" \notin Counting
  BY DEF StackItem, Silent, Function, Counting, Holds, Idle
<1> HIDE DEF s, t
<1>6. /\ u \in Seq(StackItem) /\ Len(u) \in Nat /\ c \in Nat /\ c < Len(u) /\ c < Len(s)
      /\ Agree(Pile(t), g, c) /\ g[c + 1] = "report"
      /\ \A k \in c + 1 .. Len(u) : k = c + 1
           \/ (k = c + 2 /\ Len(u) = c + 2 /\ Head(u) = "synchronize")
      /\ \A k \in c + 1 .. Len(u) : g[k] = "report" \/ g[k] = "synchronize"
  <2>1. CASE r = <<"report">>
    <3>1. r \in Seq(StackItem) /\ Len(r) = 1 /\ r[1] = "report"
      BY <1>5, <2>1, Rows
    <3>2. /\ u \in Seq(StackItem) /\ c \in Nat /\ Len(u) = c + 1 /\ Agree(Pile(t), g, c)
          /\ g[c + 1] = "report"
      BY <1>3, <3>1, OneOnTop
    <3> HIDE DEF u, g, c
    <3>3. \A k \in c + 1 .. Len(u) : k = c + 1
      BY <3>2
    <3> QED BY <3>2, <3>3, <1>1, <1>2, <1>3
  <2>2. CASE r = <<"synchronize", "report">>
    <3>1. r \in Seq(StackItem) /\ Len(r) = 2 /\ r[1] = "synchronize" /\ r[2] = "report"
      BY <1>5, <2>2, Rows
    <3>2. /\ u \in Seq(StackItem) /\ c \in Nat /\ Len(u) = c + 2 /\ Agree(Pile(t), g, c)
          /\ g[c + 2] = "synchronize" /\ g[c + 1] = "report"
      BY <1>3, <3>1, TwoOnTop
    <3>3. u # <<>>
      BY <3>2
    <3>4. Head(u) = "synchronize"
      BY <3>2, <3>3, TailPile
    <3> HIDE DEF u, g, c
    <3>5. \A k \in c + 1 .. Len(u) : k = c + 1 \/ k = c + 2
      BY <3>2
    <3>6. Len(u) \in Nat /\ c < Len(u) /\ c < Len(s)
      BY <3>2, <1>1, <1>2, <1>3
    <3> QED BY <3>2, <3>4, <3>5, <3>6
  <2> QED BY <2>1, <2>2
<1>7. Agree(f, g, c)
  BY <1>3, <1>6 DEF Agree
<1>8. f[c + 1] \in Handler /\ \A k \in 1 .. Len(s) : k > c + 1 => f[k] \notin Handler
  <2> HIDE DEF c, f
  <2>1. c + 1 \in 1 .. Len(s) /\ Len(s) + 1 - (c + 1) = Catch
    BY <1>1, <1>2, <1>3
  <2>2. f[c + 1] = s[Catch]
    BY <2>1 DEF f, Pile
  <2>3. ASSUME NEW k \in 1 .. Len(s), k > c + 1 PROVE f[k] \notin Handler
    <3>1. Len(s) + 1 - k \in 1 .. Catch - 1
      BY <1>1, <1>2, <1>3, <2>3
    <3>2. f[k] = s[Len(s) + 1 - k]
      BY DEF f, Pile
    <3> QED BY <3>1, <3>2, <1>2
  <2> QED BY <1>2, <2>2, <2>3
<1> HIDE DEF c
<1>9. ASSUME NEW up, NEW down, Counter(up, down), up \in Counting, down \in Counting,
             Balanced(s, up, down)
      PROVE  Balanced(u, up, down) /\ Within(u, up, down) = Within(s, up, down)
  <2>1. f[Len(s)] # down /\ f[Len(s)] # "statement" /\ Paired(f, Len(s), up, down)
        /\ \A k \in 1 .. Len(s) : f[k] # "report"
    BY <1>1, <1>4, <1>9, OrdinaryOnly DEF Balanced, Clear
  <2> HIDE DEF f, g, u
  <2>2. Apart(f, Len(s), c, up, down)
    BY ONLY <1>1, <1>6, <1>8, <1>9, <2>1, Dropped
  <2>3. Holds(g[c + 1]) /\ \A k \in c + 1 .. Len(u) : g[k] # up /\ g[k] # down
    BY <1>5, <1>6, <1>9
  <2>4. Paired(g, Len(u), up, down) /\ Open(g, Len(u), up, down) = Open(f, Len(s), up, down)
    <3>1. /\ Len(s) \in Nat /\ Len(u) \in Nat /\ c \in Nat /\ c < Len(u) /\ c < Len(s)
          /\ Counter(up, down) /\ Paired(f, Len(s), up, down)
      BY <1>1, <1>6, <1>9, <2>1
    <3> QED BY ONLY <3>1, <1>7, <2>2, <2>3, Cover
  <2> QED BY <2>4 DEF Balanced, Within, f, g
<1> HIDE DEF f, g, u
<1>10. Guarded(u)
  <2>1. ASSUME NEW k \in 1 .. c
        PROVE  g[k] \in Idle \/ \E j \in 1 .. k : g[j] \in Handler
    <3>1. k \in 1 .. Len(s) /\ \A j \in 1 .. k : j \in 1 .. c
      BY <1>1, <1>6
    <3> QED BY <3>1, <1>1, <1>7 DEF Guarded, Agree, f
  <2>2. \A k \in 1 .. Len(u) : k \in 1 .. c \/ k \in c + 1 .. Len(u)
    BY <1>6
  <2> QED BY <2>1, <2>2, <1>5, <1>6 DEF Guarded, g
<1>11. Reported(u)
  <2>1. ASSUME NEW k \in 1 .. c PROVE g[k] # "report"
    <3>1. k \in 1 .. Len(s)
      BY <1>1, <1>6
    <3> QED BY <3>1, <1>4, <1>7 DEF Clear, Agree, f
  <2>2. ASSUME NEW k \in c + 1 .. Len(u), g[k] = "report"
        PROVE  k = Len(u) \/ (k + 1 = Len(u) /\ Head(u) = "synchronize")
    <3>1. CASE Len(u) = c + 1
      BY <2>2, <3>1, <1>6
    <3>2. CASE Len(u) # c + 1
      <4>1. Len(u) \in c + 1 .. Len(u)
        BY <1>6
      <4>2. Len(u) = c + 2 /\ Head(u) = "synchronize"
        BY <1>6, <3>2, <4>1
      <4> QED BY <2>2, <4>2, <1>6
    <3> QED BY <3>1, <3>2
  <2>3. \A k \in 1 .. Len(u) : k \in 1 .. c \/ k \in c + 1 .. Len(u)
    BY <1>6
  <2> QED BY <2>1, <2>2, <2>3 DEF Reported, g
<1>12. /\ Balanced(u, "loop++", "loop--") /\ Balanced(u, "func++", "func--")
       /\ Within(u, "loop++", "loop--") = Within(s, "loop++", "loop--")
       /\ Within(u, "func++", "func--") = Within(s, "func++", "func--")
  <2>1. /\ "loop++" \in Counting /\ "loop--" \in Counting
        /\ "func++" \in Counting /\ "func--" \in Counting
    BY DEF Counting
  <2> QED BY <2>1, <1>1, <1>9, Counters
<1> QED BY <1>6, <1>10, <1>11, <1>12 DEF Kept, StackOK, s, t, u

-----------------------------------------------------------------------------
(* Parsers.                                                                *)

ParserObject ==
  [func : Func \cup {Main}, kind : Definition \cup {"program"},
   next : TokenKind \cup {EOF, None}, last : TokenKind \cup {None},
   final : BOOLEAN, read : Nat, depth : Nat, func_level : Nat, loop_level : Nat,
   failed : BOOLEAN, stack : Seq(StackItem)]

Left  == "{"
Right == "}"

\* The tokens of a function end before EOF, those of a block with the brace that
\* closes it.
TextOK(p) ==
  /\ p.kind = "declared" => p.next = None
  /\ p.next = EOF => p.kind = "program"
  /\ p.kind = "block" /\ p.depth = 0 => p.next = Left \/ p.next = None

\* What is at the bottom of the program's own stack.
Rooted(s) == 1 \in 1 .. Len(s) /\ Pile(s)[1] = "parse"

LEMMA RootTail ==
  ASSUME NEW s \in Seq(StackItem), s # <<>>, Head(s) # "parse", Rooted(s)
  PROVE  Rooted(Tail(s))
<1>1. /\ Len(Tail(s)) \in Nat /\ Len(s) = Len(Tail(s)) + 1 /\ Pile(s)[Len(s)] = Head(s)
      /\ \A k \in 1 .. Len(Tail(s)) : Pile(Tail(s))[k] = Pile(s)[k]
  BY TailPile DEF Agree
<1>2. Len(s) # 1
  BY <1>1 DEF Rooted
<1> QED BY <1>1, <1>2 DEF Rooted

LEMMA RootPush ==
  ASSUME NEW s \in Seq(StackItem), NEW r \in Seq(StackItem), Rooted(s)
  PROVE  Rooted(r \o s)
<1>1. /\ Len(s) \in Nat /\ Len(r \o s) \in Nat /\ Len(s) <= Len(r \o s)
      /\ \A k \in 1 .. Len(s) : Pile(s)[k] = Pile(r \o s)[k]
  BY PushPile DEF Agree
<1> QED BY <1>1 DEF Rooted

\* A stack that follows another one in the same loops and functions.
Follows(t, s) == Kept(t, s) /\ (Rooted(s) => Rooted(t))

LevelsOK(p) ==
  /\ p.loop_level = Cardinality(Within(p.stack, "loop++", "loop--"))
  /\ p.func_level = Cardinality(Within(p.stack, "func++", "func--")) + Base(p)

ParserOK(p) ==
  StackOK(p.stack) /\ LevelsOK(p) /\ TextOK(p) /\ (p.func = Main => Rooted(p.stack))

ParserInv ==
  /\ TypeOK
  /\ \A i \in DOMAIN parsers : ParserOK(parsers[i]) /\ (parsers[i].func = Main <=> i = 1)

LEMMA ParserTyped ==
  TypeOK <=>
    /\ source \in Source /\ parsers \in Seq(ParserObject) /\ parsers # <<>>
    /\ table \in [Func -> Definition] /\ parsed \subseteq Func
    /\ errors \in BOOLEAN /\ status \in Status /\ events \subseteq Event
BY DEF TypeOK, ParserObject

LEMMA ThisOK ==
  ASSUME ParserInv
  PROVE  /\ Len(parsers) \in Nat /\ Len(parsers) \in DOMAIN parsers
         /\ DOMAIN parsers = 1 .. Len(parsers)
         /\ This \in ParserObject /\ ParserOK(This)
<1>1. parsers \in Seq(ParserObject) /\ parsers # <<>>
  BY ParserTyped DEF ParserInv
<1>2. Len(parsers) \in Nat /\ Len(parsers) \in DOMAIN parsers /\ DOMAIN parsers = 1 .. Len(parsers)
  BY <1>1
<1>3. parsers[Len(parsers)] \in ParserObject
  BY <1>1, <1>2
<1> QED BY <1>2, <1>3 DEF ParserInv, This

\* No token is the end.
LEMMA TokensOnly ==
  /\ EOF \notin TokenKind /\ None \notin TokenKind /\ EOF # None
  /\ Left \in TokenKind /\ Right \in TokenKind /\ Left # Right
  /\ ";" \in TokenKind
BY DEF TokenKind, Keyword, Symbol, Operator, Name, EOF, None, Left, Right

LEMMA DepthCases ==
  ASSUME NEW p
  PROVE  /\ p.kind # "block" => Depth(p) = 0
         /\ p.kind = "block" /\ p.next = Left => Depth(p) = p.depth + 1
         /\ p.kind = "block" /\ p.next = Right => Depth(p) = p.depth - 1
         /\ p.kind = "block" /\ p.next # Left /\ p.next # Right => Depth(p) = p.depth
<1>1. CASE p.kind # "block"
  <2>1. Depth(p) = 0
    BY <1>1 DEF Depth
  <2> QED BY <1>1, <2>1
<1>2. CASE p.kind = "block" /\ p.next = Left
  <2>1. p.next # Right
    BY <1>2, TokensOnly
  <2>2. Depth(p) = p.depth + 1
    BY <1>2, <2>1 DEF Depth, Left, Right
  <2> QED BY <1>2, <2>1, <2>2
<1>3. CASE p.kind = "block" /\ p.next = Right
  <2>1. p.next # Left
    BY <1>3, TokensOnly
  <2>2. Depth(p) = p.depth - 1
    BY <1>3, <2>1 DEF Depth, Left, Right
  <2> QED BY <1>3, <2>1, <2>2
<1>4. CASE p.kind = "block" /\ p.next # Left /\ p.next # Right
  BY <1>4 DEF Depth, Left, Right
<1> QED BY <1>1, <1>2, <1>3, <1>4

LEMMA DepthTyped ==
  ASSUME NEW p \in ParserObject, TextOK(p), p.next # None
  PROVE  Depth(p) \in Nat
<1>1. p.depth \in Nat
  BY DEF ParserObject
<1>2. p.kind = "block" /\ p.depth = 0 => p.next = Left
  BY DEF TextOK
<1>3. Left # Right
  BY TokensOnly
<1> HIDE DEF Left, Right
<1>4. CASE p.kind = "block" /\ p.next = Right
  <2>1. p.depth # 0
    BY <1>2, <1>3, <1>4
  <2> QED BY <1>1, <1>4, <2>1, DepthCases
<1>5. CASE ~(p.kind = "block" /\ p.next = Right)
  BY <1>1, <1>5, DepthCases
<1> QED BY <1>4, <1>5

LEMMA AfterTyped ==
  ASSUME TypeOK, NEW p \in ParserObject, TextOK(p), p.next # None, NEW t \in After(p)
  PROVE  /\ t \in TokenKind \cup {EOF, None}
         /\ t = EOF => p.kind = "program"
         /\ p.kind = "block" /\ Depth(p) = 0 => t = None
<1>1. source.program \subseteq TokenKind /\ source.body \subseteq TokenKind
  BY SourceAssumption DEF TypeOK
<1>2. p.kind \in {"program", "block", "statement"}
  BY DEF ParserObject, Definition, TextOK
<1>3. CASE p.kind = "program"
  <2>1. t \in source.program \cup {EOF}
    BY <1>3 DEF After
  <2> QED BY <1>1, <1>3, <2>1
<1>4. CASE p.kind = "block"
  <2>1. (Depth(p) = 0 => t = None) /\ (Depth(p) # 0 => t \in source.body \cup {Right})
    BY <1>4 DEF After, Right
  <2> QED BY <1>1, <1>4, <2>1, TokensOnly
<1>5. CASE p.kind = "statement"
  <2>1. t \in source.body \cup {";", None}
    BY <1>5 DEF After
  <2>2. t \in TokenKind \cup {None}
    BY <1>1, <2>1, TokensOnly
  <2> QED BY <2>2, <1>5, TokensOnly
<1> QED BY <1>2, <1>3, <1>4, <1>5

\* A step of the innermost parser.
LEMMA Becomes ==
  ASSUME ParserInv, NEW p \in ParserObject, ParserOK(p), Become(p),
         source' = source, table' = table, parsed' = parsed, errors' \in BOOLEAN,
         p.func = This.func, status' \in Status, events' \subseteq Event
  PROVE  ParserInv'
<1>1. /\ source \in Source /\ parsers \in Seq(ParserObject) /\ parsers # <<>>
      /\ table \in [Func -> Definition] /\ parsed \subseteq Func
  BY ParserTyped DEF ParserInv
<1> DEFINE n == Len(parsers)
<1>2. n \in 1 .. Len(parsers) /\ DOMAIN parsers = 1 .. n /\ n \in Nat
  BY <1>1
<1>3. parsers' = [parsers EXCEPT ![n] = p]
  BY DEF Become
<1>4. parsers' \in Seq(ParserObject) /\ Len(parsers') = n
      /\ \A j \in 1 .. n : parsers'[j] = IF j = n THEN p ELSE parsers[j]
  BY <1>1, <1>2, <1>3, ExceptSeq
<1> HIDE DEF n
<1>5. parsers' # <<>> /\ DOMAIN parsers' = 1 .. n
  BY <1>2, <1>4
<1>6. \A j \in DOMAIN parsers' : ParserOK(parsers'[j]) /\ (parsers'[j].func = Main <=> j = 1)
  BY <1>2, <1>4, <1>5 DEF ParserInv, This, n
<1>7. TypeOK'
  BY <1>1, <1>4, <1>5 DEF TypeOK, ParserObject
<1> QED BY <1>6, <1>7 DEF ParserInv

LEMMA KeptLevels ==
  ASSUME NEW p \in ParserObject, ParserOK(p), NEW s, Follows(s, p.stack),
         NEW q \in ParserObject, q.stack = s, q.func = p.func,
         q.loop_level = p.loop_level, q.func_level = p.func_level, TextOK(q)
  PROVE  ParserOK(q)
BY DEF ParserOK, LevelsOK, Follows, Kept, Base

\* The productions.
LEMMA TakeInv ==
  ASSUME ParserInv, source' = source, NEW items, NEW tokens, NEW row, Take(items, tokens, row),
         \A t \in tokens : t # EOF /\ t # None,
         Follows(row \o Rest, This.stack)
  PROVE  ParserInv'
<1> DEFINE p == This
           s == row \o Rest
<1>1. p \in ParserObject /\ ParserOK(p) /\ TypeOK
  BY ThisOK DEF ParserInv
<1>2. PICK t \in After(p) :
        Become([p EXCEPT !.next = t, !.last = IF t = EOF THEN p.next ELSE None,
                         !.read = IF @ = source.tokens THEN @ ELSE @ + 1,
                         !.depth = Depth(p), !.stack = s])
  BY DEF Take, Consume
<1> DEFINE q == [p EXCEPT !.next = t, !.last = IF t = EOF THEN p.next ELSE None,
                          !.read = IF @ = source.tokens THEN @ ELSE @ + 1,
                          !.depth = Depth(p), !.stack = s]
<1>3. p.next # EOF /\ p.next # None /\ p.next \in TokenKind
  BY <1>1 DEF Take, Sees, ParserObject
<1>4. /\ t \in TokenKind \cup {EOF, None}
      /\ t = EOF => p.kind = "program"
      /\ p.kind = "block" /\ Depth(p) = 0 => t = None
      /\ Depth(p) \in Nat
  BY <1>1, <1>3, AfterTyped, DepthTyped DEF ParserOK
<1>5. p.kind # "declared"
  BY <1>1, <1>3 DEF ParserOK, TextOK
<1>6. s \in Seq(StackItem)
  BY DEF Follows, Kept, StackOK
<1> HIDE DEF p, s
<1>7. q \in ParserObject
  <2> DEFINE last == IF t = EOF THEN p.next ELSE None
             read == IF p.read = source.tokens THEN p.read ELSE p.read + 1
  <2>1. last \in TokenKind \cup {None}
    BY <1>3
  <2>2. read \in Nat
    BY <1>1 DEF ParserObject
  <2>3. q = [p EXCEPT !.next = t, !.last = last, !.read = read, !.depth = Depth(p), !.stack = s]
    BY <1>1 DEF ParserObject
  <2> HIDE DEF last, read, q
  <2> QED BY <1>1, <1>4, <1>6, <2>1, <2>2, <2>3 DEF ParserObject
<1>8. /\ q.stack = s /\ q.func = p.func /\ q.loop_level = p.loop_level
      /\ q.func_level = p.func_level
      /\ q.kind = p.kind /\ q.next = t /\ q.depth = Depth(p)
  BY <1>1 DEF ParserObject
<1> HIDE DEF q
<1>9. TextOK(q)
  BY <1>4, <1>5, <1>8 DEF TextOK
<1>10. ParserOK(q)
  BY <1>1, <1>7, <1>8, <1>9, KeptLevels DEF p, s
<1>11. /\ table' = table /\ parsed' = parsed /\ errors' \in BOOLEAN
       /\ status' \in Status /\ events' \subseteq Event
  BY <1>1 DEF TypeOK, Take
<1>12. Become(q)
  BY <1>2 DEF q
<1>13. q.func = This.func
  BY <1>8 DEF p
<1> QED BY <1>7, <1>10, <1>11, <1>12, <1>13, Becomes

LEMMA StackInv ==
  ASSUME ParserInv, source' = source, NEW s, Follows(s, This.stack), NEW failed \in BOOLEAN,
         Become([This EXCEPT !.failed = failed, !.stack = s]),
         table' = table, parsed' = parsed, errors' \in BOOLEAN, status' = status, events' = events
  PROVE  ParserInv'
<1> DEFINE p == This
           q == [p EXCEPT !.failed = failed, !.stack = s]
<1>1. p \in ParserObject /\ ParserOK(p) /\ TypeOK /\ s \in Seq(StackItem)
  BY ThisOK DEF ParserInv, Follows, Kept, StackOK
<1> HIDE DEF p
<1>2. q \in ParserObject
  BY <1>1 DEF ParserObject
<1>3. /\ q.stack = s /\ q.func = p.func /\ q.loop_level = p.loop_level
      /\ q.func_level = p.func_level
      /\ q.kind = p.kind /\ q.next = p.next /\ q.depth = p.depth
  BY <1>1 DEF ParserObject
<1> HIDE DEF q
<1>4. ParserOK(q)
  <2>1. TextOK(q)
    BY <1>1, <1>3 DEF ParserOK, TextOK
  <2> QED BY <1>1, <1>2, <1>3, <2>1, KeptLevels DEF p
<1>5. status' \in Status /\ events' \subseteq Event
  BY <1>1 DEF TypeOK
<1>6. Become(q) /\ q.func = This.func
  BY <1>3 DEF q, p
<1> QED BY <1>2, <1>4, <1>5, <1>6, Becomes

LEMMA PopStep ==
  ASSUME ParserInv, source' = source, NEW s, Follows(s, This.stack),
         Become([This EXCEPT !.stack = s]),
         table' = table, parsed' = parsed, errors' \in BOOLEAN, status' = status, events' = events
  PROVE  ParserInv'
<1>1. This \in ParserObject
  BY ThisOK
<1>2. [This EXCEPT !.stack = s] = [This EXCEPT !.failed = This.failed, !.stack = s]
      /\ This.failed \in BOOLEAN
  BY <1>1 DEF ParserObject
<1> QED BY <1>2, StackInv

LEMMA ReplaceInv ==
  ASSUME ParserInv, source' = source, NEW items, NEW tokens, NEW row, Replace(items, tokens, row),
         Follows(row \o Rest, This.stack)
  PROVE  ParserInv'
<1>1. errors' \in BOOLEAN
  BY DEF ParserInv, TypeOK, Replace
<1> QED BY <1>1, PopStep DEF Replace

LEMMA ThrowInv ==
  ASSUME ParserInv, source' = source, Throw, This.stack # <<>>, Ordinary(Item)
  PROVE  ParserInv'
<1> DEFINE r == IF This.stack[Catch] = "catch statement" THEN <<"synchronize", "report">>
                ELSE <<"report">>
           s == This.stack
<1>1. r \in Seq(Idle) /\ (r = <<"report">> \/ r = <<"synchronize", "report">>)
  <2>1. "synchronize" \in Idle /\ "report" \in Idle
    BY DEF Idle
  <2> QED BY <2>1, Rows
<1>2. StackOK(s) /\ s \in Seq(StackItem)
  BY ThisOK DEF ParserOK, StackOK
<1>3. Become([This EXCEPT !.failed = TRUE, !.stack = r \o Caught])
  BY DEF Throw
<1> HIDE DEF r
<1>4. Kept(r \o Caught, s)
  BY <1>1, <1>2, ThrowKept DEF Item
<1>5. ASSUME Rooted(s) PROVE Rooted(r \o Caught)
  <2>1. Catch \in 1 .. Len(s) /\ s[Catch] \in Handler
    BY <1>2, CatchFound DEF Item
  <2>2. /\ Caught \in Seq(StackItem) /\ Len(Caught) = Len(s) - Catch
        /\ Agree(Pile(s), Pile(Caught), Len(Caught))
    BY <1>2, <2>1, SubSeqPile DEF Caught
  <2> HIDE DEF s
  <2>3. Catch # Len(s)
    <3>1. ASSUME Catch = Len(s) PROVE FALSE
      <4>1. Len(s) + 1 - 1 = Catch
        BY <1>2, <3>1
      <4>2. Pile(s)[1] \in Handler
        BY <1>5, <2>1, <4>1 DEF Pile, Rooted
      <4>3. "parse" \notin Handler
        BY DEF Handler
      <4> QED BY <1>5, <4>2, <4>3 DEF Rooted
    <3> QED BY <3>1
  <2>4. Rooted(Caught)
    <3>1. 1 \in 1 .. Len(Caught)
      BY <1>2, <2>1, <2>2, <2>3
    <3> QED BY <1>5, <2>2, <3>1 DEF Agree, Rooted
  <2>5. r \in Seq(StackItem)
    <3>1. "synchronize" \in StackItem /\ "report" \in StackItem
      BY DEF StackItem, Function, Silent
    <3> QED BY <1>1, <3>1, Rows
  <2> QED BY <2>2, <2>4, <2>5, RootPush
<1>6. Follows(r \o Caught, s)
  BY <1>4, <1>5 DEF Follows
<1>7. table' = table /\ parsed' = parsed /\ errors' \in BOOLEAN
      /\ status' = status /\ events' = events
  BY DEF Throw, ParserInv, TypeOK
<1> QED BY <1>3, <1>6, <1>7, StackInv

-----------------------------------------------------------------------------
(* The productions, by what they replace.                                  *)

LEMMA TopFollows ==
  ASSUME NEW s, StackOK(s), s # <<>>, Head(s) # "parse", NEW r \in Seq(StackItem),
         Kept(r \o Tail(s), s)
  PROVE  Follows(r \o Tail(s), s)
<1>1. s \in Seq(StackItem) /\ Tail(s) \in Seq(StackItem)
  BY TailPile DEF StackOK
<1> QED BY <1>1, RootTail, RootPush DEF Follows

LEMMA NotParse ==
  ASSUME NEW x, Ordinary(x)
  PROVE  x # "parse"
BY DEF Ordinary, Idle

LEMMA RowFollows ==
  ASSUME ParserInv, This.stack # <<>>, Ordinary(Item), NEW r \in Seq(Common)
  PROVE  Follows(r \o Rest, This.stack)
<1>1. StackOK(This.stack)
  BY ThisOK DEF ParserOK
<1> QED BY <1>1, Produce, CommonOnly, NotParse, TopFollows DEF Item, Rest

LEMMA BodyFollows ==
  ASSUME ParserInv, This.stack # <<>>, Ordinary(Item), NEW r \in Seq(Common),
         NEW b, b = LoopBody \/ b = FuncBody
  PROVE  Follows((r \o b) \o Rest, This.stack)
<1>1. StackOK(This.stack)
  BY ThisOK DEF ParserOK
<1>2. r \o b \in Seq(StackItem)
  BY CommonOnly, Bodies, ConcatProperties
<1> QED BY <1>1, <1>2, ProduceBody, NotParse, TopFollows DEF Item, Rest

LEMMA DropFollows ==
  ASSUME ParserInv, This.stack # <<>>, Item \notin Counting, Item # "parse"
  PROVE  Follows(<<>> \o Rest, This.stack) /\ Follows(Rest, This.stack)
<1>1. StackOK(This.stack) /\ This.stack \in Seq(StackItem)
  BY ThisOK DEF ParserOK, StackOK
<1>2. Kept(<<>> \o Rest, This.stack) /\ Kept(Rest, This.stack)
  BY <1>1, Drop DEF Item, Rest
<1>3. Rooted(This.stack) => Rooted(Rest)
  BY <1>1, RootTail DEF Item, Rest
<1>4. <<>> \o Rest = Rest
  BY <1>1, TailPile, ConcatEmptySeq DEF Rest
<1> QED BY <1>2, <1>3, <1>4 DEF Follows

\* A production of ordinary items.
Clean(items, row) == (\A x \in items : Ordinary(x)) /\ row \in Seq(Common)

LEMMA ReplaceStep ==
  ASSUME ParserInv, source' = source, NEW items, NEW tokens, NEW row,
         Replace(items, tokens, row), Clean(items, row)
  PROVE  ParserInv'
<1>1. This.stack # <<>> /\ Ordinary(Item)
  BY DEF Replace, At, Clean
<1> QED BY <1>1, RowFollows, ReplaceInv DEF Clean

LEMMA TakeStep ==
  ASSUME ParserInv, source' = source, NEW items, NEW tokens, NEW row,
         Take(items, tokens, row), Clean(items, row), EOF \notin tokens, None \notin tokens
  PROVE  ParserInv'
<1>1. This.stack # <<>> /\ Ordinary(Item)
  BY DEF Take, At, Clean
<1> QED BY <1>1, RowFollows, TakeInv DEF Clean

LEMMA FailStep ==
  ASSUME ParserInv, source' = source, NEW items, NEW tokens, Fail(items, tokens),
         \A x \in items : Ordinary(x)
  PROVE  ParserInv'
<1>1. This.stack # <<>> /\ Ordinary(Item) /\ Throw
  BY DEF Fail, At
<1> QED BY <1>1, ThrowInv

LEMMA TakeBody ==
  ASSUME ParserInv, source' = source, NEW items, NEW tokens, NEW row, NEW b,
         Take(items, tokens, row \o b), Clean(items, row), b = LoopBody \/ b = FuncBody,
         EOF \notin tokens, None \notin tokens
  PROVE  ParserInv'
<1>1. This.stack # <<>> /\ Ordinary(Item)
  BY DEF Take, At, Clean
<1> QED BY <1>1, BodyFollows, TakeInv DEF Clean

LEMMA ReplaceBody ==
  ASSUME ParserInv, source' = source, NEW items, NEW tokens, NEW b,
         Replace(items, tokens, b), \A x \in items : Ordinary(x), b = LoopBody \/ b = FuncBody
  PROVE  ParserInv'
<1>1. This.stack # <<>> /\ Ordinary(Item)
  BY DEF Replace, At
<1>2. <<>> \in Seq(Common)
  BY EmptySeq
<1>3. <<>> \o b = b
  BY Bodies, ConcatEmptySeq
<1> QED BY <1>1, <1>2, <1>3, BodyFollows, ReplaceInv

-----------------------------------------------------------------------------
(* The words of the grammar.                                               *)

LEMMA Words ==
  /\ \A x \in Function : x \in Common
  /\ \A x \in TokenKind : x \in Common
<1>1. ASSUME NEW x \in Function PROVE x \in Common
  BY <1>1 DEF Function, Common, StackItem, Counting
<1>2. ASSUME NEW x \in TokenKind PROVE x \in Common
  BY <1>2 DEF TokenKind, Keyword, Symbol, Operator, Name, Common, StackItem, Counting
<1> QED BY <1>1, <1>2

LEMMA OrdinaryWords ==
  /\ \A x \in TokenKind : Ordinary(x)
  /\ \A x \in Function : x \notin Idle => Ordinary(x)
<1>1. ASSUME NEW x \in TokenKind PROVE Ordinary(x)
  BY <1>1 DEF TokenKind, Keyword, Symbol, Operator, Name, Ordinary, Counting, Handler, Idle
<1>2. ASSUME NEW x \in Function, x \notin Idle PROVE Ordinary(x)
  BY <1>2 DEF Function, Ordinary, Counting, Handler
<1> QED BY <1>1, <1>2

LEMMA SilentWords ==
  /\ "cast" \in Common /\ "call" \in Common /\ "in loop" \in Common /\ "in function" \in Common
  /\ "catch expression" \in Common
<1>1. \A x \in Silent : x \notin Counting /\ x # "report" => x \in Common
  BY DEF Common, StackItem
<1> QED BY <1>1 DEF Silent, Handler, Counting

\* Rows of words.
LEMMA Row0 == <<>> \in Seq(Common)
BY EmptySeq

LEMMA Row1 ==
  ASSUME NEW a \in Common
  PROVE  <<a>> \in Seq(Common)
BY Rows

LEMMA Row2 ==
  ASSUME NEW a \in Common, NEW b \in Common
  PROVE  <<a, b>> \in Seq(Common)
BY Rows

LEMMA Row3 ==
  ASSUME NEW a \in Common, NEW b \in Common, NEW c \in Common
  PROVE  <<a, b, c>> \in Seq(Common)
BY Rows

LEMMA Row4 ==
  ASSUME NEW a \in Common, NEW b \in Common, NEW c \in Common, NEW d \in Common
  PROVE  <<a, b, c, d>> \in Seq(Common)
BY Rows

LEMMA Row5 ==
  ASSUME NEW a \in Common, NEW b \in Common, NEW c \in Common, NEW d \in Common, NEW e \in Common
  PROVE  <<a, b, c, d, e>> \in Seq(Common)
BY Rows

LEMMA Row6 ==
  ASSUME NEW a \in Common, NEW b \in Common, NEW c \in Common, NEW d \in Common,
         NEW e \in Common, NEW f \in Common
  PROVE  <<a, b, c, d, e, f>> \in Seq(Common)
BY Rows

LEMMA Row7 ==
  ASSUME NEW a \in Common, NEW b \in Common, NEW c \in Common, NEW d \in Common,
         NEW e \in Common, NEW f \in Common, NEW g \in Common
  PROVE  <<a, b, c, d, e, f, g>> \in Seq(Common)
BY Rows

LEMMA RowConcat ==
  ASSUME NEW r \in Seq(Common), NEW q \in Seq(Common)
  PROVE  r \o q \in Seq(Common)
BY ConcatProperties

LEMMA NamedRows ==
  /\ Binary \in Seq(Common) /\ Assignment \in Seq(Common)
  /\ Continued \in Seq(Common) /\ Condition \in Seq(Common)
<1>1. Binary \in Seq(Common)
  BY Words, Row2 DEF Binary, Function
<1>2. <<"alternatives", "assignments">> \in Seq(Common)
  BY Words, Row2 DEF Function
<1>3. Assignment \in Seq(Common)
  BY <1>1, <1>2, RowConcat DEF Assignment
<1>4. Continued \in Seq(Common)
  BY Words, Row5 DEF Continued, Function
<1>5. Condition \in Seq(Common)
  BY Words, Row3 DEF Condition, Function, TokenKind, Symbol
<1> QED BY <1>1, <1>3, <1>4, <1>5

LEMMA BodyRow == Body = LoopBody
BY DEF Body, LoopBody

LEMMA ExpressionInv ==
  ASSUME ParserInv, source' = source, expression
  PROVE  ParserInv'
<1>1. Assignment \o <<"catch expression">> \in Seq(Common)
  BY NamedRows, Row1, RowConcat, SilentWords, Words
  DEF Function
<1> QED BY <1>1, OrdinaryWords, ReplaceStep
    DEF Clean, Function, Idle, expression

LEMMA ExprStmtInv ==
  ASSUME ParserInv, source' = source, expr_stmt
  PROVE  ParserInv'
<1>1. Assignment \o <<";">> \in Seq(Common)
  BY NamedRows, Row1, RowConcat, Words
  DEF Function, Symbol, TokenKind
<1> QED BY <1>1, OrdinaryWords, ReplaceStep
    DEF Clean, FromFor, Function, Idle, expr_stmt

LEMMA BlockStmtInv ==
  ASSUME ParserInv, source' = source, block_stmt
  PROVE  ParserInv'
<1>1. CASE Take(FromFor, {"{"}, <<"block">>)
  BY <1>1, OrdinaryWords, Row1, TakeStep, Words
  DEF Clean, EOF, FromFor, Function, Idle, None
<1>2. CASE Replace({"block"}, But({EOF}), <<"statement", "block end">>)
  BY <1>2, OrdinaryWords, ReplaceStep, Row2, Words
  DEF Clean, Function, Idle
<1>3. CASE Fail({"block"}, {EOF})
  BY <1>3, FailStep, OrdinaryWords
  DEF Function, Idle
<1>4. CASE Take({"block end"}, {"}"}, <<>>)
  BY <1>4, OrdinaryWords, Row0, TakeStep
  DEF Clean, EOF, Function, Idle, None
<1>5. CASE Replace({"block end"}, But({"}"}), <<"block">>)
  BY <1>5, OrdinaryWords, ReplaceStep, Row1, Words
  DEF Clean, Function, Idle
<1> QED BY <1>1, <1>2, <1>3, <1>4, <1>5 DEF block_stmt

LEMMA BreakStmtInv ==
  ASSUME ParserInv, source' = source, break_stmt
  PROVE  ParserInv'
<1>1. <<"in loop", ";">> \in Seq(Common)
  BY Row2, SilentWords, Words
  DEF Function, Symbol, TokenKind
<1> QED BY <1>1, OrdinaryWords, TakeStep
    DEF Clean, EOF, FromFor, Function, Idle, None, break_stmt

LEMMA ReturnStmtInv ==
  ASSUME ParserInv, source' = source, return_stmt
  PROVE  ParserInv'
<1>1. <<"in function", "expression", ";">> \in Seq(Common)
  BY Row3, SilentWords, Words
  DEF Function, Symbol, TokenKind
<1> QED BY <1>1, OrdinaryWords, TakeStep
    DEF Clean, EOF, FromFor, Function, Idle, None, return_stmt

LEMMA PrintStmtInv ==
  ASSUME ParserInv, source' = source, print_stmt
  PROVE  ParserInv'
<1>1. <<"expression", ";">> \in Seq(Common)
  BY Row2, Words
  DEF Function, Symbol, TokenKind
<1> QED BY <1>1, OrdinaryWords, TakeStep
    DEF Clean, EOF, FromFor, Function, Idle, None, print_stmt

LEMMA IfStmtInv ==
  ASSUME ParserInv, source' = source, if_stmt
  PROVE  ParserInv'
<1>1. Condition \o <<"statement", "elif_stmt">> \in Seq(Common)
  BY NamedRows, Row2, RowConcat, Words
  DEF Function
<1> QED BY <1>1, OrdinaryWords, TakeStep
    DEF Clean, EOF, FromFor, Function, Idle, None, if_stmt

LEMMA ElifStmtInv ==
  ASSUME ParserInv, source' = source, elif_stmt
  PROVE  ParserInv'
<1>1. CASE Take({"elif_stmt"}, {"elif"}, Condition \o <<"statement", "elif_stmt">>)
  <2>1. Condition \o <<"statement", "elif_stmt">> \in Seq(Common)
    BY NamedRows, Row2, RowConcat, Words DEF Function
  <2> QED BY <1>1, <2>1, OrdinaryWords, TakeStep
      DEF Clean, EOF, Function, Idle, None
<1>2. CASE Take({"elif_stmt"}, {"else"}, <<"statement">>)
  BY <1>2, OrdinaryWords, Row1, TakeStep, Words
  DEF Clean, EOF, Function, Idle, None
<1>3. CASE Replace({"elif_stmt"}, But({"elif", "else"}), <<>>)
  BY <1>3, OrdinaryWords, ReplaceStep, Row0
  DEF Clean, Function, Idle
<1> QED BY <1>1, <1>2, <1>3 DEF elif_stmt

LEMMA WhileStmtInv ==
  ASSUME ParserInv, source' = source, while_stmt
  PROVE  ParserInv'
BY BodyRow, NamedRows, OrdinaryWords, TakeBody
DEF Clean, EOF, FromFor, Function, Idle, None, while_stmt

LEMMA ForStmtInv ==
  ASSUME ParserInv, source' = source, for_stmt
  PROVE  ParserInv'
<1>1. <<"(", "statement", "expression", ";", "expression", ")">> \in Seq(Common)
  BY Row6, Words
  DEF Function, Symbol, TokenKind
<1> QED BY <1>1, BodyRow, OrdinaryWords, TakeBody
    DEF Clean, EOF, FromFor, Function, Idle, None, for_stmt

LEMMA VarDeclStmtInv ==
  ASSUME ParserInv, source' = source, var_decl_stmt
  PROVE  ParserInv'
<1>1. CASE Take({"class_decl_stmt"}, {"type"}, <<"declarator">>)
  BY <1>1, OrdinaryWords, Row1, TakeStep, Words
  DEF Clean, EOF, Function, Idle, None
<1>2. CASE Take({"declarator", "const declarator", "member", "const member"}, Name,
                <<"initializer", ";">>)
  <2>1. <<"initializer", ";">> \in Seq(Common)
    BY Row2, Words DEF Function, Symbol, TokenKind
  <2> QED BY <1>2, <2>1, OrdinaryWords, TakeStep
      DEF Clean, EOF, Function, Idle, Name, None
<1>3. CASE Replace({"declarator"}, But(Name \cup {"["}), Continued \o <<";">>)
  <2>1. Continued \o <<";">> \in Seq(Common)
    BY NamedRows, Row1, RowConcat, Words DEF Function, Symbol, TokenKind
  <2> QED BY <1>3, <2>1, OrdinaryWords, ReplaceStep
      DEF Clean, Function, Idle
<1>4. CASE Replace({"member"}, But(Name), Continued \o <<";", "cast">>)
  <2>1. Continued \o <<";", "cast">> \in Seq(Common)
    BY NamedRows, Row2, RowConcat, SilentWords, Words DEF Function, Symbol, TokenKind
  <2> QED BY <1>4, <2>1, OrdinaryWords, ReplaceStep
      DEF Clean, Function, Idle
<1>5. CASE Fail({"const declarator"}, But(Name \cup {"["}))
  BY <1>5, FailStep, OrdinaryWords
  DEF Function, Idle
<1>6. CASE Fail({"const member"}, But(Name))
  BY <1>6, FailStep, OrdinaryWords
  DEF Function, Idle
<1>7. CASE Take({"initializer"}, {"="}, <<"expression">>)
  BY <1>7, OrdinaryWords, Row1, TakeStep, Words
  DEF Clean, EOF, Function, Idle, None
<1>8. CASE Replace({"initializer"}, But({"="}), <<>>)
  BY <1>8, OrdinaryWords, ReplaceStep, Row0
  DEF Clean, Function, Idle
<1> QED BY <1>1, <1>2, <1>3, <1>4, <1>5, <1>6, <1>7, <1>8 DEF var_decl_stmt

LEMMA ConstInv ==
  ASSUME ParserInv, source' = source, Const
  PROVE  ParserInv'
<1>1. CASE Take({"class_decl_stmt"}, {"const"}, <<"const arr">>)
  BY <1>1, OrdinaryWords, Row1, TakeStep, Words
  DEF Clean, EOF, Function, Idle, None
<1>2. CASE Take({"const arr"}, {"type"}, <<"const declarator">>)
  BY <1>2, OrdinaryWords, Row1, TakeStep, Words
  DEF Clean, EOF, Function, Idle, None
<1>3. CASE Take({"const arr"}, {"const"}, <<"const var">>)
  BY <1>3, OrdinaryWords, Row1, TakeStep, Words
  DEF Clean, EOF, Function, Idle, None
<1>4. CASE Replace({"const arr"}, But({"type", "const"}), <<"for_stmt">>)
  BY <1>4, OrdinaryWords, ReplaceStep, Row1, Words
  DEF Clean, Function, Idle
<1>5. CASE Take({"const var"}, {"type"}, <<"const member">>)
  BY <1>5, OrdinaryWords, Row1, TakeStep, Words
  DEF Clean, EOF, Function, Idle, None
<1>6. CASE Replace({"const var"}, But({"type"}), <<"for_stmt">>)
  BY <1>6, OrdinaryWords, ReplaceStep, Row1, Words
  DEF Clean, Function, Idle
<1>7. CASE Fail({"for_stmt"}, {"const", "def", "class"})
  BY <1>7, FailStep, OrdinaryWords
  DEF Function, Idle
<1> QED BY <1>1, <1>2, <1>3, <1>4, <1>5, <1>6, <1>7 DEF Const

LEMMA ArrDeclStmtInv ==
  ASSUME ParserInv, source' = source, arr_decl_stmt
  PROVE  ParserInv'
<1>1. CASE Take({"declarator", "const declarator"}, {"["},
                <<"number", "]", "name", "array initializer", "{", "values", ";">>)
  <2>1. <<"number", "]", "name", "array initializer", "{", "values", ";">> \in Seq(Common)
    BY Row7, Words DEF Function, Symbol, TokenKind
  <2> QED BY <1>1, <2>1, OrdinaryWords, TakeStep
      DEF Clean, EOF, Function, Idle, None
<1>2. CASE Take({"array initializer"}, {"="}, <<>>)
  BY <1>2, OrdinaryWords, Row0, TakeStep
  DEF Clean, EOF, Function, Idle, None
<1>3. CASE Replace({"array initializer"}, But({"="}), <<>>)
  BY <1>3, OrdinaryWords, ReplaceStep, Row0
  DEF Clean, Function, Idle
<1> QED BY <1>1, <1>2, <1>3 DEF arr_decl_stmt

LEMMA FuncDeclStmtInv ==
  ASSUME ParserInv, source' = source, func_decl_stmt
  PROVE  ParserInv'
<1>1. CASE Take({"class_decl_stmt", "func_decl_stmt"}, {"def"},
                <<"name", "(", "parameters", "result", "body">>)
  <2>1. <<"name", "(", "parameters", "result", "body">> \in Seq(Common)
    BY Row5, Words DEF Function, Symbol, TokenKind
  <2> QED BY <1>1, <2>1, OrdinaryWords, TakeStep
      DEF Clean, EOF, Function, Idle, None
<1>2. CASE Take({"result"}, {"->"}, <<"get_type">>)
  BY <1>2, OrdinaryWords, Row1, TakeStep, Words
  DEF Clean, EOF, Function, Idle, None
<1>3. CASE Replace({"result"}, But({"->"}), <<>>)
  BY <1>3, OrdinaryWords, ReplaceStep, Row0
  DEF Clean, Function, Idle
<1>4. CASE Take({"body"}, {";"}, <<>>)
  BY <1>4, OrdinaryWords, Row0, TakeStep
  DEF Clean, EOF, Function, Idle, None
<1>5. CASE Replace({"body"}, But({";"}), <<"func++", "statement", "func--">>)
  BY <1>5, OrdinaryWords, ReplaceBody
  DEF FuncBody, Function, Idle
<1> QED BY <1>1, <1>2, <1>3, <1>4, <1>5 DEF func_decl_stmt

LEMMA GetTypeInv ==
  ASSUME ParserInv, source' = source, get_type
  PROVE  ParserInv'
<1>1. CASE Take({"get_type"}, {"const"}, <<"type">>)
  <2>1. <<"type">> \in Seq(Common)
    BY Row1, Words DEF Function, Name, TokenKind
  <2> QED BY <1>1, <2>1, OrdinaryWords, TakeStep
      DEF Clean, EOF, Function, Idle, None
<1>2. CASE Replace({"get_type"}, But({"const"}), <<"type">>)
  <2>1. <<"type">> \in Seq(Common)
    BY Row1, Words DEF Function, Name, TokenKind
  <2> QED BY <1>2, <2>1, OrdinaryWords, ReplaceStep
      DEF Clean, Function, Idle
<1> QED BY <1>1, <1>2 DEF get_type

LEMMA ClassDeclStmtInv ==
  ASSUME ParserInv, source' = source, class_decl_stmt
  PROVE  ParserInv'
<1>1. CASE Take({"class_decl_stmt"}, {"class"}, <<"name", "{", "members">>)
  <2>1. <<"name", "{", "members">> \in Seq(Common)
    BY Row3, Words DEF Function, Symbol, TokenKind
  <2> QED BY <1>1, <2>1, OrdinaryWords, TakeStep
      DEF Clean, EOF, Function, Idle, None
<1>2. CASE Fail({"members"}, {EOF})
  BY <1>2, FailStep, OrdinaryWords
  DEF Function, Idle
<1>3. CASE Replace({"members"}, {"def"}, <<"func_decl_stmt", "members">>)
  BY <1>3, OrdinaryWords, ReplaceStep, Row2, Words
  DEF Clean, Function, Idle
<1>4. CASE Take({"members"}, {"type"}, <<"member", "members">>)
  BY <1>4, OrdinaryWords, Row2, TakeStep, Words
  DEF Clean, EOF, Function, Idle, None
<1>5. CASE Take({"members"}, {"const"}, <<"const members">>)
  BY <1>5, OrdinaryWords, Row1, TakeStep, Words
  DEF Clean, EOF, Function, Idle, None
<1>6. CASE Take({"members", "members end"}, {"}"}, <<>>)
  BY <1>6, OrdinaryWords, Row0, TakeStep
  DEF Clean, EOF, Function, Idle, None
<1>7. CASE Fail({"members"}, But({EOF, "def", "type", "const", "}"}))
  BY <1>7, FailStep, OrdinaryWords
  DEF Function, Idle
<1>8. CASE Take({"const members"}, {"type"}, <<"const member", "members">>)
  BY <1>8, OrdinaryWords, Row2, TakeStep, Words
  DEF Clean, EOF, Function, Idle, None
<1>9. CASE Replace({"const members"}, But({"type"}), <<"members end">>)
  BY <1>9, OrdinaryWords, ReplaceStep, Row1, Words
  DEF Clean, Function, Idle
<1>10. CASE Fail({"members end"}, But({"}"}))
  BY <1>10, FailStep, OrdinaryWords
  DEF Function, Idle
<1> QED BY <1>1, <1>2, <1>3, <1>4, <1>5, <1>6, <1>7, <1>8, <1>9, <1>10 DEF class_decl_stmt

LEMMA AssignmentExprInv ==
  ASSUME ParserInv, source' = source, assignment_expr
  PROVE  ParserInv'
<1>1. CASE Take({"assignments"}, {"="}, Assignment \o <<"assignments">>)
  <2>1. Assignment \o <<"assignments">> \in Seq(Common)
    BY NamedRows, Row1, RowConcat, Words DEF Function
  <2> QED BY <1>1, <2>1, OrdinaryWords, TakeStep
      DEF Clean, EOF, Function, Idle, None
<1>2. CASE Replace({"assignments"}, But({"="}), <<>>)
  BY <1>2, OrdinaryWords, ReplaceStep, Row0
  DEF Clean, Function, Idle
<1> QED BY <1>1, <1>2 DEF assignment_expr

LEMMA TernaryExprInv ==
  ASSUME ParserInv, source' = source, ternary_expr
  PROVE  ParserInv'
<1>1. CASE Take({"alternatives"}, {"?"}, Binary \o <<":">> \o Binary)
  <2>1. Binary \o <<":">> \o Binary \in Seq(Common)
    BY NamedRows, Row1, RowConcat, Words DEF Function, Symbol, TokenKind
  <2> QED BY <1>1, <2>1, OrdinaryWords, TakeStep
      DEF Clean, EOF, Function, Idle, None
<1>2. CASE Replace({"alternatives"}, But({"?"}), <<>>)
  BY <1>2, OrdinaryWords, ReplaceStep, Row0
  DEF Clean, Function, Idle
<1> QED BY <1>1, <1>2 DEF ternary_expr

LEMMA BinaryExprInv ==
  ASSUME ParserInv, source' = source, binary_expr
  PROVE  ParserInv'
<1>1. CASE Take({"operations"}, {"op", "-"}, <<"unary_expr", "operations">>)
  BY <1>1, OrdinaryWords, Row2, TakeStep, Words
  DEF Clean, EOF, Function, Idle, None
<1>2. CASE Replace({"operations"}, But({"op", "-"}), <<>>)
  BY <1>2, OrdinaryWords, ReplaceStep, Row0
  DEF Clean, Function, Idle
<1> QED BY <1>1, <1>2 DEF binary_expr

LEMMA UnaryExprInv ==
  ASSUME ParserInv, source' = source, unary_expr
  PROVE  ParserInv'
<1>1. CASE Take({"unary_expr"}, {"!", "-"}, <<"unary_expr">>)
  BY <1>1, OrdinaryWords, Row1, TakeStep, Words
  DEF Clean, EOF, Function, Idle, None
<1>2. CASE Replace({"unary_expr"}, But({"!", "-"}), <<"array_access_expr", "postfix">>)
  BY <1>2, OrdinaryWords, ReplaceStep, Row2, Words
  DEF Clean, Function, Idle
<1>3. CASE Take({"postfix"}, {"++"}, <<>>)
  BY <1>3, OrdinaryWords, Row0, TakeStep
  DEF Clean, EOF, Function, Idle, None
<1>4. CASE Replace({"postfix"}, But({"++"}), <<>>)
  BY <1>4, OrdinaryWords, ReplaceStep, Row0
  DEF Clean, Function, Idle
<1> QED BY <1>1, <1>2, <1>3, <1>4 DEF unary_expr

LEMMA OperandInv ==
  ASSUME ParserInv, source' = source, operand
  PROVE  ParserInv'
<1>1. CASE Take({"array_access_expr"}, Name, <<"identifier">>)
  BY <1>1, OrdinaryWords, Row1, TakeStep, Words
  DEF Clean, EOF, Function, Idle, Name, None
<1>2. CASE Take({"array_access_expr"}, {"new"}, <<"name", "(", "arguments">>)
  <2>1. <<"name", "(", "arguments">> \in Seq(Common)
    BY Row3, Words DEF Function, Symbol, TokenKind
  <2> QED BY <1>2, <2>1, OrdinaryWords, TakeStep
      DEF Clean, EOF, Function, Idle, None
<1>3. CASE Take({"identifier"}, {"["}, <<"expression", "]">>)
  <2>1. <<"expression", "]">> \in Seq(Common)
    BY Row2, Words DEF Function, Symbol, TokenKind
  <2> QED BY <1>3, <2>1, OrdinaryWords, TakeStep
      DEF Clean, EOF, Function, Idle, None
<1>4. CASE Take({"identifier"}, {"."}, <<"call_expr">>)
  BY <1>4, OrdinaryWords, Row1, TakeStep, Words
  DEF Clean, EOF, Function, Idle, None
<1>5. CASE Replace({"identifier"}, But({"[", ".", "("}), <<>>)
  BY <1>5, OrdinaryWords, ReplaceStep, Row0
  DEF Clean, Function, Idle
<1> QED BY <1>1, <1>2, <1>3, <1>4, <1>5 DEF operand

LEMMA CallExprInv ==
  ASSUME ParserInv, source' = source, call_expr
  PROVE  ParserInv'
<1>1. CASE Take({"call_expr"}, Name, <<"called">>)
  BY <1>1, OrdinaryWords, Row1, TakeStep, Words
  DEF Clean, EOF, Function, Idle, Name, None
<1>2. CASE Take({"identifier", "called"}, {"("}, <<"arguments", "call">>)
  BY <1>2, OrdinaryWords, Row2, SilentWords, TakeStep, Words
  DEF Clean, EOF, Function, Idle, None
<1>3. CASE Replace({"called"}, But({"("}), <<>>)
  BY <1>3, OrdinaryWords, ReplaceStep, Row0
  DEF Clean, Function, Idle
<1> QED BY <1>1, <1>2, <1>3 DEF call_expr

LEMMA PrimaryExprInv ==
  ASSUME ParserInv, source' = source, primary_expr
  PROVE  ParserInv'
<1>1. CASE Take({"array_access_expr", "call_expr"}, {"number", "literal"}, <<>>)
  BY <1>1, OrdinaryWords, Row0, TakeStep
  DEF Clean, EOF, Function, Idle, None
<1>2. CASE Take({"array_access_expr", "call_expr"}, {"("}, <<"expression", ")">>)
  <2>1. <<"expression", ")">> \in Seq(Common)
    BY Row2, Words DEF Function, Symbol, TokenKind
  <2> QED BY <1>2, <2>1, OrdinaryWords, TakeStep
      DEF Clean, EOF, Function, Idle, None
<1>3. CASE Fail({"array_access_expr"}, But(Name \cup {"new", "number", "literal", "("}))
  BY <1>3, FailStep, OrdinaryWords
  DEF Function, Idle
<1>4. CASE Fail({"call_expr"}, But(Name \cup {"number", "literal", "("}))
  BY <1>4, FailStep, OrdinaryWords
  DEF Function, Idle
<1> QED BY <1>1, <1>2, <1>3, <1>4 DEF primary_expr

\* The lists, whatever is between the commas.
LEMMA ListInv ==
  ASSUME ParserInv, source' = source, NEW item, NEW rest, NEW member, NEW close,
         List(item, rest, member, close), Ordinary(item), Ordinary(rest), item \in Common,
         member \o <<rest>> \in Seq(Common), close # EOF, close # None
  PROVE  ParserInv'
<1>1. <<>> \in Seq(Common) /\ <<item>> \in Seq(Common)
  BY Row0, Row1
<1>2. /\ Clean({item}, <<>>) /\ Clean({rest}, <<>>) /\ Clean({rest}, <<item>>)
      /\ Clean({item}, member \o <<rest>>)
  BY <1>1 DEF Clean
<1>3. (\A x \in {item} : Ordinary(x)) /\ (\A x \in {rest} : Ordinary(x))
  OBVIOUS
<1>4. EOF \notin {close} /\ None \notin {close} /\ EOF \notin {","} /\ None \notin {","}
  BY DEF EOF, None
<1>5. CASE Take({item}, {close}, <<>>)
  BY <1>2, <1>4, <1>5, TakeStep
<1>6. CASE Fail({item}, {EOF})
  BY <1>3, <1>6, FailStep
<1>7. CASE Replace({item}, But({close, EOF}), member \o <<rest>>)
  BY <1>2, <1>7, ReplaceStep
<1>8. CASE Take({rest}, {","}, <<item>>)
  BY <1>2, <1>4, <1>8, TakeStep
<1>9. CASE Take({rest}, {close}, <<>>)
  BY <1>2, <1>4, <1>9, TakeStep
<1>10. CASE Fail({rest}, But({",", close}))
  <2> DEFINE others == But({",", close})
  <2>1. Fail({rest}, others)
    BY <1>10
  <2> HIDE DEF others
  <2> QED BY <1>3, <2>1, FailStep
<1> QED BY <1>5, <1>6, <1>7, <1>8, <1>9, <1>10 DEF List

LEMMA ListsInv ==
  ASSUME ParserInv, source' = source, Lists
  PROVE  ParserInv'
<1>1. CASE List("parameters", "after parameter", <<"get_type", "name">>, ")")
  <2>1. <<"get_type", "name">> \o <<"after parameter">> \in Seq(Common)
    BY Words, Row1, Row2, RowConcat DEF Function
  <2> QED BY <1>1, <2>1, Words, OrdinaryWords, ListInv DEF Function, Idle, EOF, None
<1>2. CASE List("arguments", "after argument", <<"expression">>, ")")
  <2>1. <<"expression">> \o <<"after argument">> \in Seq(Common)
    BY Words, Row1, RowConcat DEF Function
  <2> QED BY <1>2, <2>1, Words, OrdinaryWords, ListInv DEF Function, Idle, EOF, None
<1>3. CASE List("values", "after value", <<"expression">>, "}")
  <2>1. <<"expression">> \o <<"after value">> \in Seq(Common)
    BY Words, Row1, RowConcat DEF Function
  <2> QED BY <1>3, <2>1, Words, OrdinaryWords, ListInv DEF Function, Idle, EOF, None
<1> QED BY <1>1, <1>2, <1>3 DEF Lists

\* An expected token.
LEMMA ExpectInv ==
  ASSUME ParserInv, source' = source, Expect
  PROVE  ParserInv'
<1>1. CASE Take(TokenKind, {Item}, <<>>)
  <2>1. Item \in TokenKind
    BY <1>1 DEF Take, At
  <2>2. EOF \notin {Item} /\ None \notin {Item}
    BY <2>1, TokensOnly
  <2> QED BY <1>1, <2>2, OrdinaryWords, Row0, TakeStep DEF Clean
<1>2. CASE Fail(TokenKind, But({Item}))
  BY <1>2, OrdinaryWords, FailStep
<1>3. CASE Take({"name"}, Name, <<>>)
  BY <1>3, OrdinaryWords, Row0, TakeStep DEF Clean, Function, Idle, Name, EOF, None
<1>4. CASE Fail({"name"}, But(Name))
  BY <1>4, OrdinaryWords, FailStep DEF Function, Idle
<1> QED BY <1>1, <1>2, <1>3, <1>4 DEF Expect

\* The try block of statement(), and the loop of parse().
LEMMA StatementInv ==
  ASSUME ParserInv, source' = source, statement \/ parse
  PROVE  ParserInv'
<1>1. StackOK(This.stack) /\ This.stack \in Seq(StackItem)
  BY ThisOK DEF ParserOK, StackOK
<1>2. CASE statement
  <2> DEFINE r == <<"class_decl_stmt", "catch statement">>
  <2>1. This.stack # <<>> /\ Item = "statement"
    BY <1>2 DEF statement, Replace, At
  <2>2. Kept(r \o Rest, This.stack)
    BY <1>1, <2>1, ProduceTry DEF Item, Rest
  <2>3. r \in Seq(StackItem)
    <3>1. "class_decl_stmt" \in StackItem /\ "catch statement" \in StackItem
      BY DEF StackItem, Function, Silent, Handler
    <3> QED BY <3>1, Rows
  <2>4. Replace({"statement"}, But({}), r)
    BY <1>2 DEF statement
  <2> HIDE DEF r
  <2>5. Follows(r \o Rest, This.stack)
    BY <1>1, <2>1, <2>2, <2>3, TopFollows DEF Item, Rest
  <2> QED BY <2>4, <2>5, ReplaceInv
<1>3. CASE parse
  <2> DEFINE r == <<"statement", "parse">>
  <2>1. This.stack # <<>> /\ Item = "parse"
    BY <1>3 DEF parse, Replace, At
  <2>2. Kept(r \o Rest, This.stack)
    BY <1>1, <2>1, ProduceParse DEF Item, Rest
  <2>3. r \in Seq(StackItem) /\ Len(r) = 2 /\ r[2] = "parse"
    <3>1. "statement" \in StackItem /\ "parse" \in StackItem
      BY DEF StackItem, Function
    <3> QED BY <3>1, Rows
  <2>4. Replace({"parse"}, But({EOF}), r)
    BY <1>3 DEF parse
  <2> HIDE DEF r
  <2>5. ASSUME Rooted(This.stack) PROVE Rooted(r \o Rest)
    <3>1. /\ Rest \in Seq(StackItem) /\ Len(Rest) \in Nat
          /\ \A k \in 1 .. Len(Rest) : Pile(Rest)[k] = Pile(This.stack)[k]
      BY <1>1, <2>1, TailPile DEF Rest, Agree
    <3>2. /\ Len(r \o Rest) = Len(Rest) + 2 /\ Pile(r \o Rest)[Len(Rest) + 1] = r[2]
      BY ONLY <2>3, <3>1, TwoOnTop
    <3>3. CASE Len(Rest) = 0
      BY <2>3, <3>2, <3>3 DEF Rooted
    <3>4. CASE Len(Rest) # 0
      <4>1. 1 \in 1 .. Len(Rest)
        BY <3>1, <3>4
      <4>2. Rooted(Rest)
        BY <2>5, <3>1, <4>1 DEF Rooted
      <4> QED BY <2>3, <3>1, <4>2, RootPush
    <3> QED BY <3>3, <3>4
  <2> QED BY <2>2, <2>4, <2>5, ReplaceInv DEF Follows
<1> QED BY <1>2, <1>3

\* What is left once an item that counts nothing is dropped.
LEMMA ItemsDropped ==
  /\ \A x \in Handler : x \notin Counting /\ x # "parse"
  /\ \A x \in {"report", "synchronize"} : x \notin Counting /\ x # "parse"
  /\ \A x \in {"in loop", "in function", "call", "cast"} : Ordinary(x)
  /\ \A x \in Counting : x # "parse"
<1>1. \A x \in {"report", "synchronize"} : x \notin Counting /\ x # "parse"
  BY DEF Counting
<1>2. \A x \in Handler : x \notin Counting /\ x # "parse"
  BY DEF Counting, Handler
<1>3. \A x \in {"in loop", "in function", "call", "cast"} : Ordinary(x)
  BY DEF Ordinary, Counting, Handler, Idle
<1> QED BY <1>1, <1>2, <1>3 DEF Counting

LEMMA LeaveInv ==
  ASSUME ParserInv, source' = source, Leave
  PROVE  ParserInv'
<1>1. /\ This.stack # <<>> /\ Item \in Handler \cup {"report"}
      /\ Become([This EXCEPT !.stack = Rest])
      /\ table' = table /\ parsed' = parsed /\ status' = status /\ events' = events
  BY DEF Leave, At
<1>2. Follows(Rest, This.stack)
  BY <1>1, ItemsDropped, DropFollows
<1>3. errors' \in BOOLEAN
  BY DEF Leave
<1> QED BY <1>1, <1>2, <1>3, PopStep

\* Recovery steps back before the last token.
LEMMA StepBackInv ==
  ASSUME ParserInv, source' = source, StepBack
  PROVE  ParserInv'
<1> DEFINE p == This
           q == [p EXCEPT !.next = p.last, !.final = TRUE, !.stack = Rest]
<1>1. /\ p.stack # <<>> /\ Item = "synchronize" /\ p.next = EOF /\ Become(q)
      /\ table' = table /\ parsed' = parsed /\ status' = status /\ errors' = errors
      /\ events' = events \cup {"atEnd"}
  BY DEF StepBack, At, Sees
<1>2. p \in ParserObject /\ ParserOK(p) /\ TypeOK
  BY ThisOK DEF ParserInv
<1>3. Follows(Rest, p.stack)
  BY <1>1, ItemsDropped, DropFollows
<1>4. Rest \in Seq(StackItem)
  BY <1>3 DEF Follows, Kept, StackOK
<1> HIDE DEF p
<1>5. q \in ParserObject
  BY <1>2, <1>4 DEF ParserObject
<1>6. /\ q.stack = Rest /\ q.func = p.func /\ q.loop_level = p.loop_level
      /\ q.func_level = p.func_level /\ q.kind = p.kind
  BY <1>2 DEF ParserObject
<1>7. p.kind = "program"
  BY <1>1, <1>2 DEF ParserOK, TextOK
<1> HIDE DEF q
<1>8. ParserOK(q)
  <2>1. TextOK(q)
    BY <1>6, <1>7 DEF TextOK
  <2> QED BY <1>2, <1>3, <1>5, <1>6, <2>1, KeptLevels
<1>9. errors' \in BOOLEAN /\ status' \in Status
  BY <1>1, <1>2 DEF TypeOK
<1>10. events' \subseteq Event
  BY <1>1, <1>2 DEF TypeOK, Event
<1>11. q.func = This.func
  BY <1>6 DEF p
<1> QED BY <1>1, <1>5, <1>8, <1>9, <1>10, <1>11, Becomes

LEMMA SynchronizeInv ==
  ASSUME ParserInv, source' = source, Synchronize
  PROVE  ParserInv'
<1>1. ASSUME This.stack # <<>>, Item = "synchronize"
      PROVE  Follows(<<>> \o Rest, This.stack) /\ Follows(<<"synchronize">> \o Rest, This.stack)
  <2>1. StackOK(This.stack) /\ This.stack \in Seq(StackItem)
    BY ThisOK DEF ParserOK, StackOK
  <2>2. Kept(<<"synchronize">> \o Rest, This.stack)
    BY <1>1, <2>1, Stay DEF Item, Rest
  <2>3. <<"synchronize">> \in Seq(StackItem)
    <3>1. "synchronize" \in StackItem
      BY DEF StackItem, Function
    <3> QED BY <3>1, Rows
  <2>4. Follows(<<"synchronize">> \o Rest, This.stack)
    BY <1>1, <2>1, <2>2, <2>3, ItemsDropped, TopFollows DEF Item, Rest
  <2>5. Follows(<<>> \o Rest, This.stack)
    BY <1>1, ItemsDropped, DropFollows
  <2> QED BY <2>4, <2>5
<1>2. CASE Take({"synchronize"}, {";"}, <<>>)
  <2>1. This.stack # <<>> /\ Item = "synchronize"
    BY <1>2 DEF Take, At
  <2> DEFINE semicolon == {";"}
  <2>2. \A t \in semicolon : t # EOF /\ t # None
    BY DEF EOF, None
  <2>3. Take({"synchronize"}, semicolon, <<>>)
    BY <1>2
  <2> HIDE DEF semicolon
  <2> QED BY <1>1, <2>1, <2>2, <2>3, TakeInv
<1>3. CASE Replace({"synchronize"}, Restart, <<>>)
  <2>1. This.stack # <<>> /\ Item = "synchronize"
    BY <1>3 DEF Replace, At
  <2> QED BY <1>1, <1>3, <2>1, ReplaceInv
<1>4. CASE StepBack
  BY <1>4, StepBackInv
<1>5. CASE Take({"synchronize"}, But(Restart \cup {";", EOF}), <<"synchronize">>)
  <2> DEFINE others == But(Restart \cup {";", EOF})
  <2>1. This.stack # <<>> /\ Item = "synchronize"
    BY <1>5 DEF Take, At
  <2>2. \A t \in others : t # EOF /\ t # None
    BY TokensOnly DEF But
  <2>3. Take({"synchronize"}, others, <<"synchronize">>)
    BY <1>5
  <2> HIDE DEF others
  <2> QED BY <1>1, <2>1, <2>2, <2>3, TakeInv
<1> QED BY <1>2, <1>3, <1>4, <1>5 DEF Synchronize

-----------------------------------------------------------------------------
(* Counters and checks.                                                    *)

LEMMA PopCounts ==
  ASSUME NEW s \in Seq(StackItem), s # <<>>, NEW up, NEW down, Counter(up, down),
         Balanced(s, up, down)
  PROVE  LET a == Cardinality(Within(s, up, down))
             b == Cardinality(Within(Tail(s), up, down))
         IN  /\ a \in Nat /\ b \in Nat
             /\ Head(s) = up => b = a + 1
             /\ Head(s) = down => b = a - 1
             /\ Head(s) # up /\ Head(s) # down => b = a
<1> DEFINE W == Within(s, up, down)
           V == Within(Tail(s), up, down)
           n == Len(s)
           m == Len(Tail(s))
           f == Pile(s)
           g == Pile(Tail(s))
<1>1. /\ m \in Nat /\ n \in Nat /\ n = m + 1 /\ Agree(f, g, m) /\ f[n] = Head(s)
      /\ Paired(f, n, up, down) /\ Paired(g, m, up, down)
  BY TailPile, TailBalanced DEF Balanced
<1>2. W = Open(f, n, up, down) /\ V = Open(g, m, up, down)
  BY DEF Within
<1> HIDE DEF W, V, n, m, f, g
<1>3. /\ Head(s) # up /\ Head(s) # down => V = W
      /\ Head(s) = up => V = W \cup {n - 2} /\ n - 2 \notin W
      /\ Head(s) = down => V = W \ {n} /\ n \in W
  BY <1>1, <1>2, Pop
<1>4. IsFiniteSet(W)
  <2>1. IsFiniteSet(1 .. n)
    BY <1>1, FS_Interval
  <2>2. W \in SUBSET (1 .. n)
    BY <1>2 DEF Open
  <2> QED BY <2>1, <2>2, FS_Subset
<1>5. Cardinality(W) \in Nat
  BY <1>4, FS_CardinalityType
<1>6. Cardinality(V) \in Nat
  BY <1>1, <1>2, Counted
<1>7. ASSUME Head(s) = up PROVE Cardinality(V) = Cardinality(W) + 1
  BY <1>3, <1>4, <1>7, FS_AddElement
<1>8. ASSUME Head(s) = down PROVE Cardinality(V) = Cardinality(W) - 1
  BY <1>3, <1>4, <1>8, FS_RemoveElement
<1> QED BY <1>3, <1>5, <1>6, <1>7, <1>8 DEF W, V

LEMMA CountInv ==
  ASSUME ParserInv, source' = source, NEW item \in Counting, NEW func, NEW loop,
         Count(item, func, loop),
         loop = Cardinality(Within(Rest, "loop++", "loop--")),
         func = Cardinality(Within(Rest, "func++", "func--")) + Base(This)
  PROVE  ParserInv'
<1> DEFINE p == This
           q == [p EXCEPT !.func_level = func, !.loop_level = loop, !.stack = Rest]
<1>1. p.stack # <<>> /\ Item = item /\ Become(q)
      /\ table' = table /\ parsed' = parsed /\ status' = status /\ errors' = errors
      /\ events' = events
  BY DEF Count, At
<1>2. p \in ParserObject /\ ParserOK(p) /\ TypeOK /\ StackOK(p.stack) /\ p.stack \in Seq(StackItem)
  BY ThisOK DEF ParserInv, ParserOK, StackOK
<1>3. StackOK(Rest) /\ Rest \in Seq(StackItem)
  BY <1>1, <1>2, TailKept DEF Rest, StackOK
<1>4. Rooted(p.stack) => Rooted(Rest)
  BY <1>1, <1>2, RootTail, ItemsDropped DEF Rest, Item
<1>5. loop \in Nat /\ func \in Nat
  <2>1. /\ Cardinality(Within(Rest, "loop++", "loop--")) \in Nat
        /\ Cardinality(Within(Rest, "func++", "func--")) \in Nat
    BY <1>1, <1>2, Counters, PopCounts DEF StackOK, Rest
  <2>2. Base(p) \in Nat
    BY DEF Base
  <2> QED BY <2>1, <2>2
<1> HIDE DEF p
<1>6. q \in ParserObject
  BY <1>2, <1>3, <1>5 DEF ParserObject
<1>7. /\ q.stack = Rest /\ q.func = p.func /\ q.loop_level = loop /\ q.func_level = func
      /\ q.kind = p.kind /\ q.next = p.next /\ q.depth = p.depth
  BY <1>2 DEF ParserObject
<1> HIDE DEF q
<1>8. TextOK(q)
  BY <1>2, <1>7 DEF TextOK, ParserOK
<1>9. LevelsOK(q)
  BY <1>7 DEF LevelsOK, Base, p
<1>10. ParserOK(q)
  BY <1>2, <1>3, <1>4, <1>7, <1>8, <1>9 DEF ParserOK
<1>11. errors' \in BOOLEAN /\ status' \in Status /\ events' \subseteq Event
  BY <1>1, <1>2 DEF TypeOK
<1>12. q.func = This.func
  BY <1>7 DEF p
<1> QED BY <1>1, <1>6, <1>10, <1>11, <1>12, Becomes

LEMMA LevelsInv ==
  ASSUME ParserInv, source' = source, Levels
  PROVE  ParserInv'
<1> DEFINE loops == Cardinality(Within(Rest, "loop++", "loop--"))
           funcs == Cardinality(Within(Rest, "func++", "func--"))
           loop  == This.loop_level
           func  == This.func_level
<1>1. ASSUME NEW item \in Counting, At({item})
      PROVE  /\ loops \in Nat /\ funcs \in Nat /\ loop \in Nat /\ func \in Nat /\ Base(This) \in Nat
             /\ item = "loop++" => loops = loop + 1 /\ funcs + Base(This) = func
             /\ item = "loop--" => loops = loop - 1 /\ funcs + Base(This) = func
             /\ item = "func++" => loops = loop /\ funcs + Base(This) = func + 1
             /\ item = "func--" => loops = loop /\ funcs + Base(This) = func - 1
  <2> DEFINE s == This.stack
             a == Cardinality(Within(s, "loop++", "loop--"))
             b == Cardinality(Within(s, "func++", "func--"))
  <2>1. /\ s \in Seq(StackItem) /\ s # <<>> /\ Head(s) = item
        /\ Balanced(s, "loop++", "loop--") /\ Balanced(s, "func++", "func--")
    BY <1>1, ThisOK DEF ParserOK, StackOK, At, Item
  <2>2. /\ a \in Nat /\ loops \in Nat
        /\ item = "loop++" => loops = a + 1
        /\ item = "loop--" => loops = a - 1
        /\ item # "loop++" /\ item # "loop--" => loops = a
    BY <2>1, Counters, PopCounts DEF Rest
  <2>3. /\ b \in Nat /\ funcs \in Nat
        /\ item = "func++" => funcs = b + 1
        /\ item = "func--" => funcs = b - 1
        /\ item # "func++" /\ item # "func--" => funcs = b
    BY <2>1, Counters, PopCounts DEF Rest
  <2>4. loop = a /\ func = b + Base(This)
    BY ThisOK DEF ParserOK, LevelsOK
  <2>5. Base(This) \in Nat
    BY DEF Base
  <2> HIDE DEF a, b, loops, funcs, loop, func
  <2>6. loop \in Nat /\ func \in Nat
    BY <2>2, <2>3, <2>4, <2>5
  <2> QED BY <2>2, <2>3, <2>4, <2>5, <2>6
<1>2. /\ "loop++" \in Counting /\ "loop--" \in Counting
      /\ "func++" \in Counting /\ "func--" \in Counting
  BY DEF Counting
<1>3. CASE Count("loop++", This.func_level, This.loop_level + 1)
  BY <1>1, <1>2, <1>3, CountInv DEF Count
<1>4. CASE Count("loop--", This.func_level, This.loop_level - 1)
  BY <1>1, <1>2, <1>4, CountInv DEF Count
<1>5. CASE Count("func++", This.func_level + 1, This.loop_level)
  BY <1>1, <1>2, <1>5, CountInv DEF Count
<1>6. CASE Count("func--", This.func_level - 1, This.loop_level)
  BY <1>1, <1>2, <1>6, CountInv DEF Count
<1> QED BY <1>3, <1>4, <1>5, <1>6 DEF Levels

LEMMA CheckInv ==
  ASSUME ParserInv, source' = source, NEW item, NEW level, Check(item, level), Ordinary(item)
  PROVE  ParserInv'
<1>1. This.stack # <<>> /\ Item = item /\ Ordinary(Item)
  BY DEF Check, At
<1>2. CASE Throw
  BY <1>1, <1>2, ThrowInv
<1>3. CASE /\ Become([This EXCEPT !.stack = Rest])
           /\ UNCHANGED <<table, parsed, errors, status, events>>
  <2>1. Follows(Rest, This.stack)
    BY <1>1, OrdinaryOnly, NotParse, DropFollows
  <2>2. errors' \in BOOLEAN
    BY <1>3 DEF ParserInv, TypeOK
  <2> QED BY <1>3, <2>1, <2>2, PopStep
<1> QED BY <1>2, <1>3 DEF Check

LEMMA ChecksInv ==
  ASSUME ParserInv, source' = source, Checks
  PROVE  ParserInv'
BY ItemsDropped, CheckInv DEF Checks

-----------------------------------------------------------------------------
(* The objects.                                                            *)

LEMMA EmptyStack ==
  /\ StackOK(<<>>) /\ Ready(<<>>)
  /\ Within(<<>>, "loop++", "loop--") = {} /\ Within(<<>>, "func++", "func--") = {}
<1>1. <<>> \in Seq(StackItem) /\ Len(<<>>) = 0 /\ 1 .. 0 = {}
  BY EmptySeq
<1>2. /\ Balanced(<<>>, "loop++", "loop--") /\ Balanced(<<>>, "func++", "func--")
      /\ Within(<<>>, "loop++", "loop--") = {} /\ Within(<<>>, "func++", "func--") = {}
      /\ Free(Pile(<<>>), Len(<<>>), "loop--") /\ Free(Pile(<<>>), Len(<<>>), "func--")
  BY <1>1 DEF Balanced, Within, Paired, Open, Free
<1>3. Guarded(<<>>) /\ Reported(<<>>) /\ Clear(<<>>)
  BY <1>1 DEF Guarded, Reported, Clear
<1> QED BY <1>1, <1>2, <1>3 DEF StackOK, Ready

LEMMA NewParserOK ==
  ASSUME source \in Source, NEW name \in Func \cup {Main}, NEW kind \in Definition \cup {"program"},
         NEW next \in First(kind), NEW level, level = IF name = Main THEN 0 ELSE 1,
         NEW item, IF name = Main THEN item = "parse" ELSE item = "statement"
  PROVE  /\ NewParser(name, kind, next, level, <<item>>) \in ParserObject
         /\ ParserOK(NewParser(name, kind, next, level, <<item>>))
         /\ NewParser(name, kind, next, level, <<item>>).func = name
<1> DEFINE p == NewParser(name, kind, next, level, <<item>>)
<1>1. item \in Idle /\ item \in Common
  <2>1. "parse" \in Function /\ "statement" \in Function
    BY DEF Function
  <2> QED BY <2>1, Words DEF Idle
<1>2. <<item>> \in Seq(Common) /\ <<item>> \in Seq(StackItem) /\ <<item>> \o <<>> = <<item>>
      /\ Len(<<item>>) = 1 /\ <<item>>[1] = item
  <2>1. <<item>> \in Seq(Common)
    BY <1>1, Row1
  <2> QED BY <2>1, CommonOnly, ConcatEmptySeq
<1>3. Kept(<<item>>, <<>>)
  <2>1. \A i \in 1 .. Len(<<item>>) : <<item>>[i] \in Idle
    BY <1>1, <1>2
  <2> QED BY <1>2, <2>1, EmptyStack, RowKept DEF Ready
<1>4. /\ StackOK(<<item>>)
      /\ Within(<<item>>, "loop++", "loop--") = {} /\ Within(<<item>>, "func++", "func--") = {}
  BY <1>3, EmptyStack DEF Kept
<1>5. source.program \subseteq TokenKind /\ source.body \subseteq TokenKind
  BY SourceAssumption
<1>6. /\ next \in TokenKind \cup {EOF, None}
      /\ kind = "declared" => next = None
      /\ next = EOF => kind = "program"
      /\ kind = "block" => next = Left
  <2>1. CASE kind = "program"
    <3>1. next \in source.program \cup {EOF}
      BY <2>1 DEF First
    <3> QED BY <1>5, <2>1, <3>1
  <2>2. CASE kind = "block"
    <3>1. next = Left
      BY <2>2 DEF First, Left
    <3> QED BY <2>2, <3>1, TokensOnly
  <2>3. CASE kind = "statement"
    <3>1. next \in source.body
      BY <2>3 DEF First
    <3> QED BY <1>5, <2>3, <3>1, TokensOnly
  <2>4. CASE kind = "declared"
    <3>1. next = None
      BY <2>4 DEF First
    <3> QED BY <2>4, <3>1, TokensOnly
  <2> QED BY <2>1, <2>2, <2>3, <2>4 DEF Definition
<1>7. p \in ParserObject
  BY <1>2, <1>6 DEF NewParser, ParserObject
<1>8. /\ p.stack = <<item>> /\ p.func = name /\ p.kind = kind /\ p.next = next /\ p.depth = 0
      /\ p.loop_level = 0 /\ p.func_level = level
  BY DEF NewParser
<1> HIDE DEF p
<1>9. TextOK(p)
  BY <1>6, <1>8 DEF TextOK
<1>10. LevelsOK(p)
  BY <1>4, <1>8, FS_EmptySet DEF LevelsOK, Base
<1>11. ASSUME name = Main PROVE Rooted(p.stack)
  <2>1. Len(p.stack) = 1 /\ p.stack[1] = "parse"
    BY <1>2, <1>8, <1>11
  <2> QED BY <2>1 DEF Rooted, Pile
<1> QED BY <1>4, <1>7, <1>8, <1>9, <1>10, <1>11 DEF ParserOK, p

LEMMA InitInv ==
  ASSUME Init
  PROVE  ParserInv
<1>1. PICK next \in First("program") :
        parsers = <<NewParser(Main, "program", next, 0, <<"parse">>)>>
  BY DEF Init
<1> DEFINE p == NewParser(Main, "program", next, 0, <<"parse">>)
<1>2. source \in Source
  BY DEF Init
<1>3. p \in ParserObject /\ ParserOK(p) /\ p.func = Main
  BY <1>2, NewParserOK
<1>4. parsers = <<p>>
  BY <1>1
<1> HIDE DEF p
<1>5. parsers \in Seq(ParserObject) /\ parsers # <<>> /\ DOMAIN parsers = {1} /\ parsers[1] = p
  BY <1>3, <1>4
<1>6. TypeOK
  <2>1. parsers \in Seq(ParserObject) /\ parsers # <<>>
    BY <1>5
  <2>2. /\ table \in [Func -> Definition] /\ parsed \subseteq Func
        /\ errors \in BOOLEAN /\ status \in Status /\ events \subseteq Event
    BY DEF Init, Status
  <2> QED BY <1>2, <2>1, <2>2, ParserTyped
<1> QED BY <1>3, <1>5, <1>6 DEF ParserInv

\* A call: the parser of the function starts inside a function and no loop.
LEMMA CallInv ==
  ASSUME ParserInv, source' = source, NEW f \in Func, CallFunction(f)
  PROVE  ParserInv'
<1> DEFINE n == Len(parsers)
           p == [This EXCEPT !.stack = Rest]
           waiting == [parsers EXCEPT ![n] = p]
<1>1. /\ This.stack # <<>> /\ Item = "call" /\ table' = table /\ parsed' = parsed
      /\ errors' = errors /\ status' = status
      /\ events' = events \cup (IF f \in parsed THEN {"again"} ELSE {})
  BY DEF CallFunction, At
<1>2. PICK next \in First(table[f]) :
        parsers' = Append([parsers EXCEPT ![n] = [@ EXCEPT !.stack = Rest]],
                          NewParser(f, table[f], next, 1, <<"statement">>))
  BY DEF CallFunction
<1> DEFINE q == NewParser(f, table[f], next, 1, <<"statement">>)
<1>3. TypeOK /\ This \in ParserObject /\ ParserOK(This) /\ This = parsers[n]
      /\ parsers \in Seq(ParserObject) /\ n \in Nat /\ n \in 1 .. Len(parsers)
      /\ DOMAIN parsers = 1 .. n
  BY ThisOK, ParserTyped DEF ParserInv, This
<1>4. q \in ParserObject /\ ParserOK(q) /\ q.func = f /\ f # Main
  <2>1. source \in Source /\ table[f] \in Definition /\ f # Main
    BY <1>3, FuncAssumption DEF TypeOK
  <2> QED BY <2>1, NewParserOK
<1>5. Follows(Rest, This.stack) /\ Rest \in Seq(StackItem)
  BY <1>1, ItemsDropped, OrdinaryOnly, NotParse, DropFollows DEF Follows, Kept, StackOK
<1>6. p \in ParserObject
  BY <1>3, <1>5 DEF ParserObject
<1>7. /\ p.stack = Rest /\ p.func = This.func /\ p.loop_level = This.loop_level
      /\ p.func_level = This.func_level /\ p.kind = This.kind /\ p.next = This.next
      /\ p.depth = This.depth
  BY <1>3 DEF ParserObject
<1>8. parsers' = Append(waiting, q)
  BY <1>2, <1>3
<1> HIDE DEF p, q
<1>9. ParserOK(p)
  <2>1. TextOK(p)
    BY <1>3, <1>7 DEF TextOK, ParserOK
  <2> QED BY <1>3, <1>5, <1>6, <1>7, <2>1, KeptLevels
<1>10. waiting \in Seq(ParserObject) /\ Len(waiting) = n
       /\ \A j \in 1 .. n : waiting[j] = IF j = n THEN p ELSE parsers[j]
  BY <1>3, <1>6, ExceptSeq
<1> HIDE DEF n, waiting
<1>11. /\ parsers' \in Seq(ParserObject) /\ parsers' # <<>> /\ Len(parsers') = n + 1
       /\ \A j \in 1 .. n : parsers'[j] = IF j = n THEN p ELSE parsers[j]
       /\ parsers'[n + 1] = q
  BY <1>4, <1>8, <1>10, AppendProperties
<1>12. DOMAIN parsers' = 1 .. n + 1
  BY <1>11
<1>13. ASSUME NEW j \in DOMAIN parsers'
       PROVE  ParserOK(parsers'[j]) /\ (parsers'[j].func = Main <=> j = 1)
  <2>1. CASE j = n + 1
    <3>1. j # 1
      BY <1>3, <2>1
    <3> QED BY <1>4, <1>11, <2>1, <3>1
  <2>2. CASE j # n + 1
    <3>1. j \in 1 .. n
      BY <1>3, <1>12, <2>2
    <3>2. ParserOK(parsers[j]) /\ (parsers[j].func = Main <=> j = 1)
      BY <1>3, <3>1 DEF ParserInv
    <3> QED BY <1>3, <1>7, <1>9, <1>11, <3>1, <3>2
  <2> QED BY <2>1, <2>2
<1>14. TypeOK'
  <2>1. events' \subseteq Event
    BY <1>1, <1>3 DEF TypeOK, Event
  <2> QED BY <1>1, <1>3, <1>11, <2>1 DEF TypeOK, ParserObject
<1> QED BY <1>13, <1>14 DEF ParserInv

\* The program's own parser never runs out of statements: it is not a function
\* that ends.
LEMMA EndInv ==
  ASSUME ParserInv, source' = source, EndFunction
  PROVE  ParserInv'
<1> DEFINE n == Len(parsers)
<1>1. TypeOK /\ This \in ParserObject /\ ParserOK(This) /\ This = parsers[n]
      /\ parsers \in Seq(ParserObject) /\ n \in Nat /\ n \in 1 .. Len(parsers)
      /\ DOMAIN parsers = 1 .. n
  BY ThisOK, ParserTyped DEF ParserInv, This
<1>2. This.func # Main
  <2>1. This.stack = <<>>
    BY DEF EndFunction
  <2>2. ~Rooted(This.stack)
    BY <2>1 DEF Rooted
  <2> QED BY <1>1, <2>2 DEF ParserOK
<1>3. This.func \in Func /\ n # 1
  BY <1>1, <1>2 DEF ParserInv, ParserObject
<1>4. parsers' = SubSeq(parsers, 1, n - 1) /\ parsed' = parsed \cup {This.func}
      /\ table' = table /\ errors' = errors /\ status' = status /\ events' = events
  BY DEF EndFunction
<1>5. n - 1 \in Nat /\ 1 <= n - 1 /\ \A i \in 1 .. n - 1 : i \in 1 .. n /\ 1 + i - 1 = i
  BY <1>1, <1>3
<1> HIDE DEF n
<1>6. \A i \in 1 .. n - 1 : parsers[i] \in ParserObject
  BY <1>1, <1>5
<1>7. /\ parsers' \in Seq(ParserObject) /\ Len(parsers') = n - 1
      /\ \A i \in 1 .. n - 1 : parsers'[i] = parsers[i]
  <2>1. /\ parsers' \in Seq(ParserObject) /\ Len(parsers') = n - 1 - 1 + 1
        /\ \A i \in 1 .. n - 1 - 1 + 1 : parsers'[i] = parsers[1 + i - 1]
    BY <1>4, <1>5, <1>6, SubSeqProperties
  <2>2. n - 1 - 1 + 1 = n - 1
    BY <1>1
  <2> QED BY <1>5, <2>1, <2>2
<1>8. parsers' # <<>> /\ DOMAIN parsers' = 1 .. n - 1
  BY <1>5, <1>7
<1>9. \A j \in DOMAIN parsers' : ParserOK(parsers'[j]) /\ (parsers'[j].func = Main <=> j = 1)
  BY <1>1, <1>5, <1>7, <1>8 DEF ParserInv
<1>10. TypeOK'
  BY <1>1, <1>3, <1>4, <1>7, <1>8 DEF TypeOK, ParserObject
<1> QED BY <1>9, <1>10 DEF ParserInv

\* The end of the parsing, good or bad.
LEMMA IdleInv ==
  ASSUME ParserInv, source' = source, parsers' = parsers, table' = table, parsed' = parsed,
         errors' = errors, status' \in Status, events' \subseteq Event
  PROVE  ParserInv'
<1>1. TypeOK'
  BY DEF ParserInv, TypeOK
<1>2. \A i \in DOMAIN parsers' : ParserOK(parsers'[i]) /\ (parsers'[i].func = Main <=> i = 1)
  BY DEF ParserInv
<1> QED BY <1>1, <1>2 DEF ParserInv

LEMMA StepInv ==
  ASSUME ParserInv, [Next]_vars
  PROVE  ParserInv'
<1>1. TypeOK
  BY DEF ParserInv
<1>2. ASSUME source' = source, AnyStatement PROVE ParserInv'
  BY <1>2, ExprStmtInv, BlockStmtInv, BreakStmtInv, ReturnStmtInv, PrintStmtInv,
     IfStmtInv, ElifStmtInv, WhileStmtInv, ForStmtInv, VarDeclStmtInv, ConstInv,
     ArrDeclStmtInv, FuncDeclStmtInv, GetTypeInv, ClassDeclStmtInv
     DEF AnyStatement
<1>3. ASSUME source' = source, AnyExpression PROVE ParserInv'
  BY <1>3, ListsInv, AssignmentExprInv, TernaryExprInv, BinaryExprInv, UnaryExprInv,
     OperandInv, CallExprInv, PrimaryExprInv
     DEF AnyExpression
<1>4. ASSUME source' = source, Finish \/ Cast \/ ReadPastEnd \/ \E f \in Func : CallActive(f)
      PROVE  ParserInv'
  <2>1. /\ parsers' = parsers /\ table' = table /\ parsed' = parsed /\ errors' = errors
        /\ status' \in Status
    BY <1>4 DEF Finish, Cast, ReadPastEnd, CallActive, Status
  <2>2. events' \subseteq Event
    BY <1>1, <1>4 DEF Finish, Cast, ReadPastEnd, CallActive, TypeOK, Event
  <2> QED BY <1>4, <2>1, <2>2, IdleInv
<1>5. ASSUME source' = source, CallUnknown PROVE ParserInv'
  <2>1. This.stack # <<>> /\ Item = "call" /\ Throw
    BY <1>5 DEF CallUnknown, At
  <2> QED BY <1>5, <2>1, ItemsDropped, ThrowInv
<1>6. CASE Step
  BY <1>2, <1>3, <1>4, <1>5, <1>6, StatementInv, ExpressionInv, ExpectInv, SynchronizeInv, LeaveInv,
     LevelsInv, ChecksInv, CallInv, EndInv
     DEF Step
<1>7. CASE UNCHANGED vars
  <2>1. /\ source' = source /\ parsers' = parsers /\ table' = table /\ parsed' = parsed
        /\ errors' = errors /\ status' = status /\ events' = events
    BY <1>7 DEF vars
  <2>2. status' \in Status /\ events' \subseteq Event
    BY <1>1, <2>1 DEF TypeOK
  <2> QED BY <2>1, <2>2, IdleInv
<1> QED BY <1>6, <1>7 DEF Next, Ended

-----------------------------------------------------------------------------
(* What is on a stack, and what is counted.                                *)

\* A pile holds as many of an item as its stack.
LEMMA PilePending ==
  ASSUME NEW p \in ParserObject, NEW item
  PROVE  Pending(p, item) = Cardinality({k \in 1 .. Len(p.stack) : Pile(p.stack)[k] = item})
<1> DEFINE s == p.stack
           n == Len(s)
           A == {i \in 1 .. n : s[i] = item}
           B == {k \in 1 .. n : Pile(s)[k] = item}
           h == [i \in A |-> n + 1 - i]
<1>1. s \in Seq(StackItem) /\ n \in Nat /\ DOMAIN s = 1 .. n
  BY DEF ParserObject
<1>2. Pending(p, item) = Cardinality(A)
  BY <1>1 DEF Pending
<1>3. \A k \in 1 .. n : Pile(s)[k] = s[n + 1 - k]
  BY DEF Pile
<1> HIDE DEF s, n
<1>4. IsFiniteSet(A)
  <2>1. IsFiniteSet(1 .. n)
    BY <1>1, FS_Interval
  <2>2. A \in SUBSET (1 .. n)
    OBVIOUS
  <2> HIDE DEF A
  <2> QED BY <2>1, <2>2, FS_Subset
<1>5. h \in Bijection(A, B)
  <2>1. ASSUME NEW i \in A PROVE n + 1 - i \in B
    <3>1. PICK k \in 1 .. n : k = n + 1 - i /\ i = n + 1 - k
      BY <1>1, Turned
    <3> QED BY <1>3, <3>1
  <2>2. ASSUME NEW k \in B PROVE \E i \in A : h[i] = k
    <3>1. PICK i \in 1 .. n : i = n + 1 - k /\ k = n + 1 - i
      BY <1>1, Turned
    <3>2. i \in A
      BY <1>3, <3>1
    <3> QED BY <3>1, <3>2
  <2>3. h \in [A -> B]
    BY <2>1
  <2>4. \A a, b \in A : h[a] = h[b] => a = b
    BY <1>1
  <2> HIDE DEF h, A, B
  <2> QED BY <2>2, <2>3, <2>4, Fun_IsBij
<1> HIDE DEF A, B, h
<1>6. Cardinality(B) = Cardinality(A)
  BY <1>4, <1>5, FS_Bijection DEF ExistsBijection
<1> QED BY <1>2, <1>6 DEF B, n, s

LEMMA PairsPending ==
  ASSUME NEW p \in ParserObject, NEW up, NEW down, Counter(up, down), Balanced(p.stack, up, down)
  PROVE  /\ Cardinality(Within(p.stack, up, down)) \in Nat
         /\ Cardinality(Within(p.stack, up, down)) + Pending(p, up) = Pending(p, down)
         /\ Pending(p, up) \in Nat
<1> DEFINE n == Len(p.stack)
           f == Pile(p.stack)
           U == {k \in 1 .. n : f[k] = up}
           D == {k \in 1 .. n : f[k] = down}
<1>1. n \in Nat /\ Paired(f, n, up, down) /\ Within(p.stack, up, down) = Open(f, n, up, down)
  BY DEF ParserObject, Balanced, Within
<1>2. Pending(p, up) = Cardinality(U) /\ Pending(p, down) = Cardinality(D)
  BY PilePending
<1> HIDE DEF n, f
<1>3. /\ Cardinality(Open(f, n, up, down)) \in Nat
      /\ Cardinality(Open(f, n, up, down)) + Cardinality(U) = Cardinality(D)
  BY <1>1, Counted
<1>4. IsFiniteSet(U)
  <2>1. IsFiniteSet(1 .. n)
    BY <1>1, FS_Interval
  <2>2. U \in SUBSET (1 .. n)
    OBVIOUS
  <2> HIDE DEF U
  <2> QED BY <2>1, <2>2, FS_Subset
<1> HIDE DEF U
<1>5. Cardinality(U) \in Nat
  BY <1>4, FS_CardinalityType
<1> QED BY <1>1, <1>2, <1>3, <1>5

LEMMA InvLevels ==
  ASSUME ParserInv
  PROVE  LevelsMatch
<1>1. ASSUME NEW i \in DOMAIN parsers, NEW p, p = parsers[i]
      PROVE  /\ p.loop_level + Pending(p, "loop++") = Pending(p, "loop--")
             /\ p.func_level + Pending(p, "func++") = Pending(p, "func--") + Base(p)
  <2>1. p \in ParserObject /\ ParserOK(p)
    BY <1>1, ParserTyped DEF ParserInv
  <2>2. /\ Balanced(p.stack, "loop++", "loop--") /\ Balanced(p.stack, "func++", "func--")
        /\ p.loop_level = Cardinality(Within(p.stack, "loop++", "loop--"))
        /\ p.func_level = Cardinality(Within(p.stack, "func++", "func--")) + Base(p)
    BY <2>1 DEF ParserOK, StackOK, LevelsOK
  <2>3. Base(p) \in Nat
    BY DEF Base
  <2>4. p.loop_level + Pending(p, "loop++") = Pending(p, "loop--")
    BY <2>1, <2>2, Counters, PairsPending
  <2>5. p.func_level + Pending(p, "func++") = Pending(p, "func--") + Base(p)
    <3>1. \A a, b, c, d \in Nat : a + b = c => (a + d) + b = c + d
      OBVIOUS
    <3>2. /\ Cardinality(Within(p.stack, "func++", "func--")) \in Nat
          /\ Cardinality(Within(p.stack, "func++", "func--")) + Pending(p, "func++")
               = Pending(p, "func--")
          /\ Pending(p, "func++") \in Nat
      BY <2>1, <2>2, Counters, PairsPending
    <3> QED BY <2>2, <2>3, <3>1, <3>2
  <2> QED BY <2>4, <2>5
<1> QED BY <1>1 DEF LevelsMatch

LEMMA ParserInductive == Spec => []ParserInv
<1>1. Init => ParserInv
  BY InitInv
<1>2. ParserInv /\ [Next]_vars => ParserInv'
  BY StepInv
<1> QED BY <1>1, <1>2, PTL DEF Spec

-----------------------------------------------------------------------------
(* Braces: what is on a stack when some are open.                          *)

\* What catches the errors of the whole block.
CatchAll == "catch statement"

\* The items of the stack that end behind a right brace.
Closer == {"block", "block end", "members", "const members", "members end", "values",
           "after value"}

\* What has to be read for an item: one brace that closes more, or one that opens.
Weight(x) == IF x \in Closer \/ x = Right THEN 1 ELSE IF x = Left THEN 0 - 1 ELSE 0

\* An item on top of a stack that closes a of the open braces makes it close b.
Climbs(x, a, b) == b = a + Weight(x) /\ b >= 1 /\ x # "synchronize"

\* A stack that closes d braces, the last one just above what catches the errors of
\* the whole block; heights[k] are closed by the k items at the bottom.
Braced(s, d) ==
  /\ Len(s) >= 1 /\ Pile(s)[1] = CatchAll
  /\ \E heights \in [1 .. Len(s) -> Nat] :
       /\ heights[1] = 0 /\ heights[Len(s)] = d
       /\ \A k \in 2 .. Len(s) : Climbs(Pile(s)[k], heights[k - 1], heights[k])

Flat == StackItem \ (Closer \cup {Left, Right, "synchronize"})

PlainToken == TokenKind \ {Left, Right}

LEMMA WeightCases ==
  /\ \A x \in Closer : Weight(x) = 1 /\ x # "synchronize"
  /\ Weight(Right) = 1 /\ Weight(Left) = 0 - 1
  /\ \A x \in Flat : Weight(x) = 0 /\ x # "synchronize"
  /\ Left # "synchronize" /\ Right # "synchronize"
  /\ \A x : Weight(x) \in Int
<1>1. Left # "synchronize" /\ Right # "synchronize"
  BY DEF Left, Right
<1>2. Left \notin Closer /\ Left # Right
  BY DEF Left, Right, Closer
<1>3. \A x \in Closer : x # "synchronize"
  BY DEF Closer
<1>4. \A x \in Flat : x \notin Closer /\ x # Left /\ x # Right /\ x # "synchronize"
  BY DEF Flat
<1> HIDE DEF Left, Right
<1> QED BY <1>1, <1>2, <1>3, <1>4 DEF Weight

\* A stack that closes nothing is the end of the block.
LEMMA BracedEnd ==
  ASSUME NEW s \in Seq(StackItem), Braced(s, 0)
  PROVE  s # <<>> /\ Head(s) = CatchAll /\ Tail(s) = <<>>
<1>0. Len(s) \in Nat
  OBVIOUS
<1>1. Len(s) \in Nat /\ Len(s) >= 1 /\ Pile(s)[1] = CatchAll
  BY <1>0 DEF Braced
<1>2. Len(s) = 1
  <2>1. PICK g \in [1 .. Len(s) -> Nat] :
          /\ g[1] = 0 /\ g[Len(s)] = 0
          /\ \A k \in 2 .. Len(s) : Climbs(Pile(s)[k], g[k - 1], g[k])
    BY DEF Braced
  <2>2. ASSUME Len(s) # 1 PROVE FALSE
    <3>1. Len(s) \in 2 .. Len(s)
      <4>1. \A n \in Nat : n >= 1 /\ n # 1 => n \in 2 .. n
        OBVIOUS
      <4> QED BY <1>1, <2>2, <4>1
    <3>2. g[Len(s)] >= 1
      BY <2>1, <3>1 DEF Climbs
    <3> QED BY <2>1, <3>2
  <2> QED BY <2>2
<1>3. s # <<>>
  BY <1>2
<1>4. /\ Tail(s) \in Seq(StackItem) /\ Len(Tail(s)) \in Nat /\ Len(s) = Len(Tail(s)) + 1
      /\ Pile(s)[Len(s)] = Head(s)
  BY <1>3, TailPile
<1>5. Tail(s) = <<>>
  <2>1. Len(Tail(s)) = 0
    BY <1>2, <1>4
  <2> QED BY <1>4, <2>1, EmptySeq
<1> QED BY <1>1, <1>2, <1>3, <1>4, <1>5

\* What is below the item on top.
LEMMA BracedTop ==
  ASSUME NEW s \in Seq(StackItem), NEW d, d # 0, Braced(s, d)
  PROVE  /\ s # <<>> /\ d \in Nat /\ d >= 1
         /\ \E e \in Nat : Braced(Tail(s), e) /\ Climbs(Head(s), e, d)
<1> DEFINE t == Tail(s)
           n == Len(t)
<1>1. PICK g \in [1 .. Len(s) -> Nat] :
        /\ g[1] = 0 /\ g[Len(s)] = d
        /\ \A k \in 2 .. Len(s) : Climbs(Pile(s)[k], g[k - 1], g[k])
  BY DEF Braced
<1>2. Len(s) >= 1 /\ Pile(s)[1] = CatchAll
  BY DEF Braced
<1>12. s # <<>>
  BY <1>2
<1>3. /\ n \in Nat /\ Len(s) = n + 1 /\ Pile(s)[Len(s)] = Head(s)
      /\ \A k \in 1 .. n : Pile(t)[k] = Pile(s)[k]
  BY <1>12, TailPile DEF Agree
<1> HIDE DEF n, t
<1>4. Len(s) # 1 /\ n >= 1
  BY <1>1, <1>2, <1>3
<1>5. Len(s) \in 2 .. Len(s) /\ Len(s) - 1 = n /\ 1 .. n \subseteq 1 .. Len(s)
  BY <1>3, <1>4
<1>6. Climbs(Head(s), g[n], d)
  BY <1>1, <1>3, <1>5
<1>7. g[n] \in Nat /\ d \in Nat /\ d >= 1
  BY <1>1, <1>3, <1>4, <1>6 DEF Climbs
<1> DEFINE h == [k \in 1 .. n |-> g[k]]
<1>8. h \in [1 .. n -> Nat] /\ h[1] = 0 /\ h[n] = g[n]
  BY <1>1, <1>3, <1>4, <1>5
<1>9. ASSUME NEW k \in 2 .. n PROVE Climbs(Pile(t)[k], h[k - 1], h[k])
  <2>1. k \in 2 .. Len(s) /\ k \in 1 .. n /\ k - 1 \in 1 .. n
    BY <1>3
  <2>2. h[k] = g[k] /\ h[k - 1] = g[k - 1] /\ Pile(t)[k] = Pile(s)[k]
    BY <1>3, <2>1
  <2> QED BY <1>1, <2>1, <2>2
<1> HIDE DEF h
<1>10. Pile(t)[1] = CatchAll
  <2>1. 1 \in 1 .. n
    BY <1>3, <1>4
  <2> QED BY <1>2, <1>3, <2>1
<1>11. Braced(t, g[n])
  BY <1>4, <1>8, <1>9, <1>10 DEF Braced, n
<1> QED BY <1>12, <1>6, <1>7, <1>11 DEF t

\* What is put on top.
LEMMA BracedPush ==
  ASSUME NEW t \in Seq(StackItem), NEW e \in Nat, Braced(t, e),
         NEW x \in StackItem, NEW d \in Nat, Climbs(x, e, d)
  PROVE  Braced(<<x>> \o t, d)
<1> DEFINE r == <<x>>
           u == r \o t
           n == Len(t)
<1>1. r \in Seq(StackItem) /\ Len(r) = 1 /\ r[1] = x
  OBVIOUS
<1> HIDE DEF r
<1>2. /\ n \in Nat /\ Len(u) = n + 1 /\ Pile(u)[n + 1] = x
      /\ \A k \in 1 .. n : Pile(t)[k] = Pile(u)[k]
  BY <1>1, OneOnTop DEF Agree
<1> HIDE DEF u
<1>3. PICK g \in [1 .. n -> Nat] :
        /\ g[1] = 0 /\ g[n] = e
        /\ \A k \in 2 .. n : Climbs(Pile(t)[k], g[k - 1], g[k])
  BY DEF Braced
<1>4. n >= 1 /\ Pile(t)[1] = CatchAll
  BY DEF Braced
<1> HIDE DEF n
<1> DEFINE h == [k \in 1 .. n + 1 |-> IF k = n + 1 THEN d ELSE g[k]]
<1>5. h \in [1 .. n + 1 -> Nat] /\ h[n + 1] = d /\ \A k \in 1 .. n : h[k] = g[k]
  BY <1>2, <1>3
<1> HIDE DEF h
<1>6. ASSUME NEW k \in 2 .. n + 1 PROVE Climbs(Pile(u)[k], h[k - 1], h[k])
  <2>1. CASE k = n + 1
    <3>1. k - 1 = n /\ n \in 1 .. n
      BY <1>2, <1>4, <2>1
    <3> QED BY <1>2, <1>3, <1>5, <2>1, <3>1
  <2>2. CASE k # n + 1
    <3>1. k \in 2 .. n /\ k \in 1 .. n /\ k - 1 \in 1 .. n
      BY <1>2, <2>2
    <3> QED BY <1>2, <1>3, <1>5, <3>1
  <2> QED BY <2>1, <2>2
<1>7. Len(u) >= 1 /\ Pile(u)[1] = CatchAll /\ h[1] = 0
  <2>1. 1 \in 1 .. n
    BY <1>2, <1>4
  <2> QED BY <1>2, <1>3, <1>4, <1>5, <2>1
<1>8. Braced(u, d)
  BY <1>2, <1>5, <1>6, <1>7 DEF Braced
<1> QED BY <1>8 DEF u, r

LEMMA FlatOnly == Seq(Flat) \subseteq Seq(StackItem) /\ PlainToken \subseteq TokenKind
<1>1. Flat \subseteq StackItem
  BY DEF Flat
<1> QED BY <1>1, SeqMonotonic DEF PlainToken

LEMMA PlainTokens ==
  /\ Keyword \subseteq PlainToken /\ Operator \subseteq PlainToken /\ Name \subseteq PlainToken
  /\ {"number", "literal", "(", ")", "[", "]", ";", ",", ":", "?", ".", "->"} \subseteq PlainToken
<1>1. Keyword \subseteq PlainToken
  BY DEF Keyword, PlainToken, TokenKind, Left, Right
<1>2. Operator \subseteq PlainToken
  BY DEF Operator, PlainToken, TokenKind, Left, Right
<1>3. Name \subseteq PlainToken
  BY DEF Name, PlainToken, TokenKind, Left, Right
<1>4. {"number", "literal", "(", ")", "[", "]", ";", ",", ":", "?", ".", "->"} \subseteq PlainToken
  BY DEF PlainToken, TokenKind, Symbol, Left, Right
<1> QED BY <1>1, <1>2, <1>3, <1>4

LEMMA FlatWords ==
  /\ \A x \in PlainToken : x \in Flat
  /\ \A x \in Function : x \notin Closer /\ x # "synchronize" => x \in Flat
  /\ \A x \in Silent : x \in Flat
<1>1. ASSUME NEW x \in PlainToken PROVE x \in Flat
  <2>1. x \in TokenKind /\ x # Left /\ x # Right
    BY DEF PlainToken
  <2>2. x \notin Closer /\ x # "synchronize"
    BY <2>1 DEF TokenKind, Keyword, Symbol, Operator, Name, Closer
  <2> QED BY <2>1, <2>2 DEF Flat, StackItem
<1>2. ASSUME NEW x \in Function, x \notin Closer, x # "synchronize" PROVE x \in Flat
  <2>1. Left \notin Function /\ Right \notin Function
    BY DEF Left, Right, Function
  <2> QED BY <1>2, <2>1 DEF Flat, StackItem
<1>3. ASSUME NEW x \in Silent PROVE x \in Flat
  <2>1. Left \notin Silent /\ Right \notin Silent
    BY DEF Left, Right, Silent, Handler
  <2>2. x \notin Closer /\ x # "synchronize"
    BY DEF Silent, Handler, Closer
  <2> QED BY <2>1, <2>2 DEF Flat, StackItem
<1> QED BY <1>1, <1>2, <1>3

\* Nothing that concerns braces is put on top.
LEMMA BracedRow ==
  ASSUME NEW t \in Seq(StackItem), NEW d \in Nat, d >= 1, Braced(t, d), NEW r \in Seq(Flat)
  PROVE  Braced(r \o t, d)
<1> DEFINE u == r \o t
           n == Len(t)
           m == Len(u)
<1>1. r \in Seq(StackItem) /\ \A i \in 1 .. Len(r) : r[i] \in Flat
  BY FlatOnly, ElementOfSeq
<1>2. /\ n \in Nat /\ m \in Nat /\ n <= m
      /\ \A k \in 1 .. n : Pile(t)[k] = Pile(u)[k]
      /\ \A k \in n + 1 .. m : \E i \in 1 .. Len(r) : Pile(u)[k] = r[i]
  BY <1>1, PushPile DEF Agree
<1> HIDE DEF u
<1>3. PICK g \in [1 .. n -> Nat] :
        /\ g[1] = 0 /\ g[n] = d
        /\ \A k \in 2 .. n : Climbs(Pile(t)[k], g[k - 1], g[k])
  BY DEF Braced
<1>4. n >= 1 /\ Pile(t)[1] = CatchAll
  BY DEF Braced
<1> HIDE DEF n, m
<1> DEFINE h == [k \in 1 .. m |-> IF k > n THEN d ELSE g[k]]
<1>5. h \in [1 .. m -> Nat] /\ (\A k \in 1 .. n : h[k] = g[k]) /\ (\A k \in n + 1 .. m : h[k] = d)
  BY <1>2, <1>3
<1> HIDE DEF h
<1>6. ASSUME NEW k \in 2 .. m PROVE Climbs(Pile(u)[k], h[k - 1], h[k])
  <2>1. CASE k > n
    <3>1. k \in n + 1 .. m /\ (k - 1 = n \/ k - 1 \in n + 1 .. m) /\ n \in 1 .. n
      BY <1>2, <1>4, <2>1
    <3>2. h[k] = d /\ h[k - 1] = d
      BY <1>3, <1>5, <3>1
    <3>3. Weight(Pile(u)[k]) = 0 /\ Pile(u)[k] # "synchronize"
      BY <1>1, <1>2, <3>1, WeightCases
    <3> QED BY <3>2, <3>3 DEF Climbs
  <2>2. CASE ~(k > n)
    <3>1. k \in 2 .. n /\ k \in 1 .. n /\ k - 1 \in 1 .. n
      BY <1>2, <2>2
    <3> QED BY <1>2, <1>3, <1>5, <3>1
  <2> QED BY <2>1, <2>2
<1>7. m >= 1 /\ Pile(u)[1] = CatchAll /\ h[1] = 0 /\ h[m] = d
  <2>1. (m = n \/ m \in n + 1 .. m) /\ 1 \in 1 .. n /\ n \in 1 .. n /\ m >= 1
    BY <1>2, <1>4
  <2>2. Pile(u)[1] = CatchAll /\ h[1] = 0
    BY <2>1, <1>2, <1>3, <1>4, <1>5
  <2>3. h[m] = d
    BY <2>1, <1>3, <1>5
  <2> QED BY <2>1, <2>2, <2>3
<1>8. Braced(u, d)
  BY <1>5, <1>6, <1>7 DEF Braced, m
<1> QED BY <1>8 DEF u

-----------------------------------------------------------------------------
(* Parsers in the block of a function.                                     *)

\* No error was met in the block of a function.
Sound(p) == p.kind = "block" /\ ~p.failed

\* The block is about to be entered.
Fresh(p) ==
  /\ p.next = Left /\ p.depth = 0
  /\ p.stack = <<"statement">> \/ p.stack = <<"class_decl_stmt", CatchAll>>

BodyOK(p) ==
  Sound(p) =>
    \/ Fresh(p)
    \/ Braced(p.stack, p.depth) /\ (p.next = None <=> p.depth = 0)
    \/ p.stack = <<>> /\ p.next = None

BodyInv ==
  /\ ParserInv
  /\ \A i \in DOMAIN parsers : BodyOK(parsers[i])
  /\ status = "undefined" => ~Sound(This)

LEMMA ThisBody ==
  ASSUME BodyInv
  PROVE  ParserInv /\ BodyOK(This) /\ This \in ParserObject /\ This.stack \in Seq(StackItem)
         /\ This.depth \in Nat
<1>1. ParserInv
  BY DEF BodyInv
<1>2. Len(parsers) \in DOMAIN parsers /\ This \in ParserObject
  BY <1>1, ThisOK
<1>3. BodyOK(This)
  BY <1>2 DEF BodyInv, This
<1> QED BY <1>1, <1>2, <1>3 DEF ParserObject

LEMMA BodyBecomes ==
  ASSUME BodyInv, NEW p, BodyOK(p), Become(p), ParserInv', status' = "running"
  PROVE  BodyInv'
<1> DEFINE n == Len(parsers)
<1>1. parsers \in Seq(ParserObject) /\ n \in DOMAIN parsers
  BY ThisOK, ParserTyped DEF BodyInv, ParserInv
<1>2. parsers' = [parsers EXCEPT ![n] = p]
  BY DEF Become
<1> HIDE DEF n
<1>3. DOMAIN parsers' = DOMAIN parsers
      /\ \A j \in DOMAIN parsers : parsers'[j] = IF j = n THEN p ELSE parsers[j]
  BY <1>1, <1>2
<1> QED BY <1>3 DEF BodyInv

\* What can be said of an item that is on top while there is a token.
LEMMA TopBraced ==
  ASSUME BodyInv, Sound(This), This.stack # <<>>, This.next # None
  PROVE  /\ Rest \in Seq(StackItem) /\ Item \in StackItem
         /\ \/ Fresh(This)
            \/ /\ This.depth \in Nat /\ This.depth >= 1
               /\ \E e \in Nat : Braced(Rest, e) /\ Climbs(Item, e, This.depth)
<1>1. BodyOK(This) /\ This.stack \in Seq(StackItem)
  BY ThisBody
<1>2. Rest \in Seq(StackItem) /\ Item \in StackItem
  BY <1>1, TailPile DEF Rest, Item
<1>3. CASE Fresh(This)
  BY <1>2, <1>3
<1>4. CASE ~Fresh(This)
  <2>1. Braced(This.stack, This.depth) /\ This.depth # 0
    BY <1>1, <1>4 DEF BodyOK
  <2>2. /\ This.depth \in Nat /\ This.depth >= 1
        /\ \E e \in Nat : Braced(Rest, e) /\ Climbs(Item, e, This.depth)
    BY <1>1, <2>1, BracedTop DEF Rest, Item
  <2> QED BY <1>2, <2>2
<1> QED BY <1>3, <1>4

LEMMA AfterBlock ==
  ASSUME TypeOK, NEW p, p.kind = "block", NEW t \in After(p)
  PROVE  t = None <=> Depth(p) = 0
<1>1. source.body \subseteq TokenKind
  BY SourceAssumption DEF TypeOK
<1>2. (Depth(p) = 0 => t = None) /\ (Depth(p) # 0 => t \in source.body \cup {Right})
  BY DEF After, Right
<1> QED BY <1>1, <1>2, TokensOnly

LEMMA TakeBraced ==
  ASSUME BodyInv, ParserInv', NEW items, NEW tokens, NEW row, Take(items, tokens, row),
         Sound(This) => Braced(row \o Rest, Depth(This))
  PROVE  BodyInv'
<1> DEFINE p == This
           s == row \o Rest
<1>1. p \in ParserObject /\ TypeOK
  BY ThisBody DEF ParserInv
<1>2. PICK t \in After(p) :
        Become([p EXCEPT !.next = t, !.last = IF t = EOF THEN p.next ELSE None,
                         !.read = IF @ = source.tokens THEN @ ELSE @ + 1,
                         !.depth = Depth(p), !.stack = s])
  BY DEF Take, Consume
<1> DEFINE q == [p EXCEPT !.next = t, !.last = IF t = EOF THEN p.next ELSE None,
                          !.read = IF @ = source.tokens THEN @ ELSE @ + 1,
                          !.depth = Depth(p), !.stack = s]
<1> HIDE DEF p, s
<1>3. /\ q.stack = s /\ q.kind = p.kind /\ q.failed = p.failed
      /\ q.next = t /\ q.depth = Depth(p)
  BY <1>1 DEF ParserObject
<1>4. Become(q) /\ status' = "running"
  BY <1>2 DEF Take, At
<1> HIDE DEF q
<1>5. p.kind = "block" => (t = None <=> Depth(p) = 0)
  BY <1>1, AfterBlock
<1>6. BodyOK(q)
  BY <1>3, <1>5 DEF BodyOK, Sound, p, s
<1> QED BY <1>4, <1>6, BodyBecomes

\* The parser stays at its token.
LEMMA ReplaceBraced ==
  ASSUME BodyInv, ParserInv', NEW items, NEW tokens, NEW row, Replace(items, tokens, row),
         None \notin tokens,
         Sound(This) => Braced(row \o Rest, This.depth) /\ This.depth # 0
  PROVE  BodyInv'
<1> DEFINE p == This
           s == row \o Rest
           q == [p EXCEPT !.stack = s]
<1>1. p \in ParserObject /\ Become(q) /\ p.next # None /\ status' = "running"
  BY ThisBody DEF Replace, At, Sees
<1> HIDE DEF p, s
<1>2. /\ q.stack = s /\ q.kind = p.kind /\ q.failed = p.failed
      /\ q.next = p.next /\ q.depth = p.depth
  BY <1>1 DEF ParserObject
<1> HIDE DEF q
<1>3. BodyOK(q)
  BY <1>1, <1>2 DEF BodyOK, Sound, p, s
<1> QED BY <1>1, <1>3, BodyBecomes

\* An error was met.
LEMMA ThrowBraced ==
  ASSUME BodyInv, ParserInv', status = "running", Throw
  PROVE  BodyInv'
<1> DEFINE row == IF This.stack[Catch] = "catch statement" THEN <<"synchronize", "report">>
                  ELSE <<"report">>
           p == This
           s == row \o Caught
           q == [p EXCEPT !.failed = TRUE, !.stack = s]
<1>1. p \in ParserObject /\ Become(q) /\ status' = "running"
  BY ThisBody DEF Throw
<1> HIDE DEF p, s
<1>2. q.failed
  BY <1>1 DEF ParserObject
<1> HIDE DEF q
<1>3. BodyOK(q)
  BY <1>2 DEF BodyOK, Sound
<1> QED BY <1>1, <1>3, BodyBecomes

LEMMA FailBraced ==
  ASSUME BodyInv, ParserInv', NEW items, NEW tokens, Fail(items, tokens)
  PROVE  BodyInv'
BY ThrowBraced DEF Fail, At

-----------------------------------------------------------------------------
(* The productions, by what they do with braces.                           *)

LEMMA DepthFlat ==
  ASSUME NEW p, p.kind = "block"
  PROVE  /\ p.next \in PlainToken => Depth(p) = p.depth
         /\ p.next = Left => Depth(p) = p.depth + 1
         /\ p.next = Right => Depth(p) = p.depth - 1
BY DepthCases DEF PlainToken

\* No brace is read, none is expected.
LEMMA TakeFlat ==
  ASSUME BodyInv, ParserInv', NEW items, NEW tokens, NEW row, Take(items, tokens, row),
         items \subseteq Flat, tokens \subseteq PlainToken, row \in Seq(Flat)
  PROVE  BodyInv'
<1>1. This.stack # <<>> /\ Item \in Flat /\ This.next \in PlainToken
  BY DEF Take, At, Sees
<1>2. This.next # None /\ This.next # Left
  BY <1>1, TokensOnly DEF PlainToken
<1>3. ASSUME Sound(This) PROVE Braced(row \o Rest, Depth(This))
  <2>1. /\ Rest \in Seq(StackItem) /\ This.depth \in Nat /\ This.depth >= 1
        /\ \E e \in Nat : Braced(Rest, e) /\ Climbs(Item, e, This.depth)
    BY <1>1, <1>2, <1>3, TopBraced DEF Fresh
  <2>2. Braced(Rest, This.depth)
    BY <1>1, <2>1, WeightCases DEF Climbs
  <2>3. Depth(This) = This.depth
    BY <1>1, <1>3, DepthFlat DEF Sound
  <2> QED BY <2>1, <2>2, <2>3, BracedRow
<1> QED BY <1>3, TakeBraced

LEMMA ReplaceEntered ==
  ASSUME BodyInv, ParserInv', NEW items, NEW tokens, NEW row, Replace(items, tokens, row),
         items \subseteq Flat, None \notin tokens, row \in Seq(Flat), ~Fresh(This)
  PROVE  BodyInv'
<1>1. This.stack # <<>> /\ Item \in Flat /\ This.next # None
  BY DEF Replace, At, Sees
<1>2. ASSUME Sound(This) PROVE Braced(row \o Rest, This.depth) /\ This.depth # 0
  <2>1. /\ Rest \in Seq(StackItem) /\ This.depth \in Nat /\ This.depth >= 1
        /\ \E e \in Nat : Braced(Rest, e) /\ Climbs(Item, e, This.depth)
    BY <1>1, <1>2, TopBraced
  <2>2. Braced(Rest, This.depth)
    BY <1>1, <2>1, WeightCases DEF Climbs
  <2> QED BY <2>1, <2>2, BracedRow
<1> QED BY <1>2, ReplaceBraced

LEMMA ReplaceFlat ==
  ASSUME BodyInv, ParserInv', NEW items, NEW tokens, NEW row, Replace(items, tokens, row),
         items \subseteq Flat, None \notin tokens, row \in Seq(Flat),
         Left \notin tokens \/ \A x \in items : x # "statement" /\ x # "class_decl_stmt"
  PROVE  BodyInv'
<1>1. Item \in items /\ This.next \in tokens
  BY DEF Replace, At, Sees
<1>2. ~Fresh(This)
  BY <1>1 DEF Fresh, Item
<1> QED BY <1>2, ReplaceEntered

\* What ends behind a brace still does so.
LEMMA CloserBelow ==
  ASSUME BodyInv, Sound(This), This.stack # <<>>, This.next # None, Item \in Closer,
         NEW row \in Seq(Flat), NEW closer \in Closer
  PROVE  /\ Braced((row \o <<closer>>) \o Rest, This.depth) /\ This.depth # 0
         /\ \E e \in Nat : Braced(Rest, e) /\ This.depth = e + 1
<1>1. ~Fresh(This)
  <2>1. Fresh(This) => Item = "statement" \/ Item = "class_decl_stmt"
    BY DEF Fresh, Item
  <2>2. "statement" \notin Closer /\ "class_decl_stmt" \notin Closer
    BY DEF Closer
  <2> QED BY <2>1, <2>2
<1>2. /\ Rest \in Seq(StackItem) /\ This.depth \in Nat /\ This.depth >= 1
      /\ \E e \in Nat : Braced(Rest, e) /\ Climbs(Item, e, This.depth)
  BY <1>1, TopBraced
<1>3. PICK e \in Nat : Braced(Rest, e) /\ Climbs(closer, e, This.depth) /\ This.depth = e + 1
  BY <1>2, WeightCases DEF Climbs
<1>4. closer \in StackItem
  BY DEF Closer, StackItem, Function
<1>5. Braced(<<closer>> \o Rest, This.depth)
  BY <1>2, <1>3, <1>4, BracedPush
<1>6. /\ <<closer>> \in Seq(StackItem) /\ <<closer>> \o Rest \in Seq(StackItem)
      /\ row \in Seq(StackItem)
  BY <1>2, <1>4, FlatOnly
<1>7. Braced(row \o (<<closer>> \o Rest), This.depth)
  BY <1>2, <1>5, <1>6, BracedRow
<1>8. (row \o <<closer>>) \o Rest = row \o (<<closer>> \o Rest)
  BY <1>2, <1>6, ConcatAssociative
<1>9. Braced((row \o <<closer>>) \o Rest, This.depth)
  BY <1>7, <1>8
<1> QED BY <1>2, <1>3, <1>9

LEMMA TakeCloser ==
  ASSUME BodyInv, ParserInv', NEW items, NEW tokens, NEW row, NEW closer,
         Take(items, tokens, row \o <<closer>>),
         items \subseteq Closer, tokens \subseteq PlainToken, row \in Seq(Flat), closer \in Closer
  PROVE  BodyInv'
<1>1. This.stack # <<>> /\ Item \in Closer /\ This.next \in PlainToken
  BY DEF Take, At, Sees
<1>2. This.next # None
  BY <1>1, TokensOnly DEF PlainToken
<1>3. Sound(This) => Braced((row \o <<closer>>) \o Rest, Depth(This))
  BY <1>1, <1>2, CloserBelow, DepthFlat DEF Sound
<1> QED BY <1>3, TakeBraced

LEMMA ReplaceCloser ==
  ASSUME BodyInv, ParserInv', NEW items, NEW tokens, NEW row, NEW closer,
         Replace(items, tokens, row \o <<closer>>),
         items \subseteq Closer, None \notin tokens, row \in Seq(Flat), closer \in Closer
  PROVE  BodyInv'
<1>1. This.stack # <<>> /\ Item \in Closer /\ This.next # None
  BY DEF Replace, At, Sees
<1>2. Sound(This) => Braced((row \o <<closer>>) \o Rest, This.depth) /\ This.depth # 0
  BY <1>1, CloserBelow
<1> QED BY <1>2, ReplaceBraced

\* It ends.
LEMMA TakeClose ==
  ASSUME BodyInv, ParserInv', NEW items, NEW tokens, Take(items, tokens, <<>>),
         items \subseteq Closer, tokens = {Right}
  PROVE  BodyInv'
<1>1. This.stack # <<>> /\ Item \in Closer /\ This.next = Right
  BY DEF Take, At, Sees
<1>2. This.next # None
  BY <1>1, TokensOnly
<1>3. ASSUME Sound(This) PROVE Braced(<<>> \o Rest, Depth(This))
  <2>1. <<>> \in Seq(Flat) /\ "block" \in Closer
    BY EmptySeq DEF Closer
  <2>2. PICK e \in Nat : Braced(Rest, e) /\ This.depth = e + 1
    BY <1>1, <1>2, <1>3, <2>1, CloserBelow
  <2>3. Depth(This) = e
    BY <1>1, <1>3, <2>2, DepthFlat DEF Sound
  <2>4. Rest \in Seq(StackItem)
    BY <1>1, <1>2, <1>3, TopBraced
  <2>5. <<>> \o Rest = Rest
    BY <2>4, ConcatEmptySeq
  <2> QED BY <2>2, <2>3, <2>5
<1> QED BY <1>3, TakeBraced

\* The brace of a block, the first one or another.
LEMMA TakeOpen ==
  ASSUME BodyInv, ParserInv', NEW items, Take(items, {Left}, <<"block">>),
         items \subseteq Flat \ {"statement"}
  PROVE  BodyInv'
<1>1. This.stack # <<>> /\ Item \in Flat /\ Item # "statement" /\ This.next = Left
  BY DEF Take, At, Sees
<1>2. This.next # None
  BY <1>1, TokensOnly
<1>3. "block" \in Closer /\ "block" \in StackItem
  BY DEF Closer, StackItem, Function
<1>4. ASSUME Sound(This) PROVE Braced(<<"block">> \o Rest, Depth(This))
  <2>1. Rest \in Seq(StackItem) /\ Depth(This) = This.depth + 1
    BY <1>1, <1>2, <1>4, TopBraced, DepthFlat DEF Sound
  <2>2. This.depth \in Nat /\ Braced(Rest, This.depth)
    <3>1. CASE Fresh(This)
      <4>1. Rest = <<CatchAll>> /\ This.depth = 0
        <5>1. (\A x : Head(<<x>>) = x) /\ \A x, y : Tail(<<x, y>>) = <<y>>
          OBVIOUS
        <5>2. This.stack # <<"statement">>
          BY <1>1, <5>1 DEF Item
        <5> QED BY <3>1, <5>1, <5>2 DEF Fresh, Rest
      <4>2. Len(<<CatchAll>>) = 1 /\ Pile(<<CatchAll>>)[1] = CatchAll
        BY DEF Pile
      <4> DEFINE h == [k \in 1 .. 1 |-> 0]
      <4>3. h \in [1 .. 1 -> Nat] /\ h[1] = 0 /\ 2 .. 1 = {}
        OBVIOUS
      <4> HIDE DEF h
      <4>4. Braced(<<CatchAll>>, 0)
        BY <4>2, <4>3 DEF Braced
      <4> QED BY <4>1, <4>4
    <3>2. CASE ~Fresh(This)
      BY <1>1, <1>2, <1>4, <3>2, TopBraced, WeightCases DEF Climbs
    <3> QED BY <3>1, <3>2
  <2>3. Climbs("block", This.depth, Depth(This)) /\ Depth(This) \in Nat
    BY <1>3, <2>1, <2>2, WeightCases DEF Climbs
  <2> QED BY <1>3, <2>1, <2>2, <2>3, BracedPush
<1> QED BY <1>4, TakeBraced

\* A brace is expected, and the one that closes it.
LEMMA BracesRow ==
  ASSUME NEW t \in Seq(StackItem), NEW d \in Nat, d >= 1, Braced(t, d), NEW closer \in Closer,
         NEW row \in Seq(Flat), NEW last \in Seq(Flat)
  PROVE  Braced(((row \o <<Left>>) \o (<<closer>> \o last)) \o t, d)
<1>1. /\ row \in Seq(StackItem) /\ last \in Seq(StackItem) /\ <<Left>> \in Seq(StackItem)
      /\ closer \in StackItem /\ <<closer>> \in Seq(StackItem) /\ Left \in StackItem
  <2>1. closer \in StackItem /\ Left \in StackItem
    BY TokensOnly DEF Closer, StackItem, Function
  <2> QED BY <2>1, FlatOnly
<1> DEFINE a == last \o t
           b == <<closer>> \o a
           c == <<Left>> \o b
<1>2. Braced(a, d) /\ a \in Seq(StackItem)
  BY <1>1, BracedRow, ConcatProperties
<1> HIDE DEF a
<1>3. Climbs(closer, d, d + 1) /\ d + 1 \in Nat /\ Climbs(Left, d + 1, d)
  BY WeightCases DEF Climbs
<1>4. Braced(b, d + 1) /\ b \in Seq(StackItem)
  BY <1>1, <1>2, <1>3, BracedPush, ConcatProperties
<1> HIDE DEF b
<1>5. Braced(c, d) /\ c \in Seq(StackItem)
  BY <1>1, <1>3, <1>4, BracedPush, ConcatProperties
<1>6. Braced(row \o c, d)
  BY <1>1, <1>5, BracedRow
<1>7. ((row \o <<Left>>) \o (<<closer>> \o last)) \o t = row \o c
  <2>1. row \o <<Left>> \in Seq(StackItem) /\ <<closer>> \o last \in Seq(StackItem)
    BY <1>1, ConcatProperties
  <2>2. ((row \o <<Left>>) \o (<<closer>> \o last)) \o t
          = (row \o <<Left>>) \o ((<<closer>> \o last) \o t)
    BY <1>1, <2>1, ConcatAssociative
  <2>3. (<<closer>> \o last) \o t = b
    BY <1>1, ConcatAssociative DEF a, b
  <2>4. (row \o <<Left>>) \o b = row \o c
    BY <1>1, <1>4, ConcatAssociative
  <2> QED BY <2>2, <2>3, <2>4
<1> QED BY <1>6, <1>7

LEMMA TakeBraces ==
  ASSUME BodyInv, ParserInv', NEW items, NEW tokens, NEW row, NEW closer, NEW last,
         Take(items, tokens, (row \o <<Left>>) \o (<<closer>> \o last)),
         items \subseteq Flat, tokens \subseteq PlainToken,
         row \in Seq(Flat), closer \in Closer, last \in Seq(Flat)
  PROVE  BodyInv'
<1>1. This.stack # <<>> /\ Item \in Flat /\ This.next \in PlainToken
  BY DEF Take, At, Sees
<1>2. This.next # None /\ This.next # Left
  BY <1>1, TokensOnly DEF PlainToken
<1>3. ASSUME Sound(This)
      PROVE  Braced(((row \o <<Left>>) \o (<<closer>> \o last)) \o Rest, Depth(This))
  <2>1. /\ Rest \in Seq(StackItem) /\ This.depth \in Nat /\ This.depth >= 1
        /\ \E e \in Nat : Braced(Rest, e) /\ Climbs(Item, e, This.depth)
    BY <1>1, <1>2, <1>3, TopBraced DEF Fresh
  <2>2. Braced(Rest, This.depth)
    BY <1>1, <2>1, WeightCases DEF Climbs
  <2>3. Depth(This) = This.depth
    BY <1>1, <1>3, DepthFlat DEF Sound
  <2> QED BY <2>1, <2>2, <2>3, BracesRow
<1> QED BY <1>3, TakeBraced

\* An expected token.
LEMMA TakeExpected ==
  ASSUME BodyInv, ParserInv', Take(TokenKind, {Item}, <<>>)
  PROVE  BodyInv'
<1>1. This.stack # <<>> /\ Item \in TokenKind /\ This.next = Item
  BY DEF Take, At, Sees
<1>2. This.next # None
  BY <1>1, TokensOnly
<1>3. Item # "statement" /\ Item # "class_decl_stmt" /\ Item \notin Closer
  <2>1. \A x \in TokenKind : x # "statement" /\ x # "class_decl_stmt" /\ x \notin Closer
    BY DEF TokenKind, Keyword, Symbol, Operator, Name, Closer
  <2> QED BY <1>1, <2>1
<1>4. ~Fresh(This)
  BY <1>3 DEF Fresh, Item
<1>5. ASSUME Sound(This) PROVE Braced(<<>> \o Rest, Depth(This))
  <2>1. /\ Rest \in Seq(StackItem) /\ This.depth \in Nat
        /\ \E e \in Nat : Braced(Rest, e) /\ Climbs(Item, e, This.depth)
    BY <1>1, <1>2, <1>4, <1>5, TopBraced
  <2>2. PICK e \in Nat : Braced(Rest, e) /\ This.depth = e + Weight(Item)
    BY <2>1 DEF Climbs
  <2>3. Depth(This) = e
    <3>1. CASE Item = Left
      BY <1>1, <1>5, <2>1, <2>2, <3>1, DepthFlat, WeightCases DEF Sound
    <3>2. CASE Item = Right
      BY <1>1, <1>5, <2>1, <2>2, <3>2, DepthFlat, WeightCases DEF Sound
    <3>3. CASE Item # Left /\ Item # Right
      <4>1. Weight(Item) = 0
        BY <1>3, <3>3 DEF Weight
      <4>2. Depth(This) = This.depth
        BY <1>1, <1>5, <3>3, DepthFlat DEF Sound, PlainToken
      <4> QED BY <2>1, <2>2, <4>1, <4>2
    <3> QED BY <3>1, <3>2, <3>3
  <2>4. <<>> \o Rest = Rest
    BY <2>1, ConcatEmptySeq
  <2> QED BY <2>2, <2>3, <2>4
<1> QED BY <1>5, TakeBraced

\* An item that reads no token is dropped: the last one catches the errors of the block.
LEMMA DropBraced ==
  ASSUME BodyInv, NEW p, This.stack # <<>>, Item \in Silent,
         p.stack = Rest, p.kind = This.kind, p.failed = This.failed, p.next = This.next,
         p.depth = This.depth
  PROVE  BodyOK(p)
<1>1. Item \in Flat /\ Item # "statement" /\ Item # "class_decl_stmt"
  <2>1. \A x \in Silent : x # "statement" /\ x # "class_decl_stmt"
    BY DEF Silent, Handler
  <2> QED BY <2>1, FlatWords
<1>2. ~Fresh(This)
  BY <1>1 DEF Fresh, Item
<1>3. BodyOK(This) /\ This.stack \in Seq(StackItem)
  BY ThisBody
<1>4. ASSUME Sound(This), This.depth # 0
      PROVE  Braced(Rest, This.depth) /\ This.next # None
  <2>1. Braced(This.stack, This.depth) /\ This.next # None
    BY <1>2, <1>3, <1>4 DEF BodyOK
  <2>2. \E e \in Nat : Braced(Rest, e) /\ Climbs(Item, e, This.depth)
    BY <1>2, <1>4, <2>1, TopBraced
  <2> QED BY <1>1, <2>1, <2>2, WeightCases DEF Climbs
<1>5. ASSUME Sound(This), This.depth = 0
      PROVE  Rest = <<>> /\ This.next = None
  <2>1. Braced(This.stack, 0) /\ This.next = None
    BY <1>2, <1>3, <1>5 DEF BodyOK
  <2> QED BY <1>3, <2>1, BracedEnd DEF Rest
<1> QED BY <1>4, <1>5 DEF BodyOK, Sound

LEMMA DropInv ==
  ASSUME BodyInv, ParserInv', At(Silent), status' = status, NEW p, Become(p),
         p.stack = Rest, p.kind = This.kind, p.failed = This.failed, p.next = This.next,
         p.depth = This.depth
  PROVE  BodyInv'
<1>1. This.stack # <<>> /\ Item \in Silent /\ status' = "running"
  BY DEF At
<1>2. BodyOK(p)
  BY <1>1, DropBraced
<1> QED BY <1>1, <1>2, BodyBecomes

-----------------------------------------------------------------------------
(* The words of the grammar, as far as braces go.                          *)

\* The functions that do not end behind a brace.
Braceless ==
  {"parse", "statement", "expression", "class_decl_stmt", "for_stmt", "elif_stmt", "declarator",
   "const declarator", "member", "const member", "initializer", "const arr", "const var",
   "array initializer", "name", "func_decl_stmt", "parameters", "after parameter", "result",
   "body", "get_type", "arguments", "after argument", "assignments", "alternatives", "operations",
   "unary_expr", "postfix", "array_access_expr", "identifier", "call_expr", "called"}

LEMMA FlatItems ==
  /\ Braceless \subseteq Flat /\ Silent \subseteq Flat
  /\ {"number", "(", ")", "[", "]", ";", ":", "type"} \subseteq Flat
<1>1. Braceless \subseteq Function
  BY DEF Braceless, Function
<1>2. \A x \in Braceless : x \notin Closer
  BY DEF Braceless, Closer
<1>3. \A x \in Braceless : x # "synchronize"
  BY DEF Braceless
<1>4. {"number", "(", ")", "[", "]", ";", ":"} \subseteq PlainToken
  BY PlainTokens
<1>5. "type" \in PlainToken
  BY PlainTokens DEF Name
<1> QED BY <1>1, <1>2, <1>3, <1>4, <1>5, FlatWords

LEMMA FlatRow1 ==
  ASSUME NEW a \in Flat
  PROVE  <<a>> \in Seq(Flat)
BY Rows

LEMMA FlatRow2 ==
  ASSUME NEW a \in Flat, NEW b \in Flat
  PROVE  <<a, b>> \in Seq(Flat)
BY Rows

LEMMA FlatRow3 ==
  ASSUME NEW a \in Flat, NEW b \in Flat, NEW c \in Flat
  PROVE  <<a, b, c>> \in Seq(Flat)
BY Rows

LEMMA FlatRow4 ==
  ASSUME NEW a \in Flat, NEW b \in Flat, NEW c \in Flat, NEW d \in Flat
  PROVE  <<a, b, c, d>> \in Seq(Flat)
BY Rows

LEMMA FlatRow5 ==
  ASSUME NEW a \in Flat, NEW b \in Flat, NEW c \in Flat, NEW d \in Flat, NEW e \in Flat
  PROVE  <<a, b, c, d, e>> \in Seq(Flat)
BY Rows

LEMMA FlatRow6 ==
  ASSUME NEW a \in Flat, NEW b \in Flat, NEW c \in Flat, NEW d \in Flat, NEW e \in Flat,
         NEW f \in Flat
  PROVE  <<a, b, c, d, e, f>> \in Seq(Flat)
BY Rows

LEMMA ButTokens ==
  ASSUME NEW tokens
  PROVE  None \notin But(tokens) /\ (Left \in tokens => Left \notin But(tokens))
BY TokensOnly DEF But

LEMMA NamedFlat ==
  /\ Binary \in Seq(Flat) /\ Assignment \in Seq(Flat) /\ Continued \in Seq(Flat)
  /\ Condition \in Seq(Flat) /\ Body \in Seq(Flat)
<1>1. Binary \in Seq(Flat)
  BY FlatItems, FlatRow2 DEF Binary, Braceless
<1>2. <<"alternatives", "assignments">> \in Seq(Flat)
  BY FlatItems, FlatRow2 DEF Braceless
<1>3. Assignment \in Seq(Flat)
  BY <1>1, <1>2, ConcatProperties DEF Assignment
<1>4. Continued \in Seq(Flat)
  BY FlatItems, FlatRow5 DEF Continued, Braceless
<1>5. Condition \in Seq(Flat)
  BY FlatItems, FlatRow3 DEF Condition, Braceless
<1>6. Body \in Seq(Flat)
  BY FlatItems, FlatRow3 DEF Body, Braceless, Silent
<1> QED BY <1>1, <1>3, <1>4, <1>5, <1>6

LEMMA FlatConcat ==
  ASSUME NEW r \in Seq(Flat), NEW q \in Seq(Flat)
  PROVE  r \o q \in Seq(Flat)
BY ConcatProperties

\* The parser stays at any token but a few, in a function that has been entered.
LEMMA ButFlat ==
  ASSUME BodyInv, ParserInv', NEW items, NEW seen, NEW row, Replace(items, But(seen), row),
         items \subseteq Braceless \ {"statement", "class_decl_stmt"}, row \in Seq(Flat)
  PROVE  BodyInv'
<1>1. items \subseteq Flat
  BY FlatItems
<1>2. None \notin But(seen)
  BY ButTokens
<1> QED BY <1>1, <1>2, ReplaceFlat

LEMMA ExpressionBody ==
  ASSUME BodyInv, ParserInv', expression
  PROVE  BodyInv'
<1>1. {"expression"} \subseteq Braceless \ {"statement", "class_decl_stmt"}
  BY DEF Braceless
<1>2. Assignment \o <<"catch expression">> \in Seq(Flat)
  <2>1. <<"catch expression">> \in Seq(Flat)
    BY FlatItems, FlatRow1 DEF Handler, Silent
  <2> QED BY <2>1, NamedFlat, FlatConcat
<1> QED BY <1>1, <1>2, ButFlat DEF expression

LEMMA ExprStmtBody ==
  ASSUME BodyInv, ParserInv', expr_stmt
  PROVE  BodyInv'
<1> DEFINE others == But({"const", "type", "{", "print", "if", "for", "while", "break", "def",
                            "return", "class"})
<1>1. FromFor \subseteq Flat
  BY FlatItems DEF Braceless, FromFor
<1>2. Assignment \o <<";">> \in Seq(Flat)
  <2>1. <<";">> \in Seq(Flat)
    BY FlatItems, FlatRow1
  <2> QED BY <2>1, NamedFlat, FlatConcat
<1>3. None \notin others /\ Left \notin others
  BY ButTokens DEF Left
<1>4. Replace(FromFor, others, Assignment \o <<";">>)
  BY DEF expr_stmt
<1> HIDE DEF others
<1> QED BY <1>1, <1>2, <1>3, <1>4, ReplaceFlat

LEMMA BreakStmtBody ==
  ASSUME BodyInv, ParserInv', break_stmt
  PROVE  BodyInv'
<1>1. FromFor \subseteq Flat
  BY FlatItems DEF Braceless, FromFor
<1>2. <<"in loop", ";">> \in Seq(Flat)
  BY FlatItems, FlatRow2 DEF Silent
<1>3. {"break"} \subseteq PlainToken
  BY PlainTokens DEF Keyword
<1> QED BY <1>1, <1>2, <1>3, TakeFlat DEF break_stmt

LEMMA ReturnStmtBody ==
  ASSUME BodyInv, ParserInv', return_stmt
  PROVE  BodyInv'
<1>1. FromFor \subseteq Flat
  BY FlatItems DEF Braceless, FromFor
<1>2. <<"in function", "expression", ";">> \in Seq(Flat)
  BY FlatItems, FlatRow3 DEF Braceless, Silent
<1>3. {"return"} \subseteq PlainToken
  BY PlainTokens DEF Keyword
<1> QED BY <1>1, <1>2, <1>3, TakeFlat DEF return_stmt

LEMMA PrintStmtBody ==
  ASSUME BodyInv, ParserInv', print_stmt
  PROVE  BodyInv'
<1>1. FromFor \subseteq Flat
  BY FlatItems DEF Braceless, FromFor
<1>2. <<"expression", ";">> \in Seq(Flat)
  BY FlatItems, FlatRow2 DEF Braceless
<1>3. {"print"} \subseteq PlainToken
  BY PlainTokens DEF Keyword
<1> QED BY <1>1, <1>2, <1>3, TakeFlat DEF print_stmt

LEMMA IfStmtBody ==
  ASSUME BodyInv, ParserInv', if_stmt
  PROVE  BodyInv'
<1>1. FromFor \subseteq Flat
  BY FlatItems DEF Braceless, FromFor
<1>2. Condition \o <<"statement", "elif_stmt">> \in Seq(Flat)
  <2>1. <<"statement", "elif_stmt">> \in Seq(Flat)
    BY FlatItems, FlatRow2 DEF Braceless
  <2> QED BY <2>1, NamedFlat, FlatConcat
<1>3. {"if"} \subseteq PlainToken
  BY PlainTokens DEF Keyword
<1> QED BY <1>1, <1>2, <1>3, TakeFlat DEF if_stmt

LEMMA ElifStmtBody ==
  ASSUME BodyInv, ParserInv', elif_stmt
  PROVE  BodyInv'
<1>1. CASE Take({"elif_stmt"}, {"elif"}, Condition \o <<"statement", "elif_stmt">>)
  <2>1. {"elif_stmt"} \subseteq Flat
    BY FlatItems DEF Braceless
  <2>2. Condition \o <<"statement", "elif_stmt">> \in Seq(Flat)
    <3>1. <<"statement", "elif_stmt">> \in Seq(Flat)
      BY FlatItems, FlatRow2 DEF Braceless
    <3> QED BY <3>1, NamedFlat, FlatConcat
  <2>3. {"elif"} \subseteq PlainToken
    BY PlainTokens DEF Keyword
  <2> QED BY <1>1, <2>1, <2>2, <2>3, TakeFlat
<1>2. CASE Take({"elif_stmt"}, {"else"}, <<"statement">>)
  <2>1. {"elif_stmt"} \subseteq Flat
    BY FlatItems DEF Braceless
  <2>2. <<"statement">> \in Seq(Flat)
    BY FlatItems, FlatRow1 DEF Braceless
  <2>3. {"else"} \subseteq PlainToken
    BY PlainTokens DEF Keyword
  <2> QED BY <1>2, <2>1, <2>2, <2>3, TakeFlat
<1>3. CASE Replace({"elif_stmt"}, But({"elif", "else"}), <<>>)
  <2>1. {"elif_stmt"} \subseteq Braceless \ {"statement", "class_decl_stmt"}
    BY DEF Braceless
  <2>2. <<>> \in Seq(Flat)
    BY EmptySeq
  <2> QED BY <1>3, <2>1, <2>2, ButFlat
<1> QED BY <1>1, <1>2, <1>3 DEF elif_stmt

LEMMA WhileStmtBody ==
  ASSUME BodyInv, ParserInv', while_stmt
  PROVE  BodyInv'
<1>1. FromFor \subseteq Flat
  BY FlatItems DEF Braceless, FromFor
<1>2. Condition \o Body \in Seq(Flat)
  <2> QED BY NamedFlat, FlatConcat
<1>3. {"while"} \subseteq PlainToken
  BY PlainTokens DEF Keyword
<1> QED BY <1>1, <1>2, <1>3, TakeFlat DEF while_stmt

LEMMA ForStmtBody ==
  ASSUME BodyInv, ParserInv', for_stmt
  PROVE  BodyInv'
<1>1. FromFor \subseteq Flat
  BY FlatItems DEF Braceless, FromFor
<1>2. <<"(", "statement", "expression", ";", "expression", ")">> \o Body \in Seq(Flat)
  <2>1. <<"(", "statement", "expression", ";", "expression", ")">> \in Seq(Flat)
    BY FlatItems, FlatRow6 DEF Braceless
  <2> QED BY <2>1, NamedFlat, FlatConcat
<1>3. {"for"} \subseteq PlainToken
  BY PlainTokens DEF Keyword
<1> QED BY <1>1, <1>2, <1>3, TakeFlat DEF for_stmt

LEMMA VarDeclStmtBody ==
  ASSUME BodyInv, ParserInv', var_decl_stmt
  PROVE  BodyInv'
<1>1. CASE Take({"class_decl_stmt"}, {"type"}, <<"declarator">>)
  <2>1. {"class_decl_stmt"} \subseteq Flat
    BY FlatItems DEF Braceless
  <2>2. <<"declarator">> \in Seq(Flat)
    BY FlatItems, FlatRow1 DEF Braceless
  <2>3. {"type"} \subseteq PlainToken
    BY PlainTokens DEF Name
  <2> QED BY <1>1, <2>1, <2>2, <2>3, TakeFlat
<1>2. CASE Take({"declarator", "const declarator", "member", "const member"}, Name, <<"initializer", ";">>)
  <2>1. {"declarator", "const declarator", "member", "const member"} \subseteq Flat
    BY FlatItems DEF Braceless
  <2>2. <<"initializer", ";">> \in Seq(Flat)
    BY FlatItems, FlatRow2 DEF Braceless
  <2>3. Name \subseteq PlainToken
    BY PlainTokens
  <2> QED BY <1>2, <2>1, <2>2, <2>3, TakeFlat
<1>3. CASE Replace({"declarator"}, But(Name \cup {"["}), Continued \o <<";">>)
  <2>1. {"declarator"} \subseteq Braceless \ {"statement", "class_decl_stmt"}
    BY DEF Braceless
  <2>2. Continued \o <<";">> \in Seq(Flat)
    <3>1. <<";">> \in Seq(Flat)
      BY FlatItems, FlatRow1
    <3> QED BY <3>1, NamedFlat, FlatConcat
  <2> QED BY <1>3, <2>1, <2>2, ButFlat
<1>4. CASE Replace({"member"}, But(Name), Continued \o <<";", "cast">>)
  <2>1. {"member"} \subseteq Braceless \ {"statement", "class_decl_stmt"}
    BY DEF Braceless
  <2>2. Continued \o <<";", "cast">> \in Seq(Flat)
    <3>1. <<";", "cast">> \in Seq(Flat)
      BY FlatItems, FlatRow2 DEF Silent
    <3> QED BY <3>1, NamedFlat, FlatConcat
  <2> QED BY <1>4, <2>1, <2>2, ButFlat
<1>5. CASE Fail({"const declarator"}, But(Name \cup {"["}))
  BY <1>5, FailBraced
<1>6. CASE Fail({"const member"}, But(Name))
  BY <1>6, FailBraced
<1>7. CASE Take({"initializer"}, {"="}, <<"expression">>)
  <2>1. {"initializer"} \subseteq Flat
    BY FlatItems DEF Braceless
  <2>2. <<"expression">> \in Seq(Flat)
    BY FlatItems, FlatRow1 DEF Braceless
  <2>3. {"="} \subseteq PlainToken
    BY PlainTokens DEF Operator
  <2> QED BY <1>7, <2>1, <2>2, <2>3, TakeFlat
<1>8. CASE Replace({"initializer"}, But({"="}), <<>>)
  <2>1. {"initializer"} \subseteq Braceless \ {"statement", "class_decl_stmt"}
    BY DEF Braceless
  <2>2. <<>> \in Seq(Flat)
    BY EmptySeq
  <2> QED BY <1>8, <2>1, <2>2, ButFlat
<1> QED BY <1>1, <1>2, <1>3, <1>4, <1>5, <1>6, <1>7, <1>8 DEF var_decl_stmt

LEMMA ConstBody ==
  ASSUME BodyInv, ParserInv', Const
  PROVE  BodyInv'
<1>1. CASE Take({"class_decl_stmt"}, {"const"}, <<"const arr">>)
  <2>1. {"class_decl_stmt"} \subseteq Flat
    BY FlatItems DEF Braceless
  <2>2. <<"const arr">> \in Seq(Flat)
    BY FlatItems, FlatRow1 DEF Braceless
  <2>3. {"const"} \subseteq PlainToken
    BY PlainTokens DEF Keyword
  <2> QED BY <1>1, <2>1, <2>2, <2>3, TakeFlat
<1>2. CASE Take({"const arr"}, {"type"}, <<"const declarator">>)
  <2>1. {"const arr"} \subseteq Flat
    BY FlatItems DEF Braceless
  <2>2. <<"const declarator">> \in Seq(Flat)
    BY FlatItems, FlatRow1 DEF Braceless
  <2>3. {"type"} \subseteq PlainToken
    BY PlainTokens DEF Name
  <2> QED BY <1>2, <2>1, <2>2, <2>3, TakeFlat
<1>3. CASE Take({"const arr"}, {"const"}, <<"const var">>)
  <2>1. {"const arr"} \subseteq Flat
    BY FlatItems DEF Braceless
  <2>2. <<"const var">> \in Seq(Flat)
    BY FlatItems, FlatRow1 DEF Braceless
  <2>3. {"const"} \subseteq PlainToken
    BY PlainTokens DEF Keyword
  <2> QED BY <1>3, <2>1, <2>2, <2>3, TakeFlat
<1>4. CASE Replace({"const arr"}, But({"type", "const"}), <<"for_stmt">>)
  <2>1. {"const arr"} \subseteq Braceless \ {"statement", "class_decl_stmt"}
    BY DEF Braceless
  <2>2. <<"for_stmt">> \in Seq(Flat)
    BY FlatItems, FlatRow1 DEF Braceless
  <2> QED BY <1>4, <2>1, <2>2, ButFlat
<1>5. CASE Take({"const var"}, {"type"}, <<"const member">>)
  <2>1. {"const var"} \subseteq Flat
    BY FlatItems DEF Braceless
  <2>2. <<"const member">> \in Seq(Flat)
    BY FlatItems, FlatRow1 DEF Braceless
  <2>3. {"type"} \subseteq PlainToken
    BY PlainTokens DEF Name
  <2> QED BY <1>5, <2>1, <2>2, <2>3, TakeFlat
<1>6. CASE Replace({"const var"}, But({"type"}), <<"for_stmt">>)
  <2>1. {"const var"} \subseteq Braceless \ {"statement", "class_decl_stmt"}
    BY DEF Braceless
  <2>2. <<"for_stmt">> \in Seq(Flat)
    BY FlatItems, FlatRow1 DEF Braceless
  <2> DEFINE seen == {"type"}
  <2>3. Replace({"const var"}, But(seen), <<"for_stmt">>)
    BY <1>6
  <2> HIDE DEF seen
  <2> QED BY <2>1, <2>2, <2>3, ButFlat
<1>7. CASE Fail({"for_stmt"}, {"const", "def", "class"})
  BY <1>7, FailBraced
<1> QED BY <1>1, <1>2, <1>3, <1>4, <1>5, <1>6, <1>7 DEF Const

LEMMA FuncDeclStmtBody ==
  ASSUME BodyInv, ParserInv', func_decl_stmt
  PROVE  BodyInv'
<1>1. CASE Take({"class_decl_stmt", "func_decl_stmt"}, {"def"}, <<"name", "(", "parameters", "result", "body">>)
  <2>1. {"class_decl_stmt", "func_decl_stmt"} \subseteq Flat
    BY FlatItems DEF Braceless
  <2>2. <<"name", "(", "parameters", "result", "body">> \in Seq(Flat)
    BY FlatItems, FlatRow5 DEF Braceless
  <2>3. {"def"} \subseteq PlainToken
    BY PlainTokens DEF Keyword
  <2> QED BY <1>1, <2>1, <2>2, <2>3, TakeFlat
<1>2. CASE Take({"result"}, {"->"}, <<"get_type">>)
  <2>1. {"result"} \subseteq Flat
    BY FlatItems DEF Braceless
  <2>2. <<"get_type">> \in Seq(Flat)
    BY FlatItems, FlatRow1 DEF Braceless
  <2>3. {"->"} \subseteq PlainToken
    BY PlainTokens
  <2> QED BY <1>2, <2>1, <2>2, <2>3, TakeFlat
<1>3. CASE Replace({"result"}, But({"->"}), <<>>)
  <2>1. {"result"} \subseteq Braceless \ {"statement", "class_decl_stmt"}
    BY DEF Braceless
  <2>2. <<>> \in Seq(Flat)
    BY EmptySeq
  <2> QED BY <1>3, <2>1, <2>2, ButFlat
<1>4. CASE Take({"body"}, {";"}, <<>>)
  <2>1. {"body"} \subseteq Flat
    BY FlatItems DEF Braceless
  <2>2. <<>> \in Seq(Flat)
    BY EmptySeq
  <2>3. {";"} \subseteq PlainToken
    BY PlainTokens
  <2> QED BY <1>4, <2>1, <2>2, <2>3, TakeFlat
<1>5. CASE Replace({"body"}, But({";"}), <<"func++", "statement", "func--">>)
  <2>1. {"body"} \subseteq Braceless \ {"statement", "class_decl_stmt"}
    BY DEF Braceless
  <2>2. <<"func++", "statement", "func--">> \in Seq(Flat)
    BY FlatItems, FlatRow3 DEF Braceless, Silent
  <2> QED BY <1>5, <2>1, <2>2, ButFlat
<1> QED BY <1>1, <1>2, <1>3, <1>4, <1>5 DEF func_decl_stmt

LEMMA GetTypeBody ==
  ASSUME BodyInv, ParserInv', get_type
  PROVE  BodyInv'
<1>1. CASE Take({"get_type"}, {"const"}, <<"type">>)
  <2>1. {"get_type"} \subseteq Flat
    BY FlatItems DEF Braceless
  <2>2. <<"type">> \in Seq(Flat)
    BY FlatItems, FlatRow1
  <2>3. {"const"} \subseteq PlainToken
    BY PlainTokens DEF Keyword
  <2> QED BY <1>1, <2>1, <2>2, <2>3, TakeFlat
<1>2. CASE Replace({"get_type"}, But({"const"}), <<"type">>)
  <2>1. {"get_type"} \subseteq Braceless \ {"statement", "class_decl_stmt"}
    BY DEF Braceless
  <2>2. <<"type">> \in Seq(Flat)
    BY FlatItems, FlatRow1
  <2> QED BY <1>2, <2>1, <2>2, ButFlat
<1> QED BY <1>1, <1>2 DEF get_type

LEMMA AssignmentExprBody ==
  ASSUME BodyInv, ParserInv', assignment_expr
  PROVE  BodyInv'
<1>1. CASE Take({"assignments"}, {"="}, Assignment \o <<"assignments">>)
  <2>1. {"assignments"} \subseteq Flat
    BY FlatItems DEF Braceless
  <2>2. Assignment \o <<"assignments">> \in Seq(Flat)
    <3>1. <<"assignments">> \in Seq(Flat)
      BY FlatItems, FlatRow1 DEF Braceless
    <3> QED BY <3>1, NamedFlat, FlatConcat
  <2>3. {"="} \subseteq PlainToken
    BY PlainTokens DEF Operator
  <2> QED BY <1>1, <2>1, <2>2, <2>3, TakeFlat
<1>2. CASE Replace({"assignments"}, But({"="}), <<>>)
  <2>1. {"assignments"} \subseteq Braceless \ {"statement", "class_decl_stmt"}
    BY DEF Braceless
  <2>2. <<>> \in Seq(Flat)
    BY EmptySeq
  <2> QED BY <1>2, <2>1, <2>2, ButFlat
<1> QED BY <1>1, <1>2 DEF assignment_expr

LEMMA TernaryExprBody ==
  ASSUME BodyInv, ParserInv', ternary_expr
  PROVE  BodyInv'
<1>1. CASE Take({"alternatives"}, {"?"}, Binary \o <<":">> \o Binary)
  <2>1. {"alternatives"} \subseteq Flat
    BY FlatItems DEF Braceless
  <2>2. Binary \o <<":">> \o Binary \in Seq(Flat)
    <3>1. <<":">> \in Seq(Flat)
      BY FlatItems, FlatRow1
    <3>2. Binary \o <<":">> \in Seq(Flat)
      BY <3>1, NamedFlat, FlatConcat
    <3> QED BY <3>2, NamedFlat, FlatConcat
  <2>3. {"?"} \subseteq PlainToken
    BY PlainTokens
  <2> QED BY <1>1, <2>1, <2>2, <2>3, TakeFlat
<1>2. CASE Replace({"alternatives"}, But({"?"}), <<>>)
  <2>1. {"alternatives"} \subseteq Braceless \ {"statement", "class_decl_stmt"}
    BY DEF Braceless
  <2>2. <<>> \in Seq(Flat)
    BY EmptySeq
  <2> QED BY <1>2, <2>1, <2>2, ButFlat
<1> QED BY <1>1, <1>2 DEF ternary_expr

LEMMA BinaryExprBody ==
  ASSUME BodyInv, ParserInv', binary_expr
  PROVE  BodyInv'
<1>1. CASE Take({"operations"}, {"op", "-"}, <<"unary_expr", "operations">>)
  <2>1. {"operations"} \subseteq Flat
    BY FlatItems DEF Braceless
  <2>2. <<"unary_expr", "operations">> \in Seq(Flat)
    BY FlatItems, FlatRow2 DEF Braceless
  <2>3. {"op", "-"} \subseteq PlainToken
    BY PlainTokens DEF Operator
  <2> QED BY <1>1, <2>1, <2>2, <2>3, TakeFlat
<1>2. CASE Replace({"operations"}, But({"op", "-"}), <<>>)
  <2>1. {"operations"} \subseteq Braceless \ {"statement", "class_decl_stmt"}
    BY DEF Braceless
  <2>2. <<>> \in Seq(Flat)
    BY EmptySeq
  <2> QED BY <1>2, <2>1, <2>2, ButFlat
<1> QED BY <1>1, <1>2 DEF binary_expr

LEMMA UnaryExprBody ==
  ASSUME BodyInv, ParserInv', unary_expr
  PROVE  BodyInv'
<1>1. CASE Take({"unary_expr"}, {"!", "-"}, <<"unary_expr">>)
  <2>1. {"unary_expr"} \subseteq Flat
    BY FlatItems DEF Braceless
  <2>2. <<"unary_expr">> \in Seq(Flat)
    BY FlatItems, FlatRow1 DEF Braceless
  <2>3. {"!", "-"} \subseteq PlainToken
    BY PlainTokens DEF Operator
  <2> QED BY <1>1, <2>1, <2>2, <2>3, TakeFlat
<1>2. CASE Replace({"unary_expr"}, But({"!", "-"}), <<"array_access_expr", "postfix">>)
  <2>1. {"unary_expr"} \subseteq Braceless \ {"statement", "class_decl_stmt"}
    BY DEF Braceless
  <2>2. <<"array_access_expr", "postfix">> \in Seq(Flat)
    BY FlatItems, FlatRow2 DEF Braceless
  <2> QED BY <1>2, <2>1, <2>2, ButFlat
<1>3. CASE Take({"postfix"}, {"++"}, <<>>)
  <2>1. {"postfix"} \subseteq Flat
    BY FlatItems DEF Braceless
  <2>2. <<>> \in Seq(Flat)
    BY EmptySeq
  <2>3. {"++"} \subseteq PlainToken
    BY PlainTokens DEF Operator
  <2> QED BY <1>3, <2>1, <2>2, <2>3, TakeFlat
<1>4. CASE Replace({"postfix"}, But({"++"}), <<>>)
  <2>1. {"postfix"} \subseteq Braceless \ {"statement", "class_decl_stmt"}
    BY DEF Braceless
  <2>2. <<>> \in Seq(Flat)
    BY EmptySeq
  <2> QED BY <1>4, <2>1, <2>2, ButFlat
<1> QED BY <1>1, <1>2, <1>3, <1>4 DEF unary_expr

LEMMA OperandBody ==
  ASSUME BodyInv, ParserInv', operand
  PROVE  BodyInv'
<1>1. CASE Take({"array_access_expr"}, Name, <<"identifier">>)
  <2>1. {"array_access_expr"} \subseteq Flat
    BY FlatItems DEF Braceless
  <2>2. <<"identifier">> \in Seq(Flat)
    BY FlatItems, FlatRow1 DEF Braceless
  <2>3. Name \subseteq PlainToken
    BY PlainTokens
  <2> QED BY <1>1, <2>1, <2>2, <2>3, TakeFlat
<1>2. CASE Take({"array_access_expr"}, {"new"}, <<"name", "(", "arguments">>)
  <2>1. {"array_access_expr"} \subseteq Flat
    BY FlatItems DEF Braceless
  <2>2. <<"name", "(", "arguments">> \in Seq(Flat)
    BY FlatItems, FlatRow3 DEF Braceless
  <2>3. {"new"} \subseteq PlainToken
    BY PlainTokens DEF Keyword
  <2> QED BY <1>2, <2>1, <2>2, <2>3, TakeFlat
<1>3. CASE Take({"identifier"}, {"["}, <<"expression", "]">>)
  <2>1. {"identifier"} \subseteq Flat
    BY FlatItems DEF Braceless
  <2>2. <<"expression", "]">> \in Seq(Flat)
    BY FlatItems, FlatRow2 DEF Braceless
  <2>3. {"["} \subseteq PlainToken
    BY PlainTokens
  <2> QED BY <1>3, <2>1, <2>2, <2>3, TakeFlat
<1>4. CASE Take({"identifier"}, {"."}, <<"call_expr">>)
  <2>1. {"identifier"} \subseteq Flat
    BY FlatItems DEF Braceless
  <2>2. <<"call_expr">> \in Seq(Flat)
    BY FlatItems, FlatRow1 DEF Braceless
  <2>3. {"."} \subseteq PlainToken
    BY PlainTokens
  <2> QED BY <1>4, <2>1, <2>2, <2>3, TakeFlat
<1>5. CASE Replace({"identifier"}, But({"[", ".", "("}), <<>>)
  <2>1. {"identifier"} \subseteq Braceless \ {"statement", "class_decl_stmt"}
    BY DEF Braceless
  <2>2. <<>> \in Seq(Flat)
    BY EmptySeq
  <2> QED BY <1>5, <2>1, <2>2, ButFlat
<1> QED BY <1>1, <1>2, <1>3, <1>4, <1>5 DEF operand

LEMMA CallExprBody ==
  ASSUME BodyInv, ParserInv', call_expr
  PROVE  BodyInv'
<1>1. CASE Take({"call_expr"}, Name, <<"called">>)
  <2>1. {"call_expr"} \subseteq Flat
    BY FlatItems DEF Braceless
  <2>2. <<"called">> \in Seq(Flat)
    BY FlatItems, FlatRow1 DEF Braceless
  <2>3. Name \subseteq PlainToken
    BY PlainTokens
  <2> QED BY <1>1, <2>1, <2>2, <2>3, TakeFlat
<1>2. CASE Take({"identifier", "called"}, {"("}, <<"arguments", "call">>)
  <2>1. {"identifier", "called"} \subseteq Flat
    BY FlatItems DEF Braceless
  <2>2. <<"arguments", "call">> \in Seq(Flat)
    BY FlatItems, FlatRow2 DEF Braceless, Silent
  <2>3. {"("} \subseteq PlainToken
    BY PlainTokens
  <2> QED BY <1>2, <2>1, <2>2, <2>3, TakeFlat
<1>3. CASE Replace({"called"}, But({"("}), <<>>)
  <2>1. {"called"} \subseteq Braceless \ {"statement", "class_decl_stmt"}
    BY DEF Braceless
  <2>2. <<>> \in Seq(Flat)
    BY EmptySeq
  <2> QED BY <1>3, <2>1, <2>2, ButFlat
<1> QED BY <1>1, <1>2, <1>3 DEF call_expr

LEMMA PrimaryExprBody ==
  ASSUME BodyInv, ParserInv', primary_expr
  PROVE  BodyInv'
<1>1. CASE Take({"array_access_expr", "call_expr"}, {"number", "literal"}, <<>>)
  <2>1. {"array_access_expr", "call_expr"} \subseteq Flat
    BY FlatItems DEF Braceless
  <2>2. <<>> \in Seq(Flat)
    BY EmptySeq
  <2>3. {"number", "literal"} \subseteq PlainToken
    BY PlainTokens
  <2> QED BY <1>1, <2>1, <2>2, <2>3, TakeFlat
<1>2. CASE Take({"array_access_expr", "call_expr"}, {"("}, <<"expression", ")">>)
  <2>1. {"array_access_expr", "call_expr"} \subseteq Flat
    BY FlatItems DEF Braceless
  <2>2. <<"expression", ")">> \in Seq(Flat)
    BY FlatItems, FlatRow2 DEF Braceless
  <2>3. {"("} \subseteq PlainToken
    BY PlainTokens
  <2> QED BY <1>2, <2>1, <2>2, <2>3, TakeFlat
<1>3. CASE Fail({"array_access_expr"}, But(Name \cup {"new", "number", "literal", "("}))
  BY <1>3, FailBraced
<1>4. CASE Fail({"call_expr"}, But(Name \cup {"number", "literal", "("}))
  BY <1>4, FailBraced
<1> QED BY <1>1, <1>2, <1>3, <1>4 DEF primary_expr

-----------------------------------------------------------------------------
(* The productions with braces.                                            *)

\* Rows put together.
LEMMA RowOfTwo ==
  ASSUME NEW a, NEW b
  PROVE  <<a>> \o <<b>> = <<a, b>>
<1> DEFINE S == {a, b}
           s == <<a>>
           t == <<b>>
           u == <<a, b>>
           w == s \o t
<1>1. s \in Seq(S) /\ Len(s) = 1 /\ s[1] = a
  OBVIOUS
<1>2. t \in Seq(S) /\ Len(t) = 1 /\ t[1] = b
  OBVIOUS
<1>3. u \in Seq(S) /\ Len(u) = 2
  OBVIOUS
<1>4. u[1] = a /\ u[2] = b
  OBVIOUS
<1> HIDE DEF s, t, u, S
<1>5. /\ w \in Seq(S) /\ Len(w) = Len(s) + Len(t)
      /\ \A i \in 1 .. Len(s) + Len(t) : w[i] = IF i <= Len(s) THEN s[i] ELSE t[i - Len(s)]
  BY <1>1, <1>2, ConcatProperties
<1> HIDE DEF w
<1>6. w[1] = u[1]
  BY <1>1, <1>2, <1>4, <1>5
<1>7. w[2] = u[2]
  BY <1>1, <1>2, <1>4, <1>5
<1>8. \A i \in 1 .. 2 : i = 1 \/ i = 2
  OBVIOUS
<1>9. Len(w) = 2
  BY <1>1, <1>2, <1>5
<1>10. w = u
  BY <1>3, <1>5, <1>6, <1>7, <1>8, <1>9, SeqEqual
<1> QED BY <1>10 DEF s, t, u, w

LEMMA RowOfThree ==
  ASSUME NEW a, NEW b, NEW c
  PROVE  <<a, b>> \o <<c>> = <<a, b, c>>
<1> DEFINE S == {a, b, c}
           s == <<a, b>>
           t == <<c>>
           u == <<a, b, c>>
           w == s \o t
<1>1. s \in Seq(S) /\ Len(s) = 2 /\ s[1] = a /\ s[2] = b
  OBVIOUS
<1>2. t \in Seq(S) /\ Len(t) = 1 /\ t[1] = c
  OBVIOUS
<1>3. u \in Seq(S) /\ Len(u) = 3
  OBVIOUS
<1>4. u[1] = a /\ u[2] = b /\ u[3] = c
  OBVIOUS
<1> HIDE DEF s, t, u, S
<1>5. /\ w \in Seq(S) /\ Len(w) = Len(s) + Len(t)
      /\ \A i \in 1 .. Len(s) + Len(t) : w[i] = IF i <= Len(s) THEN s[i] ELSE t[i - Len(s)]
  BY <1>1, <1>2, ConcatProperties
<1> HIDE DEF w
<1>6. w[1] = u[1] /\ w[2] = u[2]
  BY <1>1, <1>2, <1>4, <1>5
<1>7. w[3] = u[3]
  BY <1>1, <1>2, <1>4, <1>5
<1>8. \A i \in 1 .. 3 : i = 1 \/ i = 2 \/ i = 3
  OBVIOUS
<1>9. Len(w) = 3
  BY <1>1, <1>2, <1>5
<1>10. w = u
  BY <1>3, <1>5, <1>6, <1>7, <1>8, <1>9, SeqEqual
<1> QED BY <1>10 DEF s, t, u, w

LEMMA RowOfFive ==
  ASSUME NEW a, NEW b, NEW c, NEW d, NEW e
  PROVE  <<a, b, c, d>> \o <<e>> = <<a, b, c, d, e>>
<1> DEFINE S == {a, b, c, d, e}
           s == <<a, b, c, d>>
           t == <<e>>
           u == <<a, b, c, d, e>>
           w == s \o t
<1>1. s \in Seq(S) /\ Len(s) = 4 /\ s[1] = a /\ s[2] = b /\ s[3] = c /\ s[4] = d
  OBVIOUS
<1>2. t \in Seq(S) /\ Len(t) = 1 /\ t[1] = e
  OBVIOUS
<1>3. u \in Seq(S) /\ Len(u) = 5
  OBVIOUS
<1>4. u[1] = a /\ u[2] = b /\ u[3] = c /\ u[4] = d /\ u[5] = e
  OBVIOUS
<1> HIDE DEF s, t, u, S
<1>5. /\ w \in Seq(S) /\ Len(w) = Len(s) + Len(t)
      /\ \A i \in 1 .. Len(s) + Len(t) : w[i] = IF i <= Len(s) THEN s[i] ELSE t[i - Len(s)]
  BY <1>1, <1>2, ConcatProperties
<1> HIDE DEF w
<1>6. w[1] = u[1] /\ w[2] = u[2] /\ w[3] = u[3] /\ w[4] = u[4]
  BY <1>1, <1>2, <1>4, <1>5
<1>7. w[5] = u[5]
  BY <1>1, <1>2, <1>4, <1>5
<1>8. \A i \in 1 .. 5 : i = 1 \/ i = 2 \/ i = 3 \/ i = 4 \/ i = 5
  OBVIOUS
<1>9. Len(w) = 5
  BY <1>1, <1>2, <1>5
<1>10. w = u
  BY <1>3, <1>5, <1>6, <1>7, <1>8, <1>9, SeqEqual
<1> QED BY <1>10 DEF s, t, u, w

LEMMA RowOfSeven ==
  ASSUME NEW a, NEW b, NEW c, NEW d, NEW e, NEW f, NEW g
  PROVE  <<a, b, c, d, e>> \o <<f, g>> = <<a, b, c, d, e, f, g>>
<1> DEFINE S == {a, b, c, d, e, f, g}
           s == <<a, b, c, d, e>>
           t == <<f, g>>
           u == <<a, b, c, d, e, f, g>>
           w == s \o t
<1>1. s \in Seq(S) /\ Len(s) = 5 /\ s[1] = a /\ s[2] = b /\ s[3] = c /\ s[4] = d /\ s[5] = e
  OBVIOUS
<1>2. t \in Seq(S) /\ Len(t) = 2 /\ t[1] = f /\ t[2] = g
  OBVIOUS
<1>3. u \in Seq(S) /\ Len(u) = 7
  OBVIOUS
<1>4. u[1] = a /\ u[2] = b /\ u[3] = c /\ u[4] = d /\ u[5] = e /\ u[6] = f /\ u[7] = g
  OBVIOUS
<1> HIDE DEF s, t, u, S
<1>5. /\ w \in Seq(S) /\ Len(w) = Len(s) + Len(t)
      /\ \A i \in 1 .. Len(s) + Len(t) : w[i] = IF i <= Len(s) THEN s[i] ELSE t[i - Len(s)]
  BY <1>1, <1>2, ConcatProperties
<1> HIDE DEF w
<1>6. w[1] = u[1] /\ w[2] = u[2] /\ w[3] = u[3] /\ w[4] = u[4] /\ w[5] = u[5]
  BY <1>1, <1>2, <1>4, <1>5
<1>7. w[6] = u[6] /\ w[7] = u[7]
  BY <1>1, <1>2, <1>4, <1>5
<1>8. \A i \in 1 .. 7 : i = 1 \/ i = 2 \/ i = 3 \/ i = 4 \/ i = 5 \/ i = 6 \/ i = 7
  OBVIOUS
<1>9. Len(w) = 7
  BY <1>1, <1>2, <1>5
<1>10. w = u
  BY <1>3, <1>5, <1>6, <1>7, <1>8, <1>9, SeqEqual
<1> QED BY <1>10 DEF s, t, u, w

\* One or two items that end with one that closes.
LEMMA ReplaceOne ==
  ASSUME BodyInv, ParserInv', NEW items, NEW tokens, NEW closer \in Closer,
         Replace(items, tokens, <<closer>>), items \subseteq Closer, None \notin tokens
  PROVE  BodyInv'
<1>1. <<>> \in Seq(Flat) /\ \A x : <<>> \o <<x>> = <<x>>
  OBVIOUS
<1>2. Replace(items, tokens, <<>> \o <<closer>>)
  BY <1>1
<1> QED BY <1>1, <1>2, ReplaceCloser

LEMMA ReplaceTwo ==
  ASSUME BodyInv, ParserInv', NEW items, NEW tokens, NEW x \in Flat, NEW closer \in Closer,
         Replace(items, tokens, <<x, closer>>), items \subseteq Closer, None \notin tokens
  PROVE  BodyInv'
<1>1. <<x>> \in Seq(Flat) /\ <<x>> \o <<closer>> = <<x, closer>>
  BY FlatRow1, RowOfTwo
<1>2. Replace(items, tokens, <<x>> \o <<closer>>)
  BY <1>1
<1> QED BY <1>1, <1>2, ReplaceCloser

LEMMA TakeOne ==
  ASSUME BodyInv, ParserInv', NEW items, NEW tokens, NEW closer \in Closer,
         Take(items, tokens, <<closer>>), items \subseteq Closer, tokens \subseteq PlainToken
  PROVE  BodyInv'
<1>1. <<>> \in Seq(Flat) /\ \A x : <<>> \o <<x>> = <<x>>
  OBVIOUS
<1>2. Take(items, tokens, <<>> \o <<closer>>)
  BY <1>1
<1> QED BY <1>1, <1>2, TakeCloser

LEMMA TakeTwo ==
  ASSUME BodyInv, ParserInv', NEW items, NEW tokens, NEW x \in Flat, NEW closer \in Closer,
         Take(items, tokens, <<x, closer>>), items \subseteq Closer, tokens \subseteq PlainToken
  PROVE  BodyInv'
<1>1. <<x>> \in Seq(Flat) /\ <<x>> \o <<closer>> = <<x, closer>>
  BY FlatRow1, RowOfTwo
<1>2. Take(items, tokens, <<x>> \o <<closer>>)
  BY <1>1
<1> QED BY <1>1, <1>2, TakeCloser

LEMMA BlockStmtBody ==
  ASSUME BodyInv, ParserInv', block_stmt
  PROVE  BodyInv'
<1>1. CASE Take(FromFor, {"{"}, <<"block">>)
  <2>1. FromFor \subseteq Flat \ {"statement"}
    BY FlatItems DEF FromFor, Braceless
  <2>2. Take(FromFor, {Left}, <<"block">>)
    BY <1>1 DEF Left
  <2> QED BY <2>1, <2>2, TakeOpen
<1>2. CASE Replace({"block"}, But({EOF}), <<"statement", "block end">>)
  <2>1. {"block"} \subseteq Closer /\ "block end" \in Closer /\ "statement" \in Flat
    BY FlatItems DEF Closer, Braceless
  <2>2. None \notin But({EOF})
    BY ButTokens
  <2> QED BY <1>2, <2>1, <2>2, ReplaceTwo
<1>3. CASE Fail({"block"}, {EOF})
  BY <1>3, FailBraced
<1>4. CASE Take({"block end"}, {"}"}, <<>>)
  <2> DEFINE items == {"block end"}
             tokens == {"}"}
  <2>1. Take(items, tokens, <<>>)
    BY <1>4
  <2>2. items \subseteq Closer /\ tokens = {Right}
    BY DEF Closer, Right
  <2> HIDE DEF items, tokens
  <2> QED BY <2>1, <2>2, TakeClose
<1>5. CASE Replace({"block end"}, But({"}"}), <<"block">>)
  <2> DEFINE others == But({"}"})
  <2>1. Replace({"block end"}, others, <<"block">>)
    BY <1>5
  <2>2. None \notin others
    BY ButTokens
  <2>3. {"block end"} \subseteq Closer /\ "block" \in Closer
    BY DEF Closer
  <2> HIDE DEF others
  <2> QED BY <2>1, <2>2, <2>3, ReplaceOne
<1> QED BY <1>1, <1>2, <1>3, <1>4, <1>5 DEF block_stmt

LEMMA ArrDeclStmtBody ==
  ASSUME BodyInv, ParserInv', arr_decl_stmt
  PROVE  BodyInv'
<1>1. CASE Take({"declarator", "const declarator"}, {"["},
                <<"number", "]", "name", "array initializer", "{", "values", ";">>)
  <2> DEFINE row == <<"number", "]", "name", "array initializer">>
             last == <<";">>
             all == <<"number", "]", "name", "array initializer", "{", "values", ";">>
  <2>1. (row \o <<Left>>) \o (<<"values">> \o last) = all
    <3> DEFINE a == "number"
               b == "]"
               c == "name"
               d == "array initializer"
               f == "values"
               g == ";"
    <3>1. /\ row = <<a, b, c, d>> /\ last = <<g>>
          /\ all = <<a, b, c, d, Left, f, g>> /\ f = "values"
      BY DEF Left
    <3> HIDE DEF a, b, c, d, f, g
    <3>2. /\ <<a, b, c, d>> \o <<Left>> = <<a, b, c, d, Left>>
          /\ <<f>> \o <<g>> = <<f, g>>
          /\ <<a, b, c, d, Left>> \o <<f, g>> = <<a, b, c, d, Left, f, g>>
      BY RowOfTwo, RowOfFive, RowOfSeven
    <3> HIDE DEF row, last, all
    <3> QED BY <3>1, <3>2
  <2> HIDE DEF all
  <2>2. Take({"declarator", "const declarator"}, {"["},
             (row \o <<Left>>) \o (<<"values">> \o last))
    BY <1>1, <2>1 DEF all
  <2>3. row \in Seq(Flat) /\ last \in Seq(Flat)
    BY FlatItems, FlatRow1, FlatRow4 DEF Braceless
  <2>4. {"declarator", "const declarator"} \subseteq Flat /\ "values" \in Closer
    BY FlatItems DEF Braceless, Closer
  <2>5. {"["} \subseteq PlainToken
    BY PlainTokens
  <2> HIDE DEF row, last
  <2> QED BY <2>2, <2>3, <2>4, <2>5, TakeBraces
<1>2. CASE Take({"array initializer"}, {"="}, <<>>)
  <2>1. {"array initializer"} \subseteq Flat
    BY FlatItems DEF Braceless
  <2>2. {"="} \subseteq PlainToken
    BY PlainTokens DEF Operator
  <2>3. <<>> \in Seq(Flat)
    BY EmptySeq
  <2> QED BY <1>2, <2>1, <2>2, <2>3, TakeFlat
<1>3. CASE Replace({"array initializer"}, But({"="}), <<>>)
  <2>1. {"array initializer"} \subseteq Braceless \ {"statement", "class_decl_stmt"}
    BY DEF Braceless
  <2>2. <<>> \in Seq(Flat)
    BY EmptySeq
  <2> QED BY <1>3, <2>1, <2>2, ButFlat
<1> QED BY <1>1, <1>2, <1>3 DEF arr_decl_stmt

LEMMA ClassDeclStmtBody ==
  ASSUME BodyInv, ParserInv', class_decl_stmt
  PROVE  BodyInv'
<1>0. /\ {"members"} \subseteq Closer /\ {"const members"} \subseteq Closer
      /\ "members" \in Closer /\ "const members" \in Closer /\ "members end" \in Closer
      /\ "func_decl_stmt" \in Flat /\ "member" \in Flat /\ "const member" \in Flat
      /\ {"type"} \subseteq PlainToken /\ {"const"} \subseteq PlainToken
  BY FlatItems, PlainTokens DEF Closer, Braceless, Name, Keyword
<1>1. CASE Take({"class_decl_stmt"}, {"class"}, <<"name", "{", "members">>)
  <2> DEFINE row == <<"name">>
             last == <<>>
             all == <<"name", "{", "members">>
  <2>1. (row \o <<Left>>) \o (<<"members">> \o last) = all
    <3>1. row \o <<Left>> = <<"name", Left>>
      BY RowOfTwo
    <3>2. <<"members">> \o last = <<"members">>
      OBVIOUS
    <3>3. <<"name", Left>> \o <<"members">> = <<"name", Left, "members">>
      BY RowOfThree
    <3> QED BY <3>1, <3>2, <3>3 DEF Left
  <2> HIDE DEF all
  <2>2. Take({"class_decl_stmt"}, {"class"}, (row \o <<Left>>) \o (<<"members">> \o last))
    BY <1>1, <2>1 DEF all
  <2>3. row \in Seq(Flat) /\ last \in Seq(Flat)
    BY FlatItems, FlatRow1, EmptySeq DEF Braceless
  <2>4. {"class_decl_stmt"} \subseteq Flat
    BY FlatItems DEF Braceless
  <2>5. {"class"} \subseteq PlainToken
    BY PlainTokens DEF Keyword
  <2> HIDE DEF row, last
  <2> QED BY <1>0, <2>2, <2>3, <2>4, <2>5, TakeBraces
<1>2. CASE Fail({"members"}, {EOF})
  BY <1>2, FailBraced
<1>3. CASE Replace({"members"}, {"def"}, <<"func_decl_stmt", "members">>)
  <2>1. None \notin {"def"}
    BY DEF None
  <2> QED BY <1>0, <1>3, <2>1, ReplaceTwo
<1>4. CASE Take({"members"}, {"type"}, <<"member", "members">>)
  BY <1>0, <1>4, TakeTwo
<1>5. CASE Take({"members"}, {"const"}, <<"const members">>)
  BY <1>0, <1>5, TakeOne
<1>6. CASE Take({"members", "members end"}, {"}"}, <<>>)
  <2> DEFINE items == {"members", "members end"}
             tokens == {"}"}
  <2>1. Take(items, tokens, <<>>)
    BY <1>6
  <2>2. items \subseteq Closer /\ tokens = {Right}
    BY DEF Closer, Right
  <2> HIDE DEF items, tokens
  <2> QED BY <2>1, <2>2, TakeClose
<1>7. CASE Fail({"members"}, But({EOF, "def", "type", "const", "}"}))
  BY <1>7, FailBraced
<1>8. CASE Take({"const members"}, {"type"}, <<"const member", "members">>)
  BY <1>0, <1>8, TakeTwo
<1>9. CASE Replace({"const members"}, But({"type"}), <<"members end">>)
  <2>1. None \notin But({"type"})
    BY ButTokens
  <2> QED BY <1>0, <1>9, <2>1, ReplaceOne
<1>10. CASE Fail({"members end"}, But({"}"}))
  BY <1>10, FailBraced
<1> QED BY <1>1, <1>2, <1>3, <1>4, <1>5, <1>6, <1>7, <1>8, <1>9, <1>10 DEF class_decl_stmt

\* The lists in parentheses.
LEMMA ListBody ==
  ASSUME BodyInv, ParserInv', NEW item \in Flat, NEW rest \in Flat, NEW member \in Seq(Flat),
         NEW close \in PlainToken, List(item, rest, member, close),
         item # "statement", item # "class_decl_stmt"
  PROVE  BodyInv'
<1>1. <<>> \in Seq(Flat) /\ <<item>> \in Seq(Flat) /\ member \o <<rest>> \in Seq(Flat)
  BY FlatRow1, FlatConcat, EmptySeq
<1>2. {item} \subseteq Flat /\ {rest} \subseteq Flat /\ {close} \subseteq PlainToken
  OBVIOUS
<1>3. CASE Take({item}, {close}, <<>>)
  BY <1>1, <1>2, <1>3, TakeFlat
<1>4. CASE Fail({item}, {EOF})
  BY <1>4, FailBraced
<1>5. CASE Replace({item}, But({close, EOF}), member \o <<rest>>)
  <2>1. None \notin But({close, EOF})
    BY ButTokens
  <2>2. \A x \in {item} : x # "statement" /\ x # "class_decl_stmt"
    OBVIOUS
  <2> QED BY <1>1, <1>2, <1>5, <2>1, <2>2, ReplaceFlat
<1>6. CASE Take({rest}, {","}, <<item>>)
  <2>1. {","} \subseteq PlainToken
    BY PlainTokens
  <2> QED BY <1>1, <1>2, <1>6, <2>1, TakeFlat
<1>7. CASE Take({rest}, {close}, <<>>)
  BY <1>1, <1>2, <1>7, TakeFlat
<1>8. CASE Fail({rest}, But({",", close}))
  <2> DEFINE others == But({",", close})
  <2>1. Fail({rest}, others)
    BY <1>8
  <2> HIDE DEF others
  <2> QED BY <2>1, FailBraced
<1> QED BY <1>3, <1>4, <1>5, <1>6, <1>7, <1>8 DEF List

\* The list in braces.
LEMMA ValuesBody ==
  ASSUME BodyInv, ParserInv', NEW item \in Closer, NEW rest \in Closer, NEW member \in Flat,
         List(item, rest, <<member>>, Right)
  PROVE  BodyInv'
<1>1. \A x, y : <<x>> \o <<y>> = <<x, y>>
  BY RowOfTwo
<1>2. {item} \subseteq Closer /\ {rest} \subseteq Closer
  OBVIOUS
<1>3. CASE Take({item}, {Right}, <<>>)
  BY <1>2, <1>3, TakeClose
<1>4. CASE Fail({item}, {EOF})
  BY <1>4, FailBraced
<1>5. CASE Replace({item}, But({Right, EOF}), <<member>> \o <<rest>>)
  <2>1. None \notin But({Right, EOF})
    BY ButTokens
  <2>2. Replace({item}, But({Right, EOF}), <<member, rest>>)
    BY <1>1, <1>5
  <2> QED BY <1>2, <2>1, <2>2, ReplaceTwo
<1>6. CASE Take({rest}, {","}, <<item>>)
  <2>1. {","} \subseteq PlainToken
    BY PlainTokens
  <2> QED BY <1>2, <1>6, <2>1, TakeOne
<1>7. CASE Take({rest}, {Right}, <<>>)
  BY <1>2, <1>7, TakeClose
<1>8. CASE Fail({rest}, But({",", Right}))
  <2> DEFINE others == But({",", Right})
  <2>1. Fail({rest}, others)
    BY <1>8
  <2> HIDE DEF others
  <2> QED BY <2>1, FailBraced
<1> QED BY <1>3, <1>4, <1>5, <1>6, <1>7, <1>8 DEF List

LEMMA ListsBody ==
  ASSUME BodyInv, ParserInv', Lists
  PROVE  BodyInv'
<1>1. CASE List("parameters", "after parameter", <<"get_type", "name">>, ")")
  <2> DEFINE item == "parameters"
             rest == "after parameter"
             member == <<"get_type", "name">>
             close == ")"
  <2>1. item \in Flat /\ rest \in Flat /\ item # "statement" /\ item # "class_decl_stmt"
    BY FlatItems DEF Braceless
  <2>2. member \in Seq(Flat)
    BY FlatItems, FlatRow2 DEF Braceless
  <2>3. close \in PlainToken
    BY PlainTokens
  <2>4. List(item, rest, member, close)
    BY <1>1
  <2> HIDE DEF item, rest, member, close
  <2> QED BY <2>1, <2>2, <2>3, <2>4, ListBody
<1>2. CASE List("arguments", "after argument", <<"expression">>, ")")
  <2> DEFINE item == "arguments"
             rest == "after argument"
             member == <<"expression">>
             close == ")"
  <2>1. item \in Flat /\ rest \in Flat /\ item # "statement" /\ item # "class_decl_stmt"
    BY FlatItems DEF Braceless
  <2>2. member \in Seq(Flat)
    BY FlatItems, FlatRow1 DEF Braceless
  <2>3. close \in PlainToken
    BY PlainTokens
  <2>4. List(item, rest, member, close)
    BY <1>2
  <2> HIDE DEF item, rest, member, close
  <2> QED BY <2>1, <2>2, <2>3, <2>4, ListBody
<1>3. CASE List("values", "after value", <<"expression">>, "}")
  <2>1. List("values", "after value", <<"expression">>, Right)
    BY <1>3 DEF Right
  <2>2. "values" \in Closer /\ "after value" \in Closer /\ "expression" \in Flat
    BY FlatItems DEF Closer, Braceless
  <2> QED BY <2>1, <2>2, ValuesBody
<1> QED BY <1>1, <1>2, <1>3 DEF Lists

LEMMA ExpectBody ==
  ASSUME BodyInv, ParserInv', Expect
  PROVE  BodyInv'
<1>1. CASE Take(TokenKind, {Item}, <<>>)
  BY <1>1, TakeExpected
<1>2. CASE Fail(TokenKind, But({Item}))
  BY <1>2, FailBraced
<1>3. CASE Take({"name"}, Name, <<>>)
  <2>1. {"name"} \subseteq Flat
    BY FlatItems DEF Braceless
  <2>2. <<>> \in Seq(Flat)
    BY EmptySeq
  <2> QED BY <1>3, <2>1, <2>2, PlainTokens, TakeFlat
<1>4. CASE Fail({"name"}, But(Name))
  BY <1>4, FailBraced
<1> QED BY <1>1, <1>2, <1>3, <1>4 DEF Expect

-----------------------------------------------------------------------------
(* What reads no token: the try blocks, recovery and the counters.         *)

\* The try block of the first statement comes before the brace is seen.
LEMMA StatementBody ==
  ASSUME BodyInv, ParserInv', statement
  PROVE  BodyInv'
<1> DEFINE row == <<"class_decl_stmt", "catch statement">>
<1>1. Replace({"statement"}, But({}), row)
  BY DEF statement
<1>2. None \notin But({})
  BY ButTokens
<1>3. This.stack # <<>> /\ Item = "statement" /\ This.next # None /\ status' = "running"
  BY <1>1, <1>2 DEF Replace, At, Sees
<1>4. row \in Seq(Flat)
  BY FlatItems, FlatRow2 DEF Braceless, Handler, Silent
<1>5. CASE ~Fresh(This)
  <2>1. {"statement"} \subseteq Flat
    BY FlatItems DEF Braceless
  <2> HIDE DEF row
  <2> QED BY <1>1, <1>2, <1>4, <1>5, <2>1, ReplaceEntered
<1>6. CASE Fresh(This)
  <2> DEFINE p == This
             q == [p EXCEPT !.stack = row \o Rest]
  <2>1. p \in ParserObject /\ Become(q)
    BY <1>1, ThisBody DEF Replace
  <2>2. Rest = <<>>
    <3>1. \A x, y : Head(<<x, y>>) = x
      OBVIOUS
    <3>2. This.stack = <<"statement">>
      BY <1>3, <1>6, <3>1 DEF Fresh, Item
    <3>3. \A x : Tail(<<x>>) = <<>>
      OBVIOUS
    <3> QED BY <3>2, <3>3 DEF Rest
  <2>3. row \o Rest = <<"class_decl_stmt", CatchAll>>
    BY <2>2, <1>4, ConcatEmptySeq DEF CatchAll
  <2> HIDE DEF p, row
  <2>4. /\ q.stack = row \o Rest /\ q.next = p.next /\ q.depth = p.depth
    BY <2>1 DEF ParserObject
  <2> HIDE DEF q
  <2>5. Fresh(q)
    BY <1>6, <2>3, <2>4 DEF Fresh, p
  <2> QED BY <1>3, <2>1, <2>5, BodyBecomes DEF BodyOK
<1> QED BY <1>5, <1>6

LEMMA ParseBody ==
  ASSUME BodyInv, ParserInv', parse
  PROVE  BodyInv'
<1>1. {"parse"} \subseteq Braceless \ {"statement", "class_decl_stmt"}
  BY DEF Braceless
<1>2. <<"statement", "parse">> \in Seq(Flat)
  BY FlatItems, FlatRow2 DEF Braceless
<1> QED BY <1>1, <1>2, ButFlat DEF parse

\* Only a parser that has met an error looks for a place to go on.
LEMMA SynchronizeBody ==
  ASSUME BodyInv, ParserInv', Synchronize
  PROVE  BodyInv'
<1>1. This.stack # <<>> /\ Item = "synchronize"
  BY DEF Synchronize, Take, Replace, StepBack, At
<1>2. Restart \subseteq TokenKind
  BY DEF Restart, TokenKind, Keyword, Symbol
<1>3. This.next # None
  <2>1. CASE StepBack
    BY <2>1, TokensOnly DEF StepBack, Sees
  <2>2. CASE ~StepBack
    <3>1. This.next \in TokenKind \cup {EOF}
      BY <1>2, <2>2, TokensOnly DEF Synchronize, Take, Replace, Sees, But
    <3> QED BY <3>1, TokensOnly
  <2> QED BY <2>1, <2>2
<1>4. ~Sound(This)
  <2>1. ~Fresh(This)
    <3>1. Fresh(This) => Item = "statement" \/ Item = "class_decl_stmt"
      BY DEF Fresh, Item
    <3> QED BY <1>1, <3>1
  <2> QED BY <1>1, <1>3, <2>1, TopBraced DEF Climbs
<1>5. CASE Take({"synchronize"}, {";"}, <<>>)
  <2> DEFINE semicolon == {";"}
  <2>1. Take({"synchronize"}, semicolon, <<>>)
    BY <1>5
  <2> HIDE DEF semicolon
  <2> QED BY <1>4, <2>1, TakeBraced
<1>6. CASE Replace({"synchronize"}, Restart, <<>>)
  <2>1. None \notin Restart
    BY <1>2, TokensOnly
  <2> QED BY <1>4, <1>6, <2>1, ReplaceBraced
<1>7. CASE StepBack
  <2> DEFINE p == This
             q == [p EXCEPT !.next = p.last, !.final = TRUE, !.stack = Rest]
  <2>1. p \in ParserObject /\ Become(q) /\ status' = "running"
    BY <1>7, ThisBody DEF StepBack, At
  <2> HIDE DEF p
  <2>2. q.kind = p.kind /\ q.failed = p.failed
    BY <2>1 DEF ParserObject
  <2> HIDE DEF q
  <2>3. BodyOK(q)
    BY <1>4, <2>2 DEF BodyOK, Sound, p
  <2> QED BY <2>1, <2>3, BodyBecomes
<1>8. CASE Take({"synchronize"}, But(Restart \cup {";", EOF}), <<"synchronize">>)
  <2> DEFINE others == But(Restart \cup {";", EOF})
             row == <<"synchronize">>
  <2>1. Take({"synchronize"}, others, row)
    BY <1>8
  <2> HIDE DEF others, row
  <2> QED BY <1>4, <2>1, TakeBraced
<1> QED BY <1>5, <1>6, <1>7, <1>8 DEF Synchronize

\* An item that only counts or checks is dropped.
LEMMA DropItem ==
  ASSUME BodyInv, ParserInv', At(Silent), status' = status, Become([This EXCEPT !.stack = Rest])
  PROVE  BodyInv'
<1> DEFINE p == This
           q == [p EXCEPT !.stack = Rest]
<1>1. p \in ParserObject /\ Become(q)
  BY ThisBody
<1> HIDE DEF p
<1>2. /\ q.stack = Rest /\ q.kind = p.kind /\ q.failed = p.failed /\ q.next = p.next
      /\ q.depth = p.depth
  BY <1>1 DEF ParserObject
<1> HIDE DEF q
<1> QED BY <1>1, <1>2, DropInv DEF p

LEMMA LeaveBody ==
  ASSUME BodyInv, ParserInv', Leave
  PROVE  BodyInv'
<1>1. At(Silent)
  BY DEF Leave, At, Silent
<1> QED BY <1>1, DropItem DEF Leave

LEMMA CountBody ==
  ASSUME BodyInv, ParserInv', NEW item \in Silent, NEW func, NEW loop, Count(item, func, loop)
  PROVE  BodyInv'
<1> DEFINE p == This
           q == [p EXCEPT !.func_level = func, !.loop_level = loop, !.stack = Rest]
<1>1. p \in ParserObject /\ Become(q) /\ At(Silent) /\ status' = status
  BY ThisBody DEF Count, At
<1> HIDE DEF p
<1>2. /\ q.stack = Rest /\ q.kind = p.kind /\ q.failed = p.failed /\ q.next = p.next
      /\ q.depth = p.depth
  BY <1>1 DEF ParserObject
<1> HIDE DEF q
<1> QED BY <1>1, <1>2, DropInv DEF p

LEMMA LevelsBody ==
  ASSUME BodyInv, ParserInv', Levels
  PROVE  BodyInv'
<1>1. "loop++" \in Silent /\ "loop--" \in Silent /\ "func++" \in Silent /\ "func--" \in Silent
  BY DEF Silent
<1> QED BY <1>1, CountBody DEF Levels

LEMMA CheckBody ==
  ASSUME BodyInv, ParserInv', NEW item \in Silent, NEW level, Check(item, level)
  PROVE  BodyInv'
<1>1. At(Silent) /\ status = "running"
  BY DEF Check, At
<1>2. CASE Throw
  BY <1>1, <1>2, ThrowBraced
<1>3. CASE /\ Become([This EXCEPT !.stack = Rest])
           /\ UNCHANGED <<table, parsed, errors, status, events>>
  BY <1>1, <1>3, DropItem
<1> QED BY <1>2, <1>3 DEF Check

LEMMA ChecksBody ==
  ASSUME BodyInv, ParserInv', Checks
  PROVE  BodyInv'
<1>1. "in loop" \in Silent /\ "in function" \in Silent
  BY DEF Silent
<1> QED BY <1>1, CheckBody DEF Checks

-----------------------------------------------------------------------------
(* Functions.                                                              *)

\* The parser of a block starts in front of its first brace.
LEMMA NewBody ==
  ASSUME NEW name, NEW kind, NEW next \in First(kind), NEW level
  PROVE  BodyOK(NewParser(name, kind, next, level, <<"statement">>))
<1> DEFINE q == NewParser(name, kind, next, level, <<"statement">>)
<1>1. q.kind = kind /\ q.next = next /\ q.depth = 0 /\ q.stack = <<"statement">>
  BY DEF NewParser
<1>2. kind = "block" => next = Left
  BY DEF First, Left
<1> HIDE DEF q
<1>3. BodyOK(q)
  BY <1>1, <1>2 DEF BodyOK, Sound, Fresh
<1> QED BY <1>3 DEF q

LEMMA CallBody ==
  ASSUME BodyInv, ParserInv', NEW f \in Func, CallFunction(f)
  PROVE  BodyInv'
<1> DEFINE n == Len(parsers)
           p == [This EXCEPT !.stack = Rest]
           waiting == [parsers EXCEPT ![n] = p]
<1>1. This.stack # <<>> /\ Item \in Silent /\ status' = "running"
  BY DEF CallFunction, At, Silent
<1>2. PICK next \in First(table[f]) :
        parsers' = Append([parsers EXCEPT ![n] = [@ EXCEPT !.stack = Rest]],
                          NewParser(f, table[f], next, 1, <<"statement">>))
  BY DEF CallFunction
<1> DEFINE q == NewParser(f, table[f], next, 1, <<"statement">>)
<1>3. This \in ParserObject /\ This = parsers[n] /\ parsers \in Seq(ParserObject) /\ n \in Nat
      /\ n \in 1 .. Len(parsers) /\ DOMAIN parsers = 1 .. n
  BY ThisOK, ParserTyped DEF BodyInv, ParserInv, This
<1>4. BodyOK(q)
  BY NewBody
<1>5. /\ p.stack = Rest /\ p.kind = This.kind /\ p.failed = This.failed /\ p.next = This.next
      /\ p.depth = This.depth
  BY <1>3 DEF ParserObject
<1>6. p \in ParserObject /\ q \in ParserObject
  <2>1. Rest \in Seq(StackItem)
    BY <1>1, ThisBody, TailPile DEF Rest
  <2>2. p \in ParserObject
    BY <1>3, <2>1 DEF ParserObject
  <2>3. source \in Source /\ table[f] \in Definition /\ f # Main
    BY FuncAssumption DEF BodyInv, ParserInv, TypeOK
  <2> QED BY <2>2, <2>3, NewParserOK
<1>7. parsers' = Append(waiting, q)
  BY <1>2, <1>3
<1> HIDE DEF p, q
<1>8. waiting \in Seq(ParserObject) /\ Len(waiting) = n
      /\ \A j \in 1 .. n : waiting[j] = IF j = n THEN p ELSE parsers[j]
  BY <1>3, <1>6, ExceptSeq
<1> HIDE DEF n, waiting
<1>9. /\ DOMAIN parsers' = 1 .. n + 1 /\ parsers'[n + 1] = q
      /\ \A j \in 1 .. n : parsers'[j] = IF j = n THEN p ELSE parsers[j]
  <2>1. /\ parsers' \in Seq(ParserObject) /\ Len(parsers') = n + 1
        /\ \A j \in 1 .. n : parsers'[j] = waiting[j]
        /\ parsers'[n + 1] = q
    BY <1>6, <1>7, <1>8, AppendProperties
  <2> QED BY <1>8, <2>1
<1>10. BodyOK(p)
  BY <1>1, <1>5, DropBraced
<1>11. ASSUME NEW j \in DOMAIN parsers' PROVE BodyOK(parsers'[j])
  <2>1. CASE j = n + 1
    BY <1>4, <1>9, <2>1
  <2>2. CASE j # n + 1
    <3>1. j \in 1 .. n
      BY <1>3, <1>9, <2>2
    <3> QED BY <1>3, <1>9, <1>10, <3>1 DEF BodyInv
  <2> QED BY <2>1, <2>2
<1> QED BY <1>1, <1>11 DEF BodyInv

LEMMA EndBody ==
  ASSUME BodyInv, ParserInv', EndFunction
  PROVE  BodyInv'
<1> DEFINE n == Len(parsers)
<1>1. parsers \in Seq(ParserObject) /\ n \in Nat /\ DOMAIN parsers = 1 .. n
  BY ThisOK, ParserTyped DEF BodyInv, ParserInv
<1>2. parsers' = SubSeq(parsers, 1, n - 1) /\ status' = "running"
  BY DEF EndFunction
<1>3. DOMAIN parsers' \subseteq 1 .. n /\ \A j \in DOMAIN parsers' : parsers'[j] = parsers[j]
  BY <1>1, <1>2
<1> HIDE DEF n
<1>4. ASSUME NEW j \in DOMAIN parsers' PROVE BodyOK(parsers'[j])
  BY <1>1, <1>3 DEF BodyInv
<1> QED BY <1>2, <1>4 DEF BodyInv

\* No parser of a block reads behind it before it has met an error.
LEMMA PastEndBody ==
  ASSUME BodyInv, This.stack # <<>>, Item \notin Silent, This.next = None
  PROVE  ~Sound(This)
<1> SUFFICES ASSUME Sound(This) PROVE FALSE
  OBVIOUS
<1>1. BodyOK(This) /\ This.stack \in Seq(StackItem)
  BY ThisBody
<1>2. ~Fresh(This)
  BY TokensOnly DEF Fresh
<1>3. Braced(This.stack, 0)
  BY <1>1, <1>2 DEF BodyOK
<1>4. Item = CatchAll
  BY <1>1, <1>3, BracedEnd DEF Item
<1>5. CatchAll \in Silent
  BY DEF CatchAll, Silent, Handler
<1> QED BY <1>4, <1>5

LEMMA IdleBody ==
  ASSUME BodyInv, ParserInv', parsers' = parsers, status' = "undefined" => ~Sound(This)
  PROVE  BodyInv'
<1>1. \A i \in DOMAIN parsers' : BodyOK(parsers'[i])
  BY DEF BodyInv
<1>2. Sound(This)' <=> Sound(This)
  BY DEF Sound, This
<1> QED BY <1>1, <1>2 DEF BodyInv

LEMMA InitBody ==
  ASSUME Init
  PROVE  BodyInv
<1>1. PICK next \in First("program") :
        parsers = <<NewParser(Main, "program", next, 0, <<"parse">>)>>
  BY DEF Init
<1> DEFINE p == NewParser(Main, "program", next, 0, <<"parse">>)
<1>2. p.kind = "program" /\ parsers = <<p>>
  BY <1>1 DEF NewParser
<1> HIDE DEF p
<1>3. BodyOK(p)
  BY <1>2 DEF BodyOK, Sound
<1>4. DOMAIN parsers = {1} /\ parsers[1] = p
  BY <1>2
<1>5. status # "undefined"
  BY DEF Init
<1> QED BY <1>3, <1>4, <1>5, InitInv DEF BodyInv

LEMMA StepBody ==
  ASSUME BodyInv, [Next]_vars
  PROVE  BodyInv'
<1>1. ParserInv'
  BY StepInv DEF BodyInv
<1>2. ASSUME AnyStatement PROVE BodyInv'
  BY <1>1, <1>2, ExprStmtBody, BlockStmtBody, BreakStmtBody, ReturnStmtBody, PrintStmtBody,
     IfStmtBody, ElifStmtBody, WhileStmtBody, ForStmtBody, VarDeclStmtBody, ConstBody,
     ArrDeclStmtBody, FuncDeclStmtBody, GetTypeBody, ClassDeclStmtBody
     DEF AnyStatement
<1>3. ASSUME AnyExpression PROVE BodyInv'
  BY <1>1, <1>3, ListsBody, AssignmentExprBody, TernaryExprBody, BinaryExprBody, UnaryExprBody,
     OperandBody, CallExprBody, PrimaryExprBody
     DEF AnyExpression
<1>4. ASSUME Finish \/ Cast \/ ReadPastEnd \/ \E f \in Func : CallActive(f)
      PROVE  BodyInv'
  <2>1. parsers' = parsers
    BY <1>4 DEF Finish, Cast, ReadPastEnd, CallActive
  <2>2. status' = "undefined" => ReadPastEnd
    BY <1>4 DEF Finish, Cast, CallActive
  <2>3. ReadPastEnd => ~Sound(This)
    BY PastEndBody DEF ReadPastEnd, Sees
  <2> QED BY <1>1, <2>1, <2>2, <2>3, IdleBody
<1>5. ASSUME CallUnknown PROVE BodyInv'
  BY <1>1, <1>5, ThrowBraced DEF CallUnknown, At
<1>6. CASE Step
  BY <1>1, <1>2, <1>3, <1>4, <1>5, <1>6, ParseBody, StatementBody, ExpressionBody, ExpectBody,
     SynchronizeBody, LeaveBody, LevelsBody, ChecksBody, CallBody, EndBody
     DEF Step
<1>7. CASE UNCHANGED vars
  <2>1. parsers' = parsers /\ status' = status
    BY <1>7 DEF vars
  <2> QED BY <1>1, <2>1, IdleBody DEF BodyInv
<1> QED BY <1>6, <1>7 DEF Next, Ended

LEMMA InvBody ==
  ASSUME BodyInv
  PROVE  ReadsOwnBody
<1>1. BodyOK(This)
  BY ThisBody
<1>2. ASSUME Sound(This), This.stack = <<>> PROVE This.next = None
  <2>1. ~Fresh(This)
    BY <1>2 DEF Fresh
  <2>2. ~Braced(This.stack, This.depth)
    BY <1>2 DEF Braced
  <2> QED BY <1>1, <1>2, <2>1, <2>2 DEF BodyOK
<1> QED BY <1>2 DEF ReadsOwnBody, Sound, BodyInv

-----------------------------------------------------------------------------

\* Parser.cpp: whatever the text, there is always a parser at work, with well-formed
\* items and levels that are never negative; the program's own parser never ends like a
\* function's.
THEOREM ParserTypeCorrect == Spec => []TypeOK
<1>1. ParserInv => TypeOK
  BY DEF ParserInv
<1> QED BY <1>1, ParserInductive, PTL

\* Parser.cpp, func_level_ and loop_level_: whatever errors are thrown and caught, the
\* levels of every parser count the functions and loops around the current token.
THEOREM LevelsCounted == Spec => []LevelsMatch
<1>1. ParserInv => LevelsMatch
  BY InvLevels
<1> QED BY <1>1, ParserInductive, PTL


\* Scanner::scan_block and Parser::parse_function: whatever the function, a parser that
\* met no error in its block reads all tokens that the scanner has cut out for it and none
\* behind them.
THEOREM OwnBodyRead == Spec => []ReadsOwnBody
<1>1. Init => BodyInv
  BY InitBody
<1>2. BodyInv /\ [Next]_vars => BodyInv'
  BY StepBody
<1>3. BodyInv => ReadsOwnBody
  BY InvBody
<1> QED BY <1>1, <1>2, <1>3, PTL DEF Spec
===============================================================================
