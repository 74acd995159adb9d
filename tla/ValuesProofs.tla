---------------------------- MODULE ValuesProofs ----------------------------
(***************************************************************************)
(* Values implements ValueStore until ++ or -- changes a cell that         *)
(* somebody else holds; elements keep their type; errors are reported;     *)
(* pointers point to values.  All for any variables, literals, addresses   *)
(* and bounds.                                                             *)
(*                                                                         *)
(* What the operations do to cells and pointers is told once, by Pushed    *)
(* and Dropped: a value that anybody holds stays, whatever else is freed   *)
(* or allocated.  The invariant says that pointers point to cells, and     *)
(* that the last operand, which ++ and -- change, still has the cell of    *)
(* the place it was read from: earlier operands need not, their variables  *)
(* may have been assigned since.                                           *)
(***************************************************************************)
EXTENDS Values, TLAPS

Record == [cell : Address, place : Place \cup {Nowhere}]

\* What the maps of Store make of pointers.
StoreOf(h, s)   == [p \in DOMAIN s |-> h[s[p]]]
Seen(h, x)      == [value |-> h[x.cell], place |-> x.place]
HeldOf(h, o)    == [i \in DOMAIN o |-> Seen(h, o[i])]
DefaultOf(h, c) == [i \in DOMAIN c |-> h[c[i]]]

StoreNow   == StoreOf(cells, slots)
HeldNow    == HeldOf(cells, operands)
DefaultNow == DefaultOf(cells, class)

PointersOK ==
  /\ operands \in Seq(Record)
  /\ class \in Seq(Address)
  /\ slots = [p \in DOMAIN slots |-> slots[p]]
  /\ \A p \in DOMAIN slots : slots[p] \in Address
  /\ DOMAIN cells = Held(slots, class, operands)
  /\ cells = [a \in DOMAIN cells |-> cells[a]]

\* The last operand was read from a place that still has its cell.
TopInPlace ==
  operands # <<>> /\ Top.place # Nowhere =>
    Top.place \in DOMAIN slots /\ slots[Top.place] = Top.cell

PlacesOK ==
  /\ DOMAIN slots \subseteq Place
  /\ objects \in Nat
  /\ \A id \in Nat : Member(id) \in DOMAIN slots => id <= objects
  /\ \A i \in Nat : Element(i) \in DOMAIN slots => Element(0) \in DOMAIN slots

ValuesInv == PointersOK /\ TopInPlace /\ PlacesOK

-----------------------------------------------------------------------------
(* Sequences.                                                              *)

\* A function over 1 .. n is a sequence.
LEMMA FunctionIsSeq ==
  ASSUME NEW n \in Nat, NEW f, f = [i \in 1 .. n |-> f[i]]
  PROVE  f \in Seq({f[i] : i \in 1 .. n}) /\ Len(f) = n
<1> DEFINE S == {f[i] : i \in 1 .. n}
<1>1. \A i \in 1 .. n : f[i] \in S
  OBVIOUS
<1> HIDE DEF S
<1>2. f \in [1 .. n -> S]
  BY <1>1
<1>3. f \in Seq(S) /\ Len(f) = n
  BY <1>2
<1> QED BY <1>3 DEF S

\* What Append does to a function over 1 .. n.
LEMMA AppendFunction ==
  ASSUME NEW n \in Nat, NEW f, f = [i \in 1 .. n |-> f[i]], NEW v
  PROVE  Append(f, v) = [i \in 1 .. n + 1 |-> IF i = n + 1 THEN v ELSE f[i]]
<1> DEFINE S == {f[i] : i \in 1 .. n} \cup {v}
<1>1. f \in Seq({f[i] : i \in 1 .. n}) /\ Len(f) = n
  BY FunctionIsSeq
<1>2. \A i \in 1 .. n : f[i] \in S
  OBVIOUS
<1>3. v \in S
  OBVIOUS
<1> HIDE DEF S
<1>4. f \in [1 .. n -> S]
  BY <1>2
<1>5. f \in Seq(S)
  BY <1>4
<1>6. Append(f, v) \in Seq(S) /\ Len(Append(f, v)) = n + 1
  BY <1>5, <1>3, <1>1
<1>7. \A i \in 1 .. n : Append(f, v)[i] = f[i]
  BY <1>5, <1>3, <1>1
<1>8. Append(f, v)[n + 1] = v
  BY <1>5, <1>3, <1>1
<1> QED BY <1>6, <1>7, <1>8

\* What SubSeq does to a function over 1 .. n.
LEMMA PrefixFunction ==
  ASSUME NEW n \in Nat, NEW f, f = [i \in 1 .. n |-> f[i]], NEW m \in 0 .. n
  PROVE  SubSeq(f, 1, m) = [i \in 1 .. m |-> f[i]]
<1>1. f \in Seq({f[i] : i \in 1 .. n}) /\ Len(f) = n
  BY FunctionIsSeq
<1> DEFINE S == {f[i] : i \in 1 .. n}
<1>2. f \in Seq(S) /\ Len(f) = n
  BY <1>1
<1> HIDE DEF S
<1> QED BY <1>2

-----------------------------------------------------------------------------
(* Operands.                                                               *)

\* The values of operands are a sequence as long as theirs.
LEMMA HeldShape ==
  ASSUME NEW h, NEW o \in Seq(Record)
  PROVE  /\ Len(o) \in Nat /\ o = [i \in 1 .. Len(o) |-> o[i]]
         /\ HeldOf(h, o) = [i \in 1 .. Len(o) |-> HeldOf(h, o)[i]]
         /\ \A i \in 1 .. Len(o) : HeldOf(h, o)[i] = Seen(h, o[i])
         /\ HeldOf(h, o) \in Seq({HeldOf(h, o)[i] : i \in 1 .. Len(o)})
         /\ Len(HeldOf(h, o)) = Len(o)
<1>1. Len(o) \in Nat /\ DOMAIN o = 1 .. Len(o) /\ o = [i \in 1 .. Len(o) |-> o[i]]
  OBVIOUS
<1>2. HeldOf(h, o) = [i \in 1 .. Len(o) |-> Seen(h, o[i])]
  BY <1>1 DEF HeldOf
<1> DEFINE f == HeldOf(h, o)
<1>3. f = [i \in 1 .. Len(o) |-> Seen(h, o[i])]
  BY <1>2
<1> HIDE DEF f
<1>4. f = [i \in 1 .. Len(o) |-> f[i]] /\ \A i \in 1 .. Len(o) : f[i] = Seen(h, o[i])
  BY <1>3
<1>5. f \in Seq({f[i] : i \in 1 .. Len(o)}) /\ Len(f) = Len(o)
  BY <1>1, <1>4, FunctionIsSeq
<1> QED BY <1>1, <1>4, <1>5 DEF f

\* A new last operand behind the first m.
LEMMA HeldPush ==
  ASSUME NEW h, NEW o \in Seq(Record), NEW m \in 0 .. Len(o), NEW x \in Record
  PROVE  /\ Append(SubSeq(o, 1, m), x) \in Seq(Record)
         /\ Len(Append(SubSeq(o, 1, m), x)) = m + 1
         /\ \A i \in 1 .. m : Append(SubSeq(o, 1, m), x)[i] = o[i]
         /\ Append(SubSeq(o, 1, m), x)[m + 1] = x
         /\ HeldOf(h, Append(SubSeq(o, 1, m), x)) = Append(SubSeq(HeldOf(h, o), 1, m), Seen(h, x))
<1> DEFINE q == Append(SubSeq(o, 1, m), x)
           f == HeldOf(h, o)
           g == SubSeq(f, 1, m)
<1>1. SubSeq(o, 1, m) \in Seq(Record) /\ Len(SubSeq(o, 1, m)) = m /\ m \in Nat
  OBVIOUS
<1>2. \A i \in 1 .. m : SubSeq(o, 1, m)[i] = o[i]
  OBVIOUS
<1>3. /\ q \in Seq(Record) /\ Len(q) = m + 1
      /\ \A i \in 1 .. m : q[i] = o[i]
      /\ q[m + 1] = x
  BY <1>1, <1>2
<1>4. Len(o) \in Nat /\ f = [i \in 1 .. Len(o) |-> f[i]] /\ \A i \in 1 .. Len(o) : f[i] = Seen(h, o[i])
  BY HeldShape
<1>5. DOMAIN q = 1 .. m + 1
  BY <1>3
<1>6. HeldOf(h, q) = [i \in 1 .. m + 1 |-> Seen(h, q[i])]
  BY <1>5 DEF HeldOf
<1> HIDE DEF q, f
<1>7. g = [i \in 1 .. m |-> f[i]]
  BY <1>4, PrefixFunction
<1> HIDE DEF g
<1>8. g = [i \in 1 .. m |-> g[i]] /\ \A i \in 1 .. m : g[i] = f[i]
  BY <1>7
<1>9. Append(g, Seen(h, x)) = [i \in 1 .. m + 1 |-> IF i = m + 1 THEN Seen(h, x) ELSE g[i]]
  BY <1>1, <1>8, AppendFunction
<1>10. \A i \in 1 .. m + 1 : Seen(h, q[i]) = IF i = m + 1 THEN Seen(h, x) ELSE g[i]
  <2> TAKE i \in 1 .. m + 1
  <2>1. CASE i = m + 1
    BY <2>1, <1>3
  <2>2. CASE i # m + 1
    <3>1. i \in 1 .. m /\ i \in 1 .. Len(o)
      BY <2>2, <1>1, <1>4
    <3> QED BY <3>1, <2>2, <1>3, <1>8, <1>4
  <2> QED BY <2>1, <2>2
<1>11. HeldOf(h, q) = Append(g, Seen(h, x))
  BY <1>6, <1>9, <1>10
<1> QED BY <1>3, <1>11 DEF q, f, g

\* Only the cells that are held matter.
LEMMA HeldAgree ==
  ASSUME NEW h, NEW g, NEW o, \A i \in DOMAIN o : h[o[i].cell] = g[o[i].cell]
  PROVE  HeldOf(h, o) = HeldOf(g, o)
BY DEF HeldOf, Seen

\* All operands are the first so many.
LEMMA AllOperands ==
  ASSUME NEW o \in Seq(Record)
  PROVE  SubSeq(o, 1, Len(o)) = o
OBVIOUS

\* All values of operands are the first so many.
LEMMA AllHeld ==
  ASSUME NEW h, NEW o \in Seq(Record)
  PROVE  SubSeq(HeldOf(h, o), 1, Len(o)) = HeldOf(h, o)
<1> DEFINE f == HeldOf(h, o)
<1>1. Len(o) \in Nat /\ f = [i \in 1 .. Len(o) |-> f[i]]
  BY HeldShape
<1> HIDE DEF f
<1>2. SubSeq(f, 1, Len(o)) = [i \in 1 .. Len(o) |-> f[i]]
  BY <1>1, PrefixFunction
<1> QED BY <1>1, <1>2 DEF f

-----------------------------------------------------------------------------
(* Pointers.                                                               *)

\* Values that somebody points to stay, and nothing else does.
LEMMA Pointed ==
  ASSUME NEW h, NEW s, NEW c \in Seq(Address), NEW o \in Seq(Record),
         s = [p \in DOMAIN s |-> s[p]], \A p \in DOMAIN s : s[p] \in Address,
         Held(s, c, o) \subseteq DOMAIN h, Point(h, s, c, o)
  PROVE  /\ PointersOK'
         /\ slots' = s /\ class' = c /\ operands' = o
         /\ StoreNow' = StoreOf(h, s) /\ HeldNow' = HeldOf(h, o) /\ DefaultNow' = DefaultOf(h, c)
<1>1. slots' = s /\ class' = c /\ operands' = o
  BY DEF Point
<1>2. cells' = [a \in DOMAIN h \cap Held(s, c, o) |-> h[a]]
  BY DEF Point
<1>3. DOMAIN cells' = Held(s, c, o)
  BY <1>2
<1>4. \A a \in Held(s, c, o) : cells'[a] = h[a]
  BY <1>2
<1>5. cells' = [a \in DOMAIN cells' |-> cells'[a]]
  BY <1>2
<1>6. PointersOK'
  BY <1>1, <1>3, <1>5 DEF PointersOK
<1>7. StoreNow' = StoreOf(h, s)
  <2>1. \A p \in DOMAIN s : s[p] \in Held(s, c, o)
    BY DEF Held
  <2>2. \A p \in DOMAIN s : cells'[s[p]] = h[s[p]]
    BY <2>1, <1>4
  <2> QED BY <1>1, <2>2 DEF StoreNow, StoreOf
<1>8. DefaultNow' = DefaultOf(h, c)
  <2>1. \A i \in DOMAIN c : c[i] \in Held(s, c, o)
    BY DEF Held
  <2>2. \A i \in DOMAIN c : cells'[c[i]] = h[c[i]]
    BY <2>1, <1>4
  <2> QED BY <1>1, <2>2 DEF DefaultNow, DefaultOf
<1>9. HeldNow' = HeldOf(h, o)
  <2>1. \A i \in DOMAIN o : o[i].cell \in Held(s, c, o)
    BY DEF Held
  <2>2. \A i \in DOMAIN o : cells'[o[i].cell] = h[o[i].cell]
    BY <2>1, <1>4
  <2>3. HeldNow' = HeldOf(cells', o)
    BY <1>1 DEF HeldNow, HeldOf, Seen
  <2> QED BY <2>2, <2>3, HeldAgree
<1> QED BY <1>1, <1>6, <1>7, <1>8, <1>9

\* An operand replaces all behind the first m.
LEMMA Pushed ==
  ASSUME PointersOK, NEW h, DOMAIN cells \subseteq DOMAIN h, NEW s,
         s = [p \in DOMAIN s |-> s[p]], \A p \in DOMAIN s : s[p] \in Address \cap DOMAIN h,
         NEW m \in 0 .. Len(operands), NEW x \in Record, x.cell \in DOMAIN h,
         Point(h, s, class, Append(SubSeq(operands, 1, m), x))
  PROVE  /\ PointersOK'
         /\ slots' = s /\ operands' # <<>> /\ Top' = x
         /\ StoreNow' = StoreOf(h, s) /\ DefaultNow' = DefaultOf(h, class)
         /\ HeldNow' = Append(SubSeq(HeldOf(h, operands), 1, m), Seen(h, x))
<1> DEFINE o == Append(SubSeq(operands, 1, m), x)
<1>1. operands \in Seq(Record) /\ class \in Seq(Address)
  BY DEF PointersOK
<1>2. /\ o \in Seq(Record) /\ Len(o) = m + 1
      /\ \A i \in 1 .. m : o[i] = operands[i]
      /\ o[m + 1] = x
      /\ HeldOf(h, o) = Append(SubSeq(HeldOf(h, operands), 1, m), Seen(h, x))
  BY <1>1, HeldPush
<1>3. Point(h, s, class, o)
  OBVIOUS
<1> HIDE DEF o
<1>4. m \in Nat /\ \A i \in 1 .. m : i \in DOMAIN operands
  BY <1>1
<1>5. \A i \in DOMAIN o : o[i].cell \in DOMAIN h
  <2> TAKE i \in DOMAIN o
  <2>1. CASE i = m + 1
    BY <2>1, <1>2
  <2>2. CASE i # m + 1
    <3>1. i \in 1 .. m
      BY <2>2, <1>2, <1>4
    <3>2. operands[i].cell \in DOMAIN cells
      BY <3>1, <1>4 DEF PointersOK, Held
    <3> QED BY <3>1, <3>2, <1>2
  <2> QED BY <2>1, <2>2
<1>6. \A i \in DOMAIN class : class[i] \in DOMAIN h
  BY DEF PointersOK, Held
<1>7. Held(s, class, o) \subseteq DOMAIN h
  BY <1>5, <1>6 DEF Held
<1>8. /\ PointersOK'
      /\ slots' = s /\ operands' = o
      /\ StoreNow' = StoreOf(h, s) /\ HeldNow' = HeldOf(h, o) /\ DefaultNow' = DefaultOf(h, class)
  BY <1>1, <1>2, <1>3, <1>7, Pointed
<1>9. operands' # <<>> /\ Top' = x
  BY <1>2, <1>4, <1>8 DEF Top
<1> QED BY <1>2, <1>8, <1>9

\* The operands are dropped.
LEMMA Dropped ==
  ASSUME PointersOK, NEW s, NEW c \in Seq(Address),
         s = [p \in DOMAIN s |-> s[p]], \A p \in DOMAIN s : s[p] \in Address \cap DOMAIN cells,
         \A i \in DOMAIN c : c[i] \in DOMAIN cells,
         Point(cells, s, c, <<>>)
  PROVE  /\ PointersOK' /\ TopInPlace'
         /\ slots' = s /\ HeldNow' = <<>>
         /\ StoreNow' = StoreOf(cells, s) /\ DefaultNow' = DefaultOf(cells, c)
<1>1. <<>> \in Seq(Record) /\ DOMAIN <<>> = {}
  OBVIOUS
<1>2. Held(s, c, <<>>) \subseteq DOMAIN cells
  BY <1>1 DEF Held
<1>3. /\ PointersOK'
      /\ slots' = s /\ operands' = <<>>
      /\ StoreNow' = StoreOf(cells, s) /\ HeldNow' = HeldOf(cells, <<>>)
      /\ DefaultNow' = DefaultOf(cells, c)
  BY <1>1, <1>2, Pointed
<1>4. HeldOf(cells, <<>>) = <<>>
  BY DEF HeldOf
<1>5. TopInPlace'
  BY <1>3 DEF TopInPlace
<1> QED BY <1>3, <1>4, <1>5

-----------------------------------------------------------------------------
(* New values.                                                             *)

\* A new cell moves no value.
LEMMA WithKeeps ==
  ASSUME PointersOK, NEW g, DOMAIN g = DOMAIN cells, NEW v,
         \E a \in Address : a \notin DOMAIN cells
  PROVE  /\ Free \in Address /\ Free \notin DOMAIN cells
         /\ DOMAIN With(g, v) = DOMAIN cells \cup {Free} /\ With(g, v)[Free] = v
         /\ StoreOf(With(g, v), slots) = StoreOf(g, slots)
         /\ HeldOf(With(g, v), operands) = HeldOf(g, operands)
         /\ DefaultOf(With(g, v), class) = DefaultOf(g, class)
<1>1. Free \in Address /\ Free \notin DOMAIN cells
  BY DEF Free
<1>2. DOMAIN With(g, v) = DOMAIN cells \cup {Free} /\ With(g, v)[Free] = v
  BY DEF With
<1>3. \A a \in DOMAIN cells : With(g, v)[a] = g[a]
  BY <1>1 DEF With
<1>4. \A p \in DOMAIN slots : With(g, v)[slots[p]] = g[slots[p]]
  BY <1>3 DEF PointersOK, Held
<1>5. \A i \in DOMAIN class : With(g, v)[class[i]] = g[class[i]]
  BY <1>3 DEF PointersOK, Held
<1>6. \A i \in DOMAIN operands : With(g, v)[operands[i].cell] = g[operands[i].cell]
  BY <1>3 DEF PointersOK, Held
<1>7. StoreOf(With(g, v), slots) = StoreOf(g, slots)
  BY <1>4 DEF StoreOf
<1>8. DefaultOf(With(g, v), class) = DefaultOf(g, class)
  BY <1>5 DEF DefaultOf
<1>9. HeldOf(With(g, v), operands) = HeldOf(g, operands)
  BY <1>6, HeldAgree
<1> QED BY <1>1, <1>2, <1>7, <1>8, <1>9

\* A computed value.
LEMMA Yielded ==
  ASSUME PointersOK, NEW g, DOMAIN g = DOMAIN cells, NEW v,
         NEW m \in 0 .. Len(operands), Yield(g, SubSeq(operands, 1, m), v)
  PROVE  /\ PointersOK' /\ TopInPlace' /\ slots' = slots
         /\ StoreNow' = StoreOf(g, slots) /\ DefaultNow' = DefaultOf(g, class)
         /\ HeldNow' = Append(SubSeq(HeldOf(g, operands), 1, m), [value |-> v, place |-> Nowhere])
<1> DEFINE x == Operand(Free, Nowhere)
           h == With(g, v)
<1>1. (\E a \in Address : a \notin DOMAIN cells)
      /\ Point(h, slots, class, Append(SubSeq(operands, 1, m), x))
  BY DEF Yield
<1>2. /\ Free \in Address /\ Free \notin DOMAIN cells
      /\ DOMAIN h = DOMAIN cells \cup {Free} /\ h[Free] = v
      /\ StoreOf(h, slots) = StoreOf(g, slots)
      /\ HeldOf(h, operands) = HeldOf(g, operands)
      /\ DefaultOf(h, class) = DefaultOf(g, class)
  BY <1>1, WithKeeps
<1>3. x \in Record /\ x.cell = Free /\ x.place = Nowhere
  BY <1>2 DEF Record, Operand
<1>4. Seen(h, x) = [value |-> v, place |-> Nowhere]
  BY <1>2, <1>3 DEF Seen
<1> HIDE DEF x, h
<1>5. slots = [p \in DOMAIN slots |-> slots[p]] /\ \A p \in DOMAIN slots : slots[p] \in Address \cap DOMAIN h
  BY <1>2 DEF PointersOK, Held
<1>6. /\ PointersOK'
      /\ slots' = slots /\ operands' # <<>> /\ Top' = x
      /\ StoreNow' = StoreOf(h, slots) /\ DefaultNow' = DefaultOf(h, class)
      /\ HeldNow' = Append(SubSeq(HeldOf(h, operands), 1, m), Seen(h, x))
  BY <1>1, <1>2, <1>3, <1>5, Pushed
<1>7. TopInPlace'
  BY <1>3, <1>6 DEF TopInPlace
<1> QED BY <1>2, <1>4, <1>6, <1>7

\* A computed value with no other value changed.
LEMMA Computed ==
  ASSUME PointersOK, NEW v, NEW m \in 0 .. Len(operands), Yield(cells, SubSeq(operands, 1, m), v)
  PROVE  /\ PointersOK' /\ TopInPlace' /\ slots' = slots
         /\ StoreNow' = StoreNow /\ DefaultNow' = DefaultNow
         /\ HeldNow' = Append(SubSeq(HeldNow, 1, m), [value |-> v, place |-> Nowhere])
BY Yielded DEF StoreNow, DefaultNow, HeldNow

\* A value that was there.
LEMMA Moved ==
  ASSUME PointersOK, NEW a \in DOMAIN cells, NEW q \in Place \cup {Nowhere}, NEW s,
         s = [p \in DOMAIN s |-> s[p]], \A p \in DOMAIN s : s[p] \in DOMAIN cells,
         q # Nowhere => q \in DOMAIN s /\ s[q] = a,
         NEW m \in 0 .. Len(operands),
         Point(cells, s, class, Append(SubSeq(operands, 1, m), Operand(a, q)))
  PROVE  /\ PointersOK' /\ TopInPlace' /\ slots' = s
         /\ StoreNow' = StoreOf(cells, s) /\ DefaultNow' = DefaultNow
         /\ HeldNow' = Append(SubSeq(HeldNow, 1, m), [value |-> cells[a], place |-> q])
<1> DEFINE x == Operand(a, q)
<1>1. DOMAIN cells \subseteq Address
  <2>1. /\ \A p \in DOMAIN slots : slots[p] \in Address
        /\ \A i \in DOMAIN class : class[i] \in Address
    BY DEF PointersOK
  <2>2. \A i \in DOMAIN operands : operands[i] \in Record
    BY DEF PointersOK
  <2>3. \A r \in Record : r.cell \in Address
    BY DEF Record
  <2> QED BY <2>1, <2>2, <2>3 DEF PointersOK, Held
<1>2. x \in Record /\ x.cell = a /\ x.place = q
  BY <1>1 DEF Record, Operand
<1>3. Seen(cells, x) = [value |-> cells[a], place |-> q]
  BY <1>2 DEF Seen
<1>4. Point(cells, s, class, Append(SubSeq(operands, 1, m), x))
  OBVIOUS
<1> HIDE DEF x
<1>5. /\ PointersOK'
      /\ slots' = s /\ operands' # <<>> /\ Top' = x
      /\ StoreNow' = StoreOf(cells, s) /\ DefaultNow' = DefaultOf(cells, class)
      /\ HeldNow' = Append(SubSeq(HeldOf(cells, operands), 1, m), Seen(cells, x))
  BY <1>1, <1>2, <1>4, Pushed
<1>6. TopInPlace'
  BY <1>2, <1>5 DEF TopInPlace
<1> QED BY <1>3, <1>5, <1>6 DEF HeldNow, DefaultNow

-----------------------------------------------------------------------------
(* The abstract store.                                                     *)

\* Its variables are the maps, its operators and places those of Values.
LEMMA StoreVars ==
  /\ Store!vars = <<StoreNow, HeldNow, DefaultNow>>
  /\ Store!vars' = <<StoreNow', HeldNow', DefaultNow'>>
BY DEF Store!vars, StoreNow, HeldNow, DefaultNow, StoreOf, HeldOf, DefaultOf, Seen

\* ValueStore has the same operators and places.
LEMMA SameOperators ==
  /\ \A op, v : Store!Unary(op, v) = Unary(op, v)
  /\ \A op, v : Store!Stepped(op, v) = Stepped(op, v)
  /\ \A op, l, r : Store!Binary(op, l, r) = Binary(op, l, r)
  /\ \A i : Store!Element(i) = Element(i) /\ Store!Member(i) = Member(i) /\ Store!Object(i) = Object(i)
  /\ \A v : Store!IsError(v) = IsError(v)
  /\ Store!ErrorValue = ErrorValue
  /\ Store!UnaryOp = UnaryOp /\ Store!StepOp = StepOp /\ Store!BinaryOp = BinaryOp
<1>1. \A op, v : Store!Unary(op, v) = Unary(op, v)
  BY DEF Store!Unary, Unary, Store!Bool, Bool, Store!Truth, Truth, Store!UnaryOp, UnaryOp,
         Store!ErrorValue, ErrorValue, Store!IsError, IsError
<1>2. \A op, v : Store!Stepped(op, v) = Stepped(op, v)
  BY DEF Store!Stepped, Stepped, Store!Num, Num
<1>3. \A op, l, r : Store!Binary(op, l, r) = Binary(op, l, r)
  BY DEF Store!Binary, Binary, Store!Result, Result, Store!Add, Add, Store!Subtract, Subtract,
         Store!Less, Less, Store!Equal, Equal, Store!Logical, Logical, Store!Are, Are,
         Store!Bool, Bool, Store!Num, Num, Store!Str, Str, Store!Truth, Truth,
         Store!ErrorValue, ErrorValue, Store!IsError, IsError
<1>4. \A i : Store!Element(i) = Element(i) /\ Store!Member(i) = Member(i) /\ Store!Object(i) = Object(i)
  BY DEF Store!Element, Element, Store!Member, Member, Store!Object, Object
<1>5. \A v : Store!IsError(v) = IsError(v)
  BY DEF Store!IsError, IsError
<1>6. /\ Store!ErrorValue = ErrorValue
      /\ Store!UnaryOp = UnaryOp /\ Store!StepOp = StepOp /\ Store!BinaryOp = BinaryOp
  BY DEF Store!ErrorValue, ErrorValue, Store!UnaryOp, UnaryOp, Store!StepOp, StepOp,
         Store!BinaryOp, BinaryOp
<1> QED BY <1>1, <1>2, <1>3, <1>4, <1>5, <1>6

\* The last operand in both.
LEMMA SameTop ==
  ASSUME PointersOK
  PROVE  /\ Len(operands) \in Nat /\ Len(HeldNow) = Len(operands)
         /\ HeldNow = <<>> <=> operands = <<>>
         /\ \A m \in 0 .. Len(operands) : SubSeq(HeldNow, 1, m) = [i \in 1 .. m |-> HeldNow[i]]
         /\ SubSeq(HeldNow, 1, Len(operands)) = HeldNow
         /\ SubSeq(operands, 1, Len(operands)) = operands
         /\ \A i \in 1 .. Len(operands) :
              /\ HeldNow[i].value = cells[operands[i].cell] /\ HeldNow[i].place = operands[i].place
              /\ operands[i] \in Record /\ operands[i].cell \in DOMAIN cells
         /\ operands # <<>> =>
              /\ HeldNow[Len(operands)] = [value |-> Val, place |-> Top.place]
              /\ Top \in Record /\ Top.cell \in DOMAIN cells
              /\ Len(operands) \in 1 .. Len(operands)
              /\ Len(operands) - 1 \in 0 .. Len(operands)
         /\ \A p \in DOMAIN slots : slots[p] \in DOMAIN cells
         /\ \A i \in DOMAIN class : class[i] \in DOMAIN cells
<1>1. operands \in Seq(Record)
  BY DEF PointersOK
<1>2. /\ Len(operands) \in Nat
      /\ HeldNow = [i \in 1 .. Len(operands) |-> HeldNow[i]]
      /\ \A i \in 1 .. Len(operands) : HeldNow[i] = Seen(cells, operands[i])
      /\ HeldNow \in Seq({HeldNow[i] : i \in 1 .. Len(operands)})
      /\ Len(HeldNow) = Len(operands)
  BY <1>1, HeldShape DEF HeldNow
<1>3. \A m \in 0 .. Len(operands) : SubSeq(HeldNow, 1, m) = [i \in 1 .. m |-> HeldNow[i]]
  BY <1>2, PrefixFunction
<1>4. SubSeq(HeldNow, 1, Len(operands)) = HeldNow /\ SubSeq(operands, 1, Len(operands)) = operands
  BY <1>1, AllHeld, AllOperands DEF HeldNow
<1>5. \A i \in 1 .. Len(operands) :
        /\ HeldNow[i].value = cells[operands[i].cell] /\ HeldNow[i].place = operands[i].place
  BY <1>2 DEF Seen
<1>6. \A i \in 1 .. Len(operands) : operands[i] \in Record /\ operands[i].cell \in DOMAIN cells
  BY <1>1 DEF PointersOK, Held
<1>7. operands # <<>> => Len(operands) \in 1 .. Len(operands) /\ Len(operands) - 1 \in 0 .. Len(operands)
  BY <1>1
<1>8. operands # <<>> =>
        /\ HeldNow[Len(operands)] = [value |-> Val, place |-> Top.place]
        /\ Top \in Record /\ Top.cell \in DOMAIN cells
  BY <1>7, <1>6, <1>2 DEF Seen, Val, Top
<1>9. HeldNow = <<>> <=> operands = <<>>
  <2> DEFINE S == {HeldNow[i] : i \in 1 .. Len(operands)}
  <2>1. HeldNow \in Seq(S) /\ Len(HeldNow) = Len(operands)
    BY <1>2
  <2> HIDE DEF S
  <2> QED BY <2>1, <1>1
<1>10. /\ \A p \in DOMAIN slots : slots[p] \in DOMAIN cells
       /\ \A i \in DOMAIN class : class[i] \in DOMAIN cells
  BY DEF PointersOK, Held
<1> QED BY <1>2, <1>3, <1>4, <1>5, <1>6, <1>7, <1>8, <1>9, <1>10

-----------------------------------------------------------------------------
(* Its steps, told of the maps.                                            *)

\* A value is computed.
LEMMA StoreCompute ==
  ASSUME NEW v, HeldNow' = Append(HeldNow, [value |-> v, place |-> Nowhere]),
         StoreNow' = StoreNow, DefaultNow' = DefaultNow
  PROVE  Store!Compute(v)
BY DEF Store!Compute, Store!Operand, StoreNow, HeldNow, DefaultNow, StoreOf, HeldOf, DefaultOf, Seen

\* A value is read from its place.
LEMMA StoreRead ==
  ASSUME NEW p \in DOMAIN slots,
         HeldNow' = Append(HeldNow, [value |-> cells[slots[p]], place |-> p]),
         StoreNow' = StoreNow, DefaultNow' = DefaultNow
  PROVE  Store!Read(p)
BY DEF Store!Read, Store!Operand, StoreNow, HeldNow, DefaultNow, StoreOf, HeldOf, DefaultOf, Seen

\* The last operand there and here.
LEMMA StoreTop ==
  ASSUME PointersOK, operands # <<>>
  PROVE  /\ HeldNow # <<>> /\ Len(HeldNow) = Len(operands)
         /\ Store!Top = [value |-> Val, place |-> Top.place]
         /\ Store!Top.value = Val /\ Store!Top.place = Top.place
         /\ Store!Others = SubSeq(HeldNow, 1, Len(operands) - 1)
<1>1. HeldNow # <<>> /\ Len(HeldNow) = Len(operands)
      /\ HeldNow[Len(HeldNow)] = [value |-> Val, place |-> Top.place]
  BY SameTop
<1>2. Store!Top = HeldNow[Len(HeldNow)] /\ Store!Others = SubSeq(HeldNow, 1, Len(operands) - 1)
  BY <1>1 DEF Store!Top, Store!Others, HeldNow, HeldOf, Seen
<1> QED BY <1>1, <1>2

\* An element is read, with the last operand as its index.
LEMMA StoreIndex ==
  ASSUME PointersOK, operands # <<>>, Val.type = "num", NEW p, p = Element(Val.data), p \in DOMAIN slots,
         HeldNow' = Append(SubSeq(HeldNow, 1, Len(operands) - 1), [value |-> cells[slots[p]], place |-> p]),
         StoreNow' = StoreNow, DefaultNow' = DefaultNow
  PROVE  Store!Index
<1>1. HeldNow # <<>> /\ Store!Top.value = Val
      /\ Store!Others = SubSeq(HeldNow, 1, Len(operands) - 1)
  BY StoreTop
<1>2. Store!Element(Val.data) = p
  BY SameOperators
<1>3. Store!Operand(cells[slots[p]], p) = [value |-> cells[slots[p]], place |-> p]
  BY DEF Store!Operand
<1>4. p \in DOMAIN StoreNow /\ StoreNow[p] = cells[slots[p]]
  BY DEF StoreNow, StoreOf
<1> QED BY <1>1, <1>2, <1>3, <1>4 DEF Store!Index, StoreNow, HeldNow, DefaultNow, StoreOf, HeldOf, DefaultOf, Seen

\* A unary operator.
LEMMA StoreApply ==
  ASSUME PointersOK, operands # <<>>, NEW op, NEW v \in Unary(op, Val),
         HeldNow' = Append(SubSeq(HeldNow, 1, Len(operands) - 1), [value |-> v, place |-> Nowhere]),
         StoreNow' = StoreNow, DefaultNow' = DefaultNow
  PROVE  Store!Apply(op)
<1>1. HeldNow # <<>> /\ Store!Top.value = Val
      /\ Store!Others = SubSeq(HeldNow, 1, Len(operands) - 1)
  BY StoreTop
<1>2. v \in Store!Unary(op, Store!Top.value)
  BY <1>1, SameOperators
<1>3. Store!Operand(v, Nowhere) = [value |-> v, place |-> Nowhere]
  BY DEF Store!Operand
<1> QED BY <1>1, <1>2, <1>3 DEF Store!Apply, StoreNow, HeldNow, DefaultNow, StoreOf, HeldOf, DefaultOf, Seen

\* ++ and --: only the place of the operand changes.
LEMMA StoreChange ==
  ASSUME PointersOK, operands # <<>>, NEW op, NEW v \in Stepped(op, Val),
         StoreNow' = [p \in DOMAIN slots |-> IF p = Top.place THEN v ELSE StoreNow[p]],
         HeldNow' = Append(SubSeq(HeldNow, 1, Len(operands) - 1), [value |-> v, place |-> Nowhere]),
         DefaultNow' = DefaultNow
  PROVE  Store!Change(op)
<1>1. HeldNow # <<>> /\ Store!Top.value = Val /\ Store!Top.place = Top.place
      /\ Store!Others = SubSeq(HeldNow, 1, Len(operands) - 1)
  BY StoreTop
<1>2. v \in Store!Stepped(op, Store!Top.value)
  BY <1>1, SameOperators
<1>3. Store!Operand(v, Nowhere) = [value |-> v, place |-> Nowhere]
  BY DEF Store!Operand
<1>4. DOMAIN StoreNow = DOMAIN slots
  BY DEF StoreNow, StoreOf
<1>5. StoreNow' = [p \in DOMAIN StoreNow |-> IF p = Store!Top.place THEN v ELSE StoreNow[p]]
  BY <1>1, <1>4
<1> QED BY <1>1, <1>2, <1>3, <1>5 DEF Store!Change, StoreNow, HeldNow, DefaultNow, StoreOf, HeldOf, DefaultOf, Seen

\* A binary operator.
LEMMA StoreCombine ==
  ASSUME PointersOK, Len(operands) >= 2, NEW op, NEW left, left = cells[operands[Len(operands) - 1].cell],
         ~IsError(left), NEW v \in Binary(op, left, Val),
         HeldNow' = Append(SubSeq(HeldNow, 1, Len(operands) - 2), [value |-> v, place |-> Nowhere]),
         StoreNow' = StoreNow, DefaultNow' = DefaultNow
  PROVE  Store!Combine(op)
<1>1. operands # <<>> /\ Len(operands) - 1 \in 1 .. Len(operands)
  BY SameTop
<1>2. Len(HeldNow) = Len(operands) /\ Store!Top.value = Val
  BY <1>1, StoreTop
<1>3. HeldNow[Len(HeldNow) - 1].value = left
  BY <1>1, <1>2, SameTop
<1>4. v \in Store!Binary(op, HeldNow[Len(HeldNow) - 1].value, Store!Top.value)
      /\ ~Store!IsError(HeldNow[Len(HeldNow) - 1].value)
  BY <1>2, <1>3, SameOperators
<1>5. Store!Operand(v, Nowhere) = [value |-> v, place |-> Nowhere]
  BY DEF Store!Operand
<1> QED BY <1>2, <1>4, <1>5 DEF Store!Combine, StoreNow, HeldNow, DefaultNow, StoreOf, HeldOf, DefaultOf, Seen

\* The value of a branch stays.
LEMMA StoreChoose ==
  ASSUME PointersOK, Len(operands) >= 2,
         HeldNow' = Append(SubSeq(HeldNow, 1, Len(operands) - 2), [value |-> Val, place |-> Top.place]),
         StoreNow' = StoreNow, DefaultNow' = DefaultNow
  PROVE  Store!Choose
<1>1. operands # <<>>
  BY SameTop
<1>2. Len(HeldNow) = Len(operands) /\ Store!Top = [value |-> Val, place |-> Top.place]
  BY <1>1, StoreTop
<1> QED BY <1>2 DEF Store!Choose, StoreNow, HeldNow, DefaultNow, StoreOf, HeldOf, DefaultOf, Seen

\* A place gets the value of the operand.
LEMMA StoreAssign ==
  ASSUME PointersOK, operands # <<>>, ~IsError(Val), NEW x \in DOMAIN slots,
         StoreNow' = [StoreNow EXCEPT ![x] = Val],
         HeldNow' = Append(SubSeq(HeldNow, 1, Len(operands) - 1), [value |-> Val, place |-> x]),
         DefaultNow' = DefaultNow
  PROVE  Store!Assign(x)
<1>1. HeldNow # <<>> /\ Store!Top.value = Val /\ Store!Others = SubSeq(HeldNow, 1, Len(operands) - 1)
  BY StoreTop
<1>2. ~Store!IsError(Store!Top.value)
  BY <1>1, SameOperators
<1>3. Store!Operand(Store!Top.value, x) = [value |-> Val, place |-> x]
  BY <1>1 DEF Store!Operand
<1>4. x \in DOMAIN StoreNow
  BY DEF StoreNow, StoreOf
<1> QED BY <1>1, <1>2, <1>3, <1>4 DEF Store!Assign, StoreNow, HeldNow, DefaultNow, StoreOf, HeldOf, DefaultOf, Seen

\* An object with a member of its own.
LEMMA StoreCreate ==
  ASSUME NEW id, DefaultNow # <<>>, Member(id) \notin DOMAIN slots,
         StoreNow' = [p \in DOMAIN slots \cup {Member(id)} |->
                        IF p = Member(id) THEN DefaultNow[1] ELSE StoreNow[p]],
         HeldNow' = Append(HeldNow, [value |-> Object(id), place |-> Nowhere]),
         DefaultNow' = DefaultNow
  PROVE  Store!Create(id)
<1>1. Store!Member(id) = Member(id) /\ Store!Object(id) = Object(id)
  BY SameOperators
<1>2. DOMAIN StoreNow = DOMAIN slots
  BY DEF StoreNow, StoreOf
<1>3. Store!Operand(Store!Object(id), Nowhere) = [value |-> Object(id), place |-> Nowhere]
  BY <1>1 DEF Store!Operand
<1>4. StoreNow' = [p \in DOMAIN StoreNow \cup {Store!Member(id)} |->
                     IF p = Store!Member(id) THEN DefaultNow[1] ELSE StoreNow[p]]
  BY <1>1, <1>2
<1>5. Store!Member(id) \notin DOMAIN StoreNow
  BY <1>1, <1>2
<1> QED BY <1>3, <1>4, <1>5 DEF Store!Create, StoreNow, HeldNow, DefaultNow, StoreOf, HeldOf, DefaultOf, Seen

\* The operands are dropped.
LEMMA StoreDrop ==
  ASSUME HeldNow' = <<>>, StoreNow' = StoreNow, DefaultNow' = DefaultNow
  PROVE  Store!Drop
BY DEF Store!Drop, StoreNow, HeldNow, DefaultNow, StoreOf, HeldOf, DefaultOf, Seen

\* A variable with the value of the operand.
LEMMA StoreDeclare ==
  ASSUME PointersOK, Len(operands) = 1, NEW x, x \notin DOMAIN slots,
         StoreNow' = [p \in DOMAIN slots \cup {x} |-> IF p = x THEN Val ELSE StoreNow[p]],
         HeldNow' = <<>>, DefaultNow' = DefaultNow
  PROVE  Store!Declare(x)
<1>1. operands # <<>>
  BY SameTop
<1>2. Len(HeldNow) = 1 /\ Store!Top.value = Val
  BY <1>1, StoreTop
<1>3. DOMAIN StoreNow = DOMAIN slots
  BY DEF StoreNow, StoreOf
<1>4. StoreNow' = [p \in DOMAIN StoreNow \cup {x} |-> IF p = x THEN Store!Top.value ELSE StoreNow[p]]
  BY <1>2, <1>3
<1> QED BY <1>2, <1>3, <1>4 DEF Store!Declare, StoreNow, HeldNow, DefaultNow, StoreOf, HeldOf, DefaultOf, Seen

\* The default value of a member.
LEMMA StoreDeclareClass ==
  ASSUME PointersOK, Len(operands) = 1, DefaultNow = <<>>,
         DefaultNow' = <<Val>>, HeldNow' = <<>>, StoreNow' = StoreNow
  PROVE  Store!DeclareClass
<1>1. operands # <<>>
  BY SameTop
<1>2. Len(HeldNow) = 1 /\ Store!Top.value = Val
  BY <1>1, StoreTop
<1>3. DefaultNow' = <<Store!Top.value>>
  BY <1>2
<1> QED BY <1>2, <1>3 DEF Store!DeclareClass, StoreNow, HeldNow, DefaultNow, StoreOf, HeldOf, DefaultOf, Seen

\* Elements with the values of the operands.
LEMMA StoreDeclareArray ==
  ASSUME PointersOK, Elements \cap DOMAIN slots = {},
         StoreNow' = [p \in DOMAIN slots \cup Elements |->
                        IF p \in Elements THEN HeldNow[p[2] + 1].value ELSE StoreNow[p]],
         HeldNow' = <<>>, DefaultNow' = DefaultNow
  PROVE  Store!DeclareArray
<1>1. DOMAIN HeldNow = DOMAIN operands
  BY DEF HeldNow, HeldOf
<1>2. \A i : Store!Element(i) = Element(i)
  BY SameOperators
<1>3. Elements = {Store!Element(i - 1) : i \in DOMAIN HeldNow}
  BY <1>1, <1>2 DEF Elements
<1>4. DOMAIN StoreNow = DOMAIN slots
  BY DEF StoreNow, StoreOf
<1> DEFINE E == {Store!Element(i - 1) : i \in DOMAIN HeldNow}
<1>5. StoreNow' = [p \in DOMAIN StoreNow \cup E |->
                     IF p \in E THEN HeldNow[p[2] + 1].value ELSE StoreNow[p]]
  BY <1>3, <1>4
<1>6. E \cap DOMAIN StoreNow = {}
  BY <1>3, <1>4
<1> QED BY <1>5, <1>6 DEF Store!DeclareArray, StoreNow, HeldNow, DefaultNow, StoreOf, HeldOf, DefaultOf, Seen

-----------------------------------------------------------------------------
(* The steps.                                                              *)

\* What each step has to show.
AsStore == "shared" \in events' \/ Store!Next

\* Places stay in order when none comes.
LEMMA SamePlaces ==
  ASSUME PlacesOK, slots' = slots, objects' = objects
  PROVE  PlacesOK'
BY DEF PlacesOK

\* A computed value behind all operands.
LEMMA ComputeStep ==
  ASSUME ValuesInv, NEW v \in Literal \cup {ErrorValue}, Yield(cells, operands, v), objects' = objects
  PROVE  ValuesInv' /\ AsStore
<1>1. PointersOK /\ PlacesOK
  BY DEF ValuesInv
<1>2. /\ Len(operands) \in 0 .. Len(operands)
      /\ SubSeq(operands, 1, Len(operands)) = operands
      /\ SubSeq(HeldNow, 1, Len(operands)) = HeldNow
  BY <1>1, SameTop
<1>3. /\ PointersOK' /\ TopInPlace' /\ slots' = slots
      /\ StoreNow' = StoreNow /\ DefaultNow' = DefaultNow
      /\ HeldNow' = Append(HeldNow, [value |-> v, place |-> Nowhere])
  BY <1>1, <1>2, Computed
<1>4. Store!Compute(v)
  BY <1>3, StoreCompute
<1>5. v \in Literal \cup {Store!ErrorValue}
  BY SameOperators
<1> QED BY <1>1, <1>3, <1>4, <1>5, SamePlaces DEF ValuesInv, AsStore, Store!Next

\* A value read from a place.
LEMMA ReadStep ==
  ASSUME ValuesInv, NEW p \in DOMAIN slots, Hold(Append(operands, Operand(slots[p], p))), objects' = objects
  PROVE  ValuesInv' /\ AsStore
<1>1. PointersOK /\ PlacesOK
  BY DEF ValuesInv
<1>2. /\ Len(operands) \in 0 .. Len(operands)
      /\ SubSeq(operands, 1, Len(operands)) = operands
      /\ SubSeq(HeldNow, 1, Len(operands)) = HeldNow
      /\ slots[p] \in DOMAIN cells
      /\ \A q \in DOMAIN slots : slots[q] \in DOMAIN cells
  BY <1>1, SameTop
<1>3. p \in Place \cup {Nowhere}
  BY <1>1 DEF PlacesOK
<1>4. /\ slots = [q \in DOMAIN slots |-> slots[q]]
      /\ Point(cells, slots, class, Append(SubSeq(operands, 1, Len(operands)), Operand(slots[p], p)))
  BY <1>1, <1>2 DEF PointersOK, Hold
<1>5. /\ PointersOK' /\ TopInPlace' /\ slots' = slots
      /\ StoreNow' = StoreOf(cells, slots) /\ DefaultNow' = DefaultNow
      /\ HeldNow' = Append(HeldNow, [value |-> cells[slots[p]], place |-> p])
  BY <1>1, <1>2, <1>3, <1>4, Moved
<1>6. Store!Read(p)
  BY <1>5, StoreRead DEF StoreNow
<1>7. p \in DOMAIN StoreNow
  BY DEF StoreNow, StoreOf
<1> QED BY <1>1, <1>5, <1>6, <1>7, SamePlaces
        DEF ValuesInv, AsStore, Store!Next, StoreNow, StoreOf

\* The statement is over.
LEMMA DropStep ==
  ASSUME ValuesInv, Hold(<<>>), objects' = objects
  PROVE  ValuesInv' /\ AsStore
<1>1. PointersOK /\ PlacesOK
  BY DEF ValuesInv
<1>2. /\ class \in Seq(Address) /\ slots = [p \in DOMAIN slots |-> slots[p]]
      /\ \A p \in DOMAIN slots : slots[p] \in Address \cap DOMAIN cells
      /\ \A i \in DOMAIN class : class[i] \in DOMAIN cells
  BY <1>1, SameTop DEF PointersOK
<1>3. /\ PointersOK' /\ TopInPlace'
      /\ slots' = slots /\ HeldNow' = <<>>
      /\ StoreNow' = StoreOf(cells, slots) /\ DefaultNow' = DefaultOf(cells, class)
  BY <1>1, <1>2, Dropped DEF Hold
<1>4. Store!Drop
  BY <1>3, StoreDrop DEF StoreNow, DefaultNow
<1> QED BY <1>1, <1>3, <1>4, SamePlaces DEF ValuesInv, AsStore, Store!Next

\* The index gives way to the element.
LEMMA ElementStep ==
  ASSUME ValuesInv, ReadElement
  PROVE  ValuesInv' /\ AsStore
<1> DEFINE p == Element(Val.data)
<1>1. PointersOK /\ PlacesOK /\ operands # <<>> /\ Val.type = "num" /\ p \in DOMAIN slots /\ objects' = objects
  BY DEF ValuesInv, ReadElement, Computing, Quiet
<1>2. /\ Len(operands) - 1 \in 0 .. Len(operands)
      /\ slots[p] \in DOMAIN cells
      /\ \A q \in DOMAIN slots : slots[q] \in DOMAIN cells
  BY <1>1, SameTop
<1>3. /\ slots = [q \in DOMAIN slots |-> slots[q]]
      /\ Point(cells, slots, class, Append(SubSeq(operands, 1, Len(operands) - 1), Operand(slots[p], p)))
  BY <1>1 DEF PointersOK, Hold, ReadElement, Others
<1> HIDE DEF p
<1>4. p \in Place \cup {Nowhere}
  BY <1>1 DEF PlacesOK
<1>5. /\ PointersOK' /\ TopInPlace' /\ slots' = slots
      /\ StoreNow' = StoreOf(cells, slots) /\ DefaultNow' = DefaultNow
      /\ HeldNow' = Append(SubSeq(HeldNow, 1, Len(operands) - 1), [value |-> cells[slots[p]], place |-> p])
  BY <1>1, <1>2, <1>3, <1>4, Moved
<1>6. Store!Index
  BY <1>1, <1>5, StoreIndex DEF StoreNow, p
<1> QED BY <1>1, <1>5, <1>6, SamePlaces DEF ValuesInv, AsStore, Store!Next

\* A unary operator computes.
LEMMA ApplyStep ==
  ASSUME ValuesInv, NEW op \in UnaryOp, NEW v \in Unary(op, Val), operands # <<>>,
         Yield(cells, Others, v), objects' = objects
  PROVE  ValuesInv' /\ AsStore
<1>1. PointersOK /\ PlacesOK /\ Len(operands) - 1 \in 0 .. Len(operands)
  BY SameTop DEF ValuesInv
<1>2. /\ PointersOK' /\ TopInPlace' /\ slots' = slots
      /\ StoreNow' = StoreNow /\ DefaultNow' = DefaultNow
      /\ HeldNow' = Append(SubSeq(HeldNow, 1, Len(operands) - 1), [value |-> v, place |-> Nowhere])
  BY <1>1, Computed DEF Others
<1>3. Store!Apply(op) /\ op \in Store!UnaryOp
  BY <1>1, <1>2, StoreApply, SameOperators
<1> QED BY <1>1, <1>2, <1>3, SamePlaces DEF ValuesInv, AsStore, Store!Next

\* ++ or --: unless the cell is shared, it is that of the operand's place only.
LEMMA ChangeStep ==
  ASSUME ValuesInv, NEW op \in StepOp, Change(op)
  PROVE  ValuesInv' /\ AsStore
<1>1. PointersOK /\ PlacesOK /\ TopInPlace /\ operands # <<>> /\ objects' = objects
  BY DEF ValuesInv, Change, Computing
<1>2. PICK v \in Stepped(op, Val) : Yield([cells EXCEPT ![Top.cell] = v], Others, v)
  BY DEF Change
<1> DEFINE g == [cells EXCEPT ![Top.cell] = v]
<1>3. /\ Len(operands) - 1 \in 0 .. Len(operands) /\ Len(operands) \in Nat
      /\ Top \in Record /\ Top.cell \in DOMAIN cells
      /\ \A p \in DOMAIN slots : slots[p] \in DOMAIN cells
      /\ \A i \in DOMAIN class : class[i] \in DOMAIN cells
  BY <1>1, SameTop
<1>4. DOMAIN g = DOMAIN cells /\ g[Top.cell] = v /\ \A a \in DOMAIN cells : a # Top.cell => g[a] = cells[a]
  BY <1>3
<1>10. Yield(g, SubSeq(operands, 1, Len(operands) - 1), v)
  BY <1>2 DEF Others
<1> HIDE DEF g
<1>5. /\ PointersOK' /\ TopInPlace' /\ slots' = slots
      /\ StoreNow' = StoreOf(g, slots) /\ DefaultNow' = DefaultOf(g, class)
      /\ HeldNow' = Append(SubSeq(HeldOf(g, operands), 1, Len(operands) - 1), [value |-> v, place |-> Nowhere])
  BY <1>1, <1>3, <1>4, <1>10, Yielded
<1>6. ValuesInv'
  BY <1>1, <1>5, SamePlaces DEF ValuesInv
<1>7. CASE Shared
  BY <1>6, <1>7 DEF Change, AsStore
<1>8. CASE ~Shared
  <2>1. \A p \in DOMAIN slots : p # Top.place => slots[p] # Top.cell
    BY <1>8 DEF Shared
  <2>2. \A p \in DOMAIN slots : p = Top.place => slots[p] = Top.cell
    <3>1. Nowhere \notin DOMAIN slots
      BY <1>1, PlaceAssumption DEF PlacesOK, Place
    <3> QED BY <3>1, <1>1 DEF TopInPlace
  <2>3. StoreNow' = [p \in DOMAIN slots |-> IF p = Top.place THEN v ELSE StoreNow[p]]
    <3>1. \A p \in DOMAIN slots : g[slots[p]] = IF p = Top.place THEN v ELSE cells[slots[p]]
      BY <2>1, <2>2, <1>3, <1>4
    <3> QED BY <3>1, <1>5 DEF StoreOf, StoreNow
  <2>4. DefaultNow' = DefaultNow
    <3>1. \A i \in DOMAIN class : class[i] # Top.cell
      BY <1>8 DEF Shared
    <3>2. \A i \in DOMAIN class : g[class[i]] = cells[class[i]]
      BY <3>1, <1>3, <1>4
    <3> QED BY <3>2, <1>5 DEF DefaultOf, DefaultNow
  <2>5. SubSeq(HeldOf(g, operands), 1, Len(operands) - 1) = SubSeq(HeldNow, 1, Len(operands) - 1)
    <3> DEFINE m == Len(operands) - 1
               f == HeldOf(g, operands)
    <3>1. m \in 0 .. Len(operands) /\ m \in Nat /\ operands \in Seq(Record) /\ \A i \in 1 .. m : i \in 1 .. Len(operands)
      BY <1>1, <1>3 DEF PointersOK
    <3>2. /\ Len(operands) \in Nat
          /\ f = [i \in 1 .. Len(operands) |-> f[i]]
          /\ \A i \in 1 .. Len(operands) : f[i] = Seen(g, operands[i])
      BY <3>1, HeldShape
    <3>3. /\ HeldNow = [i \in 1 .. Len(operands) |-> HeldNow[i]]
          /\ \A i \in 1 .. Len(operands) : HeldNow[i] = Seen(cells, operands[i])
      BY <3>1, HeldShape DEF HeldNow
    <3>4. \A i \in 1 .. m : operands[i].cell # Top.cell
      BY <1>8 DEF Shared
    <3> HIDE DEF m, f
    <3>5. SubSeq(f, 1, m) = [i \in 1 .. m |-> f[i]] /\ SubSeq(HeldNow, 1, m) = [i \in 1 .. m |-> HeldNow[i]]
      BY <3>1, <3>2, <3>3, PrefixFunction
    <3>6. \A i \in 1 .. m : f[i] = HeldNow[i]
      <4> TAKE i \in 1 .. m
      <4>1. operands[i].cell \in DOMAIN cells /\ i \in 1 .. Len(operands)
        BY <3>1, <1>1, SameTop
      <4> QED BY <4>1, <3>2, <3>3, <3>4, <1>4 DEF Seen
    <3> QED BY <3>5, <3>6 DEF m, f
  <2>6. Store!Change(op) /\ op \in Store!StepOp
    BY <1>1, <1>2, <1>5, <2>3, <2>4, <2>5, StoreChange, SameOperators
  <2> QED BY <1>6, <2>6 DEF AsStore, Store!Next
<1> QED BY <1>7, <1>8

\* A binary operator computes or fails.
LEMMA CombineStep ==
  ASSUME ValuesInv, NEW op \in BinaryOp, Combine(op)
  PROVE  ValuesInv' /\ AsStore
<1> DEFINE left == cells[operands[Len(operands) - 1].cell]
<1>1. /\ PointersOK /\ PlacesOK /\ Len(operands) >= 2 /\ ~IsError(left)
      /\ \/ Throw
         \/ /\ \E v \in Binary(op, left, Val) : Yield(cells, SubSeq(operands, 1, Len(operands) - 2), v)
            /\ Quiet
  BY DEF ValuesInv, Combine
<1>2. CASE Throw
  BY <1>2, DropStep DEF Throw
<1>3. CASE (\E v \in Binary(op, left, Val) : Yield(cells, SubSeq(operands, 1, Len(operands) - 2), v)) /\ Quiet
  <2>1. PICK v \in Binary(op, left, Val) : Yield(cells, SubSeq(operands, 1, Len(operands) - 2), v)
    BY <1>3
  <2>2. Len(operands) - 2 \in 0 .. Len(operands) /\ objects' = objects
    BY <1>1, <1>3, SameTop DEF Quiet
  <2>3. /\ PointersOK' /\ TopInPlace' /\ slots' = slots
        /\ StoreNow' = StoreNow /\ DefaultNow' = DefaultNow
        /\ HeldNow' = Append(SubSeq(HeldNow, 1, Len(operands) - 2), [value |-> v, place |-> Nowhere])
    BY <1>1, <2>1, <2>2, Computed
  <2>4. Store!Combine(op) /\ op \in Store!BinaryOp
    BY <1>1, <2>1, <2>3, StoreCombine, SameOperators
  <2> QED BY <1>1, <2>2, <2>3, <2>4, SamePlaces DEF ValuesInv, AsStore, Store!Next
<1> QED BY <1>1, <1>2, <1>3

\* The last operand keeps its place while the condition goes.
LEMMA ChooseStep ==
  ASSUME ValuesInv, Choose
  PROVE  ValuesInv' /\ AsStore
<1>1. /\ PointersOK /\ PlacesOK /\ TopInPlace /\ Len(operands) >= 2 /\ objects' = objects
      /\ Point(cells, slots, class, Append(SubSeq(operands, 1, Len(operands) - 2), Top))
  BY DEF ValuesInv, Choose, Hold, Quiet
<1>2. /\ Len(operands) - 2 \in 0 .. Len(operands) /\ operands # <<>>
      /\ Top \in Record /\ Top.cell \in DOMAIN cells
      /\ \A q \in DOMAIN slots : slots[q] \in DOMAIN cells
  BY <1>1, SameTop
<1>3. Top = Operand(Top.cell, Top.place) /\ Top.place \in Place \cup {Nowhere}
  BY <1>2 DEF Record, Operand
<1>4. Top.place # Nowhere => Top.place \in DOMAIN slots /\ slots[Top.place] = Top.cell
  BY <1>1, <1>2 DEF TopInPlace
<1>5. slots = [q \in DOMAIN slots |-> slots[q]]
  BY <1>1 DEF PointersOK
<1>6. Point(cells, slots, class, Append(SubSeq(operands, 1, Len(operands) - 2), Operand(Top.cell, Top.place)))
  BY <1>1, <1>3
<1>7. /\ PointersOK' /\ TopInPlace' /\ slots' = slots
      /\ StoreNow' = StoreOf(cells, slots) /\ DefaultNow' = DefaultNow
      /\ HeldNow' = Append(SubSeq(HeldNow, 1, Len(operands) - 2), [value |-> cells[Top.cell], place |-> Top.place])
  BY <1>1, <1>2, <1>3, <1>4, <1>5, <1>6, Moved
<1>8. Store!Choose
  BY <1>1, <1>7, StoreChoose DEF Val, StoreNow
<1> QED BY <1>1, <1>7, <1>8, SamePlaces DEF ValuesInv, AsStore, Store!Next

\* The variable gets the cell of the operand, and so its value.
LEMMA AssignStep ==
  ASSUME ValuesInv, NEW x \in Var, Assign(x)
  PROVE  ValuesInv' /\ AsStore
<1> DEFINE s == [slots EXCEPT ![x] = Top.cell]
<1>1. /\ PointersOK /\ PlacesOK /\ operands # <<>> /\ ~IsError(Val) /\ x \in DOMAIN slots /\ objects' = objects
      /\ Point(cells, s, class, Append(SubSeq(operands, 1, Len(operands) - 1), Operand(Top.cell, x)))
  BY DEF ValuesInv, Assign, Computing, Quiet, Others
<1>2. /\ Len(operands) - 1 \in 0 .. Len(operands)
      /\ Top.cell \in DOMAIN cells
      /\ \A q \in DOMAIN slots : slots[q] \in DOMAIN cells
  BY <1>1, SameTop
<1>3. /\ s = [p \in DOMAIN s |-> s[p]] /\ DOMAIN s = DOMAIN slots /\ s[x] = Top.cell
      /\ \A p \in DOMAIN slots : p # x => s[p] = slots[p]
  BY <1>1
<1> HIDE DEF s
<1>4. \A p \in DOMAIN s : s[p] \in DOMAIN cells
  BY <1>2, <1>3
<1>5. x \in Place \cup {Nowhere}
  BY DEF Place
<1>6. /\ PointersOK' /\ TopInPlace' /\ slots' = s
      /\ StoreNow' = StoreOf(cells, s) /\ DefaultNow' = DefaultNow
      /\ HeldNow' = Append(SubSeq(HeldNow, 1, Len(operands) - 1), [value |-> cells[Top.cell], place |-> x])
  BY <1>1, <1>2, <1>3, <1>4, <1>5, Moved
<1>7. StoreNow' = [StoreNow EXCEPT ![x] = Val]
  <2>1. DOMAIN StoreNow = DOMAIN slots /\ \A p \in DOMAIN slots : StoreNow[p] = cells[slots[p]]
    BY DEF StoreNow, StoreOf
  <2>2. StoreNow' = [p \in DOMAIN slots |-> cells[s[p]]]
    BY <1>3, <1>6 DEF StoreOf
  <2>3. cells[s[x]] = Val /\ \A p \in DOMAIN slots : p # x => cells[s[p]] = StoreNow[p]
    BY <1>3, <2>1 DEF Val
  <2>4. \A p \in DOMAIN slots : cells[s[p]] = IF p = x THEN Val ELSE StoreNow[p]
    BY <2>3
  <2>5. StoreNow' = [p \in DOMAIN StoreNow |-> IF p = x THEN Val ELSE StoreNow[p]]
    BY <2>1, <2>2, <2>4
  <2> QED BY <2>5, <2>1
<1>8. Store!Assign(x)
  BY <1>1, <1>6, <1>7, StoreAssign DEF Val
<1>9. PlacesOK'
  BY <1>1, <1>3, <1>6 DEF PlacesOK
<1> QED BY <1>6, <1>8, <1>9 DEF ValuesInv, AsStore, Store!Next

\* An object, whose member shares the cell of the class's, has the same value.
LEMMA NewStep ==
  ASSUME ValuesInv, New
  PROVE  ValuesInv' /\ AsStore
<1>1. PointersOK /\ PlacesOK
  BY DEF ValuesInv
<1>2. CASE Throw
  BY <1>2, DropStep DEF Throw
<1>3. CASE ~Throw
  <2> DEFINE id == objects + 1
             s  == [p \in DOMAIN slots \cup {Member(id)} |-> IF p = Member(id) THEN class[1] ELSE slots[p]]
             h  == With(cells, Object(id))
             x  == Operand(Free, Nowhere)
  <2>1. /\ class # <<>> /\ objects < MaxObject /\ objects' = id
        /\ \E a \in Address : a \notin DOMAIN cells
        /\ Point(h, s, class, Append(operands, x))
    BY <1>3 DEF New
  <2>2. /\ Len(operands) \in 0 .. Len(operands)
        /\ SubSeq(operands, 1, Len(operands)) = operands
        /\ SubSeq(HeldNow, 1, Len(operands)) = HeldNow
        /\ \A q \in DOMAIN slots : slots[q] \in DOMAIN cells
        /\ \A i \in DOMAIN class : class[i] \in DOMAIN cells
    BY <1>1, SameTop
  <2>3. /\ Free \in Address /\ Free \notin DOMAIN cells
        /\ DOMAIN h = DOMAIN cells \cup {Free} /\ h[Free] = Object(id)
        /\ StoreOf(h, slots) = StoreNow /\ HeldOf(h, operands) = HeldNow /\ DefaultOf(h, class) = DefaultNow
    BY <1>1, <2>1, WithKeeps DEF StoreNow, HeldNow, DefaultNow
  <2>4. /\ DOMAIN class = 1 .. Len(class) /\ 1 \in DOMAIN class /\ class[1] \in Address /\ class[1] \in DOMAIN cells
        /\ \A p \in DOMAIN slots : slots[p] \in Address
    BY <1>1, <2>1, <2>2 DEF PointersOK
  <2>5. DefaultNow # <<>> /\ DefaultNow[1] = h[class[1]]
    <3>1. DOMAIN DefaultOf(h, class) = DOMAIN class /\ DefaultOf(h, class)[1] = h[class[1]]
      BY <2>4 DEF DefaultOf
    <3>2. DOMAIN DefaultNow # {} /\ DefaultNow[1] = h[class[1]]
      BY <3>1, <2>3, <2>4
    <3> QED BY <3>2
  <2>6. x \in Record /\ x.cell = Free /\ x.place = Nowhere
    BY <2>3 DEF Record, Operand
  <2>7. Seen(h, x) = [value |-> Object(id), place |-> Nowhere]
    BY <2>3, <2>6 DEF Seen
  <2>8. id \in Nat /\ id \in 1 .. MaxObject /\ Member(id) \notin DOMAIN slots
    <3>1. id \in 1 .. MaxObject /\ id \in Nat /\ ~(id <= objects)
      BY <1>1, <2>1, BoundAssumption DEF PlacesOK
    <3> QED BY <3>1, <1>1 DEF PlacesOK
  <2>9. DOMAIN s = DOMAIN slots \cup {Member(id)} /\ s[Member(id)] = class[1]
        /\ s = [p \in DOMAIN s |-> s[p]]
        /\ \A p \in DOMAIN slots : p # Member(id) => s[p] = slots[p]
    OBVIOUS
  <2> HIDE DEF s, h, x
  <2>10. \A p \in DOMAIN s : s[p] \in Address \cap DOMAIN h
    BY <2>2, <2>3, <2>4, <2>9
  <2>11. Point(h, s, class, Append(SubSeq(operands, 1, Len(operands)), x))
    BY <2>1, <2>2
  <2>12. DOMAIN cells \subseteq DOMAIN h /\ x.cell \in DOMAIN h
    BY <2>3, <2>6
  <2>13. /\ PointersOK' /\ slots' = s /\ operands' # <<>> /\ Top' = x
         /\ StoreNow' = StoreOf(h, s) /\ DefaultNow' = DefaultNow
         /\ HeldNow' = Append(HeldNow, [value |-> Object(id), place |-> Nowhere])
    BY <1>1, <2>2, <2>3, <2>6, <2>7, <2>9, <2>10, <2>11, <2>12, Pushed
  <2>14. StoreNow' = [p \in DOMAIN slots \cup {Member(id)} |->
                        IF p = Member(id) THEN DefaultNow[1] ELSE StoreNow[p]]
    <3>1. \A p \in DOMAIN slots : StoreNow[p] = h[slots[p]]
      BY <2>3 DEF StoreOf
    <3>2. \A p \in DOMAIN s : h[s[p]] = IF p = Member(id) THEN DefaultNow[1] ELSE StoreNow[p]
      BY <3>1, <2>5, <2>9
    <3> QED BY <3>2, <2>9, <2>13 DEF StoreOf
  <2>20. \E k \in 1 .. MaxObject : Store!Create(k)
    <3>1. PICK k \in 1 .. MaxObject : k = id
      BY <2>8
    <3> HIDE DEF id
    <3>2. /\ Member(k) \notin DOMAIN slots
          /\ StoreNow' = [p \in DOMAIN slots \cup {Member(k)} |->
                            IF p = Member(k) THEN DefaultNow[1] ELSE StoreNow[p]]
          /\ HeldNow' = Append(HeldNow, [value |-> Object(k), place |-> Nowhere])
      BY <3>1, <2>8, <2>13, <2>14
    <3>3. Store!Create(k)
      BY <3>2, <2>5, <2>13, StoreCreate
    <3> QED BY <3>3
  <2>21. AsStore
    BY <2>20 DEF AsStore, Store!Next
  <2>16. TopInPlace'
    BY <2>6, <2>13 DEF TopInPlace
  <2>17. PlacesOK'
    <3>1. Member(id) \in Place
      BY <2>8 DEF Member, Place
    <3>2. \A k \in Nat : Member(k) \in DOMAIN s => k <= objects'
      <4> TAKE k \in Nat
      <4>1. CASE Member(k) = Member(id)
        BY <4>1, <2>1, <2>8 DEF Member
      <4>2. CASE Member(k) # Member(id)
        BY <4>2, <2>1, <2>9, <1>1 DEF PlacesOK
      <4> QED BY <4>1, <4>2
    <3>3. \A i \in Nat : Element(i) # Member(id)
      BY DEF Element, Member
    <3>4. \A i \in Nat : Element(i) \in DOMAIN s => Element(0) \in DOMAIN s
      BY <3>3, <2>9, <1>1 DEF PlacesOK
    <3> QED BY <3>1, <3>2, <3>4, <1>1, <2>1, <2>8, <2>9, <2>13 DEF PlacesOK
  <2> QED BY <2>13, <2>21, <2>16, <2>17 DEF ValuesInv
<1> QED BY <1>2, <1>3

\* A new variable shares the cell of the operand.
LEMMA DeclareVarStep ==
  ASSUME ValuesInv, NEW x \in Var, NEW type \in Type, DeclareVar(x, type)
  PROVE  ValuesInv' /\ AsStore
<1>1. PointersOK /\ PlacesOK
  BY DEF ValuesInv
<1>2. CASE Throw
  BY <1>2, DropStep DEF Throw
<1>3. CASE ~Throw
  <2> DEFINE s == [p \in DOMAIN slots \cup {x} |-> IF p = x THEN Top.cell ELSE slots[p]]
  <2>1. /\ Len(operands) = 1 /\ x \notin DOMAIN slots /\ objects' = objects
        /\ Point(cells, s, class, <<>>)
    BY <1>3 DEF DeclareVar
  <2>2. operands # <<>>
    BY <1>1, <2>1, SameTop
  <2>3. /\ Top \in Record /\ Top.cell \in DOMAIN cells
        /\ \A q \in DOMAIN slots : slots[q] \in DOMAIN cells
        /\ \A i \in DOMAIN class : class[i] \in DOMAIN cells
        /\ class \in Seq(Address)
        /\ \A q \in DOMAIN slots : slots[q] \in Address
    BY <1>1, <2>2, SameTop DEF PointersOK
  <2>4. Top.cell \in Address
    BY <2>3 DEF Record
  <2>5. /\ DOMAIN s = DOMAIN slots \cup {x} /\ s[x] = Top.cell
        /\ s = [p \in DOMAIN s |-> s[p]]
        /\ \A p \in DOMAIN slots : s[p] = slots[p]
    BY <2>1
  <2> HIDE DEF s
  <2>6. \A p \in DOMAIN s : s[p] \in Address \cap DOMAIN cells
    BY <2>3, <2>4, <2>5
  <2>7. /\ PointersOK' /\ TopInPlace' /\ slots' = s /\ HeldNow' = <<>>
        /\ StoreNow' = StoreOf(cells, s) /\ DefaultNow' = DefaultOf(cells, class)
    BY <1>1, <2>1, <2>3, <2>5, <2>6, Dropped
  <2>8. StoreNow' = [p \in DOMAIN slots \cup {x} |-> IF p = x THEN Val ELSE StoreNow[p]]
    <3>1. \A p \in DOMAIN slots : StoreNow[p] = cells[slots[p]]
      BY DEF StoreNow, StoreOf
    <3>2. \A p \in DOMAIN s : cells[s[p]] = IF p = x THEN Val ELSE StoreNow[p]
      BY <3>1, <2>1, <2>5 DEF Val
    <3> QED BY <3>2, <2>5, <2>7 DEF StoreOf
  <2>9. Store!Declare(x)
    BY <1>1, <2>1, <2>7, <2>8, StoreDeclare DEF DefaultNow
  <2>10. \A i \in Nat : x # Member(i) /\ x # Element(i)
    <3>1. x \notin {"element", "member"} \X Nat
      BY PlaceAssumption
    <3> QED BY <3>1 DEF Member, Element
  <2>11. x \in Place
    BY DEF Place
  <2>12. PlacesOK'
    BY <1>1, <2>1, <2>5, <2>7, <2>10, <2>11 DEF PlacesOK
  <2> QED BY <2>7, <2>9, <2>12 DEF ValuesInv, AsStore, Store!Next
<1> QED BY <1>2, <1>3

\* The class's member shares the cell of the operand.
LEMMA DeclareClassStep ==
  ASSUME ValuesInv, DeclareClass
  PROVE  ValuesInv' /\ AsStore
<1>1. PointersOK /\ PlacesOK
  BY DEF ValuesInv
<1>2. CASE Throw
  BY <1>2, DropStep DEF Throw
<1>3. CASE ~Throw
  <2>1. /\ Len(operands) = 1 /\ class = <<>> /\ objects' = objects
        /\ Point(cells, slots, <<Top.cell>>, <<>>)
    BY <1>3 DEF DeclareClass, Quiet
  <2>2. operands # <<>>
    BY <1>1, <2>1, SameTop
  <2>3. /\ Top \in Record /\ Top.cell \in DOMAIN cells
        /\ \A q \in DOMAIN slots : slots[q] \in DOMAIN cells
        /\ \A q \in DOMAIN slots : slots[q] \in Address
        /\ slots = [q \in DOMAIN slots |-> slots[q]]
    BY <1>1, <2>2, SameTop DEF PointersOK
  <2>4. Top.cell \in Address
    BY <2>3 DEF Record
  <2> DEFINE c == <<Top.cell>>
  <2>5. c \in Seq(Address) /\ DOMAIN c = {1} /\ c[1] = Top.cell
    BY <2>4
  <2>6. DefaultOf(cells, c) = <<Val>>
    BY DEF DefaultOf, Val
  <2>7. Point(cells, slots, c, <<>>)
    BY <2>1
  <2> HIDE DEF c
  <2>8. \A i \in DOMAIN c : c[i] \in DOMAIN cells
    BY <2>3, <2>5
  <2>9. /\ PointersOK' /\ TopInPlace' /\ slots' = slots /\ HeldNow' = <<>>
        /\ StoreNow' = StoreOf(cells, slots) /\ DefaultNow' = DefaultOf(cells, c)
    BY <1>1, <2>3, <2>5, <2>7, <2>8, Dropped
  <2>10. DefaultNow = <<>>
    BY <2>1 DEF DefaultNow, DefaultOf
  <2>11. Store!DeclareClass
    BY <1>1, <2>1, <2>6, <2>9, <2>10, StoreDeclareClass DEF StoreNow
  <2> QED BY <1>1, <2>1, <2>9, <2>11, SamePlaces DEF ValuesInv, AsStore, Store!Next
<1> QED BY <1>2, <1>3

\* The places of the new array are the numbers of the operands, from 0.
LEMMA ElementsMeet ==
  ASSUME PointersOK
  PROVE  \A p \in Elements :
           /\ p = Element(p[2]) /\ p[2] \in Nat
           /\ p[2] + 1 \in 1 .. Len(operands)
<1>1. DOMAIN operands = 1 .. Len(operands) /\ Len(operands) \in Nat
  BY DEF PointersOK
<1>2. TAKE p \in Elements
<1>3. PICK i \in DOMAIN operands : p = Element(i - 1)
  BY <1>2 DEF Elements
<1>4. p[2] = i - 1 /\ i \in 1 .. Len(operands)
  BY <1>1, <1>3 DEF Element
<1>5. i - 1 \in Nat /\ p[2] + 1 = i
  BY <1>1, <1>4
<1> QED BY <1>3, <1>4, <1>5

\* The elements share the cells of the operands.
LEMMA DefineStep ==
  ASSUME ValuesInv, NEW type, operands # <<>>, Define(type)
  PROVE  ValuesInv' /\ AsStore
<1> DEFINE s == [p \in DOMAIN slots \cup Elements |->
                   IF p \in Elements THEN operands[p[2] + 1].cell ELSE slots[p]]
<1>1. /\ PointersOK /\ PlacesOK
      /\ Element(0) \notin DOMAIN slots /\ objects' = objects
      /\ Point(cells, s, class, <<>>)
  BY DEF ValuesInv, Define
<1>2. /\ Len(operands) \in Nat /\ Len(operands) \in 1 .. Len(operands)
      /\ \A i \in 1 .. Len(operands) : operands[i] \in Record /\ operands[i].cell \in DOMAIN cells
                                       /\ HeldNow[i].value = cells[operands[i].cell]
      /\ \A q \in DOMAIN slots : slots[q] \in DOMAIN cells
      /\ \A i \in DOMAIN class : class[i] \in DOMAIN cells
      /\ class \in Seq(Address)
      /\ \A q \in DOMAIN slots : slots[q] \in Address
  BY <1>1, SameTop DEF PointersOK
<1>3. \A p \in Elements : p = Element(p[2]) /\ p[2] \in Nat /\ p[2] + 1 \in 1 .. Len(operands)
  BY <1>1, ElementsMeet
<1>4. Elements \cap DOMAIN slots = {}
  BY <1>1, <1>3 DEF PlacesOK
<1>5. /\ DOMAIN s = DOMAIN slots \cup Elements
      /\ s = [p \in DOMAIN s |-> s[p]]
      /\ \A p \in DOMAIN slots : s[p] = slots[p]
      /\ \A p \in Elements : s[p] = operands[p[2] + 1].cell
  BY <1>4
<1> HIDE DEF s
<1>6. \A r \in Record : r.cell \in Address
  BY DEF Record
<1>7. \A p \in DOMAIN s : s[p] \in Address \cap DOMAIN cells
  <2> TAKE p \in DOMAIN s
  <2>1. CASE p \in Elements
    BY <2>1, <1>2, <1>3, <1>5, <1>6
  <2>2. CASE p \in DOMAIN slots
    BY <2>2, <1>2, <1>5
  <2> QED BY <2>1, <2>2, <1>5
<1>8. /\ PointersOK' /\ TopInPlace' /\ slots' = s /\ HeldNow' = <<>>
      /\ StoreNow' = StoreOf(cells, s) /\ DefaultNow' = DefaultOf(cells, class)
  BY <1>1, <1>2, <1>5, <1>7, Dropped
<1>9. StoreNow' = [p \in DOMAIN slots \cup Elements |->
                     IF p \in Elements THEN HeldNow[p[2] + 1].value ELSE StoreNow[p]]
  <2>1. \A p \in DOMAIN slots : StoreNow[p] = cells[slots[p]]
    BY DEF StoreNow, StoreOf
  <2>2. \A p \in Elements : cells[s[p]] = HeldNow[p[2] + 1].value
    BY <1>2, <1>3, <1>5
  <2>3. \A p \in DOMAIN s : cells[s[p]] = IF p \in Elements THEN HeldNow[p[2] + 1].value ELSE StoreNow[p]
    BY <2>1, <2>2, <1>5
  <2> QED BY <2>3, <1>5, <1>8 DEF StoreOf
<1>10. Store!DeclareArray
  BY <1>1, <1>4, <1>8, <1>9, StoreDeclareArray DEF DefaultNow
<1>11. PlacesOK'
  <2>1. Element(0) \in Elements
    <3>1. 1 \in DOMAIN operands
      BY <1>1, <1>2 DEF PointersOK
    <3>2. Element(1 - 1) \in Elements
      BY <3>1 DEF Elements
    <3> QED BY <3>2
  <2>2. \A p \in Elements : p \in Place
    BY <1>3 DEF Element, Place
  <2>3. \A id \in Nat : Member(id) \notin Elements
    BY <1>3 DEF Member, Element
  <2> QED BY <2>1, <2>2, <2>3, <1>1, <1>5, <1>8 DEF PlacesOK
<1> QED BY <1>8, <1>10, <1>11 DEF ValuesInv, AsStore, Store!Next

\* The values of an array are of its type, or the statement ends.
LEMMA DeclareArrayStep ==
  ASSUME ValuesInv, NEW type \in Type, DeclareArray(type)
  PROVE  ValuesInv' /\ AsStore
<1>1. CASE Throw
  BY <1>1, DropStep DEF Throw
<1>2. CASE ~Throw
  <2>1. Define(type) /\ Len(operands) \in 1 .. MaxSize
    BY <1>2 DEF DeclareArray
  <2>2. operands # <<>>
    BY <2>1, SameTop, BoundAssumption DEF ValuesInv
  <2> QED BY <2>1, <2>2, DefineStep
<1> QED BY <1>1, <1>2

-----------------------------------------------------------------------------

\* Nothing is there in the beginning.
LEMMA InitValues == Init => ValuesInv /\ Store!Init
<1> SUFFICES ASSUME Init PROVE ValuesInv /\ Store!Init
  OBVIOUS
<1>1. /\ DOMAIN cells = {} /\ DOMAIN slots = {} /\ class = <<>> /\ operands = <<>> /\ objects = 0
      /\ cells = [a \in {} |-> ErrorValue]
      /\ slots = [p \in {} |-> CHOOSE a \in Address : TRUE]
  BY DEF Init
<1>2. DOMAIN class = {} /\ DOMAIN operands = {} /\ operands \in Seq(Record) /\ class \in Seq(Address)
  BY <1>1
<1>3. Held(slots, class, operands) = {}
  BY <1>1, <1>2 DEF Held
<1>4. slots = [p \in DOMAIN slots |-> slots[p]] /\ cells = [a \in DOMAIN cells |-> cells[a]]
  BY <1>1
<1>5. PointersOK
  BY <1>1, <1>2, <1>3, <1>4 DEF PointersOK
<1>6. TopInPlace /\ PlacesOK
  BY <1>1 DEF TopInPlace, PlacesOK
<1>7. Store!Init
  BY <1>1, <1>2 DEF Store!Init
<1> QED BY <1>5, <1>6, <1>7 DEF ValuesInv

\* Every step of an expression is one of ValueStore or changes a shared cell.
LEMMA ExpressionStep ==
  ASSUME ValuesInv, Expression
  PROVE  ValuesInv' /\ AsStore
<1>1. PointersOK
  BY DEF ValuesInv
<1>2. ASSUME NEW v \in Literal, Evaluate(v) PROVE ValuesInv' /\ AsStore
  BY <1>2, ComputeStep DEF Evaluate, Quiet
<1>3. ASSUME NEW x \in Var, ReadVar(x) PROVE ValuesInv' /\ AsStore
  BY <1>3, ReadStep DEF ReadVar, Quiet
<1>4. ASSUME NEW x \in Var, ReadUndefined(x) PROVE ValuesInv' /\ AsStore
  BY <1>4, ComputeStep DEF ReadUndefined
<1>5. ASSUME NEW x \in Var, ReadMember(x) PROVE ValuesInv' /\ AsStore
  BY <1>5, ReadStep DEF ReadMember, Quiet
<1>6. ASSUME NEW x \in Var, NoAccess(x) PROVE ValuesInv' /\ AsStore
  BY <1>6, DropStep DEF NoAccess, Throw
<1>7. ASSUME NEW x \in Var, Assign(x) PROVE ValuesInv' /\ AsStore
  BY <1>7, AssignStep
<1>8. CASE CallInVain
  BY <1>8, ComputeStep DEF CallInVain
<1>9. CASE ReadElement
  BY <1>9, ElementStep
<1>10. CASE NoElement \/ CannotChange \/ CannotAssign
  BY <1>10, DropStep DEF NoElement, CannotChange, CannotAssign, Throw
<1>11. CASE New
  BY <1>11, NewStep
<1>12. CASE Choose
  BY <1>12, ChooseStep
<1>13. ASSUME NEW op \in UnaryOp, Apply(op) PROVE ValuesInv' /\ AsStore
  <2>1. CASE Throw
    BY <2>1, DropStep DEF Throw
  <2>2. CASE ~Throw
    <3>1. operands # <<>> /\ objects' = objects
      BY <1>13, <2>2 DEF Apply, Computing, Quiet
    <3>2. PICK v \in Unary(op, Val) : Yield(cells, Others, v)
      BY <1>13, <2>2 DEF Apply
    <3> QED BY <3>1, <3>2, ApplyStep
  <2> QED BY <2>1, <2>2
<1>14. ASSUME NEW op \in StepOp, Change(op) PROVE ValuesInv' /\ AsStore
  BY <1>14, ChangeStep
<1>15. ASSUME NEW op \in BinaryOp, Combine(op) PROVE ValuesInv' /\ AsStore
  BY <1>15, CombineStep
<1> QED BY <1>2, <1>3, <1>4, <1>5, <1>6, <1>7, <1>8, <1>9, <1>10, <1>11, <1>12, <1>13, <1>14, <1>15
        DEF Expression

\* Every step of a statement is one of ValueStore.
LEMMA StatementStep ==
  ASSUME ValuesInv, Statement
  PROVE  ValuesInv' /\ AsStore
<1>1. CASE EndStatement
  BY <1>1, DropStep DEF EndStatement, Quiet
<1>2. CASE DeclareClass
  BY <1>2, DeclareClassStep
<1>3. ASSUME NEW type \in Type, DeclareArray(type) PROVE ValuesInv' /\ AsStore
  BY <1>3, DeclareArrayStep
<1>4. ASSUME NEW type \in Type, NEW x \in Var, DeclareVar(x, type) PROVE ValuesInv' /\ AsStore
  BY <1>4, DeclareVarStep
<1> QED BY <1>1, <1>2, <1>3, <1>4 DEF Statement

\* Nothing happens in either.
LEMMA IdleStep ==
  ASSUME ValuesInv, UNCHANGED vars
  PROVE  ValuesInv' /\ UNCHANGED Store!vars
<1>1. /\ cells' = cells /\ slots' = slots /\ class' = class /\ operands' = operands
      /\ objects' = objects
  BY DEF vars
<1>2. ValuesInv'
  BY <1>1 DEF ValuesInv, PointersOK, TopInPlace, Top, PlacesOK
<1>3. UNCHANGED Store!vars
  BY <1>1 DEF Store!vars
<1> QED BY <1>2, <1>3

\* Until ++ or -- changes a shared cell, programs compute what they would if every
\* variable, element, member and operand had a value of its own.
THEOREM ComputesAsValues == Spec => RunsAsValues
<1>1. ValuesInv /\ [Next]_vars => ValuesInv' /\ ["shared" \in events' \/ Store!Next]_Store!vars
  <2> SUFFICES ASSUME ValuesInv, [Next]_vars
               PROVE  ValuesInv' /\ ["shared" \in events' \/ Store!Next]_Store!vars
    OBVIOUS
  <2>1. CASE Expression
    BY <2>1, ExpressionStep DEF AsStore
  <2>2. CASE Statement
    BY <2>2, StatementStep DEF AsStore
  <2>3. CASE UNCHANGED vars
    BY <2>3, IdleStep
  <2> QED BY <2>1, <2>2, <2>3 DEF Next, Ended
<1> QED BY <1>1, InitValues, PTL DEF Spec, RunsAsValues

-----------------------------------------------------------------------------
(* What becomes of cells.                                                  *)

\* Moving pointers changes no value.
LEMMA PointCells ==
  ASSUME NEW h, NEW s, NEW c, NEW o, Point(h, s, c, o)
  PROVE  \A a \in DOMAIN cells' : a \in DOMAIN h /\ cells'[a] = h[a]
BY DEF Point

\* A computed value is new.
LEMMA YieldCells ==
  ASSUME NEW g, DOMAIN g = DOMAIN cells, NEW rest, NEW v, Yield(g, rest, v)
  PROVE  /\ \A a \in DOMAIN cells' :
              \/ a \in DOMAIN cells /\ cells'[a] = g[a]
              \/ a \notin DOMAIN cells /\ cells'[a] = v
         /\ slots' = slots
<1>1. /\ \E a \in Address : a \notin DOMAIN cells
      /\ Point(With(g, v), slots, class, Append(rest, Operand(Free, Nowhere)))
  BY DEF Yield
<1>2. Free \in Address /\ Free \notin DOMAIN cells
  BY <1>1 DEF Free
<1>3. \A a \in DOMAIN cells' : a \in DOMAIN With(g, v) /\ cells'[a] = With(g, v)[a]
  BY <1>1, PointCells
<1>4. slots' = slots
  BY <1>1 DEF Point
<1>5. \A a \in DOMAIN With(g, v) :
        \/ a \in DOMAIN cells /\ With(g, v)[a] = g[a]
        \/ a \notin DOMAIN cells /\ With(g, v)[a] = v
  BY <1>2 DEF With
<1> QED BY <1>3, <1>4, <1>5

\* An error that an operator yields was an operand.
LEMMA ErrorsFromErrors ==
  /\ \A op, v : \A r \in Unary(op, v) : IsError(r) => IsError(v)
  /\ \A op, v : \A r \in Stepped(op, v) : r.type = "num" /\ v.type = "num"
  /\ \A op \in BinaryOp : \A l, v : \A r \in Binary(op, l, v) : IsError(r) => IsError(v)
<1>1. \A op, v : \A r \in Unary(op, v) : IsError(r) => IsError(v)
  BY DEF Unary, IsError, Bool
<1>2. \A op, v : \A r \in Stepped(op, v) : r.type = "num" /\ v.type = "num"
  BY DEF Stepped, Num
<1>3. ASSUME NEW op \in BinaryOp, NEW l, NEW v, ~IsError(v), NEW r \in Result(op, l, v)
      PROVE  ~IsError(r)
  <2>1. \A b : ~IsError(Bool(b))
    BY DEF IsError, Bool
  <2>2. \A n : ~IsError(Num(n)) /\ ~IsError(Str(n))
    BY DEF IsError, Num, Str
  <2>3. \A x \in Add(l, v) : ~IsError(x)
    BY <2>2 DEF Add
  <2>4. \A x \in Subtract(l, v) : ~IsError(x)
    BY <2>2 DEF Subtract
  <2>5. \A x \in Less(l, v) : ~IsError(x)
    BY <2>1 DEF Less
  <2>6. \A x \in Equal(l, v, TRUE) \cup Equal(l, v, FALSE) : ~IsError(x)
    BY <2>1 DEF Equal
  <2>7. \A b : \A x \in Logical(l, b) : ~IsError(x)
    BY <2>1 DEF Logical
  <2>8. CASE op = "+"
    BY <2>8, <2>3, <1>3 DEF Result
  <2>9. CASE op = "-"
    BY <2>9, <2>4, <1>3 DEF Result
  <2>10. CASE op = "<"
    BY <2>10, <2>5, <1>3 DEF Result
  <2>11. CASE op = "=="
    BY <2>11, <2>6, <1>3 DEF Result
  <2>12. CASE op = "!="
    BY <2>12, <2>6, <1>3 DEF Result
  <2>13. CASE op = "&&"
    BY <2>13, <2>7, <1>3 DEF Result
  <2>14. CASE op = "||"
    BY <2>14, <2>7, <1>3 DEF Result
  <2> QED BY <2>8, <2>9, <2>10, <2>11, <2>12, <2>13, <2>14 DEF BinaryOp
<1> QED BY <1>1, <1>2, <1>3 DEF Binary

-----------------------------------------------------------------------------
(* What steps keep.                                                        *)

Reported == errors \/ "unreturned" \in events

\* Values keep their types, and a new one is an error only if there was one or
\* it is reported.
KeepsCells ==
  /\ Reported => Reported'
  /\ \A a \in DOMAIN cells' :
       \/ a \in DOMAIN cells /\ cells'[a].type = cells[a].type
       \/ /\ a \notin DOMAIN cells
          /\ IsError(cells'[a]) => Reported' \/ \E b \in DOMAIN cells : IsError(cells[b])

\* Elements of the array stay.
KeepsElements ==
  /\ array' = array
  /\ \A p \in DOMAIN slots' \ Var :
       p[1] = "element" => p \in DOMAIN slots /\ slots'[p] = slots[p]

\* Reports are never taken back.
LEMMA QuietReports ==
  ASSUME errors' = TRUE \/ errors' = errors, events \subseteq events'
  PROVE  Reported => Reported'
BY Zenon DEF Reported

\* Pointers move.
LEMMA HoldKeeps ==
  ASSUME NEW s, NEW c, NEW o, Point(cells, s, c, o), Reported => Reported'
  PROVE  KeepsCells /\ slots' = s
<1>1. \A a \in DOMAIN cells' : a \in DOMAIN cells /\ cells'[a] = cells[a]
  BY PointCells
<1>2. slots' = s
  BY DEF Point
<1> QED BY <1>1, <1>2 DEF KeepsCells

\* A value is computed.
LEMMA YieldKeeps ==
  ASSUME NEW g, DOMAIN g = DOMAIN cells, \A a \in DOMAIN cells : g[a].type = cells[a].type,
         NEW rest, NEW v, Yield(g, rest, v), Reported => Reported',
         IsError(v) => Reported' \/ \E b \in DOMAIN cells : IsError(cells[b])
  PROVE  KeepsCells /\ slots' = slots
<1>1. \A a \in DOMAIN cells' :
        \/ a \in DOMAIN cells /\ cells'[a] = g[a]
        \/ a \notin DOMAIN cells /\ cells'[a] = v
  BY YieldCells
<1>2. slots' = slots
  BY YieldCells
<1>3. ASSUME NEW a \in DOMAIN cells'
      PROVE  \/ a \in DOMAIN cells /\ cells'[a].type = cells[a].type
             \/ /\ a \notin DOMAIN cells
                /\ IsError(cells'[a]) => Reported' \/ \E b \in DOMAIN cells : IsError(cells[b])
  <2>1. CASE a \in DOMAIN cells /\ cells'[a] = g[a]
    BY <2>1
  <2>2. CASE a \notin DOMAIN cells /\ cells'[a] = v
    BY <2>2
  <2> QED BY <2>1, <2>2, <1>1
<1> QED BY <1>2, <1>3 DEF KeepsCells

\* No pointer of a place moves.
LEMMA SameElements ==
  ASSUME slots' = slots, array' = array
  PROVE  KeepsElements
BY DEF KeepsElements

\* The statement ends with an error.
LEMMA ThrowKeeps ==
  ASSUME Throw
  PROVE  KeepsCells /\ KeepsElements
<1>1. Reported'
  BY Zenon DEF Throw, Reported
<1>2. Point(cells, slots, class, <<>>) /\ array' = array
  BY DEF Throw, Hold
<1> QED BY <1>1, <1>2, HoldKeeps, SameElements

\* The pointers of operands move.
LEMMA QuietKeeps ==
  ASSUME NEW o, Hold(o), Quiet
  PROVE  KeepsCells /\ KeepsElements
<1>1. Reported => Reported'
  BY QuietReports DEF Quiet
<1>2. Point(cells, slots, class, o) /\ array' = array
  BY DEF Quiet, Hold
<1> QED BY <1>1, <1>2, HoldKeeps, SameElements

\* An operator yields a value.
LEMMA QuietYieldKeeps ==
  ASSUME NEW rest, NEW v, Yield(cells, rest, v), Quiet,
         IsError(v) => \E b \in DOMAIN cells : IsError(cells[b])
  PROVE  KeepsCells /\ KeepsElements
<1>1. Reported => Reported'
  BY QuietReports DEF Quiet
<1>2. array' = array
  BY DEF Quiet
<1> QED BY <1>1, <1>2, YieldKeeps, SameElements

\* An error value is yielded without an operand that is one.
LEMMA ErrorYieldKeeps ==
  ASSUME NEW rest, NEW v, Yield(cells, rest, v), Reported', array' = array
  PROVE  KeepsCells /\ KeepsElements
BY YieldKeeps, SameElements

\* ++ and -- leave a number a number.
LEMMA ChangeKeeps ==
  ASSUME PointersOK, NEW op, Change(op)
  PROVE  KeepsCells /\ KeepsElements
<1>1. operands # <<>> /\ array' = array /\ errors' = errors /\ events \subseteq events'
  BY DEF Change, Computing
<1>2. PICK v \in Stepped(op, Val) : Yield([cells EXCEPT ![Top.cell] = v], Others, v)
  BY DEF Change
<1> DEFINE g == [cells EXCEPT ![Top.cell] = v]
<1>3. v.type = "num" /\ Val.type = "num" /\ ~IsError(v)
  BY <1>2, ErrorsFromErrors DEF IsError
<1>4. DOMAIN g = DOMAIN cells /\ \A a \in DOMAIN cells : g[a].type = cells[a].type
  BY <1>3 DEF Val
<1>5. Yield(g, Others, v)
  BY <1>2
<1> HIDE DEF g
<1>6. Reported => Reported'
  BY <1>1, QuietReports
<1> QED BY <1>1, <1>3, <1>4, <1>5, <1>6, YieldKeeps, SameElements

\* A new object is no error, and no element moves.
LEMMA NewKeeps ==
  ASSUME PointersOK, New
  PROVE  KeepsCells /\ KeepsElements
<1>1. CASE Throw
  BY <1>1, ThrowKeeps
<1>2. CASE ~Throw
  <2> DEFINE id == objects + 1
             s  == [p \in DOMAIN slots \cup {Member(id)} |-> IF p = Member(id) THEN class[1] ELSE slots[p]]
             h  == With(cells, Object(id))
             o  == Append(operands, Operand(Free, Nowhere))
  <2>1. /\ \E a \in Address : a \notin DOMAIN cells
        /\ Point(h, s, class, o) /\ array' = array /\ errors' = errors /\ events' = events
    BY <1>2 DEF New
  <2>2. \A a \in DOMAIN cells' : a \in DOMAIN h /\ cells'[a] = h[a]
    BY <2>1, PointCells
  <2>3. Free \notin DOMAIN cells
    BY <2>1 DEF Free
  <2>4. \A a \in DOMAIN h :
          \/ a \in DOMAIN cells /\ h[a] = cells[a]
          \/ a \notin DOMAIN cells /\ h[a] = Object(id)
    BY <2>3 DEF With
  <2>5. ~IsError(Object(id))
    BY DEF IsError, Object
  <2>6. Reported => Reported'
    BY <2>1, QuietReports
  <2>7. KeepsCells
    <3> HIDE DEF h, id
    <3> QED BY <2>2, <2>4, <2>5, <2>6 DEF KeepsCells
  <2>8. slots' = s
    BY <2>1 DEF Point
  <2>9. KeepsElements
    BY <2>1, <2>8 DEF KeepsElements, Member
  <2> QED BY <2>7, <2>9
<1> QED BY <1>1, <1>2

\* Expressions keep the types of values and the elements.
LEMMA ExpressionKeeps ==
  ASSUME PointersOK, Expression
  PROVE  KeepsCells /\ KeepsElements
<1>1. ASSUME NEW v \in Literal, Evaluate(v) PROVE KeepsCells /\ KeepsElements
  <2>1. ~IsError(v)
    BY LiteralAssumption DEF IsError
  <2> QED BY <1>1, <2>1, QuietYieldKeeps DEF Evaluate
<1>2. ASSUME NEW x \in Var, ReadVar(x) \/ ReadMember(x) PROVE KeepsCells /\ KeepsElements
  BY <1>2, QuietKeeps DEF ReadVar, ReadMember
<1>3. ASSUME NEW x \in Var, ReadUndefined(x) PROVE KeepsCells /\ KeepsElements
  <2>1. Reported'
    BY <1>3, Zenon DEF ReadUndefined, Reported
  <2> QED BY <1>3, <2>1, ErrorYieldKeeps DEF ReadUndefined
<1>4. CASE CallInVain
  <2>1. Reported'
    <3>1. errors' = TRUE \/ "unreturned" \in events'
      BY <1>4 DEF CallInVain
    <3> QED BY <3>1, Zenon DEF Reported
  <2> QED BY <1>4, <2>1, ErrorYieldKeeps DEF CallInVain
<1>5. ASSUME NEW x \in Var, NoAccess(x) PROVE KeepsCells /\ KeepsElements
  BY <1>5, ThrowKeeps DEF NoAccess
<1>6. CASE NoElement \/ CannotChange \/ CannotAssign
  BY <1>6, ThrowKeeps DEF NoElement, CannotChange, CannotAssign
<1>7. CASE ReadElement \/ Choose
  BY <1>7, QuietKeeps DEF ReadElement, Choose
<1>8. ASSUME NEW x \in Var, Assign(x) PROVE KeepsCells /\ KeepsElements
  <2> DEFINE s == [slots EXCEPT ![x] = Top.cell]
  <2>1. Point(cells, s, class, Append(Others, Operand(Top.cell, x))) /\ Quiet
    BY <1>8 DEF Assign
  <2>2. Reported => Reported'
    BY <2>1, QuietReports DEF Quiet
  <2>3. KeepsCells /\ slots' = s
    BY <2>1, <2>2, HoldKeeps
  <2>4. KeepsElements
    BY <2>1, <2>3 DEF Quiet, KeepsElements
  <2> QED BY <2>3, <2>4
<1>9. CASE New
  BY <1>9, NewKeeps
<1>10. ASSUME NEW op \in UnaryOp, Apply(op) PROVE KeepsCells /\ KeepsElements
  <2>1. CASE Throw
    BY <2>1, ThrowKeeps
  <2>2. CASE ~Throw
    <3>1. PICK v \in Unary(op, Val) : Yield(cells, Others, v) /\ Quiet
      BY <1>10, <2>2 DEF Apply
    <3>2. Top.cell \in DOMAIN cells
      BY <1>10, SameTop DEF Apply, Computing
    <3>3. IsError(v) => \E b \in DOMAIN cells : IsError(cells[b])
      BY <3>1, <3>2, ErrorsFromErrors DEF Val
    <3> QED BY <3>1, <3>3, QuietYieldKeeps
  <2> QED BY <2>1, <2>2
<1>11. ASSUME NEW op \in StepOp, Change(op) PROVE KeepsCells /\ KeepsElements
  BY <1>11, ChangeKeeps
<1>12. ASSUME NEW op \in BinaryOp, Combine(op) PROVE KeepsCells /\ KeepsElements
  <2> DEFINE left == cells[operands[Len(operands) - 1].cell]
  <2>1. CASE Throw
    BY <2>1, ThrowKeeps
  <2>2. CASE ~Throw
    <3>1. PICK v \in Binary(op, left, Val) : Yield(cells, SubSeq(operands, 1, Len(operands) - 2), v) /\ Quiet
      BY <1>12, <2>2 DEF Combine
    <3>2. Len(operands) >= 2
      BY <1>12 DEF Combine
    <3>3. Top.cell \in DOMAIN cells
      BY <3>2, SameTop
    <3>4. IsError(v) => \E b \in DOMAIN cells : IsError(cells[b])
      BY <3>1, <3>3, ErrorsFromErrors DEF Val
    <3> QED BY <3>1, <3>4, QuietYieldKeeps
  <2> QED BY <2>1, <2>2
<1> QED BY <1>1, <1>2, <1>3, <1>4, <1>5, <1>6, <1>7, <1>8, <1>9, <1>10, <1>11, <1>12 DEF Expression

\* An array is defined with values that were compared with its type.
DefinesChecked ==
  \E type \in Type :
    /\ operands # <<>> /\ Define(type)
    /\ \A i \in 1 .. Len(operands) : cells[operands[i].cell].type = type

\* Statements do, but for the definition of the array.
LEMMA StatementKeeps ==
  ASSUME PointersOK, Statement
  PROVE  KeepsCells /\ (KeepsElements \/ DefinesChecked)
<1>1. CASE EndStatement
  BY <1>1, QuietKeeps DEF EndStatement
<1>2. CASE DeclareClass
  <2>1. CASE Throw
    BY <2>1, ThrowKeeps
  <2>2. CASE ~Throw
    <3>1. Point(cells, slots, <<Top.cell>>, <<>>) /\ Quiet
      BY <1>2, <2>2 DEF DeclareClass
    <3>2. (Reported => Reported') /\ array' = array
      BY <3>1, QuietReports DEF Quiet
    <3> QED BY <3>1, <3>2, HoldKeeps, SameElements
  <2> QED BY <2>1, <2>2
<1>3. ASSUME NEW type \in Type, NEW x \in Var, DeclareVar(x, type) PROVE KeepsCells /\ KeepsElements
  <2>1. CASE Throw
    BY <2>1, ThrowKeeps
  <2>2. CASE ~Throw
    <3> DEFINE s == [p \in DOMAIN slots \cup {x} |-> IF p = x THEN Top.cell ELSE slots[p]]
    <3>1. Point(cells, s, class, <<>>) /\ UNCHANGED <<array, objects, errors, events>>
      BY <1>3, <2>2 DEF DeclareVar
    <3>2. Reported => Reported'
      BY <3>1, QuietReports
    <3>3. KeepsCells /\ slots' = s
      BY <3>1, <3>2, HoldKeeps
    <3>4. KeepsElements
      BY <3>1, <3>3 DEF KeepsElements
    <3> QED BY <3>3, <3>4
  <2> QED BY <2>1, <2>2
<1>4. ASSUME NEW type \in Type, DeclareArray(type) PROVE KeepsCells /\ (KeepsElements \/ DefinesChecked)
  <2>1. CASE Throw
    BY <2>1, ThrowKeeps
  <2>2. CASE ~Throw
    <3>1. /\ Define(type) /\ Len(operands) \in 1 .. MaxSize
          /\ \A i \in 1 .. Len(operands) - 1 : Matches(i, type)
          /\ Val.type = type
      BY <1>4, <2>2 DEF DeclareArray
    <3>2. operands # <<>> /\ Len(operands) \in Nat
      BY <3>1, SameTop, BoundAssumption
    <3>3. \A i \in 1 .. Len(operands) : cells[operands[i].cell].type = type
      <4> TAKE i \in 1 .. Len(operands)
      <4>1. CASE i = Len(operands)
        BY <4>1, <3>1 DEF Val, Top
      <4>2. CASE i # Len(operands)
        <5>1. i \in 1 .. Len(operands) - 1
          BY <4>2, <3>2
        <5> QED BY <5>1, <3>1 DEF Matches
      <4> QED BY <4>1, <4>2
    <3>4. DefinesChecked
      BY <3>1, <3>2, <3>3 DEF DefinesChecked
    <3>5. (\E s : Point(cells, s, class, <<>>)) /\ (Reported => Reported')
      BY <3>1, QuietReports DEF Define
    <3> QED BY <3>4, <3>5, HoldKeeps
  <2> QED BY <2>1, <2>2
<1> QED BY <1>1, <1>2, <1>3, <1>4 DEF Statement

\* So does every step.
LEMMA NextKeeps ==
  ASSUME ValuesInv, [Next]_vars
  PROVE  KeepsCells /\ (KeepsElements \/ DefinesChecked)
<1>1. PointersOK
  BY DEF ValuesInv
<1>2. CASE UNCHANGED vars
  <2>1. cells' = cells /\ slots' = slots /\ array' = array /\ errors' = errors /\ events' = events
    BY <1>2 DEF vars
  <2> QED BY <2>1, QuietReports, SameElements DEF KeepsCells
<1>3. CASE Next
  <2>1. CASE Expression
    BY <1>1, <2>1, ExpressionKeeps
  <2>2. CASE Statement
    BY <1>1, <2>2, StatementKeeps
  <2> QED BY <1>2, <1>3, <2>1, <2>2 DEF Next, Ended
<1> QED BY <1>2, <1>3

\* Where an error value is, an error was reported, unless a call ended without
\* return.
THEOREM ErrorsKnown == Spec => []ErrorsReported
<1>1. Init => ErrorsReported
  BY DEF Init, ErrorsReported
<1>2. ValuesInv /\ ErrorsReported /\ [Next]_vars => ErrorsReported'
  <2> SUFFICES ASSUME ValuesInv, ErrorsReported, [Next]_vars
               PROVE  \A a \in DOMAIN cells' : IsError(cells'[a]) => Reported'
    BY Zenon DEF ErrorsReported, Reported
  <2>1. KeepsCells
    BY NextKeeps
  <2>2. \A b \in DOMAIN cells : IsError(cells[b]) => Reported
    BY Zenon DEF ErrorsReported, Reported
  <2>3. ASSUME NEW a \in DOMAIN cells', IsError(cells'[a]) PROVE Reported'
    BY <2>1, <2>2, <2>3 DEF KeepsCells, IsError
  <2> QED BY <2>3
<1>3. ValuesInv /\ [Next]_vars => ValuesInv'
  BY ExpressionStep, StatementStep, IdleStep DEF Next, Ended
<1> QED BY <1>1, <1>2, <1>3, InitValues, PTL DEF Spec

\* Elements keep the type the array was declared with.
THEOREM ElementsKeepType == Spec => []ElementsTyped
<1>1. Init => ElementsTyped
  BY DEF Init, ElementsTyped
<1>2. ValuesInv /\ [Next]_vars => ValuesInv'
  BY ExpressionStep, StatementStep, IdleStep DEF Next, Ended
<1>3. ValuesInv /\ ElementsTyped /\ [Next]_vars => ElementsTyped'
  <2> SUFFICES ASSUME ValuesInv, ElementsTyped, [Next]_vars,
                      NEW p \in DOMAIN slots' \ Var, p[1] = "element"
               PROVE  cells'[slots'[p]].type = array'
    BY DEF ElementsTyped
  <2>1. slots'[p] \in DOMAIN cells'
    BY <1>2 DEF ValuesInv, PointersOK, Held
  <2>2. KeepsCells /\ (KeepsElements \/ DefinesChecked)
    BY NextKeeps
  <2>3. CASE KeepsElements
    <3>1. p \in DOMAIN slots \ Var /\ slots'[p] = slots[p] /\ array' = array
      BY <2>3 DEF KeepsElements
    <3>2. cells[slots[p]].type = array /\ slots[p] \in DOMAIN cells
      BY <3>1 DEF ElementsTyped, ValuesInv, PointersOK, Held
    <3> QED BY <2>1, <2>2, <3>1, <3>2 DEF KeepsCells
  <2>4. CASE DefinesChecked
    <3>1. PICK type \in Type :
            /\ operands # <<>> /\ Define(type)
            /\ \A i \in 1 .. Len(operands) : cells[operands[i].cell].type = type
      BY <2>4 DEF DefinesChecked
    <3>2. slots' = [q \in DOMAIN slots \cup Elements |->
                      IF q \in Elements THEN operands[q[2] + 1].cell ELSE slots[q]]
          /\ array' = type /\ Element(0) \notin DOMAIN slots
      BY <3>1 DEF Define, Point
    <3>3. p \in Elements
      <4>1. CASE p \in DOMAIN slots
        <5>1. p \in {"element", "member"} \X Nat
          BY <4>1 DEF ValuesInv, PlacesOK, Place
        <5>2. p[2] \in Nat /\ p = Element(p[2])
          BY <5>1 DEF Element
        <5> QED BY <4>1, <5>2, <3>2 DEF ValuesInv, PlacesOK
      <4> QED BY <4>1, <3>2
    <3>4. p[2] + 1 \in 1 .. Len(operands)
      BY <3>3, ElementsMeet DEF ValuesInv
    <3> DEFINE i == p[2] + 1
    <3>5. slots'[p] = operands[i].cell
      BY <3>2, <3>3
    <3> HIDE DEF i
    <3>6. cells[operands[i].cell].type = type /\ operands[i].cell \in DOMAIN cells
      BY <3>1, <3>4, SameTop DEF i, ValuesInv
    <3> QED BY <2>1, <2>2, <3>2, <3>5, <3>6 DEF KeepsCells
  <2> QED BY <2>2, <2>3, <2>4
<1> QED BY <1>1, <1>2, <1>3, InitValues, PTL DEF Spec

-----------------------------------------------------------------------------
(* Types.                                                                  *)

\* What TypeOK says beyond ValuesInv.
Typed ==
  /\ array \in Type /\ handles \subseteq Var \cap DOMAIN slots
  /\ Len(class) <= 1
  /\ \A a \in DOMAIN cells : cells[a] \in Value
  /\ errors \in BOOLEAN /\ events \subseteq Event

\* Operators make values of values.
LEMMA OperatorsTyped ==
  /\ \A b : Bool(b) \in Value
  /\ \A n \in Int : Num(n) \in Value /\ Str(n) \in Value /\ Object(n) \in Value
  /\ ErrorValue \in Value
  /\ \A op, v : Unary(op, v) \subseteq Value
  /\ \A op : \A v \in Value : Stepped(op, v) \subseteq Value
  /\ \A op \in BinaryOp : \A l, v \in Value : Binary(op, l, v) \subseteq Value
<1>1. \A b : Bool(b) \in Value
  BY DEF Bool, Value, Type
<1>2. \A n \in Int : Num(n) \in Value /\ Str(n) \in Value /\ Object(n) \in Value
  BY DEF Num, Str, Object, Value, Type
<1>3. ErrorValue \in Value
  BY DEF ErrorValue, Value, Type
<1>4. \A op, v : Unary(op, v) \subseteq Value
  BY <1>1, <1>3 DEF Unary
<1>5. \A v \in Value : v.data \in Int
  BY DEF Value
<1>6. \A op : \A v \in Value : Stepped(op, v) \subseteq Value
  <2> TAKE op
  <2> TAKE v \in Value
  <2>1. v.data + 1 \in Int /\ v.data - 1 \in Int
    BY <1>5
  <2> QED BY <2>1, <1>2 DEF Stepped
<1>7. ASSUME NEW op \in BinaryOp, NEW l \in Value, NEW v \in Value
      PROVE  Binary(op, l, v) \subseteq Value
  <2>1. l.data + v.data \in Int /\ l.data - v.data \in Int
    BY <1>5
  <2>2. Add(l, v) \subseteq Value
    BY <2>1, <1>2 DEF Add
  <2>3. Subtract(l, v) \subseteq Value
    BY <2>1, <1>2 DEF Subtract
  <2>4. Less(l, v) \subseteq Value
    BY <1>1 DEF Less
  <2>5. \A same : Equal(l, v, same) \subseteq Value
    BY <1>1 DEF Equal
  <2>6. \A truth : Logical(l, truth) \subseteq Value
    BY <1>1 DEF Logical
  <2>7. Result(op, l, v) \subseteq Value
    <3>1. CASE op = "+"
      BY <3>1, <2>2 DEF Result
    <3>2. CASE op = "-"
      BY <3>2, <2>3 DEF Result
    <3>3. CASE op = "<"
      BY <3>3, <2>4 DEF Result
    <3>4. CASE op = "=="
      BY <3>4, <2>5 DEF Result
    <3>5. CASE op = "!="
      BY <3>5, <2>5 DEF Result
    <3>6. CASE op = "&&"
      BY <3>6, <2>6 DEF Result
    <3>7. CASE op = "||"
      BY <3>7, <2>6 DEF Result
    <3> QED BY <3>1, <3>2, <3>3, <3>4, <3>5, <3>6, <3>7 DEF BinaryOp
  <2> QED BY <2>7, <1>3 DEF Binary
<1> QED BY <1>1, <1>2, <1>3, <1>4, <1>6, <1>7

\* Pointers move and values keep their types.
LEMMA PointTyped ==
  ASSUME Typed, NEW s, NEW c, NEW o, Point(cells, s, c, o), Len(c) <= 1, array' \in Type,
         handles' \subseteq Var \cap DOMAIN s, errors' \in BOOLEAN, events' \subseteq Event
  PROVE  Typed'
<1>1. \A a \in DOMAIN cells' : a \in DOMAIN cells /\ cells'[a] = cells[a]
  BY PointCells
<1>2. slots' = s /\ class' = c
  BY DEF Point
<1> QED BY <1>1, <1>2 DEF Typed

\* A value is computed.
LEMMA YieldTyped ==
  ASSUME Typed, NEW g, DOMAIN g = DOMAIN cells, \A a \in DOMAIN cells : g[a] \in Value,
         NEW rest, NEW v \in Value, Yield(g, rest, v),
         array' = array, handles' = handles, errors' \in BOOLEAN, events' \subseteq Event
  PROVE  Typed'
<1>1. \A a \in DOMAIN cells' :
        \/ a \in DOMAIN cells /\ cells'[a] = g[a]
        \/ a \notin DOMAIN cells /\ cells'[a] = v
  BY YieldCells
<1>2. slots' = slots /\ class' = class
  BY DEF Yield, Point
<1> QED BY <1>1, <1>2 DEF Typed

\* The pointers of operands move.
LEMMA HoldTyped ==
  ASSUME Typed, NEW o, Hold(o), array' = array, handles' = handles, errors' \in BOOLEAN, events' \subseteq Event
  PROVE  Typed'
BY PointTyped DEF Hold, Typed

\* The statement ends with an error.
LEMMA ThrowTyped ==
  ASSUME Typed, Throw
  PROVE  Typed'
BY HoldTyped DEF Throw, Typed

\* Operands move without a report.
LEMMA QuietTyped ==
  ASSUME Typed, NEW o, Hold(o), Quiet
  PROVE  Typed'
BY HoldTyped DEF Quiet, Typed

\* A value is computed without a report.
LEMMA QuietYieldTyped ==
  ASSUME Typed, NEW rest, NEW v \in Value, Yield(cells, rest, v), Quiet
  PROVE  Typed'
BY YieldTyped DEF Quiet, Typed

\* Expressions keep the types of the state.
LEMMA ExpressionTyped ==
  ASSUME ValuesInv, Typed, Expression
  PROVE  Typed'
<1>1. PointersOK
  BY DEF ValuesInv
<1>2. ASSUME NEW v \in Literal, Evaluate(v) PROVE Typed'
  BY <1>2, LiteralAssumption, QuietYieldTyped DEF Evaluate
<1>3. ASSUME NEW x \in Var, ReadVar(x) \/ ReadMember(x) PROVE Typed'
  BY <1>3, QuietTyped DEF ReadVar, ReadMember
<1>4. ASSUME NEW x \in Var, ReadUndefined(x) PROVE Typed'
  BY <1>4, OperatorsTyped, YieldTyped DEF ReadUndefined, Typed
<1>5. CASE CallInVain
  <2>1. errors' \in BOOLEAN /\ events' \subseteq Event
    BY <1>5 DEF CallInVain, Typed, Event
  <2> QED BY <1>5, <2>1, OperatorsTyped, YieldTyped DEF CallInVain, Typed
<1>6. ASSUME NEW x \in Var, NoAccess(x) PROVE Typed'
  BY <1>6, ThrowTyped DEF NoAccess
<1>7. CASE NoElement \/ CannotChange \/ CannotAssign
  BY <1>7, ThrowTyped DEF NoElement, CannotChange, CannotAssign
<1>8. CASE ReadElement \/ Choose
  BY <1>8, QuietTyped DEF ReadElement, Choose
<1>9. ASSUME NEW x \in Var, Assign(x) PROVE Typed'
  <2> DEFINE s == [slots EXCEPT ![x] = Top.cell]
  <2>1. Point(cells, s, class, Append(Others, Operand(Top.cell, x))) /\ Quiet /\ DOMAIN s = DOMAIN slots
    BY <1>9 DEF Assign
  <2> HIDE DEF s
  <2> QED BY <2>1, PointTyped DEF Quiet, Typed
<1>10. CASE New
  <2>1. CASE Throw
    BY <2>1, ThrowTyped
  <2>2. CASE ~Throw
    <3> DEFINE id == objects + 1
               s  == [p \in DOMAIN slots \cup {Member(id)} |-> IF p = Member(id) THEN class[1] ELSE slots[p]]
               h  == With(cells, Object(id))
               o  == Append(operands, Operand(Free, Nowhere))
    <3>1. /\ \E a \in Address : a \notin DOMAIN cells
          /\ Point(h, s, class, o) /\ array' = array /\ handles' = handles
          /\ errors' = errors /\ events' = events
      BY <1>10, <2>2 DEF New
    <3>2. \A a \in DOMAIN cells' : a \in DOMAIN h /\ cells'[a] = h[a]
      BY <3>1, PointCells
    <3>3. \A a \in DOMAIN h : h[a] \in {cells[b] : b \in DOMAIN cells} \cup {Object(id)}
      BY DEF With
    <3>4. id \in Int
      BY DEF ValuesInv, PlacesOK
    <3>5. Object(id) \in Value
      BY <3>4, OperatorsTyped
    <3>6. slots' = s /\ class' = class /\ DOMAIN slots \subseteq DOMAIN s
      BY <3>1 DEF Point
    <3> HIDE DEF s, h, id
    <3> QED BY <3>1, <3>2, <3>3, <3>5, <3>6 DEF Typed
  <2> QED BY <2>1, <2>2
<1>11. ASSUME NEW op \in UnaryOp, Apply(op) PROVE Typed'
  <2>1. CASE Throw
    BY <2>1, ThrowTyped
  <2>2. CASE ~Throw
    <3>1. PICK v \in Unary(op, Val) : Yield(cells, Others, v) /\ Quiet
      BY <1>11, <2>2 DEF Apply
    <3>2. v \in Value
      BY <3>1, OperatorsTyped
    <3> QED BY <3>1, <3>2, QuietYieldTyped
  <2> QED BY <2>1, <2>2
<1>12. ASSUME NEW op \in StepOp, Change(op) PROVE Typed'
  <2>1. operands # <<>> /\ array' = array /\ handles' = handles /\ errors' = errors /\ events' \subseteq Event
    BY <1>12 DEF Change, Computing, Typed, Event
  <2>2. PICK v \in Stepped(op, Val) : Yield([cells EXCEPT ![Top.cell] = v], Others, v)
    BY <1>12 DEF Change
  <2> DEFINE g == [cells EXCEPT ![Top.cell] = v]
  <2>3. Val \in Value
    BY <1>1, <2>1, SameTop DEF Typed, Val
  <2>4. v \in Value
    BY <2>2, <2>3, OperatorsTyped
  <2>5. DOMAIN g = DOMAIN cells /\ \A a \in DOMAIN cells : g[a] \in Value
    BY <2>4 DEF Typed
  <2>6. Yield(g, Others, v)
    BY <2>2
  <2> HIDE DEF g
  <2> QED BY <2>1, <2>4, <2>5, <2>6, YieldTyped DEF Typed
<1>13. ASSUME NEW op \in BinaryOp, Combine(op) PROVE Typed'
  <2> DEFINE left == cells[operands[Len(operands) - 1].cell]
  <2>1. CASE Throw
    BY <2>1, ThrowTyped
  <2>2. CASE ~Throw
    <3>1. PICK v \in Binary(op, left, Val) : Yield(cells, SubSeq(operands, 1, Len(operands) - 2), v) /\ Quiet
      BY <1>13, <2>2 DEF Combine
    <3>2. Len(operands) - 1 \in 1 .. Len(operands) /\ operands # <<>>
      BY <1>1, <1>13, SameTop DEF Combine
    <3>3. left \in Value /\ Val \in Value
      BY <1>1, <3>2, SameTop DEF Typed, Val
    <3>4. v \in Value
      BY <3>1, <3>3, OperatorsTyped
    <3> QED BY <3>1, <3>4, QuietYieldTyped
  <2> QED BY <2>1, <2>2
<1> QED BY <1>2, <1>3, <1>4, <1>5, <1>6, <1>7, <1>8, <1>9, <1>10, <1>11, <1>12, <1>13 DEF Expression

\* Statements keep the types of the state.
LEMMA StatementTyped ==
  ASSUME ValuesInv, Typed, Statement
  PROVE  Typed'
<1>1. CASE EndStatement
  BY <1>1, QuietTyped DEF EndStatement
<1>2. CASE DeclareClass
  <2>1. CASE Throw
    BY <2>1, ThrowTyped
  <2>2. CASE ~Throw
    <3>1. Point(cells, slots, <<Top.cell>>, <<>>) /\ Quiet
      BY <1>2, <2>2 DEF DeclareClass
    <3>2. Len(<<Top.cell>>) <= 1
      OBVIOUS
    <3> QED BY <3>1, <3>2, PointTyped DEF Quiet, Typed
  <2> QED BY <2>1, <2>2
<1>3. ASSUME NEW type \in Type, NEW x \in Var, DeclareVar(x, type) PROVE Typed'
  <2>1. CASE Throw
    BY <2>1, ThrowTyped
  <2>2. CASE ~Throw
    <3> DEFINE s == [p \in DOMAIN slots \cup {x} |-> IF p = x THEN Top.cell ELSE slots[p]]
    <3>1. /\ Point(cells, s, class, <<>>) /\ UNCHANGED <<array, objects, errors, events>>
          /\ handles' \subseteq handles \cup {x}
      BY <1>3, <2>2 DEF DeclareVar
    <3>2. DOMAIN s = DOMAIN slots \cup {x}
      OBVIOUS
    <3> HIDE DEF s
    <3> QED BY <3>1, <3>2, PointTyped DEF Typed
  <2> QED BY <2>1, <2>2
<1>4. ASSUME NEW type \in Type, DeclareArray(type) PROVE Typed'
  <2>1. CASE Throw
    BY <2>1, ThrowTyped
  <2>2. CASE ~Throw
    <3> DEFINE s == [p \in DOMAIN slots \cup Elements |->
                       IF p \in Elements THEN operands[p[2] + 1].cell ELSE slots[p]]
    <3>1. /\ Point(cells, s, class, <<>>) /\ array' = type /\ UNCHANGED <<handles, errors, events>>
      BY <1>4, <2>2 DEF DeclareArray, Define
    <3>2. DOMAIN slots \subseteq DOMAIN s
      OBVIOUS
    <3> HIDE DEF s
    <3> QED BY <3>1, <3>2, PointTyped DEF Typed
  <2> QED BY <2>1, <2>2
<1> QED BY <1>1, <1>2, <1>3, <1>4 DEF Statement

\* The types of the state: pointers point to values, and no other value is there.
THEOREM ValuesTyped == Spec => []TypeOK
<1>1. Init => Typed
  <2> SUFFICES ASSUME Init PROVE Typed
    OBVIOUS
  <2>1. array \in Type /\ handles = {} /\ DOMAIN cells = {} /\ events = {} /\ errors \in BOOLEAN
    BY DEF Init, Type
  <2>2. Len(class) <= 1
    BY DEF Init
  <2> QED BY <2>1, <2>2 DEF Typed
<1>2. ValuesInv /\ [Next]_vars => ValuesInv'
  BY ExpressionStep, StatementStep, IdleStep DEF Next, Ended
<1>3. ValuesInv /\ Typed /\ [Next]_vars => Typed'
  <2>1. Typed /\ UNCHANGED vars => Typed'
    BY DEF Typed, vars
  <2> QED BY <2>1, ExpressionTyped, StatementTyped DEF Next, Ended
<1>4. ValuesInv /\ Typed => TypeOK
  BY DEF ValuesInv, PointersOK, PlacesOK, Typed, TypeOK, Record
<1> QED BY <1>1, <1>2, <1>3, <1>4, InitValues, PTL DEF Spec
=============================================================================
