----------------------------- MODULE BackendProofs -----------------------------
(***************************************************************************)
(* Proofs about the code generator, for all names, whatever the bounds:    *)
(* without nested functions the code of each function is its own text's,   *)
(* and it uses its own values.                                             *)
(***************************************************************************)
EXTENDS Backend, Integers, SequenceTheorems, WellFoundedInduction, TLAPS

-----------------------------------------------------------------------------
(* The module: its functions and their code.                               *)

Instr(m) == [op : Op, owners : SUBSET DOMAIN m]
FunctionIn(m) == [params : ParamList, defined : BOOLEAN, code : Seq(Instr(m))]

ModuleOK(m) ==
  /\ DOMAIN m \subseteq FuncName \cup {Main} /\ Main \in DOMAIN m
  /\ m \in [DOMAIN m -> FunctionIn(m)]
  /\ \A f \in DOMAIN m : ~m[f].defined => m[f].code = <<>>
  /\ m[Main].defined

ValueIn(m) == [kind : Kind, owner : DOMAIN m]
ScopeIn(m) == [name : DOMAIN m, params : SUBSET ParamName]
CallIn(m)  == [name : FuncName \cap DOMAIN m, base : Nat]

NamesOK(names, m) ==
  /\ DOMAIN names \subseteq ParamName /\ names \in [DOMAIN names -> DOMAIN m]
  /\ \A x \in DOMAIN names : x \in Elements(m[names[x]].params)

LEMMA Typed ==
  TypeOK <=>
    /\ ModuleOK(module) /\ NamesOK(named_values, module)
    /\ insert \in DOMAIN module /\ module[insert].defined
    /\ has_return \in BOOLEAN /\ failed \in BOOLEAN /\ events \subseteq Event
    /\ open \in Seq(ScopeIn(module)) /\ operands \in Seq(ValueIn(module))
    /\ calls \in Seq(CallIn(module)) /\ \A i \in DOMAIN calls : calls[i].base <= Len(operands)
    /\ written \in [DOMAIN module -> Seq(Op)]
BY DEF TypeOK, ModuleOK, FunctionIn, Instr, ValueIn, ScopeIn, CallIn, NamesOK

LEMMA NamesApart ==
  /\ Main \notin FuncName /\ "ret" \notin FuncName /\ "ret_void" \notin FuncName
  /\ "ret" # "ret_void" /\ "ret" \in Op /\ "ret_void" \in Op
  /\ \A f \in FuncName : f \in Op /\ f # Main /\ f # "ret"
BY NameAssumption DEF Op

\* An instruction at the end of a function.
LEMMA EmitModule ==
  ASSUME ModuleOK(module), Target \in DOMAIN module, module[Target].defined, NEW op \in Op,
         NEW used, \A i \in DOMAIN used : used[i].owner \in DOMAIN module, Emit(op, used)
  PROVE  /\ ModuleOK(module') /\ DOMAIN module' = DOMAIN module
         /\ \A f \in DOMAIN module :
              /\ module'[f].params = module[f].params /\ module'[f].defined = module[f].defined
              /\ f # Target => module'[f].code = module[f].code
         /\ module'[Target].code = Append(module[Target].code, Instruction(op, used))
         /\ Instruction(op, used) \in Instr(module)
         /\ module[Target].code \in Seq(Instr(module))
<1> DEFINE F == FunctionIn(module)
           new == Instruction(op, used)
           t == Target
           code == Append(module[t].code, new)
<1>1. module \in [DOMAIN module -> F] /\ t \in DOMAIN module /\ module[t].defined
  BY DEF ModuleOK
<1>2. new \in Instr(module)
  BY DEF Instruction, Instr
<1>3. module[t].code \in Seq(Instr(module))
  BY <1>1 DEF FunctionIn
<1>4. code \in Seq(Instr(module))
  BY <1>2, <1>3, AppendProperties
<1>5. module' = [module EXCEPT ![t] = [module[t] EXCEPT !.code = code]]
  BY <1>1 DEF Emit
<1> HIDE DEF t, new, code
<1>6. [module[t] EXCEPT !.code = code] \in F
  BY <1>1, <1>4 DEF FunctionIn
<1>7. DOMAIN module' = DOMAIN module /\ module' \in [DOMAIN module -> F]
  BY <1>1, <1>5, <1>6
<1>8. /\ module'[t].code = code /\ module'[t].params = module[t].params
      /\ module'[t].defined = module[t].defined
  BY <1>1, <1>5 DEF FunctionIn
<1>9. \A f \in DOMAIN module : f # t => module'[f] = module[f]
  BY <1>5
<1>10. ModuleOK(module')
  <2>1. FunctionIn(module') = F
    BY <1>7 DEF FunctionIn, Instr
  <2> HIDE DEF F
  <2> QED BY <1>1, <1>7, <1>8, <1>9, <2>1 DEF ModuleOK
<1> QED BY <1>2, <1>3, <1>7, <1>8, <1>9, <1>10 DEF t, new, code

\* A function that is declared, and the ones that are there.
LEMMA DeclaredModule ==
  ASSUME ModuleOK(module), NEW f \in FuncName, NEW params \in ParamList
  PROVE  LET m == Declared(f, params)
         IN  /\ ModuleOK(m) /\ DOMAIN m = DOMAIN module \cup {f}
             /\ \A g \in DOMAIN module : m[g] = module[g]
             /\ f \notin DOMAIN module => m[f] = NewFunction(params)
<1> DEFINE m == Declared(f, params)
           D == DOMAIN module \cup {f}
<1>1. CASE f \in DOMAIN module
  BY <1>1 DEF Declared
<1>2. CASE f \notin DOMAIN module
  <2>1. m = [g \in D |-> IF g = f THEN NewFunction(params) ELSE module[g]]
    BY <1>2 DEF Declared
  <2> HIDE DEF m
  <2>2. DOMAIN m = D /\ m[f] = NewFunction(params) /\ \A g \in DOMAIN module : m[g] = module[g]
    BY <1>2, <2>1
  <2>3. Instr(module) \subseteq Instr(m)
    BY <2>2 DEF Instr
  <2>4. Seq(Instr(module)) \subseteq Seq(Instr(m))
    BY <2>3, SeqMonotonic
  <2>5. NewFunction(params) \in FunctionIn(m) /\ NewFunction(params).code = <<>>
    <3>1. <<>> \in Seq(Instr(m))
      BY EmptySeq
    <3> HIDE DEF m
    <3> QED BY <3>1 DEF NewFunction, FunctionIn
  <2>6. \A g \in DOMAIN module : module[g] \in FunctionIn(m)
    BY <2>4 DEF ModuleOK, FunctionIn
  <2>7. m \in [D -> FunctionIn(m)]
    BY <2>1, <2>5, <2>6
  <2>8. Main # f
    BY NamesApart
  <2>9. ModuleOK(m)
    BY <2>2, <2>5, <2>7, <2>8 DEF ModuleOK
  <2> QED BY <1>2, <2>2, <2>9 DEF m
<1> QED BY <1>1, <1>2

\* A larger module: everything that was of the right type still is.
LEMMA Grown ==
  ASSUME ModuleOK(module), NEW m, DOMAIN module \subseteq DOMAIN m
  PROVE  /\ Seq(ScopeIn(module)) \subseteq Seq(ScopeIn(m))
         /\ Seq(ValueIn(module)) \subseteq Seq(ValueIn(m))
         /\ Seq(CallIn(module)) \subseteq Seq(CallIn(m))
<1>1. /\ ScopeIn(module) \subseteq ScopeIn(m) /\ ValueIn(module) \subseteq ValueIn(m)
      /\ CallIn(module) \subseteq CallIn(m)
  BY DEF ScopeIn, ValueIn, CallIn
<1> QED BY <1>1, SeqMonotonic

LEMMA TargetTyped ==
  ASSUME TypeOK
  PROVE  Target \in DOMAIN module /\ module[Target].defined
<1>1. Main \in DOMAIN module /\ module[Main].defined /\ insert \in DOMAIN module
      /\ module[insert].defined
  BY DEF TypeOK
<1> QED BY <1>1 DEF Target

LEMMA Prefix ==
  ASSUME NEW S, NEW s \in Seq(S), NEW k \in 0 .. Len(s)
  PROVE  /\ SubSeq(s, 1, k) \in Seq(S) /\ Len(SubSeq(s, 1, k)) = k
         /\ \A i \in 1 .. k : SubSeq(s, 1, k)[i] = s[i]
<1>1. \A i \in 1 .. k : s[i] \in S /\ 1 + i - 1 = i
  BY ElementOfSeq
<1>2. k \in Int /\ k - 1 + 1 = k /\ Len(s) \in Nat
  OBVIOUS
<1>3. /\ SubSeq(s, 1, k) \in Seq(S) /\ Len(SubSeq(s, 1, k)) = IF 1 <= k THEN k - 1 + 1 ELSE 0
      /\ \A i \in 1 .. k - 1 + 1 : SubSeq(s, 1, k)[i] = s[1 + i - 1]
  BY <1>1, <1>2, SubSeqProperties
<1> QED BY <1>1, <1>2, <1>3

-----------------------------------------------------------------------------
(* Types.                                                                  *)

\* A call within the arguments of another one begins with later operands.
Stacked == \A i, j \in DOMAIN calls : i <= j => calls[i].base <= calls[j].base

BackendTyped == TypeOK /\ Stacked

LEMMA OperandsTyped ==
  ASSUME TypeOK
  PROVE  /\ operands \in Seq(ValueIn(module)) /\ Len(operands) \in Nat
         /\ calls \in Seq(CallIn(module)) /\ Len(calls) \in Nat /\ DOMAIN calls = 1 .. Len(calls)
         /\ \A i \in DOMAIN calls : /\ calls[i].name \in FuncName \cap DOMAIN module
                                  /\ calls[i].base \in Nat /\ calls[i].base <= Len(operands)
<1>1. /\ operands \in Seq(ValueIn(module)) /\ calls \in Seq(CallIn(module))
      /\ \A i \in DOMAIN calls : calls[i].base <= Len(operands)
  BY Typed
<1>2. \A i \in DOMAIN calls : calls[i] \in CallIn(module)
  BY <1>1
<1>3. \A i \in DOMAIN calls : calls[i].name \in FuncName \cap DOMAIN module /\ calls[i].base \in Nat
  BY <1>2 DEF CallIn
<1> QED BY <1>1, <1>3

\* Every call waits for operands from its base on.
LEMMA BaseBelow ==
  ASSUME BackendTyped, NEW n \in Nat, Holds(n)
  PROVE  /\ Len(operands) \in Nat /\ n <= Len(operands)
         /\ \A i \in DOMAIN calls : calls[i].base <= Len(operands) - n /\ calls[i].base \in Nat
<1>1. calls \in Seq(CallIn(module)) /\ \A i \in DOMAIN calls : calls[i].base <= Len(operands)
  BY OperandsTyped DEF BackendTyped
<1>2. Len(operands) \in Nat /\ Len(calls) \in Nat /\ DOMAIN calls = 1 .. Len(calls)
      /\ \A i \in DOMAIN calls : calls[i].base \in Nat
  BY OperandsTyped DEF BackendTyped
<1>3. CASE calls = <<>>
  <2>1. Base = 0 /\ DOMAIN calls = {}
    BY <1>3 DEF Base
  <2> QED BY <1>2, <2>1 DEF Holds
<1>4. CASE calls # <<>>
  <2> DEFINE l == Len(calls)
  <2>1. l \in DOMAIN calls /\ Base = calls[l].base
    BY <1>1, <1>2, <1>4 DEF Base
  <2>2. \A i \in DOMAIN calls : calls[i].base <= calls[l].base
    BY <1>2, <2>1 DEF Stacked, BackendTyped
  <2> HIDE DEF l
  <2> QED BY <1>2, <2>1, <2>2 DEF Holds
<1> QED BY <1>3, <1>4

\* An expression in the place of its operands.
LEMMA ResultTyped ==
  ASSUME BackendTyped, NEW n \in Nat, Holds(n) \/ n = 0, NEW v \in ValueIn(module)
  PROVE  LET new == Append(Below(n), v)
         IN  /\ new \in Seq(ValueIn(module)) /\ Len(new) = Len(operands) - n + 1
             /\ \A i \in DOMAIN calls : calls[i].base <= Len(new)
             /\ \A i \in 1 .. Len(operands) - n : new[i] = operands[i]
             /\ new[Len(operands) - n + 1] = v
<1>1. /\ operands \in Seq(ValueIn(module)) /\ Len(operands) \in Nat /\ n <= Len(operands)
      /\ calls \in Seq(CallIn(module))
      /\ \A i \in DOMAIN calls : calls[i].base <= Len(operands) - n /\ calls[i].base \in Nat
  <2>1. /\ operands \in Seq(ValueIn(module)) /\ calls \in Seq(CallIn(module))
        /\ \A i \in DOMAIN calls : calls[i].base <= Len(operands) /\ calls[i].base \in Nat
    BY OperandsTyped DEF BackendTyped
  <2>2. CASE n = 0
    BY <2>1, <2>2
  <2>3. CASE Holds(n)
    BY <2>1, <2>3, BaseBelow
  <2> QED BY <2>2, <2>3
<1> DEFINE k == Len(operands) - n
<1>2. k \in 0 .. Len(operands) /\ k \in Nat
  BY <1>1
<1> HIDE DEF k
<1>3. /\ SubSeq(operands, 1, k) \in Seq(ValueIn(module)) /\ Len(SubSeq(operands, 1, k)) = k
      /\ \A i \in 1 .. k : SubSeq(operands, 1, k)[i] = operands[i]
  BY <1>1, <1>2, Prefix
<1> DEFINE new == Append(SubSeq(operands, 1, k), v)
<1>4. /\ new \in Seq(ValueIn(module)) /\ Len(new) = k + 1 /\ new[k + 1] = v
      /\ \A i \in 1 .. k : new[i] = SubSeq(operands, 1, k)[i]
  BY <1>3, AppendProperties
<1> HIDE DEF new
<1>5. \A i \in DOMAIN calls : calls[i].base <= Len(new)
  BY <1>1, <1>2, <1>4 DEF k
<1>6. \A i \in 1 .. k : new[i] = operands[i]
  BY <1>3, <1>4
<1> QED BY <1>4, <1>5, <1>6 DEF new, k, Below

LEMMA ThrowTyped ==
  ASSUME BackendTyped, Throw
  PROVE  BackendTyped'
<1>1. <<>> \in Seq(ScopeIn(module)) /\ <<>> \in Seq(ValueIn(module)) /\ <<>> \in Seq(CallIn(module))
  BY EmptySeq
<1>2. /\ open' = <<>> /\ operands' = <<>> /\ calls' = <<>> /\ failed' = TRUE
      /\ module' = module /\ insert' = insert /\ named_values' = named_values
      /\ has_return' = has_return /\ written' = written /\ events' = events
  BY DEF Throw
<1>3. DOMAIN calls' = {}
  BY <1>2
<1>4. TypeOK
  BY DEF BackendTyped
<1>5. TypeOK'
  BY <1>1, <1>2, <1>3, <1>4, Typed DEF TypeOK, ModuleOK, FunctionIn, Instr, ValueIn, ScopeIn, CallIn
<1> QED BY <1>3, <1>5 DEF BackendTyped, Stacked

LEMMA ResultsTyped ==
  ASSUME BackendTyped, NEW n \in Nat, Holds(n) \/ n = 0, NEW kinds \in SUBSET Kind, Results(n, kinds)
  PROVE  BackendTyped'
<1>1. PICK kind \in kinds : operands' = Append(Below(n), Value(kind))
  BY DEF Results
<1>2. TypeOK /\ Stacked
  BY DEF BackendTyped
<1>3. Value(kind) \in ValueIn(module)
  BY <1>2, TargetTyped DEF Value, ValueIn
<1>4. /\ operands' \in Seq(ValueIn(module))
      /\ \A i \in DOMAIN calls : calls[i].base <= Len(operands')
  BY <1>1, <1>3, ResultTyped
<1>5. /\ module' = module /\ insert' = insert /\ named_values' = named_values /\ open' = open
      /\ calls' = calls /\ failed' = failed /\ has_return' = has_return /\ written' = written
      /\ events' = events
  BY DEF Results
<1>6. TypeOK'
  BY <1>2, <1>4, <1>5 DEF TypeOK, ValueIn
<1> QED BY <1>2, <1>5, <1>6 DEF BackendTyped, Stacked

LEMMA TypedNext ==
  TypeOK' <=>
    /\ ModuleOK(module') /\ NamesOK(named_values', module')
    /\ insert' \in DOMAIN module' /\ module'[insert'].defined
    /\ has_return' \in BOOLEAN /\ failed' \in BOOLEAN /\ events' \subseteq Event
    /\ open' \in Seq(ScopeIn(module')) /\ operands' \in Seq(ValueIn(module'))
    /\ calls' \in Seq(CallIn(module'))
    /\ \A i \in DOMAIN calls' : calls'[i].base <= Len(operands')
    /\ written' \in [DOMAIN module' -> Seq(Op)]
BY DEF TypeOK, ModuleOK, FunctionIn, Instr, ValueIn, ScopeIn, CallIn, NamesOK

LEMMA IdentifierTyped ==
  ASSUME BackendTyped, NEW x \in ParamName, Identifier(x)
  PROVE  BackendTyped'
<1>1. CASE Throw
  BY <1>1, ThrowTyped
<1>2. CASE ~Throw
  <2> DEFINE v == [kind |-> "other", owner |-> named_values[x]]
  <2>1. /\ x \in DOMAIN named_values /\ operands' = Append(operands, v)
        /\ module' = module /\ insert' = insert /\ named_values' = named_values /\ open' = open
        /\ calls' = calls /\ failed' = failed /\ has_return' = has_return /\ written' = written
        /\ events' \subseteq events \cup {"stray"}
    BY <1>2 DEF Identifier
  <2>2. v \in ValueIn(module)
    BY <2>1, Typed DEF BackendTyped, NamesOK, ValueIn, Kind
  <2> HIDE DEF v
  <2>3. operands \in Seq(ValueIn(module)) /\ Len(operands) \in Nat
        /\ \A i \in DOMAIN calls : calls[i].base \in Nat /\ calls[i].base <= Len(operands)
    BY OperandsTyped DEF BackendTyped
  <2>4. operands' \in Seq(ValueIn(module)) /\ Len(operands') = Len(operands) + 1
    BY <2>1, <2>2, <2>3, AppendProperties
  <2>5. \A i \in DOMAIN calls' : calls'[i].base <= Len(operands')
    BY <2>1, <2>3, <2>4
  <2>6. events' \subseteq Event
    BY <2>1, Typed DEF BackendTyped, Event
  <2>7. TypeOK'
    BY <2>1, <2>4, <2>5, <2>6, Typed, TypedNext DEF BackendTyped
  <2> QED BY <2>1, <2>7 DEF BackendTyped, Stacked
<1> QED BY <1>1, <1>2

LEMMA OperatorsTyped ==
  ASSUME BackendTyped,
         Constant \/ (\E op \in UnaryOp : Unary(op)) \/ (\E op \in BinaryOp : Binary(op))
  PROVE  BackendTyped'
<1>1. CASE Throw
  BY <1>1, ThrowTyped
<1>2. CASE Constant
  BY <1>2, ResultsTyped DEF Constant
<1>3. ASSUME NEW op \in UnaryOp, Unary(op), ~Throw
      PROVE  BackendTyped'
  <2> DEFINE kinds == UnaryKind(op, Top.kind)
  <2>1. kinds \subseteq Kind
    BY DEF UnaryKind, Kind
  <2>2. Holds(1) /\ Results(1, kinds)
    BY <1>3 DEF Unary
  <2> HIDE DEF kinds
  <2> QED BY <2>1, <2>2, ResultsTyped
<1>4. ASSUME NEW op \in BinaryOp, Binary(op), ~Throw
      PROVE  BackendTyped'
  <2> DEFINE left == operands[Len(operands) - 1].kind
             kinds == IF left = Top.kind THEN BinaryKind(op, left) ELSE {}
  <2>1. kinds \subseteq Kind
    BY DEF BinaryKind, Kind
  <2>2. Holds(2) /\ Results(2, kinds)
    BY <1>4 DEF Binary
  <2> HIDE DEF kinds
  <2> QED BY <2>1, <2>2, ResultsTyped
<1> QED BY <1>1, <1>2, <1>3, <1>4

LEMMA BeginCallTyped ==
  ASSUME BackendTyped, NEW f \in FuncName, NEW n \in Nat, BeginCall(f, n)
  PROVE  BackendTyped'
<1>1. CASE Throw
  BY <1>1, ThrowTyped
<1>2. CASE ~Throw
  <2> DEFINE call == [name |-> f, base |-> Len(operands)]
             l == Len(calls)
  <2>1. /\ f \in DOMAIN module /\ calls' = Append(calls, call)
        /\ module' = module /\ insert' = insert /\ named_values' = named_values /\ open' = open
        /\ operands' = operands /\ failed' = failed /\ has_return' = has_return
        /\ written' = written /\ events' = events
    BY <1>2 DEF BeginCall, Fits
  <2>2. calls \in Seq(CallIn(module)) /\ Len(operands) \in Nat /\ l \in Nat /\ DOMAIN calls = 1 .. l
        /\ \A i \in 1 .. l : calls[i].base \in Nat /\ calls[i].base <= Len(operands)
    BY OperandsTyped DEF BackendTyped
  <2>3. call \in CallIn(module) /\ call.base = Len(operands)
    BY <2>1, <2>2 DEF CallIn
  <2> HIDE DEF call
  <2>4. calls' \in Seq(CallIn(module)) /\ Len(calls') = l + 1 /\ calls'[l + 1] = call
        /\ \A i \in 1 .. l : calls'[i] = calls[i]
    BY <2>1, <2>2, <2>3, AppendProperties
  <2> HIDE DEF l
  <2>5. DOMAIN calls' = 1 .. l + 1
    BY <2>4
  <2>6. \A i \in DOMAIN calls' : calls'[i].base <= Len(operands')
    BY <2>1, <2>2, <2>3, <2>4, <2>5
  <2>7. Stacked'
    <3>1. \A i, j \in 1 .. l : i <= j => calls[i].base <= calls[j].base
      BY <2>2 DEF BackendTyped, Stacked
    <3> QED BY <2>2, <2>3, <2>4, <2>5, <3>1 DEF Stacked
  <2>8. TypeOK'
    BY <2>1, <2>4, <2>6, Typed, TypedNext DEF BackendTyped
  <2> QED BY <2>7, <2>8 DEF BackendTyped
<1> QED BY <1>1, <1>2

LEMMA Largest ==
  ASSUME NEW n \in Nat, NEW T, T \subseteq 1 .. n, T # {}
  PROVE  \E k \in T : \A j \in T : j <= k
<1> DEFINE D == {n - k : k \in T}
<1>1. D \subseteq Nat /\ D # {}
  <2>1. \A k \in T : n - k \in Nat
    OBVIOUS
  <2> QED BY <2>1
<1>2. PICK d \in D : \A e \in D : ~(<<e, d>> \in OpToRel(<, Nat))
  <2> HIDE DEF D
  <2> QED BY <1>1, NatLessThanWellFounded, WFMin
<1>3. \A e \in D : ~(e < d)
  BY <1>1, <1>2 DEF OpToRel
<1>4. PICK k \in T : d = n - k
  OBVIOUS
<1>5. \A j \in T : ~(n - j < n - k)
  BY <1>3, <1>4
<1> QED BY <1>5

\* The scopes around, and the innermost of them that is a function.
LEMMA OpenTyped ==
  ASSUME TypeOK
  PROVE  /\ open \in Seq(ScopeIn(module)) /\ Len(open) \in Nat /\ DOMAIN open = 1 .. Len(open)
         /\ \A i \in DOMAIN open : /\ open[i].name \in DOMAIN module
                                   /\ open[i].params \subseteq ParamName
<1>1. open \in Seq(ScopeIn(module))
  BY Typed
<1>2. \A i \in DOMAIN open : open[i] \in ScopeIn(module)
  BY <1>1, ElementOfSeq
<1>3. \A i \in DOMAIN open : open[i].name \in DOMAIN module /\ open[i].params \subseteq ParamName
  BY <1>2 DEF ScopeIn
<1> QED BY <1>1, <1>3

LEMMA AroundFound ==
  ASSUME TypeOK
  PROVE  \/ /\ Around = Main /\ \A i \in DOMAIN open : open[i].name = Main
         \/ \E k \in DOMAIN open :
              /\ Around = open[k].name /\ open[k].name # Main
              /\ \A j \in DOMAIN open : j > k => open[j].name = Main
<1>1. Len(open) \in Nat /\ DOMAIN open = 1 .. Len(open)
  BY OpenTyped
<1>2. CASE FunctionsAround = {}
  BY <1>2 DEF Around, FunctionsAround
<1>3. CASE FunctionsAround # {}
  <2> DEFINE k == CHOOSE i \in FunctionsAround : \A j \in FunctionsAround : j <= i
  <2>1. FunctionsAround \subseteq 1 .. Len(open)
    BY <1>1 DEF FunctionsAround
  <2>2. \E i \in FunctionsAround : \A j \in FunctionsAround : j <= i
    BY <1>1, <1>3, <2>1, Largest
  <2>3. k \in FunctionsAround /\ \A j \in FunctionsAround : j <= k
    BY <2>2
  <2>4. Around = open[k].name
    BY <1>3 DEF Around
  <2> HIDE DEF k
  <2>5. k \in DOMAIN open /\ open[k].name # Main
    BY <2>3 DEF FunctionsAround
  <2>6. \A j \in DOMAIN open : j > k => open[j].name = Main
    BY <1>1, <2>3, <2>5 DEF FunctionsAround
  <2> QED BY <2>4, <2>5, <2>6
<1> QED BY <1>2, <1>3

LEMMA AroundTyped ==
  ASSUME TypeOK
  PROVE  Around \in DOMAIN module
<1>1. Main \in DOMAIN module
  BY Typed DEF ModuleOK
<1> QED BY <1>1, AroundFound, OpenTyped

LEMMA WrittenTyped ==
  ASSUME TypeOK, NEW f \in DOMAIN module, NEW op \in Op, Written(f, op)
  PROVE  /\ written' \in [DOMAIN module -> Seq(Op)]
         /\ written[f] \in Seq(Op) /\ written'[f] = Append(written[f], op)
         /\ \A g \in DOMAIN module : g # f => written'[g] = written[g]
<1>1. written \in [DOMAIN module -> Seq(Op)]
  BY Typed
<1>2. written[f] \in Seq(Op)
  BY <1>1
<1>3. Append(written[f], op) \in Seq(Op)
  BY <1>2, AppendProperties
<1>4. written' = [written EXCEPT ![f] = Append(written[f], op)]
  BY DEF Written
<1> QED BY <1>1, <1>2, <1>3, <1>4

\* The functions of the module keep the names of their arguments.
LEMMA NamesKept ==
  ASSUME NamesOK(named_values, module), NEW m, DOMAIN module \subseteq DOMAIN m,
         \A f \in DOMAIN module : m[f].params = module[f].params
  PROVE  NamesOK(named_values, m)
BY DEF NamesOK

LEMMA ParamsTyped ==
  ASSUME ModuleOK(module), NEW f \in DOMAIN module
  PROVE  /\ module[f].params \in ParamList /\ Len(module[f].params) \in Nat
         /\ Elements(module[f].params) \subseteq ParamName
         /\ module[f].code \in Seq(Instr(module)) /\ module[f].defined \in BOOLEAN
<1>1. module[f] \in FunctionIn(module)
  BY DEF ModuleOK
<1>2. /\ module[f].params \in ParamList /\ module[f].code \in Seq(Instr(module))
      /\ module[f].defined \in BOOLEAN
  BY <1>1 DEF FunctionIn
<1>3. \A p \in ParamList : Len(p) \in Nat /\ Elements(p) \subseteq ParamName
  BY DEF ParamList, Elements
<1> QED BY <1>2, <1>3

LEMMA OwnersTyped ==
  ASSUME TypeOK
  PROVE  \A i \in DOMAIN operands : operands[i].owner \in DOMAIN module
<1>1. \A i \in DOMAIN operands : operands[i] \in ValueIn(module)
  BY OperandsTyped, ElementOfSeq
<1> QED BY <1>1 DEF ValueIn

LEMMA Suffix ==
  ASSUME NEW S, NEW s \in Seq(S), NEW k \in 1 .. Len(s) + 1
  PROVE  \A i \in DOMAIN SubSeq(s, k, Len(s)) :
           \E j \in DOMAIN s : SubSeq(s, k, Len(s))[i] = s[j]
<1> DEFINE n == Len(s)
           t == SubSeq(s, k, n)
<1>1. n \in Nat /\ DOMAIN s = 1 .. n /\ k \in Int /\ \A i \in k .. n : s[i] \in S
  BY ElementOfSeq
<1> HIDE DEF n
<1>2. /\ t \in Seq(S) /\ Len(t) = IF k <= n THEN n - k + 1 ELSE 0
      /\ \A i \in 1 .. n - k + 1 : t[i] = s[k + i - 1]
  BY <1>1, SubSeqProperties
<1> HIDE DEF t
<1>3. Len(t) = n - k + 1 /\ DOMAIN t = 1 .. Len(t)
  BY <1>1, <1>2 DEF n
<1>4. \A i \in DOMAIN t : \E j \in DOMAIN s : t[i] = s[j]
  <2> TAKE i \in DOMAIN t
  <2>1. PICK j \in 1 .. n : j = k + i - 1
    BY <1>1, <1>3
  <2>2. t[i] = s[j]
    BY <1>2, <1>3, <2>1
  <2> QED BY <1>1, <2>1, <2>2
<1> QED BY <1>4 DEF t, n

\* The arguments of a call are the last operands.
LEMMA UsedTyped ==
  ASSUME TypeOK, NEW base \in Nat, base <= Len(operands)
  PROVE  LET used == SubSeq(operands, base + 1, Len(operands))
         IN  /\ \A i \in DOMAIN used : used[i].owner \in DOMAIN module
             /\ \A i \in DOMAIN used : \E j \in DOMAIN operands : used[i] = operands[j]
<1> DEFINE used == SubSeq(operands, base + 1, Len(operands))
<1>1. operands \in Seq(ValueIn(module)) /\ base + 1 \in 1 .. Len(operands) + 1
  BY OperandsTyped
<1>2. \A i \in DOMAIN used : \E j \in DOMAIN operands : used[i] = operands[j]
  BY <1>1, Suffix
<1> HIDE DEF used
<1> QED BY <1>2, OwnersTyped DEF used

LEMMA EndCallTyped ==
  ASSUME BackendTyped, EndCall
  PROVE  BackendTyped'
<1> DEFINE l == Len(calls)
           call == calls[l]
           n == Len(module[call.name].params)
           used == SubSeq(operands, call.base + 1, Len(operands))
           v == Value("other")
<1>1. /\ TypeOK /\ ModuleOK(module) /\ l \in Nat /\ DOMAIN calls = 1 .. l /\ l \in DOMAIN calls
      /\ operands \in Seq(ValueIn(module)) /\ Len(operands) \in Nat
      /\ calls \in Seq(CallIn(module))
  BY OperandsTyped, Typed DEF BackendTyped, EndCall
<1>2. call.name \in FuncName \cap DOMAIN module /\ call.base \in Nat /\ call.base <= Len(operands)
  BY <1>1, OperandsTyped
<1>3. n \in Nat /\ call.name \in Op
  BY <1>1, <1>2, ParamsTyped, NamesApart
<1>4. /\ Len(operands) = call.base + n /\ Emit(call.name, used)
      /\ operands' = Append(Below(n), v) /\ Written(Around, call.name)
      /\ calls' = SubSeq(calls, 1, l - 1)
      /\ insert' = insert /\ named_values' = named_values /\ has_return' = has_return
      /\ open' = open /\ failed' = failed /\ events' = events
  BY DEF EndCall
<1>5. Base = call.base
  BY DEF Base, EndCall
<1>6. v \in ValueIn(module)
  BY <1>1, TargetTyped DEF Value, ValueIn, Kind
<1>7. \A i \in DOMAIN used : used[i].owner \in DOMAIN module
  BY <1>1, <1>2, UsedTyped
<1> HIDE DEF call, n, used, v
<1>8. /\ ModuleOK(module') /\ DOMAIN module' = DOMAIN module
      /\ \A f \in DOMAIN module :
           module'[f].params = module[f].params /\ module'[f].defined = module[f].defined
  <2>1. Target \in DOMAIN module /\ module[Target].defined
    BY <1>1, TargetTyped
  <2> QED BY <1>1, <1>3, <1>4, <1>7, <2>1, EmitModule
<1>9. Holds(n)
  BY <1>2, <1>3, <1>4, <1>5 DEF Holds
<1>10. /\ operands' \in Seq(ValueIn(module))
       /\ \A i \in DOMAIN calls : calls[i].base <= Len(operands')
  BY <1>3, <1>4, <1>6, <1>9, ResultTyped
<1>11. /\ calls' \in Seq(CallIn(module)) /\ DOMAIN calls' = 1 .. l - 1
       /\ \A i \in 1 .. l - 1 : calls'[i] = calls[i] /\ i \in DOMAIN calls
  <2>1. l - 1 \in 0 .. Len(calls)
    BY <1>1
  <2>2. /\ calls' \in Seq(CallIn(module)) /\ Len(calls') = l - 1
        /\ \A i \in 1 .. l - 1 : calls'[i] = calls[i]
    BY <1>1, <1>4, <2>1, Prefix
  <2> QED BY <1>1, <2>2
<1>12. /\ operands' \in Seq(ValueIn(module')) /\ calls' \in Seq(CallIn(module'))
       /\ open' \in Seq(ScopeIn(module'))
  BY <1>1, <1>4, <1>8, <1>10, <1>11, Grown, OpenTyped
<1>13. NamesOK(named_values', module')
  BY <1>1, <1>4, <1>8, NamesKept, Typed
<1>14. written' \in [DOMAIN module' -> Seq(Op)]
  BY <1>1, <1>3, <1>4, <1>8, WrittenTyped, AroundTyped
<1>15. \A i \in DOMAIN calls' : calls'[i].base <= Len(operands')
  BY <1>10, <1>11
<1>16. TypeOK'
  BY <1>1, <1>4, <1>8, <1>12, <1>13, <1>14, <1>15, Typed, TypedNext
<1>17. Stacked'
  BY <1>11 DEF Stacked, BackendTyped
<1> QED BY <1>16, <1>17 DEF BackendTyped

LEMMA ReturnTyped ==
  ASSUME BackendTyped, ReturnStmt
  PROVE  BackendTyped'
<1>1. /\ TypeOK /\ ModuleOK(module) /\ operands \in Seq(ValueIn(module))
  BY OperandsTyped, Typed DEF BackendTyped
<1>2. /\ calls = <<>> /\ calls' = <<>> /\ Emit("ret", operands) /\ operands' = <<>>
      /\ has_return' = TRUE /\ Written(Around, "ret")
      /\ insert' = insert /\ named_values' = named_values /\ open' = open /\ failed' = failed
      /\ events' = events
  BY DEF ReturnStmt, Computed
<1>3. \A i \in DOMAIN operands : operands[i].owner \in DOMAIN module
  BY <1>1, OwnersTyped
<1>4. "ret" \in Op /\ Target \in DOMAIN module /\ module[Target].defined
  BY <1>1, NamesApart, TargetTyped
<1>5. /\ ModuleOK(module') /\ DOMAIN module' = DOMAIN module
      /\ \A f \in DOMAIN module :
           module'[f].params = module[f].params /\ module'[f].defined = module[f].defined
  BY <1>1, <1>2, <1>3, <1>4, EmitModule
<1>6. /\ operands' \in Seq(ValueIn(module')) /\ calls' \in Seq(CallIn(module'))
      /\ open' \in Seq(ScopeIn(module'))
  BY <1>1, <1>2, <1>5, Grown, OpenTyped, EmptySeq
<1>7. NamesOK(named_values', module')
  BY <1>1, <1>2, <1>5, NamesKept, Typed
<1>8. written' \in [DOMAIN module' -> Seq(Op)]
  BY <1>1, <1>2, <1>4, <1>5, WrittenTyped, AroundTyped
<1>9. DOMAIN calls' = {}
  BY <1>2
<1>10. TypeOK'
  BY <1>1, <1>2, <1>5, <1>6, <1>7, <1>8, <1>9, Typed, TypedNext
<1> QED BY <1>9, <1>10 DEF BackendTyped, Stacked

LEMMA BlocksTyped ==
  ASSUME BackendTyped, ExprStmt \/ BeginBlock \/ EndBlock
  PROVE  BackendTyped'
<1>1. /\ TypeOK /\ ModuleOK(module) /\ Main \in DOMAIN module
      /\ open \in Seq(ScopeIn(module)) /\ Len(open) \in Nat
  BY Typed, OpenTyped DEF BackendTyped, ModuleOK
<1>2. /\ calls' = calls /\ calls = <<>> /\ operands' = <<>>
      /\ module' = module /\ named_values' = named_values /\ has_return' = has_return
      /\ failed' = failed /\ written' = written /\ events' = events
  BY DEF ExprStmt, BeginBlock, EndBlock, Between, Computed
<1>3. DOMAIN calls' = {}
  BY <1>2
<1>4. insert' \in DOMAIN module /\ module[insert'].defined
  BY <1>1, TargetTyped, Typed DEF ExprStmt, BeginBlock, EndBlock
<1>5. open' \in Seq(ScopeIn(module))
  <2>1. CASE ExprStmt
    BY <1>1, <2>1 DEF ExprStmt
  <2>2. CASE BeginBlock
    <3>1. Scope(Main, {}) \in ScopeIn(module)
      BY <1>1 DEF Scope, ScopeIn
    <3> QED BY <1>1, <2>2, <3>1, AppendProperties DEF BeginBlock
  <2>3. CASE EndBlock
    <3>1. open' = SubSeq(open, 1, Len(open) - 1) /\ open # <<>>
      BY <2>3 DEF EndBlock
    <3>2. Len(open) - 1 \in 0 .. Len(open)
      BY <1>1, <3>1
    <3> QED BY <1>1, <3>1, <3>2, Prefix
  <2> QED BY <2>1, <2>2, <2>3
<1>6. operands' \in Seq(ValueIn(module)) /\ calls' \in Seq(CallIn(module))
  BY <1>2, EmptySeq
<1>7. TypeOK'
  BY <1>1, <1>2, <1>3, <1>4, <1>5, <1>6, Typed, TypedNext
<1> QED BY <1>3, <1>7 DEF BackendTyped, Stacked

\* The text of a function that is new is empty.
LEMMA WrittenGrown ==
  ASSUME TypeOK, NEW m, DOMAIN module \subseteq DOMAIN m,
         NEW w, w = [g \in DOMAIN m |-> IF g \in DOMAIN written THEN written[g] ELSE <<>>]
  PROVE  /\ w \in [DOMAIN m -> Seq(Op)]
         /\ \A g \in DOMAIN module : w[g] = written[g]
         /\ \A g \in DOMAIN m : g \notin DOMAIN module => w[g] = <<>>
<1>1. written \in [DOMAIN module -> Seq(Op)] /\ <<>> \in Seq(Op)
  BY Typed, EmptySeq
<1> QED BY <1>1

LEMMA DeclareTyped ==
  ASSUME BackendTyped, NEW f \in FuncName, NEW params \in ParamList, DeclareFunction(f, params)
  PROVE  BackendTyped'
<1> DEFINE m == Declared(f, params)
<1>1. TypeOK /\ ModuleOK(module)
  BY Typed DEF BackendTyped
<1>2. /\ module' = m
      /\ written' = [g \in DOMAIN module' |-> IF g \in DOMAIN written THEN written[g] ELSE <<>>]
      /\ insert' = insert /\ named_values' = named_values /\ has_return' = has_return
      /\ open' = open /\ operands' = operands /\ calls' = calls /\ failed' = failed
      /\ events' = events
  BY DEF DeclareFunction
<1>3. /\ ModuleOK(m) /\ DOMAIN module \subseteq DOMAIN m
      /\ \A g \in DOMAIN module : m[g] = module[g]
  BY <1>1, DeclaredModule
<1> HIDE DEF m
<1>4. /\ open' \in Seq(ScopeIn(m)) /\ operands' \in Seq(ValueIn(m)) /\ calls' \in Seq(CallIn(m))
  BY <1>1, <1>2, <1>3, Grown, Typed
<1>5. NamesOK(named_values, m)
  BY <1>1, <1>3, NamesKept, Typed
<1>6. written' \in [DOMAIN m -> Seq(Op)]
  BY <1>1, <1>2, <1>3, WrittenGrown
<1>7. insert' \in DOMAIN m /\ m[insert'].defined
  BY <1>1, <1>2, <1>3, Typed
<1>8. TypeOK'
  BY <1>1, <1>2, <1>3, <1>4, <1>5, <1>6, <1>7, Typed, TypedNext
<1> QED BY <1>2, <1>8 DEF BackendTyped, Stacked

\* A function whose body begins.
Begun(f, params) == [Declared(f, params) EXCEPT ![f].defined = TRUE]

LEMMA DefinedModule ==
  ASSUME ModuleOK(module), NEW f \in FuncName, NEW params \in ParamList, ~Defined(f)
  PROVE  LET m == Begun(f, params)
         IN  /\ ModuleOK(m) /\ DOMAIN m = DOMAIN module \cup {f}
             /\ \A g \in DOMAIN module :
                  m[g].params = module[g].params /\ m[g].code = module[g].code
             /\ \A g \in DOMAIN module : module[g].defined => m[g].defined
             /\ m[f].params = Declared(f, params)[f].params
             /\ m[f].defined /\ m[f].code = <<>>
<1> DEFINE m == Begun(f, params)
           d == Declared(f, params)
           F == FunctionIn(d)
           new == [d[f] EXCEPT !.defined = TRUE]
<1>1. /\ ModuleOK(d) /\ DOMAIN d = DOMAIN module \cup {f}
      /\ \A g \in DOMAIN module : d[g] = module[g]
      /\ f \notin DOMAIN module => d[f] = NewFunction(params)
  BY DeclaredModule
<1>2. m = [d EXCEPT ![f] = new]
  BY DEF Begun
<1> HIDE DEF m, d, F, new
<1>3. d \in [DOMAIN d -> F] /\ f \in DOMAIN d /\ d[f] \in F
  BY <1>1 DEF ModuleOK, F
<1>4. new \in F /\ new.defined = TRUE /\ new.params = d[f].params /\ new.code = d[f].code
  BY <1>3 DEF F, FunctionIn, new
<1>5. d[f].code = <<>>
  BY <1>1 DEF Defined, ModuleOK, NewFunction
<1>6. /\ DOMAIN m = DOMAIN d /\ m \in [DOMAIN d -> F] /\ m[f] = new
      /\ \A g \in DOMAIN d : g # f => m[g] = d[g]
  BY <1>2, <1>3, <1>4
<1>7. FunctionIn(m) = F
  BY <1>6 DEF F, FunctionIn, Instr
<1>8. Main # f
  BY NamesApart
<1>9. ModuleOK(m)
  BY <1>1, <1>4, <1>6, <1>7, <1>8 DEF ModuleOK
<1>10. \A g \in DOMAIN module : m[g].params = module[g].params /\ m[g].code = module[g].code
  BY <1>1, <1>4, <1>6
<1>11. \A g \in DOMAIN module : module[g].defined => m[g].defined
  BY <1>1, <1>4, <1>6
<1> QED BY <1>1, <1>4, <1>5, <1>6, <1>9, <1>10, <1>11 DEF m, d

LEMMA NameTyped ==
  ASSUME TypeOK, NEW f, NEW m, ModuleOK(m), f \in DOMAIN m, DOMAIN module \subseteq DOMAIN m,
         \A g \in DOMAIN module : m[g].params = module[g].params,
         NEW names, names = Elements(m[f].params), names \subseteq ParamName,
         NameArguments(f, names)
  PROVE  NamesOK(named_values', m)
<1>1. NamesOK(named_values, module)
  BY Typed
<1>2. named_values' = [x \in DOMAIN named_values \cup names |->
                         IF x \in names THEN f ELSE named_values[x]]
  BY DEF NameArguments
<1> QED BY <1>1, <1>2 DEF NamesOK

LEMMA BeginFunctionTyped ==
  ASSUME BackendTyped, NEW f \in FuncName, NEW params \in ParamList, BeginFunction(f, params)
  PROVE  BackendTyped'
<1>1. CASE Throw
  BY <1>1, ThrowTyped
<1>2. CASE ~Throw
  <2> DEFINE d == Declared(f, params)
             names == Elements(d[f].params)
             s == Scope(f, Elements(params))
  <2>1. TypeOK /\ ModuleOK(module)
    BY Typed DEF BackendTyped
  <2>2. /\ ~Defined(f) /\ module' = [d EXCEPT ![f].defined = TRUE] /\ insert' = f
        /\ NameArguments(f, names) /\ open' = Append(open, s)
        /\ written' = [g \in DOMAIN module' |-> IF g \in DOMAIN written THEN written[g]
                                                ELSE <<>>]
        /\ events' \subseteq events \cup {"nested", "renamed"}
        /\ has_return' = has_return /\ operands' = operands /\ calls' = calls
        /\ failed' = failed
    BY <1>2 DEF BeginFunction
  <2>3. /\ ModuleOK(module') /\ f \in DOMAIN module' /\ DOMAIN module \subseteq DOMAIN module'
        /\ \A g \in DOMAIN module : module'[g].params = module[g].params
        /\ module'[f].params = d[f].params /\ module'[f].defined
    <3>1. ~Defined(f) /\ module' = Begun(f, params)
      BY <2>2 DEF Begun
    <3> QED BY <2>1, <3>1, DefinedModule
  <2>4. names \subseteq ParamName /\ Elements(params) \subseteq ParamName
    <3>1. d[f].params \in ParamList
      BY <2>3 DEF ModuleOK, FunctionIn
    <3> QED BY <3>1 DEF ParamList, Elements
  <2>5. s \in ScopeIn(module')
    BY <2>3, <2>4 DEF Scope, ScopeIn
  <2> HIDE DEF d, s
  <2>6. NamesOK(named_values', module')
    BY <2>1, <2>2, <2>3, <2>4, NameTyped
  <2>7. /\ open \in Seq(ScopeIn(module')) /\ operands' \in Seq(ValueIn(module'))
        /\ calls' \in Seq(CallIn(module'))
    BY <2>1, <2>2, <2>3, Grown, Typed
  <2>8. open' \in Seq(ScopeIn(module'))
    BY <2>2, <2>5, <2>7, AppendProperties
  <2>9. written' \in [DOMAIN module' -> Seq(Op)]
    BY <2>1, <2>2, <2>3, WrittenGrown
  <2>10. events' \subseteq Event
    BY <2>1, <2>2, Typed DEF Event
  <2>11. TypeOK'
    BY <2>1, <2>2, <2>3, <2>6, <2>7, <2>8, <2>9, <2>10, Typed, TypedNext
  <2> QED BY <2>2, <2>11 DEF BackendTyped, Stacked
<1> QED BY <1>1, <1>2

LEMMA EndFunctionTyped ==
  ASSUME BackendTyped, EndFunction
  PROVE  BackendTyped'
<1>1. /\ TypeOK /\ ModuleOK(module) /\ open \in Seq(ScopeIn(module)) /\ Len(open) \in Nat
  BY Typed, OpenTyped DEF BackendTyped
<1>2. /\ IF has_return THEN UNCHANGED module ELSE Emit("ret_void", <<>>)
      /\ IF "ret" \in Elements(written[Around]) THEN UNCHANGED written
         ELSE Written(Around, "ret_void")
      /\ has_return' = FALSE /\ open # <<>> /\ open' = SubSeq(open, 1, Len(open) - 1)
      /\ insert' = insert /\ named_values' = named_values /\ operands' = operands
      /\ calls' = calls /\ failed' = failed /\ events' = events
  BY DEF EndFunction, ClearReturn
<1>3. "ret_void" \in Op /\ Target \in DOMAIN module /\ module[Target].defined
      /\ Around \in DOMAIN module
  BY <1>1, NamesApart, TargetTyped, AroundTyped
<1>4. /\ ModuleOK(module') /\ DOMAIN module' = DOMAIN module
      /\ \A f \in DOMAIN module :
           module'[f].params = module[f].params /\ module'[f].defined = module[f].defined
  <2>1. CASE has_return
    BY <1>1, <1>2, <2>1
  <2>2. CASE ~has_return
    <3>1. \A i \in DOMAIN <<>> : <<>>[i].owner \in DOMAIN module
      OBVIOUS
    <3> DEFINE none == <<>>
    <3>2. Emit("ret_void", none) /\ \A i \in DOMAIN none : none[i].owner \in DOMAIN module
      BY <1>2, <2>2, <3>1
    <3> HIDE DEF none
    <3> QED BY <1>1, <1>3, <3>2, EmitModule
  <2> QED BY <2>1, <2>2
<1>5. written' \in [DOMAIN module' -> Seq(Op)]
  BY <1>1, <1>2, <1>3, <1>4, WrittenTyped, Typed
<1>6. open' \in Seq(ScopeIn(module))
  <2>1. Len(open) - 1 \in 0 .. Len(open)
    BY <1>1, <1>2
  <2> QED BY <1>1, <1>2, <2>1, Prefix
<1>7. /\ operands' \in Seq(ValueIn(module')) /\ calls' \in Seq(CallIn(module'))
      /\ open' \in Seq(ScopeIn(module'))
  BY <1>1, <1>2, <1>4, <1>6, Grown, Typed
<1>8. NamesOK(named_values, module')
  BY <1>1, <1>4, NamesKept, Typed
<1>9. TypeOK'
  BY <1>1, <1>2, <1>4, <1>5, <1>7, <1>8, Typed, TypedNext
<1> QED BY <1>2, <1>9 DEF BackendTyped, Stacked

LEMMA InitTyped ==
  ASSUME Init
  PROVE  BackendTyped
<1> DEFINE r == NewFunction(<<>>)
           main == [r EXCEPT !.defined = TRUE]
<1>1. /\ module = [f \in {Main} |-> main] /\ insert = Main /\ named_values = [x \in {} |-> Main]
      /\ has_return = FALSE /\ open = <<>> /\ operands = <<>> /\ calls = <<>>
      /\ failed = FALSE /\ written = [f \in {Main} |-> <<>>] /\ events = {}
  BY DEF Init
<1>2. /\ <<>> \in Seq(Instr(module)) /\ <<>> \in ParamList
  BY EmptySeq DEF ParamList
<1>3. r \in FunctionIn(module) /\ r.params = <<>> /\ r.code = <<>>
  BY <1>2 DEF NewFunction, FunctionIn
<1> HIDE DEF r
<1>4. main \in FunctionIn(module) /\ main.params = <<>> /\ main.code = <<>> /\ main.defined = TRUE
  BY <1>3 DEF FunctionIn
<1> HIDE DEF main
<1>5. ModuleOK(module)
  BY <1>1, <1>4 DEF ModuleOK
<1>6. NamesOK(named_values, module)
  BY <1>1 DEF NamesOK
<1>7. /\ open \in Seq(ScopeIn(module)) /\ operands \in Seq(ValueIn(module))
      /\ calls \in Seq(CallIn(module)) /\ DOMAIN calls = {}
  BY <1>1, EmptySeq
<1>8. written \in [DOMAIN module -> Seq(Op)]
  BY <1>1, EmptySeq
<1>9. TypeOK
  BY <1>1, <1>4, <1>5, <1>6, <1>7, <1>8, Typed
<1> QED BY <1>7, <1>9 DEF BackendTyped, Stacked

LEMMA NextTyped ==
  ASSUME BackendTyped, [Next]_vars
  PROVE  BackendTyped'
<1>1. CASE UNCHANGED vars
  BY <1>1 DEF vars, BackendTyped, Stacked, TypeOK
<1>2. CASE Expression
  <2>1. 0 .. MaxOperand \subseteq Nat
    OBVIOUS
  <2> QED BY <1>2, <2>1, OperatorsTyped, EndCallTyped, IdentifierTyped, BeginCallTyped
          DEF Expression
<1>3. CASE Statement
  BY <1>3, BlocksTyped, ReturnTyped, EndFunctionTyped, DeclareTyped, BeginFunctionTyped
  DEF Statement
<1>4. CASE Unsupported
  BY <1>4, ThrowTyped DEF Unsupported
<1> QED BY <1>1, <1>2, <1>3, <1>4 DEF Next, Ended

\* Every name in named_values_ is an argument of the function it stands for, calls
\* have functions of the module, and builder_ is in a function with an entry block.
THEOREM BackendTypeCorrect == Spec => []TypeOK
<1>1. Init => BackendTyped
  BY InitTyped
<1>2. BackendTyped /\ [Next]_vars => BackendTyped'
  BY NextTyped
<1>3. BackendTyped => TypeOK
  BY DEF BackendTyped
<1> QED BY <1>1, <1>2, <1>3, PTL DEF Spec

-----------------------------------------------------------------------------
(* Where code goes.                                                        *)

Outer == IF open = <<>> THEN Main ELSE open[1].name

Text(code) == [i \in DOMAIN code |-> code[i].op]

\* Without nested functions a function is the outermost scope, the builder is in it,
\* and the flag of the parser is about it.
CodeInv ==
  "nested" \notin events =>
    /\ \A f \in DOMAIN module : Text(module[f].code) = written[f]
    /\ \A i \in DOMAIN open : i > 1 => open[i].name = Main
    /\ open # <<>> => insert = open[1].name
    /\ ~failed => (has_return <=> Outer # Main /\ "ret" \in Elements(written[Outer]))

LEMMA TextAppend ==
  ASSUME NEW m, NEW code \in Seq(Instr(m)), NEW e \in Instr(m)
  PROVE  Text(Append(code, e)) = Append(Text(code), e.op)
<1>1. /\ Append(code, e) \in Seq(Instr(m)) /\ Len(Append(code, e)) = Len(code) + 1
      /\ \A i \in 1 .. Len(code) : Append(code, e)[i] = code[i]
      /\ Append(code, e)[Len(code) + 1] = e
      /\ Len(code) \in Nat /\ DOMAIN code = 1 .. Len(code)
  BY AppendProperties
<1> DEFINE new == Append(code, e)
<1>2. DOMAIN new = 1 .. Len(code) + 1
  BY <1>1
<1> HIDE DEF new
<1>3. /\ Text(code) \in Seq(Op) /\ Len(Text(code)) = Len(code)
      /\ \A i \in 1 .. Len(code) : Text(code)[i] = code[i].op
  <2>1. \A i \in 1 .. Len(code) : code[i] \in Instr(m)
    BY ElementOfSeq
  <2>2. \A i \in 1 .. Len(code) : code[i].op \in Op
    BY <2>1 DEF Instr
  <2>3. Text(code) = [i \in 1 .. Len(code) |-> code[i].op]
    BY <1>1 DEF Text
  <2> QED BY <1>1, <2>2, <2>3
<1>4. e.op \in Op
  BY DEF Instr
<1> DEFINE t == Append(Text(code), e.op)
<1>5. /\ t \in Seq(Op) /\ Len(t) = Len(code) + 1 /\ t[Len(code) + 1] = e.op
      /\ \A i \in 1 .. Len(code) : t[i] = code[i].op
  BY <1>3, <1>4, AppendProperties
<1> HIDE DEF t
<1>6. Text(new) = [i \in 1 .. Len(code) + 1 |-> new[i].op]
  BY <1>2 DEF Text
<1>7. t = [i \in 1 .. Len(code) + 1 |-> t[i]]
  BY <1>1, <1>5
<1>8. \A i \in 1 .. Len(code) + 1 : new[i].op = t[i]
  <2> TAKE i \in 1 .. Len(code) + 1
  <2>1. CASE i \in 1 .. Len(code)
    BY <1>1, <1>5, <2>1 DEF new
  <2>2. CASE i = Len(code) + 1
    BY <1>1, <1>5, <2>2 DEF new
  <2> QED BY <1>1, <2>1, <2>2
<1> QED BY <1>6, <1>7, <1>8 DEF new, t

LEMMA TextEmpty == Text(<<>>) = <<>>
BY DEF Text

LEMMA ElementsAppend ==
  ASSUME NEW s \in Seq(Op), NEW e \in Op
  PROVE  Elements(Append(s, e)) = Elements(s) \cup {e}
<1>1. /\ Len(Append(s, e)) = Len(s) + 1 /\ Append(s, e)[Len(s) + 1] = e
      /\ \A i \in 1 .. Len(s) : Append(s, e)[i] = s[i]
      /\ Append(s, e) \in Seq(Op) /\ Len(s) \in Nat /\ DOMAIN s = 1 .. Len(s)
  BY AppendProperties
<1>2. DOMAIN Append(s, e) = 1 .. Len(s) + 1
  BY <1>1
<1> DEFINE t == Append(s, e)
<1> HIDE DEF t
<1>3. Elements(t) \subseteq Elements(s) \cup {e}
  BY <1>1, <1>2 DEF Elements, t
<1>4. Elements(s) \cup {e} \subseteq Elements(t)
  <2>1. e \in Elements(t)
    BY <1>1, <1>2 DEF Elements, t
  <2>2. \A i \in DOMAIN s : s[i] \in Elements(t)
    BY <1>1, <1>2 DEF Elements, t
  <2> QED BY <2>1, <2>2 DEF Elements
<1> QED BY <1>3, <1>4 DEF t

\* The function that the text is in, and the one that code goes to.
LEMMA PlaceKnown ==
  ASSUME TypeOK, CodeInv, "nested" \notin events
  PROVE  /\ Around = Outer /\ Target = Outer /\ Outer \in DOMAIN module
         /\ open # <<>> => 1 \in DOMAIN open /\ Outer = open[1].name
<1>1. Len(open) \in Nat /\ DOMAIN open = 1 .. Len(open) /\ open # <<>> => 1 \in DOMAIN open
  BY OpenTyped
<1>2. Around = Outer
  BY <1>1, AroundFound DEF CodeInv, Outer
<1>3. Target = Outer
  BY DEF CodeInv, Outer, Target
<1> QED BY <1>1, <1>2, <1>3, TargetTyped DEF Outer

\* Code and text grow together.
LEMMA EmitInPlace ==
  ASSUME TypeOK, NEW op \in Op, NEW used, \A i \in DOMAIN used : used[i].owner \in DOMAIN module,
         Emit(op, used), Written(Target, op),
         \A f \in DOMAIN module : Text(module[f].code) = written[f]
  PROVE  /\ \A f \in DOMAIN module' : Text(module'[f].code) = written'[f]
         /\ written[Target] \in Seq(Op) /\ written'[Target] = Append(written[Target], op)
<1> DEFINE t == Target
           new == Instruction(op, used)
<1>1. ModuleOK(module) /\ t \in DOMAIN module /\ module[t].defined
  BY Typed, TargetTyped
<1>2. /\ DOMAIN module' = DOMAIN module
      /\ \A f \in DOMAIN module : f # t => module'[f].code = module[f].code
      /\ module'[t].code = Append(module[t].code, new)
      /\ new \in Instr(module) /\ module[t].code \in Seq(Instr(module))
  BY <1>1, EmitModule
<1>3. /\ written[t] \in Seq(Op) /\ written'[t] = Append(written[t], op)
      /\ \A g \in DOMAIN module : g # t => written'[g] = written[g]
  BY <1>1, WrittenTyped
<1>4. new.op = op
  BY DEF Instruction
<1> HIDE DEF t, new
<1>5. Text(module'[t].code) = Append(written[t], op)
  BY <1>1, <1>2, <1>4, TextAppend
<1>6. \A f \in DOMAIN module' : Text(module'[f].code) = written'[f]
  BY <1>2, <1>3, <1>5
<1> QED BY <1>3, <1>6 DEF t

LEMMA CodeQuiet ==
  ASSUME CodeInv, events \subseteq events',
         UNCHANGED <<module, written, open, insert, has_return, failed>>
  PROVE  CodeInv'
BY DEF CodeInv, Outer

LEMMA CodeThrow ==
  ASSUME CodeInv, Throw
  PROVE  CodeInv'
<1>1. /\ module' = module /\ written' = written /\ open' = <<>> /\ failed' = TRUE /\ events' = events
  BY DEF Throw
<1>2. DOMAIN open' = {}
  BY <1>1
<1> QED BY <1>1, <1>2 DEF CodeInv

\* Expressions, except the end of a call.
LEMMA CodeExpression ==
  ASSUME CodeInv, Expression, ~EndCall
  PROVE  CodeInv'
<1>1. CASE Throw
  BY <1>1, CodeThrow
<1>2. CASE ~Throw
  <2>1. ASSUME NEW n, NEW kinds, Results(n, kinds)
        PROVE  events \subseteq events' /\ UNCHANGED <<module, written, open, insert, has_return, failed>>
    BY <2>1 DEF Results
  <2>2. ASSUME NEW x, Identifier(x)
        PROVE  events \subseteq events' /\ UNCHANGED <<module, written, open, insert, has_return, failed>>
    BY <1>2, <2>2 DEF Identifier
  <2>3. ASSUME NEW f, NEW n, BeginCall(f, n)
        PROVE  events \subseteq events' /\ UNCHANGED <<module, written, open, insert, has_return, failed>>
    BY <1>2, <2>3 DEF BeginCall
  <2>4. ASSUME NEW op, Unary(op)
        PROVE  events \subseteq events' /\ UNCHANGED <<module, written, open, insert, has_return, failed>>
    <3> DEFINE kinds == UnaryKind(op, Top.kind)
    <3>1. Results(1, kinds)
      BY <1>2, <2>4 DEF Unary
    <3> QED BY <2>1, <3>1
  <2>5. ASSUME NEW op, Binary(op)
        PROVE  events \subseteq events' /\ UNCHANGED <<module, written, open, insert, has_return, failed>>
    <3> DEFINE left == operands[Len(operands) - 1].kind
               kinds == IF left = Top.kind THEN BinaryKind(op, left) ELSE {}
    <3>1. Results(2, kinds)
      BY <1>2, <2>5 DEF Binary
    <3> HIDE DEF kinds
    <3> QED BY <2>1, <3>1
  <2>6. events \subseteq events' /\ UNCHANGED <<module, written, open, insert, has_return, failed>>
    BY <2>1, <2>2, <2>3, <2>4, <2>5 DEF Expression, Constant
  <2> QED BY <2>6, CodeQuiet
<1> QED BY <1>1, <1>2

LEMMA CodeEndCall ==
  ASSUME BackendTyped, CodeInv, EndCall
  PROVE  CodeInv'
<1> SUFFICES ASSUME "nested" \notin events'
             PROVE  CodeInv'
  BY DEF CodeInv
<1> DEFINE call == calls[Len(calls)]
           used == SubSeq(operands, call.base + 1, Len(operands))
<1>1. /\ Emit(call.name, used) /\ Written(Around, call.name)
      /\ insert' = insert /\ has_return' = has_return /\ open' = open /\ failed' = failed
      /\ events' = events
  BY DEF EndCall
<1>2. TypeOK /\ "nested" \notin events
  BY <1>1 DEF BackendTyped
<1>3. Around = Outer /\ Target = Outer
  BY <1>2, PlaceKnown
<1>4. call.name \in FuncName /\ call.name \in Op /\ call.name # "ret"
  <2>1. Len(calls) \in DOMAIN calls
    BY <1>2, OperandsTyped DEF EndCall
  <2> QED BY <1>2, <2>1, OperandsTyped, NamesApart
<1>5. \A i \in DOMAIN used : used[i].owner \in DOMAIN module
  <2>1. Len(calls) \in DOMAIN calls
    BY <1>2, OperandsTyped DEF EndCall
  <2> QED BY <1>2, <2>1, OperandsTyped, UsedTyped
<1> HIDE DEF call, used
<1>6. /\ \A f \in DOMAIN module' : Text(module'[f].code) = written'[f]
      /\ written[Outer] \in Seq(Op) /\ written'[Outer] = Append(written[Outer], call.name)
  BY <1>1, <1>2, <1>3, <1>4, <1>5, EmitInPlace DEF CodeInv
<1>7. Elements(written'[Outer]) = Elements(written[Outer]) \cup {call.name}
  BY <1>4, <1>6, ElementsAppend
<1>8. Outer' = Outer
  BY <1>1 DEF Outer
<1>9. ~failed' => (has_return' <=> Outer' # Main /\ "ret" \in Elements(written'[Outer']))
  BY <1>1, <1>2, <1>4, <1>7, <1>8 DEF CodeInv
<1> QED BY <1>1, <1>2, <1>6, <1>9 DEF CodeInv

LEMMA CodeReturn ==
  ASSUME BackendTyped, CodeInv, ReturnStmt
  PROVE  CodeInv'
<1> SUFFICES ASSUME "nested" \notin events'
             PROVE  CodeInv'
  BY DEF CodeInv
<1>1. /\ Emit("ret", operands) /\ Written(Around, "ret") /\ Around # Main
      /\ insert' = insert /\ has_return' = TRUE /\ open' = open /\ failed' = failed
      /\ events' = events
  BY DEF ReturnStmt
<1>2. TypeOK /\ "nested" \notin events /\ "ret" \in Op
  BY <1>1, NamesApart DEF BackendTyped
<1>3. Around = Outer /\ Target = Outer
  BY <1>2, PlaceKnown
<1>4. \A i \in DOMAIN operands : operands[i].owner \in DOMAIN module
  BY <1>2, OwnersTyped
<1>5. /\ \A f \in DOMAIN module' : Text(module'[f].code) = written'[f]
      /\ written[Outer] \in Seq(Op) /\ written'[Outer] = Append(written[Outer], "ret")
  BY <1>1, <1>2, <1>3, <1>4, EmitInPlace DEF CodeInv
<1>6. Elements(written'[Outer]) = Elements(written[Outer]) \cup {"ret"}
  BY <1>2, <1>5, ElementsAppend
<1>7. Outer' = Outer
  BY <1>1 DEF Outer
<1>8. ~failed' => (has_return' <=> Outer' # Main /\ "ret" \in Elements(written'[Outer']))
  BY <1>1, <1>3, <1>6, <1>7
<1> QED BY <1>1, <1>2, <1>5, <1>8 DEF CodeInv

LEMMA CodeBlocks ==
  ASSUME BackendTyped, CodeInv, ExprStmt \/ BeginBlock \/ EndBlock
  PROVE  CodeInv'
<1> SUFFICES ASSUME "nested" \notin events'
             PROVE  CodeInv'
  BY DEF CodeInv
<1>1. /\ module' = module /\ written' = written /\ has_return' = has_return
      /\ failed' = failed /\ events' = events
  BY DEF ExprStmt, BeginBlock, EndBlock
<1>2. /\ "nested" \notin events /\ open \in Seq(ScopeIn(module)) /\ Len(open) \in Nat
      /\ DOMAIN open = 1 .. Len(open) /\ TypeOK /\ Main \in DOMAIN module
  BY <1>1, OpenTyped, Typed DEF BackendTyped, ModuleOK
<1>3. CASE ExprStmt
  BY <1>3, CodeQuiet DEF ExprStmt
<1>4. CASE BeginBlock
  <2> DEFINE s == Scope(Main, {})
  <2>1. open' = Append(open, s) /\ insert' = Target
    BY <1>4 DEF BeginBlock
  <2>2. s.name = Main /\ s \in ScopeIn(module)
    BY <1>2 DEF Scope, ScopeIn
  <2> HIDE DEF s
  <2>3. /\ Len(open') = Len(open) + 1 /\ open'[Len(open) + 1] = s
        /\ \A i \in 1 .. Len(open) : open'[i] = open[i]
    BY <1>2, <2>1, <2>2, AppendProperties
  <2>4. DOMAIN open' = 1 .. Len(open) + 1
    BY <1>2, <2>1, <2>2, <2>3, AppendProperties
  <2>5. \A i \in DOMAIN open' : i > 1 => open'[i].name = Main
    <3>1. \A i \in 1 .. Len(open) : i > 1 => open[i].name = Main
      BY <1>2 DEF CodeInv
    <3> QED BY <1>2, <2>2, <2>3, <2>4, <3>1
  <2>6. open' # <<>> /\ open'[1].name = Outer /\ Outer' = Outer
    <3>1. CASE open = <<>>
      BY <2>2, <2>3, <3>1 DEF Outer
    <3>2. CASE open # <<>>
      BY <1>2, <2>3, <3>2 DEF Outer
    <3> QED BY <3>1, <3>2
  <2>7. insert' = Outer
    BY <1>2, <2>1, PlaceKnown
  <2> QED BY <1>1, <1>2, <2>5, <2>6, <2>7 DEF CodeInv
<1>5. CASE EndBlock
  <2>1. /\ open # <<>> /\ open[Len(open)].name = Main /\ open' = SubSeq(open, 1, Len(open) - 1)
        /\ insert' = insert
    BY <1>5 DEF EndBlock
  <2>2. Len(open) - 1 \in 0 .. Len(open)
    BY <1>2, <2>1
  <2>3. /\ open' \in Seq(ScopeIn(module)) /\ Len(open') = Len(open) - 1
        /\ \A i \in 1 .. Len(open) - 1 : open'[i] = open[i]
    BY <1>2, <2>1, <2>2, Prefix
  <2>4. \A i \in DOMAIN open' : i \in DOMAIN open /\ open'[i] = open[i]
    BY <1>2, <2>3
  <2>5. open' # <<>> => 1 \in DOMAIN open'
    BY <2>3
  <2>6. Outer' = Outer
    <3>1. CASE open' = <<>>
      <4>1. Len(open') = 0 /\ Len(open) - 1 = 0
        BY <2>3, <3>1
      <4>2. Len(open) = 1
        <5>1. \A n \in Nat : n - 1 = 0 => n = 1
          OBVIOUS
        <5>2. Len(open) \in Nat
          BY <1>2
        <5> QED BY <4>1, <5>1, <5>2
      <4>3. open[1].name = Main
        BY <2>1, <4>2
      <4> QED BY <3>1, <4>3 DEF Outer
    <3>2. CASE open' # <<>>
      BY <2>1, <2>4, <2>5, <3>2 DEF Outer
    <3> QED BY <3>1, <3>2
  <2>7. open' # <<>> => insert' = open'[1].name
    BY <1>2, <2>1, <2>4, <2>5 DEF CodeInv
  <2>8. \A i \in DOMAIN open' : i > 1 => open'[i].name = Main
    BY <1>2, <2>4 DEF CodeInv
  <2> QED BY <1>1, <1>2, <2>6, <2>7, <2>8 DEF CodeInv
<1> QED BY <1>3, <1>4, <1>5

LEMMA CodeDeclare ==
  ASSUME BackendTyped, CodeInv, NEW f \in FuncName, NEW params \in ParamList,
         DeclareFunction(f, params)
  PROVE  CodeInv'
<1> SUFFICES ASSUME "nested" \notin events'
             PROVE  CodeInv'
  BY DEF CodeInv
<1> DEFINE m == Declared(f, params)
<1>1. /\ module' = m /\ insert' = insert /\ has_return' = has_return /\ open' = open
      /\ written' = [g \in DOMAIN module' |-> IF g \in DOMAIN written THEN written[g] ELSE <<>>]
      /\ failed' = failed /\ events' = events
  BY DEF DeclareFunction
<1>2. TypeOK /\ ModuleOK(module) /\ "nested" \notin events
  BY <1>1, Typed DEF BackendTyped
<1>3. /\ DOMAIN m = DOMAIN module \cup {f} /\ \A g \in DOMAIN module : m[g] = module[g]
      /\ f \notin DOMAIN module => m[f] = NewFunction(params)
  BY <1>2, DeclaredModule
<1> HIDE DEF m
<1>4. /\ \A g \in DOMAIN module : written'[g] = written[g]
      /\ \A g \in DOMAIN m : g \notin DOMAIN module => written'[g] = <<>>
  BY <1>1, <1>2, <1>3, WrittenGrown
<1>5. \A g \in DOMAIN module' : Text(module'[g].code) = written'[g]
  <2>1. \A g \in DOMAIN module : Text(module'[g].code) = written'[g]
    BY <1>1, <1>2, <1>3, <1>4 DEF CodeInv
  <2>2. f \notin DOMAIN module => m[f].code = <<>> /\ written'[f] = <<>>
    BY <1>3, <1>4 DEF NewFunction
  <2>3. Text(<<>>) = <<>>
    BY TextEmpty
  <2> QED BY <1>1, <1>3, <2>1, <2>2, <2>3
<1>6. Outer' = Outer /\ written'[Outer] = written[Outer]
  BY <1>1, <1>2, <1>4, PlaceKnown DEF Outer
<1> QED BY <1>1, <1>2, <1>5, <1>6 DEF CodeInv

\* A body begins at the top level: no code and no return so far.
LEMMA CodeBegin ==
  ASSUME BackendTyped, CodeInv, ~failed, NEW f \in FuncName, NEW params \in ParamList,
         BeginFunction(f, params)
  PROVE  CodeInv'
<1>1. CASE Throw
  BY <1>1, CodeThrow
<1>2. CASE ~Throw
  <2> SUFFICES ASSUME "nested" \notin events'
               PROVE  CodeInv'
    BY DEF CodeInv
  <2> DEFINE m == Begun(f, params)
             s == Scope(f, Elements(params))
  <2>1. /\ ~Defined(f) /\ module' = m /\ insert' = f /\ open' = Append(open, s)
        /\ written' = [g \in DOMAIN module' |-> IF g \in DOMAIN written THEN written[g]
                                                ELSE <<>>]
        /\ has_return' = has_return /\ failed' = failed
        /\ events \cup {e \in {"nested"} : open # <<>>} \subseteq events'
    BY <1>2 DEF BeginFunction, Begun
  <2>2. TypeOK /\ ModuleOK(module) /\ "nested" \notin events /\ open = <<>>
    BY <2>1, Typed DEF BackendTyped
  <2>3. /\ DOMAIN m = DOMAIN module \cup {f}
        /\ \A g \in DOMAIN module : m[g].code = module[g].code
        /\ m[f].code = <<>>
    BY <2>1, <2>2, DefinedModule
  <2> HIDE DEF m, s
  <2>4. /\ \A g \in DOMAIN module : written'[g] = written[g]
        /\ \A g \in DOMAIN m : g \notin DOMAIN module => written'[g] = <<>>
    BY <2>1, <2>2, <2>3, WrittenGrown
  <2>5. Text(<<>>) = <<>>
    BY TextEmpty
  <2>6. \A g \in DOMAIN module' : Text(module'[g].code) = written'[g]
    <3>1. \A g \in DOMAIN module : Text(module'[g].code) = written'[g]
      BY <2>1, <2>2, <2>3, <2>4 DEF CodeInv
    <3> QED BY <2>1, <2>3, <2>4, <2>5, <3>1
  <2>7. written'[f] = <<>> /\ f \in DOMAIN module'
    BY <2>1, <2>3, <2>5, <2>6
  <2>8. Elements(written'[f]) = {}
    BY <2>7 DEF Elements
  <2>9. Len(open') = 1 /\ open'[1] = s /\ DOMAIN open' = {1} /\ open' # <<>> /\ s.name = f
    BY <2>1, <2>2 DEF s, Scope
  <2>10. Outer = Main /\ ~has_return
    BY <2>2 DEF Outer, CodeInv
  <2>11. Outer' = f
    BY <2>9 DEF Outer
  <2> QED BY <2>1, <2>6, <2>8, <2>9, <2>10, <2>11 DEF CodeInv
<1> QED BY <1>1, <1>2

LEMMA CodeEnd ==
  ASSUME BackendTyped, CodeInv, ~failed, EndFunction
  PROVE  CodeInv'
<1> SUFFICES ASSUME "nested" \notin events'
             PROVE  CodeInv'
  BY DEF CodeInv
<1>1. /\ IF has_return THEN UNCHANGED module ELSE Emit("ret_void", <<>>)
      /\ IF "ret" \in Elements(written[Around]) THEN UNCHANGED written
         ELSE Written(Around, "ret_void")
      /\ has_return' = FALSE /\ open # <<>> /\ open' = SubSeq(open, 1, Len(open) - 1)
      /\ open[Len(open)].name # Main /\ failed' = failed /\ events' = events
  BY DEF EndFunction, ClearReturn
<1>2. /\ TypeOK /\ "nested" \notin events /\ open \in Seq(ScopeIn(module)) /\ Len(open) \in Nat
      /\ DOMAIN open = 1 .. Len(open)
  BY <1>1, OpenTyped DEF BackendTyped
<1>3. Len(open) = 1
  <2>1. Len(open) >= 1 /\ Len(open) \in DOMAIN open
    BY <1>1, <1>2
  <2>2. ~(Len(open) > 1)
    BY <1>1, <1>2, <2>1 DEF CodeInv
  <2> QED BY <1>2, <2>1, <2>2
<1>4. open' = <<>>
  BY <1>1, <1>3, SubSeqEmpty
<1>5. Around = Outer /\ Target = Outer /\ Outer # Main
  BY <1>1, <1>2, <1>3, PlaceKnown DEF Outer
<1>6. has_return <=> "ret" \in Elements(written[Outer])
  BY <1>2, <1>5 DEF CodeInv
<1>7. \A f \in DOMAIN module' : Text(module'[f].code) = written'[f]
  <2>1. CASE has_return
    <3>1. module' = module /\ written' = written
      BY <1>1, <1>5, <1>6, <2>1
    <3> QED BY <1>2, <3>1 DEF CodeInv
  <2>2. CASE ~has_return
    <3> DEFINE none == <<>>
    <3>1. Emit("ret_void", none) /\ \A i \in DOMAIN none : none[i].owner \in DOMAIN module
      BY <1>1, <2>2
    <3>2. Written(Target, "ret_void") /\ "ret_void" \in Op
      BY <1>1, <1>5, <1>6, <2>2, NamesApart
    <3> HIDE DEF none
    <3> QED BY <1>2, <3>1, <3>2, EmitInPlace DEF CodeInv
  <2> QED BY <2>1, <2>2
<1>8. Outer' = Main /\ DOMAIN open' = {}
  BY <1>4 DEF Outer
<1> QED BY <1>1, <1>4, <1>7, <1>8 DEF CodeInv

LEMMA CodeStep ==
  ASSUME BackendTyped, CodeInv, [Next]_vars
  PROVE  CodeInv'
<1>1. CASE UNCHANGED vars
  BY <1>1, CodeQuiet DEF vars
<1>2. CASE ~failed /\ Expression
  BY <1>2, CodeExpression, CodeEndCall
<1>3. CASE ~failed /\ Statement
  BY <1>3, CodeBlocks, CodeReturn, CodeEnd, CodeDeclare, CodeBegin DEF Statement
<1>4. CASE Unsupported
  BY <1>4, CodeThrow DEF Unsupported
<1> QED BY <1>1, <1>2, <1>3, <1>4 DEF Next, Ended

LEMMA CodeStart ==
  ASSUME Init
  PROVE  CodeInv
<1>1. /\ module = [f \in {Main} |-> [NewFunction(<<>>) EXCEPT !.defined = TRUE]]
      /\ written = [f \in {Main} |-> <<>>] /\ open = <<>> /\ has_return = FALSE
  BY DEF Init
<1>2. module[Main].code = <<>> /\ DOMAIN module = {Main} /\ written[Main] = <<>>
  <2>1. module = [f \in {Main} |-> module[Main]] /\ module[Main].code = NewFunction(<<>>).code
    BY <1>1 DEF NewFunction
  <2> QED BY <1>1, <2>1 DEF NewFunction
<1>3. DOMAIN open = {} /\ Outer = Main
  BY <1>1 DEF Outer
<1> QED BY <1>1, <1>2, <1>3, TextEmpty DEF CodeInv

\* Without nested functions the code of each function is what its text says, with a
\* return at the end unless the text has one, in spite of the insertion point that
\* stays in a function, and of the parser's one flag for all functions.
THEOREM CodeStaysInPlace == Spec => []CodeInPlace
<1>1. Init => BackendTyped /\ CodeInv
  BY InitTyped, CodeStart
<1>2. BackendTyped /\ CodeInv /\ [Next]_vars => BackendTyped' /\ CodeInv'
  BY NextTyped, CodeStep
<1>3. CodeInv => CodeInPlace
  BY DEF CodeInv, CodeInPlace, Text
<1> QED BY <1>1, <1>2, <1>3, PTL DEF Spec

-----------------------------------------------------------------------------
(* Whose values code uses.                                                 *)

Own(code, f) == \A i \in DOMAIN code : code[i].owners \subseteq {f}

\* A name that may be used stands for an argument of the function around, however
\* many functions had arguments of that name before.
ValueInv ==
  events = {} =>
    /\ \A f \in DOMAIN module : Own(module[f].code, f)
    /\ \A i \in DOMAIN operands : operands[i].owner = Outer
    /\ \A i \in DOMAIN open :
         /\ open[i].name = Main => open[i].params = {}
         /\ \A x \in open[i].params : x \in DOMAIN named_values /\ named_values[x] = open[i].name

LEMMA OwnAppend ==
  ASSUME NEW m, NEW code \in Seq(Instr(m)), NEW e \in Instr(m), NEW f, Own(code, f),
         e.owners \subseteq {f}
  PROVE  Own(Append(code, e), f)
<1> DEFINE new == Append(code, e)
<1>1. /\ new \in Seq(Instr(m)) /\ Len(new) = Len(code) + 1 /\ new[Len(code) + 1] = e
      /\ \A i \in 1 .. Len(code) : new[i] = code[i]
      /\ Len(code) \in Nat /\ DOMAIN code = 1 .. Len(code)
  BY AppendProperties
<1> HIDE DEF new
<1>2. DOMAIN new = 1 .. Len(code) + 1
  BY <1>1
<1>3. ASSUME NEW i \in DOMAIN new
      PROVE  new[i].owners \subseteq {f}
  <2>1. CASE i \in 1 .. Len(code)
    BY <1>1, <2>1 DEF Own
  <2>2. CASE i = Len(code) + 1
    BY <1>1, <2>2
  <2> QED BY <1>1, <1>2, <2>1, <2>2
<1> QED BY <1>3 DEF Own, new

LEMMA EmitOwn ==
  ASSUME TypeOK, NEW op \in Op, NEW used, \A i \in DOMAIN used : used[i].owner = Target,
         Emit(op, used), \A f \in DOMAIN module : Own(module[f].code, f)
  PROVE  \A f \in DOMAIN module' : Own(module'[f].code, f)
<1> DEFINE t == Target
           new == Instruction(op, used)
<1>1. ModuleOK(module) /\ t \in DOMAIN module /\ module[t].defined
  BY Typed, TargetTyped
<1>2. /\ DOMAIN module' = DOMAIN module
      /\ \A f \in DOMAIN module : f # t => module'[f].code = module[f].code
      /\ module'[t].code = Append(module[t].code, new)
      /\ new \in Instr(module) /\ module[t].code \in Seq(Instr(module))
  BY <1>1, EmitModule
<1>3. new.owners \subseteq {t}
  BY DEF Instruction
<1> HIDE DEF t, new
<1>4. Own(module'[t].code, t)
  BY <1>1, <1>2, <1>3, OwnAppend
<1> QED BY <1>2, <1>4

LEMMA ValueThrow ==
  ASSUME ValueInv, Throw
  PROVE  ValueInv'
<1>1. module' = module /\ open' = <<>> /\ operands' = <<>> /\ events' = events
  BY DEF Throw
<1>2. DOMAIN open' = {} /\ DOMAIN operands' = {}
  BY <1>1
<1> QED BY <1>1, <1>2 DEF ValueInv

\* A value in the place of operands.
LEMMA ValueResult ==
  ASSUME BackendTyped, NEW n \in Nat, Holds(n) \/ n = 0, NEW v \in ValueIn(module),
         operands' = Append(Below(n), v), v.owner = Outer,
         \A i \in DOMAIN operands : operands[i].owner = Outer
  PROVE  \A i \in DOMAIN operands' : operands'[i].owner = Outer
<1> DEFINE k == Len(operands) - n
<1>1. Len(operands) \in Nat /\ DOMAIN operands = 1 .. Len(operands) /\ k \in 0 .. Len(operands)
  <2>1. operands \in Seq(ValueIn(module)) /\ Len(operands) \in Nat
    BY OperandsTyped DEF BackendTyped
  <2>2. n <= Len(operands)
    BY <2>1, BaseBelow
  <2> QED BY <2>1, <2>2
<1>2. /\ operands' \in Seq(ValueIn(module)) /\ Len(operands') = k + 1
      /\ \A i \in 1 .. k : operands'[i] = operands[i]
      /\ operands'[k + 1] = v
  BY ResultTyped
<1> HIDE DEF k
<1>3. DOMAIN operands' = 1 .. k + 1
  BY <1>1, <1>2
<1>4. ASSUME NEW i \in DOMAIN operands'
      PROVE  operands'[i].owner = Outer
  <2>1. CASE i \in 1 .. k
    BY <1>1, <1>2, <2>1
  <2>2. CASE i = k + 1
    BY <1>2, <2>2
  <2> QED BY <1>1, <1>3, <2>1, <2>2
<1> QED BY <1>4

\* Instructions that only compute.
LEMMA ValueResults ==
  ASSUME BackendTyped, CodeInv, ValueInv, NEW n \in Nat, Holds(n) \/ n = 0,
         NEW kinds \in SUBSET Kind, Results(n, kinds)
  PROVE  ValueInv'
<1> SUFFICES ASSUME events' = {}
             PROVE  ValueInv'
  BY DEF ValueInv
<1>1. PICK kind \in kinds : operands' = Append(Below(n), Value(kind))
  BY DEF Results
<1>2. module' = module /\ open' = open /\ named_values' = named_values /\ events' = events
  BY DEF Results
<1>3. TypeOK /\ "nested" \notin events
  BY <1>2 DEF BackendTyped
<1>4. Value(kind) \in ValueIn(module) /\ Value(kind).owner = Outer
  BY <1>3, TargetTyped, PlaceKnown DEF Value, ValueIn
<1>5. \A i \in DOMAIN operands' : operands'[i].owner = Outer
  BY <1>1, <1>2, <1>4, ValueResult DEF ValueInv
<1>6. Outer' = Outer
  BY <1>2 DEF Outer
<1> QED BY <1>2, <1>5, <1>6 DEF ValueInv

LEMMA ValueOperators ==
  ASSUME BackendTyped, CodeInv, ValueInv,
         Constant \/ (\E op \in UnaryOp : Unary(op)) \/ (\E op \in BinaryOp : Binary(op))
  PROVE  ValueInv'
<1>1. CASE Throw
  BY <1>1, ValueThrow
<1>2. CASE Constant
  BY <1>2, ValueResults DEF Constant
<1>3. ASSUME NEW op \in UnaryOp, Unary(op), ~Throw
      PROVE  ValueInv'
  <2> DEFINE kinds == UnaryKind(op, Top.kind)
  <2>1. kinds \subseteq Kind
    BY DEF UnaryKind, Kind
  <2>2. Holds(1) /\ Results(1, kinds)
    BY <1>3 DEF Unary
  <2> HIDE DEF kinds
  <2> QED BY <2>1, <2>2, ValueResults
<1>4. ASSUME NEW op \in BinaryOp, Binary(op), ~Throw
      PROVE  ValueInv'
  <2> DEFINE left == operands[Len(operands) - 1].kind
             kinds == IF left = Top.kind THEN BinaryKind(op, left) ELSE {}
  <2>1. kinds \subseteq Kind
    BY DEF BinaryKind, Kind
  <2>2. Holds(2) /\ Results(2, kinds)
    BY <1>4 DEF Binary
  <2> HIDE DEF kinds
  <2> QED BY <2>1, <2>2, ValueResults
<1> QED BY <1>1, <1>2, <1>3, <1>4

\* A parameter of the function around.
LEMMA ValueIdentifier ==
  ASSUME BackendTyped, CodeInv, ValueInv, NEW x \in ParamName, Identifier(x)
  PROVE  ValueInv'
<1>1. CASE Throw
  BY <1>1, ValueThrow
<1>2. CASE ~Throw
  <2> SUFFICES ASSUME events' = {}
               PROVE  ValueInv'
    BY DEF ValueInv
  <2> DEFINE v == [kind |-> "other", owner |-> named_values[x]]
  <2>1. /\ x \in DOMAIN named_values /\ operands' = Append(operands, v)
        /\ module' = module /\ open' = open /\ named_values' = named_values
        /\ events' = events \cup (IF \E i \in DOMAIN open : open[i].name = Around
                                                            /\ x \in open[i].params
                                  THEN {} ELSE {"stray"})
    BY <1>2 DEF Identifier
  <2>2. TypeOK /\ events = {} /\ "nested" \notin events
    BY <2>1 DEF BackendTyped
  <2>3. PICK i \in DOMAIN open : open[i].name = Around /\ x \in open[i].params
    BY <2>1
  <2>4. v \in ValueIn(module) /\ v.owner = Outer
    <3>1. named_values[x] = Outer
      BY <2>2, <2>3, PlaceKnown DEF ValueInv
    <3>2. Outer \in DOMAIN module
      BY <2>2, PlaceKnown
    <3> QED BY <3>1, <3>2 DEF ValueIn, Kind
  <2> HIDE DEF v
  <2>5. operands \in Seq(ValueIn(module)) /\ Len(operands) \in Nat
    BY <2>2, OperandsTyped
  <2>6. Below(0) = operands
    <3>1. Len(operands) - 0 = Len(operands)
      BY <2>5
    <3>2. SubSeq(operands, 1, Len(operands)) = operands
      BY <2>5
    <3> QED BY <3>1, <3>2 DEF Below
  <2>7. \A j \in DOMAIN operands' : operands'[j].owner = Outer
    BY <2>1, <2>2, <2>4, <2>6, ValueResult DEF ValueInv
  <2>8. Outer' = Outer
    BY <2>1 DEF Outer
  <2> QED BY <2>1, <2>2, <2>7, <2>8 DEF ValueInv
<1> QED BY <1>1, <1>2

LEMMA ValueBeginCall ==
  ASSUME ValueInv, NEW f, NEW n, BeginCall(f, n)
  PROVE  ValueInv'
<1>1. CASE Throw
  BY <1>1, ValueThrow
<1>2. CASE ~Throw
  <2>1. /\ module' = module /\ open' = open /\ named_values' = named_values
        /\ operands' = operands /\ events' = events
    BY <1>2 DEF BeginCall
  <2> QED BY <2>1 DEF ValueInv, Outer
<1> QED BY <1>1, <1>2

LEMMA ValueEndCall ==
  ASSUME BackendTyped, CodeInv, ValueInv, EndCall
  PROVE  ValueInv'
<1> SUFFICES ASSUME events' = {}
             PROVE  ValueInv'
  BY DEF ValueInv
<1> DEFINE call == calls[Len(calls)]
           n == Len(module[call.name].params)
           used == SubSeq(operands, call.base + 1, Len(operands))
           v == Value("other")
<1>1. /\ Emit(call.name, used) /\ operands' = Append(Below(n), v)
      /\ Len(operands) = call.base + n
      /\ open' = open /\ named_values' = named_values /\ events' = events
  BY DEF EndCall
<1>2. TypeOK /\ ModuleOK(module) /\ "nested" \notin events /\ Target = Outer
  BY <1>1, PlaceKnown, Typed DEF BackendTyped
<1>3. /\ call.name \in FuncName \cap DOMAIN module /\ call.base \in Nat
      /\ call.base <= Len(operands) /\ call.name \in Op
  <2>1. Len(calls) \in DOMAIN calls
    BY <1>2, OperandsTyped DEF EndCall
  <2> QED BY <1>2, <2>1, OperandsTyped, NamesApart
<1>4. n \in Nat
  BY <1>2, <1>3, ParamsTyped
<1>5. Holds(n)
  <2>1. Base = call.base
    BY DEF Base, EndCall
  <2> QED BY <1>1, <1>3, <1>4, <2>1 DEF Holds
<1>6. v \in ValueIn(module) /\ v.owner = Outer
  BY <1>2, TargetTyped DEF Value, ValueIn, Kind
<1>7. \A i \in DOMAIN used : used[i].owner = Target
  <2>1. \A i \in DOMAIN used : \E j \in DOMAIN operands : used[i] = operands[j]
    BY <1>2, <1>3, UsedTyped
  <2> HIDE DEF used
  <2> QED BY <1>1, <1>2, <2>1 DEF ValueInv
<1> HIDE DEF call, n, used, v
<1>8. \A f \in DOMAIN module' : Own(module'[f].code, f)
  BY <1>1, <1>2, <1>3, <1>7, EmitOwn DEF ValueInv
<1>9. \A i \in DOMAIN operands' : operands'[i].owner = Outer
  BY <1>1, <1>4, <1>5, <1>6, ValueResult DEF ValueInv
<1>10. Outer' = Outer
  BY <1>1 DEF Outer
<1> QED BY <1>1, <1>8, <1>9, <1>10 DEF ValueInv

LEMMA ValueReturn ==
  ASSUME BackendTyped, CodeInv, ValueInv, ReturnStmt
  PROVE  ValueInv'
<1> SUFFICES ASSUME events' = {}
             PROVE  ValueInv'
  BY DEF ValueInv
<1>1. /\ Emit("ret", operands) /\ operands' = <<>>
      /\ open' = open /\ named_values' = named_values /\ events' = events
  BY DEF ReturnStmt
<1>2. TypeOK /\ "nested" \notin events /\ Target = Outer /\ "ret" \in Op
  BY <1>1, PlaceKnown, NamesApart DEF BackendTyped
<1>3. \A i \in DOMAIN operands : operands[i].owner = Target
  BY <1>1, <1>2 DEF ValueInv
<1>4. \A f \in DOMAIN module' : Own(module'[f].code, f)
  BY <1>1, <1>2, <1>3, EmitOwn DEF ValueInv
<1>5. DOMAIN operands' = {}
  BY <1>1
<1> QED BY <1>1, <1>4, <1>5 DEF ValueInv

\* What is said of the scopes around, of a sequence of scopes s.
ParamsNamed(s, names) ==
  \A i \in DOMAIN s :
    /\ s[i].name = Main => s[i].params = {}
    /\ \A x \in s[i].params : x \in DOMAIN names /\ names[x] = s[i].name

LEMMA ValueBlocks ==
  ASSUME BackendTyped, ValueInv, ExprStmt \/ BeginBlock \/ EndBlock
  PROVE  ValueInv'
<1> SUFFICES ASSUME events' = {}
             PROVE  ValueInv'
  BY DEF ValueInv
<1>1. /\ module' = module /\ operands' = <<>> /\ named_values' = named_values
      /\ events' = events
  BY DEF ExprStmt, BeginBlock, EndBlock, Between
<1>2. DOMAIN operands' = {}
  BY <1>1
<1>3. /\ open \in Seq(ScopeIn(module)) /\ Len(open) \in Nat /\ DOMAIN open = 1 .. Len(open)
      /\ Main \in DOMAIN module /\ ParamsNamed(open, named_values)
  BY <1>1, OpenTyped, Typed DEF BackendTyped, ModuleOK, ValueInv, ParamsNamed
<1>4. ParamsNamed(open', named_values)
  <2>1. CASE ExprStmt
    BY <1>3, <2>1 DEF ExprStmt
  <2>2. CASE BeginBlock
    <3> DEFINE s == Scope(Main, {})
    <3>1. s \in ScopeIn(module) /\ s.name = Main /\ s.params = {}
      BY <1>3 DEF Scope, ScopeIn
    <3>2. open' = Append(open, s)
      BY <2>2 DEF BeginBlock
    <3> HIDE DEF s
    <3>3. /\ open' \in Seq(ScopeIn(module)) /\ Len(open') = Len(open) + 1
          /\ open'[Len(open) + 1] = s /\ \A i \in 1 .. Len(open) : open'[i] = open[i]
      BY <1>3, <3>1, <3>2, AppendProperties
    <3>4. \A i \in DOMAIN open' : i \in DOMAIN open \/ i = Len(open) + 1
      BY <1>3, <3>3
    <3> QED BY <1>3, <3>1, <3>3, <3>4 DEF ParamsNamed
  <2>3. CASE EndBlock
    <3>1. open # <<>> /\ open' = SubSeq(open, 1, Len(open) - 1)
      BY <2>3 DEF EndBlock
    <3>2. Len(open) - 1 \in 0 .. Len(open)
      BY <1>3, <3>1
    <3>3. /\ open' \in Seq(ScopeIn(module)) /\ Len(open') = Len(open) - 1
          /\ \A i \in 1 .. Len(open) - 1 : open'[i] = open[i]
      BY <1>3, <3>1, <3>2, Prefix
    <3>4. \A i \in DOMAIN open' : i \in DOMAIN open /\ open'[i] = open[i]
      BY <1>3, <3>3
    <3> QED BY <1>3, <3>4 DEF ParamsNamed
  <2> QED BY <2>1, <2>2, <2>3
<1> QED BY <1>1, <1>2, <1>4 DEF ValueInv, ParamsNamed

LEMMA OwnEmpty == \A f : Own(<<>>, f)
BY DEF Own

LEMMA ValueDeclare ==
  ASSUME BackendTyped, ValueInv, NEW f \in FuncName, NEW params \in ParamList,
         DeclareFunction(f, params)
  PROVE  ValueInv'
<1> SUFFICES ASSUME events' = {}
             PROVE  ValueInv'
  BY DEF ValueInv
<1> DEFINE m == Declared(f, params)
<1>1. /\ module' = m /\ open' = open /\ operands' = operands /\ named_values' = named_values
      /\ events' = events
  BY DEF DeclareFunction
<1>2. ModuleOK(module)
  BY Typed DEF BackendTyped
<1>3. /\ DOMAIN m = DOMAIN module \cup {f} /\ \A g \in DOMAIN module : m[g] = module[g]
      /\ f \notin DOMAIN module => m[f] = NewFunction(params)
  BY <1>2, DeclaredModule
<1> HIDE DEF m
<1>4. f \notin DOMAIN module => m[f].code = <<>>
  BY <1>3 DEF NewFunction
<1>5. \A g \in DOMAIN module : Own(m[g].code, g)
  BY <1>1, <1>3 DEF ValueInv
<1>6. \A g \in DOMAIN module' : Own(module'[g].code, g)
  BY <1>1, <1>3, <1>4, <1>5, OwnEmpty
<1> QED BY <1>1, <1>6 DEF ValueInv, Outer

\* A body begins: its parameters are the last to take their names.
LEMMA ValueBegin ==
  ASSUME BackendTyped, ValueInv, NEW f \in FuncName, NEW params \in ParamList,
         BeginFunction(f, params)
  PROVE  ValueInv'
<1>1. CASE Throw
  BY <1>1, ValueThrow
<1>2. CASE ~Throw
  <2> SUFFICES ASSUME events' = {}
               PROVE  ValueInv'
    BY DEF ValueInv
  <2> DEFINE m == Begun(f, params)
             d == Declared(f, params)
             s == Scope(f, Elements(params))
             names == Elements(d[f].params)
  <2>1. /\ ~Defined(f) /\ module' = m /\ open' = Append(open, s) /\ NameArguments(f, names)
        /\ operands' = <<>>
        /\ events' = events \cup {e \in {"nested"} : open # <<>>}
                            \cup {e \in {"renamed"} : d[f].params # params}
    BY <1>2 DEF BeginFunction, Begun, Between
  <2>2. ModuleOK(module) /\ events = {} /\ open = <<>> /\ d[f].params = params
    BY <2>1, Typed DEF BackendTyped
  <2>3. /\ DOMAIN m = DOMAIN module \cup {f}
        /\ \A g \in DOMAIN module : m[g].code = module[g].code
        /\ m[f].code = <<>>
    BY <2>1, <2>2, DefinedModule
  <2>4. f # Main
    BY NamesApart
  <2>5. s.name = f /\ s.params = names
    BY <2>2 DEF Scope
  <2>6. /\ names \subseteq DOMAIN named_values'
        /\ \A x \in names : named_values'[x] = f
    BY <2>1 DEF NameArguments
  <2> HIDE DEF m, d, s, names
  <2>7. DOMAIN operands' = {} /\ DOMAIN open' = {1} /\ open'[1] = s
    BY <2>1, <2>2
  <2>8. \A g \in DOMAIN module' : Own(module'[g].code, g)
    <3>1. \A g \in DOMAIN module : Own(m[g].code, g)
      BY <2>2, <2>3 DEF ValueInv
    <3> QED BY <2>1, <2>3, <3>1, OwnEmpty
  <2> QED BY <2>4, <2>5, <2>6, <2>7, <2>8 DEF ValueInv
<1> QED BY <1>1, <1>2

LEMMA ValueEnd ==
  ASSUME BackendTyped, CodeInv, ValueInv, EndFunction
  PROVE  ValueInv'
<1> SUFFICES ASSUME events' = {}
             PROVE  ValueInv'
  BY DEF ValueInv
<1>1. /\ IF has_return THEN UNCHANGED module ELSE Emit("ret_void", <<>>)
      /\ operands' = <<>> /\ open # <<>> /\ open' = SubSeq(open, 1, Len(open) - 1)
      /\ named_values' = named_values /\ events' = events
  BY DEF EndFunction, Between
<1>2. /\ TypeOK /\ open \in Seq(ScopeIn(module)) /\ Len(open) \in Nat
      /\ DOMAIN open = 1 .. Len(open)
  BY OpenTyped DEF BackendTyped
<1>3. \A f \in DOMAIN module' : Own(module'[f].code, f)
  <2>1. CASE has_return
    BY <1>1, <2>1 DEF ValueInv
  <2>2. CASE ~has_return
    <3> DEFINE none == <<>>
    <3>1. Emit("ret_void", none) /\ \A i \in DOMAIN none : none[i].owner = Target
      BY <1>1, <2>2
    <3> HIDE DEF none
    <3> QED BY <1>1, <1>2, <3>1, EmitOwn, NamesApart DEF ValueInv
  <2> QED BY <2>1, <2>2
<1>4. Len(open) - 1 \in 0 .. Len(open)
  BY <1>1, <1>2
<1>5. /\ open' \in Seq(ScopeIn(module)) /\ Len(open') = Len(open) - 1
      /\ \A i \in 1 .. Len(open) - 1 : open'[i] = open[i]
  BY <1>1, <1>2, <1>4, Prefix
<1>6. \A i \in DOMAIN open' : i \in DOMAIN open /\ open'[i] = open[i]
  BY <1>2, <1>5
<1>7. DOMAIN operands' = {}
  BY <1>1
<1> QED BY <1>1, <1>3, <1>6, <1>7 DEF ValueInv

LEMMA ValueStep ==
  ASSUME BackendTyped, CodeInv, ValueInv, [Next]_vars
  PROVE  ValueInv'
<1>1. CASE UNCHANGED vars
  BY <1>1 DEF vars, ValueInv, Outer
<1>2. CASE Expression
  BY <1>2, ValueOperators, ValueEndCall, ValueIdentifier, ValueBeginCall DEF Expression
<1>3. CASE Statement
  BY <1>3, ValueBlocks, ValueReturn, ValueEnd, ValueDeclare, ValueBegin DEF Statement
<1>4. CASE Unsupported
  BY <1>4, ValueThrow DEF Unsupported
<1> QED BY <1>1, <1>2, <1>3, <1>4 DEF Next, Ended

LEMMA ValueStart ==
  ASSUME Init
  PROVE  ValueInv
<1>1. /\ module = [f \in {Main} |-> [NewFunction(<<>>) EXCEPT !.defined = TRUE]]
      /\ open = <<>> /\ operands = <<>>
  BY DEF Init
<1>2. module[Main].code = <<>> /\ DOMAIN module = {Main}
  <2>1. module = [f \in {Main} |-> module[Main]] /\ module[Main].code = NewFunction(<<>>).code
    BY <1>1 DEF NewFunction
  <2> QED BY <1>1, <2>1 DEF NewFunction
<1>3. DOMAIN open = {} /\ DOMAIN operands = {}
  BY <1>1
<1> QED BY <1>2, <1>3, OwnEmpty DEF ValueInv

\* Without nested functions, if bodies name their own parameters only and definitions
\* repeat those of the declaration, code uses values of its own function, though names
\* of parameters are never taken back from named_values_.
THEOREM CodeUsesOwnValues == Spec => []OperandsOwn
<1>1. Init => BackendTyped /\ CodeInv /\ ValueInv
  BY InitTyped, CodeStart, ValueStart
<1>2. BackendTyped /\ CodeInv /\ ValueInv /\ [Next]_vars => BackendTyped' /\ CodeInv' /\ ValueInv'
  BY NextTyped, CodeStep, ValueStep
<1>3. ValueInv => OperandsOwn
  BY DEF ValueInv, OperandsOwn, Own
<1> QED BY <1>1, <1>2, <1>3, PTL DEF Spec
===============================================================================
