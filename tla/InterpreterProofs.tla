-------------------------- MODULE InterpreterProofs --------------------------
(***************************************************************************)
(* Proofs about Interpreter and its heap of environments, for every set of *)
(* names and of programs, run whole or by the REPL, and for every bound on *)
(* the stack and the heap.  First types and the catching of returns; then  *)
(* the scopes: the global one outlives every program; in disciplined       *)
(* programs (no exception leaves an access, no object is accessed inside   *)
(* its own access) everything env_ leads to is allocated, lookups end and  *)
(* objects keep their environments; while nothing leaks, env_ and the heap *)
(* follow the nesting of the source.                                       *)
(***************************************************************************)
EXTENDS Interpreter, SequenceTheorems, FiniteSetTheorems, WellFoundedInduction, TLAPS

-----------------------------------------------------------------------------
(* What the operations of Environment do to a heap: which addresses it     *)
(* has, and which environments and enclosing pointers they change.         *)

\* The empty table is a table.
LEMMA EmptyIsTable ==
  ASSUME NEW Name, NEW Entry
  PROVE  IsTable(Empty, Name, Entry) /\ DOMAIN Empty = {}
BY DEF IsTable, Empty

\* Inserting an entry in a table (std::map::insert) keeps it a table.
LEMMA InsertIsTable ==
  ASSUME NEW Name, NEW Entry, NEW t, IsTable(t, Name, Entry),
         NEW n \in Name, NEW entry \in Entry
  PROVE  LET u == Put(t, n, entry)
         IN  /\ IsTable(u, Name, Entry)
             /\ DOMAIN u = DOMAIN t \cup {n}
             /\ u[n] = entry
             /\ \A m \in DOMAIN t \ {n} : u[m] = t[m]
BY DEF IsTable, Put

\* new Environment(...): one more address, the others untouched.
LEMMA AllocateHeap ==
  ASSUME NEW h, IsHeap(h), NEW e \in Address, NEW environment, IsEnvironment(environment)
  PROVE  LET g == Allocate(h, e, environment)
         IN  /\ IsHeap(g)
             /\ DOMAIN g = DOMAIN h \cup {e}
             /\ g[e] = environment
             /\ \A d \in DOMAIN h \ {e} : g[d] = h[d]
BY DEF IsHeap, Allocate, Put

\* delete: one address less, the others untouched.
LEMMA DeleteHeap ==
  ASSUME NEW h, IsHeap(h), NEW e
  PROVE  LET g == Delete(h, e)
         IN  /\ IsHeap(g)
             /\ DOMAIN g = DOMAIN h \ {e}
             /\ \A d \in DOMAIN h \ {e} : g[d] = h[d]
BY DEF IsHeap, Delete, Restrict

\* add_enclosing and rem_enclosing: one pointer changes.
LEMMA SetEnclosingHeap ==
  ASSUME NEW h, IsHeap(h), NEW e \in DOMAIN h, NEW other \in Nat
  PROVE  LET g == SetEnclosing(h, e, other)
         IN  /\ IsHeap(g)
             /\ DOMAIN g = DOMAIN h
             /\ g[e].enclosing = other
             /\ \A d \in DOMAIN h : g[d].of = h[d].of /\ g[d].variables = h[d].variables
             /\ \A d \in DOMAIN h \ {e} : g[d] = h[d]
BY DEF IsHeap, SetEnclosing, IsEnvironment

\* Replacing an environment of a heap by another one.
LEMMA ReplaceHeap ==
  ASSUME NEW h, IsHeap(h), NEW e \in DOMAIN h, NEW environment, IsEnvironment(environment)
  PROVE  LET g == [h EXCEPT ![e] = environment]
         IN  /\ IsHeap(g)
             /\ DOMAIN g = DOMAIN h
             /\ g[e] = environment
             /\ \A d \in DOMAIN h \ {e} : g[d] = h[d]
BY DEF IsHeap

\* define_var: one table changes, no pointer does.
LEMMA DefineVarHeap ==
  ASSUME NEW h, IsHeap(h), NEW e \in DOMAIN h, NEW x \in Var, NEW variable \in Variable
  PROVE  LET g == DefineVar(h, e, x, variable)
         IN  /\ IsHeap(g)
             /\ DOMAIN g = DOMAIN h
             /\ \A d \in DOMAIN h : g[d].of = h[d].of /\ g[d].enclosing = h[d].enclosing
             /\ g[e].variables = Put(h[e].variables, x, variable)
             /\ \A d \in DOMAIN h \ {e} : g[d] = h[d]
<1> DEFINE t == Put(h[e].variables, x, variable)
           r == [of |-> h[e].of, variables |-> t, functions |-> h[e].functions,
                 enclosing |-> h[e].enclosing]
<1>1. IsTable(t, Var, Variable)
  BY InsertIsTable DEF IsHeap, IsEnvironment
<1> HIDE DEF t
<1>2. IsEnvironment(r)
  BY <1>1 DEF IsHeap, IsEnvironment
<1>3. [h[e] EXCEPT !.variables = t] = r
  BY DEF IsHeap, IsEnvironment
<1>4. DefineVar(h, e, x, variable) = [h EXCEPT ![e] = r]
  BY <1>3 DEF DefineVar, t
<1>5. r.of = h[e].of /\ r.variables = t /\ r.enclosing = h[e].enclosing
  BY DEF r
<1> HIDE DEF r
<1> DEFINE g == [h EXCEPT ![e] = r]
<1>6. /\ IsHeap(g) /\ DOMAIN g = DOMAIN h /\ g[e] = r
      /\ \A d \in DOMAIN h \ {e} : g[d] = h[d]
  BY <1>2, ReplaceHeap
<1> HIDE DEF g
<1>7. QED
  BY <1>4, <1>5, <1>6 DEF t, g

\* define_func: one table changes, no pointer and no variable does.
LEMMA DefineFuncHeap ==
  ASSUME NEW h, IsHeap(h), NEW e \in DOMAIN h, NEW f \in Func, NEW body \in Body
  PROVE  LET g == DefineFunc(h, e, f, body)
         IN  /\ IsHeap(g)
             /\ DOMAIN g = DOMAIN h
             /\ \A d \in DOMAIN h : /\ g[d].of = h[d].of
                                   /\ g[d].enclosing = h[d].enclosing
                                   /\ g[d].variables = h[d].variables
<1> DEFINE t == Put(h[e].functions, f, body)
           r == [of |-> h[e].of, variables |-> h[e].variables, functions |-> t,
                 enclosing |-> h[e].enclosing]
<1>1. IsTable(t, Func, Body)
  BY InsertIsTable DEF IsHeap, IsEnvironment
<1> HIDE DEF t
<1>2. IsEnvironment(r)
  BY <1>1 DEF IsHeap, IsEnvironment
<1>3. [h[e] EXCEPT !.functions = t] = r
  BY DEF IsHeap, IsEnvironment
<1>4. DefineFunc(h, e, f, body) = [h EXCEPT ![e] = r]
  BY <1>3 DEF DefineFunc, t
<1>5. r.of = h[e].of /\ r.variables = h[e].variables /\ r.enclosing = h[e].enclosing
  BY DEF r
<1> HIDE DEF r
<1> DEFINE g == [h EXCEPT ![e] = r]
<1>6. /\ IsHeap(g) /\ DOMAIN g = DOMAIN h /\ g[e] = r
      /\ \A d \in DOMAIN h \ {e} : g[d] = h[d]
  BY <1>2, ReplaceHeap
<1> HIDE DEF g
<1>7. QED
  BY <1>4, <1>5, <1>6 DEF g

\* An assignment: the value of one variable changes, no pointer does.
LEMMA AssignHeap ==
  ASSUME NEW h, IsHeap(h), NEW e \in DOMAIN h, NEW x \in DOMAIN h[e].variables,
         NEW value \in Nat
  PROVE  LET g == Assign(h, e, x, value)
         IN  /\ IsHeap(g)
             /\ DOMAIN g = DOMAIN h
             /\ \A d \in DOMAIN h : /\ g[d].of = h[d].of
                                   /\ g[d].enclosing = h[d].enclosing
                                   /\ DOMAIN g[d].variables = DOMAIN h[d].variables
             /\ g[e].variables[x].value = value
             /\ \A y \in DOMAIN h[e].variables \ {x} :
                  g[e].variables[y] = h[e].variables[y]
             /\ \A d \in DOMAIN h \ {e} : g[d] = h[d]
<1> DEFINE t == [h[e].variables EXCEPT ![x].value = value]
           r == [of |-> h[e].of, variables |-> t, functions |-> h[e].functions,
                 enclosing |-> h[e].enclosing]
<1>1. /\ IsTable(t, Var, Variable) /\ DOMAIN t = DOMAIN h[e].variables
      /\ t[x].value = value
      /\ \A y \in DOMAIN h[e].variables \ {x} : t[y] = h[e].variables[y]
  BY DEF IsHeap, IsEnvironment, IsTable, Variable
<1>4. Assign(h, e, x, value) = [h EXCEPT ![e].variables = t]
  BY DEF Assign
<1> HIDE DEF t
<1>2. IsEnvironment(r)
  BY <1>1 DEF IsHeap, IsEnvironment
<1>3. [h[e] EXCEPT !.variables = t] = r
  BY DEF IsHeap, IsEnvironment
<1>5. r.of = h[e].of /\ r.variables = t /\ r.enclosing = h[e].enclosing
  BY DEF r
<1>6. Assign(h, e, x, value) = [h EXCEPT ![e] = r]
  BY <1>3, <1>4
<1> HIDE DEF r
<1> DEFINE g == [h EXCEPT ![e] = r]
<1>7. /\ IsHeap(g) /\ DOMAIN g = DOMAIN h /\ g[e] = r
      /\ \A d \in DOMAIN h \ {e} : g[d] = h[d]
  BY <1>2, ReplaceHeap
<1> HIDE DEF g
<1>8. QED
  BY <1>1, <1>5, <1>6, <1>7 DEF g

\* The two constructors build environments.
LEMMA NewEnvironmentIs ==
  ASSUME NEW enclosing \in Nat, NEW variables, IsTable(variables, Var, Variable)
  PROVE  LET r == [NewEnvironment(enclosing) EXCEPT !.variables = variables]
         IN  /\ IsEnvironment(r)
             /\ r.of = "scope" /\ r.enclosing = enclosing /\ r.variables = variables
<1>1. IsTable(Empty, Func, Body)
  BY EmptyIsTable
<1>2. QED
  BY <1>1 DEF NewEnvironment, IsEnvironment

LEMMA ObjectEnvironmentIs ==
  ASSUME NEW methods, IsTable(methods, Func, Body),
         NEW members, IsTable(members, Var, Variable)
  PROVE  LET r == ObjectEnvironment(methods, members)
         IN  /\ IsEnvironment(r)
             /\ r.of = "object" /\ r.enclosing = Null /\ r.variables = members
BY DEF ObjectEnvironment, IsEnvironment, Null

\* A lookup ends at an allocated environment that holds the name.
LEMMA VarHolderHolds ==
  ASSUME NEW h, NEW e, NEW x, NEW d \in VarHolder(h, e, x)
  PROVE  d \in DOMAIN h /\ x \in DOMAIN h[d].variables
BY DEF VarHolder, Holder

LEMMA FuncHolderHolds ==
  ASSUME NEW h, NEW e, NEW f, NEW d \in FuncHolder(h, e, f)
  PROVE  d \in DOMAIN h /\ f \in DOMAIN h[d].functions
BY DEF FuncHolder, Holder

-----------------------------------------------------------------------------
(* The C++ stack.                                                          *)

\* Leaving a function: the frames below stay as they are.
LEMMA PopFrame ==
  ASSUME NEW S, NEW s \in Seq(S), s # <<>>
  PROVE  /\ Len(s) \in Nat /\ Len(s) >= 1
         /\ Last(s) = s[Len(s)] /\ s[Len(s)] \in S
         /\ Front(s) \in Seq(S)
         /\ Len(Front(s)) = Len(s) - 1
         /\ DOMAIN Front(s) = 1 .. Len(s) - 1
         /\ \A i \in 1 .. Len(s) - 1 : Front(s)[i] = s[i]
<1>1. Len(s) \in Nat /\ Len(s) >= 1 /\ DOMAIN s = 1 .. Len(s)
  BY EmptySeq, LenProperties
<1>2. Last(s) = s[Len(s)] /\ s[Len(s)] \in S
  BY <1>1, ElementOfSeq DEF Last
<1>3. Front(s) = SubSeq(s, 1, Len(s) - 1)
  BY DEF Front
<1>4. /\ Front(s) \in Seq(S)
      /\ Len(Front(s)) = Len(s) - 1
      /\ \A i \in 1 .. Len(s) - 1 : Front(s)[i] = s[i]
  BY <1>1, <1>3
<1>5. DOMAIN Front(s) = 1 .. Len(s) - 1
  BY <1>4, LenProperties
<1>6. QED
  BY <1>1, <1>2, <1>4, <1>5

\* Calling one: a new innermost frame.
LEMMA PushFrame ==
  ASSUME NEW S, NEW s \in Seq(S), NEW frame \in S
  PROVE  /\ Len(s) \in Nat
         /\ Append(s, frame) \in Seq(S)
         /\ Len(Append(s, frame)) = Len(s) + 1
         /\ DOMAIN Append(s, frame) = 1 .. Len(s) + 1
         /\ \A i \in 1 .. Len(s) : Append(s, frame)[i] = s[i]
         /\ Append(s, frame)[Len(s) + 1] = frame
<1>1. Len(s) \in Nat /\ DOMAIN s = 1 .. Len(s)
  BY LenProperties
<1>2. Append(s, frame) \in Seq(S) /\ Len(Append(s, frame)) = Len(s) + 1
  BY AppendProperties
<1>3. DOMAIN Append(s, frame) = 1 .. Len(s) + 1
  BY <1>2, LenProperties
<1>4. /\ \A i \in 1 .. Len(s) : Append(s, frame)[i] = s[i]
      /\ Append(s, frame)[Len(s) + 1] = frame
  BY AppendProperties
<1>5. QED
  BY <1>1, <1>2, <1>3, <1>4

-----------------------------------------------------------------------------
(* What the steps of an action do to the heap and to the stack.            *)

\* A frame stays a frame when more environments are allocated.
LEMMA FrameGrows ==
  ASSUME NEW n \in Nat, NEW frame, IsFrame(frame, n)
  PROVE  IsFrame(frame, n + 1)
BY DEF IsFrame, Frame

LEMMA StackGrows ==
  ASSUME HeapOK, StackOK, stack' = stack, fresh' = fresh + 1
  PROVE  StackOK'
<1>1. fresh \in Nat
  BY DEF HeapOK, Address
<1>2. QED
  BY <1>1, FrameGrows DEF StackOK

LEMMA StackPushed ==
  ASSUME HeapOK, StackOK, NEW frame, IsFrame(frame, fresh'),
         stack' = Append(stack, frame), fresh' \in {fresh, fresh + 1}
  PROVE  StackOK'
<1>1. frame \in Frame
  BY DEF IsFrame
<1>2. fresh \in Nat
  BY DEF HeapOK, Address
<1>3. \A i \in 1 .. Len(stack) : IsFrame(stack[i], fresh')
  BY <1>2, FrameGrows, LenProperties DEF StackOK
<1>4. stack' \in Seq(Frame) /\ DOMAIN stack' = 1 .. Len(stack) + 1
  BY <1>1, PushFrame DEF StackOK
<1>5. \A i \in 1 .. Len(stack) + 1 : IsFrame(stack'[i], fresh')
  BY <1>1, <1>3, PushFrame DEF StackOK
<1>6. QED
  BY <1>4, <1>5 DEF StackOK

LEMMA StackPopped ==
  ASSUME HeapOK, StackOK, stack # <<>>, stack' = Front(stack), fresh' \in {fresh, fresh + 1}
  PROVE  StackOK'
<1>1. fresh \in Nat
  BY DEF HeapOK, Address
<1>2. \A i \in 1 .. Len(stack) - 1 : IsFrame(stack[i], fresh')
  BY <1>1, FrameGrows, LenProperties DEF StackOK
<1>3. QED
  BY <1>2, PopFrame DEF StackOK

\* The innermost frame is one of the stack's.
LEMMA TopFrame ==
  ASSUME StackOK, stack # <<>>
  PROVE  /\ Len(stack) \in DOMAIN stack
         /\ Top = stack[Len(stack)]
         /\ IsFrame(Top, fresh)
<1>1. Len(stack) \in DOMAIN stack /\ Top = stack[Len(stack)]
  BY PopFrame, LenProperties DEF StackOK, Top
<1>2. QED
  BY <1>1 DEF StackOK

\* new Environment(env_): the new scope is enclosed by the current one.
LEMMA NewScopeHeap ==
  ASSUME HeapOK, NEW variables, IsTable(variables, Var, Variable), NewScope(variables)
  PROVE  /\ HeapOK'
         /\ fresh' = fresh + 1 /\ env' = fresh
         /\ fresh \notin DOMAIN heap
         /\ DOMAIN heap' = DOMAIN heap \cup {fresh}
         /\ heap'[fresh].of = "scope" /\ heap'[fresh].enclosing = env
         /\ heap'[fresh].variables = variables
         /\ \A d \in DOMAIN heap : heap'[d] = heap[d]
<1> DEFINE r == [NewEnvironment(env) EXCEPT !.variables = variables]
<1>1. env \in Nat /\ fresh \in Address /\ fresh \notin DOMAIN heap
  BY DEF HeapOK, Address, Global
<1>2. /\ IsEnvironment(r)
      /\ r.of = "scope" /\ r.enclosing = env /\ r.variables = variables
  BY <1>1, NewEnvironmentIs
<1>3. heap' = Allocate(heap, fresh, r) /\ env' = fresh /\ fresh' = fresh + 1
  BY DEF NewScope
<1> HIDE DEF r
<1>4. /\ IsHeap(heap')
      /\ DOMAIN heap' = DOMAIN heap \cup {fresh}
      /\ heap'[fresh] = r
      /\ \A d \in DOMAIN heap \ {fresh} : heap'[d] = heap[d]
  <2> DEFINE g == Allocate(heap, fresh, r)
  <2>1. IsHeap(heap)
    BY DEF HeapOK
  <2>2. /\ IsHeap(g) /\ DOMAIN g = DOMAIN heap \cup {fresh} /\ g[fresh] = r
        /\ \A d \in DOMAIN heap \ {fresh} : g[d] = heap[d]
    BY <1>1, <1>2, <2>1, AllocateHeap
  <2>3. QED
    BY <1>3, <2>2
<1>5. HeapOK'
  BY <1>1, <1>3, <1>4 DEF HeapOK, Address, Null, Global
<1>6. QED
  BY <1>1, <1>2, <1>3, <1>4, <1>5

\* delete env_; env_ = previous
LEMMA EndScopeHeap ==
  ASSUME HeapOK, StackOK, stack # <<>>, Top.kind \in ScopeKind, EndScope, fresh' = fresh
  PROVE  /\ HeapOK'
         /\ env \in DOMAIN heap /\ env' = Top.previous
         /\ DOMAIN heap' = DOMAIN heap \ {env}
         /\ \A d \in DOMAIN heap \ {env} : heap'[d] = heap[d]
<1>1. heap' = Delete(heap, env) /\ env \in DOMAIN heap /\ env' = Top.previous
  BY DEF EndScope
<1>2. /\ IsHeap(heap')
      /\ DOMAIN heap' = DOMAIN heap \ {env}
      /\ \A d \in DOMAIN heap \ {env} : heap'[d] = heap[d]
  BY <1>1, DeleteHeap DEF HeapOK
<1>3. env' \in Global .. fresh - 1
  BY <1>1, TopFrame DEF IsFrame
<1>4. QED
  BY <1>1, <1>2, <1>3 DEF HeapOK

\* The object's scope is enclosed by the current one, and becomes current.
LEMMA EnclosingHeap ==
  ASSUME HeapOK, NEW e \in DOMAIN heap, NEW other \in Nat,
         heap' = SetEnclosing(heap, e, other), env' \in Global .. fresh - 1, fresh' = fresh
  PROVE  /\ HeapOK'
         /\ DOMAIN heap' = DOMAIN heap
         /\ heap'[e].enclosing = other
         /\ \A d \in DOMAIN heap :
              heap'[d].of = heap[d].of /\ heap'[d].variables = heap[d].variables
         /\ \A d \in DOMAIN heap \ {e} : heap'[d] = heap[d]
<1>1. IsHeap(heap)
  BY DEF HeapOK
<1>2. IsHeap(heap') /\ DOMAIN heap' = DOMAIN heap
  BY <1>1, SetEnclosingHeap
<1>3. /\ heap'[e].enclosing = other
      /\ \A d \in DOMAIN heap :
           heap'[d].of = heap[d].of /\ heap'[d].variables = heap[d].variables
      /\ \A d \in DOMAIN heap \ {e} : heap'[d] = heap[d]
  BY <1>1, SetEnclosingHeap
<1>4. HeapOK'
  BY <1>2 DEF HeapOK
<1>5. QED
  BY <1>2, <1>3, <1>4

\* The values a program can form are addresses of objects, or NoObject.
LEMMA ValuesTyped ==
  ASSUME HeapOK, NEW v \in Values
  PROVE  v \in Nat /\ Typed(v) \in Variable
BY DEF HeapOK, Values, Objects, NoObject, Typed, Variable, Global

\* The arguments of a call are a table of variables.
LEMMA ArgumentsTyped ==
  ASSUME HeapOK, NEW args \in Table(Var, Values)
  PROVE  IsTable([x \in DOMAIN args |-> Typed(args[x])], Var, Variable)
<1>1. PICK N \in SUBSET Var : args \in [N -> Values]
  BY DEF Table
<1>2. \A x \in N : Typed(args[x]) \in Variable
  BY <1>1, ValuesTyped
<1>3. QED
  BY <1>1, <1>2 DEF IsTable

\* What a program of the assumed kind declares.
LEMMA ProgramTyped ==
  ASSUME program \in Program
  PROVE  /\ \A c \in Class : IsTable(c.methods, Func, Body) /\ IsTable(c.members, Var, BOOLEAN)
         /\ Nested \subseteq Func
         /\ Interactive \in BOOLEAN
BY ProgramAssumption DEF Class, Nested, Interactive

-----------------------------------------------------------------------------
(* Type correctness.                                                       *)

\* The constructor of Interpreter: one environment, no frame.
LEMMA InitTyped == Init => TypeOK
<1> SUFFICES ASSUME Init PROVE TypeOK
  OBVIOUS
<1> DEFINE functions == [f \in IF Interactive THEN {} ELSE Func |-> "defined"]
           r == [NewEnvironment(Null) EXCEPT !.functions = functions]
<1>1. IsTable(functions, Func, Body)
  BY DEF IsTable, Body
<1>2. IsTable(Empty, Var, Variable)
  BY EmptyIsTable
<1> HIDE DEF functions
<1>3. IsEnvironment(r)
  BY <1>1, <1>2 DEF IsEnvironment, NewEnvironment, Null
<1> HIDE DEF r
<1>4. heap = Put([e \in {} |-> e], Global, r)
  BY DEF Init, Allocate, r, functions
<1>5. IsHeap(heap) /\ DOMAIN heap = {Global}
  BY <1>3, <1>4 DEF IsHeap, Put, Address, Null, Global
<1>6. HeapOK
  BY <1>5 DEF Init, HeapOK, Address, Null, Global
<1>7. stack \in Seq(Frame) /\ DOMAIN stack = {}
  BY EmptySeq, LenProperties DEF Init
<1>8. StackOK
  BY <1>7 DEF StackOK
<1>9. QED
  BY <1>6, <1>8 DEF Init, TypeOK, Exception, Status

\* Every step of the interpreter keeps its types.
LEMMA StepTyped == TypeOK /\ [Next]_vars => TypeOK'
<1> SUFFICES ASSUME TypeOK, [Next]_vars PROVE TypeOK'
  OBVIOUS
<1> USE DEF Running, Unwinding, TopIs, Pop, Throw
<1>0. /\ HeapOK /\ StackOK /\ exc \in Exception /\ errors \in BOOLEAN
      /\ status \in Status /\ events \in SUBSET Event
      /\ fresh \in Nat
      /\ program' \in Program
  BY DEF TypeOK, HeapOK, Address, Next, vars
<1>r. /\ \A c \in Class : IsTable(c.methods, Func, Body) /\ IsTable(c.members, Var, BOOLEAN)
      /\ Nested \subseteq Func
  BY ProgramTyped DEF TypeOK
<1>s. ASSUME UNCHANGED <<heap, fresh, env, stack>> PROVE HeapOK' /\ StackOK'
  BY <1>0, <1>s DEF HeapOK, StackOK
<1>p. ASSUME UNCHANGED <<heap, fresh, env>>, stack # <<>>, stack' = Front(stack)
      PROVE  HeapOK' /\ StackOK'
  <2>1. HeapOK'
    BY <1>0, <1>p DEF HeapOK
  <2>2. QED
    BY <1>0, <1>p, <2>1, StackPopped
<1>e. ASSUME EndScope, stack # <<>>, Top.kind \in ScopeKind, stack' = Front(stack),
             fresh' = fresh
      PROVE  HeapOK' /\ StackOK'
  BY <1>0, <1>e, EndScopeHeap, StackPopped
<1>v. ASSUME stack' = stack, fresh' = fresh, env' = env,
             IsHeap(heap'), DOMAIN heap' = DOMAIN heap
      PROVE  HeapOK' /\ StackOK'
  BY <1>0, <1>v DEF HeapOK, StackOK
<1>1. CASE EnterBlock
  <2> DEFINE frame == [kind |-> "block", previous |-> env, own |-> fresh, breaks |-> FALSE]
  <2>1. NewScope(Empty) /\ stack' = Append(stack, frame)
    BY <1>1 DEF EnterBlock, Push
  <2>2. HeapOK' /\ fresh' = fresh + 1
    BY <1>0, <2>1, NewScopeHeap, EmptyIsTable
  <2>3. IsFrame(frame, fresh')
    BY <1>0, <2>2 DEF IsFrame, Frame, HeapOK, Address, Null, Global
  <2>4. StackOK'
    BY <1>0, <2>1, <2>2, <2>3, StackPushed
  <2>5. QED
    BY <1>0, <1>1, <2>2, <2>4 DEF EnterBlock, TypeOK
<1>2. CASE LeaveBlock
  BY <1>0, <1>2, <1>e DEF LeaveBlock, TypeOK, ScopeKind
<1>3. CASE EnterLoop
  <2> DEFINE frame == [kind |-> "loop", previous |-> Null, own |-> Null, breaks |-> FALSE]
  <2>1. IsFrame(frame, fresh)
    BY DEF IsFrame, Frame, ScopeKind, Null
  <2>2. HeapOK'
    BY <1>0, <1>3 DEF EnterLoop, HeapOK
  <2>3. StackOK'
    BY <1>0, <1>3, <2>1, StackPushed DEF EnterLoop, Push
  <2>4. QED
    BY <1>0, <1>3, <2>2, <2>3 DEF EnterLoop, TypeOK
<1>4. CASE LeaveLoop
  BY <1>0, <1>4, <1>p DEF LeaveLoop, TypeOK
<1>5. CASE Break \/ Return \/ FalseConditionWithElse \/ Fail
  BY <1>0, <1>5, <1>s
     DEF Break, Return, FalseConditionWithElse, Fail, TypeOK, Exception
<1>6. ASSUME NEW x \in Var, NEW v \in Values, DeclareVar(x, v) PROVE TypeOK'
  <2>1. Typed(v) \in Variable /\ env \in DOMAIN heap /\ IsHeap(heap)
    BY <1>0, <1>6, ValuesTyped DEF DeclareVar, HeapOK
  <2>2. IsHeap(heap') /\ DOMAIN heap' = DOMAIN heap
    BY <1>6, <2>1, DefineVarHeap DEF DeclareVar
  <2>3. QED
    BY <1>0, <1>6, <1>v, <2>2 DEF DeclareVar, TypeOK
<1>7. ASSUME NEW f \in Nested, NEW defined \in BOOLEAN, DeclareFunc(f, defined)
      PROVE  TypeOK'
  <2>1. f \in Func
    BY <1>r
  <2>2. PICK body \in Body : heap' = DefineFunc(heap, env, f, body)
    BY <1>7 DEF DeclareFunc, Body
  <2>3. env \in DOMAIN heap /\ IsHeap(heap)
    BY <1>0, <1>7 DEF DeclareFunc, HeapOK
  <2>4. IsHeap(heap') /\ DOMAIN heap' = DOMAIN heap
    BY <2>1, <2>2, <2>3, DefineFuncHeap
  <2>5. QED
    BY <1>0, <1>7, <1>v, <2>4 DEF DeclareFunc, TypeOK
<1>8. ASSUME NEW x \in Var, NEW v \in Values, AssignVar(x, v) PROVE TypeOK'
  <2>1. PICK d \in VarHolder(heap, env, x) : heap' = Assign(heap, d, x, v)
    BY <1>8 DEF AssignVar
  <2>2. d \in DOMAIN heap /\ x \in DOMAIN heap[d].variables /\ IsHeap(heap) /\ v \in Nat
    BY <1>0, VarHolderHolds, ValuesTyped DEF HeapOK
  <2>3. IsHeap(heap') /\ DOMAIN heap' = DOMAIN heap
    BY <2>1, <2>2, AssignHeap
  <2>4. QED
    BY <1>0, <1>8, <1>v, <2>3 DEF AssignVar, TypeOK
<1>9. ASSUME NEW c \in Class, NEW member \in [DOMAIN c.members -> Values], New(c, member)
      PROVE  TypeOK'
  <2> DEFINE members == [x \in DOMAIN c.members |->
                          [object |-> c.members[x], value |-> member[x]]]
             r == ObjectEnvironment(c.methods, members)
  <2>1. IsTable(c.methods, Func, Body)
    BY <1>r
  <2>2. \A x \in DOMAIN c.members : member[x] \in Nat /\ c.members[x] \in BOOLEAN
    BY <1>0, <1>9, ValuesTyped, <1>r DEF IsTable
  <2>3. IsTable(members, Var, Variable)
    BY <2>2, <1>r DEF IsTable, Variable
  <2> HIDE DEF members
  <2>4. IsEnvironment(r)
    BY <2>1, <2>3, ObjectEnvironmentIs
  <2>5. heap' = Allocate(heap, fresh, r) /\ fresh' = fresh + 1 /\ env' = env /\ stack' = stack
    BY <1>9 DEF New, members
  <2> HIDE DEF r
  <2>6. IsHeap(heap) /\ fresh \in Address
    BY <1>0 DEF HeapOK
  <2>7. IsHeap(heap') /\ DOMAIN heap' = DOMAIN heap \cup {fresh}
    BY <2>4, <2>5, <2>6, AllocateHeap
  <2>8. HeapOK'
    BY <1>0, <2>5, <2>7 DEF HeapOK, Address, Null, Global
  <2>9. QED
    BY <1>0, <1>9, <2>5, <2>8, StackGrows DEF New, TypeOK
<1>10. CASE ReportInPlace
  BY <1>0, <1>10, <1>s DEF ReportInPlace, TypeOK
<1>11. ASSUME NEW f \in Func, BeginCall(f) PROVE TypeOK'
  <2>1. PICK breaks \in BOOLEAN :
          stack' = Append(stack, [kind |-> "args", previous |-> Null, own |-> Null,
                                  breaks |-> breaks])
    BY <1>11 DEF BeginCall, Push
  <2>2. IsFrame([kind |-> "args", previous |-> Null, own |-> Null, breaks |-> breaks], fresh)
    BY DEF IsFrame, Frame, ScopeKind, Null
  <2>3. HeapOK'
    BY <1>0, <1>11 DEF BeginCall, HeapOK
  <2>4. StackOK'
    BY <1>0, <1>11, <2>1, <2>2, StackPushed DEF BeginCall
  <2>5. QED
    BY <1>0, <1>11, <2>3, <2>4 DEF BeginCall, TypeOK
<1>12. ASSUME NEW args \in Table(Var, Values), EnterBody(args) PROVE TypeOK'
  <2> DEFINE frame == [kind |-> "body", previous |-> env, own |-> fresh, breaks |-> Top.breaks]
  <2>1. /\ NewScope([x \in DOMAIN args |-> Typed(args[x])])
        /\ stack' = Append(Front(stack), frame) /\ stack # <<>>
    BY <1>12 DEF EnterBody
  <2>2. HeapOK' /\ fresh' = fresh + 1
    BY <1>0, <2>1, NewScopeHeap, ArgumentsTyped
  <2>3. Top.breaks \in BOOLEAN
    BY <1>0, <2>1, TopFrame DEF IsFrame, Frame
  <2>4. IsFrame(frame, fresh') /\ frame \in Frame
    BY <1>0, <2>2, <2>3 DEF IsFrame, Frame, HeapOK, Address, Null, Global
  <2> HIDE DEF frame
  <2>5. Front(stack) \in Seq(Frame) /\ Len(Front(stack)) = Len(stack) - 1
    BY <1>0, <2>1, PopFrame DEF StackOK
  <2>6. \A i \in 1 .. Len(stack) - 1 : Front(stack)[i] = stack[i] /\ i \in DOMAIN stack
    BY <1>0, <2>1, PopFrame, LenProperties DEF StackOK
  <2>7. \A i \in 1 .. Len(Front(stack)) : IsFrame(Front(stack)[i], fresh')
    BY <1>0, <2>2, <2>5, <2>6, FrameGrows DEF StackOK
  <2>8. stack' \in Seq(Frame) /\ \A i \in DOMAIN stack' : IsFrame(stack'[i], fresh')
    BY <2>1, <2>4, <2>5, <2>7, PushFrame
  <2>9. QED
    BY <1>0, <1>12, <2>2, <2>8 DEF EnterBody, TypeOK, StackOK
<1>13. ASSUME NEW args \in Table(Var, Values), RepeatedParameter(args) PROVE TypeOK'
  <2>1. HeapOK' /\ fresh' = fresh + 1
    BY <1>0, <1>13, NewScopeHeap, ArgumentsTyped DEF RepeatedParameter
  <2>2. StackOK'
    BY <1>0, <1>13, <2>1, StackPopped DEF RepeatedParameter
  <2>3. QED
    BY <1>0, <1>13, <2>1, <2>2 DEF RepeatedParameter, TypeOK, Event
<1>14. CASE LeaveBody
  BY <1>0, <1>14, <1>e DEF LeaveBody, TypeOK, ScopeKind
<1>15. ASSUME NEW x \in Var, BeginAccess(x) PROVE TypeOK'
  <2>1. PICK object \in DOMAIN heap :
          /\ stack' = Append(stack, [kind |-> "access", previous |-> env, own |-> object,
                                     breaks |-> FALSE])
          /\ heap' = SetEnclosing(heap, object, env)
          /\ env' = object
          /\ events' \in {events \cup {"reentered"}, events}
    BY <1>15 DEF BeginAccess, Enclose, Push
  <2>2. env \in Nat /\ object \in Global .. fresh - 1 /\ object \in Nat
    BY <1>0 DEF HeapOK, Global
  <2>3. HeapOK'
    BY <1>0, <1>15, <2>1, <2>2, EnclosingHeap DEF BeginAccess, Enclose
  <2>4. IsFrame([kind |-> "access", previous |-> env, own |-> object, breaks |-> FALSE], fresh)
    BY <1>0, <2>2 DEF IsFrame, Frame, HeapOK
  <2>5. StackOK'
    BY <1>0, <1>15, <2>1, <2>4, StackPushed DEF BeginAccess, Enclose
  <2>6. QED
    BY <1>0, <1>15, <2>1, <2>3, <2>5 DEF BeginAccess, Enclose, TypeOK, Event
<1>16. ASSUME NEW x \in Var, AccessNoObject(x) PROVE TypeOK'
  BY <1>0, <1>16, <1>s DEF AccessNoObject, TypeOK, Status
<1>17. CASE EndAccess
  <2>1. env' \in Global .. fresh - 1
    BY <1>0, <1>17, TopFrame DEF EndAccess, Release, IsFrame, ScopeKind
  <2>2. HeapOK'
    BY <1>0, <1>17, <2>1, EnclosingHeap DEF EndAccess, Release, Null
  <2>3. StackOK'
    BY <1>0, <1>17, StackPopped DEF EndAccess, Release
  <2>4. QED
    BY <1>0, <1>17, <2>2, <2>3 DEF EndAccess, Release, TypeOK
<1>18. CASE UnwindBlock
  <2>1. HeapOK' /\ StackOK'
    BY <1>0, <1>18, <1>e, <1>p DEF UnwindBlock, ScopeKind
  <2>2. QED
    BY <1>0, <1>18, <2>1 DEF UnwindBlock, TypeOK, Event
<1>19. CASE UnwindLoop
  BY <1>0, <1>19, <1>p DEF UnwindLoop, TypeOK, Exception
<1>20. CASE UnwindArgs
  BY <1>0, <1>20, <1>p DEF UnwindArgs, TypeOK, Exception
<1>21. CASE UnwindBody
  <2>1. HeapOK' /\ StackOK'
    BY <1>0, <1>21, <1>e, <1>p DEF UnwindBody, ScopeKind
  <2>2. QED
    BY <1>0, <1>21, <2>1 DEF UnwindBody, TypeOK, Event, Exception
<1>22. CASE UnwindAccess
  BY <1>0, <1>22, <1>p DEF UnwindAccess, TypeOK, Event
<1>23. CASE UnwindProgram
  BY <1>0, <1>23, <1>s DEF UnwindProgram, TypeOK, Exception, Status
<1>24. CASE Finish
  <2>1. IsHeap(heap') /\ DOMAIN heap' \subseteq DOMAIN heap
    <3>1. IsHeap(heap)
      BY <1>0 DEF HeapOK
    <3>2. heap' \in {heap, Delete(heap, env)}
      BY <1>24 DEF Finish
    <3>3. IsHeap(Delete(heap, env)) /\ DOMAIN Delete(heap, env) \subseteq DOMAIN heap
      BY <3>1, DeleteHeap
    <3>4. QED
      BY <3>1, <3>2, <3>3
  <2>2. HeapOK' /\ StackOK'
    BY <1>0, <1>24, <2>1 DEF Finish, HeapOK, StackOK
  <2>3. QED
    BY <1>0, <1>24, <2>2 DEF Finish, TypeOK, Status
<1>25. CASE UseAfterFree
  BY <1>0, <1>25, <1>s DEF UseAfterFree, TypeOK, Status
<1>26. CASE EndlessLookup
  BY <1>0, <1>26, <1>s DEF EndlessLookup, TypeOK, Status
<1>27. CASE Ended \/ UNCHANGED vars
  BY <1>0, <1>27, <1>s DEF Ended, vars, TypeOK
<1>28. QED
  BY <1>1, <1>2, <1>3, <1>4, <1>5, <1>6, <1>7, <1>8, <1>9, <1>10, <1>11, <1>12, <1>13,
     <1>14, <1>15, <1>16, <1>17, <1>18, <1>19, <1>20, <1>21, <1>22, <1>23, <1>24,
     <1>25, <1>26, <1>27
     DEF Next, Statement, Expression, Unwind

\* In every execution the state of the interpreter keeps its types: addresses
\* are fresh, every scope restored from `previous' was allocated once.
THEOREM TypeCorrect == Spec => []TypeOK
<1>1. QED
  BY InitTyped, StepTyped, PTL DEF Spec

-----------------------------------------------------------------------------
(* Where exceptions are caught.                                            *)

StatementKind == {"block", "loop"}

\* Inside arguments and an access there are only expressions, no statements.
NestingOK ==
  \A i \in 1 .. Len(stack) - 1 :
    stack[i + 1].kind \in StatementKind => stack[i].kind \notin {"args", "access"}

\* The innermost frame that is none of a block or a loop is the body of a call.
InBody ==
  \E i \in 1 .. Len(stack) :
    /\ stack[i].kind = "body"
    /\ \A j \in i + 1 .. Len(stack) : stack[j].kind \in StatementKind

\* Only a Break leaves the program, for a Return has its call around it.
HandlerOK ==
  /\ NestingOK
  /\ exc = "Return" => InBody
  /\ OnlyBreakTerminates

\* A call or statement begins: a statement only where one can stand.
LEMMA NestingPushed ==
  ASSUME StackOK, NestingOK, NEW frame \in Frame, stack' = Append(stack, frame),
         frame.kind \in StatementKind => InStatement
  PROVE  NestingOK'
<1>1. /\ Len(stack) \in Nat /\ Len(stack') = Len(stack) + 1
      /\ \A i \in 1 .. Len(stack) : stack'[i] = stack[i]
      /\ stack'[Len(stack) + 1] = frame
  BY PushFrame DEF StackOK
<1>2. ASSUME NEW i \in 1 .. Len(stack') - 1, stack'[i + 1].kind \in StatementKind
      PROVE  stack'[i].kind \notin {"args", "access"}
  <2>1. CASE i < Len(stack)
    <3>1. i \in 1 .. Len(stack) - 1 /\ stack'[i] = stack[i] /\ stack'[i + 1] = stack[i + 1]
      BY <1>1, <2>1
    <3> QED BY <1>2, <3>1 DEF NestingOK
  <2>2. CASE i = Len(stack)
    <3>1. stack # <<>> /\ frame.kind \in StatementKind /\ stack'[i] = stack[Len(stack)]
      BY <1>1, <1>2, <2>2
    <3>2. Top = stack[Len(stack)]
      BY <3>1, TopFrame
    <3> QED BY <3>1, <3>2 DEF InStatement, TopIs
  <2> QED BY <1>1, <2>1, <2>2
<1> QED BY <1>2 DEF NestingOK

\* A function is left.
LEMMA NestingPopped ==
  ASSUME StackOK, NestingOK, stack # <<>>, stack' = Front(stack)
  PROVE  NestingOK'
<1>1. /\ Len(stack) \in Nat /\ Len(stack') = Len(stack) - 1
      /\ \A i \in 1 .. Len(stack) - 1 : stack'[i] = stack[i]
  BY PopFrame DEF StackOK
<1>2. ASSUME NEW i \in 1 .. Len(stack') - 1, stack'[i + 1].kind \in StatementKind
      PROVE  stack'[i].kind \notin {"args", "access"}
  <2>1. i \in 1 .. Len(stack) - 1 /\ stack'[i] = stack[i] /\ stack'[i + 1] = stack[i + 1]
    BY <1>1
  <2> QED BY <1>2, <2>1 DEF NestingOK
<1> QED BY <1>2 DEF NestingOK

\* The frames of the running function's statements are those behind Caller.
LEMMA CallerIs ==
  ASSUME StackOK
  PROVE  /\ Caller \in 0 .. Len(stack)
         /\ \A i \in Caller + 1 .. Len(stack) : stack[i].kind \in StatementKind
         /\ Caller > 0 => stack[Caller].kind \notin StatementKind
<1> DEFINE n == Len(stack)
<1>1. n \in Nat /\ DOMAIN stack = 1 .. n
  BY LenProperties DEF StackOK
<1>2. InFunction = {i \in 1 .. n : \A j \in i .. n : stack[j].kind \in StatementKind}
  BY <1>1 DEF InFunction, StatementKind
<1>3. CASE InFunction = {}
  <2>1. Caller = n
    BY <1>1, <1>3, FS_EmptySet DEF Caller
  <2>2. n > 0 => n \in 1 .. n /\ \A j \in n .. n : j = n
    BY <1>1
  <2> QED BY <1>1, <1>2, <1>3, <2>1, <2>2
<1>4. CASE InFunction # {}
  <2>1. InFunction \subseteq Nat
    BY <1>1, <1>2
  <2>2. PICK m \in InFunction : \A j \in InFunction : ~(<<j, m>> \in OpToRel(<, Nat))
    BY <1>4, <2>1, NatLessThanWellFounded, WFMin
  <2>3. \A j \in InFunction : ~(j < m)
    BY <2>1, <2>2 DEF OpToRel
  <2>4. m \in 1 .. n /\ \A j \in m .. n : stack[j].kind \in StatementKind
    BY <1>2, <2>2
  <2>5. InFunction = m .. n
    <3>1. ASSUME NEW i \in m .. n PROVE i \in InFunction
      BY <1>1, <1>2, <2>4
    <3>2. ASSUME NEW i \in InFunction PROVE i \in m .. n
      BY <1>1, <1>2, <2>3, <2>4
    <3> QED BY <3>1, <3>2
  <2>6. Cardinality(InFunction) = n - m + 1
    BY <1>1, <2>4, <2>5, FS_Interval
  <2>7. Caller = m - 1
    BY <1>1, <2>4, <2>6 DEF Caller
  <2>8. m > 1 => stack[m - 1].kind \notin StatementKind
    <3>1. SUFFICES ASSUME m > 1, stack[m - 1].kind \in StatementKind PROVE FALSE
      OBVIOUS
    <3>2. m - 1 \in 1 .. n /\ \A j \in m - 1 .. n : stack[j].kind \in StatementKind
      BY <1>1, <2>4, <3>1
    <3>3. m - 1 \in InFunction
      BY <1>2, <3>2
    <3> QED BY <2>3, <2>4, <3>3
  <2> QED BY <1>1, <2>4, <2>7, <2>8
<1> QED BY <1>3, <1>4

\* A return stands in the body of a call.
LEMMA ReturnInBody ==
  ASSUME StackOK, NestingOK, InStatement, Caller > 0
  PROVE  InBody
<1> DEFINE n == Len(stack)
<1>1. n \in Nat /\ DOMAIN stack = 1 .. n /\ stack # <<>> /\ Caller \in 1 .. n
  BY CallerIs, LenProperties DEF StackOK
<1>2. stack[Caller].kind \notin StatementKind
  BY CallerIs
<1>3. stack[Caller].kind \notin {"args", "access"}
  <2>1. CASE Caller = n
    BY <1>1, <2>1, TopFrame DEF InStatement, TopIs
  <2>2. CASE Caller # n
    <3> DEFINE c == Caller
    <3>0. c \in 1 .. n /\ c # n /\ n \in Nat
      BY <1>1, <2>2
    <3> HIDE DEF c, n
    <3>1. c \in 1 .. n - 1 /\ c + 1 \in c + 1 .. n
      BY <3>0
    <3> USE DEF c, n
    <3>2. stack[Caller + 1].kind \in StatementKind
      BY <3>1, CallerIs
    <3> QED BY <3>1, <3>2 DEF NestingOK
  <2> QED BY <2>1, <2>2
<1>4. stack[Caller] \in Frame
  BY <1>1 DEF StackOK, IsFrame
<1>5. stack[Caller].kind = "body"
  BY <1>2, <1>3, <1>4 DEF Frame, StatementKind
<1> QED BY <1>1, <1>5, CallerIs DEF InBody

\* A return that leaves a block or a loop stays in the body of its call.
LEMMA ReturnStays ==
  ASSUME StackOK, InBody, stack # <<>>, Top.kind # "body", stack' = Front(stack)
  PROVE  InBody' /\ Top.kind \in StatementKind
<1>1. /\ Len(stack) \in Nat /\ Len(stack) >= 1 /\ Len(stack') = Len(stack) - 1
      /\ Top = stack[Len(stack)]
      /\ \A i \in 1 .. Len(stack) - 1 : stack'[i] = stack[i]
  BY PopFrame DEF StackOK, Top
<1>2. PICK i \in 1 .. Len(stack) :
        /\ stack[i].kind = "body"
        /\ \A j \in i + 1 .. Len(stack) : stack[j].kind \in StatementKind
  BY DEF InBody
<1>3. i \in 1 .. Len(stack')
  BY <1>1, <1>2
<1>4. \A j \in i + 1 .. Len(stack') : stack'[j].kind \in StatementKind
  BY <1>1, <1>2, <1>3
<1>5. Len(stack) \in i + 1 .. Len(stack)
  BY <1>1, <1>3
<1> QED BY <1>1, <1>2, <1>3, <1>4, <1>5 DEF InBody

\* Every step keeps exceptions on their way to a handler.
LEMMA StepHandled ==
  ASSUME TypeOK, HandlerOK, [Next]_vars
  PROVE  HandlerOK'
<1> USE DEF Running, Unwinding, TopIs, Pop, Throw
<1>0. StackOK /\ HeapOK /\ NestingOK /\ (exc = "Return" => InBody)
      /\ (status = "terminated" => exc = "Break")
  BY DEF TypeOK, HandlerOK, OnlyBreakTerminates
<1>s. ASSUME UNCHANGED stack PROVE NestingOK' /\ InBody' = InBody
  BY <1>0, <1>s DEF NestingOK, InBody
<1>p. ASSUME stack # <<>>, stack' = Front(stack) PROVE NestingOK'
  BY <1>0, <1>p, NestingPopped
<1>n. ASSUME exc' = "none", status' = "running", NestingOK' PROVE HandlerOK'
  BY <1>n DEF HandlerOK, OnlyBreakTerminates
<1>1. CASE EnterBlock
  <2> DEFINE frame == [kind |-> "block", previous |-> env, own |-> fresh, breaks |-> FALSE]
  <2>1. stack' = Append(stack, frame) /\ InStatement
    BY <1>1 DEF EnterBlock, Push
  <2>2. frame \in Frame
    BY <1>0 DEF Frame, HeapOK, Address, Global, Null
  <2> HIDE DEF frame
  <2>3. NestingOK'
    BY <1>0, <2>1, <2>2, NestingPushed
  <2> QED BY <1>1, <1>n, <2>3 DEF EnterBlock
<1>2. CASE EnterLoop
  <2> DEFINE frame == [kind |-> "loop", previous |-> Null, own |-> Null, breaks |-> FALSE]
  <2>1. stack' = Append(stack, frame) /\ InStatement
    BY <1>2 DEF EnterLoop, Push
  <2>2. frame \in Frame
    BY DEF Frame, Null
  <2> HIDE DEF frame
  <2>3. NestingOK'
    BY <1>0, <2>1, <2>2, NestingPushed
  <2> QED BY <1>2, <1>n, <2>3 DEF EnterLoop
<1>3. CASE LeaveBlock
  BY <1>3, <1>p, <1>n DEF LeaveBlock
<1>4. CASE LeaveLoop
  BY <1>4, <1>p, <1>n DEF LeaveLoop
<1>5. CASE LeaveBody
  BY <1>5, <1>p, <1>n DEF LeaveBody
<1>6. CASE EndAccess
  BY <1>6, <1>p, <1>n DEF EndAccess
<1>7. CASE Break \/ FalseConditionWithElse \/ Fail
  <2>1. /\ UNCHANGED <<stack, status>> /\ status = "running"
        /\ exc' \in {"Break", "Unhandled", "Error"}
    BY <1>7 DEF Break, FalseConditionWithElse, Fail
  <2> QED BY <1>s, <2>1 DEF HandlerOK, OnlyBreakTerminates
<1>8. CASE Return
  <2>1. /\ UNCHANGED <<stack, status>> /\ status = "running"
        /\ InStatement /\ Caller > 0
    BY <1>8 DEF Return
  <2>2. InBody
    BY <1>0, <2>1, ReturnInBody
  <2> QED BY <1>s, <2>1, <2>2 DEF HandlerOK, OnlyBreakTerminates
<1>9. ASSUME NEW f \in Func, BeginCall(f) PROVE HandlerOK'
  <2>1. PICK breaks \in BOOLEAN :
          stack' = Append(stack, [kind |-> "args", previous |-> Null, own |-> Null,
                                  breaks |-> breaks])
    BY <1>9 DEF BeginCall, Push
  <2> DEFINE frame == [kind |-> "args", previous |-> Null, own |-> Null, breaks |-> breaks]
  <2>2. frame \in Frame /\ frame.kind \notin StatementKind /\ stack' = Append(stack, frame)
    BY <2>1 DEF Frame, Null, StatementKind
  <2> HIDE DEF frame
  <2>3. NestingOK'
    BY <1>0, <2>2, NestingPushed
  <2> QED BY <1>9, <1>n, <2>3 DEF BeginCall
<1>10. ASSUME NEW args \in Table(Var, Values), EnterBody(args) PROVE HandlerOK'
  <2> DEFINE frame == [kind |-> "body", previous |-> env, own |-> fresh, breaks |-> Top.breaks]
  <2>1. stack # <<>> /\ stack' = Append(Front(stack), frame) /\ exc' = "none" /\ status' = "running"
    BY <1>10 DEF EnterBody
  <2>2. frame.kind = "body"
    OBVIOUS
  <2>3. frame \in Frame
    <3>1. Top.breaks \in BOOLEAN
      BY <1>0, <2>1, TopFrame DEF IsFrame, Frame
    <3> QED BY <1>0, <3>1 DEF Frame, HeapOK, Address, Global, Null
  <2> HIDE DEF frame
  <2>4. /\ Len(stack) \in Nat /\ Len(stack) >= 1
        /\ Front(stack) \in Seq(Frame) /\ Len(Front(stack)) = Len(stack) - 1
        /\ \A i \in 1 .. Len(stack) - 1 : Front(stack)[i] = stack[i]
    BY <1>0, <2>1, PopFrame DEF StackOK
  <2>5. /\ Len(stack') = Len(stack) /\ stack'[Len(stack)] = frame
        /\ \A i \in 1 .. Len(stack) - 1 : stack'[i] = stack[i]
    BY <2>1, <2>3, <2>4, PushFrame
  <2>6. ASSUME NEW i \in 1 .. Len(stack') - 1, stack'[i + 1].kind \in StatementKind
        PROVE  stack'[i].kind \notin {"args", "access"}
    <3>1. i + 1 # Len(stack)
      BY <2>2, <2>5, <2>6 DEF StatementKind
    <3>2. i \in 1 .. Len(stack) - 1 /\ stack'[i] = stack[i] /\ stack'[i + 1] = stack[i + 1]
      BY <2>4, <2>5, <3>1
    <3> QED BY <1>0, <2>6, <3>2 DEF NestingOK
  <2>7. NestingOK'
    BY <2>6 DEF NestingOK
  <2> QED BY <1>n, <2>1, <2>7
<1>11. ASSUME NEW args \in Table(Var, Values), RepeatedParameter(args) PROVE HandlerOK'
  BY <1>11, <1>p, <1>n DEF RepeatedParameter
<1>12. ASSUME NEW x \in Var, BeginAccess(x) PROVE HandlerOK'
  <2>1. PICK object \in DOMAIN heap :
          stack' = Append(stack, [kind |-> "access", previous |-> env, own |-> object,
                                  breaks |-> FALSE])
    BY <1>12 DEF BeginAccess, Push
  <2> DEFINE frame == [kind |-> "access", previous |-> env, own |-> object, breaks |-> FALSE]
  <2>2. frame \in Frame
    BY <1>0 DEF Frame, HeapOK, Address, Global, Null
  <2>3. frame.kind \notin StatementKind /\ stack' = Append(stack, frame)
    BY <2>1 DEF StatementKind
  <2> HIDE DEF frame
  <2>4. NestingOK'
    BY <1>0, <2>2, <2>3, NestingPushed
  <2> QED BY <1>12, <1>n, <2>4 DEF BeginAccess
<1>13. ASSUME NEW x \in Var, AccessNoObject(x) PROVE HandlerOK'
  BY <1>13, <1>s DEF AccessNoObject, HandlerOK, OnlyBreakTerminates
<1>14. ASSUME UNCHANGED <<stack, exc, status>>
       PROVE  HandlerOK'
  BY <1>0, <1>14, <1>s DEF HandlerOK, OnlyBreakTerminates
<1>15. CASE UnwindBlock \/ UnwindLoop
  <2>1. /\ stack # <<>> /\ stack' = Front(stack) /\ Top.kind # "body"
        /\ status = "running" /\ status' = status /\ exc' \in {exc, "none"}
    BY <1>15 DEF UnwindBlock, UnwindLoop
  <2>2. exc = "Return" => InBody'
    BY <1>0, <2>1, ReturnStays
  <2> QED BY <1>p, <2>1, <2>2 DEF HandlerOK, OnlyBreakTerminates
<1>16. CASE UnwindArgs \/ UnwindAccess
  <2>1. /\ stack # <<>> /\ stack' = Front(stack) /\ Top.kind # "body"
        /\ status = "running" /\ status' = status /\ exc' \in {exc, "none"}
    BY <1>16 DEF UnwindArgs, UnwindAccess
  <2>2. exc = "Return" => InBody'
    BY <1>0, <2>1, ReturnStays
  <2> QED BY <1>p, <2>1, <2>2 DEF HandlerOK, OnlyBreakTerminates
<1>17. CASE UnwindBody
  <2>1. /\ stack # <<>> /\ stack' = Front(stack)
        /\ status = "running" /\ status' = status /\ exc' \in {"Break", "none"}
    BY <1>17 DEF UnwindBody
  <2> QED BY <1>p, <2>1 DEF HandlerOK, OnlyBreakTerminates
<1>18. CASE UnwindProgram
  <2>1. stack = <<>> /\ UNCHANGED stack /\ exc # "none" /\ Len(stack) = 0
    BY <1>18 DEF UnwindProgram
  <2>2. ~InBody
    BY <2>1 DEF InBody
  <2>3. exc \in Exception
    BY DEF TypeOK
  <2>4. \/ exc' = "none" /\ status' \in {"running", "done"}
        \/ exc = "Break" /\ exc' = exc
    BY <1>0, <1>18, <2>1, <2>2, <2>3 DEF UnwindProgram, CILError, Exception
  <2> QED BY <1>s, <2>1, <2>4 DEF HandlerOK, OnlyBreakTerminates
<1>19. CASE Finish \/ UseAfterFree \/ EndlessLookup
  <2>1. UNCHANGED <<stack, exc>> /\ status' # "terminated"
    BY <1>19 DEF Finish, UseAfterFree, EndlessLookup
  <2> QED BY <1>0, <1>s, <2>1 DEF HandlerOK, OnlyBreakTerminates
<1>20. CASE Ended \/ ReportInPlace \/ UNCHANGED vars
  BY <1>14, <1>20 DEF Ended, ReportInPlace, vars
<1>21. ASSUME NEW x \in Var, NEW v \in Values, DeclareVar(x, v) \/ AssignVar(x, v)
       PROVE  HandlerOK'
  BY <1>14, <1>21 DEF DeclareVar, AssignVar
<1>22. ASSUME NEW f \in Nested, NEW defined \in BOOLEAN, DeclareFunc(f, defined)
       PROVE  HandlerOK'
  BY <1>14, <1>22 DEF DeclareFunc
<1>23. ASSUME NEW c \in Class, NEW member \in [DOMAIN c.members -> Values], New(c, member)
       PROVE  HandlerOK'
  BY <1>14, <1>23 DEF New
<1> QED
  BY <1>1, <1>2, <1>3, <1>4, <1>5, <1>6, <1>7, <1>8, <1>9, <1>10, <1>11, <1>12, <1>13,
     <1>15, <1>16, <1>17, <1>18, <1>19, <1>20, <1>21, <1>22, <1>23
     DEF Next, Statement, Expression, Unwind

\* In every execution a Return meets the call it belongs to, and only a Break can
\* leave run and end the process.
THEOREM ReturnMeetsCall == Spec => []OnlyBreakTerminates
<1>1. Init => HandlerOK
  <2>1. Len(<<>>) = 0
    OBVIOUS
  <2> QED BY <2>1 DEF Init, HandlerOK, NestingOK, OnlyBreakTerminates
<1>2. HandlerOK => OnlyBreakTerminates
  BY DEF HandlerOK
<1> QED BY <1>1, <1>2, TypeCorrect, StepHandled, PTL DEF Spec

-----------------------------------------------------------------------------
(* The values in the tables.                                               *)

\* Every variable of the heap holds a value of S.
HoldsOnly(h, S) ==
  \A d \in DOMAIN h : \A x \in DOMAIN h[d].variables : h[d].variables[x].value \in S

\* What a step may write in a table is a value the program can form.
LEMMA StepValues ==
  ASSUME TypeOK, [Next]_vars, NEW S, Values \subseteq S, NoObject \in S, HoldsOnly(heap, S)
  PROVE  /\ HoldsOnly(heap', S)
         /\ \A d \in DOMAIN heap \cap DOMAIN heap' : heap'[d].of = heap[d].of
<1> USE DEF Running, Unwinding, TopIs, Pop, Throw, HoldsOnly
<1>0. HeapOK /\ StackOK /\ IsHeap(heap)
  BY DEF TypeOK, HeapOK
<1>r. /\ \A c \in Class : IsTable(c.methods, Func, Body) /\ IsTable(c.members, Var, BOOLEAN)
      /\ Nested \subseteq Func
  BY ProgramTyped DEF TypeOK
<1>1. \A v \in Values : Typed(v).value \in S
  BY DEF Typed
<1>e. ASSUME EndScope, stack # <<>>, Top.kind \in ScopeKind, fresh' = fresh
      PROVE  /\ HoldsOnly(heap', S)
             /\ \A d \in DOMAIN heap \cap DOMAIN heap' : heap'[d].of = heap[d].of
  BY <1>0, <1>e, EndScopeHeap
<1>n. ASSUME NEW variables, NewScope(variables), IsTable(variables, Var, Variable),
             \A x \in DOMAIN variables : variables[x].value \in S
      PROVE  /\ HoldsOnly(heap', S)
             /\ \A d \in DOMAIN heap \cap DOMAIN heap' : heap'[d].of = heap[d].of
  BY <1>0, <1>n, NewScopeHeap
<1>u. ASSUME heap' = heap
      PROVE  /\ HoldsOnly(heap', S)
             /\ \A d \in DOMAIN heap \cap DOMAIN heap' : heap'[d].of = heap[d].of
  BY <1>u
<1>2. CASE EnterBlock
  <2>1. NewScope(Empty)
    BY <1>2 DEF EnterBlock
  <2>2. QED
    BY <1>n, <2>1, EmptyIsTable
<1>3. CASE LeaveBlock \/ LeaveBody
  BY <1>3, <1>e DEF LeaveBlock, LeaveBody, ScopeKind
<1>4. ASSUME NEW x \in Var, NEW v \in Values, DeclareVar(x, v)
      PROVE  /\ HoldsOnly(heap', S)
             /\ \A d \in DOMAIN heap \cap DOMAIN heap' : heap'[d].of = heap[d].of
  <2>1. /\ Typed(v) \in Variable /\ env \in DOMAIN heap
        /\ heap' = DefineVar(heap, env, x, Typed(v))
    BY <1>0, <1>4, ValuesTyped DEF DeclareVar
  <2>2. /\ DOMAIN heap' = DOMAIN heap
        /\ \A d \in DOMAIN heap : heap'[d].of = heap[d].of
        /\ heap'[env].variables = Put(heap[env].variables, x, Typed(v))
        /\ \A d \in DOMAIN heap \ {env} : heap'[d] = heap[d]
    BY <1>0, <2>1, DefineVarHeap
  <2>3. \A y \in DOMAIN heap'[env].variables : heap'[env].variables[y].value \in S
    BY <1>1, <2>1, <2>2 DEF Put
  <2>4. QED
    BY <2>2, <2>3
<1>5. ASSUME NEW f \in Nested, NEW defined \in BOOLEAN, DeclareFunc(f, defined)
      PROVE  /\ HoldsOnly(heap', S)
             /\ \A d \in DOMAIN heap \cap DOMAIN heap' : heap'[d].of = heap[d].of
  <2>1. PICK body \in Body : heap' = DefineFunc(heap, env, f, body)
    BY <1>5 DEF DeclareFunc, Body
  <2>2. env \in DOMAIN heap /\ f \in Func
    BY <1>5, <1>r DEF DeclareFunc
  <2>3. /\ DOMAIN heap' = DOMAIN heap
        /\ \A d \in DOMAIN heap : /\ heap'[d].of = heap[d].of
                                  /\ heap'[d].variables = heap[d].variables
    BY <1>0, <2>1, <2>2, DefineFuncHeap
  <2>4. QED
    BY <2>3
<1>6. ASSUME NEW x \in Var, NEW v \in Values, AssignVar(x, v)
      PROVE  /\ HoldsOnly(heap', S)
             /\ \A d \in DOMAIN heap \cap DOMAIN heap' : heap'[d].of = heap[d].of
  <2>1. PICK e \in VarHolder(heap, env, x) : heap' = Assign(heap, e, x, v)
    BY <1>6 DEF AssignVar
  <2>2. e \in DOMAIN heap /\ x \in DOMAIN heap[e].variables /\ v \in Nat
    BY <1>0, VarHolderHolds, ValuesTyped
  <2>3. /\ DOMAIN heap' = DOMAIN heap
        /\ \A d \in DOMAIN heap : /\ heap'[d].of = heap[d].of
                                  /\ DOMAIN heap'[d].variables = DOMAIN heap[d].variables
        /\ heap'[e].variables[x].value = v
        /\ \A y \in DOMAIN heap[e].variables \ {x} :
             heap'[e].variables[y] = heap[e].variables[y]
        /\ \A d \in DOMAIN heap \ {e} : heap'[d] = heap[d]
    BY <1>0, <2>1, <2>2, AssignHeap
  <2>4. \A y \in DOMAIN heap'[e].variables : heap'[e].variables[y].value \in S
    BY <2>2, <2>3
  <2>5. QED
    BY <2>3, <2>4
<1>7. ASSUME NEW c \in Class, NEW member \in [DOMAIN c.members -> Values], New(c, member)
      PROVE  /\ HoldsOnly(heap', S)
             /\ \A d \in DOMAIN heap \cap DOMAIN heap' : heap'[d].of = heap[d].of
  <2> DEFINE members == [x \in DOMAIN c.members |->
                          [object |-> c.members[x], value |-> member[x]]]
             r == ObjectEnvironment(c.methods, members)
  <2>1. IsTable(c.methods, Func, Body)
    BY <1>r
  <2>2. \A x \in DOMAIN c.members : member[x] \in Nat /\ c.members[x] \in BOOLEAN
    BY <1>0, <1>7, ValuesTyped, <1>r DEF IsTable
  <2>3. IsTable(members, Var, Variable) /\ \A x \in DOMAIN members : members[x].value \in S
    BY <1>7, <2>2, <1>r DEF IsTable, Variable
  <2> HIDE DEF members
  <2>4. IsEnvironment(r) /\ r.variables = members
    BY <2>1, <2>3, ObjectEnvironmentIs
  <2>5. heap' = Allocate(heap, fresh, r) /\ fresh \in Address /\ fresh \notin DOMAIN heap
    BY <1>0, <1>7 DEF New, members, HeapOK, Address, Global
  <2> HIDE DEF r
  <2>6. /\ DOMAIN heap' = DOMAIN heap \cup {fresh} /\ heap'[fresh] = r
        /\ \A d \in DOMAIN heap : heap'[d] = heap[d]
    <3> DEFINE g == Allocate(heap, fresh, r)
    <3>1. fresh \in Address
      BY <2>5
    <3>2. /\ DOMAIN g = DOMAIN heap \cup {fresh} /\ g[fresh] = r
          /\ \A d \in DOMAIN heap \ {fresh} : g[d] = heap[d]
      BY <1>0, <2>4, <3>1, AllocateHeap
    <3>3. QED
      BY <2>5, <3>2
  <2>7. QED
    BY <2>3, <2>4, <2>5, <2>6
<1>8. ASSUME NEW args \in Table(Var, Values), EnterBody(args) \/ RepeatedParameter(args)
      PROVE  /\ HoldsOnly(heap', S)
             /\ \A d \in DOMAIN heap \cap DOMAIN heap' : heap'[d].of = heap[d].of
  <2>1. NewScope([x \in DOMAIN args |-> Typed(args[x])])
    BY <1>8 DEF EnterBody, RepeatedParameter
  <2>2. \A x \in DOMAIN args : args[x] \in Values
    BY <1>8 DEF Table
  <2>3. QED
    BY <1>0, <1>1, <1>n, <2>1, <2>2, ArgumentsTyped
<1>9. ASSUME NEW x \in Var, BeginAccess(x)
      PROVE  /\ HoldsOnly(heap', S)
             /\ \A d \in DOMAIN heap \cap DOMAIN heap' : heap'[d].of = heap[d].of
  <2>1. PICK object \in DOMAIN heap : heap' = SetEnclosing(heap, object, env)
    BY <1>9 DEF BeginAccess, Enclose
  <2>2. env \in Nat
    BY <1>0 DEF HeapOK, Global
  <2>3. /\ DOMAIN heap' = DOMAIN heap
        /\ \A d \in DOMAIN heap :
             heap'[d].of = heap[d].of /\ heap'[d].variables = heap[d].variables
    BY <1>0, <2>1, <2>2, SetEnclosingHeap
  <2>4. QED
    BY <2>3
<1>10. CASE EndAccess
  <2>1. env \in DOMAIN heap /\ heap' = SetEnclosing(heap, env, Null) /\ Null \in Nat
    BY <1>10 DEF EndAccess, Release, Null
  <2>2. /\ DOMAIN heap' = DOMAIN heap
        /\ \A d \in DOMAIN heap :
             heap'[d].of = heap[d].of /\ heap'[d].variables = heap[d].variables
    BY <1>0, <2>1, SetEnclosingHeap
  <2>3. QED
    BY <2>2
<1>11. CASE UnwindBlock \/ UnwindBody
  BY <1>11, <1>e, <1>u DEF UnwindBlock, UnwindBody, ScopeKind
<1>12. CASE Finish
  <2>1. heap' \in {heap, Delete(heap, env)}
    BY <1>12 DEF Finish
  <2> DEFINE g == Delete(heap, env)
  <2>2. /\ DOMAIN g = DOMAIN heap \ {env}
        /\ \A d \in DOMAIN heap \ {env} : g[d] = heap[d]
    BY <1>0, DeleteHeap
  <2>3. CASE heap' = g
    BY <2>2, <2>3
  <2>4. QED
    BY <1>u, <2>1, <2>3
<1>13. CASE \/ EnterLoop \/ LeaveLoop \/ Break \/ Return \/ FalseConditionWithElse \/ Fail
            \/ ReportInPlace \/ UnwindLoop \/ UnwindArgs \/ UnwindAccess \/ UnwindProgram
            \/ UseAfterFree \/ EndlessLookup \/ Ended \/ UNCHANGED vars
            \/ \E f \in Func : BeginCall(f)
            \/ \E x \in Var : AccessNoObject(x)
  BY <1>13, <1>u
     DEF EnterLoop, LeaveLoop, Break, Return, FalseConditionWithElse, Fail, ReportInPlace,
         UnwindLoop, UnwindArgs, UnwindAccess, UnwindProgram, UseAfterFree, EndlessLookup,
         Ended, vars, BeginCall, AccessNoObject
<1>14. QED
  BY <1>2, <1>3, <1>4, <1>5, <1>6, <1>7, <1>8, <1>9, <1>10, <1>11, <1>12, <1>13
     DEF Next, Statement, Expression, Unwind

-----------------------------------------------------------------------------
(* The global environment.                                                 *)

\* While a block or a call is running, neither env_ nor any `previous' saved
\* inside it is the global environment: no delete can hit it.
Away(s, e) ==
  \A i \in DOMAIN s : s[i].kind \in {"block", "body"} =>
    /\ e # Global
    /\ \A j \in DOMAIN s : j > i /\ s[j].kind \in ScopeKind => s[j].previous # Global

\* The inductive invariant: besides, the global environment is no object's, so
\* no access makes it current either.
GlobalInv ==
  /\ TypeOK
  /\ HoldsOnly(heap, Nat \ {Global})
  /\ Global \in DOMAIN heap => heap[Global].of = "scope"
  /\ status = "running" => Global \in DOMAIN heap /\ Away(stack, env)

\* A frame pushed inside a block or call saves an env_ that is not global.
LEMMA AwayPush ==
  ASSUME NEW s \in Seq(Frame), NEW e, Away(s, e), NEW frame \in Frame, NEW g,
         frame.kind \in ScopeKind => frame.previous = e /\ g # Global,
         frame.kind \notin ScopeKind => g = e
  PROVE  Away(Append(s, frame), g)
<1>1. /\ Len(s) \in Nat /\ DOMAIN s = 1 .. Len(s)
      /\ DOMAIN Append(s, frame) = 1 .. Len(s) + 1
      /\ \A i \in 1 .. Len(s) : Append(s, frame)[i] = s[i]
      /\ Append(s, frame)[Len(s) + 1] = frame
  BY PushFrame, LenProperties
<1>2. QED
  BY <1>1 DEF Away, ScopeKind

\* A frame left restores its `previous' or leaves env_ as it is.
LEMMA AwayPop ==
  ASSUME NEW s \in Seq(Frame), s # <<>>, NEW e, Away(s, e), NEW g,
         \/ g = e
         \/ s[Len(s)].kind \in ScopeKind /\ g = s[Len(s)].previous
  PROVE  Away(Front(s), g)
<1>1. /\ Len(s) \in Nat /\ Len(s) >= 1 /\ DOMAIN s = 1 .. Len(s)
      /\ DOMAIN Front(s) = 1 .. Len(s) - 1
      /\ \A i \in 1 .. Len(s) - 1 : Front(s)[i] = s[i]
  BY PopFrame, LenProperties
<1>2. QED
  BY <1>1 DEF Away

\* At the start the heap is the global environment.
LEMMA InitHeap ==
  ASSUME Init
  PROVE  /\ DOMAIN heap = {Global} /\ heap[Global].of = "scope"
         /\ heap[Global].enclosing = Null /\ DOMAIN heap[Global].variables = {}
<1>1. heap = Put([e \in {} |-> e], Global,
                 [NewEnvironment(Null) EXCEPT
                    !.functions = [f \in IF Interactive THEN {} ELSE Func |-> "defined"]])
  BY DEF Init, Allocate
<1>2. QED
  BY <1>1 DEF Put, NewEnvironment, Empty

\* No step makes the global environment current inside a block or call.
LEMMA StepGlobal == GlobalInv /\ [Next]_vars => GlobalInv'
<1> SUFFICES ASSUME GlobalInv, [Next]_vars PROVE GlobalInv'
  OBVIOUS
<1> USE DEF Running, Unwinding, TopIs, Pop, Throw
<1>0. /\ TypeOK /\ HeapOK /\ StackOK /\ IsHeap(heap)
      /\ stack \in Seq(Frame) /\ fresh # Global /\ fresh \in Nat
  BY DEF GlobalInv, TypeOK, HeapOK, StackOK, Global, Address
<1>1. TypeOK'
  BY <1>0, StepTyped
<1>2. Global \notin Objects /\ Values \subseteq Nat \ {Global}
  BY <1>0 DEF GlobalInv, Objects, Values, NoObject, Global, HeapOK, Address
<1>3. /\ HoldsOnly(heap', Nat \ {Global})
      /\ \A d \in DOMAIN heap \cap DOMAIN heap' : heap'[d].of = heap[d].of
  BY <1>0, <1>2, StepValues DEF GlobalInv, NoObject, Global
<1> DEFINE Goal == /\ Global \in DOMAIN heap' => heap'[Global].of = "scope"
                   /\ status' = "running" => Global \in DOMAIN heap' /\ Away(stack', env')
<1>q. ASSUME DOMAIN heap' = DOMAIN heap, env' = env,
             stack' = stack \/ (stack # <<>> /\ stack' = Front(stack)),
             status = "running" \/ status' # "running"
      PROVE  Goal
  BY <1>0, <1>3, <1>q, AwayPop DEF GlobalInv
<1>e. ASSUME status = "running", EndScope, stack # <<>>, Top.kind \in {"block", "body"},
             stack' = Front(stack), fresh' = fresh
      PROVE  Goal
  <2>1. /\ Top = stack[Len(stack)] /\ Len(stack) \in DOMAIN stack
        /\ DOMAIN heap' = DOMAIN heap \ {env} /\ env' = Top.previous
    BY <1>0, <1>e, TopFrame, EndScopeHeap DEF ScopeKind
  <2>2. env # Global
    BY <1>e, <2>1 DEF GlobalInv, Away
  <2>3. Away(stack', env')
    BY <1>0, <1>e, <2>1, AwayPop DEF GlobalInv, ScopeKind
  <2>4. QED
    BY <1>3, <1>e, <2>1, <2>2, <2>3 DEF GlobalInv
<1>n. ASSUME NEW variables, NewScope(variables), IsTable(variables, Var, Variable)
      PROVE  DOMAIN heap' = DOMAIN heap \cup {fresh} /\ env' = fresh
  BY <1>0, <1>n, NewScopeHeap
<1>4. CASE EnterBlock
  <2> DEFINE frame == [kind |-> "block", previous |-> env, own |-> fresh, breaks |-> FALSE]
  <2>f. frame \in Frame
    BY <1>0 DEF Frame, HeapOK, Global
  <2>s. NewScope(Empty) /\ stack' = Append(stack, frame) /\ status = "running"
    BY <1>4 DEF EnterBlock, Push
  <2>1. /\ stack' = Append(stack, frame) /\ frame \in Frame
        /\ DOMAIN heap' = DOMAIN heap \cup {fresh} /\ env' = fresh
        /\ status = "running"
    BY <1>n, <2>f, <2>s, EmptyIsTable
  <2>a. frame.kind \in ScopeKind /\ frame.previous = env
    BY DEF ScopeKind
  <2> HIDE DEF frame
  <2>b. Away(Append(stack, frame), fresh)
    BY <1>0, <2>1, <2>a, AwayPush DEF GlobalInv
  <2>2. Away(stack', env')
    BY <2>1, <2>b
  <2>3. Goal
    BY <1>0, <1>3, <2>1, <2>2 DEF GlobalInv
  <2>4. QED
    BY <1>1, <1>3, <2>3 DEF GlobalInv
<1>5. CASE LeaveBlock \/ LeaveBody
  <2>1. Goal
    BY <1>5, <1>e DEF LeaveBlock, LeaveBody
  <2>2. QED
    BY <1>1, <1>3, <2>1 DEF GlobalInv
<1>6. CASE EnterLoop \/ \E f \in Func : BeginCall(f)
  <2> DEFINE Made(kind, breaks) ==
               [kind |-> kind, previous |-> Null, own |-> Null, breaks |-> breaks]
  <2>1. \E kind \in {"loop", "args"}, breaks \in BOOLEAN :
          stack' = Append(stack, Made(kind, breaks))
    <3>1. CASE EnterLoop
      BY <3>1 DEF EnterLoop, Push
    <3>2. ASSUME NEW f \in Func, BeginCall(f)
          PROVE  \E breaks \in BOOLEAN : stack' = Append(stack, Made("args", breaks))
      BY <3>2 DEF BeginCall, Push
    <3>3. QED
      BY <1>6, <3>1, <3>2
  <2>2. heap' = heap /\ env' = env /\ status = "running"
    BY <1>6 DEF EnterLoop, BeginCall
  <2>a. PICK kind \in {"loop", "args"}, breaks \in BOOLEAN :
          stack' = Append(stack, Made(kind, breaks))
    BY <2>1
  <2> DEFINE frame == Made(kind, breaks)
  <2>b. frame \in Frame /\ frame.kind \notin ScopeKind
    BY <2>a DEF Frame, ScopeKind, Null
  <2>c. stack' = Append(stack, frame)
    BY <2>a
  <2> HIDE DEF frame
  <2>d. Away(Append(stack, frame), env)
    BY <1>0, <2>2, <2>b, AwayPush DEF GlobalInv
  <2>3. Away(stack', env')
    BY <2>2, <2>c, <2>d
  <2>4. QED
    BY <1>1, <1>3, <2>2, <2>3 DEF GlobalInv
<1>7. ASSUME NEW args \in Table(Var, Values), EnterBody(args) \/ RepeatedParameter(args)
      PROVE  GlobalInv'
  <2> DEFINE frame == [kind |-> "body", previous |-> env, own |-> fresh, breaks |-> Top.breaks]
  <2>1. DOMAIN heap' = DOMAIN heap \cup {fresh} /\ env' = fresh
    BY <1>0, <1>7, <1>n, ArgumentsTyped DEF EnterBody, RepeatedParameter
  <2>2. status = "running" /\ stack # <<>> /\ Top.kind \notin ScopeKind
    BY <1>7 DEF EnterBody, RepeatedParameter, ScopeKind
  <2>3. Front(stack) \in Seq(Frame) /\ Away(Front(stack), env) /\ Top.breaks \in BOOLEAN
    BY <1>0, <2>2, AwayPop, PopFrame, TopFrame DEF GlobalInv, IsFrame, Frame
  <2>4. frame \in Frame
    BY <1>0, <2>3 DEF Frame, HeapOK, Global
  <2>5. CASE EnterBody(args)
    <3>1. stack' = Append(Front(stack), frame)
      BY <2>5 DEF EnterBody
    <3>a. frame.kind \in ScopeKind /\ frame.previous = env
      BY DEF ScopeKind
    <3> HIDE DEF frame
    <3>b. Away(Append(Front(stack), frame), fresh)
      BY <1>0, <2>3, <2>4, <3>a, AwayPush
    <3>2. Away(stack', env')
      BY <2>1, <3>1, <3>b
    <3>3. QED
      BY <1>1, <1>3, <2>1, <2>2, <3>2 DEF GlobalInv
  <2>6. CASE RepeatedParameter(args)
    <3>1. \A e : Away(Front(stack), e) /\ fresh # Global => Away(Front(stack), fresh)
      BY DEF Away
    <3>2. stack' = Front(stack)
      BY <2>6 DEF RepeatedParameter
    <3>3. QED
      BY <1>0, <1>1, <1>3, <2>1, <2>2, <2>3, <3>1, <3>2 DEF GlobalInv
  <2>7. QED
    BY <1>7, <2>5, <2>6
<1>8. ASSUME NEW c \in Class, NEW member \in [DOMAIN c.members -> Values], New(c, member)
      PROVE  GlobalInv'
  <2>1. DOMAIN heap' = DOMAIN heap \cup {fresh} /\ env' = env /\ stack' = stack
    BY <1>8 DEF New, Allocate, Put
  <2>2. QED
    BY <1>0, <1>1, <1>3, <1>8, <2>1 DEF GlobalInv, New
<1>9. ASSUME NEW x \in Var, BeginAccess(x) PROVE GlobalInv'
  <2> DEFINE Made(object) ==
               [kind |-> "access", previous |-> env, own |-> object, breaks |-> FALSE]
  <2>1. PICK d \in VarHolder(heap, env, x) :
          LET object == heap[d].variables[x].value
          IN  /\ stack' = Append(stack, Made(object))
              /\ object \in DOMAIN heap
              /\ heap' = SetEnclosing(heap, object, env) /\ env' = object
    BY <1>9 DEF BeginAccess, Enclose, Push
  <2>2. d \in DOMAIN heap /\ x \in DOMAIN heap[d].variables
    BY VarHolderHolds
  <2>3. env' \in Nat /\ env' # Global
    BY <2>1, <2>2 DEF GlobalInv, HoldsOnly
  <2>4. DOMAIN heap' = DOMAIN heap /\ status = "running"
    BY <1>9, <2>1 DEF SetEnclosing, BeginAccess, Enclose
  <2> DEFINE object == heap[d].variables[x].value
             frame  == Made(object)
  <2>a. object \in Nat /\ object # Global /\ env' = object /\ stack' = Append(stack, frame)
    BY <2>1, <2>3
  <2>b. frame \in Frame /\ frame.kind \in ScopeKind /\ frame.previous = env
    BY <1>0, <2>a DEF Frame, ScopeKind, HeapOK, Global
  <2> HIDE DEF frame, object
  <2>c. Away(Append(stack, frame), object)
    BY <1>0, <2>4, <2>a, <2>b, AwayPush DEF GlobalInv
  <2>5. Away(stack', env')
    BY <2>a, <2>c
  <2>6. QED
    BY <1>1, <1>3, <2>4, <2>5 DEF GlobalInv
<1>10. CASE EndAccess
  <2>1. /\ Top = stack[Len(stack)] /\ status = "running" /\ stack # <<>>
        /\ DOMAIN heap' = DOMAIN heap /\ env' = Top.previous /\ stack' = Front(stack)
        /\ Top.kind \in ScopeKind
    BY <1>0, <1>10, TopFrame DEF EndAccess, Release, SetEnclosing, ScopeKind
  <2>2. Away(stack', env')
    BY <1>0, <2>1, AwayPop DEF GlobalInv
  <2>3. QED
    BY <1>1, <1>3, <2>1, <2>2 DEF GlobalInv
<1>11. CASE UnwindBlock \/ UnwindBody
  <2>1. Goal
    BY <1>11, <1>e, <1>q DEF UnwindBlock, UnwindBody
  <2>2. QED
    BY <1>1, <1>3, <2>1 DEF GlobalInv
<1>12. CASE \/ \E x \in Var, v \in Values : DeclareVar(x, v) \/ AssignVar(x, v)
            \/ \E f \in Nested, defined \in BOOLEAN : DeclareFunc(f, defined)
  <2>1. /\ DOMAIN heap' = DOMAIN heap /\ env' = env /\ stack' = stack
        /\ status = "running"
    BY <1>12 DEF DeclareVar, AssignVar, DeclareFunc, DefineVar, DefineFunc, Assign
  <2>2. QED
    BY <1>1, <1>3, <1>q, <2>1 DEF GlobalInv
<1>13. CASE \/ LeaveLoop \/ Break \/ Return \/ FalseConditionWithElse \/ Fail
            \/ ReportInPlace \/ UnwindLoop \/ UnwindArgs \/ UnwindAccess
            \/ UseAfterFree \/ EndlessLookup \/ \E x \in Var : AccessNoObject(x)
            \/ UnwindProgram
  <2>1. /\ heap' = heap /\ env' = env /\ status = "running"
        /\ stack' = stack \/ (stack # <<>> /\ stack' = Front(stack))
    BY <1>13
       DEF LeaveLoop, Break, Return, FalseConditionWithElse, Fail, ReportInPlace, UnwindLoop,
           UnwindArgs, UnwindAccess, UnwindProgram, UseAfterFree, EndlessLookup, AccessNoObject
  <2>2. QED
    BY <1>1, <1>3, <1>q, <2>1 DEF GlobalInv
<1>14. CASE Finish
  <2>1. status' # "running" /\ DOMAIN heap' \subseteq DOMAIN heap
    BY <1>14 DEF Finish, Delete, Restrict
  <2>2. QED
    BY <1>1, <1>3, <2>1 DEF GlobalInv
<1>15. CASE Ended \/ UNCHANGED vars
  BY <1>1, <1>3, <1>15 DEF Ended, vars, GlobalInv
<1>16. QED
  BY <1>4, <1>5, <1>6, <1>7, <1>8, <1>9, <1>10, <1>11, <1>12, <1>13, <1>14, <1>15
     DEF Next, Statement, Expression, Unwind

\* Whatever a program does, and in both modes, no block or call deletes the
\* global environment before the process ends.
THEOREM GlobalSurvives == Spec => []GlobalNeverFreed
<1>1. Init => GlobalInv
  <2>1. ASSUME Init PROVE GlobalInv
    <3>1. stack = <<>> /\ DOMAIN stack = {}
      BY <2>1, EmptySeq, LenProperties DEF Init
    <3>2. QED
      BY <2>1, <3>1, InitTyped, InitHeap DEF GlobalInv, HoldsOnly, Away
  <2>2. QED
    BY <2>1
<1>2. GlobalInv => GlobalNeverFreed
  BY DEF GlobalInv, GlobalNeverFreed
<1>3. QED
  BY <1>1, <1>2, StepGlobal, PTL DEF Spec

-----------------------------------------------------------------------------
(* What the steps do to the heap and the stack.                            *)

ObjectsOf(h) == {d \in DOMAIN h : h[d].of = "object"}
Scoped(h)    == {d \in DOMAIN h : h[d].of = "scope"}

\* Apart from E, k has the environments of h and encloses them as h does.
Encloses(h, k, E) ==
  \A d \in DOMAIN h \ E : d \in DOMAIN k /\ k[d].enclosing = h[d].enclosing

\* A new scope, enclosed by env_, has become current.
ScopeMade ==
  /\ env' = fresh /\ fresh \notin DOMAIN heap /\ DOMAIN heap' = DOMAIN heap \cup {fresh}
  /\ heap'[fresh].of = "scope" /\ heap'[fresh].enclosing = env
  /\ Encloses(heap, heap', {fresh})

\* What happened stays in the history, and a process that ended stays so.
LEMMA StepHistory ==
  ASSUME [Next]_vars
  PROVE  events \subseteq events' /\ (status' = "running" => status = "running")
BY DEF Next, Statement, Expression, Unwind, EnterBlock, LeaveBlock, LeaveBody, EnterLoop,
       LeaveLoop, Break, Return, FalseConditionWithElse, Fail, ReportInPlace, BeginCall,
       EnterBody, RepeatedParameter, New, DeclareVar, DeclareFunc, AssignVar, BeginAccess,
       AccessNoObject, EndAccess, UnwindBlock, UnwindLoop, UnwindArgs, UnwindBody,
       UnwindAccess, UnwindProgram, Finish, UseAfterFree, EndlessLookup, Ended, vars,
       Running, Unwinding, Throw, Pop, TopIs

\* What a step allocates is the next address.
LEMMA StepDomain ==
  ASSUME TypeOK, [Next]_vars
  PROVE  /\ DOMAIN heap' \subseteq DOMAIN heap \cup {fresh}
         /\ \A d \in DOMAIN heap \cap DOMAIN heap' : heap'[d].of = heap[d].of
<1>1. DOMAIN heap' \subseteq DOMAIN heap \cup {fresh}
  <2>1. CASE \/ EnterBlock
             \/ \E args \in Table(Var, Values) : EnterBody(args) \/ RepeatedParameter(args)
             \/ \E c \in Class : \E member \in [DOMAIN c.members -> Values] : New(c, member)
    BY <2>1 DEF EnterBlock, EnterBody, RepeatedParameter, NewScope, New, Allocate, Put
  <2>2. CASE LeaveBlock \/ LeaveBody \/ UnwindBlock \/ UnwindBody \/ Finish
    BY <2>2 DEF LeaveBlock, LeaveBody, UnwindBlock, UnwindBody, Finish, EndScope, Delete, Restrict
  <2>3. CASE \/ \E x \in Var : BeginAccess(x)
             \/ \E x \in Var, v \in Values : DeclareVar(x, v) \/ AssignVar(x, v)
             \/ \E f \in Nested, defined \in BOOLEAN : DeclareFunc(f, defined)
             \/ EndAccess
    BY <2>3 DEF BeginAccess, Enclose, SetEnclosing, DeclareVar, DefineVar, AssignVar, Assign,
                DeclareFunc, DefineFunc, EndAccess, Release
  <2>4. CASE \/ EnterLoop \/ LeaveLoop \/ Break \/ Return \/ FalseConditionWithElse \/ Fail
             \/ ReportInPlace \/ UnwindLoop \/ UnwindArgs \/ UnwindAccess \/ UnwindProgram
             \/ UseAfterFree \/ EndlessLookup \/ Ended \/ UNCHANGED vars
             \/ \E f \in Func : BeginCall(f)
             \/ \E x \in Var : AccessNoObject(x)
    BY <2>4
       DEF EnterLoop, LeaveLoop, Break, Return, FalseConditionWithElse, Fail, ReportInPlace,
           UnwindLoop, UnwindArgs, UnwindAccess, UnwindProgram, UseAfterFree, EndlessLookup,
           Ended, vars, BeginCall, AccessNoObject, Throw
  <2> QED BY <2>1, <2>2, <2>3, <2>4 DEF Next, Statement, Expression, Unwind
<1>2. Values \subseteq Nat /\ NoObject \in Nat /\ HoldsOnly(heap, Nat)
  BY ValuesTyped
     DEF TypeOK, HeapOK, HoldsOnly, IsHeap, IsEnvironment, IsTable, Variable, NoObject
<1>3. \A d \in DOMAIN heap \cap DOMAIN heap' : heap'[d].of = heap[d].of
  <2> DEFINE S == Nat
  <2>1. Values \subseteq S /\ NoObject \in S /\ HoldsOnly(heap, S)
    BY <1>2
  <2> HIDE DEF S
  <2> QED BY <2>1, StepValues
<1> QED BY <1>1, <1>3

\* run_block_stmt saves env_ and makes a scope.
LEMMA BlockStep ==
  ASSUME HeapOK, EnterBlock
  PROVE  /\ ScopeMade
         /\ \E frame \in Frame :
              /\ stack' = Append(stack, frame) /\ frame.kind = "block"
              /\ frame.previous = env /\ frame.own = fresh
<1> DEFINE frame == [kind |-> "block", previous |-> env, own |-> fresh, breaks |-> FALSE]
<1>1. NewScope(Empty) /\ stack' = Append(stack, frame)
  BY DEF EnterBlock, Push
<1>2. ScopeMade
  BY <1>1, EmptyIsTable, NewScopeHeap DEF ScopeMade, Encloses
<1>3. /\ frame \in Frame /\ frame.kind = "block"
      /\ frame.previous = env /\ frame.own = fresh
  BY DEF Frame, HeapOK, Global, Address
<1> HIDE DEF frame
<1> QED BY <1>1, <1>2, <1>3

\* run_call_expr makes a scope, and saves env_ when the parameters are defined.
LEMMA CallStep ==
  ASSUME HeapOK, StackOK, NEW args \in Table(Var, Values),
         EnterBody(args) \/ RepeatedParameter(args)
  PROVE  /\ stack # <<>> /\ Top = stack[Len(stack)] /\ Top.kind = "args" /\ ScopeMade
         /\ \/ stack' = Front(stack) /\ "leaked" \in events'
            \/ \E frame \in Frame :
                 /\ stack' = Append(Front(stack), frame) /\ frame.kind = "body"
                 /\ frame.previous = env /\ frame.own = fresh
<1> DEFINE frame == [kind |-> "body", previous |-> env, own |-> fresh, breaks |-> Top.breaks]
<1>1. /\ stack # <<>> /\ Top.kind = "args"
      /\ NewScope([x \in DOMAIN args |-> Typed(args[x])])
  BY DEF EnterBody, RepeatedParameter, TopIs
<1>2. Top = stack[Len(stack)] /\ Top.breaks \in BOOLEAN
  BY <1>1, TopFrame DEF IsFrame, Frame
<1>3. ScopeMade
  BY <1>1, ArgumentsTyped, NewScopeHeap DEF ScopeMade, Encloses
<1>4. CASE EnterBody(args)
  <2>1. stack' = Append(Front(stack), frame)
    BY <1>4 DEF EnterBody
  <2>2. /\ frame \in Frame /\ frame.kind = "body"
        /\ frame.previous = env /\ frame.own = fresh
    BY <1>2 DEF Frame, HeapOK, Global, Address
  <2> HIDE DEF frame
  <2> QED BY <1>1, <1>2, <1>3, <2>1, <2>2
<1>5. CASE RepeatedParameter(args)
  <2>1. stack' = Front(stack) /\ "leaked" \in events'
    BY <1>5 DEF RepeatedParameter, Pop
  <2> QED BY <1>1, <1>2, <1>3, <2>1
<1> QED BY <1>4, <1>5

\* run_access_expr saves env_ and hangs the object's environment in.
LEMMA AccessStep ==
  ASSUME HeapOK, StackOK, NEW S, HoldsOnly(heap, S), NEW x \in Var, BeginAccess(x)
  PROVE  \E object \in DOMAIN heap \cap S :
           /\ DOMAIN heap' = DOMAIN heap /\ heap'[object].enclosing = env /\ env' = object
           /\ Encloses(heap, heap', {object})
           /\ events' = events \cup
                (IF \E i \in DOMAIN stack : stack[i].kind = "access" /\ stack[i].own = object
                 THEN {"reentered"} ELSE {})
           /\ \E frame \in Frame :
                /\ stack' = Append(stack, frame) /\ frame.kind = "access"
                /\ frame.previous = env /\ frame.own = object
<1> DEFINE Made(object) ==
             [kind |-> "access", previous |-> env, own |-> object, breaks |-> FALSE]
<1>1. PICK d \in VarHolder(heap, env, x) :
        LET object == heap[d].variables[x].value
        IN  /\ stack' = Append(stack, Made(object)) /\ object \in DOMAIN heap
            /\ heap' = SetEnclosing(heap, object, env) /\ env' = object
            /\ events' = events \cup
                 (IF \E i \in DOMAIN stack : stack[i].kind = "access" /\ stack[i].own = object
                  THEN {"reentered"} ELSE {})
  BY DEF BeginAccess, Enclose, Push
<1>2. d \in DOMAIN heap /\ x \in DOMAIN heap[d].variables
  BY VarHolderHolds
<1> DEFINE object == heap[d].variables[x].value
           frame  == Made(object)
           g      == SetEnclosing(heap, object, env)
<1>3. object \in S
  BY <1>2 DEF HoldsOnly
<1>4. /\ stack' = Append(stack, frame) /\ object \in DOMAIN heap /\ heap' = g /\ env' = object
      /\ events' = events \cup
           (IF \E i \in DOMAIN stack : stack[i].kind = "access" /\ stack[i].own = object
            THEN {"reentered"} ELSE {})
  BY <1>1
<1> HIDE DEF object
<1>5. /\ frame \in Frame /\ frame.kind = "access" /\ frame.previous = env
      /\ frame.own = object
  BY <1>4 DEF Frame, HeapOK, IsHeap, Global, Address
<1> HIDE DEF frame
<1>6. IsHeap(heap) /\ env \in Nat
  BY DEF HeapOK, Global
<1>7. /\ DOMAIN g = DOMAIN heap /\ g[object].enclosing = env
      /\ \A e \in DOMAIN heap \ {object} : g[e] = heap[e]
  BY <1>4, <1>6, SetEnclosingHeap
<1> HIDE DEF g
<1> QED BY <1>3, <1>4, <1>5, <1>7 DEF Encloses

\* Its end cuts off env_ and restores what was saved.
LEMMA AccessEnds ==
  ASSUME HeapOK, StackOK, EndAccess
  PROVE  /\ stack # <<>> /\ stack' = Front(stack) /\ Top = stack[Len(stack)]
         /\ Top.kind = "access" /\ env' = Top.previous /\ status = "running"
         /\ DOMAIN heap' = DOMAIN heap /\ Encloses(heap, heap', {env})
<1>1. /\ stack # <<>> /\ stack' = Front(stack) /\ Top.kind = "access" /\ env' = Top.previous
      /\ status = "running"
      /\ env \in DOMAIN heap /\ heap' = SetEnclosing(heap, env, Null) /\ Null \in Nat
  BY DEF EndAccess, Release, Running, TopIs, Pop, Null
<1> DEFINE g == SetEnclosing(heap, env, Null)
<1>2. DOMAIN g = DOMAIN heap /\ \A e \in DOMAIN heap \ {env} : g[e] = heap[e]
  BY <1>1, SetEnclosingHeap DEF HeapOK
<1>3. DOMAIN heap' = DOMAIN heap /\ Encloses(heap, heap', {env})
  BY <1>1, <1>2 DEF Encloses
<1> QED BY <1>1, <1>3, TopFrame

\* The end of a block or call deletes env_ and restores what was saved.
LEMMA ScopeEnds ==
  ASSUME HeapOK, StackOK, EndScope, stack # <<>>, Top.kind \in {"block", "body"}, fresh' = fresh
  PROVE  /\ Top = stack[Len(stack)] /\ env' = Top.previous
         /\ DOMAIN heap' = DOMAIN heap \ {env} /\ Encloses(heap, heap', {env})
BY TopFrame, EndScopeHeap DEF ScopeKind, Encloses

\* A loop or the arguments of a call save nothing.
LEMMA PlainStep ==
  ASSUME EnterLoop \/ \E f \in Func : BeginCall(f)
  PROVE  /\ UNCHANGED <<heap, env>> /\ status = "running"
         /\ \E frame \in Frame : stack' = Append(stack, frame) /\ frame.kind \notin ScopeKind
<1> DEFINE Made(kind, breaks) ==
             [kind |-> kind, previous |-> Null, own |-> Null, breaks |-> breaks]
<1>1. UNCHANGED <<heap, env>> /\ status = "running"
  BY DEF EnterLoop, BeginCall, Running
<1>2. \E kind \in {"loop", "args"}, breaks \in BOOLEAN :
        stack' = Append(stack, Made(kind, breaks))
  <2>1. CASE EnterLoop
    BY <2>1 DEF EnterLoop, Push
  <2>2. ASSUME NEW f \in Func, BeginCall(f)
        PROVE  \E breaks \in BOOLEAN : stack' = Append(stack, Made("args", breaks))
    BY <2>2 DEF BeginCall, Push
  <2> QED BY <2>1, <2>2
<1>3. PICK kind \in {"loop", "args"}, breaks \in BOOLEAN :
        stack' = Append(stack, Made(kind, breaks))
  BY <1>2
<1> DEFINE frame == Made(kind, breaks)
<1>4. frame \in Frame /\ frame.kind \notin ScopeKind /\ stack' = Append(stack, frame)
  BY <1>3 DEF Frame, ScopeKind, Null
<1> HIDE DEF frame
<1> QED BY <1>1, <1>4

\* Declarations, assignments and new objects leave env_, the stack and the
\* pointers between environments alone.
LEMMA TableStep ==
  ASSUME HeapOK,
         \/ \E x \in Var, v \in Values : DeclareVar(x, v) \/ AssignVar(x, v)
         \/ \E f \in Nested, defined \in BOOLEAN : DeclareFunc(f, defined)
  PROVE  /\ UNCHANGED <<env, stack>> /\ status = "running"
         /\ DOMAIN heap' = DOMAIN heap /\ Encloses(heap, heap', {})
<1> USE DEF Running, Encloses, HeapOK, IsHeap, IsEnvironment
<1>1. ASSUME NEW x \in Var, NEW v \in Values, DeclareVar(x, v)
      PROVE  /\ UNCHANGED <<env, stack>> /\ status = "running"
             /\ DOMAIN heap' = DOMAIN heap /\ Encloses(heap, heap', {})
  BY <1>1 DEF DeclareVar, DefineVar
<1>2. ASSUME NEW x \in Var, NEW v \in Values, AssignVar(x, v)
      PROVE  /\ UNCHANGED <<env, stack>> /\ status = "running"
             /\ DOMAIN heap' = DOMAIN heap /\ Encloses(heap, heap', {})
  BY <1>2 DEF AssignVar, Assign
<1>3. ASSUME NEW f \in Nested, NEW defined \in BOOLEAN, DeclareFunc(f, defined)
      PROVE  /\ UNCHANGED <<env, stack>> /\ status = "running"
             /\ DOMAIN heap' = DOMAIN heap /\ Encloses(heap, heap', {})
  BY <1>3 DEF DeclareFunc, DefineFunc
<1> QED BY <1>1, <1>2, <1>3

\* Object::create allocates an environment and changes no other.
LEMMA NewStep ==
  ASSUME HeapOK, NEW c \in Class, NEW member \in [DOMAIN c.members -> Values], New(c, member)
  PROVE  /\ UNCHANGED <<env, stack>> /\ status = "running" /\ fresh \notin DOMAIN heap
         /\ DOMAIN heap' = DOMAIN heap \cup {fresh} /\ heap'[fresh].of = "object"
         /\ Encloses(heap, heap', {})
BY DEF New, Running, Allocate, Put, ObjectEnvironment, Encloses, HeapOK, Global

\* The other steps leave the heap and env_ alone, and of the stack at most a
\* frame that saved nothing, unless an exception leaves a block, call or access.
LEMMA OtherStep ==
  ASSUME \/ LeaveLoop \/ Break \/ Return \/ FalseConditionWithElse \/ Fail
         \/ ReportInPlace \/ UnwindLoop \/ UnwindArgs \/ UseAfterFree \/ EndlessLookup
         \/ UnwindProgram \/ Ended \/ UNCHANGED vars \/ \E x \in Var : AccessNoObject(x)
  PROVE  /\ UNCHANGED <<heap, env>>
         /\ \/ UNCHANGED stack
            \/ stack # <<>> /\ stack' = Front(stack) /\ Top.kind \in {"loop", "args"}
BY DEF LeaveLoop, Break, Return, FalseConditionWithElse, Fail, ReportInPlace, UnwindLoop,
       UnwindArgs, UnwindProgram, UseAfterFree, EndlessLookup, AccessNoObject, Ended, vars,
       Throw, Pop, TopIs

\* An exception leaves a block or call: `return' ends it, the others leave its
\* scope behind.
LEMMA UnwindStep ==
  ASSUME UnwindBlock \/ UnwindBody
  PROVE  /\ stack # <<>> /\ Top.kind \in {"block", "body"} /\ stack' = Front(stack)
         /\ \/ EndScope /\ fresh' = fresh
            \/ UNCHANGED <<heap, env>> /\ "leaked" \in events'
BY DEF UnwindBlock, UnwindBody, Pop, TopIs

-----------------------------------------------------------------------------
(* The objects.                                                            *)

\* The innermost of the first n frames that set env_ is an access.
InAccess(s, n) ==
  \E i \in 1 .. n : s[i].kind = "access" /\ \A j \in i + 1 .. n : s[j].kind \notin ScopeKind

\* Outside of accesses neither env_ nor a `previous' saved there is one of O.
Apart(s, e, O) ==
  /\ ~InAccess(s, Len(s)) => e \notin O
  /\ \A i \in 1 .. Len(s) :
       s[i].kind \in ScopeKind /\ ~InAccess(s, i - 1) => s[i].previous \notin O

\* No block or call deletes an object's environment, while exceptions do not
\* cross accesses.
AliveInv ==
  /\ TypeOK
  /\ Disciplined =>
       /\ HoldsOnly(heap, {NoObject} \cup ObjectsOf(heap))
       /\ status = "running" => Apart(stack, env, ObjectsOf(heap))

\* InAccess is about the first n frames only.
LEMMA InAccessSame ==
  ASSUME NEW s, NEW t, NEW n \in Nat, \A i \in 1 .. n : t[i] = s[i]
  PROVE  InAccess(t, n) <=> InAccess(s, n)
BY DEF InAccess

\* A frame that does not set env_ leaves the innermost one what it was.
LEMMA InAccessThrough ==
  ASSUME NEW s, NEW n \in Nat, s[n + 1].kind \notin ScopeKind, InAccess(s, n + 1)
  PROVE  InAccess(s, n)
<1>1. PICK i \in 1 .. n + 1 :
        s[i].kind = "access" /\ \A j \in i + 1 .. n + 1 : s[j].kind \notin ScopeKind
  BY DEF InAccess
<1>2. i \in 1 .. n
  BY <1>1 DEF ScopeKind
<1> QED BY <1>1, <1>2 DEF InAccess

\* Nor does it change what is inside of an access.
LEMMA InAccessBack ==
  ASSUME NEW s, NEW n \in Nat, s[n + 1].kind \notin ScopeKind, InAccess(s, n)
  PROVE  InAccess(s, n + 1)
<1>1. PICK i \in 1 .. n :
        s[i].kind = "access" /\ \A j \in i + 1 .. n : s[j].kind \notin ScopeKind
  BY DEF InAccess
<1>2. i \in 1 .. n + 1 /\ \A j \in i + 1 .. n + 1 : s[j].kind \notin ScopeKind
  BY <1>1
<1> QED BY <1>1, <1>2 DEF InAccess

\* A block or call begins a part of the stack that is outside of accesses.
LEMMA NotInAccess ==
  ASSUME NEW s, NEW n \in Nat, n > 0, s[n].kind \in {"block", "body"}
  PROVE  ~InAccess(s, n)
<1> SUFFICES ASSUME NEW i \in 1 .. n, s[i].kind = "access",
                    \A j \in i + 1 .. n : s[j].kind \notin ScopeKind
             PROVE  FALSE
  BY DEF InAccess
<1>1. CASE i = n
  BY <1>1
<1>2. CASE i # n
  BY <1>2 DEF ScopeKind
<1> QED BY <1>1, <1>2

\* A construct begins: it saves env_, and a block or call makes a scope current.
LEMMA ApartPush ==
  ASSUME NEW s \in Seq(Frame), NEW frame \in Frame, NEW e, NEW g, NEW O, Apart(s, e, O),
         frame.kind \in ScopeKind => frame.previous = e,
         frame.kind \in {"block", "body"} => g \notin O,
         frame.kind \notin ScopeKind => g = e
  PROVE  Apart(Append(s, frame), g, O)
<1> DEFINE t == Append(s, frame)
           n == Len(s)
<1>1. /\ n \in Nat /\ Len(t) = n + 1 /\ t[n + 1] = frame
      /\ \A i \in 1 .. n : t[i] = s[i]
  BY PushFrame
<1> HIDE DEF t
<1>2. ASSUME NEW k \in 0 .. n PROVE InAccess(t, k) <=> InAccess(s, k)
  BY <1>1, <1>2, InAccessSame
<1>3. ~InAccess(t, n + 1) => g \notin O
  <2>1. CASE frame.kind = "access"
    <3>1. n + 1 \in 1 .. n + 1 /\ t[n + 1].kind = "access"
          /\ \A j \in n + 1 + 1 .. n + 1 : t[j].kind \notin ScopeKind
      BY <1>1, <2>1
    <3> QED BY <3>1 DEF InAccess
  <2>2. CASE frame.kind \in {"block", "body"}
    BY <2>2
  <2>3. CASE frame.kind \notin ScopeKind
    <3>1. InAccess(s, n) => InAccess(t, n + 1)
      BY <1>1, <1>2, <2>3, InAccessBack
    <3> QED BY <2>3, <3>1 DEF Apart
  <2> QED BY <2>1, <2>2, <2>3 DEF ScopeKind
<1>4. ASSUME NEW i \in 1 .. n + 1, t[i].kind \in ScopeKind, ~InAccess(t, i - 1)
      PROVE  t[i].previous \notin O
  <2>1. CASE i \in 1 .. n
    BY <1>1, <1>2, <1>4, <2>1 DEF Apart
  <2>2. CASE i = n + 1
    <3>1. ~InAccess(s, n)
      BY <1>1, <1>2, <1>4, <2>2
    <3> QED BY <1>1, <1>4, <2>2, <3>1 DEF Apart
  <2> QED BY <1>1, <2>1, <2>2
<1>5. Apart(t, g, O)
  BY <1>1, <1>3, <1>4 DEF Apart
<1> QED BY <1>5 DEF t

\* A construct ends: env_ is restored, or stays a scope that was left behind.
LEMMA ApartPop ==
  ASSUME NEW s \in Seq(Frame), s # <<>>, NEW e, NEW g, NEW O, Apart(s, e, O),
         \/ s[Len(s)].kind \in ScopeKind /\ g = s[Len(s)].previous
         \/ s[Len(s)].kind # "access" /\ g = e
  PROVE  Apart(Front(s), g, O)
<1> DEFINE t == Front(s)
           n == Len(s) - 1
<1>1. /\ n \in Nat /\ Len(s) = n + 1 /\ Len(t) = n
      /\ \A i \in 1 .. n : t[i] = s[i]
  BY PopFrame
<1> HIDE DEF t, n
<1>2. ASSUME NEW k \in 0 .. n PROVE InAccess(t, k) <=> InAccess(s, k)
  BY <1>1, <1>2, InAccessSame
<1>3. ~InAccess(t, n) => g \notin O
  <2> SUFFICES ASSUME ~InAccess(s, n) PROVE g \notin O
    BY <1>1, <1>2
  <2>1. CASE s[n + 1].kind \in ScopeKind /\ g = s[n + 1].previous
    <3>1. \A i \in 1 .. Len(s) : i = n + 1 => ~InAccess(s, i - 1)
      <4> SUFFICES ASSUME NEW i \in 1 .. Len(s), i = n + 1
                   PROVE  ~InAccess(s, i - 1)
        OBVIOUS
      <4>1. i - 1 = n
        BY <1>1
      <4> QED BY <4>1
    <3>2. n + 1 \in 1 .. Len(s)
      BY <1>1
    <3> QED BY <2>1, <3>1, <3>2 DEF Apart
  <2>2. CASE s[n + 1].kind \in {"block", "body"} /\ g = e
    <3>1. ~InAccess(s, Len(s))
      BY <1>1, <2>2, NotInAccess
    <3> QED BY <2>2, <3>1 DEF Apart
  <2>3. CASE s[n + 1].kind \notin ScopeKind /\ g = e
    <3>1. ~InAccess(s, Len(s))
      BY <1>1, <2>3, InAccessThrough
    <3> QED BY <2>3, <3>1 DEF Apart
  <2> QED BY <1>1, <2>1, <2>2, <2>3 DEF ScopeKind
<1>4. ASSUME NEW i \in 1 .. n, t[i].kind \in ScopeKind, ~InAccess(t, i - 1)
      PROVE  t[i].previous \notin O
  BY <1>1, <1>2, <1>4 DEF Apart
<1>5. Apart(t, g, O)
  BY <1>1, <1>3, <1>4 DEF Apart
<1> QED BY <1>5 DEF t

\* A new object is none of the environments that are current or saved.
LEMMA ApartNew ==
  ASSUME StackOK, HeapOK, NEW O, Apart(stack, env, O)
  PROVE  Apart(stack, env, O \cup {fresh})
<1>1. env # fresh /\ Len(stack) \in Nat /\ DOMAIN stack = 1 .. Len(stack)
  BY LenProperties DEF HeapOK, StackOK, Global, Address
<1>2. \A i \in 1 .. Len(stack) : stack[i].kind \in ScopeKind => stack[i].previous # fresh
  BY <1>1 DEF StackOK, IsFrame, HeapOK, Global, Address
<1> QED BY <1>1, <1>2 DEF Apart

\* No step deletes an object's environment or loses track of where env_ is one.
LEMMA StepAlive ==
  ASSUME AliveInv, [Next]_vars
  PROVE  AliveInv'
<1>0. /\ TypeOK /\ HeapOK /\ StackOK /\ stack \in Seq(Frame) /\ fresh \notin DOMAIN heap
  BY DEF AliveInv, TypeOK, HeapOK, StackOK, Global, Address
<1>1. TypeOK'
  BY <1>0, StepTyped
<1>2. events \subseteq events' /\ (status' = "running" => status = "running")
  BY StepHistory
<1> SUFFICES ASSUME Disciplined'
             PROVE  /\ HoldsOnly(heap', {NoObject} \cup ObjectsOf(heap'))
                    /\ status' = "running" => Apart(stack', env', ObjectsOf(heap'))
  BY <1>1 DEF AliveInv
<1> DEFINE O == ObjectsOf(heap)
<1>3. /\ HoldsOnly(heap, {NoObject} \cup O)
      /\ status = "running" => Apart(stack, env, O)
  BY <1>2 DEF AliveInv, Disciplined
<1>4. /\ DOMAIN heap' \subseteq DOMAIN heap \cup {fresh}
      /\ \A d \in DOMAIN heap \cap DOMAIN heap' : heap'[d].of = heap[d].of
  BY <1>0, StepDomain
<1> DEFINE Goal == /\ O \subseteq DOMAIN heap'
                   /\ status' = "running" => Apart(stack', env', ObjectsOf(heap'))
<1>5. ASSUME Goal
      PROVE  /\ HoldsOnly(heap', {NoObject} \cup ObjectsOf(heap'))
             /\ status' = "running" => Apart(stack', env', ObjectsOf(heap'))
  <2>1. Values = {NoObject} \cup O
    BY DEF Values, Objects, ObjectsOf
  <2>2. HoldsOnly(heap', {NoObject} \cup O)
    BY <1>0, <1>3, <2>1, StepValues
  <2>3. O \subseteq ObjectsOf(heap')
    BY <1>4, <1>5 DEF ObjectsOf
  <2> QED BY <1>5, <2>2, <2>3 DEF HoldsOnly
<1>s. ASSUME DOMAIN heap' = DOMAIN heap PROVE ObjectsOf(heap') = O /\ O \subseteq DOMAIN heap'
  BY <1>4, <1>s DEF ObjectsOf
<1>q. ASSUME DOMAIN heap' = DOMAIN heap, UNCHANGED env,
             \/ UNCHANGED stack
             \/ stack # <<>> /\ stack' = Front(stack) /\ Top.kind # "access"
      PROVE  Goal
  <2>1. CASE UNCHANGED stack
    BY <1>2, <1>3, <1>q, <1>s, <2>1
  <2>2. CASE stack # <<>> /\ stack' = Front(stack) /\ Top.kind # "access"
    BY <1>0, <1>2, <1>3, <1>q, <1>s, <2>2, TopFrame, ApartPop
  <2> QED BY <1>q, <2>1, <2>2
<1>e. ASSUME EndScope, stack # <<>>, Top.kind \in {"block", "body"}, stack' = Front(stack),
             fresh' = fresh, status = "running"
      PROVE  Goal
  <2>1. /\ Top = stack[Len(stack)] /\ env' = Top.previous
        /\ DOMAIN heap' = DOMAIN heap \ {env}
    BY <1>0, <1>e, ScopeEnds
  <2>2. env \notin O
    <3>1. Len(stack) \in Nat /\ Len(stack) > 0
      BY <1>0, <1>e, PopFrame
    <3>2. ~InAccess(stack, Len(stack))
      BY <1>e, <2>1, <3>1, NotInAccess
    <3> QED BY <1>3, <1>e, <3>2 DEF Apart
  <2>3. ObjectsOf(heap') = O /\ O \subseteq DOMAIN heap'
    BY <1>4, <2>1, <2>2 DEF ObjectsOf
  <2>4. Apart(stack', env', O)
    BY <1>0, <1>3, <1>e, <2>1, ApartPop DEF ScopeKind
  <2> QED BY <2>3, <2>4
<1>n. ASSUME ScopeMade
      PROVE  ObjectsOf(heap') = O /\ O \subseteq DOMAIN heap' /\ env' = fresh /\ fresh \notin O
  BY <1>4, <1>n DEF ObjectsOf, ScopeMade
<1>6. CASE EnterBlock
  <2>1. ScopeMade /\ status = "running"
    BY <1>0, <1>6, BlockStep DEF EnterBlock, Running
  <2>2. PICK frame \in Frame :
          stack' = Append(stack, frame) /\ frame.kind = "block" /\ frame.previous = env
    BY <1>0, <1>6, BlockStep
  <2>3. Apart(Append(stack, frame), fresh, O)
    BY <1>0, <1>3, <1>n, <2>1, <2>2, ApartPush DEF ScopeKind
  <2>4. Goal
    BY <1>n, <2>1, <2>2, <2>3
  <2> QED BY <1>5, <2>4
<1>7. CASE LeaveBlock \/ LeaveBody
  <2>1. Goal
    BY <1>7, <1>e DEF LeaveBlock, LeaveBody, Running, TopIs, Pop
  <2> QED BY <1>5, <2>1
<1>8. CASE EnterLoop \/ \E f \in Func : BeginCall(f)
  <2>1. UNCHANGED <<heap, env>> /\ status = "running"
    BY <1>8, PlainStep
  <2>2. PICK frame \in Frame : stack' = Append(stack, frame) /\ frame.kind \notin ScopeKind
    BY <1>8, PlainStep
  <2>3. Apart(Append(stack, frame), env, O)
    BY <1>0, <1>3, <2>1, <2>2, ApartPush DEF ScopeKind
  <2>4. Goal
    BY <1>s, <2>1, <2>2, <2>3
  <2> QED BY <1>5, <2>4
<1>9. ASSUME NEW args \in Table(Var, Values), EnterBody(args) \/ RepeatedParameter(args)
      PROVE  Goal
  <2>1. /\ stack # <<>> /\ Top = stack[Len(stack)] /\ Top.kind = "args" /\ ScopeMade
        /\ \/ stack' = Front(stack)
           \/ \E frame \in Frame : /\ stack' = Append(Front(stack), frame)
                                   /\ frame.kind = "body" /\ frame.previous = env
    BY <1>0, <1>9, CallStep
  <2>2. Front(stack) \in Seq(Frame)
    BY <1>0, <2>1, PopFrame
  <2>3. status = "running"
    BY <1>9 DEF EnterBody, RepeatedParameter, Running
  <2>4. Apart(Front(stack), env, O)
    BY <1>0, <1>3, <2>1, <2>3, ApartPop
  <2>5. CASE stack' = Front(stack)
    BY <1>n, <2>1, <2>4, <2>5 DEF Apart
  <2>6. ASSUME NEW frame \in Frame, stack' = Append(Front(stack), frame),
               frame.kind = "body", frame.previous = env
        PROVE  Goal
    <3>1. Apart(Append(Front(stack), frame), fresh, O)
      BY <1>n, <2>1, <2>2, <2>4, <2>6, ApartPush DEF ScopeKind
    <3> QED BY <1>n, <2>1, <2>6, <3>1
  <2> QED BY <2>1, <2>5, <2>6
<1>10. ASSUME NEW c \in Class, NEW member \in [DOMAIN c.members -> Values], New(c, member)
       PROVE  Goal
  <2>1. /\ DOMAIN heap' = DOMAIN heap \cup {fresh} /\ heap'[fresh].of = "object"
        /\ UNCHANGED <<env, stack>> /\ status = "running"
    BY <1>0, <1>10, NewStep
  <2>2. ObjectsOf(heap') = O \cup {fresh} /\ O \subseteq DOMAIN heap'
    BY <1>0, <1>4, <2>1 DEF ObjectsOf
  <2>3. Apart(stack, env, O \cup {fresh})
    BY <1>0, <1>3, <2>1, ApartNew
  <2> QED BY <2>1, <2>2, <2>3
<1>11. ASSUME NEW x \in Var, BeginAccess(x) PROVE Goal
  <2>1. PICK object \in DOMAIN heap :
          /\ DOMAIN heap' = DOMAIN heap /\ env' = object
          /\ \E frame \in Frame : /\ stack' = Append(stack, frame)
                                  /\ frame.kind = "access" /\ frame.previous = env
    BY <1>0, <1>3, <1>11, AccessStep
  <2>2. PICK frame \in Frame :
          stack' = Append(stack, frame) /\ frame.kind = "access" /\ frame.previous = env
    BY <2>1
  <2>3. status = "running"
    BY <1>11 DEF BeginAccess, Running
  <2>4. Apart(Append(stack, frame), object, O)
    BY <1>0, <1>3, <2>2, <2>3, ApartPush DEF ScopeKind
  <2> QED BY <1>s, <2>1, <2>2, <2>4
<1>12. CASE EndAccess
  <2>1. /\ Top = stack[Len(stack)] /\ stack # <<>> /\ stack' = Front(stack)
        /\ DOMAIN heap' = DOMAIN heap /\ env' = Top.previous /\ Top.kind = "access"
        /\ status = "running"
    BY <1>0, <1>12, AccessEnds
  <2>2. Apart(stack', env', O)
    BY <1>0, <1>3, <2>1, ApartPop DEF ScopeKind
  <2>3. Goal
    BY <1>s, <2>1, <2>2
  <2> QED BY <1>5, <2>3
<1>13. CASE UnwindBlock \/ UnwindBody
  <2>1. /\ status = "running" /\ stack # <<>> /\ Top.kind \in {"block", "body"}
        /\ stack' = Front(stack)
        /\ (EndScope /\ fresh' = fresh) \/ UNCHANGED <<heap, env>>
    BY <1>13, UnwindStep DEF UnwindBlock, UnwindBody, Unwinding
  <2>2. CASE EndScope /\ fresh' = fresh
    BY <1>5, <1>e, <2>1, <2>2, Zenon
  <2>3. CASE UNCHANGED <<heap, env>>
    <3>1. DOMAIN heap' = DOMAIN heap /\ UNCHANGED env /\ Top.kind # "access"
      BY <2>1, <2>3
    <3> QED BY <1>5, <1>q, <2>1, <3>1, Zenon
  <2> QED BY <2>1, <2>2, <2>3
<1>14. CASE \/ \E x \in Var, v \in Values : DeclareVar(x, v) \/ AssignVar(x, v)
            \/ \E f \in Nested, defined \in BOOLEAN : DeclareFunc(f, defined)
  <2>1. DOMAIN heap' = DOMAIN heap /\ UNCHANGED env /\ UNCHANGED stack
    BY <1>0, <1>14, TableStep
  <2> QED BY <1>5, <1>q, <2>1
<1>15. CASE \/ LeaveLoop \/ Break \/ Return \/ FalseConditionWithElse \/ Fail
            \/ ReportInPlace \/ UnwindLoop \/ UnwindArgs \/ UseAfterFree \/ EndlessLookup
            \/ UnwindProgram \/ Ended \/ UNCHANGED vars \/ \E x \in Var : AccessNoObject(x)
  <2>1. /\ UNCHANGED <<heap, env>>
        /\ \/ UNCHANGED stack
           \/ stack # <<>> /\ stack' = Front(stack) /\ Top.kind # "access"
    BY <1>15, OtherStep
  <2> QED BY <1>5, <1>q, <2>1
<1>16. CASE UnwindAccess
  BY <1>16 DEF UnwindAccess, Disciplined
<1>17. CASE Finish
  <2>1. stack = <<>> /\ status = "running" /\ status' # "running"
        /\ heap' \in {heap, Delete(heap, env)}
    BY <1>17 DEF Finish, Running
  <2>2. ~InAccess(stack, Len(stack))
    BY <2>1 DEF InAccess
  <2>3. env \notin O
    BY <1>3, <2>1, <2>2 DEF Apart
  <2>4. O \subseteq DOMAIN heap'
    BY <2>1, <2>3 DEF Delete, Restrict, ObjectsOf
  <2> QED BY <1>5, <2>1, <2>4
<1> QED
  BY <1>5, <1>6, <1>7, <1>8, <1>9, <1>10, <1>11, <1>12, <1>13, <1>14, <1>15, <1>16, <1>17
     DEF Next, Statement, Expression, Unwind

\* The constructor of Interpreter allocates no object.
LEMMA InitAlive == Init => AliveInv
<1> SUFFICES ASSUME Init PROVE AliveInv
  OBVIOUS
<1>1. TypeOK /\ HoldsOnly(heap, {NoObject} \cup ObjectsOf(heap)) /\ ObjectsOf(heap) = {}
  BY InitTyped, InitHeap DEF HoldsOnly, ObjectsOf
<1>2. stack = <<>> /\ Len(stack) = 0
  BY DEF Init
<1> QED BY <1>1, <1>2 DEF AliveInv, Apart

\* In a program that no exception left in the middle of an access, every object
\* that a variable holds keeps its environment.
THEOREM ObjectsSurvive == Spec => []ObjectsAlive
<1>1. AliveInv => ObjectsAlive
  BY DEF AliveInv, ObjectsAlive, HoldsOnly, Objects, ObjectsOf
<1> QED BY <1>1, InitAlive, StepAlive, PTL DEF Spec

-----------------------------------------------------------------------------
(* The scopes.                                                             *)

Frames(s, n) == {i \in 1 .. n : s[i].kind \in ScopeKind}

\* What the innermost of the first n frames that set env_ made current.
Inner(s, n) == IF Frames(s, n) = {} THEN Global ELSE s[Max(Frames(s, n))].own

\* Blocks and calls, which own the scope they made.
Owners(s) == {i \in 1 .. Len(s) : s[i].kind \in {"block", "body"}}
Owned(s)  == {s[i].own : i \in Owners(s)}

Distinct(s) == \A i, j \in Owners(s) : s[i].own = s[j].own => i = j

\* env_ and what is saved follow the stack; its scopes are those of the heap.
Balanced(s, e, h) ==
  /\ e = Inner(s, Len(s))
  /\ \A i \in 1 .. Len(s) : s[i].kind \in ScopeKind => s[i].previous = Inner(s, i - 1)
  /\ Scoped(h) = {Global} \cup Owned(s)
  /\ Global \notin Owned(s)
  /\ Distinct(s)

Undisturbed == status = "running" /\ events \cap {"leaked", "unwound"} = {}

BalanceInv ==
  /\ TypeOK
  /\ Undisturbed => Balanced(stack, env, heap)

\* A set of places has a last one.
LEMMA LastPlace ==
  ASSUME NEW n \in Nat, NEW S, S \subseteq 1 .. n, S # {}
  PROVE  Max(S) \in S /\ \A i \in S : Max(S) >= i
<1> DEFINE D == {n - i : i \in S}
<1>1. D \subseteq Nat /\ D # {}
  <2>1. \A i \in S : n - i \in Nat
    OBVIOUS
  <2>2. PICK i \in S : TRUE
    OBVIOUS
  <2>3. n - i \in D
    BY <2>2
  <2> QED BY <2>1, <2>3
<1>2. PICK d \in D : \A c \in D : ~(<<c, d>> \in OpToRel(<, Nat))
  BY <1>1, NatLessThanWellFounded, WFMin
<1>3. \A c \in D : ~(c < d)
  BY <1>1, <1>2 DEF OpToRel
<1>4. PICK m \in S : d = n - m
  BY <1>2
<1>5. \A i \in S : m >= i
  <2> SUFFICES ASSUME NEW i \in S PROVE m >= i
    OBVIOUS
  <2>1. ~(n - i < n - m)
    BY <1>3, <1>4
  <2> QED BY <1>4, <2>1
<1> QED BY <1>5 DEF Max

\* Inner is about the first n frames only.
LEMMA InnerSame ==
  ASSUME NEW s, NEW t, NEW n \in Nat, \A i \in 1 .. n : t[i] = s[i]
  PROVE  Inner(t, n) = Inner(s, n)
<1>1. Frames(t, n) = Frames(s, n) /\ Frames(s, n) \subseteq 1 .. n
  BY DEF Frames
<1>2. CASE Frames(s, n) = {}
  BY <1>1, <1>2 DEF Inner
<1>3. CASE Frames(s, n) # {}
  <2>1. Max(Frames(s, n)) \in 1 .. n
    BY <1>1, <1>3, LastPlace
  <2> QED BY <1>1, <1>3, <2>1 DEF Inner
<1> QED BY <1>2, <1>3

\* One more frame.
LEMMA InnerNext ==
  ASSUME NEW s, NEW n \in Nat
  PROVE  Inner(s, n + 1) = IF s[n + 1].kind \in ScopeKind THEN s[n + 1].own ELSE Inner(s, n)
<1>1. CASE s[n + 1].kind \in ScopeKind
  <2>1. n + 1 \in Frames(s, n + 1) /\ Frames(s, n + 1) \subseteq 1 .. n + 1
    BY <1>1 DEF Frames
  <2>2. Max(Frames(s, n + 1)) \in 1 .. n + 1 /\ Max(Frames(s, n + 1)) >= n + 1
    <3>1. n + 1 \in Nat /\ Frames(s, n + 1) # {}
      BY <2>1
    <3>2. /\ Max(Frames(s, n + 1)) \in Frames(s, n + 1)
          /\ \A i \in Frames(s, n + 1) : Max(Frames(s, n + 1)) >= i
      BY <2>1, <3>1, LastPlace
    <3> QED BY <2>1, <3>2
  <2>3. Max(Frames(s, n + 1)) = n + 1
    BY <2>2
  <2> QED BY <1>1, <2>1, <2>3 DEF Inner
<1>2. CASE s[n + 1].kind \notin ScopeKind
  <2>1. Frames(s, n + 1) = Frames(s, n)
    BY <1>2 DEF Frames
  <2> QED BY <1>2, <2>1 DEF Inner
<1> QED BY <1>1, <1>2

\* A construct begins.
LEMMA BalancedPush ==
  ASSUME NEW s \in Seq(Frame), NEW frame \in Frame, NEW e, NEW g, NEW h, NEW k,
         Balanced(s, e, h),
         frame.kind \in ScopeKind => frame.previous = e /\ g = frame.own,
         frame.kind \notin ScopeKind => g = e,
         frame.kind \in {"block", "body"} =>
           frame.own \notin Scoped(h) /\ Scoped(k) = Scoped(h) \cup {frame.own},
         frame.kind \notin {"block", "body"} => Scoped(k) = Scoped(h)
  PROVE  Balanced(Append(s, frame), g, k)
<1> DEFINE t == Append(s, frame)
           n == Len(s)
<1>1. /\ n \in Nat /\ Len(t) = n + 1 /\ t[n + 1] = frame
      /\ \A i \in 1 .. n : t[i] = s[i]
  BY PushFrame
<1> HIDE DEF t
<1>2. ASSUME NEW i \in 0 .. n PROVE Inner(t, i) = Inner(s, i)
  BY <1>1, <1>2, InnerSame
<1>3. g = Inner(t, n + 1)
  <2>1. Inner(t, n + 1) = IF t[n + 1].kind \in ScopeKind THEN t[n + 1].own ELSE Inner(t, n)
    <3>1. n \in Nat
      BY <1>1
    <3> HIDE DEF n
    <3> QED BY <3>1, InnerNext
  <2>2. Inner(t, n) = Inner(s, n)
    BY <1>1, <1>2
  <2> QED BY <1>1, <2>1, <2>2 DEF Balanced
<1>4. ASSUME NEW i \in 1 .. n + 1, t[i].kind \in ScopeKind
      PROVE  t[i].previous = Inner(t, i - 1)
  <2>1. i - 1 \in 0 .. n /\ Inner(t, i - 1) = Inner(s, i - 1)
    BY <1>1, <1>2
  <2>2. CASE i \in 1 .. n
    BY <1>1, <1>4, <2>1, <2>2 DEF Balanced
  <2>3. CASE i = n + 1
    <3>1. i - 1 = n
      BY <1>1, <2>3
    <3> QED BY <1>1, <1>4, <2>1, <2>3, <3>1 DEF Balanced
  <2> QED BY <1>1, <2>2, <2>3
<1>5. Owners(t) = Owners(s) \cup IF frame.kind \in {"block", "body"} THEN {n + 1} ELSE {}
  <2>1. n + 1 \notin 1 .. n /\ 1 .. n + 1 = 1 .. n \cup {n + 1}
    BY <1>1
  <2>2. Owners(t) = {i \in 1 .. n + 1 : t[i].kind \in {"block", "body"}}
    BY <1>1 DEF Owners
  <2> QED BY <1>1, <2>1, <2>2 DEF Owners
<1>6. Owners(s) \subseteq 1 .. n
  BY DEF Owners
<1>7. Owned(t) = Owned(s) \cup IF frame.kind \in {"block", "body"} THEN {frame.own} ELSE {}
  BY <1>1, <1>5, <1>6 DEF Owned
<1>8. Scoped(k) = {Global} \cup Owned(t) /\ Global \notin Owned(t)
  BY <1>7 DEF Balanced
<1>9. Distinct(t)
  <2> SUFFICES ASSUME NEW i \in Owners(t), NEW j \in Owners(t), t[i].own = t[j].own
               PROVE  i = j
    BY DEF Distinct
  <2>1. CASE i \in Owners(s) /\ j \in Owners(s)
    BY <1>1, <1>6, <2>1 DEF Balanced, Distinct
  <2>2. \A m \in Owners(s) : t[m].own \in Owned(s) /\ t[m].own \in Scoped(h)
    BY <1>1, <1>6 DEF Owned, Balanced
  <2>3. CASE i \in Owners(s) /\ j \notin Owners(s)
    BY <1>1, <1>5, <2>2, <2>3
  <2>4. CASE i \notin Owners(s) /\ j \in Owners(s)
    BY <1>1, <1>5, <2>2, <2>4
  <2>5. CASE i \notin Owners(s) /\ j \notin Owners(s)
    BY <1>5, <2>5
  <2> QED BY <2>1, <2>3, <2>4, <2>5
<1>10. Balanced(t, g, k)
  BY <1>1, <1>3, <1>4, <1>8, <1>9 DEF Balanced
<1> QED BY <1>10 DEF t

\* A construct ends; a block or call takes its scope along, which is env_.
LEMMA BalancedPop ==
  ASSUME NEW s \in Seq(Frame), s # <<>>, NEW e, NEW g, NEW h, NEW k, Balanced(s, e, h),
         s[Len(s)].kind \in ScopeKind => g = s[Len(s)].previous,
         s[Len(s)].kind \notin ScopeKind => g = e,
         s[Len(s)].kind \in {"block", "body"} => Scoped(k) = Scoped(h) \ {e},
         s[Len(s)].kind \notin {"block", "body"} => Scoped(k) = Scoped(h)
  PROVE  /\ Balanced(Front(s), g, k)
         /\ s[Len(s)].kind \in ScopeKind => e = s[Len(s)].own
<1> DEFINE t == Front(s)
           n == Len(s) - 1
<1>1. /\ n \in Nat /\ Len(s) = n + 1 /\ Len(t) = n
      /\ \A i \in 1 .. n : t[i] = s[i]
  BY PopFrame
<1> HIDE DEF t, n
<1>2. ASSUME NEW i \in 0 .. n PROVE Inner(t, i) = Inner(s, i)
  BY <1>1, <1>2, InnerSame
<1>3. e = IF s[n + 1].kind \in ScopeKind THEN s[n + 1].own ELSE Inner(s, n)
  BY <1>1, InnerNext DEF Balanced
<1>4. g = Inner(t, n)
  <2>1. CASE s[n + 1].kind \in ScopeKind
    <3>1. \A i \in 1 .. Len(s) : i = n + 1 => Inner(s, i - 1) = Inner(s, n)
      <4> SUFFICES ASSUME NEW i \in 1 .. Len(s), i = n + 1
                   PROVE  Inner(s, i - 1) = Inner(s, n)
        OBVIOUS
      <4>1. i - 1 = n
        BY <1>1
      <4> QED BY <4>1
    <3>2. n + 1 \in 1 .. Len(s)
      BY <1>1
    <3>3. s[n + 1].previous = Inner(s, n)
      BY <2>1, <3>1, <3>2 DEF Balanced
    <3> QED BY <1>1, <1>2, <2>1, <3>3
  <2>2. CASE s[n + 1].kind \notin ScopeKind
    BY <1>1, <1>2, <1>3, <2>2
  <2> QED BY <2>1, <2>2
<1>5. ASSUME NEW i \in 1 .. n, t[i].kind \in ScopeKind
      PROVE  t[i].previous = Inner(t, i - 1)
  <2>1. i - 1 \in 0 .. n /\ Inner(t, i - 1) = Inner(s, i - 1)
    BY <1>1, <1>2
  <2> QED BY <1>1, <1>5, <2>1 DEF Balanced
<1>6. Owners(t) = Owners(s) \ {n + 1}
  <2>1. n + 1 \notin 1 .. n /\ 1 .. n + 1 = 1 .. n \cup {n + 1}
    BY <1>1
  <2>2. Owners(s) = {i \in 1 .. n + 1 : s[i].kind \in {"block", "body"}}
    BY <1>1 DEF Owners
  <2>3. Owners(t) = {i \in 1 .. n : t[i].kind \in {"block", "body"}}
    BY <1>1 DEF Owners
  <2> QED BY <1>1, <2>1, <2>2, <2>3
<1>7. Owners(t) \subseteq 1 .. n
  BY <1>1 DEF Owners
<1>8. Distinct(t)
  BY <1>1, <1>6, <1>7 DEF Balanced, Distinct
<1>9. Scoped(k) = {Global} \cup Owned(t) /\ Global \notin Owned(t)
  <2>1. CASE s[n + 1].kind \in {"block", "body"}
    <3>1. n + 1 \in Owners(s) /\ e = s[n + 1].own
      BY <1>1, <1>3, <2>1 DEF Owners, ScopeKind
    <3>2. \A i \in Owners(t) : t[i].own = s[i].own /\ s[i].own # e
      BY <1>1, <1>6, <1>7, <3>1 DEF Balanced, Distinct
    <3>3. Owned(t) = Owned(s) \ {e}
      BY <1>6, <3>1, <3>2 DEF Owned
    <3>4. e # Global
      BY <3>1 DEF Balanced, Owned
    <3> QED BY <1>1, <2>1, <3>3, <3>4 DEF Balanced
  <2>2. CASE s[n + 1].kind \notin {"block", "body"}
    <3>1. Owners(t) = Owners(s)
      BY <1>1, <1>6, <2>2 DEF Owners
    <3>2. Owned(t) = Owned(s)
      BY <1>1, <1>7, <3>1 DEF Owned
    <3> QED BY <1>1, <2>2, <3>2 DEF Balanced
  <2> QED BY <2>1, <2>2
<1>10. Balanced(t, g, k)
  BY <1>1, <1>4, <1>5, <1>8, <1>9 DEF Balanced
<1> QED BY <1>1, <1>3, <1>10 DEF t

\* No step makes env_ or the scopes of the heap differ from what the stack says.
LEMMA StepBalanced ==
  ASSUME BalanceInv, [Next]_vars
  PROVE  BalanceInv'
<1>0. /\ TypeOK /\ HeapOK /\ StackOK /\ stack \in Seq(Frame) /\ fresh \notin DOMAIN heap
  BY DEF BalanceInv, TypeOK, HeapOK, StackOK, Global, Address
<1>1. TypeOK'
  BY <1>0, StepTyped
<1> SUFFICES ASSUME Undisturbed'
             PROVE  Balanced(stack', env', heap')
  BY <1>1 DEF BalanceInv
<1>2. /\ status' = "running" /\ "leaked" \notin events' /\ "unwound" \notin events'
      /\ Balanced(stack, env, heap)
  BY StepHistory DEF BalanceInv, Undisturbed
<1>3. \A d \in DOMAIN heap \cap DOMAIN heap' : heap'[d].of = heap[d].of
  BY <1>0, StepDomain
<1> DEFINE Goal == Balanced(stack', env', heap')
<1>s. ASSUME DOMAIN heap' = DOMAIN heap PROVE Scoped(heap') = Scoped(heap)
  BY <1>3, <1>s DEF Scoped
<1>q. ASSUME Scoped(heap') = Scoped(heap), UNCHANGED env,
             \/ UNCHANGED stack
             \/ stack # <<>> /\ stack' = Front(stack) /\ Top.kind \in {"loop", "args"}
      PROVE  Goal
  <2>1. CASE UNCHANGED stack
    BY <1>2, <1>q, <2>1 DEF Balanced
  <2>2. CASE stack # <<>> /\ stack' = Front(stack) /\ Top.kind \in {"loop", "args"}
    BY <1>0, <1>2, <1>q, <2>2, TopFrame, BalancedPop DEF ScopeKind
  <2> QED BY <1>q, <2>1, <2>2
<1>e. ASSUME EndScope, stack # <<>>, Top.kind \in {"block", "body"}, stack' = Front(stack),
             fresh' = fresh
      PROVE  Goal
  <2>1. /\ Top = stack[Len(stack)] /\ env' = Top.previous
        /\ DOMAIN heap' = DOMAIN heap \ {env}
    BY <1>0, <1>e, ScopeEnds
  <2>2. Scoped(heap') = Scoped(heap) \ {env}
    BY <1>3, <2>1 DEF Scoped
  <2> QED BY <1>0, <1>2, <1>e, <2>1, <2>2, BalancedPop DEF ScopeKind
<1>n. ASSUME ScopeMade
      PROVE  /\ Scoped(heap') = Scoped(heap) \cup {fresh}
             /\ env' = fresh /\ fresh \notin Scoped(heap)
  BY <1>3, <1>n DEF Scoped, ScopeMade
<1>4. CASE EnterBlock
  <2>1. PICK frame \in Frame :
          /\ ScopeMade /\ stack' = Append(stack, frame)
          /\ frame.kind = "block" /\ frame.previous = env /\ frame.own = fresh
    BY <1>0, <1>4, BlockStep
  <2>2. Balanced(Append(stack, frame), fresh, heap')
    BY <1>0, <1>2, <1>n, <2>1, BalancedPush DEF ScopeKind
  <2> QED BY <1>n, <2>1, <2>2
<1>5. CASE LeaveBlock \/ LeaveBody
  BY <1>5, <1>e DEF LeaveBlock, LeaveBody, TopIs, Pop
<1>6. CASE EnterLoop \/ \E f \in Func : BeginCall(f)
  <2>1. PICK frame \in Frame : stack' = Append(stack, frame) /\ frame.kind \notin ScopeKind
    BY <1>6, PlainStep
  <2>2. UNCHANGED <<heap, env>>
    BY <1>6, PlainStep
  <2>3. Balanced(Append(stack, frame), env, heap)
    BY <1>0, <1>2, <2>1, BalancedPush DEF ScopeKind
  <2> QED BY <2>1, <2>2, <2>3
<1>7. ASSUME NEW args \in Table(Var, Values), EnterBody(args) \/ RepeatedParameter(args)
      PROVE  Goal
  <2>1. PICK frame \in Frame :
          /\ stack # <<>> /\ Top = stack[Len(stack)] /\ Top.kind = "args" /\ ScopeMade
          /\ stack' = Append(Front(stack), frame)
          /\ frame.kind = "body" /\ frame.previous = env /\ frame.own = fresh
    BY <1>0, <1>2, <1>7, CallStep
  <2>2. Front(stack) \in Seq(Frame)
    BY <1>0, <2>1, PopFrame
  <2>3. Balanced(Front(stack), env, heap)
    BY <1>0, <1>2, <2>1, BalancedPop DEF ScopeKind
  <2>4. Balanced(Append(Front(stack), frame), fresh, heap')
    BY <1>n, <2>1, <2>2, <2>3, BalancedPush DEF ScopeKind
  <2> QED BY <1>n, <2>1, <2>4
<1>8. ASSUME NEW c \in Class, NEW member \in [DOMAIN c.members -> Values], New(c, member)
      PROVE  Goal
  <2>1. /\ DOMAIN heap' = DOMAIN heap \cup {fresh} /\ heap'[fresh].of = "object"
        /\ UNCHANGED <<env, stack>>
    BY <1>0, <1>8, NewStep
  <2>2. Scoped(heap') = Scoped(heap)
    BY <1>0, <1>3, <2>1 DEF Scoped
  <2> QED BY <1>q, <2>1, <2>2
<1>9. ASSUME NEW x \in Var, BeginAccess(x) PROVE Goal
  <2>1. PICK object \in DOMAIN heap :
          /\ DOMAIN heap' = DOMAIN heap /\ env' = object
          /\ \E frame \in Frame : /\ stack' = Append(stack, frame) /\ frame.kind = "access"
                                  /\ frame.previous = env /\ frame.own = object
    <3> DEFINE S == Nat
    <3>1. HoldsOnly(heap, S)
      BY <1>0 DEF HoldsOnly, HeapOK, IsHeap, IsEnvironment, IsTable, Variable
    <3> HIDE DEF S
    <3> QED BY <1>0, <1>9, <3>1, AccessStep
  <2>2. PICK frame \in Frame :
          /\ stack' = Append(stack, frame) /\ frame.kind = "access"
          /\ frame.previous = env /\ frame.own = object
    BY <2>1
  <2>3. Balanced(Append(stack, frame), object, heap')
    BY <1>0, <1>2, <1>s, <2>1, <2>2, BalancedPush DEF ScopeKind
  <2> QED BY <2>1, <2>2, <2>3
<1>10. CASE EndAccess
  <2>1. /\ Top = stack[Len(stack)] /\ stack # <<>> /\ stack' = Front(stack)
        /\ DOMAIN heap' = DOMAIN heap /\ env' = Top.previous /\ Top.kind = "access"
    BY <1>0, <1>10, AccessEnds
  <2> QED BY <1>0, <1>2, <1>s, <2>1, BalancedPop DEF ScopeKind
<1>11. CASE UnwindBlock \/ UnwindBody
  BY <1>2, <1>11, <1>e, UnwindStep
<1>12. CASE \/ \E x \in Var, v \in Values : DeclareVar(x, v) \/ AssignVar(x, v)
            \/ \E f \in Nested, defined \in BOOLEAN : DeclareFunc(f, defined)
  <2>1. DOMAIN heap' = DOMAIN heap /\ UNCHANGED env /\ UNCHANGED stack
    BY <1>0, <1>12, TableStep
  <2> QED BY <1>q, <1>s, <2>1
<1>13. CASE \/ LeaveLoop \/ Break \/ Return \/ FalseConditionWithElse \/ Fail
            \/ ReportInPlace \/ UnwindLoop \/ UnwindArgs \/ UseAfterFree \/ EndlessLookup
            \/ UnwindProgram \/ Ended \/ UNCHANGED vars \/ \E x \in Var : AccessNoObject(x)
  BY <1>13, <1>q, OtherStep
<1>14. CASE UnwindAccess \/ Finish
  BY <1>2, <1>14 DEF UnwindAccess, Finish
<1> QED
  BY <1>4, <1>5, <1>6, <1>7, <1>8, <1>9, <1>10, <1>11, <1>12, <1>13, <1>14
     DEF Next, Statement, Expression, Unwind

\* The constructor of Interpreter: the global environment is current.
LEMMA InitBalanced == Init => BalanceInv
<1> SUFFICES ASSUME Init PROVE BalanceInv
  OBVIOUS
<1>1. /\ TypeOK /\ stack = <<>> /\ Len(stack) = 0 /\ env = Global
      /\ Scoped(heap) = {Global}
  BY InitTyped, InitHeap DEF Init, Scoped
<1>2. Frames(stack, 0) = {} /\ Owners(stack) = {} /\ Owned(stack) = {}
  BY <1>1 DEF Frames, Owners, Owned
<1> QED BY <1>1, <1>2 DEF BalanceInv, Balanced, Inner, Distinct

\* While every scope was left normally or by `return', env_ is the environment
\* of the innermost construct and no other scope than the running ones' is left.
THEOREM ScopesBalance == Spec => []ScopesBalanced
<1>1. BalanceInv => ScopesBalanced
  <2> SUFFICES ASSUME BalanceInv, status = "running",
                      events \cap {"leaked", "unwound"} = {}
               PROVE  /\ env = IF Scopes = {} THEN Global ELSE stack[Max(Scopes)].own
                      /\ {d \in DOMAIN heap : heap[d].of = "scope"} =
                           {Global} \cup
                             {stack[i].own : i \in {j \in Scopes : stack[j].kind # "access"}}
    BY DEF ScopesBalanced
  <2>1. Balanced(stack, env, heap)
    BY DEF BalanceInv, Undisturbed
  <2>2. DOMAIN stack = 1 .. Len(stack)
    BY LenProperties DEF BalanceInv, TypeOK, StackOK
  <2>3. Scopes = Frames(stack, Len(stack))
    BY <2>2 DEF Scopes, Frames
  <2>4. {j \in Scopes : stack[j].kind # "access"} = Owners(stack)
    BY <2>2 DEF Scopes, Owners, ScopeKind
  <2> QED BY <2>1, <2>3, <2>4 DEF Balanced, Inner, Owned, Scoped
<1> QED BY <1>1, InitBalanced, StepBalanced, PTL DEF Spec

-----------------------------------------------------------------------------
(* The links.                                                              *)

\* What the frames that set env_ made current is allocated, is enclosed by what
\* they saved, and belongs to one of them only.
Linked(s, h) ==
  \A i \in 1 .. Len(s) : s[i].kind \in ScopeKind =>
    /\ s[i].own \in DOMAIN h
    /\ h[s[i].own].enclosing = s[i].previous
    /\ \A j \in 1 .. Len(s) : s[j].kind \in ScopeKind /\ s[j].own = s[i].own => j = i

\* Nothing has disturbed the nesting so far.
LinkInv ==
  /\ AliveInv
  /\ BalanceInv
  /\ status = "running" /\ events = {} => Linked(stack, heap)

\* A construct begins.
LEMMA LinkedPush ==
  ASSUME NEW s \in Seq(Frame), NEW frame \in Frame, NEW h, NEW k, Linked(s, h),
         IF frame.kind \in ScopeKind
         THEN /\ frame.own \in DOMAIN k /\ k[frame.own].enclosing = frame.previous
              /\ Encloses(h, k, {frame.own})
              /\ \A i \in 1 .. Len(s) : s[i].kind \in ScopeKind => s[i].own # frame.own
         ELSE Encloses(h, k, {})
  PROVE  Linked(Append(s, frame), k)
<1> DEFINE t == Append(s, frame)
           n == Len(s)
<1>1. /\ n \in Nat /\ Len(t) = n + 1 /\ t[n + 1] = frame
      /\ \A i \in 1 .. n : t[i] = s[i]
  BY PushFrame
<1> HIDE DEF t
<1>2. \A i \in 1 .. n + 1 : i \in 1 .. n \/ i = n + 1
  BY <1>1
<1>3. ASSUME NEW i \in 1 .. n, s[i].kind \in ScopeKind
      PROVE  /\ s[i].own \in DOMAIN k /\ k[s[i].own].enclosing = s[i].previous
             /\ frame.kind \in ScopeKind => s[i].own # frame.own
  BY <1>3 DEF Linked, Encloses
<1>4. ASSUME NEW i \in 1 .. n, NEW j \in 1 .. n, s[i].kind \in ScopeKind,
             s[j].kind \in ScopeKind, s[j].own = s[i].own
      PROVE  j = i
  BY <1>4 DEF Linked
<1>5. ASSUME NEW i \in 1 .. n + 1, t[i].kind \in ScopeKind
      PROVE  /\ t[i].own \in DOMAIN k
             /\ k[t[i].own].enclosing = t[i].previous
             /\ \A j \in 1 .. n + 1 : t[j].kind \in ScopeKind /\ t[j].own = t[i].own => j = i
  <2>1. CASE i \in 1 .. n
    <3>1. t[i] = s[i]
      BY <1>1, <2>1
    <3>2. ASSUME NEW j \in 1 .. n + 1, t[j].kind \in ScopeKind, t[j].own = t[i].own
          PROVE  j = i
      BY <1>1, <1>2, <1>3, <1>4, <1>5, <2>1, <3>1, <3>2
    <3> QED BY <1>3, <1>5, <2>1, <3>1, <3>2
  <2>2. CASE i = n + 1
    <3>1. t[i] = frame
      BY <1>1, <2>2
    <3>2. ASSUME NEW j \in 1 .. n + 1, t[j].kind \in ScopeKind, t[j].own = t[i].own
          PROVE  j = i
      BY <1>1, <1>2, <1>3, <1>5, <2>2, <3>1, <3>2
    <3> QED BY <1>5, <3>1, <3>2
  <2> QED BY <1>2, <2>1, <2>2
<1>6. Linked(t, k)
  BY <1>1, <1>5 DEF Linked
<1> QED BY <1>6 DEF t

\* A construct ends.
LEMMA LinkedPop ==
  ASSUME NEW s \in Seq(Frame), s # <<>>, NEW h, NEW k, Linked(s, h),
         IF s[Len(s)].kind \in ScopeKind THEN Encloses(h, k, {s[Len(s)].own})
                                         ELSE Encloses(h, k, {})
  PROVE  Linked(Front(s), k)
<1> DEFINE t == Front(s)
           n == Len(s) - 1
<1>1. /\ n \in Nat /\ Len(s) = n + 1 /\ Len(t) = n
      /\ \A i \in 1 .. n : t[i] = s[i]
  BY PopFrame
<1> HIDE DEF t, n
<1>2. \A i \in 1 .. n : i \in 1 .. n + 1 /\ i # n + 1
  BY <1>1
<1>3. ASSUME NEW i \in 1 .. n, s[i].kind \in ScopeKind
      PROVE  s[i].own \in DOMAIN k /\ k[s[i].own].enclosing = s[i].previous
  <2>1. /\ s[i].own \in DOMAIN h /\ h[s[i].own].enclosing = s[i].previous
        /\ s[n + 1].kind \in ScopeKind => s[n + 1].own # s[i].own
    <3>1. i \in 1 .. Len(s) /\ n + 1 \in 1 .. Len(s) /\ n + 1 # i
      BY <1>1, <1>2
    <3> QED BY <1>3, <3>1 DEF Linked
  <2> QED BY <1>1, <2>1 DEF Encloses
<1>4. ASSUME NEW i \in 1 .. n, NEW j \in 1 .. n, s[i].kind \in ScopeKind,
             s[j].kind \in ScopeKind, s[j].own = s[i].own
      PROVE  j = i
  BY <1>1, <1>2, <1>4 DEF Linked
<1>5. Linked(t, k)
  BY <1>1, <1>3, <1>4 DEF Linked
<1> QED BY <1>5 DEF t

\* No step breaks the link between a running construct and what is around it.
LEMMA StepLinked ==
  ASSUME LinkInv, [Next]_vars
  PROVE  LinkInv'
<1>0. /\ AliveInv /\ BalanceInv /\ TypeOK /\ HeapOK /\ StackOK /\ IsHeap(heap)
      /\ stack \in Seq(Frame) /\ fresh \notin DOMAIN heap
  BY DEF LinkInv, BalanceInv, TypeOK, HeapOK, StackOK, Global, Address
<1>1. AliveInv' /\ BalanceInv'
  BY <1>0, StepAlive, StepBalanced
<1> SUFFICES ASSUME status' = "running", events' = {}
             PROVE  Linked(stack', heap')
  BY <1>1 DEF LinkInv
<1>2. /\ Linked(stack, heap) /\ Balanced(stack, env, heap)
      /\ HoldsOnly(heap, {NoObject} \cup ObjectsOf(heap))
  BY <1>0, StepHistory DEF LinkInv, BalanceInv, AliveInv, Undisturbed, Disciplined
<1>3. Len(stack) \in Nat /\ DOMAIN stack = 1 .. Len(stack)
  BY <1>0, LenProperties
<1> DEFINE Goal == Linked(stack', heap')
<1>q. ASSUME Encloses(heap, heap', {}),
             \/ UNCHANGED stack
             \/ stack # <<>> /\ stack' = Front(stack) /\ Top.kind \in {"loop", "args"}
      PROVE  Goal
  <2>1. CASE UNCHANGED stack
    BY <1>2, <1>q, <2>1 DEF Linked, Encloses
  <2>2. CASE stack # <<>> /\ stack' = Front(stack) /\ Top.kind \in {"loop", "args"}
    BY <1>0, <1>2, <1>q, <2>2, TopFrame, LinkedPop DEF ScopeKind
  <2> QED BY <1>q, <2>1, <2>2
<1>t. ASSUME stack # <<>>, Top.kind \in ScopeKind
      PROVE  Top = stack[Len(stack)] /\ Top.own = env
  <2>1. Top = stack[Len(stack)]
    BY <1>0, <1>t, TopFrame
  <2> DEFINE n == Len(stack) - 1
  <2>2. n \in Nat /\ n + 1 = Len(stack)
    BY <1>0, <1>t, PopFrame
  <2> HIDE DEF n
  <2>3. Inner(stack, n + 1) =
          IF stack[n + 1].kind \in ScopeKind THEN stack[n + 1].own ELSE Inner(stack, n)
    BY <2>2, InnerNext
  <2> QED BY <1>2, <1>t, <2>1, <2>2, <2>3 DEF Balanced
<1>e. ASSUME EndScope, stack # <<>>, Top.kind \in {"block", "body"}, stack' = Front(stack),
             fresh' = fresh
      PROVE  Goal
  <2>1. Top = stack[Len(stack)] /\ Top.own = env /\ Top.kind \in ScopeKind
    BY <1>e, <1>t DEF ScopeKind
  <2>2. Encloses(heap, heap', {env})
    BY <1>0, <1>e, ScopeEnds
  <2> QED BY <1>0, <1>2, <1>e, <2>1, <2>2, LinkedPop
<1>n. \A i \in 1 .. Len(stack) : stack[i].kind \in ScopeKind => stack[i].own # fresh
  BY <1>0, <1>2 DEF Linked
<1>4. CASE EnterBlock
  <2>1. PICK frame \in Frame :
          /\ ScopeMade /\ stack' = Append(stack, frame)
          /\ frame.kind = "block" /\ frame.previous = env /\ frame.own = fresh
    BY <1>0, <1>4, BlockStep
  <2>2. Linked(Append(stack, frame), heap')
    BY <1>0, <1>2, <1>n, <2>1, LinkedPush DEF ScopeKind, ScopeMade
  <2> QED BY <2>1, <2>2
<1>5. CASE LeaveBlock \/ LeaveBody
  BY <1>5, <1>e DEF LeaveBlock, LeaveBody, TopIs, Pop
<1>6. CASE EnterLoop \/ \E f \in Func : BeginCall(f)
  <2>1. PICK frame \in Frame : stack' = Append(stack, frame) /\ frame.kind \notin ScopeKind
    BY <1>6, PlainStep
  <2>2. heap' = heap /\ Encloses(heap, heap, {})
    BY <1>6, PlainStep DEF Encloses
  <2>3. Linked(Append(stack, frame), heap)
    BY <1>0, <1>2, <2>1, <2>2, LinkedPush
  <2> QED BY <2>1, <2>2, <2>3
<1>7. ASSUME NEW args \in Table(Var, Values), EnterBody(args) \/ RepeatedParameter(args)
      PROVE  Goal
  <2> DEFINE rest == Front(stack)
  <2>1. PICK frame \in Frame :
          /\ stack # <<>> /\ Top = stack[Len(stack)] /\ Top.kind = "args" /\ ScopeMade
          /\ stack' = Append(rest, frame)
          /\ frame.kind = "body" /\ frame.previous = env /\ frame.own = fresh
    BY <1>0, <1>7, CallStep
  <2>2. /\ rest \in Seq(Frame) /\ Len(rest) = Len(stack) - 1
        /\ \A i \in 1 .. Len(stack) - 1 : rest[i] = stack[i]
    BY <1>0, <2>1, PopFrame
  <2>3. Linked(rest, heap)
    <3>1. Encloses(heap, heap, {}) /\ stack[Len(stack)].kind \notin ScopeKind
      BY <2>1 DEF Encloses, ScopeKind
    <3> QED BY <1>0, <1>2, <2>1, <3>1, LinkedPop
  <2> HIDE DEF rest
  <2>4. \A i \in 1 .. Len(rest) : rest[i].kind \in ScopeKind => rest[i].own # fresh
    BY <1>3, <1>n, <2>2
  <2>5. Linked(Append(rest, frame), heap')
    BY <2>1, <2>2, <2>3, <2>4, LinkedPush DEF ScopeKind, ScopeMade
  <2> QED BY <2>1, <2>5
<1>8. ASSUME NEW c \in Class, NEW member \in [DOMAIN c.members -> Values], New(c, member)
      PROVE  Goal
  BY <1>0, <1>8, <1>q, NewStep
<1>9. ASSUME NEW x \in Var, BeginAccess(x) PROVE Goal
  <2>1. PICK object \in DOMAIN heap \cap ({NoObject} \cup ObjectsOf(heap)) :
          /\ DOMAIN heap' = DOMAIN heap /\ heap'[object].enclosing = env
          /\ Encloses(heap, heap', {object})
          /\ events' = events \cup
               (IF \E i \in DOMAIN stack : stack[i].kind = "access" /\ stack[i].own = object
                THEN {"reentered"} ELSE {})
          /\ \E frame \in Frame : /\ stack' = Append(stack, frame) /\ frame.kind = "access"
                                  /\ frame.previous = env /\ frame.own = object
    BY <1>0, <1>2, <1>9, AccessStep
  <2>2. PICK frame \in Frame :
          /\ stack' = Append(stack, frame) /\ frame.kind = "access"
          /\ frame.previous = env /\ frame.own = object
    BY <2>1
  <2>3. object \in ObjectsOf(heap)
    BY <1>0, <2>1 DEF IsHeap, NoObject, Null, Address
  <2>4. \A i \in 1 .. Len(stack) : ~(stack[i].kind = "access" /\ stack[i].own = object)
    BY <1>3, <2>1
  <2>5. \A i \in 1 .. Len(stack) : stack[i].kind \in {"block", "body"} => stack[i].own # object
    <3>1. \A i \in 1 .. Len(stack) : stack[i].kind \in {"block", "body"} =>
            stack[i].own \in Scoped(heap)
      BY <1>2 DEF Balanced, Owned, Owners
    <3>2. object \notin Scoped(heap)
      BY <2>3 DEF Scoped, ObjectsOf
    <3> QED BY <3>1, <3>2
  <2>6. \A i \in 1 .. Len(stack) : stack[i].kind \in ScopeKind => stack[i].own # object
    BY <2>4, <2>5 DEF ScopeKind
  <2>7. Linked(Append(stack, frame), heap')
    BY <1>0, <1>2, <2>1, <2>2, <2>6, LinkedPush DEF ScopeKind
  <2> QED BY <2>2, <2>7
<1>10. CASE EndAccess
  <2>1. /\ stack # <<>> /\ stack' = Front(stack) /\ Top.kind \in ScopeKind
        /\ Encloses(heap, heap', {env})
    BY <1>0, <1>10, AccessEnds DEF ScopeKind
  <2>2. Top = stack[Len(stack)] /\ Top.own = env
    BY <1>t, <2>1
  <2> QED BY <1>0, <1>2, <2>1, <2>2, LinkedPop
<1>11. CASE UnwindBlock \/ UnwindBody
  BY <1>11, <1>e, UnwindStep
<1>12. CASE \/ \E x \in Var, v \in Values : DeclareVar(x, v) \/ AssignVar(x, v)
            \/ \E f \in Nested, defined \in BOOLEAN : DeclareFunc(f, defined)
  BY <1>0, <1>12, <1>q, TableStep
<1>13. CASE \/ LeaveLoop \/ Break \/ Return \/ FalseConditionWithElse \/ Fail
            \/ ReportInPlace \/ UnwindLoop \/ UnwindArgs \/ UseAfterFree \/ EndlessLookup
            \/ UnwindProgram \/ Ended \/ UNCHANGED vars \/ \E x \in Var : AccessNoObject(x)
  <2>1. Encloses(heap, heap', {})
    BY <1>13, OtherStep DEF Encloses
  <2> QED BY <1>13, <1>q, <2>1, OtherStep
<1>14. CASE UnwindAccess \/ Finish
  BY <1>14 DEF UnwindAccess, Finish
<1> QED
  BY <1>4, <1>5, <1>6, <1>7, <1>8, <1>9, <1>10, <1>11, <1>12, <1>13, <1>14
     DEF Next, Statement, Expression, Unwind

\* In a program that raised no exception but `return' and accessed no object
\* inside its own access, lookups walk the nesting of the source.
THEOREM ChainIsNesting == Spec => []ChainFollowsNesting
<1>1. Init => LinkInv
  <2>1. ASSUME Init PROVE LinkInv
    <3>1. Len(stack) = 0
      BY <2>1 DEF Init
    <3> QED BY <2>1, <3>1, InitAlive, InitBalanced DEF LinkInv, Linked
  <2> QED BY <2>1
<1>2. LinkInv => ChainFollowsNesting
  <2> SUFFICES ASSUME LinkInv, status = "running", events = {}, NEW i \in Scopes
               PROVE  /\ stack[i].own \in DOMAIN heap
                      /\ heap[stack[i].own].enclosing = stack[i].previous
                      /\ LET below == {j \in Scopes : j < i}
                         IN  stack[i].previous =
                               IF below = {} THEN Global ELSE stack[Max(below)].own
    BY DEF ChainFollowsNesting
  <2>1. Balanced(stack, env, heap) /\ Linked(stack, heap)
    BY DEF LinkInv, BalanceInv, Undisturbed
  <2>2. Len(stack) \in Nat /\ DOMAIN stack = 1 .. Len(stack)
    BY LenProperties DEF LinkInv, BalanceInv, TypeOK, StackOK
  <2>3. i \in 1 .. Len(stack) /\ stack[i].kind \in ScopeKind
    BY <2>2 DEF Scopes
  <2>4. {j \in Scopes : j < i} = Frames(stack, i - 1)
    BY <2>2, <2>3 DEF Scopes, Frames
  <2>5. stack[i].previous = Inner(stack, i - 1)
    BY <2>1, <2>3 DEF Balanced
  <2> QED BY <2>1, <2>3, <2>4, <2>5 DEF Linked, Inner
<1> QED BY <1>1, <1>2, StepLinked, PTL DEF Spec

-----------------------------------------------------------------------------
(* The chain of scopes that a lookup walks, leaks included.                *)

\* c is the chain of env_ from its outermost environment, c[1], to env_, c[m];
\* p[i] is the place in it of what frame i saved.  Accesses hang the objects
\* in, and blocks and calls that an exception left may have scopes there too.
Hung(s, e, h, m, c, p) ==
  /\ c[m] = e /\ h[c[1]].enclosing = Null
  /\ \A k \in 1 .. m - 1 : h[c[k + 1]].enclosing = c[k]
  /\ \A k, l \in 1 .. m : c[k] = c[l] => k = l
  /\ \A i \in 1 .. Len(s) : s[i].kind \in ScopeKind =>
       /\ p[i] \in 1 .. m - 1 /\ c[p[i]] = s[i].previous
       /\ s[i].kind = "access" => s[i].own = c[p[i] + 1]
       /\ \A j \in 1 .. i - 1 : s[j].kind \in ScopeKind => p[j] < p[i]
  /\ \A k \in 1 .. m : c[k] \in ObjectsOf(h) =>
       \E i \in 1 .. Len(s) : s[i].kind = "access" /\ s[i].own = c[k]

Chained(s, e, h) ==
  \E m \in Nat \ {0} :
    \E c \in [1 .. m -> DOMAIN h], p \in [1 .. Len(s) -> Nat] : Hung(s, e, h, m, c, p)

\* An access that holds object is running.
Accessed(s, object) == \E i \in 1 .. Len(s) : s[i].kind = "access" /\ s[i].own = object

\* Apart from E, k is h as far as the chain is concerned.
SameChain(h, k, E) ==
  /\ Encloses(h, k, E)
  /\ \A d \in DOMAIN h \cap DOMAIN k : k[d].of = h[d].of

ChainInv ==
  /\ AliveInv
  /\ status = "running" /\ Disciplined => Chained(stack, env, heap)

\* The heap changes elsewhere.
LEMMA ChainSame ==
  ASSUME NEW s, NEW e, NEW h, NEW k, Chained(s, e, h), SameChain(h, k, {})
  PROVE  Chained(s, e, k)
<1>1. PICK m \in Nat \ {0} :
        \E c \in [1 .. m -> DOMAIN h], p \in [1 .. Len(s) -> Nat] : Hung(s, e, h, m, c, p)
  BY DEF Chained
<1>2. PICK c \in [1 .. m -> DOMAIN h], p \in [1 .. Len(s) -> Nat] : Hung(s, e, h, m, c, p)
  BY <1>1
<1>3. /\ \A l \in 1 .. m : c[l] \in DOMAIN h /\ c[l] \in DOMAIN k
      /\ c \in [1 .. m -> DOMAIN k]
  BY DEF SameChain, Encloses
<1>4. \A l \in 1 .. m : k[c[l]].enclosing = h[c[l]].enclosing /\ k[c[l]].of = h[c[l]].of
  BY <1>3 DEF SameChain, Encloses
<1>5. Hung(s, e, k, m, c, p)
  BY <1>2, <1>3, <1>4 DEF Hung, ObjectsOf
<1> QED BY <1>3, <1>5 DEF Chained

\* A frame that saves nothing.
LEMMA ChainFrame ==
  ASSUME NEW s \in Seq(Frame), NEW frame \in Frame, frame.kind \notin ScopeKind,
         NEW e, NEW h, Chained(s, e, h)
  PROVE  Chained(Append(s, frame), e, h)
<1> DEFINE t == Append(s, frame)
           n == Len(s)
<1>1. /\ n \in Nat /\ Len(t) = n + 1 /\ t[n + 1] = frame
      /\ \A i \in 1 .. n : t[i] = s[i]
  BY PushFrame
<1> HIDE DEF t
<1>2. PICK m \in Nat \ {0} :
        \E c \in [1 .. m -> DOMAIN h], p \in [1 .. Len(s) -> Nat] : Hung(s, e, h, m, c, p)
  BY DEF Chained
<1>3. PICK c \in [1 .. m -> DOMAIN h], p \in [1 .. n -> Nat] : Hung(s, e, h, m, c, p)
  BY <1>2
<1> DEFINE q == [i \in 1 .. n + 1 |-> IF i = n + 1 THEN 0 ELSE p[i]]
<1>4. q \in [1 .. n + 1 -> Nat] /\ \A i \in 1 .. n : q[i] = p[i]
  BY <1>1
<1> HIDE DEF q
<1>5. \A i \in 1 .. n + 1 : t[i].kind \in ScopeKind => i \in 1 .. n /\ t[i] = s[i] /\ q[i] = p[i]
  BY <1>1, <1>4
<1>6. \A i \in 1 .. n : \A j \in 1 .. i - 1 : j \in 1 .. n
  BY <1>1
<1>7. /\ c[m] = e /\ h[c[1]].enclosing = Null
      /\ \A k \in 1 .. m - 1 : h[c[k + 1]].enclosing = c[k]
      /\ \A k, l \in 1 .. m : c[k] = c[l] => k = l
  BY <1>3 DEF Hung
<1>8. \A i \in 1 .. n + 1 : t[i].kind \in ScopeKind =>
        /\ q[i] \in 1 .. m - 1 /\ c[q[i]] = t[i].previous
        /\ t[i].kind = "access" => t[i].own = c[q[i] + 1]
        /\ \A j \in 1 .. i - 1 : t[j].kind \in ScopeKind => q[j] < q[i]
  BY <1>1, <1>3, <1>4, <1>5, <1>6 DEF Hung
<1>9. \A k \in 1 .. m : c[k] \in ObjectsOf(h) =>
        \E i \in 1 .. n + 1 : t[i].kind = "access" /\ t[i].own = c[k]
  <2> SUFFICES ASSUME NEW k \in 1 .. m, c[k] \in ObjectsOf(h)
               PROVE  \E i \in 1 .. n + 1 : t[i].kind = "access" /\ t[i].own = c[k]
    OBVIOUS
  <2>1. PICK i \in 1 .. n : s[i].kind = "access" /\ s[i].own = c[k]
    BY <1>3 DEF Hung
  <2>2. i \in 1 .. n + 1 /\ t[i] = s[i]
    BY <1>1
  <2> QED BY <2>1, <2>2
<1>10. Hung(t, e, h, m, c, q)
  BY <1>1, <1>7, <1>8, <1>9 DEF Hung
<1>11. Chained(t, e, h)
  BY <1>1, <1>4, <1>10 DEF Chained
<1> QED BY <1>11 DEF t

\* env_ gets one environment further; t is s, or s and the frame that saved e.
LEMMA ChainGrow ==
  ASSUME NEW s \in Seq(Frame), NEW t, NEW e, NEW g, NEW h, NEW k, Chained(s, e, h),
         g \in DOMAIN k, k[g].enclosing = e, SameChain(h, k, {g}),
         g \in DOMAIN h => g \in ObjectsOf(h) /\ ~Accessed(s, g),
         \/ t = s /\ g \notin ObjectsOf(k)
         \/ \E frame \in Frame :
              /\ t = Append(s, frame) /\ frame.kind \in ScopeKind
              /\ frame.previous = e /\ frame.own = g
              /\ g \in ObjectsOf(k) => frame.kind = "access"
  PROVE  Chained(t, g, k)
<1> DEFINE n == Len(s)
<1>1. n \in Nat
  BY LenProperties
<1>2. PICK m \in Nat \ {0} :
        \E c \in [1 .. m -> DOMAIN h], p \in [1 .. Len(s) -> Nat] : Hung(s, e, h, m, c, p)
  BY DEF Chained
<1>3. PICK c \in [1 .. m -> DOMAIN h], p \in [1 .. n -> Nat] : Hung(s, e, h, m, c, p)
  BY <1>2
<1>h. /\ c[m] = e /\ h[c[1]].enclosing = Null
      /\ \A l \in 1 .. m - 1 : h[c[l + 1]].enclosing = c[l]
      /\ \A i, l \in 1 .. m : c[i] = c[l] => i = l
      /\ \A i \in 1 .. n : s[i].kind \in ScopeKind =>
           /\ p[i] \in 1 .. m - 1 /\ c[p[i]] = s[i].previous
           /\ s[i].kind = "access" => s[i].own = c[p[i] + 1]
           /\ \A j \in 1 .. i - 1 : s[j].kind \in ScopeKind => p[j] < p[i]
      /\ \A l \in 1 .. m : c[l] \in ObjectsOf(h) => Accessed(s, c[l])
  BY <1>3 DEF Hung, Accessed
<1>4. \A l \in 1 .. m : c[l] # g
  <2> SUFFICES ASSUME NEW l \in 1 .. m, c[l] = g PROVE FALSE
    OBVIOUS
  <2>1. g \in DOMAIN h
    OBVIOUS
  <2> QED BY <1>h, <2>1
<1>5. \A l \in 1 .. m : /\ c[l] \in DOMAIN h /\ c[l] \in DOMAIN k
                        /\ k[c[l]].enclosing = h[c[l]].enclosing /\ k[c[l]].of = h[c[l]].of
  BY <1>4 DEF SameChain, Encloses
<1> DEFINE b == [l \in 1 .. m + 1 |-> IF l = m + 1 THEN g ELSE c[l]]
<1>6. /\ b \in [1 .. m + 1 -> DOMAIN k] /\ b[m + 1] = g
      /\ \A l \in 1 .. m : b[l] = c[l]
  BY <1>5
<1> HIDE DEF b
<1>a. m + 1 \in Nat \ {0} /\ 1 \in 1 .. m /\ m \in 1 .. m /\ m + 1 \in 1 .. m + 1
      /\ \A l \in 1 .. m + 1 : l \in 1 .. m \/ l = m + 1
  BY <1>2
<1>7. /\ b[m + 1] = g /\ k[b[1]].enclosing = Null
      /\ \A l \in 1 .. m + 1 - 1 : k[b[l + 1]].enclosing = b[l]
      /\ \A i, l \in 1 .. m + 1 : b[i] = b[l] => i = l
  <2>1. k[b[1]].enclosing = Null
    BY <1>5, <1>6, <1>a, <1>h
  <2>2. ASSUME NEW l \in 1 .. m + 1 - 1 PROVE k[b[l + 1]].enclosing = b[l]
    <3>1. CASE l \in 1 .. m - 1
      <4>1. l \in 1 .. m /\ l + 1 \in 1 .. m
        BY <1>2, <3>1
      <4> QED BY <1>5, <1>6, <1>h, <3>1, <4>1
    <3>2. CASE l = m
      BY <1>6, <1>a, <1>h, <3>2
    <3> QED BY <1>2, <2>2, <3>1, <3>2
  <2>3. ASSUME NEW i \in 1 .. m + 1, NEW l \in 1 .. m + 1, b[i] = b[l] PROVE i = l
    BY <1>4, <1>6, <1>a, <1>h, <2>3
  <2> QED BY <1>6, <2>1, <2>2, <2>3
<1>8. \A l \in 1 .. m : b[l] \in ObjectsOf(k) => Accessed(s, b[l])
  BY <1>5, <1>6, <1>h DEF ObjectsOf
<1>9. ASSUME NEW i \in 1 .. n, s[i].kind \in ScopeKind
      PROVE  /\ p[i] \in 1 .. m + 1 - 1 /\ p[i] < m /\ b[p[i]] = s[i].previous
             /\ s[i].kind = "access" => s[i].own = b[p[i] + 1]
  <2>1. p[i] \in 1 .. m /\ p[i] + 1 \in 1 .. m
    BY <1>2, <1>h, <1>9
  <2> QED BY <1>2, <1>6, <1>9, <1>h, <2>1
<1>10. CASE t = s /\ g \notin ObjectsOf(k)
  <2>1. \A l \in 1 .. m + 1 : b[l] \in ObjectsOf(k) => Accessed(s, b[l])
    BY <1>6, <1>8, <1>10, <1>a
  <2>2. Hung(s, g, k, m + 1, b, p)
    BY <1>7, <1>9, <1>h, <2>1 DEF Hung, Accessed
  <2> QED BY <1>6, <1>10, <1>a, <2>2 DEF Chained
<1>11. ASSUME NEW frame \in Frame, t = Append(s, frame), frame.kind \in ScopeKind,
              frame.previous = e, frame.own = g, g \in ObjectsOf(k) => frame.kind = "access"
       PROVE  Chained(t, g, k)
  <2>1. /\ Len(t) = n + 1 /\ t[n + 1] = frame /\ \A i \in 1 .. n : t[i] = s[i]
    BY <1>11, PushFrame
  <2> DEFINE q == [i \in 1 .. n + 1 |-> IF i = n + 1 THEN m ELSE p[i]]
  <2>2. q \in [1 .. n + 1 -> Nat] /\ q[n + 1] = m /\ \A i \in 1 .. n : q[i] = p[i]
    BY <1>1, <1>2
  <2> HIDE DEF q
  <2>3. ASSUME NEW i \in 1 .. n + 1, t[i].kind \in ScopeKind
        PROVE  /\ q[i] \in 1 .. m + 1 - 1 /\ b[q[i]] = t[i].previous
               /\ t[i].kind = "access" => t[i].own = b[q[i] + 1]
               /\ \A j \in 1 .. i - 1 : t[j].kind \in ScopeKind => q[j] < q[i]
    <3>1. CASE i \in 1 .. n
      <4>1. /\ t[i] = s[i] /\ q[i] = p[i]
            /\ \A j \in 1 .. i - 1 : j \in 1 .. n /\ t[j] = s[j] /\ q[j] = p[j]
        <5>1. \A j \in 1 .. i - 1 : j \in 1 .. n
          BY <1>1, <3>1
        <5> QED BY <2>1, <2>2, <3>1, <5>1
      <4>2. \A j \in 1 .. i - 1 : t[j].kind \in ScopeKind => q[j] < q[i]
        BY <1>h, <2>3, <3>1, <4>1
      <4> QED BY <1>9, <2>3, <3>1, <4>1, <4>2
    <3>2. CASE i = n + 1
      <4>1. t[i] = frame /\ q[i] = m /\ \A j \in 1 .. i - 1 : j \in 1 .. n
        BY <1>1, <2>1, <2>2, <3>2
      <4>2. \A j \in 1 .. i - 1 : t[j].kind \in ScopeKind => q[j] < q[i]
        BY <1>9, <2>1, <2>2, <4>1
      <4> QED BY <1>6, <1>11, <1>a, <1>h, <4>1, <4>2
    <3> QED BY <1>1, <2>3, <3>1, <3>2
  <2>4. ASSUME NEW l \in 1 .. m + 1, b[l] \in ObjectsOf(k)
        PROVE  \E i \in 1 .. n + 1 : t[i].kind = "access" /\ t[i].own = b[l]
    <3>1. CASE l \in 1 .. m
      <4>1. PICK i \in 1 .. n : s[i].kind = "access" /\ s[i].own = b[l]
        BY <1>8, <2>4, <3>1 DEF Accessed
      <4>2. i \in 1 .. n + 1 /\ t[i] = s[i]
        BY <1>1, <2>1
      <4> QED BY <4>1, <4>2
    <3>2. CASE l = m + 1
      <4>1. n + 1 \in 1 .. n + 1
        BY <1>1
      <4> QED BY <1>6, <1>11, <2>1, <2>4, <3>2, <4>1
    <3> QED BY <1>a, <3>1, <3>2
  <2>5. Hung(t, g, k, m + 1, b, q)
    BY <1>7, <2>1, <2>3, <2>4 DEF Hung
  <2> QED BY <1>6, <1>a, <2>1, <2>2, <2>5 DEF Chained
<1> QED BY <1>10, <1>11

\* A frame is left without restoring what it saved.
LEMMA ChainDrop ==
  ASSUME NEW s \in Seq(Frame), s # <<>>, s[Len(s)].kind # "access",
         NEW e, NEW h, Chained(s, e, h)
  PROVE  Chained(Front(s), e, h)
<1> DEFINE t == Front(s)
           n == Len(s) - 1
<1>1. /\ n \in Nat /\ Len(s) = n + 1 /\ Len(t) = n
      /\ \A i \in 1 .. n : t[i] = s[i] /\ i \in 1 .. n + 1
      /\ \A i \in 1 .. n + 1 : i \in 1 .. n \/ i = n + 1
      /\ \A i \in 1 .. n : \A j \in 1 .. i - 1 : j \in 1 .. n
  BY PopFrame
<1> HIDE DEF t, n
<1>2. PICK m \in Nat \ {0} :
        \E c \in [1 .. m -> DOMAIN h], p \in [1 .. Len(s) -> Nat] : Hung(s, e, h, m, c, p)
  BY DEF Chained
<1>3. PICK c \in [1 .. m -> DOMAIN h], p \in [1 .. n + 1 -> Nat] : Hung(s, e, h, m, c, p)
  BY <1>1, <1>2
<1> DEFINE q == [i \in 1 .. n |-> p[i]]
<1>4. q \in [1 .. n -> Nat] /\ \A i \in 1 .. n : q[i] = p[i]
  BY <1>1
<1> HIDE DEF q
<1>5. /\ c[m] = e /\ h[c[1]].enclosing = Null
      /\ \A k \in 1 .. m - 1 : h[c[k + 1]].enclosing = c[k]
      /\ \A k, l \in 1 .. m : c[k] = c[l] => k = l
  BY <1>3 DEF Hung
<1>6. \A i \in 1 .. n : t[i].kind \in ScopeKind =>
        /\ q[i] \in 1 .. m - 1 /\ c[q[i]] = t[i].previous
        /\ t[i].kind = "access" => t[i].own = c[q[i] + 1]
        /\ \A j \in 1 .. i - 1 : t[j].kind \in ScopeKind => q[j] < q[i]
  BY <1>1, <1>3, <1>4 DEF Hung
<1>7. \A k \in 1 .. m : c[k] \in ObjectsOf(h) =>
        \E i \in 1 .. n : t[i].kind = "access" /\ t[i].own = c[k]
  <2> SUFFICES ASSUME NEW k \in 1 .. m, c[k] \in ObjectsOf(h)
               PROVE  \E i \in 1 .. n : t[i].kind = "access" /\ t[i].own = c[k]
    OBVIOUS
  <2>1. PICK i \in 1 .. n + 1 : s[i].kind = "access" /\ s[i].own = c[k]
    BY <1>1, <1>3 DEF Hung
  <2>2. i \in 1 .. n /\ t[i] = s[i]
    BY <1>1, <2>1
  <2> QED BY <2>1, <2>2
<1>8. Hung(t, e, h, m, c, q)
  BY <1>1, <1>5, <1>6, <1>7 DEF Hung
<1>9. Chained(t, e, h)
  BY <1>1, <1>4, <1>8 DEF Chained
<1> QED BY <1>9 DEF t

\* A frame restores what it saved, and whatever env_ was by then is deleted or
\* cut off.
LEMMA ChainCut ==
  ASSUME NEW s \in Seq(Frame), s # <<>>, s[Len(s)].kind \in ScopeKind,
         NEW e, NEW h, NEW k, Chained(s, e, h), SameChain(h, k, {e})
  PROVE  Chained(Front(s), s[Len(s)].previous, k)
<1> DEFINE t == Front(s)
           n == Len(s) - 1
<1>1. /\ n \in Nat /\ Len(s) = n + 1 /\ Len(t) = n /\ n + 1 \in 1 .. n + 1
      /\ \A i \in 1 .. n : t[i] = s[i] /\ i \in 1 .. n + 1 /\ i \in 1 .. n + 1 - 1
      /\ \A i \in 1 .. n + 1 : i \in 1 .. n \/ i = n + 1
      /\ \A i \in 1 .. n : \A j \in 1 .. i - 1 : j \in 1 .. n
  BY PopFrame
<1> HIDE DEF t, n
<1>2. PICK m \in Nat \ {0} :
        \E c \in [1 .. m -> DOMAIN h], p \in [1 .. Len(s) -> Nat] : Hung(s, e, h, m, c, p)
  BY DEF Chained
<1>3. PICK c \in [1 .. m -> DOMAIN h], p \in [1 .. n + 1 -> Nat] : Hung(s, e, h, m, c, p)
  BY <1>1, <1>2
<1>h. /\ c[m] = e /\ h[c[1]].enclosing = Null
      /\ \A l \in 1 .. m - 1 : h[c[l + 1]].enclosing = c[l]
      /\ \A i, l \in 1 .. m : c[i] = c[l] => i = l
      /\ \A i \in 1 .. n + 1 : s[i].kind \in ScopeKind =>
           /\ p[i] \in 1 .. m - 1 /\ c[p[i]] = s[i].previous
           /\ s[i].kind = "access" => s[i].own = c[p[i] + 1]
           /\ \A j \in 1 .. i - 1 : s[j].kind \in ScopeKind => p[j] < p[i]
      /\ \A l \in 1 .. m : c[l] \in ObjectsOf(h) =>
           \E i \in 1 .. n + 1 : s[i].kind = "access" /\ s[i].own = c[l]
  BY <1>1, <1>3 DEF Hung
<1> DEFINE r == p[n + 1]
<1>4. /\ r \in 1 .. m - 1 /\ c[r] = s[n + 1].previous
      /\ s[n + 1].kind = "access" => s[n + 1].own = c[r + 1]
      /\ \A j \in 1 .. n : s[j].kind \in ScopeKind => p[j] < r
  BY <1>1, <1>h
<1> HIDE DEF r
<1>5. /\ r \in Nat \ {0} /\ r \in 1 .. r /\ 1 \in 1 .. r
      /\ \A l \in 1 .. r : l \in 1 .. m /\ l # m /\ l # r + 1 /\ r + 1 \in 1 .. m
      /\ \A l \in 1 .. r - 1 : l \in 1 .. r /\ l + 1 \in 1 .. r /\ l \in 1 .. m - 1
  BY <1>2, <1>4
<1>6. ASSUME NEW l \in 1 .. r PROVE c[l] # e /\ c[l] \in DOMAIN h
  <2>1. l \in 1 .. m /\ m \in 1 .. m /\ l # m
    BY <1>2, <1>5
  <2> QED BY <1>h, <2>1
<1>7. \A l \in 1 .. r : /\ c[l] \in DOMAIN k
                        /\ k[c[l]].enclosing = h[c[l]].enclosing /\ k[c[l]].of = h[c[l]].of
  BY <1>6 DEF SameChain, Encloses
<1> DEFINE b == [l \in 1 .. r |-> c[l]]
           q == [i \in 1 .. n |-> p[i]]
<1>8. b \in [1 .. r -> DOMAIN k] /\ \A l \in 1 .. r : b[l] = c[l]
  BY <1>7
<1>9. q \in [1 .. n -> Nat] /\ \A i \in 1 .. n : q[i] = p[i]
  BY <1>1
<1> HIDE DEF b, q
<1>10. /\ b[r] = s[n + 1].previous /\ k[b[1]].enclosing = Null
       /\ \A l \in 1 .. r - 1 : k[b[l + 1]].enclosing = b[l]
       /\ \A i, l \in 1 .. r : b[i] = b[l] => i = l
  BY <1>4, <1>5, <1>7, <1>8, <1>h
<1>11. ASSUME NEW i \in 1 .. n, t[i].kind \in ScopeKind
       PROVE  /\ q[i] \in 1 .. r - 1 /\ b[q[i]] = t[i].previous
              /\ t[i].kind = "access" => t[i].own = b[q[i] + 1]
              /\ \A j \in 1 .. i - 1 : t[j].kind \in ScopeKind => q[j] < q[i]
  <2>1. /\ t[i] = s[i] /\ q[i] = p[i] /\ i \in 1 .. n + 1
        /\ p[i] \in 1 .. m - 1 /\ p[i] < r
    BY <1>1, <1>4, <1>9, <1>11, <1>h
  <2>2. q[i] \in 1 .. r - 1 /\ q[i] \in 1 .. r /\ q[i] + 1 \in 1 .. r
    BY <1>5, <2>1
  <2>3. \A j \in 1 .. i - 1 : t[j].kind \in ScopeKind => q[j] < q[i]
    BY <1>1, <1>9, <1>11, <1>h, <2>1
  <2> QED BY <1>8, <1>11, <1>h, <2>1, <2>2, <2>3
<1>12. ASSUME NEW l \in 1 .. r, b[l] \in ObjectsOf(k)
       PROVE  \E i \in 1 .. n : t[i].kind = "access" /\ t[i].own = b[l]
  <2>1. b[l] = c[l] /\ l \in 1 .. m /\ c[l] \in ObjectsOf(h)
    BY <1>5, <1>6, <1>7, <1>8, <1>12 DEF ObjectsOf
  <2>2. PICK i \in 1 .. n + 1 : s[i].kind = "access" /\ s[i].own = c[l]
    BY <1>h, <2>1
  <2>3. i # n + 1
    <3> SUFFICES ASSUME i = n + 1 PROVE FALSE
      OBVIOUS
    <3>1. c[r + 1] = c[l] /\ r + 1 \in 1 .. m /\ l # r + 1
      BY <1>4, <1>5, <2>2
    <3> QED BY <1>h, <2>1, <3>1
  <2>4. i \in 1 .. n /\ t[i] = s[i]
    BY <1>1, <2>3
  <2> QED BY <2>1, <2>2, <2>4
<1>13. Hung(t, s[n + 1].previous, k, r, b, q)
  BY <1>1, <1>10, <1>11, <1>12 DEF Hung
<1>14. Chained(t, s[n + 1].previous, k)
  BY <1>1, <1>5, <1>8, <1>9, <1>13 DEF Chained
<1> QED BY <1>1, <1>14 DEF t

\* No step of a disciplined program breaks the chain.
LEMMA StepChained ==
  ASSUME ChainInv, [Next]_vars
  PROVE  ChainInv'
<1>0. /\ AliveInv /\ TypeOK /\ HeapOK /\ StackOK /\ IsHeap(heap) /\ stack \in Seq(Frame)
      /\ fresh \notin DOMAIN heap
  BY DEF ChainInv, AliveInv, TypeOK, HeapOK, StackOK, Global, Address
<1>1. AliveInv'
  BY <1>0, StepAlive
<1> SUFFICES ASSUME status' = "running", Disciplined'
             PROVE  Chained(stack', env', heap')
  BY <1>1 DEF ChainInv
<1>2. /\ "reentered" \notin events' /\ "unwound" \notin events'
      /\ Chained(stack, env, heap)
      /\ HoldsOnly(heap, {NoObject} \cup ObjectsOf(heap))
  BY StepHistory DEF ChainInv, AliveInv, Disciplined
<1>3. \A d \in DOMAIN heap \cap DOMAIN heap' : heap'[d].of = heap[d].of
  BY <1>0, StepDomain
<1> DEFINE Goal == Chained(stack', env', heap')
<1>s. ASSUME NEW E, Encloses(heap, heap', E) PROVE SameChain(heap, heap', E)
  BY <1>3, <1>s DEF SameChain
<1>q. ASSUME Encloses(heap, heap', {}), UNCHANGED env, UNCHANGED stack PROVE Goal
  BY <1>2, <1>q, <1>s, ChainSame
<1>d. ASSUME UNCHANGED <<heap, env>>, stack # <<>>, stack' = Front(stack),
             stack[Len(stack)].kind # "access"
      PROVE  Goal
  <2>1. Chained(Front(stack), env, heap)
    BY <1>0, <1>2, <1>d, ChainDrop
  <2> QED BY <1>d, <2>1
<1>e. ASSUME EndScope, stack # <<>>, Top.kind \in {"block", "body"}, stack' = Front(stack),
             fresh' = fresh
      PROVE  Goal
  <2>1. Top = stack[Len(stack)] /\ env' = Top.previous /\ SameChain(heap, heap', {env})
    BY <1>0, <1>e, <1>s, ScopeEnds
  <2> QED BY <1>0, <1>2, <1>e, <2>1, ChainCut DEF ScopeKind
<1>n. ASSUME ScopeMade
      PROVE  /\ fresh \in DOMAIN heap' /\ heap'[fresh].enclosing = env /\ env' = fresh
             /\ SameChain(heap, heap', {fresh}) /\ fresh \notin ObjectsOf(heap')
  BY <1>n, <1>s DEF ScopeMade, ObjectsOf
<1>4. CASE EnterBlock
  <2>1. PICK frame \in Frame :
          /\ ScopeMade /\ stack' = Append(stack, frame)
          /\ frame.kind = "block" /\ frame.previous = env /\ frame.own = fresh
    BY <1>0, <1>4, BlockStep
  <2>2. frame.kind \in ScopeKind
    BY <2>1 DEF ScopeKind
  <2>3. /\ stack \in Seq(Frame) /\ Chained(stack, env, heap) /\ fresh \notin DOMAIN heap
        /\ fresh \in DOMAIN heap' /\ heap'[fresh].enclosing = env /\ SameChain(heap, heap', {fresh})
        /\ fresh \notin ObjectsOf(heap') /\ env' = fresh
    BY <1>0, <1>2, <1>n, <2>1
  <2> QED BY <2>1, <2>2, <2>3, ChainGrow
<1>5. CASE LeaveBlock \/ LeaveBody
  BY <1>5, <1>e DEF LeaveBlock, LeaveBody, TopIs, Pop
<1>6. CASE EnterLoop \/ \E f \in Func : BeginCall(f)
  <2>1. PICK frame \in Frame : stack' = Append(stack, frame) /\ frame.kind \notin ScopeKind
    BY <1>6, PlainStep
  <2>2. heap' = heap /\ env' = env
    BY <1>6, PlainStep
  <2>3. Chained(Append(stack, frame), env, heap)
    BY <1>0, <1>2, <2>1, ChainFrame
  <2> QED BY <2>1, <2>2, <2>3
<1>7. ASSUME NEW args \in Table(Var, Values), EnterBody(args) \/ RepeatedParameter(args)
      PROVE  Goal
  <2> DEFINE rest == Front(stack)
  <2>1. /\ stack # <<>> /\ Top = stack[Len(stack)] /\ Top.kind = "args" /\ ScopeMade
        /\ \/ stack' = rest
           \/ \E frame \in Frame : /\ stack' = Append(rest, frame) /\ frame.kind = "body"
                                   /\ frame.previous = env /\ frame.own = fresh
    BY <1>0, <1>7, CallStep
  <2>2. rest \in Seq(Frame) /\ Chained(rest, env, heap)
    BY <1>0, <1>2, <2>1, PopFrame, ChainDrop
  <2> HIDE DEF rest
  <2>3. CASE stack' = rest
    BY <1>0, <1>n, <2>1, <2>2, <2>3, ChainGrow
  <2>4. ASSUME NEW frame \in Frame, stack' = Append(rest, frame), frame.kind = "body",
               frame.previous = env, frame.own = fresh
        PROVE  Goal
    <3>1. frame.kind \in ScopeKind
      BY <2>4 DEF ScopeKind
    <3>2. /\ fresh \in DOMAIN heap' /\ heap'[fresh].enclosing = env /\ env' = fresh
          /\ SameChain(heap, heap', {fresh}) /\ fresh \notin ObjectsOf(heap')
      BY <1>n, <2>1
    <3>3. Chained(stack', fresh, heap')
      BY <1>0, <2>2, <2>4, <3>1, <3>2, ChainGrow
    <3> QED BY <3>2, <3>3
  <2> QED BY <2>1, <2>3, <2>4
<1>8. ASSUME NEW c \in Class, NEW member \in [DOMAIN c.members -> Values], New(c, member)
      PROVE  Goal
  BY <1>0, <1>8, <1>q, NewStep
<1>9. ASSUME NEW x \in Var, BeginAccess(x) PROVE Goal
  <2>1. PICK object \in DOMAIN heap \cap ({NoObject} \cup ObjectsOf(heap)) :
          /\ DOMAIN heap' = DOMAIN heap /\ heap'[object].enclosing = env /\ env' = object
          /\ Encloses(heap, heap', {object})
          /\ events' = events \cup
               (IF \E i \in DOMAIN stack : stack[i].kind = "access" /\ stack[i].own = object
                THEN {"reentered"} ELSE {})
          /\ \E frame \in Frame : /\ stack' = Append(stack, frame) /\ frame.kind = "access"
                                  /\ frame.previous = env /\ frame.own = object
    BY <1>0, <1>2, <1>9, AccessStep
  <2>2. PICK frame \in Frame :
          /\ stack' = Append(stack, frame) /\ frame.kind = "access"
          /\ frame.previous = env /\ frame.own = object
    BY <2>1
  <2>3. object \in ObjectsOf(heap)
    BY <1>0, <2>1 DEF IsHeap, NoObject, Null, Address
  <2>4. ~Accessed(stack, object)
    BY <1>0, <1>2, <2>1, LenProperties DEF Accessed
  <2>5. frame.kind \in ScopeKind /\ object \in DOMAIN heap' /\ SameChain(heap, heap', {object})
    BY <1>s, <2>1, <2>2 DEF ScopeKind
  <2>6. Chained(stack', object, heap')
    BY <1>0, <1>2, <2>1, <2>2, <2>3, <2>4, <2>5, ChainGrow
  <2> QED BY <2>1, <2>6
<1>10. CASE EndAccess
  <2>1. /\ stack # <<>> /\ stack' = Front(stack) /\ Top = stack[Len(stack)]
        /\ Top.kind \in ScopeKind /\ env' = Top.previous /\ SameChain(heap, heap', {env})
    BY <1>0, <1>10, <1>s, AccessEnds DEF ScopeKind
  <2> QED BY <1>0, <1>2, <2>1, ChainCut
<1>11. CASE UnwindBlock \/ UnwindBody
  <2>1. /\ stack # <<>> /\ Top.kind \in {"block", "body"} /\ stack' = Front(stack)
        /\ (EndScope /\ fresh' = fresh) \/ UNCHANGED <<heap, env>>
    BY <1>11, UnwindStep
  <2>2. CASE EndScope /\ fresh' = fresh
    BY <1>e, <2>1, <2>2, Zenon
  <2>3. CASE UNCHANGED <<heap, env>>
    <3>1. stack[Len(stack)].kind # "access"
      BY <1>0, <2>1, TopFrame
    <3> QED BY <1>d, <2>1, <2>3, <3>1, Zenon
  <2> QED BY <2>1, <2>2, <2>3
<1>12. CASE \/ \E x \in Var, v \in Values : DeclareVar(x, v) \/ AssignVar(x, v)
            \/ \E f \in Nested, defined \in BOOLEAN : DeclareFunc(f, defined)
  BY <1>0, <1>12, <1>q, TableStep
<1>13. CASE \/ LeaveLoop \/ Break \/ Return \/ FalseConditionWithElse \/ Fail
            \/ ReportInPlace \/ UnwindLoop \/ UnwindArgs \/ UseAfterFree \/ EndlessLookup
            \/ UnwindProgram \/ Ended \/ UNCHANGED vars \/ \E x \in Var : AccessNoObject(x)
  <2>1. CASE UNCHANGED stack
    <3>1. UNCHANGED <<heap, env>>
      BY <1>13, OtherStep
    <3> QED BY <1>2, <2>1, <3>1
  <2>2. CASE stack # <<>> /\ stack' = Front(stack) /\ Top.kind \in {"loop", "args"}
    <3>1. UNCHANGED <<heap, env>> /\ stack[Len(stack)].kind # "access"
      BY <1>0, <1>13, <2>2, OtherStep, TopFrame
    <3> QED BY <1>d, <2>2, <3>1
  <2> QED BY <1>13, <2>1, <2>2, OtherStep
<1>14. CASE UnwindAccess \/ Finish
  BY <1>2, <1>14 DEF UnwindAccess, Finish
<1> QED
  BY <1>4, <1>5, <1>6, <1>7, <1>8, <1>9, <1>10, <1>11, <1>12, <1>13, <1>14
     DEF Next, Statement, Expression, Unwind

\* At the start the chain is the global environment.
LEMMA InitChained == Init => ChainInv
<1> SUFFICES ASSUME Init PROVE ChainInv
  OBVIOUS
<1>1. /\ stack = <<>> /\ Len(stack) = 0 /\ env = Global /\ DOMAIN heap = {Global}
      /\ heap[Global].enclosing = Null /\ ObjectsOf(heap) = {}
  BY InitHeap DEF Init, ObjectsOf
<1> DEFINE c == [k \in 1 .. 1 |-> Global]
           p == [i \in 1 .. 0 |-> 0]
<1>2. /\ c \in [1 .. 1 -> DOMAIN heap] /\ c[1] = Global
      /\ p \in [1 .. Len(stack) -> Nat] /\ 1 \in Nat \ {0}
  BY <1>1
<1> HIDE DEF c, p
<1>3. /\ 1 .. 1 = {1} /\ 1 .. (1 - 1) = {}
  OBVIOUS
<1>4. Hung(stack, env, heap, 1, c, p)
  BY <1>1, <1>2, <1>3 DEF Hung
<1> QED BY <1>2, <1>4, InitAlive DEF ChainInv, Chained

\* Breaks and errors may leave env_ in a scope that nobody deletes, but in a
\* disciplined program whatever env_ and the running constructs lead to is
\* allocated.
THEOREM ScopesAllocated == Spec => []NoDanglingScope
<1>1. ChainInv => NoDanglingScope
  <2> SUFFICES ASSUME ChainInv, status = "running", Disciplined
               PROVE  \E S \in SUBSET DOMAIN heap :
                        /\ env \in S /\ Closed(heap, S)
                        /\ \A i \in Scopes : stack[i].previous \in S
    BY DEF NoDanglingScope
  <2>1. DOMAIN stack = 1 .. Len(stack)
    BY LenProperties DEF ChainInv, AliveInv, TypeOK, StackOK
  <2>2. PICK m \in Nat \ {0} :
          \E c \in [1 .. m -> DOMAIN heap], p \in [1 .. Len(stack) -> Nat] :
            Hung(stack, env, heap, m, c, p)
    BY DEF ChainInv, Chained
  <2>3. PICK c \in [1 .. m -> DOMAIN heap], p \in [1 .. Len(stack) -> Nat] :
          Hung(stack, env, heap, m, c, p)
    BY <2>2
  <2> DEFINE S == {c[k] : k \in 1 .. m}
  <2>4. S \subseteq DOMAIN heap /\ env \in S
    BY <2>3 DEF Hung
  <2>5. Closed(heap, S)
    <3> SUFFICES ASSUME NEW k \in 1 .. m PROVE heap[c[k]].enclosing \in S \cup {Null}
      BY DEF Closed
    <3>1. CASE k = 1
      BY <2>3, <3>1 DEF Hung
    <3>2. CASE k # 1
      <4>1. k - 1 \in 1 .. m - 1 /\ k - 1 \in 1 .. m /\ k - 1 + 1 = k
        BY <3>2
      <4>2. heap[c[k]].enclosing = c[k - 1]
        BY <2>3, <4>1 DEF Hung
      <4> QED BY <4>1, <4>2
    <3> QED BY <3>1, <3>2
  <2>6. \A i \in Scopes : stack[i].previous \in S
    <3> SUFFICES ASSUME NEW i \in Scopes PROVE stack[i].previous \in S
      OBVIOUS
    <3>1. p[i] \in 1 .. m - 1 /\ c[p[i]] = stack[i].previous
      BY <2>1, <2>3 DEF Hung, Scopes
    <3>2. p[i] \in 1 .. m
      BY <3>1
    <3> QED BY <3>1, <3>2
  <2> QED BY <2>4, <2>5, <2>6
<1> QED BY <1>1, InitChained, StepChained, PTL DEF Spec

\* In a disciplined program a lookup meets no cycle: it finds the name or ends
\* at the global environment.
THEOREM LookupsTerminate == Spec => []LookupsEnd
<1>1. ChainInv => LookupsEnd
  <2> SUFFICES ASSUME ChainInv, status = "running", Disciplined,
                      NEW S \in SUBSET DOMAIN heap, env \in S,
                      \A d \in S : heap[d].enclosing \in S
               PROVE  FALSE
    BY DEF LookupsEnd, Endless
  <2>1. Null \notin S
    BY DEF ChainInv, AliveInv, TypeOK, HeapOK, IsHeap, Address
  <2>2. PICK m \in Nat \ {0} :
          \E c \in [1 .. m -> DOMAIN heap], p \in [1 .. Len(stack) -> Nat] :
            Hung(stack, env, heap, m, c, p)
    BY DEF ChainInv, Chained
  <2>3. PICK c \in [1 .. m -> DOMAIN heap], p \in [1 .. Len(stack) -> Nat] :
          Hung(stack, env, heap, m, c, p)
    BY <2>2
  <2> DEFINE K == {k \in 1 .. m : c[k] \in S}
  <2>4. m \in K /\ K \subseteq Nat
    BY <2>3 DEF Hung
  <2>5. PICK k \in K : \A l \in K : ~(<<l, k>> \in OpToRel(<, Nat))
    BY <2>4, NatLessThanWellFounded, WFMin
  <2>6. \A l \in K : ~(l < k)
    BY <2>4, <2>5 DEF OpToRel
  <2>7. CASE k = 1
    BY <2>1, <2>3, <2>7 DEF Hung
  <2>8. CASE k # 1
    <3>1. k - 1 \in 1 .. m - 1 /\ k - 1 \in 1 .. m /\ k - 1 + 1 = k /\ k - 1 < k
      BY <2>8
    <3>2. heap[c[k]].enclosing = c[k - 1]
      BY <2>3, <3>1 DEF Hung
    <3>3. k - 1 \in K
      BY <3>1, <3>2
    <3> QED BY <2>6, <3>1, <3>3
  <2> QED BY <2>7, <2>8
<1> QED BY <1>1, InitChained, StepChained, PTL DEF Spec
==============================================================================
