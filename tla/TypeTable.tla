------------------------------ MODULE TypeTable ------------------------------
(***************************************************************************)
(* The table of types (Types/TypeTable.cpp), its one-byte ids and the walk *)
(* along super types (Types/Type.cpp).                                     *)
(***************************************************************************)
EXTENDS Naturals, Sequences

CONSTANTS Name,    \* names of types
          Builtin, \* the builtin types with the names of their super types
          IdCount  \* how many ids there are: 256, TypeID being one byte

\* add_builtin_types registers each type behind its super type, "type" first.
ASSUME BuiltinAssumption ==
  /\ IdCount \in Nat
  /\ Builtin \in Seq([name : Name, super : Name])
  /\ Len(Builtin) \in 1 .. IdCount
  /\ Builtin[1].name = "type"
  /\ \A i \in 2 .. Len(Builtin) : \E j \in 1 .. i - 1 : Builtin[j].name = Builtin[i].super
  /\ \E i \in DOMAIN Builtin : Builtin[i].name = "object"
  /\ \E i \in DOMAIN Builtin : Builtin[i].name = "error"

VARIABLE table  \* TypeTable::table_, whose length modulo IdCount is type_count_

Entry == [name : Name, id : Nat, parent : Nat]

\* Loops over a table return the first entry that matches.
First(I) == CHOOSE i \in I : \A j \in I : i <= j

\* get_type_id: an unknown name is "type".
IdIn(t, name) ==
  LET Named == {i \in DOMAIN t : t[i].name = name}
  IN  IF Named = {} THEN 0 ELSE t[First(Named)].id

WithId(id) == {i \in DOMAIN table : table[i].id = id}

\* Mistake: the last entry with the id is taken.
SuperOfLast(id) ==
  IF WithId(id) = {} THEN 0
  ELSE table[CHOOSE i \in WithId(id) : \A j \in WithId(id) : j <= i].parent

\* get_super_type
SuperOf(id) == IF WithId(id) = {} THEN 0 ELSE table[First(WithId(id))].parent

TypeId(name) == IdIn(table, name)

\* Mistake: the counter has one bit less than the ids.
RegisterNarrow(name, parent) ==
  table' = Append(table, [name |-> name, id |-> Len(table) % (IdCount \div 2), parent |-> parent])

\* register_type never looks whether the name or the id is in use.
Register(name, parent) ==
  table' = Append(table, [name |-> name, id |-> Len(table) % IdCount, parent |-> parent])

\* add_builtin_types
BuiltinTable ==
  [i \in DOMAIN Builtin |->
     [name |-> Builtin[i].name, id |-> i - 1,
      parent |-> IF i = 1 THEN 0
                 ELSE First({j \in 1 .. i - 1 : Builtin[j].name = Builtin[i].super}) - 1]]

\* Type::is_subtype_of(TypeID) walks along the super types up to "type": it finds
\* this one if no set of types that the walk passes, "type" excluded, does
\* without it; and it never ends if some set keeps the walk from both.
Id == 0 .. IdCount - 1

Passed(S, id, super) ==
  /\ SuperOf(id) \in S
  /\ \A i \in S \ {super, TypeId("type")} : SuperOf(i) \in S

IsSubtype(id, super) ==
  \/ id = super
  \/ super # TypeId("type") /\ \A S \in SUBSET Id : Passed(S, id, super) => super \in S

Endless(id, super) ==
  /\ id # super
  /\ \E S \in SUBSET Id : Passed(S, id, super) /\ S \cap {super, TypeId("type")} = {}
==============================================================================
