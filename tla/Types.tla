------------------------------- MODULE Types -------------------------------
(***************************************************************************)
(* The tables of operations of the builtin types.  An object points to the *)
(* table of its type (object_type_t, include/types.h); the table has a     *)
(* slot for every operation, and a slot that is 0 is an operation the type *)
(* does not have.  The tables are in core/types/*.cpp (IMPLEMENT_TYPE).     *)
(* Slots are called by the ob_ functions of types.h only, which look at     *)
(* the slot first.                                                          *)
(***************************************************************************)

Arithmetic == {"add", "sub", "mul", "div", "mod"}
InplaceArithmetic ==
    {"inplace_add", "inplace_sub", "inplace_mul", "inplace_div", "inplace_mod"}
Bitwise2 == {"bw_and", "bw_or", "bw_xor", "bw_lshift", "bw_rshift"}
InplaceBitwise == {"bw_inplace_and", "bw_inplace_or", "bw_inplace_xor",
                   "bw_inplace_lshift", "bw_inplace_rshift"}
Comparison == {"l_same", "l_diff", "l_less", "l_greater",
               "l_less_or_same", "l_greater_or_same"}
Logic == Comparison \union {"l_or", "l_and"}
Unary == {"factorial", "increment", "decrement", "minus", "bw_not", "l_not"}
Numeric == Arithmetic \union InplaceArithmetic \union Bitwise2 \union InplaceBitwise
              \union Logic \union Unary

Generic == {"type_name", "traverse", "clone", "free", "get_size", "serialize",
            "deserialize", "to_fd", "from_fd", "cmp", "ivalue", "fvalue", "lvalue",
            "svalue", "print", "scanf", "to_string", "to_int", "range", "regexp",
            "assign"}
Collection == {"cl_push", "cl_push_reference", "cl_pop", "cl_remove", "cl_at",
               "cl_set", "cl_set_reference"}
Attribute == {"define_attribute", "attribute_access", "attribute_is_static",
              "set_attribute_access", "add_attribute", "get_attribute",
              "set_attribute", "set_attribute_reference"}
Method == {"define_method", "get_method", "call_method"}

Slots == Numeric \union Generic \union Collection \union Attribute \union Method

(* What no table leaves out.                                               *)
Every == {"clone", "ivalue", "fvalue", "lvalue", "svalue", "print", "assign"}

Stream == {"serialize", "deserialize", "to_fd", "from_fd"}

Convertible == {"cmp", "to_string", "to_int"}

----------------------------------------------------------------------------
IntegerTable == Every \union Numeric \union Stream \union Convertible
                   \union {"scanf", "range", "cl_at"}

AliasTable == IntegerTable \ {"to_fd", "from_fd"}

ExternTable == IntegerTable \ {"to_fd", "from_fd"}

FloatTable == Every \union Numeric \union Stream \union Convertible \union {"scanf"}

CharTable == Every \union Numeric \union Stream \union Convertible
                \union {"scanf", "range"}

BooleanTable == Every \union Logic \union {"l_not"} \union Stream \union Convertible

HandleTable == Every \union Logic \union {"l_not"} \union Convertible

StringTable ==
    Every \union Stream \union Convertible
       \union {"get_size", "scanf", "regexp", "add", "inplace_add", "l_same", "l_diff",
               "cl_at", "cl_set", "call_method"}

BinaryTable ==
    Every \union {"traverse", "free", "get_size", "serialize", "deserialize", "cmp",
                  "cl_push", "cl_push_reference", "cl_at", "cl_set", "cl_set_reference"}

VectorTable ==
    Every \union Collection
       \union {"traverse", "free", "get_size", "to_fd", "cmp", "add", "sub",
               "inplace_add", "inplace_sub", "call_method"}

MapTable ==
    Every \union {"traverse", "free", "get_size", "cmp", "cl_pop", "cl_remove", "cl_at",
                  "cl_set", "cl_set_reference", "call_method"}

StructureTable ==
    Every \union {"traverse", "free", "get_size", "define_attribute", "add_attribute",
                  "get_attribute", "set_attribute", "set_attribute_reference"}

ClassTable ==
    (Every \union Numeric \union Attribute \union Method
       \union {"type_name", "traverse", "free", "get_size", "range", "regexp",
               "cl_push", "cl_at", "cl_set"}) \ {"factorial", "minus"}

ReferenceTable == Slots \ {"free"}

Table == [Integer |-> IntegerTable, Alias |-> AliasTable, Extern |-> ExternTable,
          Float |-> FloatTable, Char |-> CharTable, Boolean |-> BooleanTable,
          Handle |-> HandleTable, String |-> StringTable, Binary |-> BinaryTable,
          Vector |-> VectorTable, Map |-> MapTable, Structure |-> StructureTable,
          Class |-> ClassTable, Reference |-> ReferenceTable]

(* Whether an operation of a type can be called; the ob_ function of a slot *)
(* that is empty ends in hyb_error.                                         *)
Supports(type, slot) == slot \in Table[type]
=============================================================================
