------------------------------- MODULE CObject -------------------------------
(***************************************************************************)
(* CObject and its subclasses, src/dart/bin/dartutils.h, over the union of *)
(* Dart_CObject, src/dart/include/dart_native_api.h: which member of the   *)
(* union an object was written as, what the Is... tests say of it, which   *)
(* constructor takes it and which fields are read from it.                 *)
(***************************************************************************)
EXTENDS Integers, Sequences, FiniteSets

CONSTANTS
    WordBytes,        \* sizeof(intptr_t): 8, or 4 on a 32-bit build
    TypedDataTypes,   \* Dart_TypedData_Type, with kUint8
    kUint8

ASSUME CObjectAssumption == WordBytes \in {4, 8} /\ kUint8 \in TypedDataTypes

\* Dart_CObject_Type.
Types == {"Null", "Bool", "Int32", "Int64", "Double", "String", "Array",
          "TypedData", "ExternalTypedData", "SendPort", "Capability",
          "Unsupported"}

\* The fields of the member of the union that each type is written as.
Member(type) ==
    CASE type = "Bool" -> <<"bool">>
      [] type = "Int32" -> <<"int32">>
      [] type = "Int64" -> <<"int64">>
      [] type = "Double" -> <<"double">>
      [] type = "String" -> <<"char*">>
      [] type = "SendPort" -> <<"id", "origin_id">>
      [] type = "Capability" -> <<"id">>
      [] type = "Array" -> <<"length", "values">>
      [] type = "TypedData" -> <<"type", "length", "bytes">>
      [] type = "ExternalTypedData" -> <<"type", "length", "bytes", "peer", "callback">>
      [] type \in {"Null", "Unsupported"} -> <<>>

\* Field k of the member of one type, read from an object of another: it is
\* there if the members begin with the same fields.
Readable(object, as, k) ==
    /\ k \in DOMAIN Member(object.type) /\ k \in DOMAIN Member(as)
    /\ \A j \in 1 .. k : Member(object.type)[j] = Member(as)[j]

Objects == [type : Types, bytes : TypedDataTypes]

-----------------------------------------------------------------------------
(* CObject.                                                                *)

HasBytes(object) == object.type \in {"TypedData", "ExternalTypedData"}

\* byte_array_type reads the member of a typed data, whichever of the two the
\* object is; its ASSERT is HasBytes.
byte_array_type(object) == object.bytes

IsInt32OrInt64(object) == object.type \in {"Int32", "Int64"}
IsIntptr(object) == IsInt32OrInt64(object)

IsUint8Array(object) ==
    object.type = "TypedData" /\ byte_array_type(object) = kUint8

\* The test a native method makes before it wraps an object as a class; the
\* class CObjectExternalUint8Array has none.
Is(class, object) ==
    CASE class = "Intptr" -> IsIntptr(object)
      [] class = "Uint8Array" -> IsUint8Array(object)
      [] class = "ExternalUint8Array" -> FALSE
      [] OTHER -> object.type = class

-----------------------------------------------------------------------------
(* The subclasses.                                                         *)

Classes == {"Bool", "Int32", "Int64", "Intptr", "Double", "String", "Array",
            "SendPort", "TypedData", "Uint8Array", "ExternalUint8Array"}

\* The ASSERTs of the constructors.
Constructs(class, object) ==
    CASE class = "Intptr" -> object.type \in {"Int32", "Int64"}
      [] class = "Uint8Array" ->
           object.type = "TypedData" /\ byte_array_type(object) = kUint8
      [] class = "ExternalUint8Array" ->
           object.type = "ExternalTypedData" /\ byte_array_type(object) = kUint8
      [] OTHER -> object.type = class

\* MUTANT: the value of either integer is read from as_int64.
Accessed_Int64(class, object) ==
    CASE class = "Intptr" -> {<<"Int64", 1>>}
      [] OTHER -> {<<class, k>> : k \in DOMAIN Member(class)}

\* The fields that the accessors of a class read, each from the member of a
\* type.
Accessed(class, object) ==
    CASE class = "Intptr" -> {<<object.type, 1>>}
      [] class = "Uint8Array" -> {<<"TypedData", 2>>, <<"TypedData", 3>>}
      [] class = "ExternalUint8Array" -> {<<"ExternalTypedData", k>> : k \in 2 .. 5}
      [] OTHER -> {<<class, k>> : k \in DOMAIN Member(class)}

\* CObjectIntptr::Value keeps the value: a word holds it.
HoldsValue(object) == object.type = "Int64" => WordBytes = 8

-----------------------------------------------------------------------------
(* Any object that a message may bring.                                    *)

VARIABLE cobject

CObjectInit == cobject \in Objects
CObjectNext == UNCHANGED cobject

-----------------------------------------------------------------------------
(* Properties.                                                             *)

\* An object that passes a test can be wrapped: the ASSERT of the constructor
\* holds, every accessor of the class reads what was written, from the same
\* member of the union or from one that begins alike, and a word holds the
\* integer; and every typed data has its type where byte_array_type looks.
TestedIsWrappable ==
    /\ \A class \in Classes :
         /\ Is(class, cobject) => Constructs(class, cobject)
         /\ Constructs(class, cobject) =>
              \A a \in Accessed(class, cobject) : Readable(cobject, a[1], a[2])
    /\ Constructs("Intptr", cobject) => HoldsValue(cobject)
    /\ HasBytes(cobject) => Readable(cobject, "TypedData", 1)

=============================================================================
