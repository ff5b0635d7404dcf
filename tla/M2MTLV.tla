------------------------------- MODULE M2MTLV -------------------------------
(***************************************************************************)
(* TLV records: their headers, and how the contents of an object instance  *)
(* are written to records and read from them. Translated from              *)
(* source/m2mtlvserializer.cpp and source/m2mtlvdeserializer.cpp.          *)
(*                                                                         *)
(* Headers are sequences of bytes. Contents and payloads are not: contents *)
(* map slots to leaves, where <<id>> is the resource id and <<id, k>> its  *)
(* instance k; a payload is the sequence of its records in the order of    *)
(* their bytes, each with the number of records nested in it. A container  *)
(* at the end of a payload has at least one record: the code would read on *)
(* past the end.                                                           *)
(***************************************************************************)
EXTENDS Integers, Sequences, FiniteSets, FiniteSetsExt

-----------------------------------------------------------------------------
(* Headers.                                                                *)

TypeCode == [OI |-> 0, RI |-> 64, M |-> 128, R |-> 192]
ID16 == 32
LENGTH8 == 8
LENGTH16 == 16
LENGTH24 == 24

\* Mutant: the first length that takes three bytes is announced as two.
TypeByte_Narrow(type, id, length) ==
    TypeCode[type]
    + (IF id < 256 THEN 0 ELSE ID16)
    + (IF length < 8 THEN length
       ELSE IF length < 256 THEN LENGTH8
       ELSE IF length <= 65536 THEN LENGTH16 ELSE LENGTH24)

\* The first byte serialize_TILV() writes.
TypeByte(type, id, length) ==
    TypeCode[type]
    + (IF id < 256 THEN 0 ELSE ID16)
    + (IF length < 8 THEN length
       ELSE IF length < 256 THEN LENGTH8
       ELSE IF length < 65536 THEN LENGTH16 ELSE LENGTH24)

SerializeId(id) ==
    IF id > 255 THEN <<id \div 256, id % 256>> ELSE <<id>>

SerializeLength(length) ==
    IF length > 65535 THEN <<length \div 65536, (length \div 256) % 256, length % 256>>
    ELSE IF length > 255 THEN <<length \div 256, length % 256>>
    ELSE IF length > 7 THEN <<length>>
    ELSE <<>>

\* serialize_TILV()
Header(type, id, length) ==
    <<TypeByte(type, id, length)>> \o SerializeId(id) \o SerializeLength(length)

\* TypeIdLength::deserialize(): the flags decide how many bytes are read.
DeserialiseID(tlv) == IF (tlv[1] \div ID16) % 2 = 1 THEN tlv[2] * 256 + tlv[3] ELSE tlv[2]

LengthType(tlv) == ((tlv[1] \div LENGTH8) % 4) * LENGTH8

LengthAt(tlv) == IF (tlv[1] \div ID16) % 2 = 1 THEN 4 ELSE 3

DeserialiseLength(tlv) ==
    LET n == LengthAt(tlv) IN
    CASE LengthType(tlv) = 0 -> tlv[1] % 8
      [] LengthType(tlv) = LENGTH8 -> tlv[n]
      [] LengthType(tlv) = LENGTH16 -> tlv[n] * 256 + tlv[n + 1]
      [] LengthType(tlv) = LENGTH24 -> (tlv[n] * 256 + tlv[n + 1]) * 256 + tlv[n + 2]

\* Where the value begins, as deserialize_resource_instances() computes it for
\* the record of a multiple resource.
ValueOffset(tlv) ==
    2 + (IF (tlv[1] \div ID16) % 2 = 1 THEN 1 ELSE 0) + LengthType(tlv) \div LENGTH8

-----------------------------------------------------------------------------
(* Values. An integer is kept as the text set_value(int64_t) makes of it or *)
(* as the binary digits of a record; a text is kept as it is.              *)

NoValue == <<>>
Text(v) == <<"text", v>>
Binary(v) == <<"binary", v>>

Types == {"STRING", "OPAQUE", "INTEGER", "BOOLEAN"}
IntegerTypes == {"INTEGER", "BOOLEAN", "TIME"}

\* get_value_int() reads text: atoll() of small binary digits is 0.
GetValueInt(value) == IF value # NoValue /\ value[1] = "text" THEN value[2] ELSE 0

Leaf(type, operation, value) ==
    [type |-> type, operation |-> operation, multiple |-> FALSE, value |-> value]

\* A resource with instances, whose own value nobody reads.
MultipleResource(type) == [Leaf(type, {"GET"}, NoValue) EXCEPT !.multiple = TRUE]

\* The contents with a leaf at a slot.
With(contents, slot, leaf) ==
    [s \in DOMAIN contents \cup {slot} |-> IF s = slot THEN leaf ELSE contents[s]]

Record(type, id, span, value) == [type |-> type, id |-> id, span |-> span, value |-> value]

\* What there is of each: an identifier has two bytes.
Identifiers == 0..65535
Values == {NoValue} \cup ({"text", "binary"} \X Int)
Records == [type : DOMAIN TypeCode, id : Identifiers, span : Nat, value : Values]

-----------------------------------------------------------------------------
(* Serialisation.                                                          *)

\* Mutant: the text of an integer is written as it is.
SerializeValue_Text(leaf) == leaf.value

\* serialize_TLV_binary_int() for the integer types, which keeps one byte of a
\* boolean; the bytes for the others.
SerializeValue(leaf) ==
    CASE leaf.type = "BOOLEAN" -> Binary(GetValueInt(leaf.value) % 256)
      [] leaf.type \in IntegerTypes \ {"BOOLEAN"} -> Binary(GetValueInt(leaf.value))
      [] OTHER -> leaf.value

SerializeResource(contents, slot) ==
    <<Record("R", slot[1], 0, SerializeValue(contents[slot]))>>

InstancesOf(contents, id) == {slot \in DOMAIN contents : Len(slot) = 2 /\ slot[1] = id}

SerializeMultipleResource(contents, id) ==
    FoldSet(LAMBDA slot, records :
                Append(records, Record("RI", slot[2], 0, SerializeValue(contents[slot]))),
            <<Record("M", id, Cardinality(InstancesOf(contents, id)), NoValue)>>,
            InstancesOf(contents, id))

\* name_id() of a resource whose name is not a number.
NoId == -1

\* serialize_resources(), in some order of the resources: one without a number
\* keeps all of them from being written.
SerializeResources(contents) ==
    IF <<NoId>> \in DOMAIN contents THEN <<>>
    ELSE FoldSet(LAMBDA slot, records : records \o
                     (IF contents[slot].multiple THEN SerializeMultipleResource(contents, slot[1])
                      ELSE SerializeResource(contents, slot)),
                 <<>>, {slot \in DOMAIN contents : Len(slot) = 1})

-----------------------------------------------------------------------------
(* Deserialisation. Each function takes the payload, a position in it and  *)
(* the contents and returns an error and contents: a first pass, without   *)
(* update, checks and creates, a second sets the values.                   *)

Result(error, contents) == [error |-> error, contents |-> contents]

AllOperations == {"GET", "PUT", "POST", "DELETE"}

\* Mutant: a record without a value leaves the old one.
SetLeaf_KeepsEmpty(contents, slot, value) ==
    IF value = NoValue THEN contents ELSE [contents EXCEPT ![slot].value = value]

\* set_value() of the record's value, clear_value() if it has none.
SetLeaf(contents, slot, value) == [contents EXCEPT ![slot].value = value]

\* A record that names a resource or an instance that exists.
Found(contents, slot, value, update) ==
    IF update THEN Result("None", SetLeaf(contents, slot, value))
    ELSE Result(IF "PUT" \in contents[slot].operation THEN "None" ELSE "NotAllowed", contents)

\* One that does not: POST creates an integer of any operation.
Missing(contents, slot, operation) ==
    IF operation = "Post"
    THEN Result("None", With(contents, slot, Leaf("INTEGER", AllOperations, NoValue)))
    ELSE Result("NotFound", contents)

\* A reader: the position of the record it reads next and its result so far.
Reader(at, result) == [at |-> at, result |-> result]

\* Reads the records from position at to the end of the payload, each by Read, whose
\* result replaces the one of the record before; what a record contains is passed over.
ReadAll(Read(_, _), tlv, at, contents) ==
    LET reader[n \in (at - 1)..Len(tlv)] ==
            IF n = at - 1 THEN Reader(at, Result("None", contents))
            ELSE LET before == reader[n - 1]
                 IN  IF before.at = n THEN Read(n, before.result.contents) ELSE before
    IN  reader[Len(tlv)].result

\* On to the record after the one at n, and an error that ends the reading.
After(tlv, n, result) == Reader(n + 1 + tlv[n].span, result)
Invalid(tlv, contents) == Reader(Len(tlv) + 1, Result("NotValid", contents))

\* deserialize_resource_instances() with an object instance: reads on to the end
\* of the payload and takes a multiple resource that follows for an instance.
ReadInstance(tlv, n, contents, id, operation, update) ==
    LET slot == <<id, tlv[n].id>>
    IN  CASE tlv[n].type \notin {"M", "RI"} -> Invalid(tlv, contents)
          [] tlv[n].type = "RI" /\ slot \in DOMAIN contents ->
                 After(tlv, n, Found(contents, slot, tlv[n].value, update))
          [] tlv[n].type = "M" /\ slot \in DOMAIN contents /\ operation = "Post" ->
                 After(tlv, n, Result("None", contents))
          [] OTHER -> After(tlv, n, Missing(contents, slot, operation))

DeserializeInstances(tlv, at, contents, id, operation, update) ==
    ReadAll(LAMBDA n, c : ReadInstance(tlv, n, c, id, operation, update), tlv, at, contents)

\* deserialize_resources() at an offset: the result of the rest of the payload
\* replaces the error of a record before it.
ReadResource(tlv, n, contents, operation, update) ==
    LET slot == <<tlv[n].id>>
    IN  CASE tlv[n].type = "OI" -> Invalid(tlv, contents)
          [] tlv[n].type = "M" ->
                 After(tlv, n,
                     IF slot \in DOMAIN contents /\ contents[slot].multiple
                     THEN DeserializeInstances(tlv, n + 1, contents, tlv[n].id, operation, update)
                     ELSE Result("None", contents))
          [] tlv[n].type \in {"R", "RI"} /\ slot \in DOMAIN contents ->
                 After(tlv, n, Found(contents, slot, tlv[n].value, update))
          [] OTHER -> After(tlv, n, Missing(contents, slot, operation))

DeserializeAt(tlv, at, contents, operation, update) ==
    ReadAll(LAMBDA n, c : ReadResource(tlv, n, c, operation, update), tlv, at, contents)

\* The instances of an object: the model has one, of identifier 0.
ReadObject(tlv, n, contents, operation, update) ==
    CASE tlv[n].type # "OI" -> Reader(Len(tlv) + 1, Result("None", contents))
      [] tlv[n].type = "OI" /\ tlv[n].id = 0 ->
             After(tlv, n, DeserializeAt(tlv, n + 1, contents, operation, update))
      [] OTHER -> After(tlv, n, Result("None", contents))

DeserializeObjectAt(tlv, at, contents, operation, update) ==
    ReadAll(LAMBDA n, c : ReadObject(tlv, n, c, operation, update), tlv, at, contents)

\* deserialize_resource_instances() of one resource, which creates nothing.
ReadResourceInstance(tlv, n, contents, id, operation, update) ==
    LET slot == <<id, tlv[n].id>>
    IN  CASE tlv[n].type # "RI" -> Invalid(tlv, contents)
          [] tlv[n].type = "RI" /\ slot \in DOMAIN contents ->
                 After(tlv, n, Found(contents, slot, tlv[n].value, update))
          [] OTHER -> After(tlv, n,
                 Result(IF operation = "Post" THEN "NotAllowed" ELSE "NotFound", contents))

DeserializeResourceAt(tlv, at, contents, id, operation, update) ==
    ReadAll(LAMBDA n, c : ReadResourceInstance(tlv, n, c, id, operation, update),
            tlv, at, contents)

\* Mutant: one pass, which sets the values of the records before an error.
DeserializeResources_OnePass(tlv, contents, operation) ==
    DeserializeAt(tlv, 1, contents, operation, TRUE)

\* deserialize_resources(): a payload for an object instance.
DeserializeResources(tlv, contents, operation) ==
    IF tlv[1].type \notin {"R", "M"} THEN Result("NotValid", contents)
    ELSE LET checked == DeserializeAt(tlv, 1, contents, operation, FALSE)
         IN  IF checked.error = "None"
             THEN DeserializeAt(tlv, 1, checked.contents, operation, TRUE)
             ELSE checked

\* deserialise_object_instances(): a payload for an object.
DeserialiseObjectInstances(tlv, contents, operation) ==
    IF tlv[1].type # "OI" THEN Result("NotValid", contents)
    ELSE LET checked == DeserializeObjectAt(tlv, 1, contents, operation, FALSE)
         IN  IF checked.error = "None"
             THEN DeserializeObjectAt(tlv, 1, checked.contents, operation, TRUE)
             ELSE checked

\* deserialize_resource_instances(): a payload for a multiple resource, whose
\* record is skipped.
DeserializeResourceInstances(tlv, contents, id, operation) ==
    IF tlv[1].type # "M" THEN Result("NotValid", contents)
    ELSE LET checked == DeserializeResourceAt(tlv, 2, contents, id, operation, FALSE)
         IN  IF checked.error = "None"
             THEN DeserializeResourceAt(tlv, 2, checked.contents, id, operation, TRUE)
             ELSE checked
=============================================================================
