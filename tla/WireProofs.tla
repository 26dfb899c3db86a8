----------------------------- MODULE WireProofs -----------------------------
EXTENDS Wire, TLAPS

(* Theorems about Wire: the exchange of one request and one response between a  *)
(* client and a server whose declarations differ by at most one edit.           *)
(*                                                                              *)
(* What travels is taken apart by the names on it. An edit gives names that     *)
(* nothing else has, and changes what stands under a name only in its width or  *)
(* by one argument, so a reader finds under a name what was written under it or  *)
(* nothing it can read. That is shown once for a layer d of the declarations    *)
(* and the layer b below it, then for the types of a response from the          *)
(* innermost to the whole.                                                      *)
(* That everything written is also read, where the theorems say so, goes the    *)
(* same way through the layers.                                                 *)

-----------------------------------------------------------------------------
(* Sequences. *)

LEMMA Cat ==
  ASSUME NEW F, NEW a \in Seq(F), NEW b \in Seq(F)
  PROVE  /\ a \o b \in Seq(F) /\ Len(a \o b) = Len(a) + Len(b)
         /\ \A i \in 1 .. Len(a) + Len(b) :
              (a \o b)[i] = IF i <= Len(a) THEN a[i] ELSE b[i - Len(a)]
  OBVIOUS

LEMMA Sub ==
  ASSUME NEW F, NEW fs \in Seq(F), NEW k \in 1 .. Len(fs)
  PROVE  /\ SubSeq(fs, 1, k - 1) \in Seq(F) /\ Len(SubSeq(fs, 1, k - 1)) = k - 1
         /\ \A j \in 1 .. k - 1 : SubSeq(fs, 1, k - 1)[j] = fs[j]
         /\ SubSeq(fs, k + 1, Len(fs)) \in Seq(F)
         /\ Len(SubSeq(fs, k + 1, Len(fs))) = Len(fs) - k
         /\ \A j \in 1 .. Len(fs) - k : SubSeq(fs, k + 1, Len(fs))[j] = fs[k + j]
  OBVIOUS

\* What is left of a sequence without its element k was in it before.
LEMMA WithoutOne ==
  ASSUME NEW F, NEW fs \in Seq(F), NEW k \in 1 .. Len(fs),
         NEW i \in DOMAIN (SubSeq(fs, 1, k - 1) \o SubSeq(fs, k + 1, Len(fs)))
  PROVE  \E j \in DOMAIN fs :
           (SubSeq(fs, 1, k - 1) \o SubSeq(fs, k + 1, Len(fs)))[i] = fs[j]
  <1> DEFINE a == SubSeq(fs, 1, k - 1)
             b == SubSeq(fs, k + 1, Len(fs))
  <1>1. /\ a \in Seq(F) /\ Len(a) = k - 1 /\ \A j \in 1 .. k - 1 : a[j] = fs[j]
        /\ b \in Seq(F) /\ Len(b) = Len(fs) - k /\ \A j \in 1 .. Len(fs) - k : b[j] = fs[k + j]
    BY Sub
  <1>3. i \in DOMAIN (a \o b)
    OBVIOUS
  <1> HIDE DEF a, b
  <1>2. /\ a \o b \in Seq(F) /\ Len(a \o b) = Len(a) + Len(b)
        /\ \A j \in 1 .. Len(a) + Len(b) :
             (a \o b)[j] = IF j <= Len(a) THEN a[j] ELSE b[j - Len(a)]
    BY <1>1, Cat
  <1>4. i \in 1 .. Len(fs) - 1
    BY <1>1, <1>2, <1>3
  <1>5. CASE i <= k - 1
    <2>1. (a \o b)[i] = fs[i] /\ i \in DOMAIN fs
      BY <1>1, <1>2, <1>4, <1>5, SMTT(30)
    <2> QED
      BY <2>1 DEF a, b
  <1>6. CASE i > k - 1
    <2>1. (a \o b)[i] = fs[i + 1] /\ i + 1 \in DOMAIN fs
      BY <1>1, <1>2, <1>4, <1>6, SMTT(30)
    <2> QED
      BY <2>1 DEF a, b
  <1>7. i <= k - 1 \/ i > k - 1
    BY <1>4
  <1> QED
    BY <1>5, <1>6, <1>7, Zenon

-----------------------------------------------------------------------------
(* The declarations of the client, and what an edit makes of them at the server. *)

\* The one that writes and the one that reads.
Peers(W, R) == \/ W = Client /\ R = Server
               \/ W = Server /\ R = Client

\* The declarations by kind, those that an edit can be about and the others.
StructNames ==
  {"CommandWithArgs", "Attribute", "ValueId", "Tuple", "PagingInfo", "Select", "Insert"}

EnumNames ==
  {"SystemCommand", "DBCommand", "Command", "DataType", "Value", "Constraint",
   "QueryResult", "Response"}

OtherNames ==
  {"String", "bool", "u8", "u16", "u32", "u64", "i16", "i32", "i64", "wide",
   "Strings", "Values", "Tuples", "Attributes", "Schema", "OptionU8", "OptionU16",
   "OptionU32", "OptionValueId", "Paging"}

\* The server begins with the declarations of the client.
LEMMA CommonIsClient == Common = Client
  BY DEF Common, Client, Schema, Attributes

\* The names of a declaration are those of its kind.
LEMMA StructKinds ==
  ASSUME NEW n \in StructNames
  PROVE  /\ n \in DOMAIN Client /\ Client[n].kind = "struct"
         /\ \E fields, unsent :
              Client[n] = [kind |-> "struct", fields |-> fields, unsent |-> unsent]
  <1>1. n \in DOMAIN Client
    BY DEF StructNames, Client
  <1>2. \E fields, unsent :
          Client[n] = [kind |-> "struct", fields |-> fields, unsent |-> unsent]
    <2>1. CASE n = "CommandWithArgs"
      BY <2>1, ZenonT(30) DEF Client, CommandWithArgs, Struct
    <2>2. CASE n = "Attribute"
      BY <2>2, ZenonT(30) DEF Client, Attribute, Struct
    <2>3. CASE n = "ValueId"
      BY <2>3, ZenonT(30) DEF Client, ValueId, Struct
    <2>4. CASE n = "Tuple"
      BY <2>4, ZenonT(30) DEF Client, Tuple, Struct
    <2>5. CASE n = "PagingInfo"
      BY <2>5, ZenonT(30) DEF Client, PagingInfo, Struct
    <2>6. CASE n = "Select"
      BY <2>6, ZenonT(30) DEF Client, Select, Struct
    <2>7. CASE n = "Insert"
      BY <2>7, ZenonT(30) DEF Client, Insert, Struct
    <2> QED
      BY <2>1, <2>2, <2>3, <2>4, <2>5, <2>6, <2>7 DEF StructNames
  <1>3. Client[n].kind = "struct"
    BY <1>2
  <1> QED
    BY <1>1, <1>2, <1>3, Zenon

LEMMA EnumKinds ==
  ASSUME NEW n \in EnumNames
  PROVE  /\ n \in DOMAIN Client /\ Client[n].kind = "enum"
         /\ \E variants : Client[n] = [kind |-> "enum", variants |-> variants]
  <1>1. n \in DOMAIN Client
    BY DEF EnumNames, Client
  <1>2. \E variants : Client[n] = [kind |-> "enum", variants |-> variants]
    <2>1. CASE n = "SystemCommand"
      BY <2>1, ZenonT(30) DEF Client, SystemCommand, Enum
    <2>2. CASE n = "DBCommand"
      BY <2>2, ZenonT(30) DEF Client, DBCommand, Enum
    <2>3. CASE n = "Command"
      BY <2>3, ZenonT(30) DEF Client, Command, Enum
    <2>4. CASE n = "DataType"
      BY <2>4, ZenonT(30) DEF Client, DataType, Enum
    <2>5. CASE n = "Value"
      BY <2>5, ZenonT(30) DEF Client, Value, Enum
    <2>6. CASE n = "Constraint"
      BY <2>6, ZenonT(30) DEF Client, Constraint, Enum
    <2>7. CASE n = "QueryResult"
      BY <2>7, ZenonT(30) DEF Client, QueryResult, Enum
    <2>8. CASE n = "Response"
      BY <2>8, ZenonT(30) DEF Client, Response, Enum
    <2> QED
      BY <2>1, <2>2, <2>3, <2>4, <2>5, <2>6, <2>7, <2>8 DEF EnumNames
  <1> QED
    BY <1>1, <1>2

LEMMA OtherKinds ==
  ASSUME NEW n \in OtherNames
  PROVE  Client[n].kind \in {"text", "bool", "int", "vec", "option"} /\ n \in DOMAIN Client
  BY DEF OtherNames, Client, Integer, Vec, Option, Schema, Attributes

LEMMA Names == DOMAIN Client = StructNames \cup EnumNames \cup OtherNames
  BY DEF StructNames, EnumNames, OtherNames, Client

LEMMA Structs == OfKind("struct") = StructNames
  BY CommonIsClient, Names, StructKinds, EnumKinds, OtherKinds DEF OfKind

LEMMA Enums == OfKind("enum") = EnumNames
  BY CommonIsClient, Names, StructKinds, EnumKinds, OtherKinds DEF OfKind

\* What an edit can be: of a struct, at one of its fields or without a place, or
\* of an enum, at one of its variants.
LEMMA EditOf ==
  ASSUME drift \in Edits, drift.edit # "none"
  PROVE  \/ /\ drift.type \in StructNames
            /\ drift.edit \in {"add", "reverse", "rename", "drop", "widen"}
            /\ drift.edit \in {"rename", "drop", "widen"} =>
                 \E j \in DOMAIN Client[drift.type].fields :
                   Client[drift.type].fields[j].name = drift.at
         \/ /\ drift.type \in EnumNames
            /\ drift.edit \in {"rename", "carry", "lose"}
            /\ drift.at \in DOMAIN Client[drift.type].variants
  <1>1. CASE \E n \in StructNames : drift \in StructEdits(n)
    BY <1>1, CommonIsClient DEF StructEdits, ToSet
  <1>2. CASE \E n \in EnumNames : drift \in EnumEdits(n)
    BY <1>2, CommonIsClient DEF EnumEdits
  <1> QED
    BY <1>1, <1>2, Structs, Enums DEF Edits

LEMMA Apart == StructNames \cap EnumNames = {}
  BY DEF StructNames, EnumNames

\* An edit leaves every other type alone, and a type its kind.
LEMMA OtherTypes ==
  ASSUME drift \in Edits, NEW n \in DOMAIN Client,
         drift.edit # "none" => n # drift.type
  PROVE  Server[n] = Client[n]
  BY CommonIsClient, EditOf, Names DEF Server

LEMMA Unedited ==
  ASSUME drift.edit = "none"
  PROVE  Server = Client
  BY CommonIsClient DEF Server

LEMMA EditedStruct ==
  ASSUME drift \in Edits, drift.edit # "none", drift.type \in StructNames
  PROVE  Server[drift.type] =
           [kind |-> "struct", fields |-> EditedFields(Client[drift.type].fields, drift),
            unsent |-> Client[drift.type].unsent]
  <1>1. Server[drift.type] = [Client[drift.type] EXCEPT !.fields = EditedFields(@, drift)]
    BY CommonIsClient, Structs, Names DEF Server
  <1> QED
    BY <1>1, StructKinds

LEMMA EditedEnum ==
  ASSUME drift \in Edits, drift.edit # "none", drift.type \in EnumNames
  PROVE  Server[drift.type] =
           [kind |-> "enum", variants |-> EditedVariants(Client[drift.type].variants, drift)]
  <1>1. Server[drift.type] =
          [Client[drift.type] EXCEPT !.variants = EditedVariants(@, drift)]
    BY CommonIsClient, Structs, Names, Apart DEF Server
  <1> QED
    BY <1>1, EnumKinds

LEMMA SameKinds ==
  ASSUME drift \in Edits, NEW n \in DOMAIN Client
  PROVE  Server[n].kind = Client[n].kind
  <1>1. CASE drift.edit # "none" => n # drift.type
    BY <1>1, OtherTypes
  <1>2. CASE drift.edit # "none" /\ n = drift.type
    <2>1. n \in StructNames \/ n \in EnumNames
      BY <1>2, EditOf
    <2>2. CASE n \in StructNames
      BY <1>2, <2>2, EditedStruct, StructKinds
    <2>3. CASE n \in EnumNames
      BY <1>2, <2>3, EditedEnum, EnumKinds
    <2> QED
      BY <2>1, <2>2, <2>3
  <1> QED
    BY <1>1, <1>2

\* The fields of the structs.
FieldNames ==
  {"command", "args", "name", "dtype", "constraint", "container_id", "segment_id",
   "page_id", "slot_id", "tid", "field_vals", "current_page", "total_pages",
   "has_next_page", "page_size", "schema", "result", "paging_info", "inserted",
   "table_name"}

FieldTypes ==
  {"Command", "Strings", "String", "DataType", "Constraint", "u16", "OptionU8",
   "OptionU32", "OptionU16", "u64", "Values", "u32", "bool", "Schema", "Tuples", "Paging"}

Fields ==
  [name : FieldNames, of : FieldNames, type : FieldTypes, missing : SUBSET {None}]

\* The fields of the structs, written out.
LEMMA FieldLists ==
  /\ Client["CommandWithArgs"].fields =
           <<Field("command", "Command"), Field("args", "Strings")>>
  /\ Client["Attribute"].fields =
           <<Field("name", "String"), Field("dtype", "DataType"),
             Field("constraint", "Constraint")>>
  /\ Client["ValueId"].fields =
           <<Field("container_id", "u16"), OptionField("segment_id", "OptionU8"),
             OptionField("page_id", "OptionU32"), OptionField("slot_id", "OptionU16")>>
  /\ Client["Tuple"].fields =
           <<Field("tid", "u64"), Field("field_vals", "Values")>>
  /\ Client["PagingInfo"].fields =
           <<Field("current_page", "u32"), Field("total_pages", "u32"),
             Field("has_next_page", "bool"), Field("page_size", "u32")>>
  /\ Client["Select"].fields =
           <<Field("schema", "Schema"), Field("result", "Tuples"),
             OptionField("paging_info", "Paging")>>
  /\ Client["Insert"].fields =
           <<Field("inserted", "u64"), Field("table_name", "String")>>
  BY DEF Client, Struct, CommandWithArgs, Attribute, ValueId, Tuple, PagingInfo, Select, Insert

LEMMA ClientFields ==
  ASSUME NEW n \in StructNames
  PROVE  Client[n].fields \in Seq(Fields)
  <1>1. CASE n = "CommandWithArgs"
    BY <1>1, FieldLists DEF Field, OptionField, Fields, FieldNames, FieldTypes
  <1>2. CASE n = "Attribute"
    BY <1>2, FieldLists DEF Field, OptionField, Fields, FieldNames, FieldTypes
  <1>3. CASE n = "ValueId"
    BY <1>3, FieldLists DEF Field, OptionField, Fields, FieldNames, FieldTypes
  <1>4. CASE n = "Tuple"
    BY <1>4, FieldLists DEF Field, OptionField, Fields, FieldNames, FieldTypes
  <1>5. CASE n = "PagingInfo"
    BY <1>5, FieldLists DEF Field, OptionField, Fields, FieldNames, FieldTypes
  <1>6. CASE n = "Select"
    BY <1>6, FieldLists DEF Field, OptionField, Fields, FieldNames, FieldTypes
  <1>7. CASE n = "Insert"
    BY <1>7, FieldLists DEF Field, OptionField, Fields, FieldNames, FieldTypes
  <1> QED
    BY <1>1, <1>2, <1>3, <1>4, <1>5, <1>6, <1>7 DEF StructNames

\* A field of the server that the client takes for f.
Fits(s, f) ==
  /\ s.name = f.name /\ s.of = f.of
  /\ s.type # f.type => s.type = "wide" /\ Client[f.type].kind = "int"

\* What has become of the fields of a struct: each is one of the client's under
\* its name, of a type that is at most wider, or has a new name.
LEMMA EditedFieldsFit ==
  ASSUME NEW fs \in Seq(Fields), NEW d,
         d.edit \in {"add", "reverse", "rename", "drop", "widen"},
         d.edit \in {"rename", "drop", "widen"} => \E j \in DOMAIN fs : fs[j].name = d.at,
         NEW i \in DOMAIN EditedFields(fs, d)
  PROVE  LET s == EditedFields(fs, d)[i]
         IN \/ s.name \in {"renamed", "added"}
            \/ \E j \in DOMAIN fs : Fits(s, fs[j])
  <1>1. CASE d.edit = "add"
    BY <1>1 DEF EditedFields, Field, Fields, Fits
  <1>2. CASE d.edit = "reverse"
    BY <1>2 DEF EditedFields, Reverse, Fits
  <1>3. CASE d.edit = "drop"
    <2> DEFINE k == CHOOSE k \in DOMAIN fs : fs[k].name = d.at
    <2>1. k \in 1 .. Len(fs)
      BY <1>3
    <2>2. EditedFields(fs, d) = SubSeq(fs, 1, k - 1) \o SubSeq(fs, k + 1, Len(fs))
      BY <1>3, <2>1 DEF EditedFields, RemoveAt
    <2> HIDE DEF k
    <2>3. \E j \in DOMAIN fs : EditedFields(fs, d)[i] = fs[j]
      <3>1. i \in DOMAIN (SubSeq(fs, 1, k - 1) \o SubSeq(fs, k + 1, Len(fs)))
        BY <2>2, Zenon
      <3>2. \E j \in DOMAIN fs :
              (SubSeq(fs, 1, k - 1) \o SubSeq(fs, k + 1, Len(fs)))[i] = fs[j]
        BY <2>1, <3>1, WithoutOne, Zenon
      <3> QED
        BY <2>2, <3>2, Zenon
    <2> QED
      BY <2>3 DEF Fits
  <1>4. CASE d.edit \in {"rename", "widen"}
    <2>1. i \in DOMAIN fs /\ fs[i] \in Fields
      BY <1>4 DEF EditedFields
    <2>2. CASE fs[i].name # d.at
      BY <1>4, <2>1, <2>2 DEF EditedFields, Fits
    <2>3. CASE d.edit = "rename" /\ fs[i].name = d.at
      BY <2>1, <2>3 DEF EditedFields, Fields
    <2>4. CASE d.edit = "widen" /\ fs[i].name = d.at
      BY <2>1, <2>4, CommonIsClient DEF EditedFields, Fields, Wider, Fits
    <2> QED
      BY <1>4, <2>2, <2>3, <2>4
  <1> QED
    BY <1>1, <1>2, <1>3, <1>4

\* So every field of a server's struct is one of the client's or has a new name.
LEMMA ServerFields ==
  ASSUME drift \in Edits, NEW n \in StructNames, NEW i \in DOMAIN Server[n].fields
  PROVE  LET s == Server[n].fields[i]
             fs == Client[n].fields
         IN \/ s.name \in {"renamed", "added"}
            \/ \E j \in DOMAIN fs : Fits(s, fs[j])
  <1>1. CASE drift.edit # "none" => n # drift.type
    BY <1>1, OtherTypes, StructKinds, ClientFields DEF Fits
  <1>2. CASE drift.edit # "none" /\ n = drift.type
    <2>1. Server[n].fields = EditedFields(Client[n].fields, drift)
      BY <1>2, EditedStruct
    <2> QED
      BY <1>2, <2>1, EditOf, Apart, ClientFields, EditedFieldsFit
  <1> QED
    BY <1>1, <1>2

\* What the variants of the enums carry: at most two arguments, of these types.
ArgTypes ==
  {"u8", "u16", "u32", "i16", "i32", "i64", "String", "bool", "SystemCommand",
   "DBCommand", "Select", "Insert", "QueryResult"}

Arguments ==
  {<<>>} \cup {<<a>> : a \in ArgTypes} \cup (ArgTypes \X ArgTypes)

\* The variants of an enum that has not been edited.
Variants(C) ==
  /\ "renamed" \notin DOMAIN C
  /\ C = [u \in DOMAIN C |-> [name |-> u, args |-> C[u].args]]
  /\ \A u \in DOMAIN C : C[u].args \in Arguments

LEMMA LenIsNat ==
  ASSUME NEW X, NEW s \in Seq(X)
  PROVE  Len(s) \in Nat
  OBVIOUS

LEMMA SomeOrOne ==
  ASSUME NEW k \in Nat
  PROVE  k = 0 \/ k = 1 \/ k > 1
  OBVIOUS

LEMMA Listed ==
  /\ <<>> \in Arguments /\ <<"u8">> \in Arguments /\ <<"u16">> \in Arguments
  /\ <<"u32", "u32">> \in Arguments /\ <<"i64">> \in Arguments /\ <<"i32">> \in Arguments
  /\ <<"i16">> \in Arguments /\ <<"u8", "String">> \in Arguments /\ <<"String">> \in Arguments
  /\ <<"i64", "u32">> \in Arguments /\ <<"bool">> \in Arguments
  /\ <<"SystemCommand">> \in Arguments
  /\ <<"DBCommand">> \in Arguments /\ <<"Select">> \in Arguments /\ <<"Insert">> \in Arguments
  /\ <<"QueryResult">> \in Arguments
  BY DEF Arguments, ArgTypes

LEMMA EnumVariants ==
  ASSUME NEW carried, "renamed" \notin DOMAIN carried,
         \A u \in DOMAIN carried : carried[u] \in Arguments
  PROVE  Variants(Enum(carried).variants)
  BY DEF Enum, Variants

\* Every variant is known by its own name.
LEMMA ClientVariants ==
  ASSUME NEW n \in EnumNames
  PROVE  Variants(Client[n].variants)
  <1>1. CASE n = "SystemCommand"
    BY <1>1, Listed, EnumVariants DEF Client, SystemCommand, Units
  <1>2. CASE n = "DBCommand"
    BY <1>2, Listed, EnumVariants DEF Client, DBCommand, Units
  <1>3. CASE n = "Command"
    BY <1>3, Listed, EnumVariants DEF Client, Command, Units
  <1>4. CASE n = "DataType"
    BY <1>4, Listed, EnumVariants DEF Client, DataType, Units
  <1>5. CASE n = "Value"
    BY <1>5, Listed, EnumVariants DEF Client, Value, Units
  <1>6. CASE n = "Constraint"
    BY <1>6, Listed, EnumVariants DEF Client, Constraint, Units
  <1>7. CASE n = "QueryResult"
    BY <1>7, Listed, EnumVariants DEF Client, QueryResult, Units
  <1>8. CASE n = "Response"
    BY <1>8, Listed, EnumVariants DEF Client, Response, Units
  <1> QED
      BY <1>1, <1>2, <1>3, <1>4, <1>5, <1>6, <1>7, <1>8 DEF EnumNames

LEMMA ArgumentsTyped ==
  ASSUME NEW c \in Arguments
  PROVE  c \in Seq(ArgTypes) /\ Len(c) \in 0 .. 2
  <1>1. CASE c = <<>>
    BY <1>1
  <1>2. CASE \E a \in ArgTypes : c = <<a>>
    BY <1>2
  <1>3. CASE c \in ArgTypes \X ArgTypes
    <2>1. PICK a \in ArgTypes, b \in ArgTypes : c = <<a, b>>
      BY <1>3
    <2>2. <<a, b>> \in Seq(ArgTypes) /\ Len(<<a, b>>) = 2
      OBVIOUS
    <2> QED
      BY <2>1, <2>2
  <1> QED
    <2>1. c \in {<<>>} \/ c \in {<<a>> : a \in ArgTypes} \/ c \in ArgTypes \X ArgTypes
      BY Zenon DEF Arguments
    <2> QED
      BY <1>1, <1>2, <1>3, <2>1, Zenon

LEMMA Appended ==
  ASSUME NEW T, NEW c \in Seq(T), NEW b \in T
  PROVE  /\ Append(c, b) \in Seq(T) /\ Len(Append(c, b)) = Len(c) + 1
         /\ \A i \in 1 .. Len(c) : Append(c, b)[i] = c[i]
  OBVIOUS

LEMMA Fronted ==
  ASSUME NEW T, NEW c \in Seq(T), Len(c) # 0
  PROVE  /\ Front(c) \in Seq(T) /\ Len(Front(c)) = Len(c) - 1
         /\ \A i \in 1 .. Len(c) - 1 : Front(c)[i] = c[i]
  <1>1. Len(c) \in 1 .. Len(c)
    OBVIOUS
  <1> QED
    BY <1>1, Sub, Zenon DEF Front

IsArrayOf(data, items) == data = [array |-> items]

\* What o may be if it is opened from that name with those k items.
Opening(variants, name, k, items, o) ==
  /\ o.variant \in DOMAIN variants /\ variants[o.variant].name = name
  /\ Len(o.items) = Len(variants[o.variant].args)
  /\ \/ /\ DOMAIN o.items = 1 .. Len(o.items)
        /\ \/ Len(o.items) = 0 /\ k = 0
           \/ Len(o.items) = 1 /\ k = 1 /\ o.items[1] = items[1]
           \/ Len(o.items) = 1 /\ k > 1 /\ IsArrayOf(o.items[1], items)
           \/ Len(o.items) > 1 /\ k > 1 /\ o.items = items
     \/ k = 1 /\ "array" \in DOMAIN items[1]

\* A function of that domain, and the members of a struct.
Over(f, S) == f = [x \in S |-> f[x]]

Members(type) == {f.of : f \in Declared(type)}

\* What is read of all the parts is one of each.
LEMMA AllRead ==
  ASSUME NEW parts, NEW r \in All(parts)
  PROVE  Over(r, DOMAIN parts) /\ \A k \in DOMAIN parts : r[k] \in parts[k]
  BY DEF All, Over

LEMMA AllReadable ==
  ASSUME NEW parts, \A k \in DOMAIN parts : parts[k] # {}
  PROVE  All(parts) # {}
  BY DEF All

LEMMA EachReadable ==
  ASSUME NEW parts, All(parts) # {}, NEW k \in DOMAIN parts
  PROVE  parts[k] # {}
  BY DEF All

LEMMA NameInjective ==
  ASSUME NEW a, NEW b, Name(a) = Name(b)
  PROVE  a = b
  BY DEF Name

\* What a reader opens: a variant of that name, and what it carries.
LEMMA OpenedTagged ==
  ASSUME NEW variants, NEW name, NEW X, NEW items \in Seq(X),
         NEW o \in Opened(variants, Tagged(name, items)),
         \A u \in DOMAIN variants : Len(variants[u].args) \in Nat
  PROVE  /\ Opening(variants, name, Len(items), items, o)
         /\ o = [variant |-> o.variant, items |-> o.items]
  <1> DEFINE data == Tagged(name, items)
  <1>0. /\ o.variant \in DOMAIN variants /\ o = [variant |-> o.variant, items |-> o.items]
        /\ Name(variants[o.variant].name) = TagOf(data)
        /\ o.items \in Carried(data, Len(variants[o.variant].args))
    <2>1. PICK w \in DOMAIN variants :
            /\ Name(variants[w].name) = TagOf(data)
            /\ o \in [variant : {w}, items : Carried(data, Len(variants[w].args))]
      BY Zenon DEF Opened
    <2> HIDE DEF data
    <2> QED
      BY <2>1, SomeOrOne, Zenon
  <1>1. CASE Len(items) = 0
    <2>1. data = Name(name) /\ ~IsTagged(data)
      BY <1>1 DEF Tagged, IsTagged, Name
    <2> HIDE DEF data
    <2> QED
      BY <1>0, <1>1, <2>1, NameInjective DEF Carried, TagOf, Opening
  <1>2. CASE Len(items) = 1
    <2>1. data = [map |-> << <<Name(name), items[1]>> >>]
      BY <1>2 DEF Tagged
    <2>2. IsTagged(data) /\ TagOf(data) = Name(name) /\ data.map[1][2] = items[1]
      BY <2>1 DEF IsTagged, TagOf
    <2> HIDE DEF data
    <2> QED
      BY <1>0, <1>2, <2>2, NameInjective DEF Carried, Opening
  <1>3. CASE Len(items) > 1
    <2>1. data = [map |-> << <<Name(name), [array |-> items]>> >>]
      BY <1>3 DEF Tagged
    <2>2. IsTagged(data) /\ TagOf(data) = Name(name) /\ data.map[1][2] = [array |-> items]
      BY <2>1 DEF IsTagged, TagOf
    <2> HIDE DEF data
    <2> QED
      BY <1>0, <1>3, <2>2, NameInjective DEF Carried, Opening, IsArrayOf
  <1>4. Len(items) = 0 \/ Len(items) = 1 \/ Len(items) > 1
    <2>1. Len(items) \in Nat
      BY LenIsNat, Zenon
    <2> QED
      BY <2>1, SomeOrOne, Zenon
  <1> QED
    BY <1>0, <1>1, <1>2, <1>3, <1>4, Zenon

\* What an edit can make of the arguments of a variant.
ArgsFit(c, s) ==
  /\ s \in Seq(ArgTypes)
  /\ \/ s = c
     \/ Len(s) = Len(c) + 1
     \/ Len(c) = Len(s) + 1
  /\ Len(c) > 0 /\ Len(s) > 0 => s[1] = c[1]
  /\ Len(c) = 0 /\ Len(s) = 1 => s[1] = "bool"

VariantsFit(C, S) ==
  /\ DOMAIN S = DOMAIN C
  /\ \A u \in DOMAIN C : S[u].name \in {u, "renamed"} /\ ArgsFit(C[u].args, S[u].args)

\* What has become of the variants of an enum: the same ones, under their names or
\* a new one, with one argument more or less.
LEMMA EditedVariantsFit ==
  ASSUME NEW C, Variants(C), NEW d, d.edit \in {"rename", "carry", "lose"},
         d.at \in DOMAIN C
  PROVE  VariantsFit(C, EditedVariants(C, d))
  <1>1. /\ \A u \in DOMAIN C : C[u] = [name |-> u, args |-> C[u].args] /\ C[u].args \in Arguments
        /\ Over(C, DOMAIN C)
    BY DEF Variants, Over
  <1>2. "bool" \in ArgTypes
    BY DEF ArgTypes
  <1> SUFFICES ASSUME NEW u \in DOMAIN C
               PROVE  /\ DOMAIN EditedVariants(C, d) = DOMAIN C
                      /\ EditedVariants(C, d)[u].name \in {u, "renamed"}
                      /\ ArgsFit(C[u].args, EditedVariants(C, d)[u].args)
    BY Zenon DEF VariantsFit
  <1> DEFINE c == C[u].args
             s == EditedVariants(C, d)[u].args
  <1>3. c \in Seq(ArgTypes) /\ Len(c) \in 0 .. 2
    BY <1>1, ArgumentsTyped
  <1>4. CASE d.edit = "rename"
    BY <1>1, <1>3, <1>4 DEF EditedVariants, ArgsFit
  <1>5. CASE d.edit \in {"carry", "lose"} /\ u # d.at
    BY <1>1, <1>3, <1>5 DEF EditedVariants, ArgsFit
  <1>6. CASE d.edit = "carry" /\ u = d.at
    <2>1. s = Append(c, "bool")
      BY <1>1, <1>6 DEF EditedVariants
    <2>2. DOMAIN EditedVariants(C, d) = DOMAIN C /\ EditedVariants(C, d)[u].name = u
      BY <1>1, <1>6 DEF EditedVariants
    <2> HIDE DEF c, s
    <2>3. ArgsFit(c, s)
      BY <1>2, <1>3, <2>1, Appended DEF ArgsFit
    <2> QED
      BY <2>2, <2>3 DEF c, s
  <1>7. CASE d.edit = "lose" /\ u = d.at
    <2>1. s = IF c = <<>> THEN <<>> ELSE Front(c)
      BY <1>1, <1>7 DEF EditedVariants
    <2>2. DOMAIN EditedVariants(C, d) = DOMAIN C /\ EditedVariants(C, d)[u].name = u
      BY <1>1, <1>7 DEF EditedVariants
    <2> HIDE DEF c, s
    <2>3. ArgsFit(c, s)
      <3>1. CASE c = <<>>
        BY <1>3, <2>1, <3>1 DEF ArgsFit
      <3>2. CASE c # <<>>
        <4>1. Len(c) # 0
          BY <1>3, <3>2
        <4>2. s \in Seq(ArgTypes) /\ Len(s) = Len(c) - 1 /\ \A i \in 1 .. Len(c) - 1 : s[i] = c[i]
          BY <1>3, <2>1, <3>2, <4>1, Fronted, Zenon
        <4> QED
          BY <1>3, <4>1, <4>2 DEF ArgsFit
      <3> QED
        BY <3>1, <3>2
    <2> QED
      BY <2>2, <2>3 DEF c, s
  <1> QED
    BY <1>4, <1>5, <1>6, <1>7

LEMMA ServerVariants ==
  ASSUME drift \in Edits, NEW n \in EnumNames
  PROVE  VariantsFit(Client[n].variants, Server[n].variants)
  <1>1. CASE drift.edit # "none" => n # drift.type
    <2>1. Server[n] = Client[n]
      BY <1>1, OtherTypes, EnumKinds
    <2> DEFINE C == Client[n].variants
    <2>2. Variants(C)
      BY ClientVariants
    <2> HIDE DEF C
    <2>3. \A u \in DOMAIN C : C[u].name = u /\ C[u].args \in Seq(ArgTypes)
      BY <2>2, ArgumentsTyped DEF Variants
    <2> QED
      BY <2>1, <2>3 DEF VariantsFit, ArgsFit, C
  <1>2. CASE drift.edit # "none" /\ n = drift.type
    <2>1. Server[n].variants = EditedVariants(Client[n].variants, drift)
      BY <1>2, EditedEnum
    <2>2. drift.edit \in {"rename", "carry", "lose"} /\ drift.at \in DOMAIN Client[n].variants
      BY <1>2, EditOf, Apart
    <2>3. Variants(Client[n].variants)
      BY ClientVariants
    <2> QED
      BY <2>1, <2>2, <2>3, EditedVariantsFit
  <1> QED
    BY <1>1, <1>2

\* An edit of the arguments shows in their number.
LEMMA SameLength ==
  ASSUME NEW c \in Seq(ArgTypes), NEW s, ArgsFit(c, s), Len(s) = Len(c)
  PROVE  s = c
  BY DEF ArgsFit

LEMMA SameItems ==
  ASSUME NEW k \in Nat, NEW s, NEW t, k = 0 \/ (k = 1 /\ s[1] = t[1]) \/ s = t
  PROVE  \A i \in 1 .. k : s[i] = t[i]
  OBVIOUS

\* The arguments of a variant of the client's, and what a reader finds of them.
ArgsOf(n, u) == Client[n].variants[u].args

VariantRead(W, R, n, u, items, o) ==
  /\ o.variant = u
  /\ \/ /\ W[n].variants[u].args = ArgsOf(n, u)
        /\ R[n].variants[u].args = ArgsOf(n, u)
        /\ DOMAIN o.items = DOMAIN ArgsOf(n, u)
        /\ \A i \in DOMAIN ArgsOf(n, u) : o.items[i] = items[i]
     \/ /\ R[n].variants[u].args[1] \in ArgTypes
        /\ 1 \in DOMAIN o.items /\ IsArrayOf(o.items[1], items)

\* What the reader of an enum finds in what the writer has written: the variant
\* and its items, or a variant of one argument, which is given all of them.
LEMMA VariantFound ==
  ASSUME drift \in Edits, NEW W, NEW R, Peers(W, R), NEW n \in EnumNames,
         NEW u \in DOMAIN Client[n].variants, NEW X, NEW items \in Seq(X),
         Len(items) = Len(W[n].variants[u].args),
         Len(items) = 1 => "array" \notin DOMAIN items[1],
         NEW o \in Opened(R[n].variants, Tagged(W[n].variants[u].name, items))
  PROVE  VariantRead(W, R, n, u, items, o)
  <1> DEFINE w == W[n].variants
             r == R[n].variants
             C == Client[n].variants
  <1>0. /\ Variants(C)
        /\ (w = C /\ VariantsFit(C, r)) \/ (r = C /\ VariantsFit(C, w))
        /\ u \in DOMAIN C /\ Len(items) = Len(w[u].args)
    BY ClientVariants, ServerVariants DEF Peers
  <1> HIDE DEF w, r, C
  <1>1. \A v \in DOMAIN C : C[v].name = v /\ v # "renamed" /\ C[v].args \in Seq(ArgTypes)
    BY <1>0, ArgumentsTyped DEF Variants
  <1>2. DOMAIN w = DOMAIN C /\ DOMAIN r = DOMAIN C
    BY <1>0 DEF VariantsFit
  <1>3. \A v \in DOMAIN C : r[v].args \in Seq(ArgTypes) /\ w[v].args \in Seq(ArgTypes)
    BY <1>0, <1>1 DEF ArgsFit, VariantsFit
  <1>4. \A v \in DOMAIN r : Len(r[v].args) \in Nat
    BY <1>2, <1>3
  <1>5. /\ Opening(r, w[u].name, Len(items), items, o)
        /\ o = [variant |-> o.variant, items |-> o.items]
    BY <1>4, OpenedTagged DEF r, w
  <1>6. o.variant = u
    <2>1. o.variant \in DOMAIN C /\ r[o.variant].name = w[u].name
      BY <1>2, <1>5 DEF Opening
    <2>2. CASE w = C /\ VariantsFit(C, r)
      BY <1>0, <1>1, <2>1, <2>2 DEF VariantsFit
    <2>3. CASE r = C /\ VariantsFit(C, w)
      BY <1>0, <1>1, <2>1, <2>3 DEF VariantsFit
    <2> QED
      BY <1>0, <2>2, <2>3
  <1>7. /\ Len(o.items) = Len(r[u].args) /\ Len(items) = Len(w[u].args)
        /\ Len(r[u].args) \in Nat /\ Len(w[u].args) \in Nat
    BY <1>0, <1>3, <1>5, <1>6, LenIsNat DEF Opening
  <1>8. /\ \/ Len(o.items) = 0 /\ Len(items) = 0
           \/ Len(o.items) = 1 /\ Len(items) = 1 /\ o.items[1] = items[1]
           \/ Len(o.items) = 1 /\ Len(items) > 1 /\ IsArrayOf(o.items[1], items)
           \/ Len(o.items) > 1 /\ Len(items) > 1 /\ o.items = items
        /\ DOMAIN o.items = 1 .. Len(o.items)
    BY <1>5, Zenon DEF Opening
  <1>9. CASE Len(o.items) = Len(items)
    <2>1. w[u].args = C[u].args /\ r[u].args = C[u].args
      <3>1. CASE w = C /\ VariantsFit(C, r)
        <4>1. ArgsFit(C[u].args, r[u].args)
          BY <1>0, <3>1, Zenon DEF VariantsFit
        <4> QED
          BY <1>0, <1>1, <1>7, <1>9, <3>1, <4>1, SameLength, Zenon
      <3>2. CASE r = C /\ VariantsFit(C, w)
        <4>1. ArgsFit(C[u].args, w[u].args)
          BY <1>0, <3>2, Zenon DEF VariantsFit
        <4> QED
          BY <1>0, <1>1, <1>7, <1>9, <3>2, <4>1, SameLength, Zenon
      <3> QED
        BY <1>0, <3>1, <3>2
    <2>2. \A i \in 1 .. Len(items) : o.items[i] = items[i]
      <3>1. Len(items) = 0 \/ (Len(items) = 1 /\ o.items[1] = items[1]) \/ o.items = items
        <4>1. ~(1 > 1)
          OBVIOUS
        <4> QED
          BY <1>8, <1>9, <4>1, Zenon
      <3>2. Len(items) \in Nat
        BY LenIsNat, Zenon
      <3> HIDE DEF r, w, C
      <3> QED
        BY <3>1, <3>2, SameItems
    <2>3. DOMAIN o.items = DOMAIN C[u].args /\ DOMAIN o.items = 1 .. Len(items)
      <3>1. C[u].args \in Seq(ArgTypes) /\ Len(o.items) = Len(C[u].args)
        BY <1>0, <1>1, <1>7, <2>1, Zenon
      <3>2. DOMAIN C[u].args = 1 .. Len(C[u].args)
        BY <3>1
      <3> QED
        BY <1>8, <1>9, <3>1, <3>2, Zenon
    <2> QED
      BY <1>5, <1>6, <2>1, <2>2, <2>3, Zenon DEF VariantRead, ArgsOf, w, r, C
  <1>10. CASE Len(o.items) # Len(items)
    <2>1. Len(o.items) = 1 /\ IsArrayOf(o.items[1], items)
      BY <1>8, <1>10, Zenon
    <2>2. r[u].args[1] \in ArgTypes
      <3>1. r[u].args \in Seq(ArgTypes) /\ Len(r[u].args) = 1
        BY <1>0, <1>3, <1>7, <2>1, Zenon
      <3> QED
        BY <3>1
    <2>3. 1 \in DOMAIN o.items
      BY <1>8, <2>1
    <2> QED
      BY <1>5, <1>6, <2>1, <2>2, <2>3, Zenon DEF VariantRead, r
  <1> QED
    BY <1>9, <1>10, Zenon

\* An array is no variant.
LEMMA ArrayOpensNothing ==
  ASSUME NEW variants, NEW s
  PROVE  Opened(variants, [array |-> s]) = {}
  <1>1. ~IsTagged([array |-> s]) /\ TagOf([array |-> s]) = [array |-> s]
    BY DEF IsTagged, TagOf
  <1>2. \A name : Name(name) # [array |-> s]
    BY DEF Name
  <1> QED
    BY <1>1, <1>2, Zenon DEF Opened

-----------------------------------------------------------------------------
(* One layer of Encode and Decode at a time. *)

\* Encode and Decode by the depth of their layers: 8 is the whole, and what the
\* layer above d makes of the parts that layer d writes or reads.
EncodeAt(d, types, n, v) ==
  CASE d = 1 -> Encode0(types, n, v)
    [] d = 2 -> Encode1(types, n, v)
    [] d = 3 -> Encode2(types, n, v)
    [] d = 4 -> Encode3(types, n, v)
    [] d = 5 -> Encode4(types, n, v)
    [] d = 6 -> Encode5(types, n, v)
    [] d = 7 -> Encode6(types, n, v)
    [] d = 8 -> Encode(types, n, v)

DecodeAt(d, types, n, data) ==
  CASE d = 0 -> Nothing(types, n, data)
    [] d = 1 -> Decode0(types, n, data)
    [] d = 2 -> Decode1(types, n, data)
    [] d = 3 -> Decode2(types, n, data)
    [] d = 4 -> Decode3(types, n, data)
    [] d = 5 -> Decode4(types, n, data)
    [] d = 6 -> Decode5(types, n, data)
    [] d = 7 -> Decode6(types, n, data)
    [] d = 8 -> Decode(types, n, data)

EncodeNext(d, types, n, v) ==
  LET part(T, t, x) == EncodeAt(d, T, t, x) IN EncodeBy(part, types, n, v)

DecodeNext(d, types, n, data) ==
  LET part(T, t, x) == DecodeAt(d, T, t, x) IN DecodeBy(part, types, n, data)

\* A layer and the one below it.
Deeper(d, b) == d \in 1 .. 8 /\ b = d - 1

\* The same, of the layers that write and read what the one below cannot.
Layer(d, b) == Deeper(d, b) /\ b # 0

\* The eight layers of a type, from the outermost to the innermost.
LEMMA Layers ==
  /\ Layer(8, 7) /\ Layer(7, 6) /\ Layer(6, 5) /\ Layer(5, 4)
  /\ Layer(4, 3) /\ Layer(3, 2) /\ Layer(2, 1)
  BY DEF Layer, Deeper

LEMMA Below ==
  ASSUME NEW d, NEW b, Layer(d, b)
  PROVE  b \in 1 .. 8 /\ Deeper(d, b)
  BY DEF Layer, Deeper

\* Each layer writes and reads its parts by the layer below.
LEMMA EncodeDeeper ==
  ASSUME NEW d, NEW b, Layer(d, b), NEW T, NEW n, NEW v
  PROVE  EncodeAt(d, T, n, v) = EncodeNext(b, T, n, v)
  <1>2. CASE d = 2
    BY <1>2 DEF Layer, Deeper, EncodeAt, EncodeNext, EncodeBy, Encode1
  <1>3. CASE d = 3
    BY <1>3 DEF Layer, Deeper, EncodeAt, EncodeNext, EncodeBy, Encode2
  <1>4. CASE d = 4
    BY <1>4 DEF Layer, Deeper, EncodeAt, EncodeNext, EncodeBy, Encode3
  <1>5. CASE d = 5
    BY <1>5 DEF Layer, Deeper, EncodeAt, EncodeNext, EncodeBy, Encode4
  <1>6. CASE d = 6
    BY <1>6 DEF Layer, Deeper, EncodeAt, EncodeNext, EncodeBy, Encode5
  <1>7. CASE d = 7
    BY <1>7 DEF Layer, Deeper, EncodeAt, EncodeNext, EncodeBy, Encode6
  <1>8. CASE d = 8
    BY <1>8 DEF Layer, Deeper, EncodeAt, EncodeNext, EncodeBy, Encode
  <1> QED
    BY <1>2, <1>3, <1>4, <1>5, <1>6, <1>7, <1>8 DEF Layer, Deeper

LEMMA DecodeDeeper ==
  ASSUME NEW d, NEW b, Deeper(d, b), NEW T, NEW n, NEW data
  PROVE  DecodeAt(d, T, n, data) = DecodeNext(b, T, n, data)
  <1>1. CASE d = 1
    BY <1>1 DEF Deeper, DecodeAt, DecodeNext, DecodeBy, Decode0
  <1>2. CASE d = 2
    BY <1>2 DEF Deeper, DecodeAt, DecodeNext, DecodeBy, Decode1
  <1>3. CASE d = 3
    BY <1>3 DEF Deeper, DecodeAt, DecodeNext, DecodeBy, Decode2
  <1>4. CASE d = 4
    BY <1>4 DEF Deeper, DecodeAt, DecodeNext, DecodeBy, Decode3
  <1>5. CASE d = 5
    BY <1>5 DEF Deeper, DecodeAt, DecodeNext, DecodeBy, Decode4
  <1>6. CASE d = 6
    BY <1>6 DEF Deeper, DecodeAt, DecodeNext, DecodeBy, Decode5
  <1>7. CASE d = 7
    BY <1>7 DEF Deeper, DecodeAt, DecodeNext, DecodeBy, Decode6
  <1>8. CASE d = 8
    BY <1>8 DEF Deeper, DecodeAt, DecodeNext, DecodeBy, Decode
  <1> QED
    BY <1>1, <1>2, <1>3, <1>4, <1>5, <1>6, <1>7, <1>8 DEF Deeper

LEMMA Whole ==
  ASSUME NEW T, NEW n, NEW x
  PROVE  EncodeAt(8, T, n, x) = Encode(T, n, x) /\ DecodeAt(8, T, n, x) = Decode(T, n, x)
  BY DEF EncodeAt, DecodeAt

\* A struct is a map, and a variant never an array, which is why a variant cannot
\* be taken for the arguments of another.
LEMMA NoArray ==
  ASSUME NEW name, NEW items
  PROVE  "array" \notin DOMAIN Tagged(name, items)
  BY DEF Tagged, Name

IsMap(data) == data = [map |-> data.map]

LEMMA EncodedMap ==
  ASSUME NEW d, NEW b, Layer(d, b), NEW T, NEW n, T[n].kind = "struct", NEW v
  PROVE  IsMap(EncodeAt(d, T, n, v))
  <1>1. EncodeAt(d, T, n, v) = EncodeNext(b, T, n, v)
    BY EncodeDeeper
  <1>2. \E map : EncodeAt(d, T, n, v) = [map |-> map]
    BY <1>1, Zenon DEF EncodeNext, EncodeBy
  <1> QED
    BY <1>2 DEF IsMap

LEMMA EncodedNoArray ==
  ASSUME NEW d, NEW b, Layer(d, b), NEW T, NEW n, T[n].kind \in {"struct", "enum"}, NEW v
  PROVE  "array" \notin DOMAIN EncodeAt(d, T, n, v)
  <1>0. EncodeAt(d, T, n, v) = EncodeNext(b, T, n, v)
    BY EncodeDeeper
  <1>1. CASE T[n].kind = "enum"
    <2> DEFINE variant == T[n].variants[v.variant]
               items == [i \in DOMAIN variant.args |->
                           EncodeAt(b, T, variant.args[i], Argument(v, i))]
    <2>1. EncodeAt(d, T, n, v) = Tagged(variant.name, items)
      BY <1>0, <1>1, Zenon DEF EncodeNext, EncodeBy
    <2> HIDE DEF variant, items
    <2> QED
      BY <2>1, NoArray, Zenon
  <1>2. CASE T[n].kind = "struct"
    BY <1>2, EncodedMap DEF IsMap
  <1> QED
    BY <1>1, <1>2

\* How an enum, a struct, a vector and an Option are read, and when they can be.
LEMMA EnumDecoded ==
  ASSUME NEW d, NEW b, Layer(d, b), NEW T, NEW n, T[n].kind = "enum", NEW data,
         NEW w \in DecodeAt(d, T, n, data)
  PROVE  \E o \in Opened(T[n].variants, data) :
           /\ w = [variant |-> o.variant, args |-> w.args]
           /\ Over(w.args, DOMAIN o.items)
           /\ \A i \in DOMAIN o.items :
                w.args[i] \in DecodeAt(b, T, T[n].variants[o.variant].args[i], o.items[i])
  <1>0. DecodeAt(d, T, n, data) = DecodeNext(b, T, n, data)
    BY Below, DecodeDeeper
  <1>1. DecodeAt(d, T, n, data) =
          UNION {[variant : {o.variant},
                  args : All([i \in DOMAIN o.items |->
                            DecodeAt(b, T, T[n].variants[o.variant].args[i], o.items[i])])] :
                 o \in Opened(T[n].variants, data)}
    BY <1>0, Zenon DEF DecodeNext, DecodeBy
  <1>2. PICK o \in Opened(T[n].variants, data) :
          w \in [variant : {o.variant},
                 args : All([i \in DOMAIN o.items |->
                           DecodeAt(b, T, T[n].variants[o.variant].args[i], o.items[i])])]
    BY <1>1, Zenon
  <1>3. /\ Over(w.args, DOMAIN o.items)
        /\ \A i \in DOMAIN o.items :
             w.args[i] \in DecodeAt(b, T, T[n].variants[o.variant].args[i], o.items[i])
    BY <1>2, AllRead
  <1>4. w = [variant |-> o.variant, args |-> w.args]
    BY <1>2
  <1> QED
    BY <1>3, <1>4

\* Every item, or every field, can be read by the layer below.
ItemsReadable(b, T, n, o) ==
  \A i \in DOMAIN o.items :
    DecodeAt(b, T, T[n].variants[o.variant].args[i], o.items[i]) # {}

LEMMA EnumDecodable ==
  ASSUME NEW d, NEW b, Layer(d, b), NEW T, NEW n, T[n].kind = "enum", NEW data,
         NEW o \in Opened(T[n].variants, data), ItemsReadable(b, T, n, o)
  PROVE  DecodeAt(d, T, n, data) # {}
  <1> DEFINE parts == [i \in DOMAIN o.items |->
                        DecodeAt(b, T, T[n].variants[o.variant].args[i], o.items[i])]
  <1>0. DecodeAt(d, T, n, data) = DecodeNext(b, T, n, data)
    BY Below, DecodeDeeper
  <1>1. PICK args : args \in All(parts)
    <2>1. \A i \in DOMAIN parts : parts[i] # {}
      BY DEF ItemsReadable
    <2> HIDE DEF parts
    <2> QED
      BY <2>1, AllReadable
  <1>2. [variant |-> o.variant, args |-> args] \in [variant : {o.variant}, args : All(parts)]
    BY <1>1
  <1>3. DecodeAt(d, T, n, data) =
          UNION {[variant : {p.variant},
                  args : All([i \in DOMAIN p.items |->
                            DecodeAt(b, T, T[n].variants[p.variant].args[i], p.items[i])])] :
                 p \in Opened(T[n].variants, data)}
    BY <1>0, Zenon DEF DecodeNext, DecodeBy
  <1>4. [variant |-> o.variant, args |-> args] \in DecodeAt(d, T, n, data)
    BY <1>2, <1>3, Zenon
  <1> QED
    BY <1>4

LEMMA StructDecoded ==
  ASSUME NEW d, NEW b, Layer(d, b), NEW T, NEW n, T[n].kind = "struct", NEW data,
         NEW w \in DecodeAt(d, T, n, data)
  PROVE  /\ "map" \in DOMAIN data
         /\ Over(w, Members(T[n]))
         /\ \A m \in Members(T[n]) :
              LET f == FieldOf(T[n], m)
              IN \/ Found(data, f.name) = {} /\ w[m] \in f.missing
                 \/ \E x \in Found(data, f.name) : w[m] \in DecodeAt(b, T, f.type, x)
  <1> DEFINE part(m) ==
               IF Found(data, FieldOf(T[n], m).name) = {} THEN FieldOf(T[n], m).missing
               ELSE UNION {DecodeAt(b, T, FieldOf(T[n], m).type, x) :
                           x \in Found(data, FieldOf(T[n], m).name)}
             ms == Members(T[n])
  <1>0. DecodeAt(d, T, n, data) = DecodeNext(b, T, n, data)
    BY Below, DecodeDeeper
  <1>1. "map" \in DOMAIN data /\ w \in All([m \in ms |-> part(m)])
    BY <1>0, Zenon DEF DecodeNext, DecodeBy, Members
  <1>2. Over(w, ms) /\ \A m \in ms : w[m] \in part(m)
    <2> HIDE DEF ms, part
    <2> QED
      BY <1>1, AllRead
  <1>3. ASSUME NEW m \in ms
        PROVE  \/ /\ Found(data, FieldOf(T[n], m).name) = {}
                  /\ w[m] \in FieldOf(T[n], m).missing
               \/ \E x \in Found(data, FieldOf(T[n], m).name) :
                    w[m] \in DecodeAt(b, T, FieldOf(T[n], m).type, x)
    BY <1>2, <1>3, Zenon
  <1> QED
    BY <1>1, <1>2, <1>3, Zenon

FieldsReadable(b, T, n, data) ==
  \A m \in Members(T[n]) :
    LET f == FieldOf(T[n], m)
    IN \/ Found(data, f.name) = {} /\ f.missing # {}
       \/ \E x \in Found(data, f.name) : DecodeAt(b, T, f.type, x) # {}

LEMMA StructDecodable ==
  ASSUME NEW d, NEW b, Layer(d, b), NEW T, NEW n, T[n].kind = "struct", NEW data,
         "map" \in DOMAIN data,
         FieldsReadable(b, T, n, data)
  PROVE  DecodeAt(d, T, n, data) # {}
  <1> DEFINE part(m) ==
               IF Found(data, FieldOf(T[n], m).name) = {} THEN FieldOf(T[n], m).missing
               ELSE UNION {DecodeAt(b, T, FieldOf(T[n], m).type, x) :
                           x \in Found(data, FieldOf(T[n], m).name)}
             ms == Members(T[n])
             parts == [m \in ms |-> part(m)]
  <1>0. DecodeAt(d, T, n, data) = DecodeNext(b, T, n, data)
    BY Below, DecodeDeeper
  <1>1. ASSUME NEW m \in ms
        PROVE  part(m) # {}
    <2>1. CASE Found(data, FieldOf(T[n], m).name) = {} /\ FieldOf(T[n], m).missing # {}
      BY <2>1, Zenon
    <2>2. CASE \E x \in Found(data, FieldOf(T[n], m).name) :
                 DecodeAt(b, T, FieldOf(T[n], m).type, x) # {}
      BY <2>2, Zenon
    <2> QED
      BY <1>1, <2>1, <2>2, Zenon DEF FieldsReadable
  <1>2. All(parts) # {}
    <2>1. DOMAIN parts = ms /\ \A m \in ms : parts[m] # {}
      BY <1>1, Zenon
    <2> HIDE DEF parts
    <2> QED
      BY <2>1, AllReadable, Zenon
  <1>3. DecodeAt(d, T, n, data) = All(parts)
    BY <1>0, Zenon DEF DecodeNext, DecodeBy, Members
  <1> QED
    BY <1>2, <1>3, Zenon

LEMMA VecDecoded ==
  ASSUME NEW d, NEW b, Layer(d, b), NEW T, NEW n, T[n].kind = "vec", NEW data,
         NEW w \in DecodeAt(d, T, n, data)
  PROVE  /\ "array" \in DOMAIN data
         /\ Over(w, DOMAIN data.array)
         /\ \A i \in DOMAIN data.array : w[i] \in DecodeAt(b, T, T[n].of, data.array[i])
  <1>0. DecodeAt(d, T, n, data) = DecodeNext(b, T, n, data)
    BY Below, DecodeDeeper
  <1>1. /\ "array" \in DOMAIN data
        /\ w \in All([i \in DOMAIN data.array |-> DecodeAt(b, T, T[n].of, data.array[i])])
    BY <1>0, Zenon DEF DecodeNext, DecodeBy
  <1> QED
    BY <1>1, AllRead

LEMMA VecDecodable ==
  ASSUME NEW d, NEW b, Layer(d, b), NEW T, NEW n, T[n].kind = "vec", NEW data,
         "array" \in DOMAIN data,
         \A i \in DOMAIN data.array : DecodeAt(b, T, T[n].of, data.array[i]) # {}
  PROVE  DecodeAt(d, T, n, data) # {}
  <1> DEFINE parts == [i \in DOMAIN data.array |-> DecodeAt(b, T, T[n].of, data.array[i])]
  <1>0. DecodeAt(d, T, n, data) = DecodeNext(b, T, n, data)
    BY Below, DecodeDeeper
  <1>1. DecodeAt(d, T, n, data) = All(parts)
    BY <1>0, Zenon DEF DecodeNext, DecodeBy
  <1>2. \A i \in DOMAIN parts : parts[i] # {}
    OBVIOUS
  <1> HIDE DEF parts
  <1> QED
    BY <1>1, <1>2, AllReadable

LEMMA OptionDecoded ==
  ASSUME NEW d, NEW b, Layer(d, b), NEW T, NEW n, T[n].kind = "option", NEW data
  PROVE  DecodeAt(d, T, n, data) =
           IF data = Null THEN {None} ELSE {[some |-> v] : v \in DecodeAt(b, T, T[n].of, data)}
  <1>1. DecodeNext(b, T, n, data) =
          IF data = Null THEN {None} ELSE {[some |-> v] : v \in DecodeAt(b, T, T[n].of, data)}
    BY Zenon DEF DecodeNext, DecodeBy
  <1>2. DecodeAt(d, T, n, data) = DecodeNext(b, T, n, data)
    BY Below, DecodeDeeper
  <1> QED
    BY <1>1, <1>2, Zenon

\* Integers, texts and Booleans are themselves on the wire.
LEMMA ScalarRead ==
  ASSUME NEW d \in 1 .. 8, NEW T, NEW n, T[n].kind \in {"int", "text", "bool"}, NEW v
  PROVE  EncodeAt(d, T, n, v) = v /\ DecodeAt(d, T, n, v) \subseteq {v}
  <1>0. Deeper(d, d - 1) /\ (d = 1 \/ d - 1 # 0)
    BY DEF Deeper
  <1>1. EncodeAt(1, T, n, v) = v
    BY DEF EncodeAt, Encode0
  <1>2. EncodeNext(d - 1, T, n, v) = v
    BY DEF EncodeNext, EncodeBy
  <1>3. DecodeNext(d - 1, T, n, v) \subseteq {v}
    BY DEF DecodeNext, DecodeBy
  <1> QED
    BY <1>0, <1>1, <1>2, <1>3, EncodeDeeper, DecodeDeeper DEF Layer

\* Nothing but a vector is read from an array.
LEMMA ArrayRefused ==
  ASSUME NEW d \in 1 .. 8, NEW T, NEW n,
         T[n].kind \in {"int", "text", "bool", "struct", "enum"}, NEW s
  PROVE  DecodeAt(d, T, n, [array |-> s]) = {}
  <1>0. DecodeAt(d, T, n, [array |-> s]) = DecodeNext(d - 1, T, n, [array |-> s])
    <2>1. Deeper(d, d - 1)
      BY DEF Deeper
    <2> QED
      BY <2>1, DecodeDeeper
  <1>1. Opened(T[n].variants, [array |-> s]) = {}
    BY ArrayOpensNothing
  <1>2. "map" \notin DOMAIN [array |-> s] /\ "int" \notin DOMAIN [array |-> s]
        /\ "text" \notin DOMAIN [array |-> s] /\ "bool" \notin DOMAIN [array |-> s]
    OBVIOUS
  <1>3. CASE T[n].kind = "enum"
    BY <1>1, <1>3, <1>0, Zenon DEF DecodeNext, DecodeBy
  <1>4. CASE T[n].kind = "struct"
    BY <1>2, <1>4, <1>0, Zenon DEF DecodeNext, DecodeBy
  <1>5. CASE T[n].kind \in {"int", "text", "bool"}
    BY <1>2, <1>5, <1>0 DEF DecodeNext, DecodeBy
  <1> QED
    BY <1>3, <1>4, <1>5

-----------------------------------------------------------------------------
(* What a reader finds in what its peer has written. *)

\* The two peers, whichever of them writes.
LEMMA PeerKinds ==
  ASSUME drift \in Edits, NEW W, NEW R, Peers(W, R), NEW n \in DOMAIN Client
  PROVE  W[n].kind = Client[n].kind /\ R[n].kind = Client[n].kind
  BY SameKinds DEF Peers

LEMMA BoolKind == Client["bool"].kind = "bool" /\ "bool" \in DOMAIN Client
  BY DEF Client

LEMMA ClientArgs ==
  ASSUME NEW n \in EnumNames, NEW u \in DOMAIN Client[n].variants
  PROVE  ArgsOf(n, u) \in Seq(ArgTypes)
  <1>1. ArgsOf(n, u) \in Arguments
    BY ClientVariants DEF Variants, ArgsOf
  <1> QED
    BY <1>1, ArgumentsTyped

LEMMA PeerArgs ==
  ASSUME drift \in Edits, NEW W, NEW R, Peers(W, R), NEW n \in EnumNames,
         NEW u \in DOMAIN Client[n].variants
  PROVE  ArgsFit(ArgsOf(n, u), W[n].variants[u].args)
  <1>1. CASE W = Server
    BY <1>1, ServerVariants DEF VariantsFit, ArgsOf
  <1>2. CASE W = Client
    BY <1>2, ClientArgs DEF ArgsFit, ArgsOf
  <1> QED
    BY <1>1, <1>2 DEF Peers

LEMMA PeerArgKinds ==
  ASSUME drift \in Edits, NEW W, NEW R, Peers(W, R), NEW a \in ArgTypes
  PROVE  R[a].kind \in {"int", "text", "bool", "struct", "enum"}
  <1>1. /\ a \in DOMAIN Client
        /\ Client[a].kind \in {"int", "text", "bool", "struct", "enum"}
    BY DEF ArgTypes, Client, Integer, SystemCommand, DBCommand, Select, Insert, QueryResult,
           Struct, Enum
  <1> QED
    BY <1>1, PeerKinds

\* A value of an enum: a variant of the client's and as many arguments as it takes.
Shaped(n, v) ==
  /\ v = [variant |-> v.variant, args |-> v.args]
  /\ v.variant \in DOMAIN Client[n].variants
  /\ Over(v.args, DOMAIN ArgsOf(n, v.variant))

\* An enum is read as the variant that was written, each argument from itself.
LEMMA EnumRead ==
  ASSUME NEW d, NEW b, Layer(d, b), drift \in Edits, NEW W, NEW R, Peers(W, R),
         NEW n \in EnumNames, NEW v, Shaped(n, v),
         v.args # <<>> =>
           "array" \notin DOMAIN EncodeAt(b, W, ArgsOf(n, v.variant)[1], v.args[1]),
         NEW w \in DecodeAt(d, R, n, EncodeAt(d, W, n, v))
  PROVE  /\ w = [variant |-> v.variant, args |-> w.args]
         /\ Over(w.args, DOMAIN v.args)
         /\ \A i \in DOMAIN v.args :
              w.args[i] \in DecodeAt(b, R, ArgsOf(n, v.variant)[i],
                                EncodeAt(b, W, ArgsOf(n, v.variant)[i], v.args[i]))
  <1> DEFINE u == v.variant
             a == W[n].variants[u].args
             c == ArgsOf(n, u)
             items == [i \in DOMAIN a |-> EncodeAt(b, W, a[i], Argument(v, i))]
  <1>0. EncodeAt(d, W, n, v) = EncodeNext(b, W, n, v)
    BY EncodeDeeper
  <1>1. u \in DOMAIN Client[n].variants /\ DOMAIN v.args = DOMAIN c
    BY DEF Shaped, Over
  <1>2. /\ W[n].kind = "enum" /\ R[n].kind = "enum"
        /\ W["bool"].kind = "bool"
    BY PeerKinds, EnumKinds, BoolKind
  <1>3. /\ a \in Seq(ArgTypes) /\ c \in Seq(ArgTypes)
        /\ Len(a) > 0 /\ Len(c) > 0 => a[1] = c[1]
        /\ Len(c) = 0 /\ Len(a) = 1 => a[1] = "bool"
    <2>1. ArgsFit(c, a) /\ c \in Seq(ArgTypes)
      BY <1>1, PeerArgs, ClientArgs, Zenon
    <2> HIDE DEF a, c
    <2> QED
      BY <2>1 DEF ArgsFit
  <1>4. EncodeAt(d, W, n, v) = Tagged(W[n].variants[u].name, items)
    BY <1>0, <1>2, Zenon DEF EncodeNext, EncodeBy
  <1>5. items \in Seq({items[i] : i \in DOMAIN a}) /\ Len(items) = Len(a)
    <2> HIDE DEF a
    <2> QED
      BY <1>3
  <1>6. Len(items) = 1 => "array" \notin DOMAIN items[1]
    <2> SUFFICES ASSUME Len(a) = 1
                 PROVE  "array" \notin DOMAIN EncodeAt(b, W, a[1], Argument(v, 1))
      <3> HIDE DEF a
      <3>1. Len(a) = 1 => 1 \in DOMAIN a
        BY <1>3
      <3> QED
        BY <1>5, <3>1
    <2>1. CASE Len(c) = 0
      <3>1. a[1] = "bool" /\ Argument(v, 1) = Added
        <4> HIDE DEF a, c
        <4> QED
          BY <1>1, <1>3, <2>1 DEF Argument
      <3>2. EncodeAt(b, W, "bool", Added) = Added
        BY <1>2, Below, ScalarRead
      <3>3. "array" \notin DOMAIN Added
        BY DEF Added
      <3> QED
        BY <3>1, <3>2, <3>3, Zenon
    <2>2. CASE Len(c) # 0
      <3>1. a[1] = c[1] /\ Argument(v, 1) = v.args[1] /\ v.args # <<>>
        <4> HIDE DEF a, c
        <4> QED
          BY <1>1, <1>3, <2>2 DEF Argument
      <3> QED
        BY <3>1, Zenon
    <2> QED
      BY <2>1, <2>2
  <1>7. PICK o \in Opened(R[n].variants, EncodeAt(d, W, n, v)) :
          /\ w = [variant |-> o.variant, args |-> w.args]
          /\ Over(w.args, DOMAIN o.items)
          /\ \A i \in DOMAIN o.items :
               w.args[i] \in DecodeAt(b, R, R[n].variants[o.variant].args[i], o.items[i])
    <2>1. w \in DecodeAt(d, R, n, EncodeAt(d, W, n, v))
      OBVIOUS
    <2> QED
      BY <1>2, <2>1, EnumDecoded, ZenonT(30)
  <1>8. VariantRead(W, R, n, u, items, o)
    <2> HIDE DEF items
    <2> QED
      BY <1>1, <1>4, <1>5, <1>6, VariantFound, Zenon
  <1>9. ~ (/\ R[n].variants[u].args[1] \in ArgTypes
           /\ 1 \in DOMAIN o.items /\ IsArrayOf(o.items[1], items))
    <2> SUFFICES ASSUME R[n].variants[u].args[1] \in ArgTypes,
                        1 \in DOMAIN o.items, IsArrayOf(o.items[1], items)
                 PROVE  FALSE
      BY Zenon
    <2>1. R[R[n].variants[u].args[1]].kind \in {"int", "text", "bool", "struct", "enum"}
      BY PeerArgKinds, Zenon
    <2>2. DecodeAt(b, R, R[n].variants[u].args[1], o.items[1]) = {}
      <3> HIDE DEF items
      <3>1. o.items[1] = [array |-> items]
        BY Zenon DEF IsArrayOf
      <3>2. DecodeAt(b, R, R[n].variants[u].args[1], [array |-> items]) = {}
        <4>1. b \in 1 .. 8
          BY Below
        <4> QED
          BY <2>1, <4>1, ArrayRefused, SMTT(30)
      <3> QED
        BY <3>1, <3>2, Zenon
    <2>3. o.variant = u
      BY <1>8, Zenon DEF VariantRead
    <2> QED
      BY <1>7, <2>2, <2>3, Zenon
  <1>10. /\ o.variant = u /\ a = c /\ R[n].variants[u].args = c
         /\ DOMAIN o.items = DOMAIN c /\ \A i \in DOMAIN c : o.items[i] = items[i]
    <2> HIDE DEF items
    <2> QED
      BY <1>8, <1>9 DEF VariantRead
  <1>11. \A i \in DOMAIN c : o.items[i] = EncodeAt(b, W, c[i], v.args[i])
    BY <1>1, <1>10 DEF Argument
  <1> QED
    BY <1>1, <1>7, <1>10, <1>11

\* The items of an encoded struct that have a name.
Written(fs, e, data) == data = [map |-> [i \in DOMAIN fs |-> <<Name(fs[i].name), e[i]>>]]

\* What is found under a name is what was written under it.
LEMMA FoundFields ==
  ASSUME NEW fs, NEW e, NEW data, Written(fs, e, data), NEW name, NEW x
  PROVE  x \in Found(data, name) <=> \E i \in DOMAIN fs : fs[i].name = name /\ x = e[i]
  <1> DEFINE map == [i \in DOMAIN fs |-> <<Name(fs[i].name), e[i]>>]
  <1>1. DOMAIN map = DOMAIN fs
    OBVIOUS
  <1>2. \A i \in DOMAIN fs : map[i][1] = Name(fs[i].name) /\ map[i][2] = e[i]
    OBVIOUS
  <1>3. data.map = map
    BY DEF Written
  <1> HIDE DEF map
  <1>4. Found(data, name) =
          {map[i][2] : i \in {i \in DOMAIN map : map[i][1] = Name(name)}}
    BY <1>3, Zenon DEF Found
  <1>5. \A i \in DOMAIN fs : map[i][1] = Name(name) <=> fs[i].name = name
    BY <1>2, NameInjective
  <1> QED
    BY <1>1, <1>2, <1>4, <1>5

LEMMA WideKind == Client["wide"].kind = "int" /\ "wide" \in DOMAIN Client
  BY DEF Client, Integer

\* The names of a struct of the client are different from each other and from those
\* an edit gives.
LEMMA ClientNames ==
  ASSUME NEW n \in StructNames, NEW j \in DOMAIN Client[n].fields
  PROVE  LET f == Client[n].fields[j]
         IN /\ f.name = f.of /\ f.name \notin {"renamed", "added"}
            /\ \A g \in Declared(Client[n]) : g.of = f.of => g = f
  <1> DEFINE fs == Client[n].fields
  <1> SUFFICES /\ fs[j].name = fs[j].of /\ fs[j].name \notin {"renamed", "added"}
               /\ \A g \in Client[n].unsent : g.of # fs[j].of
               /\ \A i \in DOMAIN fs : fs[i].of = fs[j].of => fs[i] = fs[j]
    BY DEF Declared, ToSet
  <1>0. j \in DOMAIN fs
    OBVIOUS
  <1>1. CASE n = "CommandWithArgs"
    <2>1. Client[n].unsent = {}
      BY <1>1 DEF Client, CommandWithArgs, Struct
    <2>2. /\ DOMAIN fs = 1 .. 2
          /\ fs[1].name = "command" /\ fs[1].of = "command"
          /\ fs[2].name = "args" /\ fs[2].of = "args"
      BY <1>1, FieldLists DEF Field, OptionField
    <2> HIDE DEF fs
    <2> QED
      BY <1>0, <2>1, <2>2 DEF Field, OptionField
  <1>2. CASE n = "Attribute"
    <2>1. Client[n].unsent = {}
      BY <1>2 DEF Client, Attribute, Struct
    <2>2. /\ DOMAIN fs = 1 .. 3
          /\ fs[1].name = "name" /\ fs[1].of = "name"
          /\ fs[2].name = "dtype" /\ fs[2].of = "dtype"
          /\ fs[3].name = "constraint" /\ fs[3].of = "constraint"
      BY <1>2, FieldLists DEF Field, OptionField
    <2> HIDE DEF fs
    <2> QED
      BY <1>0, <2>1, <2>2 DEF Field, OptionField
  <1>3. CASE n = "ValueId"
    <2>1. Client[n].unsent = {}
      BY <1>3 DEF Client, ValueId, Struct
    <2>2. /\ DOMAIN fs = 1 .. 4
          /\ fs[1].name = "container_id" /\ fs[1].of = "container_id"
          /\ fs[2].name = "segment_id" /\ fs[2].of = "segment_id"
          /\ fs[3].name = "page_id" /\ fs[3].of = "page_id"
          /\ fs[4].name = "slot_id" /\ fs[4].of = "slot_id"
      BY <1>3, FieldLists DEF Field, OptionField
    <2> HIDE DEF fs
    <2> QED
      BY <1>0, <2>1, <2>2 DEF Field, OptionField
  <1>4. CASE n = "Tuple"
    <2>1. Client[n].unsent = {OptionField("value_id", "OptionValueId")}
      BY <1>4 DEF Client, Tuple, Struct
    <2>2. /\ DOMAIN fs = 1 .. 2
          /\ fs[1].name = "tid" /\ fs[1].of = "tid"
          /\ fs[2].name = "field_vals" /\ fs[2].of = "field_vals"
      BY <1>4, FieldLists DEF Field, OptionField
    <2> HIDE DEF fs
    <2> QED
      BY <1>0, <2>1, <2>2 DEF Field, OptionField
  <1>5. CASE n = "PagingInfo"
    <2>1. Client[n].unsent = {}
      BY <1>5 DEF Client, PagingInfo, Struct
    <2>2. /\ DOMAIN fs = 1 .. 4
          /\ fs[1].name = "current_page" /\ fs[1].of = "current_page"
          /\ fs[2].name = "total_pages" /\ fs[2].of = "total_pages"
          /\ fs[3].name = "has_next_page" /\ fs[3].of = "has_next_page"
          /\ fs[4].name = "page_size" /\ fs[4].of = "page_size"
      BY <1>5, FieldLists DEF Field, OptionField
    <2> HIDE DEF fs
    <2> QED
      BY <1>0, <2>1, <2>2 DEF Field, OptionField
  <1>6. CASE n = "Select"
    <2>1. Client[n].unsent = {}
      BY <1>6 DEF Client, Select, Struct
    <2>2. /\ DOMAIN fs = 1 .. 3
          /\ fs[1].name = "schema" /\ fs[1].of = "schema"
          /\ fs[2].name = "result" /\ fs[2].of = "result"
          /\ fs[3].name = "paging_info" /\ fs[3].of = "paging_info"
      BY <1>6, FieldLists DEF Field, OptionField
    <2> HIDE DEF fs
    <2> QED
      BY <1>0, <2>1, <2>2 DEF Field, OptionField
  <1>7. CASE n = "Insert"
    <2>1. Client[n].unsent = {}
      BY <1>7 DEF Client, Insert, Struct
    <2>2. /\ DOMAIN fs = 1 .. 2
          /\ fs[1].name = "inserted" /\ fs[1].of = "inserted"
          /\ fs[2].name = "table_name" /\ fs[2].of = "table_name"
      BY <1>7, FieldLists DEF Field, OptionField
    <2> HIDE DEF fs
    <2> QED
      BY <1>0, <2>1, <2>2 DEF Field, OptionField
  <1> QED
    BY <1>1, <1>2, <1>3, <1>4, <1>5, <1>6, <1>7 DEF StructNames

\* The field of a member, and what the server has made of it.
LEMMA ClientFieldOf ==
  ASSUME NEW n \in StructNames, NEW j \in DOMAIN Client[n].fields
  PROVE  /\ Client[n].fields[j] \in Declared(Client[n])
         /\ Client[n].fields[j].of \in Members(Client[n])
         /\ FieldOf(Client[n], Client[n].fields[j].of) = Client[n].fields[j]
  <1>1. Client[n].fields[j] \in Declared(Client[n])
    BY DEF Declared, ToSet
  <1> QED
    BY <1>1, ClientNames DEF FieldOf, Members

LEMMA ServerFieldOf ==
  ASSUME drift \in Edits, NEW n \in StructNames, NEW j \in DOMAIN Client[n].fields,
         NEW i \in DOMAIN Server[n].fields,
         Server[n].fields[i].name = Client[n].fields[j].name
  PROVE  Fits(Server[n].fields[i], Client[n].fields[j])
  <1>1. PICK k \in DOMAIN Client[n].fields : Fits(Server[n].fields[i], Client[n].fields[k])
    BY ServerFields, ClientNames
  <1>2. Client[n].fields[k].of = Client[n].fields[j].of
    BY <1>1, ClientNames DEF Fits
  <1>3. Client[n].fields[k] = Client[n].fields[j]
    BY <1>2, ClientNames, ClientFieldOf
  <1> QED
    BY <1>1, <1>3

\* A struct is read field by field: what is written under its name, or what stands
\* for a missing field.
LEMMA StructRead ==
  ASSUME NEW d, NEW b, Layer(d, b), NEW W, NEW R, NEW n, W[n].kind = "struct",
         R[n].kind = "struct", NEW v,
         NEW w \in DecodeAt(d, R, n, EncodeAt(d, W, n, v)),
         NEW f \in Declared(R[n]), FieldOf(R[n], f.of) = f
  PROVE  LET fs == W[n].fields
         IN \/ (\A i \in DOMAIN fs : fs[i].name # f.name) /\ w[f.of] \in f.missing
            \/ \E i \in DOMAIN fs :
                 /\ fs[i].name = f.name
                 /\ w[f.of] \in
                      DecodeAt(b, R, f.type, EncodeAt(b, W, fs[i].type, Member(v, fs[i].of)))
  <1> DEFINE fs == W[n].fields
             e == [i \in DOMAIN fs |-> EncodeAt(b, W, fs[i].type, Member(v, fs[i].of))]
             data == [map |-> [i \in DOMAIN fs |-> <<Name(fs[i].name), e[i]>>]]
  <1>0. EncodeAt(d, W, n, v) = EncodeNext(b, W, n, v)
    BY EncodeDeeper
  <1>1. EncodeAt(d, W, n, v) = data
    <2>1. EncodeAt(d, W, n, v) = [map |-> [i \in DOMAIN fs |->
             <<Name(fs[i].name), EncodeAt(b, W, fs[i].type, Member(v, fs[i].of))>>]]
      BY <1>0, Zenon DEF EncodeNext, EncodeBy
    <2>2. \A i \in DOMAIN fs : e[i] = EncodeAt(b, W, fs[i].type, Member(v, fs[i].of))
      OBVIOUS
    <2> HIDE DEF e, fs
    <2> QED
      BY <2>1, <2>2
  <1>2. \/ Found(data, f.name) = {} /\ w[f.of] \in f.missing
        \/ \E x \in Found(data, f.name) : w[f.of] \in DecodeAt(b, R, f.type, x)
    <2> HIDE DEF data
    <2>1. f.of \in Members(R[n]) /\ w \in DecodeAt(d, R, n, data)
      BY <1>1 DEF Members
    <2>2. LET g == FieldOf(R[n], f.of)
          IN \/ Found(data, g.name) = {} /\ w[f.of] \in g.missing
             \/ \E x \in Found(data, g.name) : w[f.of] \in DecodeAt(b, R, g.type, x)
      BY <1>0, <2>1, StructDecoded, Zenon
    <2> QED
      BY <2>2, Zenon
  <1>3. \A x : x \in Found(data, f.name) <=>
                 \E i \in DOMAIN fs : fs[i].name = f.name /\ x = e[i]
    <2>1. Written(fs, e, data)
      BY DEF Written
    <2> HIDE DEF e, fs, data
    <2> QED
      BY <2>1, FoundFields
  <1>4. CASE Found(data, f.name) = {} /\ w[f.of] \in f.missing
    <2> HIDE DEF e, fs, data
    <2>1. \A i \in DOMAIN fs : fs[i].name # f.name
      BY <1>3, <1>4, Zenon
    <2> QED
      BY <1>4, <2>1, Zenon DEF fs
  <1>5. CASE \E x \in Found(data, f.name) : w[f.of] \in DecodeAt(b, R, f.type, x)
    <2> HIDE DEF e, fs, data
    <2>1. PICK i \in DOMAIN fs : fs[i].name = f.name /\ w[f.of] \in DecodeAt(b, R, f.type, e[i])
      BY <1>3, <1>5, Zenon
    <2>2. e[i] = EncodeAt(b, W, fs[i].type, Member(v, fs[i].of))
      BY DEF e
    <2> QED
      BY <2>1, <2>2, Zenon DEF fs
  <1> QED
    BY <1>2, <1>4, <1>5, Zenon

\* A field of the client is missing, or read from that of the server, which has at
\* most been made wider.
LEMMA FieldRead ==
  ASSUME NEW d, NEW b, Layer(d, b), drift \in Edits, NEW n \in StructNames, NEW v,
         NEW w \in DecodeAt(d, Client, n, EncodeAt(d, Server, n, v)),
         NEW j \in DOMAIN Client[n].fields
  PROVE  LET f == Client[n].fields[j]
         IN \/ /\ \A i \in DOMAIN Server[n].fields : Server[n].fields[i].name # f.name
               /\ w[f.of] \in f.missing
            \/ w[f.of] \in
                 DecodeAt(b, Client, f.type, EncodeAt(b, Server, f.type, Member(v, f.of)))
            \/ w[f.of] = Member(v, f.of)
  <1> DEFINE f == Client[n].fields[j]
             fs == Server[n].fields
  <1>1. Server[n].kind = "struct" /\ Client[n].kind = "struct"
    BY StructKinds, SameKinds
  <1>2. f \in Declared(Client[n]) /\ FieldOf(Client[n], f.of) = f
    BY ClientFieldOf
  <1>3. \/ (\A i \in DOMAIN fs : fs[i].name # f.name) /\ w[f.of] \in f.missing
        \/ \E i \in DOMAIN fs :
             /\ fs[i].name = f.name
             /\ w[f.of] \in
                  DecodeAt(b, Client, f.type, EncodeAt(b, Server, fs[i].type, Member(v, fs[i].of)))
    <2> HIDE DEF f
    <2>1. w \in DecodeAt(d, Client, n, EncodeAt(d, Server, n, v))
      BY Zenon
    <2> QED
      BY <1>1, <1>2, <2>1, StructRead, ZenonT(30)
  <1>4. ASSUME NEW i \in DOMAIN fs, fs[i].name = f.name
        PROVE  Fits(fs[i], f)
    BY <1>4, ServerFieldOf, Zenon
  <1>5. ASSUME NEW i \in DOMAIN fs, fs[i].name = f.name,
               w[f.of] \in
                 DecodeAt(b, Client, f.type, EncodeAt(b, Server, fs[i].type, Member(v, fs[i].of)))
        PROVE  \/ w[f.of] \in
                    DecodeAt(b, Client, f.type, EncodeAt(b, Server, f.type, Member(v, f.of)))
               \/ w[f.of] = Member(v, f.of)
    <2>1. fs[i].of = f.of
      BY <1>4, <1>5 DEF Fits
    <2>2. CASE fs[i].type = f.type
      BY <1>5, <2>1, <2>2, Zenon
    <2>3. CASE fs[i].type = "wide" /\ Client[f.type].kind = "int"
      <3>1. Server["wide"].kind = "int"
        BY WideKind, SameKinds
      <3>2. EncodeAt(b, Server, "wide", Member(v, f.of)) = Member(v, f.of)
        BY <3>1, Below, ScalarRead
      <3>3. DecodeAt(b, Client, f.type, Member(v, f.of)) \subseteq {Member(v, f.of)}
        BY <2>3, Below, ScalarRead
      <3> QED
        BY <1>5, <2>1, <2>3, <3>2, <3>3
    <2> QED
      BY <1>4, <1>5, <2>2, <2>3 DEF Fits
  <1> QED
    BY <1>3, <1>5, Zenon

\* A vector is read element by element.
LEMMA VecRead ==
  ASSUME NEW d, NEW b, Layer(d, b), NEW W, NEW R, NEW n, NEW t, W[n] = Vec(t),
         R[n] = Vec(t), NEW v,
         NEW w \in DecodeAt(d, R, n, EncodeAt(d, W, n, v))
  PROVE  /\ Over(w, DOMAIN v)
         /\ \A i \in DOMAIN v : w[i] \in DecodeAt(b, R, t, EncodeAt(b, W, t, v[i]))
  <1>1. W[n].kind = "vec" /\ W[n].of = t /\ R[n].kind = "vec" /\ R[n].of = t
    BY DEF Vec
  <1>0. EncodeAt(d, W, n, v) = EncodeNext(b, W, n, v)
    BY EncodeDeeper
  <1>2. EncodeAt(d, W, n, v) = [array |-> [i \in DOMAIN v |-> EncodeAt(b, W, t, v[i])]]
    BY <1>0, <1>1, Zenon DEF EncodeNext, EncodeBy
  <1> DEFINE items == [i \in DOMAIN v |-> EncodeAt(b, W, t, v[i])]
             data == [array |-> items]
  <1>3. data.array = items /\ DOMAIN items = DOMAIN v
    OBVIOUS
  <1>4. /\ Over(w, DOMAIN data.array)
        /\ \A i \in DOMAIN data.array : w[i] \in DecodeAt(b, R, t, data.array[i])
    <2>1. w \in DecodeAt(d, R, n, data)
      BY <1>2
    <2> HIDE DEF data
    <2> QED
      BY <1>0, <1>1, <2>1, VecDecoded
  <1>5. \A i \in DOMAIN v : items[i] = EncodeAt(b, W, t, v[i])
    OBVIOUS
  <1> HIDE DEF items, data
  <1> QED
    BY <1>3, <1>4, <1>5

\* The types that are themselves on the wire.
ScalarNames == {"String", "bool", "u8", "u16", "u32", "u64", "i16", "i32", "i64"}

LEMMA ScalarKinds ==
  ASSUME drift \in Edits, NEW W, NEW R, Peers(W, R), NEW t \in ScalarNames
  PROVE  W[t].kind \in {"int", "text", "bool"} /\ R[t].kind \in {"int", "text", "bool"}
  <1>1. t \in DOMAIN Client /\ Client[t].kind \in {"int", "text", "bool"}
    BY DEF ScalarNames, Client, Integer
  <1> QED
    BY <1>1, PeerKinds

\* A variant that carries integers, texts and Booleans only.
Plain(n, v) ==
  /\ Shaped(n, v)
  /\ \A i \in DOMAIN v.args :
       ArgsOf(n, v.variant)[i] \in ScalarNames /\ "array" \notin DOMAIN v.args[i]

\* Such a variant is read as itself.
LEMMA EnumSame ==
  ASSUME NEW d, NEW b, Layer(d, b), drift \in Edits, NEW W, NEW R, Peers(W, R),
         NEW n \in EnumNames, NEW v, Plain(n, v),
         NEW w \in DecodeAt(d, R, n, EncodeAt(d, W, n, v))
  PROVE  w = v
  <1> DEFINE c == ArgsOf(n, v.variant)
  <1>1. /\ v = [variant |-> v.variant, args |-> v.args]
        /\ Over(v.args, DOMAIN v.args)
    BY DEF Plain, Shaped, Over
  <1>2. ASSUME NEW i \in DOMAIN v.args
        PROVE  /\ EncodeAt(b, W, c[i], v.args[i]) = v.args[i]
               /\ DecodeAt(b, R, c[i], v.args[i]) \subseteq {v.args[i]}
    <2>1. c[i] \in ScalarNames
      BY <1>2, Zenon DEF Plain
    <2> HIDE DEF c
    <2> QED
      BY <2>1, Below, ScalarKinds, ScalarRead
  <1>3. v.args # <<>> => "array" \notin DOMAIN EncodeAt(b, W, c[1], v.args[1])
    <2>1. c \in Seq(ArgTypes) /\ DOMAIN v.args = DOMAIN c /\ Over(v.args, DOMAIN c)
      BY ClientArgs DEF Plain, Shaped, Over
    <2> HIDE DEF c
    <2>2. v.args # <<>> => 1 \in DOMAIN v.args
      BY <2>1
    <2>3. 1 \in DOMAIN v.args => "array" \notin DOMAIN v.args[1]
      BY DEF Plain
    <2> QED
      BY <1>2, <2>2, <2>3
  <1>4. /\ w = [variant |-> v.variant, args |-> w.args]
        /\ Over(w.args, DOMAIN v.args)
        /\ \A i \in DOMAIN v.args :
             w.args[i] \in DecodeAt(b, R, c[i], EncodeAt(b, W, c[i], v.args[i]))
    BY <1>3, EnumRead, Zenon DEF Plain
  <1> HIDE DEF c
  <1>5. \A i \in DOMAIN v.args : w.args[i] = v.args[i]
    BY <1>2, <1>4
  <1>6. w.args = v.args
    BY <1>1, <1>4, <1>5 DEF Over
  <1> QED
    BY <1>1, <1>4, <1>6, Zenon

\* The enums of a result and of a command that carry nothing else.
LEMMA PlainValues ==
  ASSUME NEW v \in Values
  PROVE  Plain("Value", v)
  <1>1. Client["Value"].variants = Value.variants
    BY DEF Client
  <1> QED
    BY <1>1 DEF Value, Enum, Values, Bare, With, WithBoth, Plain, Shaped, ArgsOf, ScalarNames,
           Wholes, Texts, Truths, Over

LEMMA PlainTypes ==
  ASSUME NEW v \in DataTypes
  PROVE  Plain("DataType", v)
  <1>1. Client["DataType"].variants = DataType.variants
    BY DEF Client
  <1> QED
    BY <1>1 DEF DataType, Enum, DataTypes, Bare, With, WithBoth, Plain, Shaped, ArgsOf,
           ScalarNames, Wholes, Over

LEMMA PlainConstraints ==
  ASSUME NEW v \in Constraints
  PROVE  Plain("Constraint", v)
  <1>1. Client["Constraint"].variants = Constraint.variants
    BY DEF Client
  <1> QED
    BY <1>1 DEF Constraint, Enum, Constraints, Bare, With, Plain, Shaped, ArgsOf,
           ScalarNames, Wholes, Over

LEMMA PlainSystem ==
  ASSUME NEW u \in DOMAIN SystemCommand.variants
  PROVE  Plain("SystemCommand", [variant |-> u, args |-> <<>>])
  <1>1. Client["SystemCommand"].variants = SystemCommand.variants
    BY DEF Client
  <1> QED
    BY <1>1 DEF SystemCommand, Enum, Units, Plain, Shaped, ArgsOf, Over

LEMMA PlainDB ==
  ASSUME NEW u \in DOMAIN DBCommand.variants
  PROVE  Plain("DBCommand", [variant |-> u, args |-> <<>>])
  <1>1. Client["DBCommand"].variants = DBCommand.variants
    BY DEF Client
  <1> QED
    BY <1>1 DEF DBCommand, Enum, Units, Plain, Shaped, ArgsOf, Over

-----------------------------------------------------------------------------
(* What the client reads of a response is what the server meant. *)

\* No edit is about a vector or an Option.
LEMMA VecTables ==
  ASSUME drift \in Edits
  PROVE  /\ Client["Values"] = Vec("Value") /\ Server["Values"] = Vec("Value")
         /\ Client["Tuples"] = Vec("Tuple") /\ Server["Tuples"] = Vec("Tuple")
         /\ Client["Schema"] = Vec("Attribute") /\ Server["Schema"] = Vec("Attribute")
         /\ Client["Strings"] = Vec("String") /\ Server["Strings"] = Vec("String")
         /\ Client["Paging"] = Option("PagingInfo") /\ Server["Paging"] = Option("PagingInfo")
  <1> DEFINE S == {"Values", "Tuples", "Schema", "Strings", "Paging"}
  <1>1. \A n \in S : n \in DOMAIN Client /\ n \notin StructNames /\ n \notin EnumNames
    BY DEF Client, StructNames, EnumNames
  <1>2. \A n \in S : Server[n] = Client[n]
    BY <1>1, OtherTypes, EditOf
  <1>3. /\ Client["Values"] = Vec("Value") /\ Client["Tuples"] = Vec("Tuple")
        /\ Client["Schema"] = Vec("Attribute") /\ Client["Strings"] = Vec("String")
        /\ Client["Paging"] = Option("PagingInfo")
    BY DEF Client, Schema, Attributes
  <1> QED
    BY <1>2, <1>3

\* From the values to the whole response: what is read of each part is that part.
LEMMA ValuesSame ==
  ASSUME drift \in Edits, NEW vs \in Seq(Values),
         NEW w \in DecodeAt(3, Client, "Values", EncodeAt(3, Server, "Values", vs))
  PROVE  w = vs
  <1>0. Layer(3, 2) /\ Layer(2, 1)
    BY Layers
  <1>1. /\ Over(w, DOMAIN vs)
        /\ \A i \in DOMAIN vs :
             w[i] \in DecodeAt(2, Client, "Value", EncodeAt(2, Server, "Value", vs[i]))
    BY <1>0, VecTables, VecRead
  <1>2. ASSUME NEW i \in DOMAIN vs
        PROVE  w[i] = vs[i]
    <2>1. Plain("Value", vs[i])
      BY PlainValues
    <2>2. Peers(Server, Client) /\ "Value" \in EnumNames
      BY DEF Peers, EnumNames
    <2> QED
      BY <1>0, <1>1, <2>1, <2>2, EnumSame
  <1> QED
    BY <1>1, <1>2 DEF Over

\* The fields of the structs of a response, and their members.
LEMMA FieldsOf ==
  /\ DOMAIN Client["Attribute"].fields = 1 .. 3
  /\ Client["Attribute"].fields[1] = Field("name", "String")
  /\ Client["Attribute"].fields[2] = Field("dtype", "DataType")
  /\ Client["Attribute"].fields[3] = Field("constraint", "Constraint")
  /\ Members(Client["Attribute"]) = {"name", "dtype", "constraint"}
  /\ DOMAIN Client["PagingInfo"].fields = 1 .. 4
  /\ Client["PagingInfo"].fields[1] = Field("current_page", "u32")
  /\ Client["PagingInfo"].fields[2] = Field("total_pages", "u32")
  /\ Client["PagingInfo"].fields[3] = Field("has_next_page", "bool")
  /\ Client["PagingInfo"].fields[4] = Field("page_size", "u32")
  /\ Members(Client["PagingInfo"]) =
       {"current_page", "total_pages", "has_next_page", "page_size"}
  /\ DOMAIN Client["Tuple"].fields = 1 .. 2
  /\ Client["Tuple"].fields[2] = Field("field_vals", "Values")
  /\ DOMAIN Client["Select"].fields = 1 .. 3
  /\ Client["Select"].fields[1] = Field("schema", "Schema")
  /\ Client["Select"].fields[2] = Field("result", "Tuples")
  /\ Client["Select"].fields[3] = OptionField("paging_info", "Paging")
  /\ DOMAIN Client["Insert"].fields = 1 .. 2
  /\ Client["Insert"].fields[1] = Field("inserted", "u64")
  /\ Client["Insert"].fields[2] = Field("table_name", "String")
  <1>1. Members(Client["Attribute"]) = {"name", "dtype", "constraint"}
    <2>1. Client["Attribute"].unsent = {}
      BY DEF Client, Attribute, Struct
    <2> DEFINE fs == Client["Attribute"].fields
    <2>2. /\ DOMAIN fs = 1 .. 3
          /\ fs[1].of = "name" /\ fs[2].of = "dtype" /\ fs[3].of = "constraint"
      BY FieldLists DEF Field
    <2>3. Declared(Client["Attribute"]) = {fs[i] : i \in DOMAIN fs}
      BY <2>1 DEF Declared, ToSet
    <2> HIDE DEF fs
    <2>4. 1 \in DOMAIN fs /\ 2 \in DOMAIN fs /\ 3 \in DOMAIN fs
      BY <2>2
    <2> QED
      BY <2>2, <2>3, <2>4 DEF Members
  <1>2. Members(Client["PagingInfo"]) =
       {"current_page", "total_pages", "has_next_page", "page_size"}
    <2>1. Client["PagingInfo"].unsent = {}
      BY DEF Client, PagingInfo, Struct
    <2> DEFINE fs == Client["PagingInfo"].fields
    <2>2. /\ DOMAIN fs = 1 .. 4
          /\ fs[1].of = "current_page" /\ fs[2].of = "total_pages" /\ fs[3].of = "has_next_page"
          /\ fs[4].of = "page_size"
      BY FieldLists DEF Field
    <2>3. Declared(Client["PagingInfo"]) = {fs[i] : i \in DOMAIN fs}
      BY <2>1 DEF Declared, ToSet
    <2> HIDE DEF fs
    <2>4. 1 \in DOMAIN fs /\ 2 \in DOMAIN fs /\ 3 \in DOMAIN fs /\ 4 \in DOMAIN fs
      BY <2>2
    <2> QED
      BY <2>2, <2>3, <2>4 DEF Members
  <1> QED
    BY <1>1, <1>2, FieldLists

LEMMA StructMembers ==
  /\ "Attribute" \in StructNames /\ "PagingInfo" \in StructNames /\ "Tuple" \in StructNames
  /\ "Select" \in StructNames /\ "Insert" \in StructNames /\ "CommandWithArgs" \in StructNames
  BY DEF StructNames

LEMMA ScalarMembers ==
  /\ "String" \in ScalarNames /\ "u32" \in ScalarNames
  /\ "u64" \in ScalarNames /\ "bool" \in ScalarNames
  BY DEF ScalarNames

LEMMA TupleSame ==
  ASSUME drift \in Edits, NEW row \in Rows,
         NEW w \in DecodeAt(4, Client, "Tuple", EncodeAt(4, Server, "Tuple", row))
  PROVE  w.field_vals = row.field_vals
  <1>0. Layer(4, 3)
    BY Layers
  <1>1. Member(row, "field_vals") = row.field_vals /\ row.field_vals \in Seq(Values)
    BY DEF Member, Rows
  <1>2. 2 \in DOMAIN Client["Tuple"].fields
    BY FieldsOf
  <1>3. \/ w.field_vals \in
             DecodeAt(3, Client, "Values", EncodeAt(3, Server, "Values", row.field_vals))
        \/ w.field_vals = row.field_vals
    BY <1>0, <1>1, <1>2, FieldRead, FieldsOf, StructMembers, SMTT(30) DEF Field
  <1> QED
    BY <1>1, <1>3, ValuesSame

LEMMA AttributeSame ==
  ASSUME drift \in Edits, NEW a \in Columns,
         NEW w \in DecodeAt(4, Client, "Attribute", EncodeAt(4, Server, "Attribute", a))
  PROVE  w = a
  <1>0. Layer(4, 3) /\ Layer(3, 2)
    BY Layers
  <1>1. Over(w, {"name", "dtype", "constraint"})
    <2>1. Over(w, Members(Client["Attribute"]))
      <3>1. Client["Attribute"].kind = "struct"
        BY StructKinds, StructMembers
      <3> QED
        BY <1>0, <3>1, StructDecoded, Zenon
    <2>2. Members(Client["Attribute"]) = {"name", "dtype", "constraint"}
      BY FieldsOf, Zenon
    <2> QED
      BY <2>1, <2>2, Zenon
  <1>2. /\ Member(a, "name") = a.name /\ Member(a, "dtype") = a.dtype
        /\ Member(a, "constraint") = a.constraint
        /\ a.dtype \in DataTypes /\ a.constraint \in Constraints
    BY DEF Member, Columns
  <1>3. Peers(Server, Client) /\ "DataType" \in EnumNames /\ "Constraint" \in EnumNames
    BY DEF Peers, EnumNames
  <1>4. 1 \in DOMAIN Client["Attribute"].fields /\ 2 \in DOMAIN Client["Attribute"].fields
        /\ 3 \in DOMAIN Client["Attribute"].fields
    BY FieldsOf
  <1>5. w.name = a.name
    <2>1. \/ w.name \in DecodeAt(3, Client, "String", EncodeAt(3, Server, "String", a.name))
          \/ w.name = a.name
      BY <1>0, <1>2, <1>4, FieldRead, FieldsOf, StructMembers DEF Field
    <2> QED
      BY <1>3, <2>1, ScalarKinds, ScalarRead, ScalarMembers
  <1>6. w.dtype = a.dtype
    <2>1. \/ w.dtype \in DecodeAt(3, Client, "DataType", EncodeAt(3, Server, "DataType", a.dtype))
          \/ w.dtype = a.dtype
      BY <1>0, <1>2, <1>4, FieldRead, FieldsOf, StructMembers DEF Field
    <2> QED
      BY <1>0, <1>2, <1>3, <2>1, PlainTypes, EnumSame
  <1>7. w.constraint = a.constraint
    <2>1. \/ w.constraint \in
               DecodeAt(3, Client, "Constraint", EncodeAt(3, Server, "Constraint", a.constraint))
          \/ w.constraint = a.constraint
      BY <1>0, <1>2, <1>4, FieldRead, FieldsOf, StructMembers DEF Field
    <2> QED
      BY <1>0, <1>2, <1>3, <2>1, PlainConstraints, EnumSame
  <1> QED
    BY <1>1, <1>5, <1>6, <1>7 DEF Columns, Over

LEMMA PagingInfoSame ==
  ASSUME drift \in Edits, NEW p \in Pages,
         NEW w \in DecodeAt(4, Client, "PagingInfo", EncodeAt(4, Server, "PagingInfo", p))
  PROVE  w = p
  <1>0. Layer(4, 3)
    BY Layers
  <1>1. Over(w, {"current_page", "total_pages", "has_next_page", "page_size"})
    <2>1. Over(w, Members(Client["PagingInfo"]))
      <3>1. Client["PagingInfo"].kind = "struct"
        BY StructKinds, StructMembers
      <3> QED
        BY <1>0, <3>1, StructDecoded, Zenon
    <2>2. Members(Client["PagingInfo"]) =
          {"current_page", "total_pages", "has_next_page", "page_size"}
      BY FieldsOf, Zenon
    <2> QED
      BY <2>1, <2>2, Zenon
  <1>2. /\ Member(p, "current_page") = p.current_page /\ Member(p, "total_pages") = p.total_pages
        /\ Member(p, "has_next_page") = p.has_next_page /\ Member(p, "page_size") = p.page_size
    BY DEF Member, Pages
  <1>3. ASSUME NEW t \in ScalarNames, NEW x,
               NEW y \in DecodeAt(3, Client, t, EncodeAt(3, Server, t, x))
        PROVE  y = x
    <2>1. Peers(Server, Client)
      BY DEF Peers
    <2> QED
      BY <2>1, <1>3, ScalarKinds, ScalarRead
  <1>4. 1 \in DOMAIN Client["PagingInfo"].fields /\ 2 \in DOMAIN Client["PagingInfo"].fields
        /\ 3 \in DOMAIN Client["PagingInfo"].fields /\ 4 \in DOMAIN Client["PagingInfo"].fields
    BY FieldsOf
  <1>5. w.current_page = p.current_page
    BY <1>0, <1>2, <1>3, <1>4, FieldRead, FieldsOf, StructMembers, ScalarMembers DEF Field
  <1>6. w.total_pages = p.total_pages
    BY <1>0, <1>2, <1>3, <1>4, FieldRead, FieldsOf, StructMembers, ScalarMembers DEF Field
  <1>7. w.has_next_page = p.has_next_page
    BY <1>0, <1>2, <1>3, <1>4, FieldRead, FieldsOf, StructMembers, ScalarMembers DEF Field
  <1>8. w.page_size = p.page_size
    BY <1>0, <1>2, <1>3, <1>4, FieldRead, FieldsOf, StructMembers, ScalarMembers DEF Field
  <1> QED
    BY <1>1, <1>5, <1>6, <1>7, <1>8 DEF Pages, Over

\* A field stays under its name, unless the edit renames it or drops it, and the
\* same where fields are added or reordered only.
LEMMA EditedFieldsKeep ==
  ASSUME NEW fs \in Seq(Fields), NEW d,
         d.edit \in {"add", "reverse", "rename", "drop", "widen"},
         d.edit \in {"rename", "drop", "widen"} => \E k \in DOMAIN fs : fs[k].name = d.at,
         NEW j \in DOMAIN fs,
         d.edit \in {"rename", "drop"} => fs[j].name # d.at
  PROVE  LET es == EditedFields(fs, d)
         IN \E i \in DOMAIN es : /\ es[i].name = fs[j].name
                                 /\ d.edit \in {"add", "reverse"} => es[i] = fs[j]
  <1>1. CASE d.edit = "add"
    <2>1. j \in DOMAIN EditedFields(fs, d) /\ EditedFields(fs, d)[j] = fs[j]
      BY <1>1 DEF EditedFields
    <2> QED
      BY <2>1
  <1>2. CASE d.edit = "reverse"
    <2>1. /\ Len(fs) - j + 1 \in DOMAIN EditedFields(fs, d)
          /\ EditedFields(fs, d)[Len(fs) - j + 1] = fs[j]
      BY <1>2 DEF EditedFields, Reverse
    <2> QED
      BY <2>1
  <1>3. CASE d.edit = "drop"
    <2> DEFINE k == CHOOSE k \in DOMAIN fs : fs[k].name = d.at
               a == SubSeq(fs, 1, k - 1)
               b == SubSeq(fs, k + 1, Len(fs))
    <2>1. k \in 1 .. Len(fs) /\ fs[k].name = d.at
      BY <1>3
    <2>2. EditedFields(fs, d) = a \o b
      BY <1>3, <2>1 DEF EditedFields, RemoveAt
    <2>3. k # j /\ j \in 1 .. Len(fs)
      BY <1>3, <2>1
    <2> HIDE DEF k
    <2>4. /\ a \in Seq(Fields) /\ Len(a) = k - 1 /\ \A i \in 1 .. k - 1 : a[i] = fs[i]
          /\ b \in Seq(Fields) /\ Len(b) = Len(fs) - k /\ \A i \in 1 .. Len(fs) - k : b[i] = fs[k + i]
      BY <2>1, Sub
    <2> HIDE DEF a, b
    <2>5. /\ a \o b \in Seq(Fields) /\ Len(a \o b) = Len(a) + Len(b)
          /\ \A i \in 1 .. Len(a) + Len(b) :
               (a \o b)[i] = IF i <= Len(a) THEN a[i] ELSE b[i - Len(a)]
      BY <2>4, Cat
    <2>6. CASE j < k
      <3>1. j \in 1 .. Len(a) + Len(b) /\ j <= Len(a) /\ a[j] = fs[j]
        BY <2>1, <2>3, <2>4, <2>6
      <3>2. j \in DOMAIN (a \o b) /\ (a \o b)[j] = fs[j]
        BY <2>5, <3>1
      <3> QED
        BY <1>3, <2>2, <3>2
    <2>7. CASE j > k
      <3>1. /\ j - 1 \in 1 .. Len(a) + Len(b) /\ ~ (j - 1 <= Len(a))
            /\ b[j - 1 - Len(a)] = fs[j]
        BY <2>1, <2>3, <2>4, <2>7
      <3>2. j - 1 \in DOMAIN (a \o b) /\ (a \o b)[j - 1] = fs[j]
        BY <2>5, <3>1
      <3> QED
        BY <1>3, <2>2, <3>2
    <2>8. j < k \/ j > k
      BY <2>1, <2>3
    <2> QED
      BY <2>6, <2>7, <2>8, Zenon
  <1>4. CASE d.edit \in {"rename", "widen"}
    <2>1. j \in DOMAIN EditedFields(fs, d) /\ fs[j] \in Fields
      BY <1>4 DEF EditedFields
    <2>2. EditedFields(fs, d)[j].name = fs[j].name
      BY <1>4, <2>1 DEF EditedFields, Fields
    <2> QED
      BY <1>4, <2>1, <2>2
  <1> QED
    BY <1>1, <1>2, <1>3, <1>4

\* So does every field of the server.
LEMMA FieldKept ==
  ASSUME drift \in Edits, NEW n \in StructNames, NEW j \in DOMAIN Client[n].fields,
         drift.edit \in {"rename", "drop"} /\ drift.type = n =>
           drift.at # Client[n].fields[j].name
  PROVE  \E i \in DOMAIN Server[n].fields :
           /\ Server[n].fields[i].name = Client[n].fields[j].name
           /\ drift.edit \in {"none", "add", "reverse"} =>
                Server[n].fields[i] = Client[n].fields[j]
  <1>1. CASE drift.edit # "none" => n # drift.type
    <2>1. Server[n].fields = Client[n].fields
      BY <1>1, OtherTypes, StructKinds
    <2> QED
      BY <2>1
  <1>2. CASE drift.edit # "none" /\ n = drift.type
    <2>1. Server[n].fields = EditedFields(Client[n].fields, drift)
      BY <1>2, EditedStruct
    <2> QED
      BY <1>2, <2>1, EditOf, Apart, ClientFields, EditedFieldsKeep
  <1> QED
    BY <1>1, <1>2

LEMMA RowsSame ==
  ASSUME drift \in Edits, NEW rows \in Seq(Rows),
         NEW w \in DecodeAt(5, Client, "Tuples", EncodeAt(5, Server, "Tuples", rows))
  PROVE  [i \in DOMAIN w |-> w[i].field_vals] = [i \in DOMAIN rows |-> rows[i].field_vals]
  <1>0. Layer(5, 4)
    BY Layers
  <1>1. /\ Over(w, DOMAIN rows)
        /\ \A i \in DOMAIN rows :
             w[i] \in DecodeAt(4, Client, "Tuple", EncodeAt(4, Server, "Tuple", rows[i]))
    BY <1>0, VecTables, VecRead
  <1>2. DOMAIN w = DOMAIN rows
    BY <1>1 DEF Over
  <1>3. ASSUME NEW i \in DOMAIN rows
        PROVE  w[i].field_vals = rows[i].field_vals
    <2>1. rows[i] \in Rows
      OBVIOUS
    <2> QED
      BY <1>1, <2>1, TupleSame
  <1> QED
    BY <1>2, <1>3, Zenon

LEMMA SchemaSame ==
  ASSUME drift \in Edits, NEW columns \in Seq(Columns),
         NEW w \in DecodeAt(5, Client, "Schema", EncodeAt(5, Server, "Schema", columns))
  PROVE  w = columns
  <1>0. Layer(5, 4)
    BY Layers
  <1>1. /\ Over(w, DOMAIN columns)
        /\ \A i \in DOMAIN columns :
             w[i] \in
               DecodeAt(4, Client, "Attribute", EncodeAt(4, Server, "Attribute", columns[i]))
    BY <1>0, VecTables, VecRead
  <1>2. ASSUME NEW i \in DOMAIN columns
        PROVE  w[i] = columns[i]
    <2>1. columns[i] \in Columns
      OBVIOUS
    <2> QED
      BY <1>1, <2>1, AttributeSame
  <1> QED
    BY <1>1, <1>2 DEF Over

LEMMA PagingSame ==
  ASSUME drift \in Edits, NEW paging \in Optional(Pages),
         NEW w \in DecodeAt(5, Client, "Paging", EncodeAt(5, Server, "Paging", paging))
  PROVE  w = paging
  <1>0. Layer(5, 4) /\ Layer(4, 3)
    BY Layers
  <1>1. /\ Client["Paging"].kind = "option" /\ Client["Paging"].of = "PagingInfo"
        /\ Server["Paging"].kind = "option" /\ Server["Paging"].of = "PagingInfo"
    BY VecTables DEF Option
  <1>2. EncodeAt(5, Server, "Paging", paging) =
          IF paging = None THEN Null ELSE EncodeAt(4, Server, "PagingInfo", paging.some)
    <2>1. EncodeAt(5, Server, "Paging", paging) = EncodeNext(4, Server, "Paging", paging)
      BY <1>0, EncodeDeeper
    <2> QED
      BY <1>1, <2>1, Zenon DEF EncodeNext, EncodeBy
  <1>3. CASE paging = None
    BY <1>0, <1>1, <1>2, <1>3, OptionDecoded
  <1>4. CASE paging # None
    <2>1. paging = [some |-> paging.some] /\ paging.some \in Pages
      BY <1>4 DEF Optional
    <2>2. EncodeAt(4, Server, "PagingInfo", paging.some) # Null
      <3>1. Server["PagingInfo"].kind = "struct"
        BY SameKinds, StructKinds, StructMembers
      <3>2. IsMap(EncodeAt(4, Server, "PagingInfo", paging.some))
        BY <1>0, <3>1, EncodedMap
      <3> QED
        BY <3>2 DEF IsMap, Null
    <2>3. \E p \in
            DecodeAt(4, Client, "PagingInfo", EncodeAt(4, Server, "PagingInfo", paging.some)) :
            w = [some |-> p]
      BY <1>0, <1>1, <1>2, <1>4, <2>2, OptionDecoded
    <2> QED
      BY <2>1, <2>3, PagingInfoSame
  <1> QED
    BY <1>3, <1>4

\* The one loss that names cannot show: a missing field is None for an Option.
PagingLost ==
  /\ drift.edit \in {"rename", "drop"}
  /\ drift.type = "Select" /\ drift.at = "paging_info"

\* A Select is read as itself, but for the paging information where its field is lost.
LEMMA SelectRead ==
  ASSUME drift \in Edits, NEW s \in Selections,
         NEW w \in DecodeAt(6, Client, "Select", EncodeAt(6, Server, "Select", s))
  PROVE  /\ w.schema = s.schema
         /\ [i \in DOMAIN w.result |-> w.result[i].field_vals] =
              [i \in DOMAIN s.result |-> s.result[i].field_vals]
         /\ \/ w.paging_info = s.paging_info
            \/ PagingLost /\ w.paging_info = None
  <1>0. Layer(6, 5)
    BY Layers
  <1>1. /\ Member(s, "schema") = s.schema /\ s.schema \in Seq(Columns)
        /\ Member(s, "result") = s.result /\ s.result \in Seq(Rows)
        /\ Member(s, "paging_info") = s.paging_info /\ s.paging_info \in Optional(Pages)
    BY DEF Member, Selections
  <1>2. /\ 1 \in DOMAIN Client["Select"].fields /\ 2 \in DOMAIN Client["Select"].fields
        /\ 3 \in DOMAIN Client["Select"].fields
    BY FieldsOf
  <1>3. w.schema = s.schema
    <2>1. \/ w.schema \in DecodeAt(5, Client, "Schema", EncodeAt(5, Server, "Schema", s.schema))
          \/ w.schema = s.schema
      <3> DEFINE f == Client["Select"].fields[1]
      <3>1. f.of = "schema" /\ f.type = "Schema" /\ f.missing = {}
        BY FieldsOf DEF Field
      <3>2. \/ w[f.of] \in f.missing
            \/ w[f.of] \in
                 DecodeAt(5, Client, f.type, EncodeAt(5, Server, f.type, Member(s, f.of)))
            \/ w[f.of] = Member(s, f.of)
        <4>1. "Select" \in StructNames /\ 1 \in DOMAIN Client["Select"].fields
          BY <1>2, StructMembers
        <4> QED
          BY <1>0, <4>1, FieldRead
      <3> HIDE DEF f
      <3> QED
        BY <1>1, <3>1, <3>2
    <2> QED
      BY <1>1, <2>1, SchemaSame
  <1>4. [i \in DOMAIN w.result |-> w.result[i].field_vals] =
          [i \in DOMAIN s.result |-> s.result[i].field_vals]
    <2>1. \/ w.result \in DecodeAt(5, Client, "Tuples", EncodeAt(5, Server, "Tuples", s.result))
          \/ w.result = s.result
      <3> DEFINE f == Client["Select"].fields[2]
      <3>1. f.of = "result" /\ f.type = "Tuples" /\ f.missing = {}
        BY FieldsOf DEF Field
      <3>2. \/ w[f.of] \in f.missing
            \/ w[f.of] \in
                 DecodeAt(5, Client, f.type, EncodeAt(5, Server, f.type, Member(s, f.of)))
            \/ w[f.of] = Member(s, f.of)
        <4>1. "Select" \in StructNames /\ 2 \in DOMAIN Client["Select"].fields
          BY <1>2, StructMembers
        <4> QED
          BY <1>0, <4>1, FieldRead
      <3> HIDE DEF f
      <3> QED
        BY <1>1, <3>1, <3>2
    <2>2. CASE w.result = s.result
      BY <2>2, Zenon
    <2>3. CASE w.result \in DecodeAt(5, Client, "Tuples", EncodeAt(5, Server, "Tuples", s.result))
      BY <1>1, <2>3, RowsSame, Zenon
    <2> QED
      BY <2>1, <2>2, <2>3
  <1>5. w.paging_info = s.paging_info \/ (PagingLost /\ w.paging_info = None)
    <2> DEFINE lost == \A i \in DOMAIN Server["Select"].fields :
                         Server["Select"].fields[i].name # "paging_info"
    <2>1. \/ lost /\ w.paging_info = None
          \/ w.paging_info \in
               DecodeAt(5, Client, "Paging", EncodeAt(5, Server, "Paging", s.paging_info))
          \/ w.paging_info = s.paging_info
      <3> DEFINE f == Client["Select"].fields[3]
      <3>1. /\ f.of = "paging_info" /\ f.name = "paging_info" /\ f.type = "Paging"
            /\ f.missing = {None}
        BY FieldsOf DEF Field, OptionField
      <3>2. \/ /\ \A i \in DOMAIN Server["Select"].fields : Server["Select"].fields[i].name # f.name
               /\ w[f.of] \in f.missing
            \/ w[f.of] \in
                 DecodeAt(5, Client, f.type, EncodeAt(5, Server, f.type, Member(s, f.of)))
            \/ w[f.of] = Member(s, f.of)
        <4>1. "Select" \in StructNames /\ 3 \in DOMAIN Client["Select"].fields
          BY <1>2, StructMembers
        <4> QED
          BY <1>0, <4>1, FieldRead
      <3> HIDE DEF f
      <3> QED
        BY <1>1, <3>1, <3>2
    <2>2. lost => PagingLost
      BY <1>2, FieldKept, FieldsOf, StructMembers DEF PagingLost, Field, OptionField
    <2> HIDE DEF lost
    <2> QED
      BY <1>1, <2>1, <2>2, PagingSame
  <1> QED
    BY <1>3, <1>4, <1>5, Zenon

LEMMA InsertRead ==
  ASSUME drift \in Edits, NEW s \in Insertions,
         NEW w \in DecodeAt(6, Client, "Insert", EncodeAt(6, Server, "Insert", s))
  PROVE  w.inserted = s.inserted /\ w.table_name = s.table_name
  <1>0. Layer(6, 5)
    BY Layers
  <1>1. Member(s, "inserted") = s.inserted /\ Member(s, "table_name") = s.table_name
    BY DEF Member, Insertions
  <1>2. ASSUME NEW t \in ScalarNames, NEW x,
               NEW y \in DecodeAt(5, Client, t, EncodeAt(5, Server, t, x))
        PROVE  y = x
    <2>1. Peers(Server, Client)
      BY DEF Peers
    <2> QED
      BY <2>1, <1>2, ScalarKinds, ScalarRead
  <1>3. 1 \in DOMAIN Client["Insert"].fields /\ 2 \in DOMAIN Client["Insert"].fields
    BY FieldsOf
  <1>4. w.inserted = s.inserted
    BY <1>0, <1>1, <1>2, <1>3, FieldRead, FieldsOf, StructMembers, ScalarMembers DEF Field
  <1>5. w.table_name = s.table_name
    BY <1>0, <1>1, <1>2, <1>3, FieldRead, FieldsOf, StructMembers, ScalarMembers DEF Field
  <1> QED
    BY <1>4, <1>5

LEMMA QueryVariants ==
  /\ Client["QueryResult"].variants = QueryResult.variants
  /\ \A u \in {"MessageOnly", "Select", "Insert"} : u \in DOMAIN QueryResult.variants
  /\ ArgsOf("QueryResult", "MessageOnly") = <<"String">>
  /\ ArgsOf("QueryResult", "Select") = <<"Select">>
  /\ ArgsOf("QueryResult", "Insert") = <<"Insert">>
  BY DEF ArgsOf, Client, QueryResult, Enum

\* The outcome that the client makes of a result is the one the server meant.
LEMMA QueryRead ==
  ASSUME drift \in Edits, NEW q \in QueryResults,
         NEW w \in DecodeAt(7, Client, "QueryResult", EncodeAt(7, Server, "QueryResult", q))
  PROVE  LET a == q.args[1]
         IN /\ q.variant \in {"MessageOnly", "Select", "Insert"}
            /\ q.variant = "MessageOnly" => IntoOutcome(w) = [message |-> a]
            /\ q.variant = "Insert" =>
                 IntoOutcome(w) = [rows |-> a.inserted, table |-> a.table_name]
            /\ q.variant = "Select" =>
                 \E paging \in {a.paging_info, None} :
                   /\ paging # a.paging_info => PagingLost
                   /\ IntoOutcome(w) =
                        [schema |-> a.schema, paging_info |-> paging,
                         rows |-> [i \in DOMAIN a.result |-> a.result[i].field_vals]]
  <1>0. Layer(7, 6) /\ Layer(6, 5)
    BY Layers
  <1> DEFINE a == q.args[1]
  <1>1. /\ q.variant \in {"MessageOnly", "Select", "Insert"}
        /\ q = [variant |-> q.variant, args |-> q.args]
        /\ Over(q.args, 1 .. 1)
        /\ q.variant = "MessageOnly" => a \in Texts
        /\ q.variant = "Select" => a \in Selections
        /\ q.variant = "Insert" => a \in Insertions
    BY DEF QueryResults, With, Over
  <1>2. Shaped("QueryResult", q)
    BY <1>1, QueryVariants DEF Shaped
  <1>3. Peers(Server, Client) /\ "QueryResult" \in EnumNames
    BY DEF Peers, EnumNames
  <1> DEFINE t == ArgsOf("QueryResult", q.variant)[1]
  <1>4. /\ q.variant = "MessageOnly" => t = "String"
        /\ q.variant = "Select" => t = "Select"
        /\ q.variant = "Insert" => t = "Insert"
    BY QueryVariants
  <1>5. "array" \notin DOMAIN EncodeAt(6, Server, t, a)
    <2>1. CASE q.variant = "MessageOnly"
      <3>1. EncodeAt(6, Server, "String", a) = a
        BY <1>3, ScalarKinds, ScalarMembers, ScalarRead
      <3>2. "array" \notin DOMAIN a
        BY <1>1, <2>1 DEF Texts
      <3> QED
        BY <1>4, <2>1, <3>1, <3>2, Zenon
    <2>2. ASSUME NEW n \in {"Select", "Insert"}
          PROVE  "array" \notin DOMAIN EncodeAt(6, Server, n, a)
      <3>1. Server[n].kind = "struct"
        BY SameKinds, StructKinds, StructMembers
      <3> QED
        BY <1>0, <3>1, EncodedNoArray
    <2> QED
      BY <1>1, <1>4, <2>1, <2>2
  <1>6. /\ w.variant = q.variant
        /\ w.args[1] \in DecodeAt(6, Client, t, EncodeAt(6, Server, t, a))
    <2>1. /\ w = [variant |-> q.variant, args |-> w.args]
          /\ Over(w.args, DOMAIN q.args)
          /\ \A i \in DOMAIN q.args :
               w.args[i] \in DecodeAt(6, Client, ArgsOf("QueryResult", q.variant)[i],
                       EncodeAt(6, Server, ArgsOf("QueryResult", q.variant)[i], q.args[i]))
      <3>1. q.args # <<>> =>
              "array" \notin DOMAIN
                EncodeAt(6, Server, ArgsOf("QueryResult", q.variant)[1], q.args[1])
        BY <1>5
      <3> QED
        BY <1>0, <1>2, <1>3, <3>1, EnumRead, Zenon
    <2>2. 1 \in DOMAIN q.args
      BY <1>1 DEF Over
    <2> QED
      BY <2>1, <2>2
  <1> HIDE DEF a, t
  <1>7. CASE q.variant = "MessageOnly"
    <2>1. w.args[1] = a
      BY <1>3, <1>4, <1>6, <1>7, ScalarKinds, ScalarMembers, ScalarRead
    <2> QED
      BY <1>6, <1>7, <2>1 DEF IntoOutcome, a
  <1>8. CASE q.variant = "Insert"
    <2>1. w.args[1].inserted = a.inserted /\ w.args[1].table_name = a.table_name
      BY <1>1, <1>4, <1>6, <1>8, InsertRead
    <2> QED
      BY <1>6, <1>8, <2>1 DEF IntoOutcome, a
  <1>9. CASE q.variant = "Select"
    <2> DEFINE b == w.args[1]
    <2>1. /\ b.schema = a.schema
          /\ [i \in DOMAIN b.result |-> b.result[i].field_vals] =
               [i \in DOMAIN a.result |-> a.result[i].field_vals]
          /\ b.paging_info = a.paging_info \/ (PagingLost /\ b.paging_info = None)
      BY <1>1, <1>4, <1>6, <1>9, SelectRead, Zenon
    <2>2. IntoOutcome(w) =
            [schema |-> b.schema, paging_info |-> b.paging_info,
             rows |-> [i \in DOMAIN b.result |-> b.result[i].field_vals]]
      BY <1>6, <1>9 DEF IntoOutcome
    <2> HIDE DEF b
    <2>3. IntoOutcome(w) =
            [schema |-> a.schema, paging_info |-> b.paging_info,
             rows |-> [i \in DOMAIN a.result |-> a.result[i].field_vals]]
      BY <2>1, <2>2, Zenon
    <2>4. \E paging \in {a.paging_info, None} :
            /\ paging # a.paging_info => PagingLost
            /\ IntoOutcome(w) =
                 [schema |-> a.schema, paging_info |-> paging,
                  rows |-> [i \in DOMAIN a.result |-> a.result[i].field_vals]]
      <3>1. b.paging_info \in {a.paging_info, None}
        BY <2>1, Zenon
      <3>2. b.paging_info # a.paging_info => PagingLost
        BY <2>1, Zenon
      <3> QED
        BY <2>3, <3>1, <3>2, Zenon
    <2> QED
      BY <1>9, <2>4, Zenon DEF a
  <1> QED
    BY <1>1, <1>7, <1>8, <1>9, Zenon DEF a

LEMMA ResponseVariants ==
  /\ Client["Response"].variants = Response.variants
  /\ \A u \in {"Ok", "QuietOk", "QuietErr", "SystemMsg", "SystemErr", "QueryExecutionError",
               "QueryResult", "Shutdown"} : u \in DOMAIN Response.variants
  /\ \A u \in {"Ok", "QuietOk", "QuietErr"} : ArgsOf("Response", u) = <<>>
  /\ \A u \in {"SystemMsg", "SystemErr", "QueryExecutionError"} :
       ArgsOf("Response", u) = <<"String">>
  /\ ArgsOf("Response", "QueryResult") = <<"QueryResult">>
  /\ ArgsOf("Response", "Shutdown") = <<"bool">>
  BY DEF ArgsOf, Client, Response, Enum

LEMMA ResponseShaped ==
  ASSUME NEW r \in Responses
  PROVE  /\ Shaped("Response", r)
         /\ r.variant = "QueryResult" =>
              r.args[1] \in QueryResults /\ 1 \in DOMAIN r.args
         /\ r.variant # "QueryResult" /\ 1 \in DOMAIN r.args =>
              /\ ArgsOf("Response", r.variant)[1] \in ScalarNames
              /\ "array" \notin DOMAIN r.args[1]
         /\ \A i \in DOMAIN r.args : i = 1
         /\ r.args # <<>> => 1 \in DOMAIN r.args
  <1>1. CASE r \in Bare({"Ok", "QuietOk", "QuietErr"})
    <2>1. /\ r = [variant |-> r.variant, args |-> r.args] /\ r.args = <<>>
          /\ r.variant \in {"Ok", "QuietOk", "QuietErr"}
      BY <1>1 DEF Bare
    <2>2. /\ r.variant \in DOMAIN Client["Response"].variants
          /\ ArgsOf("Response", r.variant) = <<>> /\ r.variant # "QueryResult"
      BY <2>1, ResponseVariants
    <2>3. /\ \A i \in DOMAIN r.args : FALSE
          /\ Over(r.args, DOMAIN ArgsOf("Response", r.variant))
      BY <2>1, <2>2 DEF Over
    <2> QED
      BY <2>1, <2>2, <2>3, Zenon DEF Shaped
  <1>2. CASE r \in With({"SystemMsg", "SystemErr", "QueryExecutionError"}, Texts)
    BY <1>2, ResponseVariants, ScalarMembers DEF With, Shaped, Texts, Over
  <1>3. CASE r \in With({"QueryResult"}, QueryResults)
    <2> HIDE DEF QueryResults
    <2> QED
      BY <1>3, ResponseVariants DEF With, Shaped, Over
  <1>4. CASE r \in With({"Shutdown"}, Truths)
    BY <1>4, ResponseVariants, ScalarMembers DEF With, Shaped, Truths, Over
  <1> QED
    BY <1>1, <1>2, <1>3, <1>4 DEF Responses

\* A response is read as the variant it is.
LEMMA ResponseRead ==
  ASSUME drift \in Edits, NEW r \in Responses,
         NEW w \in Decode(Client, "Response", Encode(Server, "Response", r))
  PROVE  /\ w.variant = r.variant
         /\ r.variant # "QueryResult" => w = r
         /\ r.variant = "QueryResult" =>
              w.args[1] \in
                DecodeAt(7, Client, "QueryResult", EncodeAt(7, Server, "QueryResult", r.args[1]))
  <1>0. Layer(8, 7) /\ Layer(7, 6)
    BY Layers
  <1> DEFINE c == ArgsOf("Response", r.variant)
  <1>1. Peers(Server, Client) /\ "Response" \in EnumNames
    BY DEF Peers, EnumNames
  <1>2. ASSUME r.variant # "QueryResult", 1 \in DOMAIN r.args
        PROVE  /\ EncodeAt(7, Server, c[1], r.args[1]) = r.args[1]
               /\ DecodeAt(7, Client, c[1], r.args[1]) \subseteq {r.args[1]}
    <2>1. c[1] \in ScalarNames
      BY <1>2, ResponseShaped, Zenon
    <2> HIDE DEF c
    <2> QED
      BY <1>1, <2>1, ScalarKinds, ScalarRead
  <1>3. r.args # <<>> => "array" \notin DOMAIN EncodeAt(7, Server, c[1], r.args[1])
    <2>1. CASE r.variant = "QueryResult"
      <3>1. Server["QueryResult"].kind = "enum"
        BY SameKinds, EnumKinds DEF EnumNames
      <3>2. "array" \notin DOMAIN EncodeAt(7, Server, "QueryResult", r.args[1])
        BY <1>0, <3>1, EncodedNoArray
      <3>3. c[1] = "QueryResult"
        BY <2>1, ResponseVariants
      <3> QED
        BY <3>2, <3>3, Zenon
    <2>2. CASE r.variant # "QueryResult" /\ r.args # <<>>
      <3>1. 1 \in DOMAIN r.args /\ "array" \notin DOMAIN r.args[1]
        BY <2>2, ResponseShaped, Zenon
      <3> QED
        BY <1>2, <2>2, <3>1, Zenon
    <2> QED
      BY <2>1, <2>2, Zenon
  <1>4. /\ w = [variant |-> r.variant, args |-> w.args]
        /\ Over(w.args, DOMAIN r.args)
        /\ \A i \in DOMAIN r.args :
             w.args[i] \in DecodeAt(7, Client, c[i], EncodeAt(7, Server, c[i], r.args[i]))
    <2>1. Shaped("Response", r)
      BY ResponseShaped, Zenon
    <2>2. w \in DecodeAt(8, Client, "Response", EncodeAt(8, Server, "Response", r))
      BY Whole, Zenon
    <2> HIDE DEF c
    <2>3. r.args # <<>> => "array" \notin DOMAIN
            EncodeAt(7, Server, ArgsOf("Response", r.variant)[1], r.args[1])
      BY <1>3 DEF c
    <2> QED
      BY <1>0, <1>1, <2>1, <2>2, <2>3, EnumRead DEF c
  <1>5. w.variant = r.variant
    BY <1>4
  <1>6. CASE r.variant = "QueryResult"
    <2>1. 1 \in DOMAIN r.args /\ c[1] = "QueryResult"
      BY <1>6, ResponseShaped, ResponseVariants
    <2> HIDE DEF c
    <2>2. w.args[1] \in
            DecodeAt(7, Client, "QueryResult", EncodeAt(7, Server, "QueryResult", r.args[1]))
      BY <1>4, <2>1
    <2> QED
      BY <1>5, <1>6, <2>2
  <1>7. CASE r.variant # "QueryResult"
    <2>1. \A i \in DOMAIN r.args : i = 1 /\ w.args[i] = r.args[i]
      BY <1>2, <1>4, <1>7, ResponseShaped, Zenon
    <2>2. r = [variant |-> r.variant, args |-> r.args] /\ Over(r.args, DOMAIN r.args)
      BY ResponseShaped DEF Shaped, Over
    <2>3. w.args = r.args
      BY <1>4, <2>1, <2>2 DEF Over
    <2> QED
      BY <1>4, <1>5, <1>7, <2>2, <2>3, Zenon
  <1> QED
    BY <1>6, <1>7, Zenon

-----------------------------------------------------------------------------
(* What the server can read the client can, if no field is renamed, lost or wider. *)

\* Whatever can be read of each part can be read of all of them.
LEMMA AllStill ==
  ASSUME NEW p, NEW q, All(p) # {},
         \A k \in DOMAIN q : k \in DOMAIN p /\ (p[k] # {} => q[k] # {})
  PROVE  All(q) # {}
  BY EachReadable, AllReadable

LEMMA RecordsExist ==
  ASSUME NEW x, NEW S
  PROVE  [variant : {x}, args : S] # {} <=> S # {}
  <1>1. ASSUME NEW s \in S
        PROVE  [variant |-> x, args |-> s] \in [variant : {x}, args : S]
    OBVIOUS
  <1>2. ASSUME NEW r \in [variant : {x}, args : S]
        PROVE  r.args \in S
    OBVIOUS
  <1> QED
    BY <1>1, <1>2, Zenon

\* A variant is opened with as many items as it has arguments.
LEMMA OpenedItems ==
  ASSUME NEW variants, NEW X, \A u \in DOMAIN variants : variants[u].args \in Seq(X),
         NEW data, NEW o \in Opened(variants, data)
  PROVE  o.variant \in DOMAIN variants /\ DOMAIN o.items = DOMAIN variants[o.variant].args
  <1> DEFINE n == Len(variants[o.variant].args)
  <1>1. o.variant \in DOMAIN variants /\ o.items \in Carried(data, n)
    <2>1. PICK w \in DOMAIN variants :
            o \in [variant : {w}, items : Carried(data, Len(variants[w].args))]
      BY Zenon DEF Opened
    <2>2. o.variant = w /\ o.items \in Carried(data, Len(variants[w].args))
      BY <2>1
    <2> QED
      BY <2>2, Zenon
  <1>2. DOMAIN o.items = 1 .. n
    <2> HIDE DEF n
    <2>1. CASE n = 0 /\ o.items = <<>>
      BY <2>1
    <2>2. CASE n = 1 /\ o.items = <<data.map[1][2]>>
      BY <2>2
    <2>3. \/ n = 0 /\ o.items = <<>>
          \/ n = 1 /\ o.items = <<data.map[1][2]>>
          \/ DOMAIN o.items = 1 .. n
      BY <1>1 DEF Carried
    <2> QED
      BY <2>1, <2>2, <2>3
  <1>3. variants[o.variant].args \in Seq(X)
    BY <1>1
  <1> QED
    BY <1>1, <1>2, <1>3

\* Every type that a declaration mentions is declared.
LEMMA OfTypes ==
  ASSUME NEW n \in DOMAIN Client, Client[n].kind \in {"vec", "option"}
  PROVE  Client[n].of \in DOMAIN Client
  <1>1. n \in OtherNames
    BY Names, StructKinds, EnumKinds
  <1> QED
    BY <1>1 DEF OtherNames, Client, Integer, Vec, Option, Schema, Attributes

LEMMA ArgTypesNamed == \A t \in ArgTypes : t \in DOMAIN Client
  BY DEF ArgTypes, Client

LEMMA FieldTypesNamed == \A t \in FieldTypes : t \in DOMAIN Client
  BY DEF FieldTypes, Client

\* The one field that is never written.
LEMMA Unsent ==
  ASSUME NEW n \in StructNames
  PROVE  \/ Client[n].unsent = {}
         \/ n = "Tuple" /\ Client[n].unsent = {OptionField("value_id", "OptionValueId")}
  <1>1. CASE n = "CommandWithArgs"
    BY <1>1 DEF Client, CommandWithArgs, Struct
  <1>2. CASE n = "Attribute"
    BY <1>2 DEF Client, Attribute, Struct
  <1>3. CASE n = "ValueId"
    BY <1>3 DEF Client, ValueId, Struct
  <1>4. CASE n = "Tuple"
    BY <1>4 DEF Client, Tuple, Struct
  <1>5. CASE n = "PagingInfo"
    BY <1>5 DEF Client, PagingInfo, Struct
  <1>6. CASE n = "Select"
    BY <1>6 DEF Client, Select, Struct
  <1>7. CASE n = "Insert"
    BY <1>7 DEF Client, Insert, Struct
  <1> QED
    BY <1>1, <1>2, <1>3, <1>4, <1>5, <1>6, <1>7 DEF StructNames

LEMMA ClientDeclared ==
  ASSUME NEW n \in StructNames, NEW f \in Declared(Client[n])
  PROVE  /\ f.type \in DOMAIN Client /\ f.of # "added"
         /\ \A g \in Declared(Client[n]) : g.of = f.of => g = f
  <1>1. CASE \E j \in DOMAIN Client[n].fields : f = Client[n].fields[j]
    <2>1. PICK j \in DOMAIN Client[n].fields : f = Client[n].fields[j]
      BY <1>1
    <2>2. f \in Fields
      BY <2>1, ClientFields
    <2>3. f.type \in DOMAIN Client /\ f.of # "added"
      BY <2>2, FieldTypesNamed DEF Fields, FieldNames
    <2> QED
      BY <2>1, <2>3, ClientNames
  <1>2. CASE f \in Client[n].unsent
    <2>1. f = OptionField("value_id", "OptionValueId") /\ n = "Tuple"
      BY <1>2, Unsent
    <2>2. f.type = "OptionValueId" /\ f.of = "value_id"
      BY <2>1 DEF OptionField, Field
    <2>3. ASSUME NEW g \in Declared(Client[n]), g.of = f.of
          PROVE  g = f
      <3>1. CASE g \in Client[n].unsent
        BY <1>2, <3>1, Unsent
      <3>2. CASE \E j \in DOMAIN Client[n].fields : g = Client[n].fields[j]
        <4>1. g \in Fields
          BY <3>2, ClientFields
        <4> QED
          BY <4>1, <2>2, <2>3 DEF Fields, FieldNames
      <3> QED
        BY <2>3, <3>1, <3>2 DEF Declared, ToSet
    <2>4. "OptionValueId" \in DOMAIN Client
      BY DEF Client
    <2> QED
      BY <2>2, <2>3, <2>4
  <1> QED
    BY <1>1, <1>2 DEF Declared, ToSet

\* A field more, or the same ones in another order, leaves the client its fields.
LEMMA SameFieldOf ==
  ASSUME drift \in Edits, drift.edit \in {"none", "add", "reverse"}, NEW n \in StructNames,
         NEW m \in Members(Client[n])
  PROVE  /\ m \in Members(Server[n])
         /\ FieldOf(Server[n], m) = FieldOf(Client[n], m)
         /\ FieldOf(Client[n], m).type \in DOMAIN Client
  <1>1. PICK f \in Declared(Client[n]) : f.of = m
    BY DEF Members
  <1>2. FieldOf(Client[n], m) = f /\ f.type \in DOMAIN Client /\ f.of # "added"
    BY <1>1, ClientDeclared DEF FieldOf
  <1>3. /\ Declared(Client[n]) \subseteq Declared(Server[n])
        /\ \A g \in Declared(Server[n]) : g \in Declared(Client[n]) \/ g.of = "added"
    <2>1. CASE drift.edit # "none" => n # drift.type
      BY <2>1, OtherTypes, StructKinds
    <2>2. CASE drift.edit # "none" /\ n = drift.type
      <3>1. /\ Server[n].fields = EditedFields(Client[n].fields, drift)
            /\ Server[n].unsent = Client[n].unsent
        BY <2>2, EditedStruct
      <3>2. ToSet(Client[n].fields) \subseteq ToSet(Server[n].fields)
        BY <2>2, FieldKept DEF ToSet
      <3>3. \A g \in ToSet(Server[n].fields) : g \in ToSet(Client[n].fields) \/ g.of = "added"
        <4>0. Client[n].fields \in Seq(Fields)
          BY ClientFields
        <4>1. CASE drift.edit = "add"
          BY <4>0, <4>1, <3>1 DEF EditedFields, ToSet, Field
        <4>2. CASE drift.edit = "reverse"
          BY <4>0, <4>2, <3>1 DEF EditedFields, Reverse, ToSet
        <4> QED
          BY <2>2, <4>1, <4>2
      <3> QED
        BY <3>1, <3>2, <3>3 DEF Declared
    <2> QED
      BY <2>1, <2>2
  <1>4. \A g \in Declared(Server[n]) : g.of = m => g = f
    BY <1>1, <1>2, <1>3, ClientDeclared
  <1>5. FieldOf(Server[n], m) = f
    BY <1>1, <1>3, <1>4 DEF FieldOf
  <1> QED
    BY <1>1, <1>2, <1>3, <1>5 DEF Members

LEMMA EnumArgs ==
  ASSUME NEW n \in DOMAIN Client, Client[n].kind = "enum", NEW data,
         NEW o \in Opened(Client[n].variants, data), NEW i \in DOMAIN o.items
  PROVE  Client[n].variants[o.variant].args[i] \in DOMAIN Client
  <1>1. n \in EnumNames
    BY Names, StructKinds, OtherKinds
  <1>2. \A u \in DOMAIN Client[n].variants : Client[n].variants[u].args \in Seq(ArgTypes)
    BY <1>1, ClientArgs DEF ArgsOf
  <1>3. /\ o.variant \in DOMAIN Client[n].variants
        /\ DOMAIN o.items = DOMAIN Client[n].variants[o.variant].args
    BY <1>2, OpenedItems
  <1> QED
    BY <1>2, <1>3, ArgTypesNamed

LEMMA NotStruct ==
  ASSUME NEW n \in DOMAIN Client, n \notin StructNames
  PROVE  Client[n].kind # "struct"
  BY Names, EnumKinds, OtherKinds

\* What the server can read the client can, of up to d layers.
StillReads(d) ==
  \A t \in DOMAIN Client :
    \A x : DecodeAt(d, Server, t, x) # {} => DecodeAt(d, Client, t, x) # {}

LEMMA StillReadDeeper ==
  ASSUME drift \in Edits, drift.edit \in {"none", "add", "reverse"}, NEW d, NEW b, Deeper(d, b),
         StillReads(b)
  PROVE  StillReads(d)
  <1> SUFFICES ASSUME NEW n \in DOMAIN Client, NEW data, DecodeAt(d, Server, n, data) # {}
               PROVE  DecodeAt(d, Client, n, data) # {}
    BY DEF StillReads
  <1>0. /\ DecodeAt(d, Server, n, data) = DecodeNext(b, Server, n, data)
        /\ DecodeAt(d, Client, n, data) = DecodeNext(b, Client, n, data)
    BY DecodeDeeper
  <1>1. ASSUME NEW t \in DOMAIN Client, NEW x, DecodeAt(b, Server, t, x) # {}
        PROVE  DecodeAt(b, Client, t, x) # {}
    BY <1>1, Zenon DEF StillReads
  <1>2. CASE n \in StructNames
    <2> DEFINE part(T, m) ==
                 IF Found(data, FieldOf(T[n], m).name) = {} THEN FieldOf(T[n], m).missing
                 ELSE UNION {DecodeAt(b, T, FieldOf(T[n], m).type, x) :
                             x \in Found(data, FieldOf(T[n], m).name)}
               ms(T) == Members(T[n])
               parts(T) == [m \in ms(T) |-> part(T, m)]
    <2>1. Server[n].kind = "struct" /\ Client[n].kind = "struct"
      BY <1>2, SameKinds, StructKinds
    <2>2. "map" \in DOMAIN data /\ All(parts(Server)) # {}
      BY <1>0, <2>1, Zenon DEF DecodeNext, DecodeBy, Members
    <2>3. DecodeAt(d, Client, n, data) = All(parts(Client))
      BY <1>0, <2>1, <2>2, Zenon DEF DecodeNext, DecodeBy, Members
    <2>4. ASSUME NEW m \in ms(Client)
          PROVE  /\ m \in ms(Server)
                 /\ part(Server, m) # {} => part(Client, m) # {}
      <3>1. /\ m \in ms(Server) /\ FieldOf(Server[n], m) = FieldOf(Client[n], m)
            /\ FieldOf(Client[n], m).type \in DOMAIN Client
        BY <1>2, <2>4, SameFieldOf, Zenon
      <3> DEFINE g == FieldOf(Server[n], m)
                 f == FieldOf(Client[n], m)
      <3>2. ASSUME part(Server, m) # {}
            PROVE  \/ Found(data, g.name) = {} /\ g.missing # {}
                   \/ \E x \in Found(data, g.name) : DecodeAt(b, Server, g.type, x) # {}
        BY <3>2, Zenon
      <3>3. ASSUME \/ Found(data, f.name) = {} /\ f.missing # {}
                   \/ \E x \in Found(data, f.name) : DecodeAt(b, Client, f.type, x) # {}
            PROVE  part(Client, m) # {}
        BY <3>3, Zenon
      <3> HIDE DEF f, g, part
      <3>4. g = f /\ f.type \in DOMAIN Client
        BY <3>1 DEF f, g
      <3> QED
        BY <1>1, <3>1, <3>2, <3>3, <3>4, Zenon
    <2>5. /\ DOMAIN parts(Server) = ms(Server) /\ DOMAIN parts(Client) = ms(Client)
          /\ \A m \in ms(Client) : parts(Client)[m] = part(Client, m)
          /\ \A m \in ms(Server) : parts(Server)[m] = part(Server, m)
      BY Zenon
    <2> HIDE DEF ms, part, parts
    <2>6. All(parts(Client)) # {}
      BY <2>2, <2>4, <2>5, AllStill, Zenon
    <2> QED
      BY <2>3, <2>6, Zenon
  <1>3. CASE n \notin StructNames
    <2> DEFINE T == Client[n]
    <2>1. Server[n] = T
      BY <1>3, EditOf, OtherTypes
    <2>2. CASE T.kind = "vec"
      <3> DEFINE parts(U) == [i \in DOMAIN data.array |-> DecodeAt(b, U, T.of, data.array[i])]
      <3>1. "array" \in DOMAIN data /\ All(parts(Server)) # {}
        BY <1>0, <2>1, <2>2, Zenon DEF DecodeNext, DecodeBy
      <3>2. DecodeAt(d, Client, n, data) = All(parts(Client))
        BY <1>0, <2>2, <3>1, Zenon DEF DecodeNext, DecodeBy
      <3>3. \A i \in DOMAIN parts(Client) :
              i \in DOMAIN parts(Server) /\ (parts(Server)[i] # {} => parts(Client)[i] # {})
        <4>1. T.of \in DOMAIN Client
          BY <2>2, OfTypes, Zenon
        <4> QED
          BY <1>1, <4>1, Zenon
      <3> HIDE DEF parts
      <3> QED
        BY <3>1, <3>2, <3>3, AllStill, Zenon
    <2>3. CASE T.kind = "option"
      <3>1. T.of \in DOMAIN Client
        BY <2>3, OfTypes, Zenon
      <3>2. data = Null \/ DecodeAt(b, Server, T.of, data) # {}
        BY <1>0, <2>1, <2>3, Zenon DEF DecodeNext, DecodeBy
      <3>3. data = Null \/ DecodeAt(b, Client, T.of, data) # {}
        BY <1>1, <3>1, <3>2, Zenon
      <3>4. DecodeAt(d, Client, n, data) =
              IF data = Null THEN {None} ELSE {[some |-> v] : v \in
                DecodeAt(b, Client, T.of, data)}
        BY <1>0, <2>3, Zenon DEF DecodeNext, DecodeBy
      <3> HIDE DEF T
      <3> QED
        BY <3>3, <3>4, Zenon
    <2>4. CASE T.kind = "enum"
      <3> DEFINE parts(U, o) ==
                   [i \in DOMAIN o.items |->
                     DecodeAt(b, U, U[n].variants[o.variant].args[i], o.items[i])]
                 read(U, o) == [variant : {o.variant}, args : All(parts(U, o))]
      <3>1. /\ DecodeAt(d, Server, n, data) =
                 UNION {read(Server, o) : o \in Opened(Server[n].variants, data)}
            /\ DecodeAt(d, Client, n, data) =
                 UNION {read(Client, o) : o \in Opened(Client[n].variants, data)}
        BY <1>0, <2>1, <2>4, Zenon DEF DecodeNext, DecodeBy
      <3>2. PICK o \in Opened(T.variants, data) : read(Server, o) # {}
        <4> HIDE DEF read
        <4> QED
          BY <2>1, <3>1
      <3>3. All(parts(Server, o)) # {}
        BY <3>2, RecordsExist, Zenon
      <3>4. ASSUME NEW i \in DOMAIN o.items
            PROVE  T.variants[o.variant].args[i] \in DOMAIN Client
        BY <2>4, <3>4, EnumArgs, Zenon
      <3>5. \A i \in DOMAIN parts(Client, o) :
              i \in DOMAIN parts(Server, o)
              /\ (parts(Server, o)[i] # {} => parts(Client, o)[i] # {})
        BY <1>1, <2>1, <3>4
      <3> HIDE DEF parts
      <3>6. All(parts(Client, o)) # {}
        BY <3>3, <3>5, AllStill, Zenon
      <3>7. read(Client, o) # {}
        BY <3>6, RecordsExist, Zenon
      <3> HIDE DEF read
      <3> QED
        BY <3>1, <3>7
    <2>5. CASE T.kind \notin {"vec", "option", "struct", "enum"}
      <3>1. DecodeAt(d, Server, n, data) = DecodeAt(d, Client, n, data)
        BY <1>0, <2>1, <2>5 DEF DecodeNext, DecodeBy
      <3> QED
        BY <3>1, Zenon
    <2> QED
      BY <1>3, <2>2, <2>3, <2>4, <2>5, NotStruct, Zenon
  <1> QED
    BY <1>2, <1>3, Zenon

\* Through all the layers.
LEMMA StillRead ==
  ASSUME drift \in Edits, drift.edit \in {"none", "add", "reverse"}, NEW n \in DOMAIN Client,
         NEW data, Decode(Server, n, data) # {}
  PROVE  Decode(Client, n, data) # {}
  <1>0. StillReads(0)
    BY DEF StillReads, DecodeAt, Nothing
  <1>1. StillReads(1)
    BY <1>0, StillReadDeeper DEF Deeper
  <1>2. StillReads(2)
    BY <1>1, Layers, Below, StillReadDeeper
  <1>3. StillReads(3)
    BY <1>2, Layers, Below, StillReadDeeper
  <1>4. StillReads(4)
    BY <1>3, Layers, Below, StillReadDeeper
  <1>5. StillReads(5)
    BY <1>4, Layers, Below, StillReadDeeper
  <1>6. StillReads(6)
    BY <1>5, Layers, Below, StillReadDeeper
  <1>7. StillReads(7)
    BY <1>6, Layers, Below, StillReadDeeper
  <1>8. StillReads(8)
    BY <1>7, Layers, Below, StillReadDeeper
  <1> QED
    BY <1>8, Whole DEF StillReads

-----------------------------------------------------------------------------
(* Requests. *)

\* A request is a command without arguments of its own, and texts.
LEMMA RequestShape ==
  ASSUME NEW c \in Requests
  PROVE  /\ c = [command |-> c.command, args |-> c.args]
         /\ c.args \in Seq({TextOf(n) : n \in ArgumentSizes})
         /\ \/ \E u \in DOMAIN SystemCommand.variants :
                 c.command = [variant |-> "System", args |-> <<[variant |-> u, args |-> <<>>]>>]
            \/ \E u \in DOMAIN DBCommand.variants :
                 c.command = [variant |-> "DB", args |-> <<[variant |-> u, args |-> <<>>]>>]
  <1> DEFINE argument == {TextOf(n) : n \in ArgumentSizes}
  <1>1. /\ {"ShowDatabases", "Help", "Reset", "Shutdown", "CloseConnection", "Create", "Connect"}
             \subseteq DOMAIN SystemCommand.variants
        /\ {"ShowTables", "Commit", "ExecuteSQL", "Import"} \subseteq DOMAIN DBCommand.variants
    BY DEF SystemCommand, DBCommand, Enum, Units
  <1>2. CASE \E u \in DOMAIN SystemCommand.variants, args \in Seq(argument) : c = System(u, args)
    BY <1>2 DEF System
  <1>3. CASE \E u \in DOMAIN DBCommand.variants, args \in Seq(argument) : c = DB(u, args)
    BY <1>3 DEF DB
  <1>4. <<>> \in Seq(argument) /\ (\A a \in argument : <<a>> \in Seq(argument))
        /\ (\A a, b \in argument : <<a, b>> \in Seq(argument))
    <2> HIDE DEF argument
    <2> QED
      OBVIOUS
  <1>5. \/ \E u \in {"ShowDatabases", "Help", "Reset", "Shutdown", "CloseConnection"} :
             c = System(u, <<>>)
        \/ \E u \in {"Create", "Connect"}, a \in argument : c = System(u, <<a>>)
        \/ \E u \in {"ShowTables", "Commit"} : c = DB(u, <<>>)
        \/ \E a \in argument : c = DB("ExecuteSQL", <<a>>)
        \/ \E a, b \in argument : c = DB("Import", <<a, b>>)
    <2> DEFINE A == {System(name, <<>>) : name \in {"ShowDatabases", "Help", "Reset", "Shutdown",
                                                    "CloseConnection"}}
               B == {System(name, <<a>>) : name \in {"Create", "Connect"}, a \in argument}
               C == {DB(name, <<>>) : name \in {"ShowTables", "Commit"}}
               D == {DB("ExecuteSQL", <<a>>) : a \in argument}
               E == {DB("Import", <<a, b>>) : a, b \in argument}
    <2>1. Requests = A \cup B \cup C \cup D \cup E
      BY DEF Requests
    <2>2. c \in A => \E u \in {"ShowDatabases", "Help", "Reset", "Shutdown", "CloseConnection"} :
                       c = System(u, <<>>)
      BY Zenon
    <2>3. c \in B => \E u \in {"Create", "Connect"}, a \in argument : c = System(u, <<a>>)
      <3> HIDE DEF argument
      <3> QED OBVIOUS
    <2>4. c \in C => \E u \in {"ShowTables", "Commit"} : c = DB(u, <<>>)
      BY Zenon
    <2>5. c \in D => \E a \in argument : c = DB("ExecuteSQL", <<a>>)
      BY Zenon
    <2>6. c \in E => \E a, b \in argument : c = DB("Import", <<a, b>>)
      <3> HIDE DEF argument
      <3> QED OBVIOUS
    <2> HIDE DEF A, B, C, D, E
    <2>7. c \in A \/ c \in B \/ c \in C \/ c \in D \/ c \in E
      BY <2>1
    <2> QED
      BY <2>2, <2>3, <2>4, <2>5, <2>6, <2>7, Zenon
  <1> HIDE DEF argument
  <1>6. \/ \E u \in DOMAIN SystemCommand.variants, args \in Seq(argument) : c = System(u, args)
        \/ \E u \in DOMAIN DBCommand.variants, args \in Seq(argument) : c = DB(u, args)
    <2>1. CASE \E u \in {"ShowDatabases", "Help", "Reset", "Shutdown", "CloseConnection"} :
                 c = System(u, <<>>)
      BY <1>1, <1>4, <2>1
    <2>2. CASE \E u \in {"Create", "Connect"}, a \in argument : c = System(u, <<a>>)
      BY <1>1, <1>4, <2>2
    <2>3. CASE \E u \in {"ShowTables", "Commit"} : c = DB(u, <<>>)
      BY <1>1, <1>4, <2>3
    <2>4. CASE \E a \in argument : c = DB("ExecuteSQL", <<a>>)
      BY <1>1, <1>4, <2>4
    <2>5. CASE \E a, b \in argument : c = DB("Import", <<a, b>>)
      BY <1>1, <1>4, <2>5
    <2> QED
      BY <1>5, <2>1, <2>2, <2>3, <2>4, <2>5, Zenon
  <1> QED
    BY <1>2, <1>3, <1>6 DEF argument

\* The commands of the two kinds are read as themselves or not at all.
LEMMA CommandSame ==
  ASSUME drift \in Edits, NEW c \in Requests,
         NEW w \in DecodeAt(7, Server, "Command", EncodeAt(7, Client, "Command", c.command))
  PROVE  w = c.command
  <1>0. Layer(7, 6) /\ Layer(6, 5)
    BY Layers
  <1> DEFINE v == c.command
             t == ArgsOf("Command", v.variant)
  <1>1. PICK u, V, n :
          /\ v = [variant |-> V, args |-> <<[variant |-> u, args |-> <<>>]>>]
          /\ \/ V = "System" /\ n = "SystemCommand" /\ u \in DOMAIN SystemCommand.variants
             \/ V = "DB" /\ n = "DBCommand" /\ u \in DOMAIN DBCommand.variants
    BY RequestShape
  <1> DEFINE x == [variant |-> u, args |-> <<>>]
  <1>2. Plain(n, x) /\ n \in EnumNames /\ "Command" \in EnumNames
    BY <1>1, PlainSystem, PlainDB DEF EnumNames
  <1>3. t = <<n>> /\ V \in DOMAIN Client["Command"].variants
    BY <1>1 DEF ArgsOf, Client, Command, Enum
  <1>4. Peers(Client, Server)
    BY DEF Peers
  <1>5. v.args = <<x>> /\ v.variant = V
    BY <1>1
  <1>6. Shaped("Command", v)
    BY <1>1, <1>3 DEF Shaped, Over
  <1>7. "array" \notin DOMAIN EncodeAt(6, Client, n, x)
    BY <1>0, <1>2, EnumKinds, EncodedNoArray
  <1>8. v.args # <<>> => "array" \notin DOMAIN EncodeAt(6, Client, t[1], v.args[1])
    <2>1. t[1] = n /\ v.args[1] = x
      BY <1>3, <1>5
    <2> QED
      BY <1>7, <2>1, Zenon
  <1>9. /\ w = [variant |-> v.variant, args |-> w.args]
        /\ Over(w.args, DOMAIN v.args)
        /\ \A i \in DOMAIN v.args :
             w.args[i] \in DecodeAt(6, Server, t[i], EncodeAt(6, Client, t[i], v.args[i]))
    BY <1>0, <1>2, <1>4, <1>6, <1>8, EnumRead, Zenon
  <1>10. w.args[1] \in DecodeAt(6, Server, n, EncodeAt(6, Client, n, x))
    <2>1. t[1] = n /\ v.args[1] = x /\ 1 \in DOMAIN v.args
      BY <1>3, <1>5
    <2> QED
      BY <1>9, <2>1, Zenon
  <1>11. w.args[1] = x
    BY <1>0, <1>2, <1>4, <1>10, EnumSame, Zenon
  <1> HIDE DEF x, t
  <1>12. w.args = <<x>>
    <2> HIDE DEF v
    <2> QED
      BY <1>5, <1>9, <1>11 DEF Over
  <1> QED
    BY <1>5, <1>9, <1>12, <1>1

LEMMA SeqIsFunction ==
  ASSUME NEW X, NEW s \in Seq(X)
  PROVE  Over(s, DOMAIN s)
  BY DEF Over

LEMMA StringsSame ==
  ASSUME drift \in Edits, NEW c \in Requests,
         NEW w \in DecodeAt(7, Server, "Strings", EncodeAt(7, Client, "Strings", c.args))
  PROVE  w = c.args
  <1>0. Layer(7, 6)
    BY Layers
  <1>1. Over(c.args, DOMAIN c.args)
    BY RequestShape, SeqIsFunction, Zenon
  <1>2. /\ Over(w, DOMAIN c.args)
        /\ \A i \in DOMAIN c.args :
             w[i] \in DecodeAt(6, Server, "String", EncodeAt(6, Client, "String", c.args[i]))
    BY <1>0, VecTables, VecRead
  <1>3. Peers(Client, Server)
    BY DEF Peers
  <1>4. ASSUME NEW x, NEW y \in DecodeAt(6, Server, "String", EncodeAt(6, Client, "String", x))
        PROVE  y = x
    BY <1>3, <1>4, ScalarKinds, ScalarMembers, ScalarRead
  <1> QED
    BY <1>1, <1>2, <1>4 DEF Over

LEMMA AppendedAll ==
  ASSUME NEW X, NEW s \in Seq(X), NEW x \in X
  PROVE  /\ DOMAIN Append(s, x) = 1 .. Len(s) + 1
         /\ \A i \in 1 .. Len(s) + 1 : Append(s, x)[i] = IF i <= Len(s) THEN s[i] ELSE x
  OBVIOUS

LEMMA Third ==
  ASSUME NEW X, NEW s \in Seq(X), Len(s) = 2, NEW x \in X
  PROVE  /\ DOMAIN Append(s, x) = 1 .. 3 /\ Append(s, x)[1] = s[1]
         /\ Append(s, x)[2] = s[2] /\ Append(s, x)[3] = x
  <1> DEFINE t == Append(s, x)
  <1>1. /\ DOMAIN t = 1 .. Len(s) + 1
        /\ \A i \in 1 .. Len(s) + 1 : t[i] = IF i <= Len(s) THEN s[i] ELSE x
    BY AppendedAll, ZenonT(30)
  <1> HIDE DEF t
  <1>2. DOMAIN t = 1 .. 3 /\ t[1] = s[1] /\ t[2] = s[2] /\ t[3] = x
    BY <1>1
  <1> QED
    BY <1>2 DEF t

\* What is left of a request, unless a part of it has been dropped: its two parts,
\* or a field that the client does not write.
LEMMA RequestFields ==
  ASSUME drift \in Edits, ~ (drift.edit = "drop" /\ drift.type = "CommandWithArgs")
  PROVE  LET S == Server["CommandWithArgs"]
         IN \/ Declared(S) = {Field("command", "Command"), Field("args", "Strings")}
            \/ \E f \in Declared(S) : /\ f.name \in {"renamed", "added"} /\ f.missing = {}
                                      /\ FieldOf(S, f.of) = f
  <1> DEFINE S  == Server["CommandWithArgs"]
             fs == Client["CommandWithArgs"].fields
             c  == Field("command", "Command")
             a  == Field("args", "Strings")
  <1>1. fs = <<c, a>> /\ Client["CommandWithArgs"].unsent = {}
    BY FieldLists DEF Client, CommandWithArgs, Struct
  <1>2. /\ c.name = "command" /\ c.of = "command" /\ c.type = "Command" /\ c.missing = {}
        /\ a.name = "args" /\ a.of = "args" /\ a.type = "Strings" /\ a.missing = {}
        /\ c = [name |-> c.name, of |-> c.of, type |-> c.type, missing |-> c.missing]
        /\ a = [name |-> a.name, of |-> a.of, type |-> a.type, missing |-> a.missing]
    BY DEF Field
  <1>3. CASE drift.edit # "none" => drift.type # "CommandWithArgs"
    <2>1. S = Client["CommandWithArgs"]
      BY <1>3, OtherTypes, StructKinds, StructMembers
    <2> HIDE DEF c, a
    <2> QED
      BY <1>1, <2>1 DEF Declared, ToSet, c, a
  <1>4. CASE drift.edit # "none" /\ drift.type = "CommandWithArgs"
    <2>1. S.fields = EditedFields(fs, drift) /\ S.unsent = {}
      BY <1>1, <1>4, EditedStruct, StructMembers
    <2>2. /\ drift.edit \in {"add", "reverse", "rename", "widen"}
          /\ drift.edit \in {"rename", "widen"} => drift.at \in {"command", "args"}
      BY <1>1, <1>2, <1>4, EditOf, Apart, StructMembers
    <2> DEFINE es == EditedFields(fs, drift)
    <2>3. Declared(S) = {es[i] : i \in DOMAIN es}
      BY <2>1 DEF Declared, ToSet
    <2>4. CASE drift.edit = "add"
      <3> DEFINE f == Field("added", "bool")
      <3>1. DOMAIN es = 1 .. 3 /\ es[1] = c /\ es[2] = a /\ es[3] = f
        <4>1. es = Append(fs, f)
          BY <2>4, Zenon DEF EditedFields
        <4> HIDE DEF c, a, f, es, fs
        <4>2. fs \in Seq({c, a, f}) /\ Len(fs) = 2 /\ fs[1] = c /\ fs[2] = a
          BY <1>1
        <4>3. /\ DOMAIN Append(fs, f) = 1 .. 3 /\ Append(fs, f)[1] = fs[1]
              /\ Append(fs, f)[2] = fs[2] /\ Append(fs, f)[3] = f
          BY <4>2, Third
        <4> QED
          BY <4>1, <4>2, <4>3
      <3>2. f.name = "added" /\ f.of = "added" /\ f.missing = {}
        BY DEF Field
      <3> HIDE DEF c, a, f, es
      <3>3. Declared(S) = {c, a, f}
        BY <2>3, <3>1
      <3>4. f \in Declared(S) /\ \A g \in Declared(S) : g.of = f.of => g = f
        BY <1>2, <3>2, <3>3
      <3>5. FieldOf(S, f.of) = f
        BY <3>4 DEF FieldOf
      <3> QED
        BY <3>2, <3>4, <3>5
    <2>5. CASE drift.edit = "reverse"
      <3>1. DOMAIN es = 1 .. 2 /\ es[1] = a /\ es[2] = c
        BY <1>1, <2>5 DEF EditedFields, Reverse
      <3> HIDE DEF c, a, es
      <3>2. Declared(S) = {c, a}
        BY <2>3, <3>1
      <3> QED
        BY <3>2 DEF c, a
    <2>6. CASE drift.edit = "rename"
      <3> DEFINE r(f) == [f EXCEPT !.name = "renamed"]
      <3>1. /\ DOMAIN es = 1 .. 2
            /\ es[1] = IF drift.at = "command" THEN r(c) ELSE c
            /\ es[2] = IF drift.at = "args" THEN r(a) ELSE a
        BY <1>1, <1>2, <2>6 DEF EditedFields
      <3>2. /\ r(c).name = "renamed" /\ r(c).of = "command" /\ r(c).missing = {}
            /\ r(a).name = "renamed" /\ r(a).of = "args" /\ r(a).missing = {}
        BY DEF Field
      <3> HIDE DEF c, a, r, es
      <3>3. CASE drift.at = "command"
        <4>1. Declared(S) = {r(c), a}
          BY <2>3, <3>1, <3>3
        <4>2. FieldOf(S, r(c).of) = r(c)
          BY <1>2, <3>2, <4>1 DEF FieldOf
        <4> QED
          BY <3>2, <4>1, <4>2
      <3>4. CASE drift.at = "args"
        <4>1. Declared(S) = {c, r(a)}
          BY <2>3, <3>1, <3>4
        <4>2. FieldOf(S, r(a).of) = r(a)
          BY <1>2, <3>2, <4>1 DEF FieldOf
        <4> QED
          BY <3>2, <4>1, <4>2
      <3> QED
        BY <2>2, <2>6, <3>3, <3>4
    <2>7. CASE drift.edit = "widen"
      <3>1. Wider("Command") = "Command" /\ Wider("Strings") = "Strings"
        BY CommonIsClient DEF Wider, Client, Command, Enum, Vec
      <3>2. [c EXCEPT !.type = Wider(@)] = c /\ [a EXCEPT !.type = Wider(@)] = a
        BY <3>1 DEF Field
      <3>3. DOMAIN es = 1 .. 2 /\ es[1] = c /\ es[2] = a
        BY <1>1, <2>7, <3>2 DEF EditedFields
      <3> HIDE DEF c, a, es
      <3>4. Declared(S) = {c, a}
        BY <2>3, <3>3
      <3> QED
        BY <3>4 DEF c, a
    <2> QED
      BY <2>2, <2>4, <2>5, <2>6, <2>7
  <1> QED
    BY <1>3, <1>4

\* The server reads the request of the client or none.
LEMMA RequestSame ==
  ASSUME drift \in Edits, NEW c \in Requests,
         NEW w \in Decode(Server, "CommandWithArgs", Encode(Client, "CommandWithArgs", c)),
         ~ (drift.edit = "drop" /\ drift.type = "CommandWithArgs")
  PROVE  w = c
  <1>0. Layer(8, 7)
    BY Layers
  <1> DEFINE n == "CommandWithArgs"
             S == Server[n]
             fs == Client[n].fields
  <1>1. S.kind = "struct" /\ Client[n].kind = "struct"
    BY StructKinds, SameKinds, StructMembers
  <1>2. /\ DOMAIN fs = 1 .. 2
        /\ fs[1].name = "command" /\ fs[1].of = "command" /\ fs[1].type = "Command"
        /\ fs[2].name = "args" /\ fs[2].of = "args" /\ fs[2].type = "Strings"
    BY FieldLists DEF Field
  <1>3. ASSUME NEW f \in Declared(S), FieldOf(S, f.of) = f
        PROVE  \/ (\A i \in DOMAIN fs : fs[i].name # f.name) /\ w[f.of] \in f.missing
               \/ \E i \in DOMAIN fs :
                    /\ fs[i].name = f.name
                    /\ w[f.of] \in DecodeAt(7, Server, f.type,
                                           EncodeAt(7, Client, fs[i].type, Member(c, fs[i].of)))
    <2>1. w \in DecodeAt(8, Server, n, EncodeAt(8, Client, n, c))
      BY Whole, Zenon
    <2> QED
      BY <1>0, <1>1, <1>3, <2>1, StructRead, ZenonT(30)
  <1> HIDE DEF fs, S
  <1>4. CASE \E f \in Declared(S) : /\ f.name \in {"renamed", "added"} /\ f.missing = {}
                                    /\ FieldOf(S, f.of) = f
    <2>1. PICK f \in Declared(S) : /\ f.name \in {"renamed", "added"} /\ f.missing = {}
                                   /\ FieldOf(S, f.of) = f
      BY <1>4, Zenon
    <2>2. \A i \in DOMAIN fs : fs[i].name # f.name
      BY <1>2, <2>1
    <2> QED
      BY <1>3, <2>1, <2>2, Zenon
  <1>5. CASE Declared(S) = {Field("command", "Command"), Field("args", "Strings")}
    <2> DEFINE f == Field("command", "Command")
               g == Field("args", "Strings")
    <2>1. /\ f.name = "command" /\ f.of = "command" /\ f.type = "Command" /\ f.missing = {}
          /\ g.name = "args" /\ g.of = "args" /\ g.type = "Strings" /\ g.missing = {}
      BY DEF Field
    <2>2. Declared(S) = {f, g}
      BY <1>5
    <2> HIDE DEF f, g
    <2>3. FieldOf(S, f.of) = f /\ FieldOf(S, g.of) = g
      BY <2>1, <2>2 DEF FieldOf
    <2>4. Members(S) = {"command", "args"}
      BY <2>1, <2>2 DEF Members
    <2>5. /\ Member(c, "command") = c.command /\ Member(c, "args") = c.args
          /\ c = [command |-> c.command, args |-> c.args]
      <3>1. c = [command |-> c.command, args |-> c.args]
        BY RequestShape, Zenon
      <3>2. "command" \in DOMAIN c /\ "args" \in DOMAIN c
        BY <3>1
      <3> QED
        BY <3>1, <3>2 DEF Member
    <2>6. w.command \in DecodeAt(7, Server, "Command", EncodeAt(7, Client, "Command", c.command))
      BY <1>2, <1>3, <2>1, <2>2, <2>3, <2>5
    <2>7. w.args \in DecodeAt(7, Server, "Strings", EncodeAt(7, Client, "Strings", c.args))
      BY <1>2, <1>3, <2>1, <2>2, <2>3, <2>5
    <2>8. Over(w, {"command", "args"})
      <3>1. w \in DecodeAt(8, Server, n, EncodeAt(8, Client, n, c))
        BY Whole, Zenon
      <3>2. Over(w, Members(S))
        BY <1>0, <1>1, <3>1, StructDecoded DEF S
      <3> QED
        BY <2>4, <3>2, Zenon
    <2>9. w.command = c.command /\ w.args = c.args
      BY <2>6, <2>7, CommandSame, StringsSame, Zenon
    <2> QED
      BY <2>5, <2>8, <2>9 DEF Over
  <1> QED
    BY <1>4, <1>5, RequestFields, Zenon DEF S

\* What a variant that carries nothing, or one thing, is opened as.
LEMMA OpensUnit ==
  ASSUME NEW variants, NEW u \in DOMAIN variants, Len(variants[u].args) = 0,
         NEW items, Len(items) = 0
  PROVE  [variant |-> u, items |-> <<>>] \in Opened(variants, Tagged(variants[u].name, items))
  <1> DEFINE data == Tagged(variants[u].name, items)
             k == Len(variants[u].args)
  <1>1. data = Name(variants[u].name)
    BY DEF Tagged
  <1>2. ~ IsTagged(data) /\ TagOf(data) = Name(variants[u].name)
    BY <1>1 DEF IsTagged, TagOf, Name
  <1> HIDE DEF data
  <1>3. <<>> \in Carried(data, k)
    BY <1>2 DEF Carried
  <1> HIDE DEF k
  <1>4. [variant |-> u, items |-> <<>>] \in [variant : {u}, items : Carried(data, k)]
    BY <1>3
  <1> QED
    BY <1>2, <1>4, Zenon DEF Opened, data, k

LEMMA OpensOne ==
  ASSUME NEW variants, NEW u \in DOMAIN variants, Len(variants[u].args) = 1,
         NEW items, Len(items) = 1
  PROVE  [variant |-> u, items |-> <<items[1]>>]
           \in Opened(variants, Tagged(variants[u].name, items))
  <1> DEFINE data == Tagged(variants[u].name, items)
             k == Len(variants[u].args)
  <1>1. data = [map |-> << <<Name(variants[u].name), items[1]>> >>]
    BY DEF Tagged
  <1>2. /\ IsTagged(data) /\ TagOf(data) = Name(variants[u].name)
        /\ data.map[1][2] = items[1]
    BY <1>1 DEF IsTagged, TagOf
  <1> HIDE DEF data
  <1>3. <<items[1]>> \in Carried(data, k)
    BY <1>2 DEF Carried
  <1> HIDE DEF k
  <1>4. [variant |-> u, items |-> <<items[1]>>] \in [variant : {u}, items : Carried(data, k)]
    BY <1>3
  <1> QED
    BY <1>2, <1>4, Zenon DEF Opened, data, k

\* What the client writes of a request its own types can read.
LEMMA UnitReadable ==
  ASSUME NEW n \in EnumNames, NEW u, NEW v, v.variant = u,
         u \in DOMAIN Client[n].variants, ArgsOf(n, u) = <<>>
  PROVE  DecodeAt(6, Client, n, EncodeAt(6, Client, n, v)) # {}
  <1>0. Layer(6, 5)
    BY Layers
  <1> DEFINE vs == Client[n].variants
             items == [i \in DOMAIN vs[u].args |->
                        EncodeAt(5, Client, vs[u].args[i], Argument(v, i))]
  <1>1. EncodeAt(6, Client, n, v) = Tagged(vs[u].name, items)
    <2>1. EncodeAt(6, Client, n, v) = EncodeNext(5, Client, n, v)
      BY <1>0, EncodeDeeper
    <2> QED
      BY EnumKinds, <2>1, Zenon DEF EncodeNext, EncodeBy
  <1>2. Len(vs[u].args) = 0 /\ Len(items) = 0
    BY DEF ArgsOf
  <1> HIDE DEF items
  <1>3. [variant |-> u, items |-> <<>>] \in Opened(vs, EncodeAt(6, Client, n, v))
    BY <1>1, <1>2, OpensUnit
  <1> DEFINE o == [variant |-> u, items |-> <<>>]
  <1>4. ItemsReadable(5, Client, n, o)
    BY DEF ItemsReadable
  <1>5. o \in Opened(Client[n].variants, EncodeAt(6, Client, n, v))
    BY <1>3
  <1>6. Client[n].kind = "enum"
    BY EnumKinds
  <1> HIDE DEF o
  <1> QED
    BY <1>0, <1>4, <1>5, <1>6, EnumDecodable

LEMMA CommandReadable ==
  ASSUME NEW c \in Requests
  PROVE  DecodeAt(7, Client, "Command", EncodeAt(7, Client, "Command", c.command)) # {}
  <1>0. Layer(7, 6)
    BY Layers
  <1> DEFINE v == c.command
             vs == Client["Command"].variants
  <1>1. PICK u, V, n :
          /\ v = [variant |-> V, args |-> <<[variant |-> u, args |-> <<>>]>>]
          /\ \/ V = "System" /\ n = "SystemCommand" /\ u \in DOMAIN SystemCommand.variants
             \/ V = "DB" /\ n = "DBCommand" /\ u \in DOMAIN DBCommand.variants
    BY RequestShape
  <1> DEFINE x == [variant |-> u, args |-> <<>>]
             items == [i \in DOMAIN vs[V].args |->
                        EncodeAt(6, Client, vs[V].args[i], Argument(v, i))]
  <1>2. n \in EnumNames /\ "Command" \in EnumNames
    BY <1>1 DEF EnumNames
  <1>3. u \in DOMAIN Client[n].variants /\ ArgsOf(n, u) = <<>>
    <2>1. CASE n = "SystemCommand"
      BY <1>1, <2>1 DEF ArgsOf, Client, SystemCommand, Enum, Units
    <2>2. CASE n = "DBCommand"
      BY <1>1, <2>2 DEF ArgsOf, Client, DBCommand, Enum, Units
    <2> QED
      BY <1>1, <2>1, <2>2
  <1>4. V \in DOMAIN vs /\ vs[V].args = <<n>>
    BY <1>1 DEF Client, Command, Enum
  <1>5. v.variant = V /\ Argument(v, 1) = x
    BY <1>1 DEF Argument
  <1>6. EncodeAt(7, Client, "Command", v) = Tagged(vs[V].name, items)
    <2>1. EncodeAt(7, Client, "Command", v) = EncodeNext(6, Client, "Command", v)
      BY <1>0, EncodeDeeper
    <2> QED
      BY <1>2, <1>5, EnumKinds, <2>1, Zenon DEF EncodeNext, EncodeBy
  <1> HIDE DEF vs, x
  <1>7. Len(items) = 1 /\ items[1] = EncodeAt(6, Client, n, x)
    BY <1>4, <1>5
  <1> HIDE DEF items
  <1>8. [variant |-> V, items |-> <<items[1]>>] \in Opened(vs, EncodeAt(7, Client, "Command", v))
    BY <1>4, <1>6, <1>7, OpensOne
  <1>9. DecodeAt(6, Client, n, EncodeAt(6, Client, n, x)) # {}
    BY <1>2, <1>3, UnitReadable DEF x
  <1> DEFINE o == [variant |-> V, items |-> <<items[1]>>]
  <1>10. \A i \in DOMAIN o.items : DecodeAt(6, Client, vs[o.variant].args[i], o.items[i]) # {}
    BY <1>4, <1>7, <1>9
  <1>11. o \in Opened(Client["Command"].variants, EncodeAt(7, Client, "Command", v))
    BY <1>8 DEF vs
  <1>12. ItemsReadable(6, Client, "Command", o)
    BY <1>10, Zenon DEF vs, ItemsReadable
  <1>13. Client["Command"].kind = "enum"
    BY <1>2, EnumKinds
  <1> HIDE DEF o
  <1> QED
    BY <1>0, <1>11, <1>12, <1>13, EnumDecodable

LEMMA StringsReadable ==
  ASSUME NEW c \in Requests
  PROVE  DecodeAt(7, Client, "Strings", EncodeAt(7, Client, "Strings", c.args)) # {}
  <1>0. Layer(7, 6) /\ Layer(6, 5)
    BY Layers
  <1>1. /\ Client["Strings"].kind = "vec" /\ Client["Strings"].of = "String"
        /\ Client["String"].kind = "text"
    BY DEF Client, Vec
  <1> DEFINE items == [i \in DOMAIN c.args |-> EncodeAt(6, Client, "String", c.args[i])]
             data == [array |-> items]
  <1>2. EncodeAt(7, Client, "Strings", c.args) = data
    <2>1. EncodeAt(7, Client, "Strings", c.args) = EncodeNext(6, Client, "Strings", c.args)
      BY <1>0, EncodeDeeper
    <2> QED
      BY <1>1, <2>1, Zenon DEF EncodeNext, EncodeBy
  <1>3. c.args \in Seq({TextOf(n) : n \in ArgumentSizes})
    BY RequestShape, Zenon
  <1>4. ASSUME NEW i \in DOMAIN c.args
        PROVE  DecodeAt(6, Client, "String", items[i]) # {}
    <2>1. "text" \in DOMAIN c.args[i]
      BY <1>3 DEF TextOf
    <2>2. items[i] = c.args[i]
      BY <1>1, ScalarRead
    <2>3. DecodeAt(6, Client, "String", c.args[i]) = {c.args[i]}
      <3>1. DecodeAt(6, Client, "String", c.args[i]) = DecodeNext(5, Client, "String", c.args[i])
        BY <1>0, Below, DecodeDeeper
      <3> QED
        BY <1>1, <2>1, <3>1, Zenon DEF DecodeNext, DecodeBy
    <2> QED
      BY <2>2, <2>3
  <1>5. data.array = items /\ DOMAIN items = DOMAIN c.args /\ "array" \in DOMAIN data
    OBVIOUS
  <1> HIDE DEF data, items
  <1>6. \A i \in DOMAIN data.array : DecodeAt(6, Client, Client["Strings"].of, data.array[i]) # {}
    BY <1>1, <1>4, <1>5
  <1> QED
    BY <1>0, <1>1, <1>2, <1>5, <1>6, VecDecodable, Zenon

\* A server of the client's types reads every request.
LEMMA RequestReadable ==
  ASSUME NEW c \in Requests
  PROVE  Decode(Client, "CommandWithArgs", Encode(Client, "CommandWithArgs", c)) # {}
  <1>0. Layer(8, 7)
    BY Layers
  <1> DEFINE n == "CommandWithArgs"
             fs == Client[n].fields
             e == [i \in DOMAIN fs |-> EncodeAt(7, Client, fs[i].type, Member(c, fs[i].of))]
             data == [map |-> [i \in DOMAIN fs |-> <<Name(fs[i].name), e[i]>>]]
  <1>1. Client[n].kind = "struct" /\ "map" \in DOMAIN data
    BY StructKinds, StructMembers
  <1>2. Encode(Client, n, c) = data
    <2>1. Encode(Client, n, c) = [map |-> [i \in DOMAIN fs |->
             <<Name(fs[i].name), EncodeAt(7, Client, fs[i].type, Member(c, fs[i].of))>>]]
      <3>1. Encode(Client, n, c) = EncodeNext(7, Client, n, c)
        BY <1>0, EncodeDeeper, Whole
      <3> QED
        BY <1>1, <3>1, Zenon DEF EncodeNext, EncodeBy
    <2>2. \A i \in DOMAIN fs : e[i] = EncodeAt(7, Client, fs[i].type, Member(c, fs[i].of))
      OBVIOUS
    <2> HIDE DEF e, fs
    <2> QED
      BY <2>1, <2>2
  <1>3. /\ DOMAIN fs = 1 .. 2 /\ fs[1] = Field("command", "Command")
        /\ fs[2] = Field("args", "Strings") /\ Client[n].unsent = {}
    BY FieldLists DEF Client, CommandWithArgs, Struct
  <1>4. /\ fs[1].name = "command" /\ fs[1].of = "command" /\ fs[1].type = "Command"
        /\ fs[2].name = "args" /\ fs[2].of = "args" /\ fs[2].type = "Strings"
    BY <1>3 DEF Field
  <1>5. Member(c, "command") = c.command /\ Member(c, "args") = c.args
    <2>1. "command" \in DOMAIN c /\ "args" \in DOMAIN c
      <3>1. c = [command |-> c.command, args |-> c.args]
        BY RequestShape, Zenon
      <3> QED
        BY <3>1
    <2> QED
      BY <2>1 DEF Member
  <1>6. /\ DecodeAt(7, Client, "Command", e[1]) # {} /\ DecodeAt(7, Client, "Strings", e[2]) # {}
    <2>1. /\ e[1] = EncodeAt(7, Client, "Command", c.command)
          /\ e[2] = EncodeAt(7, Client, "Strings", c.args)
      BY <1>3, <1>4, <1>5
    <2> QED
      BY <2>1, CommandReadable, StringsReadable, Zenon
  <1>7. e[1] \in Found(data, "command") /\ e[2] \in Found(data, "args")
    <2>1. Written(fs, e, data)
      BY DEF Written
    <2>2. 1 \in DOMAIN fs /\ 2 \in DOMAIN fs
      BY <1>3
    <2> HIDE DEF e, fs, data
    <2> QED
      BY <1>4, <2>1, <2>2, FoundFields
  <1>8. ASSUME NEW m \in Members(Client[n])
        PROVE  LET f == FieldOf(Client[n], m)
               IN \E x \in Found(data, f.name) : DecodeAt(7, Client, f.type, x) # {}
    <2> HIDE DEF e, data
    <2>1. Declared(Client[n]) = {fs[1], fs[2]}
      <3> HIDE DEF fs
      <3> QED
        BY <1>3 DEF Declared, ToSet, fs
    <2> HIDE DEF fs
    <2>2. \/ m = "command" /\ FieldOf(Client[n], m) = fs[1]
          \/ m = "args" /\ FieldOf(Client[n], m) = fs[2]
      BY <1>4, <1>8, <2>1 DEF FieldOf, Members
    <2> QED
      BY <1>4, <1>6, <1>7, <2>2
  <1> HIDE DEF e, fs, data
  <1>9. DecodeAt(8, Client, n, data) # {}
    <2>1. FieldsReadable(7, Client, n, data)
      BY <1>8, Zenon DEF FieldsReadable
    <2> QED
      BY <1>0, <1>1, <2>1, StructDecodable, Zenon
  <1> QED
    BY <1>2, <1>9, Whole, Zenon

-----------------------------------------------------------------------------
(* The exchange. *)

\* What is on the wire of a request.
Request(c) == Encode(Client, "CommandWithArgs", c)

\* What the client makes of an answer.
Understood(answer) ==
  LET read == Decode(Client, "Response", answer)
      r == CHOOSE r \in read : TRUE
  IN IF read = {} THEN [error |-> "Decode"]
     ELSE IF r.variant = "QueryResult" THEN IntoOutcome(r.args[1]) ELSE [response |-> r]

\* Nothing is carried out before the server has read the request, and what it
\* carries out is what it has read.
Sent ==
  /\ item = Request(command) /\ ~ (Size(item) > MaxRequestBytes)
  /\ executed = {} /\ reply = None /\ result = None

Executed ==
  /\ executed = Decode(Server, "CommandWithArgs", Request(command)) /\ executed # {}
  /\ reply \in Replies /\ Sendable(reply)

Refused ==
  /\ Size(Request(command)) > MaxRequestBytes
  /\ executed = {} /\ reply = None /\ result = TooLarge

Dropped ==
  /\ Decode(Server, "CommandWithArgs", Request(command)) = {}
  /\ executed = {} /\ reply = None /\ result = [error |-> "ConnectionClosed"]

Exchange ==
  /\ drift \in Edits /\ command \in Requests
  /\ stage \in {"call", "sent", "answered", "done"}
  /\ stage = "call" => executed = {} /\ reply = None /\ result = None
  /\ stage = "sent" => Sent
  /\ stage = "answered" =>
       Executed /\ item = Encode(Server, "Response", reply) /\ result = None
  /\ stage = "done" =>
       \/ Refused
       \/ Dropped
       \/ Executed /\ result = Understood(Encode(Server, "Response", reply))

\* Exchange is inductive.
LEMMA ExchangeStarts == Init => Exchange
  BY DEF Init, Exchange

LEMMA SameServer ==
  ASSUME drift' = drift
  PROVE  Server' = Server
  BY DEF Server

\* A request is never taken for the refusal of one.
LEMMA RequestIsMap ==
  ASSUME NEW c
  PROVE  Request(c) # TooLarge
  <1>1. Client["CommandWithArgs"].kind = "struct"
    BY DEF Client, CommandWithArgs, Struct
  <1>2. IsMap(Request(c))
    BY <1>1, EncodedMap, Layers, Whole DEF Request
  <1> QED
    BY <1>2 DEF IsMap, TooLarge

LEMMA ExchangeStep ==
  ASSUME Exchange, [Next]_vars
  PROVE  Exchange'
  <1>1. CASE Call
    <2> DEFINE written == EncodeRequest(command)
    <2>1. /\ stage = "call" /\ UNCHANGED <<drift, command, executed, reply>>
          /\ \/ /\ written = TooLarge /\ stage' = "done" /\ result' = TooLarge
                /\ item' = item
             \/ /\ written # TooLarge /\ stage' = "sent" /\ item' = written
                /\ result' = result
      BY <1>1, Zenon DEF Call
    <2>2. executed = {} /\ reply = None /\ result = None
      BY <2>1 DEF Exchange
    <2>3. \/ Size(Request(command)) > MaxRequestBytes /\ written = TooLarge
          \/ ~ (Size(Request(command)) > MaxRequestBytes) /\ written = Request(command)
      BY Zenon DEF EncodeRequest, Request
    <2> HIDE DEF written
    <2>4. CASE written = TooLarge /\ stage' = "done"
      <3>1. Refused'
        BY <2>1, <2>2, <2>3, <2>4, RequestIsMap DEF Refused
      <3> QED
        BY <2>1, <2>4, <3>1 DEF Exchange
    <2>5. CASE written # TooLarge /\ stage' = "sent"
      <3>1. Sent'
        BY <2>1, <2>2, <2>3, <2>5 DEF Sent
      <3> QED
        BY <2>1, <2>5, <3>1 DEF Exchange
    <2> QED
      BY <2>1, <2>4, <2>5
  <1>2. CASE Drop
    <2>1. /\ stage = "sent" /\ Received = {} /\ stage' = "done"
          /\ result' = [error |-> "ConnectionClosed"]
          /\ UNCHANGED <<drift, command, item, executed, reply>>
      BY <1>2, Zenon DEF Drop
    <2>2. Sent
      BY <2>1, Zenon DEF Exchange
    <2>3. Decode(Server, "CommandWithArgs", Request(command)) = {}
      BY <2>1, <2>2, SameLimit DEF Received, Sent
    <2>4. Dropped'
      BY <2>1, <2>2, <2>3, SameServer DEF Sent, Dropped
    <2> QED
      BY <2>1, <2>4 DEF Exchange
  <1>3. CASE Serve
    <2>1. /\ stage = "sent" /\ Received # {} /\ stage' = "answered" /\ executed' = Received
          /\ reply' \in {r \in RepliesTo(command) : Sendable(r)}
          /\ item' = Encode(Server, "Response", reply')
          /\ UNCHANGED <<drift, command, result>>
      BY <1>3, Zenon DEF Serve
    <2>2. Sent
      BY <2>1, Zenon DEF Exchange
    <2>3. executed' = Decode(Server, "CommandWithArgs", Request(command))
      BY <2>1, <2>2, SameLimit DEF Received, Sent
    <2>4. reply' \in Replies /\ Sendable(reply')
      BY <2>1 DEF RepliesTo
    <2>5. Server' = Server
      BY <2>1, SameServer
    <2>6. Sendable(reply)'
      BY <2>4, <2>5 DEF Sendable
    <2>7. Executed'
      BY <2>1, <2>3, <2>4, <2>5, <2>6 DEF Executed
    <2>8. item' = Encode(Server', "Response", reply') /\ result' = None
      BY <2>1, <2>2, <2>5 DEF Sent
    <2> QED
      BY <2>1, <2>7, <2>8 DEF Exchange
  <1>4. CASE Receive
    <2>1. /\ stage = "answered" /\ stage' = "done" /\ result' = Understood(item)
          /\ UNCHANGED <<drift, command, item, executed, reply>>
      BY <1>4, Zenon DEF Receive, Understood
    <2>2. Executed /\ item = Encode(Server, "Response", reply)
      BY <2>1, Zenon DEF Exchange
    <2>3. Server' = Server
      BY <2>1, SameServer
    <2>4. Sendable(reply)'
      BY <2>1, <2>2, <2>3 DEF Executed, Sendable
    <2>5. Executed'
      BY <2>1, <2>2, <2>3, <2>4 DEF Executed
    <2>6. result' = Understood(Encode(Server', "Response", reply'))
      BY <2>1, <2>2, <2>3
    <2> QED
      BY <2>1, <2>5, <2>6 DEF Exchange
  <1>5. CASE UNCHANGED vars
    <2>1. UNCHANGED <<drift, stage, command, item, executed, reply, result>>
      BY <1>5 DEF vars
    <2>2. Server' = Server
      BY <2>1, SameServer
    <2> QED
      BY <2>1, <2>2 DEF Exchange, Sent, Executed, Refused, Dropped, Sendable
  <1> QED
    BY <1>1, <1>2, <1>3, <1>4, <1>5, Zenon DEF Next

\* What the exchange between the two peers keeps true, in every state.
THEOREM ExchangeAlways == Spec => []Exchange
  BY ExchangeStarts, ExchangeStep, PTL DEF Spec

\* What the client makes of a response it could read: what the server meant, or a
\* Select without its paging information.
LEMMA UnderstoodRight ==
  ASSUME drift \in Edits, reply \in Responses,
         result = Understood(Encode(Server, "Response", reply)),
         Decode(Client, "Response", Encode(Server, "Response", reply)) # {}
  PROVE  /\ Conveyed(PagingOf(reply)) \/ (PagingLost /\ Conveyed(None))
         /\ result # TooLarge
  <1> DEFINE read == Decode(Client, "Response", Encode(Server, "Response", reply))
             w == CHOOSE w \in read : TRUE
             q == reply.args[1]
             a == q.args[1]
  <1>1. w \in read
    OBVIOUS
  <1>2. /\ w.variant = reply.variant
        /\ reply.variant # "QueryResult" => w = reply
        /\ reply.variant = "QueryResult" =>
             w.args[1] \in
               DecodeAt(7, Client, "QueryResult", EncodeAt(7, Server, "QueryResult", q))
    <2> HIDE DEF w
    <2> QED
      BY <1>1, ResponseRead
  <1>3. result = IF w.variant = "QueryResult" THEN IntoOutcome(w.args[1]) ELSE [response |-> w]
    BY Zenon DEF Understood
  <1> HIDE DEF read, w
  <1>4. CASE reply.variant # "QueryResult"
    <2>1. result = [response |-> reply]
      BY <1>2, <1>3, <1>4
    <2>2. result # TooLarge
      BY <2>1 DEF TooLarge
    <2> QED
      BY <1>4, <2>1, <2>2 DEF Conveyed
  <1>5. CASE reply.variant = "QueryResult"
    <2>1. q \in QueryResults
      BY <1>5, ResponseShaped
    <2>2. result = IntoOutcome(w.args[1])
      BY <1>2, <1>3, <1>5
    <2>3. /\ q.variant \in {"MessageOnly", "Select", "Insert"}
          /\ q.variant = "MessageOnly" => result = [message |-> a]
          /\ q.variant = "Insert" => result = [rows |-> a.inserted, table |-> a.table_name]
          /\ q.variant = "Select" =>
               \E paging \in {a.paging_info, None} :
                 /\ paging # a.paging_info => PagingLost
                 /\ result = [schema |-> a.schema, paging_info |-> paging,
                              rows |-> [i \in DOMAIN a.result |-> a.result[i].field_vals]]
      BY <1>2, <1>5, <2>1, <2>2, QueryRead
    <2>4. CASE q.variant = "MessageOnly"
      <3>1. Conveyed(PagingOf(reply))
        BY <1>5, <2>3, <2>4 DEF Conveyed
      <3>2. result # TooLarge
        BY <2>3, <2>4 DEF TooLarge
      <3> QED
        BY <3>1, <3>2
    <2>5. CASE q.variant = "Insert"
      <3>1. Conveyed(PagingOf(reply))
        BY <1>5, <2>3, <2>5 DEF Conveyed
      <3>2. result # TooLarge
        BY <2>3, <2>5 DEF TooLarge
      <3> QED
        BY <3>1, <3>2
    <2>6. CASE q.variant = "Select"
      <3>1. PICK paging \in {a.paging_info, None} :
              /\ paging # a.paging_info => PagingLost
              /\ result = [schema |-> a.schema, paging_info |-> paging,
                           rows |-> [i \in DOMAIN a.result |-> a.result[i].field_vals]]
        BY <2>3, <2>6
      <3>2. Conveyed(paging)
        BY <1>5, <2>6, <3>1, Zenon DEF Conveyed
      <3>3. PagingOf(reply) = a.paging_info
        BY <1>5, <2>6 DEF PagingOf
      <3>4. result # TooLarge
        BY <3>1 DEF TooLarge
      <3>5. paging = a.paging_info \/ (paging = None /\ PagingLost)
        BY <3>1
      <3> QED
        BY <3>2, <3>3, <3>4, <3>5, Zenon
    <2> QED
      BY <2>3, <2>4, <2>5, <2>6
  <1> QED
    BY <1>4, <1>5

LEMMA NoReply ==
  ASSUME NEW r \in Replies
  PROVE  r \in Responses
  BY RepliesAreResponses

\* At the end of an exchange that was answered.
LEMMA Answered ==
  ASSUME Exchange, reply # None, stage = "done"
  PROVE  /\ drift \in Edits /\ reply \in Responses /\ Sendable(reply)
         /\ result = Understood(Encode(Server, "Response", reply))
  BY NoReply, Zenon DEF Exchange, Executed, Refused, Dropped

LEMMA UnreadIsError ==
  ASSUME NEW answer, Decode(Client, "Response", answer) = {}
  PROVE  Understood(answer) = [error |-> "Decode"]
  BY Zenon DEF Understood

LEMMA ExchangeNotMisled == Exchange => DriftNeverMisleads
  <1> SUFFICES ASSUME Exchange, reply # None, stage = "done", result # [error |-> "Decode"]
               PROVE  Conveyed(PagingOf(reply)) \/ (PagingLost /\ Conveyed(None))
    BY DEF DriftNeverMisleads, PagingLost
  <1>1. /\ drift \in Edits /\ reply \in Responses
        /\ result = Understood(Encode(Server, "Response", reply))
    BY Answered
  <1>2. Decode(Client, "Response", Encode(Server, "Response", reply)) # {}
    BY <1>1, UnreadIsError
  <1> QED
    BY <1>1, <1>2, UnderstoodRight

LEMMA ExchangeAgrees == Exchange => SameTypesAgree
  <1> SUFFICES ASSUME Exchange, reply # None, stage = "done",
                      drift.edit \in {"none", "add", "reverse"}
               PROVE  Conveyed(PagingOf(reply))
    BY DEF SameTypesAgree
  <1>1. /\ drift \in Edits /\ reply \in Responses /\ Sendable(reply)
        /\ result = Understood(Encode(Server, "Response", reply))
    BY Answered
  <1>2. "Response" \in DOMAIN Client
    BY DEF Client
  <1>3. Decode(Client, "Response", Encode(Server, "Response", reply)) # {}
    BY <1>1, <1>2, StillRead DEF Sendable
  <1>4. ~ PagingLost
    BY DEF PagingLost
  <1> QED
    BY <1>1, <1>3, <1>4, UnderstoodRight

LEMMA ExchangeCarriesOut == Exchange => CarriesOutWhatWasCalled
  <1> SUFFICES ASSUME Exchange PROVE CarriesOutWhatWasCalled
    OBVIOUS
  <1> DEFINE understood == Decode(Server, "CommandWithArgs", Request(command))
  <1>1. drift \in Edits /\ command \in Requests
    BY DEF Exchange
  <1>2. \/ executed = {} /\ result = None /\ stage # "done"
        \/ Executed /\ result = None /\ stage # "done"
        \/ Refused
        \/ Dropped
        \/ Executed /\ stage = "done" /\ result = Understood(Encode(Server, "Response", reply))
    BY Zenon DEF Exchange, Sent
  <1>3. executed \subseteq understood
    BY <1>2 DEF Executed, Refused, Dropped
  <1>4. ASSUME ~ (drift.edit = "drop" /\ drift.type = "CommandWithArgs")
        PROVE  executed \subseteq {command}
    BY <1>1, <1>3, <1>4, RequestSame DEF Request
  <1>5. Executed => executed # {} /\ reply \in Responses
    BY NoReply DEF Executed
  <1>6. ASSUME Executed, stage = "done", result = Understood(Encode(Server, "Response", reply))
        PROVE  executed # {} /\ result # TooLarge
    <2>1. Decode(Client, "Response", Encode(Server, "Response", reply)) = {} =>
            result # TooLarge
      BY <1>6, UnreadIsError DEF TooLarge
    <2> QED
      BY <1>1, <1>5, <1>6, <2>1, UnderstoodRight
  <1>7. drift.edit = "none" => ~ Dropped
    BY <1>1, Unedited, RequestReadable DEF Dropped, Request
  <1>8. None # TooLarge
    BY DEF None, TooLarge
  <1>9. stage = "done" /\ drift.edit = "none" => ((executed = {}) = (result = TooLarge))
    BY <1>2, <1>6, <1>7 DEF Refused
  <1>10. result = TooLarge => Refused
    <2>1. Dropped => result # TooLarge
      BY DEF Dropped, TooLarge
    <2> QED
      BY <1>2, <1>6, <1>8, <2>1
  <1>11. result = TooLarge => Size(Encode(Client, "CommandWithArgs", command)) > ServerBuffer
    BY <1>10, SameLimit DEF Refused, Request
  <1> QED
    BY <1>4, <1>9, <1>11 DEF CarriesOutWhatWasCalled

\* Wire.SameTypesAgree: as long as the two declarations are the same, or differ only
\* in the order of fields or by a field more, every response is read as what the
\* server meant (protocol.rs, schema.rs, value.rs, into_outcome), whatever the
\* integers, the responses and the limits are.
THEOREM TypesAgree == Spec => []SameTypesAgree
  BY ExchangeAlways, ExchangeAgrees, PTL

\* Wire.DriftNeverMisleads: whatever one edit has made of the server's types, a
\* response that the client reads is what the server meant, but for the paging
\* information of a Select that lost its field.
THEOREM NeverMisled == Spec => []DriftNeverMisleads
  BY ExchangeAlways, ExchangeNotMisled, PTL

\* Wire.CarriesOutWhatWasCalled: the server carries out the command of the call or
\* nothing, and with the client's types everything the client has not refused;
\* what it refuses the server could not have read whole (encode_request,
\* MAX_REQUEST_BYTES).
THEOREM CarriedOut == Spec => []CarriesOutWhatWasCalled
  BY ExchangeAlways, ExchangeCarriesOut, PTL
=============================================================================
