-------------------------------- MODULE Wire --------------------------------
(***************************************************************************)
(* One request and its response in CBOR, between the client's declarations *)
(* of the wire types and the server's, which drift: a later server has     *)
(* renamed, dropped, added, reordered or widened something in one of them. *)
(* What serde's derive and serde_cbor make of a declaration is Encode and  *)
(* Decode, which go one type deeper from layer to layer.                   *)
(*                                                                         *)
(* Integers, texts and Booleans are the same records as values and as CBOR *)
(* items; a struct is a record, a Vec a sequence.                          *)
(***************************************************************************)
EXTENDS Integers, Sequences, SequencesExt

CONSTANTS
  Ranges,         \* the integers of each of Rust's integer types
  Replies,        \* the responses of the server to a statement
  ArgumentSizes,  \* the lengths of the arguments of a request, in bytes
  MaxRequestBytes,    \* what the client sends at most
  ServerBuffer    \* what the server reads of a request, at once

ASSUME SizesAreNumbers ==
  ArgumentSizes \subseteq Nat /\ MaxRequestBytes \in Nat /\ ServerBuffer \in Nat

\* The client's limit is the server's buffer (the comment of MAX_REQUEST_BYTES).
ASSUME SameLimit == MaxRequestBytes = ServerBuffer

VARIABLES
  drift,   \* the edit that makes the server's declarations differ
  stage,   \* "call", "sent", "answered", "done"
  command, \* the CommandWithArgs of the call
  item,    \* the CBOR item on the wire
  executed, \* the commands the server has carried out
  reply,   \* the Response it has answered with
  result   \* what the client makes of it

vars == <<drift, stage, command, item, executed, reply, result>>

-----------------------------------------------------------------------------
(* Declarations: tables from the names of types to what they are.          *)

Integer(type) == [kind |-> "int", range |-> Ranges[type]]
Vec(type)     == [kind |-> "vec", of |-> type]
Option(type)  == [kind |-> "option", of |-> type]

None == [none |-> TRUE]

\* A field: its name on the wire, the member it stands for, and the values it
\* may have where it is missing.
Field(name, type) == [name |-> name, of |-> name, type |-> type, missing |-> {}]
OptionField(name, type) == [Field(name, type) EXCEPT !.missing = {None}]

\* The fields are written in their order, but for those that are never written.
Struct(fields) == [kind |-> "struct", fields |-> fields, unsent |-> {}]

\* An enum: for each variant its name on the wire and the types it carries.  A
\* struct variant is written as one that carries a struct.
Enum(carried) ==
  [kind |-> "enum",
   variants |-> [v \in DOMAIN carried |-> [name |-> v, args |-> carried[v]]]]

Units(names) == [v \in names |-> <<>>]

-----------------------------------------------------------------------------
(* The client's types.                                                     *)

SystemCommand ==
  Enum(Units({"Create", "Connect", "Reset", "Shutdown", "CloseConnection",
              "QuietMode", "ShowDatabases", "Test", "Help"}))

DBCommand ==
  Enum(Units({"ExecuteSQL", "RegisterQuery", "RunQueryFull", "RunQueryPartial",
              "ConvertQuery", "ShowTables", "ShowQueries", "Generate", "Import",
              "Commit"}))

Command == Enum([System |-> <<"SystemCommand">>, DB |-> <<"DBCommand">>])

CommandWithArgs ==
  Struct(<<Field("command", "Command"), Field("args", "Strings")>>)

DataType ==
  Enum([BigInt |-> <<>>, Int |-> <<>>, SmallInt |-> <<>>, Char |-> <<"u8">>,
        String |-> <<>>, Decimal |-> <<"u32", "u32">>, Date |-> <<>>,
        Bool |-> <<>>, Null |-> <<>>])

Value ==
  Enum([BigInt |-> <<"i64">>, Int |-> <<"i32">>, SmallInt |-> <<"i16">>,
        Char |-> <<"u8", "String">>, String |-> <<"String">>,
        Decimal |-> <<"i64", "u32">>, Date |-> <<"i64">>, Bool |-> <<"bool">>,
        Null |-> <<>>])

Constraint ==
  Enum([None |-> <<>>, PrimaryKey |-> <<>>, Unique |-> <<>>, NotNull |-> <<>>,
        UniqueNotNull |-> <<>>, ForeignKey |-> <<"u16">>, NotNullFKey |-> <<"u16">>])

\* Bug: a column whose constraint is missing has none, as a Default would have it.
AttributeDefaulted ==
  Struct(<<Field("name", "String"), Field("dtype", "DataType"),
           [Field("constraint", "Constraint")
              EXCEPT !.missing = {[variant |-> "None", args |-> <<>>]}]>>)

Attribute ==
  Struct(<<Field("name", "String"), Field("dtype", "DataType"),
           Field("constraint", "Constraint")>>)

Attributes == Vec("Attribute")

\* Bug: the implementations are derived, and a schema is read as a struct.
SchemaDerived == Struct(<<Field("attributes", "Attributes")>>)

Schema == Attributes

ValueId ==
  Struct(<<Field("container_id", "u16"), OptionField("segment_id", "OptionU8"),
           OptionField("page_id", "OptionU32"), OptionField("slot_id", "OptionU16")>>)

Tuple ==
  [Struct(<<Field("tid", "u64"), Field("field_vals", "Values")>>)
     EXCEPT !.unsent = {OptionField("value_id", "OptionValueId")}]

PagingInfo ==
  Struct(<<Field("current_page", "u32"), Field("total_pages", "u32"),
           Field("has_next_page", "bool"), Field("page_size", "u32")>>)

Select ==
  Struct(<<Field("schema", "Schema"), Field("result", "Tuples"),
           OptionField("paging_info", "Paging")>>)

Insert == Struct(<<Field("inserted", "u64"), Field("table_name", "String")>>)

QueryResult ==
  Enum([MessageOnly |-> <<"String">>, Select |-> <<"Select">>, Insert |-> <<"Insert">>])

Response ==
  Enum([Ok |-> <<>>, SystemMsg |-> <<"String">>, SystemErr |-> <<"String">>,
        QueryResult |-> <<"QueryResult">>, QueryExecutionError |-> <<"String">>,
        Shutdown |-> <<"bool">>, QuietOk |-> <<>>, QuietErr |-> <<>>])

Client ==
  [String |-> [kind |-> "text"], bool |-> [kind |-> "bool"],
   u8 |-> Integer("u8"), u16 |-> Integer("u16"), u32 |-> Integer("u32"),
   u64 |-> Integer("u64"), i16 |-> Integer("i16"), i32 |-> Integer("i32"),
   i64 |-> Integer("i64"), wide |-> Integer("wide"),
   Strings |-> Vec("String"), Values |-> Vec("Value"), Tuples |-> Vec("Tuple"),
   Attributes |-> Attributes, OptionU8 |-> Option("u8"), OptionU16 |-> Option("u16"),
   OptionU32 |-> Option("u32"), OptionValueId |-> Option("ValueId"),
   Paging |-> Option("PagingInfo"),
   SystemCommand |-> SystemCommand, DBCommand |-> DBCommand, Command |-> Command,
   CommandWithArgs |-> CommandWithArgs, DataType |-> DataType, Value |-> Value,
   Constraint |-> Constraint, Attribute |-> Attribute, Schema |-> Schema,
   ValueId |-> ValueId, Tuple |-> Tuple, PagingInfo |-> PagingInfo,
   Select |-> Select, Insert |-> Insert, QueryResult |-> QueryResult,
   Response |-> Response]

-----------------------------------------------------------------------------
(* The values of the types, of integers of any width.                      *)

Wholes == [int : Int]
Texts  == [text : STRING \X Nat]
Truths == [bool : BOOLEAN]

Optional(S) == {None} \cup [some : S]

Bare(names)         == [variant : names, args : {<<>>}]
With(names, S)      == [variant : names, args : [1 .. 1 -> S]]
WithBoth(name, S, T) == [variant : {name}, args : S \X T]

DataTypes ==
  Bare({"BigInt", "Int", "SmallInt", "String", "Date", "Bool", "Null"})
  \cup With({"Char"}, Wholes) \cup WithBoth("Decimal", Wholes, Wholes)

Values ==
  Bare({"Null"}) \cup With({"BigInt", "Int", "SmallInt", "Date"}, Wholes)
  \cup With({"String"}, Texts) \cup With({"Bool"}, Truths)
  \cup WithBoth("Char", Wholes, Texts) \cup WithBoth("Decimal", Wholes, Wholes)

Constraints ==
  Bare({"None", "PrimaryKey", "Unique", "NotNull", "UniqueNotNull"})
  \cup With({"ForeignKey", "NotNullFKey"}, Wholes)

Columns == [name : Texts, dtype : DataTypes, constraint : Constraints]

ValueIds ==
  [container_id : Wholes, segment_id : Optional(Wholes),
   page_id : Optional(Wholes), slot_id : Optional(Wholes)]

Rows == [tid : Wholes, value_id : Optional(ValueIds), field_vals : Seq(Values)]

Pages ==
  [current_page : Wholes, total_pages : Wholes, has_next_page : Truths,
   page_size : Wholes]

Selections ==
  [schema : Seq(Columns), result : Seq(Rows), paging_info : Optional(Pages)]

Insertions == [inserted : Wholes, table_name : Texts]

QueryResults ==
  With({"MessageOnly"}, Texts) \cup With({"Select"}, Selections)
  \cup With({"Insert"}, Insertions)

Responses ==
  Bare({"Ok", "QuietOk", "QuietErr"})
  \cup With({"SystemMsg", "SystemErr", "QueryExecutionError"}, Texts)
  \cup With({"QueryResult"}, QueryResults) \cup With({"Shutdown"}, Truths)

ASSUME RepliesAreResponses == Replies \subseteq Responses

-----------------------------------------------------------------------------
(* serde and CBOR: the item a value is written as.                         *)

Null == [null |-> TRUE]

\* A text of n bytes, and a name.
TextOf(n)  == [text |-> <<"argument", n>>]
Name(name) == [text |-> <<name, Len(name)>>]

\* What a newer peer writes where this one declares nothing.
Added == [bool |-> FALSE]

Member(v, m)   == IF m \in DOMAIN v THEN v[m] ELSE Added
Argument(v, i) == IF i \in DOMAIN v.args THEN v.args[i] ELSE Added

\* A variant and the items it carries.
Tagged(name, items) ==
  CASE Len(items) = 0 -> Name(name)
    [] Len(items) = 1 -> [map |-> << <<Name(name), items[1]>> >>]
    [] OTHER -> [map |-> << <<Name(name), [array |-> items]>> >>]

\* What the type `n` of a table is written as, with Part for the types in it.
EncodeBy(Part(_, _, _), types, n, v) ==
  LET type == types[n]
  IN CASE type.kind = "vec" -> [array |-> [i \in DOMAIN v |-> Part(types, type.of, v[i])]]
       [] type.kind = "option" -> IF v = None THEN Null ELSE Part(types, type.of, v.some)
       [] type.kind = "struct" ->
            [map |-> [i \in DOMAIN type.fields |->
               LET f == type.fields[i]
               IN <<Name(f.name), Part(types, f.type, Member(v, f.of))>>]]
       [] type.kind = "enum" ->
            LET variant == type.variants[v.variant]
            IN Tagged(variant.name, [i \in DOMAIN variant.args |->
                                       Part(types, variant.args[i], Argument(v, i))])
       [] OTHER -> v

\* No type nests deeper than a Response, down to an integer of one of its Values.
Encode0(types, n, v) == v
Encode1(types, n, v) == EncodeBy(Encode0, types, n, v)
Encode2(types, n, v) == EncodeBy(Encode1, types, n, v)
Encode3(types, n, v) == EncodeBy(Encode2, types, n, v)
Encode4(types, n, v) == EncodeBy(Encode3, types, n, v)
Encode5(types, n, v) == EncodeBy(Encode4, types, n, v)
Encode6(types, n, v) == EncodeBy(Encode5, types, n, v)
Encode(types, n, v)  == EncodeBy(Encode6, types, n, v)

-----------------------------------------------------------------------------
(* The values, one or none, that an item is read as.                       *)

\* The parts read, if all of them could be.
All(parts) ==
  IF \E k \in DOMAIN parts : parts[k] = {} THEN {}
  ELSE {[k \in DOMAIN parts |-> CHOOSE v \in parts[k] : TRUE]}

\* The items of a map that have a name.
Found(data, name) ==
  {data.map[k][2] : k \in {k \in DOMAIN data.map : data.map[k][1] = Name(name)}}

Declared(type) == ToSet(type.fields) \cup type.unsent

FieldOf(type, m) == CHOOSE f \in Declared(type) : f.of = m

\* A variant is its name, or its name with what it carries.
IsTagged(data) == "map" \in DOMAIN data /\ Len(data.map) = 1
TagOf(data)    == IF IsTagged(data) THEN data.map[1][1] ELSE data

\* The n items that a variant carries, if they are there.
Carried(data, n) ==
  CASE ~IsTagged(data) -> IF n = 0 THEN {<<>>} ELSE {}
    [] IsTagged(data) /\ n = 1 -> {<<data.map[1][2]>>}
    [] OTHER -> IF "array" \in DOMAIN data.map[1][2]
                THEN {s \in {data.map[1][2].array} : DOMAIN s = 1 .. n}
                ELSE {}

\* The variants of that name, each with its items.
Opened(variants, data) ==
  UNION {[variant : {w}, items : Carried(data, Len(variants[w].args))] :
         w \in {w \in DOMAIN variants : Name(variants[w].name) = TagOf(data)}}

DecodeBy(Part(_, _, _), types, n, data) ==
  LET type == types[n]
  IN CASE type.kind = "vec" ->
            IF "array" \notin DOMAIN data THEN {}
            ELSE All([i \in DOMAIN data.array |-> Part(types, type.of, data.array[i])])
       [] type.kind = "option" ->
            IF data = Null THEN {None}
            ELSE {[some |-> v] : v \in Part(types, type.of, data)}
       [] type.kind = "struct" ->
            IF "map" \notin DOMAIN data THEN {}
            ELSE All([m \in {f.of : f \in Declared(type)} |->
                   LET f == FieldOf(type, m)
                   IN IF Found(data, f.name) = {} THEN f.missing
                      ELSE UNION {Part(types, f.type, x) : x \in Found(data, f.name)}])
       [] type.kind = "enum" ->
            UNION {[variant : {o.variant},
                    args : All([i \in DOMAIN o.items |->
                             Part(types, type.variants[o.variant].args[i], o.items[i])])] :
                   o \in Opened(type.variants, data)}
       [] type.kind = "int" ->
            IF "int" \in DOMAIN data THEN {x \in {data} : x.int \in type.range} ELSE {}
       [] OTHER -> IF type.kind \in DOMAIN data THEN {data} ELSE {}

Nothing(types, n, data) == {}
Decode0(types, n, data) == DecodeBy(Nothing, types, n, data)
Decode1(types, n, data) == DecodeBy(Decode0, types, n, data)
Decode2(types, n, data) == DecodeBy(Decode1, types, n, data)
Decode3(types, n, data) == DecodeBy(Decode2, types, n, data)
Decode4(types, n, data) == DecodeBy(Decode3, types, n, data)
Decode5(types, n, data) == DecodeBy(Decode4, types, n, data)
Decode6(types, n, data) == DecodeBy(Decode5, types, n, data)
Decode(types, n, data)  == DecodeBy(Decode6, types, n, data)

-----------------------------------------------------------------------------
(* The bytes of a request: texts, in an array or a variant, in a struct.   *)

Header(n) == IF n < 24 THEN 1 ELSE IF n < 256 THEN 2 ELSE 3

SizeBy(Part(_), data) ==
  CASE "array" \in DOMAIN data ->
         FoldSeq(LAMBDA d, n : n + Part(d), Header(Len(data.array)), data.array)
    [] "map" \in DOMAIN data ->
         FoldSeq(LAMBDA e, n : n + Part(e[1]) + Part(e[2]), Header(Len(data.map)), data.map)
    [] OTHER -> Header(data.text[2]) + data.text[2]

Size0(data) == Header(data.text[2]) + data.text[2]
Size1(data) == SizeBy(Size0, data)
Size(data)  == SizeBy(Size1, data)

-----------------------------------------------------------------------------
(* The server's declarations, of which common::TableSchema alone is not    *)
(* derived, and how they drift.                                            *)

Common == [Client EXCEPT !.Schema = Vec("Attribute")]

OfKind(kind) == {n \in DOMAIN Common : Common[n].kind = kind}

StructEdits(n) ==
  [edit : {"add", "reverse"}, type : {n}]
  \cup [edit : {"rename", "drop", "widen"}, type : {n},
        at : {f.name : f \in ToSet(Common[n].fields)}]

EnumEdits(n) ==
  [edit : {"rename", "carry", "lose"}, type : {n}, at : DOMAIN Common[n].variants]

Edits ==
  {[edit |-> "none"]}
  \cup (UNION {StructEdits(n) : n \in OfKind("struct")})
  \cup (UNION {EnumEdits(n) : n \in OfKind("enum")})

Wider(n) == IF Common[n].kind = "int" THEN "wide" ELSE n

\* The fields of a struct after an edit, and the variants of an enum.
EditedFields(fields, d) ==
  LET change(f) == IF d.edit = "rename" THEN [f EXCEPT !.name = "renamed"]
                   ELSE [f EXCEPT !.type = Wider(@)]
  IN CASE d.edit = "add"     -> Append(fields, Field("added", "bool"))
       [] d.edit = "reverse" -> Reverse(fields)
       [] d.edit = "drop"    ->
            RemoveAt(fields, CHOOSE i \in DOMAIN fields : fields[i].name = d.at)
       [] OTHER -> [i \in DOMAIN fields |->
                      IF fields[i].name = d.at THEN change(fields[i]) ELSE fields[i]]

EditedVariants(variants, d) ==
  CASE d.edit = "rename" -> [variants EXCEPT ![d.at].name = "renamed"]
    [] d.edit = "carry"  -> [variants EXCEPT ![d.at].args = Append(@, "bool")]
    [] d.edit = "lose"   ->
         [variants EXCEPT ![d.at].args = IF @ = <<>> THEN <<>> ELSE Front(@)]

Server ==
  IF drift.edit = "none" THEN Common
  ELSE IF drift.type \in OfKind("struct")
  THEN [Common EXCEPT ![drift.type].fields = EditedFields(@, drift)]
  ELSE [Common EXCEPT ![drift.type].variants = EditedVariants(@, drift)]

-----------------------------------------------------------------------------
(* The call.                                                               *)

System(name, args) ==
  [command |-> [variant |-> "System", args |-> <<[variant |-> name, args |-> <<>>]>>],
   args |-> args]

DB(name, args) ==
  [command |-> [variant |-> "DB", args |-> <<[variant |-> name, args |-> <<>>]>>],
   args |-> args]

\* The requests the methods of Client make.
Requests ==
  LET argument == {TextOf(n) : n \in ArgumentSizes}
  IN {System(name, <<>>) : name \in {"ShowDatabases", "Help", "Reset", "Shutdown",
                                     "CloseConnection"}}
     \cup {System(name, <<a>>) : name \in {"Create", "Connect"}, a \in argument}
     \cup {DB(name, <<>>) : name \in {"ShowTables", "Commit"}}
     \cup {DB("ExecuteSQL", <<a>>) : a \in argument}
     \cup {DB("Import", <<a, b>>) : a, b \in argument}

\* A statement is answered in any way, another command with a message or not at
\* all, as a quiet server does.
RepliesTo(c) ==
  IF c \in {DB("ExecuteSQL", <<TextOf(n)>>) : n \in ArgumentSizes} THEN Replies
  ELSE {r \in Replies : r.variant \in {"Ok", "SystemMsg", "SystemErr", "QuietOk",
                                       "QuietErr", "Shutdown"}}

TooLarge == [error |-> "RequestTooLarge"]

\* Bug: the statement is measured, not what it is written as.
EncodeRequestBare(c) ==
  LET written == Encode(Client, "CommandWithArgs", c)
  IN IF \E i \in DOMAIN c.args : c.args[i].text[2] > MaxRequestBytes THEN TooLarge
     ELSE written

EncodeRequest(c) ==
  LET written == Encode(Client, "CommandWithArgs", c)
  IN IF Size(written) > MaxRequestBytes THEN TooLarge ELSE written

IntoOutcome(q) ==
  LET a == q.args[1]
  IN CASE q.variant = "MessageOnly" -> [message |-> a]
       [] q.variant = "Insert" -> [rows |-> a.inserted, table |-> a.table_name]
       [] q.variant = "Select" ->
            [schema |-> a.schema, paging_info |-> a.paging_info,
             rows |-> [i \in DOMAIN a.result |-> a.result[i].field_vals]]

Init ==
  /\ drift \in Edits
  /\ stage = "call" /\ command \in Requests
  /\ item = Null /\ executed = {} /\ reply = None /\ result = None

\* write_request
Call ==
  /\ stage = "call"
  /\ LET written == EncodeRequest(command)
     IN IF written = TooLarge
        THEN stage' = "done" /\ result' = TooLarge /\ UNCHANGED item
        ELSE stage' = "sent" /\ item' = written /\ UNCHANGED result
  /\ UNCHANGED <<drift, command, executed, reply>>

\* What the server can put into a Response of its own.
Sendable(r) == Decode(Server, "Response", Encode(Server, "Response", r)) # {}

\* The server reads once; a request it cannot decode ends the connection.
Received ==
  IF Size(item) > ServerBuffer THEN {}
  ELSE Decode(Server, "CommandWithArgs", item)

Drop ==
  /\ stage = "sent" /\ Received = {}
  /\ stage' = "done" /\ result' = [error |-> "ConnectionClosed"]
  /\ UNCHANGED <<drift, command, item, executed, reply>>

Serve ==
  /\ stage = "sent" /\ Received # {}
  /\ executed' = Received
  /\ reply' \in {r \in RepliesTo(command) : Sendable(r)}
  /\ item' = Encode(Server, "Response", reply')
  /\ stage' = "answered"
  /\ UNCHANGED <<drift, command, result>>

\* read_response, and into_outcome for the answer to a statement.
Receive ==
  /\ stage = "answered"
  /\ LET read == Decode(Client, "Response", item)
     IN result' = IF read = {} THEN [error |-> "Decode"]
                  ELSE LET r == CHOOSE r \in read : TRUE
                       IN IF r.variant = "QueryResult" THEN IntoOutcome(r.args[1])
                          ELSE [response |-> r]
  /\ stage' = "done"
  /\ UNCHANGED <<drift, command, item, executed, reply>>

Next == Call \/ Drop \/ Serve \/ Receive

Spec == Init /\ [][Next]_vars

-----------------------------------------------------------------------------
(* Properties.                                                             *)

\* Whether the client has made of `reply` what the server meant, with `paging`
\* for the paging information of a Select.
Conveyed(paging) ==
  IF reply.variant # "QueryResult" THEN result = [response |-> reply]
  ELSE LET q == reply.args[1]
           a == q.args[1]
       IN CASE q.variant = "MessageOnly" -> result = [message |-> a]
            [] q.variant = "Insert" ->
                 result = [rows |-> a.inserted, table |-> a.table_name]
            [] q.variant = "Select" ->
                 result = [schema |-> a.schema, paging_info |-> paging,
                           rows |-> [i \in DOMAIN a.result |-> a.result[i].field_vals]]

PagingOf(r) ==
  IF r.variant # "QueryResult" THEN None
  ELSE IF r.args[1].variant # "Select" THEN None
  ELSE r.args[1].args[1].paging_info

\* As long as the server's types are the client's, or differ from them only in
\* the order of fields or by a field more, every response is read, and the
\* outcome is what the server meant: the schema, every row in the server's
\* order, the paging information (the derives, Schema's own implementations, the
\* value_id that is not on the wire, into_outcome).
SameTypesAgree ==
  reply # None /\ stage = "done" /\ drift.edit \in {"none", "add", "reverse"} =>
    Conveyed(PagingOf(reply))

\* Types that have drifted are never misread: what the client decodes is what
\* the server meant, but for paging information under another name, which is
\* read as none; everything else is an error (variant and field names on the
\* wire, no defaults, integers out of range).
DriftNeverMisleads ==
  reply # None /\ stage = "done" /\ result # [error |-> "Decode"] =>
    \/ Conveyed(PagingOf(reply))
    \/ /\ drift.edit \in {"rename", "drop"}
       /\ drift.type = "Select" /\ drift.at = "paging_info"
       /\ Conveyed(None)

\* The server carries out the command of the call or nothing, whatever its types
\* have become, unless it has stopped to look at a part of the request; with the
\* client's types it carries out every command but those the client has refused,
\* and those are the ones it could not have read whole (encode_request, the 1024
\* bytes of codec.rs:12).
CarriesOutWhatWasCalled ==
  /\ \/ executed \subseteq {command}
     \/ drift.edit = "drop" /\ drift.type = "CommandWithArgs"
  /\ stage = "done" /\ drift.edit = "none" =>
       (executed = {}) = (result = TooLarge)
  /\ result = TooLarge => Size(Encode(Client, "CommandWithArgs", command)) > ServerBuffer
=============================================================================
