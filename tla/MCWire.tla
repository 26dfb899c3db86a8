------------------------------- MODULE MCWire -------------------------------
(* Every variant of Response, QueryResult, Value, DataType and Constraint,  *)
(* one at a time, rows and columns in both orders, and every edit of every  *)
(* declaration; arguments so long that the request of a statement has 1023, *)
(* 1024 or 1025 bytes, and that of an import as many.                       *)
EXTENDS Wire

\* The widths of Rust's integers in their order, scaled down.
MCRanges ==
  [u8 |-> 0 .. 15, u16 |-> 0 .. 31, u32 |-> 0 .. 63, u64 |-> 0 .. 127,
   i16 |-> -16 .. 15, i32 |-> -32 .. 31, i64 |-> -64 .. 63, wide |-> -256 .. 255]

Whole(n)  == [int |-> n]
Yes     == [bool |-> TRUE]
A == [text |-> <<"a", 1>>]
B == [text |-> <<"b", 1>>]

Variant(name, args) == [variant |-> name, args |-> args]

Unit(names) == {Variant(n, <<>>) : n \in names}

EachDataType ==
  Unit({"BigInt", "Int", "SmallInt", "String", "Date", "Bool", "Null"})
  \cup {Variant("Char", <<Whole(15)>>), Variant("Decimal", <<Whole(10), Whole(4)>>)}

EachConstraint ==
  Unit({"None", "PrimaryKey", "Unique", "NotNull", "UniqueNotNull"})
  \cup {Variant("ForeignKey", <<Whole(3)>>), Variant("NotNullFKey", <<Whole(31)>>)}

EachValue ==
  Unit({"Null"})
  \cup {Variant("BigInt", <<Whole(-64)>>), Variant("Int", <<Whole(31)>>),
        Variant("SmallInt", <<Whole(-16)>>), Variant("Char", <<Whole(2), A>>),
        Variant("String", <<B>>), Variant("Decimal", <<Whole(-9), Whole(2)>>),
        Variant("Date", <<Whole(63)>>), Variant("Bool", <<Yes>>)}

Column(name, dtype, constraint) ==
  [name |-> name, dtype |-> dtype, constraint |-> constraint]

BigInt == Variant("BigInt", <<>>)
Plain  == Variant("None", <<>>)

Ids   == Column(A, BigInt, Variant("PrimaryKey", <<>>))
Names == Column(B, Variant("String", <<>>), Plain)

EachSchema ==
  {<<>>, <<Ids, Names>>, <<Names, Ids>>}
  \cup {<<Column(A, d, Plain)>> : d \in EachDataType}
  \cup {<<Column(A, BigInt, c)>> : c \in EachConstraint}

Row(tid, id, values) ==
  [tid |-> Whole(tid), value_id |-> id, field_vals |-> values]

Stored ==
  [some |-> [container_id |-> Whole(1), segment_id |-> None,
             page_id |-> [some |-> Whole(2)], slot_id |-> None]]

Alice == <<Variant("BigInt", <<Whole(1)>>), Variant("String", <<A>>)>>
Bob   == <<Variant("BigInt", <<Whole(2)>>), Variant("String", <<B>>)>>

EachResult ==
  {<<>>, <<Row(0, None, Alice), Row(0, None, Bob)>>,
   <<Row(2, Stored, Bob), Row(1, None, Alice)>>}
  \cup {<<Row(0, None, <<v>>)>> : v \in EachValue}

Page(total, size) ==
  [some |-> [current_page |-> Whole(0), total_pages |-> Whole(total),
             has_next_page |-> Yes, page_size |-> Whole(size)]]

Selected(schema, rows, paging) ==
  Variant("Select", <<[schema |-> schema, result |-> rows, paging_info |-> paging]>>)

EachQueryResult ==
  {Variant("MessageOnly", <<A>>),
   Variant("Insert", <<[inserted |-> Whole(3), table_name |-> B]>>),
   Variant("Insert", <<[inserted |-> Whole(200), table_name |-> B]>>)}
  \cup {Selected(s, <<Row(0, None, Alice), Row(0, None, Bob)>>, None) : s \in EachSchema}
  \cup {Selected(<<Ids, Names>>, r, Page(2, 3)) : r \in EachResult}
  \cup {Selected(<<Ids, Names>>, <<Row(t, None, Alice)>>, Page(p, 9)) :
          t \in {0, 200}, p \in {1, 200}}

MCReplies ==
  Unit({"Ok", "QuietOk", "QuietErr"})
  \cup {Variant(n, <<A>>) : n \in {"SystemMsg", "SystemErr", "QueryExecutionError"}}
  \cup {Variant("Shutdown", <<[bool |-> b]>>) : b \in BOOLEAN}
  \cup {Variant("QueryResult", <<q>>) : q \in EachQueryResult}

MCArgumentSizes == {5, 988, 989, 990, 991, 992}

\* The response of a real server that the repository keeps, its texts abstracted
\* (tests/fixtures/select_response.cbor), is what the server's declarations say.
Entry(name, data) == <<Name(name), data>>

Captured ==
  LET attribute(name, dtype, constraint) ==
        [map |-> <<Entry("name", name), Entry("dtype", Name(dtype)),
                   Entry("constraint", Name(constraint))>>]
      row(id, name) ==
        [map |-> <<Entry("tid", Whole(0)),
                   Entry("field_vals",
                         [array |-> <<Tagged("BigInt", <<Whole(id)>>),
                                      Tagged("String", <<name>>)>>])>>]
  IN Tagged("QueryResult", <<Tagged("Select",
       <<[map |-> <<Entry("schema", [array |-> <<attribute(A, "BigInt", "PrimaryKey"),
                                               attribute(B, "String", "None")>>]),
                  Entry("result", [array |-> <<row(1, A), row(2, B)>>]),
                  Entry("paging_info", Null)>>]>>)>>)

ASSUME FixtureAgrees ==
  Captured =
    Encode(Common, "Response",
           Variant("QueryResult",
             <<Selected(<<Ids, Names>>, <<Row(0, None, Alice), Row(0, None, Bob)>>,
                        None)>>))
=============================================================================
