----------------------------- MODULE Conversion -----------------------------
(***************************************************************************)
(* Reading a Value as a Rust type: the as_* accessors of Value and the     *)
(* FromValue implementations.  A value is a record of its SQL type and its *)
(* datum; the datum of an integer is the integer, that of a decimal its    *)
(* unscaled integer, that of NULL is NoDatum.                              *)
(***************************************************************************)
EXTENDS Integers

CONSTANTS
  Bits,    \* the width of every Rust integer type, by its name
  NoDatum  \* what there is to read from NULL

IntegerTypes  == {"i64", "i32", "i16", "i8", "isize", "u64", "u32", "u16", "u8", "usize"}
UnsignedTypes == {"u64", "u32", "u16", "u8", "usize"}

ASSUME WidthsAreNumbers == Bits \in [IntegerTypes -> Nat \ {0}]

Targets == IntegerTypes \cup {"f64", "bool", "&str", "String", "&Value", "Value"}

SqlIntegers == {"BIGINT", "INT", "SMALLINT"}
SqlNumbers  == SqlIntegers \cup {"DECIMAL"}
SqlText     == {"CHAR", "VARCHAR"}
SqlTypes    == SqlNumbers \cup SqlText \cup {"DATE", "BOOL", "NULL"}

\* The integers a Rust type holds.
Holds(T) == IF T \in UnsignedTypes THEN 0 .. 2 ^ Bits[T] - 1
            ELSE -(2 ^ (Bits[T] - 1)) .. 2 ^ (Bits[T] - 1) - 1

\* The SQL types whose values an accessor, and with it a target, takes: as_i64,
\* as_f64, as_bool, as_str; Value and &Value take them all.
Readable(T) ==
  CASE T \in IntegerTypes         -> SqlIntegers
    [] T = "f64"                  -> SqlNumbers
    [] T = "bool"                 -> {"BOOL"}
    [] T \in {"&str", "String"}   -> SqlText
    [] T \in {"&Value", "Value"}  -> SqlTypes

Read(datum)    == [kind |-> "Ok", datum |-> datum]
Failed(reason) == [kind |-> "Conversion", reason |-> reason]

\* T::from_value, after which an Option<T> is only concerned with NULL.
FromBare(T, value) ==
  IF value.type \notin Readable(T) THEN Failed("cannot read as this type")
  ELSE IF T \in IntegerTypes /\ value.datum \notin Holds(T)
       THEN Failed("value out of range")
       ELSE Read(value.datum)

\* Bug: an integer that does not fit is cut to the width of its target.
FromValueWraps(T, optional, value) ==
  IF optional /\ value.type = "NULL" THEN Read(NoDatum)
  ELSE IF T \in IntegerTypes /\ value.type \in SqlIntegers
       THEN Read(value.datum % 2 ^ Bits[T])
       ELSE FromBare(T, value)

\* from_value of T, or of Option<T>; None is read as NoDatum.
FromValue(T, optional, value) ==
  IF optional /\ value.type = "NULL" THEN Read(NoDatum)
  ELSE FromBare(T, value)
=============================================================================
