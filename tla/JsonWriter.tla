----------------------------- MODULE JsonWriter -----------------------------
(***************************************************************************)
(* write_json (crates/schema/src/lib.rs): a handler's return value as JSON *)
(* text, and a reference reader of JSON to check it with.                  *)
(*                                                                         *)
(* A Python value is a record of its type, its text (a sequence of         *)
(* characters; one word for a number or a boolean) and its items (values;  *)
(* for a dict, entries).  The output is a sequence of characters and       *)
(* words; the characters that mean something in JSON go by their names.   *)
(* The code only appends to its buffer; here a write returns what it       *)
(* appends.  Values nest to a finite depth; the code has no limit on       *)
(* its recursion.                                                          *)
(***************************************************************************)
EXTENDS Integers, Sequences, SequencesExt

CONSTANTS
    Values,         \* what handlers may return, with all that is inside it
    Height(_)       \* how deep a value nests

Scalar(type, text) == [type |-> type, text |-> text, items |-> <<>>]
Container(type, items) == [type |-> type, text |-> <<>>, items |-> items]
Entry(key, value) == [key |-> key, value |-> value]

\* What a value of JSON text begins or ends with, if it is not a number.
Marks == {"null", "true", "false", "quote", "lbracket", "rbracket", "lbrace",
          "rbrace", "comma", "colon"}

\* The shapes of a value: a constant, a number, a string, a list or tuple, a
\* dict, with values of a smaller height inside.
IsConstant(value) ==
    value \in {Scalar("None", <<>>), Scalar("other", <<>>),
               Scalar("bool", <<"true">>), Scalar("bool", <<"false">>)}
IsNumber(value) ==
    /\ value.type \in {"int", "float"}
    /\ value.text[1] \in STRING \ Marks
    /\ value = Scalar(value.type, <<value.text[1]>>)
IsString(value) ==
    /\ value.text \in Seq(STRING)
    /\ value = Scalar("str", value.text)
IsSequence(value) ==
    /\ value.type \in {"list", "tuple"}
    /\ value = Container(value.type, value.items)
    /\ value.items \in Seq(Values)
    /\ \A k \in DOMAIN value.items : Height(value.items[k]) < Height(value)
IsMapping(value) ==
    /\ value = Container("dict", value.items)
    /\ value.items \in Seq(Range(value.items))
    /\ \A k \in DOMAIN value.items :
           LET entry == value.items[k] IN
           /\ entry.value \in Values
           /\ Height(entry.value) < Height(value)
           /\ entry.key.type = "str" => entry.key.text \in Seq(STRING)

ASSUME ValuesAssumption ==
    \A value \in Values :
        /\ Height(value) \in Nat
        /\ \/ IsConstant(value) \/ IsNumber(value) \/ IsString(value)
           \/ IsSequence(value) \/ IsMapping(value)

\* cast::<T>(): bool is a subclass of int.
CastsTo(value, type) ==
    value.type = type \/ (type = "int" /\ value.type = "bool")

\* Words outside the i64 range, non-finite floats, and a character that has no
\* UTF-8 encoding (a lone surrogate).
OutOfRange == {"9223372036854775808"}
NonFinite == {"nan", "inf"}
Encodable(text) == "surrogate" \notin Range(text)

IntWord(value) == IF value.type # "bool" THEN value.text[1]
                  ELSE IF value.text[1] = "true" THEN "1" ELSE "0"

\* f64's Display writes a whole number without its fraction.
FloatWord(value) == IF value.text[1] = "7.0" THEN "7" ELSE value.text[1]

Ok(out) == [ok |-> TRUE, out |-> out]
Err(out) == [ok |-> FALSE, out |-> out]

\* Seeded fault: the backslash passes through.
EscapeAllButBackslash(character) ==
    CASE character = "quote" -> <<"backslash", "quote">>
      [] character = "newline" -> <<"backslash", "n">>
      [] character = "control" -> <<"backslash", "u0001">>
      [] OTHER -> <<character>>

\* The match of write_json_string; "control" stands for the control characters
\* without a short escape.
Escape(character) ==
    CASE character = "quote" -> <<"backslash", "quote">>
      [] character = "backslash" -> <<"backslash", "backslash">>
      [] character = "newline" -> <<"backslash", "n">>
      [] character = "return" -> <<"backslash", "r">>
      [] character = "tab" -> <<"backslash", "t">>
      [] character = "control" -> <<"backslash", "u0001">>
      [] OTHER -> <<character>>

write_json_string(text) ==
    <<"quote">> \o FlattenSeq([k \in DOMAIN text |-> Escape(text[k])])
        \o <<"quote">>

\* One item after the other; the first error ends it, with the part written
\* so far left in the buffer.  written[k] is what writing item k appends.
WriteEach(open, written, close) ==
    LET failed == {k \in DOMAIN written : ~written[k].ok}
        last == IF failed = {} THEN Len(written) ELSE Min(failed)
        items == [k \in 1..last |-> IF k = 1 THEN written[k].out
                                    ELSE <<"comma">> \o written[k].out]
    IN  IF failed = {} THEN Ok(<<open>> \o FlattenSeq(items) \o <<close>>)
        ELSE Err(<<open>> \o FlattenSeq(items))

WriteEntry(key, written) ==
    IF ~CastsTo(key, "str") \/ ~Encodable(key.text) THEN Err(<<>>)
    ELSE [written EXCEPT !.out =
             write_json_string(key.text) \o <<"colon">> \o @]

WriteInt(value) ==
    IF IntWord(value) \in OutOfRange THEN Err(<<>>) ELSE Ok(<<IntWord(value)>>)

WriteFloat(value) ==
    IF value.text[1] \in NonFinite THEN Err(<<>>) ELSE Ok(<<FloatWord(value)>>)

\* write_json, where inner is what it does with the values inside.  The casts
\* are tried in this order.
WriteValue(value, inner) ==
    IF value.type = "None" THEN Ok(<<"null">>)
    ELSE IF CastsTo(value, "bool") THEN Ok(<<value.text[1]>>)
    ELSE IF CastsTo(value, "int") THEN WriteInt(value)
    ELSE IF CastsTo(value, "float") THEN WriteFloat(value)
    ELSE IF CastsTo(value, "str")
         THEN IF Encodable(value.text) THEN Ok(write_json_string(value.text))
              ELSE Err(<<>>)
    ELSE IF CastsTo(value, "dict")
         THEN WriteEach("lbrace",
                        [k \in DOMAIN value.items |->
                            WriteEntry(value.items[k].key,
                                       inner[value.items[k].value])],
                        "rbrace")
    ELSE IF CastsTo(value, "list") \/ CastsTo(value, "tuple")
         THEN WriteEach("lbracket",
                        [k \in DOMAIN value.items |-> inner[value.items[k]]],
                        "rbracket")
    ELSE Err(<<>>)

write_json[value \in Values] == WriteValue(value, write_json)

-----------------------------------------------------------------------------
(***************************************************************************)
(* Reference: what JSON text means (RFC 8259), and which values have one   *)
(***************************************************************************)

\* Two words for one number.
Number(word) == IF word = "7.0" THEN "7" ELSE word

\* The JSON value of a Python value: one kind of number, one of array.
JsonValue(value, inner) ==
    CASE value.type \in {"int", "float"} ->
            Scalar("number", <<Number(value.text[1])>>)
      [] value.type \in {"list", "tuple"} ->
            Container("array", [k \in DOMAIN value.items |->
                                   inner[value.items[k]]])
      [] value.type = "dict" ->
            Container("dict", [k \in DOMAIN value.items |->
                                  Entry(value.items[k].key.text,
                                        inner[value.items[k].value])])
      [] OTHER -> value
Json[value \in Values] == JsonValue(value, Json)

HasJson(value, inner) ==
    CASE value.type = "other" -> FALSE
      [] value.type = "int" -> value.text[1] \notin OutOfRange
      [] value.type = "float" -> value.text[1] \notin NonFinite
      [] value.type = "str" -> Encodable(value.text)
      [] value.type = "dict" ->
            \A k \in DOMAIN value.items :
                /\ value.items[k].key.type = "str"
                /\ Encodable(value.items[k].key.text)
                /\ inner[value.items[k].value]
      [] OTHER -> \A k \in DOMAIN value.items : inner[value.items[k]]
Serializable[value \in Values] == HasJson(value, Serializable)

\* A reader returns what it read and where it stopped; next = 0 is failure.
ReadAs(value, next) == [value |-> value, next |-> next]
Unreadable == ReadAs(<<>>, 0)

\* One more character or member before what was read after it.
Preceded(value, rest) ==
    IF rest.next = 0 THEN Unreadable
    ELSE ReadAs(<<value>> \o rest.value, rest.next)

Unescaped == [e \in {"quote", "backslash", "n", "r", "t", "u0001"} |->
                 CASE e = "n" -> "newline" [] e = "r" -> "return"
                   [] e = "t" -> "tab" [] e = "u0001" -> "control"
                   [] OTHER -> e]

\* The characters of a string from the one at i to the closing quote; later is
\* what is read from further on.
ReadChars(out, i, later) ==
    IF i > Len(out) THEN Unreadable
    ELSE IF out[i] = "quote" THEN ReadAs(<<>>, i + 1)
    ELSE IF out[i] = "backslash"
    THEN IF i < Len(out) /\ out[i + 1] \in DOMAIN Unescaped
         THEN Preceded(Unescaped[out[i + 1]], later[i + 2])
         ELSE Unreadable
    ELSE IF out[i] \in {"newline", "return", "tab", "control"} THEN Unreadable
    ELSE Preceded(out[i], later[i + 1])

ReadString(out) ==
    LET chars[i \in 1..(Len(out) + 2)] == ReadChars(out, i, chars) IN chars

\* The value at i.  What follows a bracket is the other bracket or members.
ReadContainer(out, i, type, mode, bracket, later) ==
    IF i < Len(out) /\ out[i + 1] = bracket
    THEN ReadAs(Container(type, <<>>), i + 2)
    ELSE ReadAs(Container(type, later[i + 1][mode].value),
                later[i + 1][mode].next)

ReadValue(out, i, later) ==
    LET string == ReadString(out)[i + 1] IN
    IF i > Len(out) THEN Unreadable
    ELSE CASE out[i] = "null" -> ReadAs(Scalar("None", <<>>), i + 1)
           [] out[i] \in {"true", "false"} ->
                 ReadAs(Scalar("bool", <<out[i]>>), i + 1)
           [] out[i] = "quote" ->
                 ReadAs(Scalar("str", string.value), string.next)
           [] out[i] = "lbracket" ->
                 ReadContainer(out, i, "array", "elements", "rbracket", later)
           [] out[i] = "lbrace" ->
                 ReadContainer(out, i, "dict", "entries", "rbrace", later)
           [] out[i] \notin Marks ->
                 ReadAs(Scalar("number", <<Number(out[i])>>), i + 1)
           [] OTHER -> Unreadable

\* The key, colon and value at i.
ReadEntry(out, i, later) ==
    LET key == ReadString(out)[i + 1]
        value == later[key.next + 1]["value"]
    IN  IF /\ i <= Len(out) /\ out[i] = "quote"
           /\ key.next \in i..Len(out) /\ out[key.next] = "colon"
        THEN ReadAs(Entry(key.value, value.value), value.next)
        ELSE Unreadable

\* The members of an array or an object from the one at i, which was read, to
\* the closing bracket.
ReadMembers(out, i, one, mode, bracket, later) ==
    IF one.next \notin i..Len(out) THEN Unreadable
    ELSE IF out[one.next] = bracket THEN ReadAs(<<one.value>>, one.next + 1)
    ELSE IF out[one.next] = "comma"
    THEN Preceded(one.value, later[one.next + 1][mode])
    ELSE Unreadable

ReadFrom(out, i, later) ==
    LET value == ReadValue(out, i, later)
        entry == ReadEntry(out, i, later)
    IN  [mode \in {"value", "elements", "entries"} |->
            CASE mode = "value" -> value
              [] mode = "elements" ->
                    ReadMembers(out, i, value, mode, "rbracket", later)
              [] mode = "entries" ->
                    ReadMembers(out, i, entry, mode, "rbrace", later)]

Read(out) ==
    LET from[i \in 1..(Len(out) + 1)] == ReadFrom(out, i, from) IN from

\* out is one JSON text, and it means `json`.
Means(out, json) == Read(out)[1]["value"] = ReadAs(json, Len(out) + 1)
=============================================================================
