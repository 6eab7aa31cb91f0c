----------------------------- MODULE JsonValues -------------------------------
(***************************************************************************)
(* What the programs make of the JSON they read: they take a field over    *)
(* only when it has the type, and for enumerations one of the values, it   *)
(* may have; the others are as if they were not there.                     *)
(*                                                                         *)
(* A JSON value is a tuple of its type and its content: <<"string", s>>,   *)
(* <<"number", n>>, <<"boolean", b>>, <<"array", sequence of values>>,     *)
(* <<"object", function from fields to values>>, <<"null">>, and           *)
(* <<"fraction">> and <<"infinite">> for the other numbers.  A field that  *)
(* an object does not have is Undefined.                                   *)
(***************************************************************************)
EXTENDS Integers, Sequences, FiniteSets, SequencesExt, TLC

CONSTANT Trim(_)   \* the string without the blanks around it

Undefined == <<"undefined">>
IsObject(x) == x[1] \in {"object", "array"}
Fields(x) == IF x[1] = "object" THEN x[2] ELSE <<>>
Get(x, f) == IF f \in DOMAIN Fields(x) THEN Fields(x)[f] ELSE Undefined
Object(fields) ==
  <<"object", [f \in {g \in DOMAIN fields : fields[g] # Undefined} |-> fields[f]]>>
Unless(x, default) == IF x = Undefined THEN default ELSE x

(* What a field accepts; all others are as if the field was not there.     *)
Text == <<"text">>
Flag == <<"flag">>
Number == <<"number">>
Natural == <<"natural">>
Positive == <<"positive">>
Words == <<"words">>
OneOf(values) == <<"oneOf", values>>

normalizeDependencyIDs(x) ==
  LET strings == SelectSeq(x[2], LAMBDA e : e[1] = "string")
      trimmed == SelectSeq([i \in DOMAIN strings |-> Trim(strings[i][2])], LAMBDA s : s # "")
      first == SelectSeq([i \in DOMAIN trimmed |-> i], LAMBDA i : \A j \in 1..(i-1) : trimmed[j] # trimmed[i])
  IN IF x[1] # "array" THEN Undefined
     ELSE IF trimmed = <<>> THEN Undefined
     ELSE <<"array", [k \in DOMAIN first |-> <<"string", trimmed[first[k]]>>]>>

Accepted(kind, x) ==
  LET taken == CASE kind[1] = "text" -> x[1] = "string"
                 [] kind[1] = "flag" -> x[1] = "boolean"
                 [] kind[1] = "number" -> x[1] = "number"
                 [] kind[1] = "natural" -> x[1] = "number" /\ x[2] >= 0
                 [] kind[1] = "positive" -> x[1] = "number" /\ x[2] > 0
                 [] kind[1] = "oneOf" -> x[1] = "string" /\ x[2] \in kind[2]
                 [] OTHER -> FALSE
  IN IF kind = Words THEN normalizeDependencyIDs(x) ELSE IF taken THEN x ELSE Undefined

Taken(schema, x) == [f \in DOMAIN schema |-> Accepted(schema[f], Get(x, f))]
=============================================================================
