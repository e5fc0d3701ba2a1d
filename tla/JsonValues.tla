------------------------------ MODULE JsonValues ------------------------------
(***************************************************************************)
(* JSON values as nlohmann::json holds them, and absl::StatusOr.           *)
(*                                                                         *)
(* A value is <<kind, content>>.  A text is a sequence of tokens, each a   *)
(* character or a word that need not be taken apart; an object is a        *)
(* function from texts; a number is described in JsonNumbers.              *)
(***************************************************************************)
EXTENDS Integers, Sequences

JsonNull == <<"null">>
JsonBool(b) == <<"boolean", b>>
JsonNumber(number) == <<"number", number>>
JsonString(text) == <<"string", text>>
JsonArray(values) == <<"array", values>>
JsonObject(members) == <<"object", members>>

KindOf(value) == value[1]
Content(value) == value[2]
IsArray(value) == KindOf(value) = "array"
IsString(value) == KindOf(value) = "string"
IsNumber(value) == KindOf(value) = "number"
IsPrimitive(value) == KindOf(value) \notin {"array", "object"}
Size(value) == Len(Content(value))

\* absl::StatusOr
Ok(value) == [code |-> "OK", value |-> value]
Invalid == [code |-> "INVALID_ARGUMENT", value |-> JsonNull]
NotFound == [code |-> "NOT_FOUND", value |-> JsonNull]
IsOk(status) == status.code = "OK"
=============================================================================
