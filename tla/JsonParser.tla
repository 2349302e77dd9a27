------------------------------ MODULE JsonParser -----------------------------
(***************************************************************************)
(* operator>> of a json value: a parser by recursive descent (json.hpp,    *)
(* class parser, without a callback and with exceptions) that builds the   *)
(* value while it asks the lexer for one token after the other.            *)
(*                                                                         *)
(* A call of parse_internal for a member or an element is a frame of the   *)
(* stack; the calls that have returned are in the members of their frame.  *)
(***************************************************************************)
EXTENDS JsonLexer

VARIABLES
  document,     (* the file that is read                                     *)
  last_token,
  stack,        (* the unfinished calls of parse_internal                    *)
  result,       (* what the call that returned last has parsed               *)
  pc,           (* "key", "value" or "return": where the innermost call is   *)
  outcome       (* "reading", "parsed" or the exception that ended it        *)

parserVars == <<document, last_token, stack, result, pc, outcome>>

-----------------------------------------------------------------------------
(* A JSON value: its type and what it holds.  An object holds a function   *)
(* of the keys, an array a sequence.                                       *)
Json(type, value) == [type |-> type, value |-> value]
EmptyObject == Json("object", <<>>)
EmptyArray == Json("array", <<>>)

(* Mutant: insert_or_assign.                                               *)
MutantEmplace(members, key, value) == (key :> value) @@ members

(* emplace: a key that is there keeps its value.                           *)
Emplace(members, key, value) ==
  IF key \in DOMAIN members THEN members ELSE members @@ (key :> value)

Bytes == document.bytes
NextToken == Scan(Bytes, last_token.at)
TokenAfter(token) == Scan(Bytes, token.at)

Frame(kind, members, key) == [kind |-> kind, members |-> members, key |-> key]
Push(frame) == stack' = <<frame>> \o stack
Top == stack[1]

Fail(exception) ==
  /\ outcome' = exception
  /\ UNCHANGED <<document, last_token, stack, result, pc>>

Reading == outcome = "reading"

-----------------------------------------------------------------------------
(* parse_internal with an opening bracket as its last token.               *)
OpenObject ==
  /\ Reading /\ pc = "value" /\ last_token.type = "begin_object"
  /\ last_token' = NextToken
  /\ IF NextToken.type = "end_object"
     THEN result' = EmptyObject /\ pc' = "return" /\ UNCHANGED stack
     ELSE Push(Frame("object", <<>>, <<>>)) /\ pc' = "key" /\ UNCHANGED result
  /\ UNCHANGED <<document, outcome>>

OpenArray ==
  /\ Reading /\ pc = "value" /\ last_token.type = "begin_array"
  /\ last_token' = NextToken
  /\ IF NextToken.type = "end_array"
     THEN result' = EmptyArray /\ pc' = "return" /\ UNCHANGED stack
     ELSE Push(Frame("array", <<>>, <<>>)) /\ pc' = "value" /\ UNCHANGED result
  /\ UNCHANGED <<document, outcome>>

(* A key, a colon and the first token of the value.                        *)
ReadKey ==
  /\ Reading /\ pc = "key"
  /\ last_token.type = "value_string" /\ NextToken.type = "name_separator"
  /\ stack' = [stack EXCEPT ![1].key = last_token.value]
  /\ last_token' = TokenAfter(NextToken)
  /\ pc' = "value"
  /\ UNCHANGED <<document, result, outcome>>

ExpectKey ==
  /\ Reading /\ pc = "key"
  /\ last_token.type # "value_string" \/ NextToken.type # "name_separator"
  /\ Fail("parse_error.101")

(* A value of one token.                                                   *)
ScalarType ==
  "literal_null" :> "null" @@ "literal_true" :> "true" @@ "literal_false" :> "false"
    @@ "value_string" :> "string" @@ "value_unsigned" :> "number_unsigned"
    @@ "value_integer" :> "number_integer" @@ "value_float" :> "number_float"

TooLarge == last_token.type = "value_float" /\ ~Finite(last_token.value)

ParseScalar ==
  /\ Reading /\ pc = "value"
  /\ last_token.type \in DOMAIN ScalarType /\ ~TooLarge
  /\ result' = Json(ScalarType[last_token.type], last_token.value)
  /\ pc' = "return"
  /\ UNCHANGED <<document, last_token, stack, outcome>>

NumberOverflow ==
  /\ Reading /\ pc = "value" /\ TooLarge
  /\ Fail("out_of_range.406")

ExpectValue ==
  /\ Reading /\ pc = "value"
  /\ last_token.type \notin DOMAIN ScalarType \cup {"begin_object", "begin_array"}
  /\ Fail("parse_error.101")

(* The call for a member or an element has returned: a comma, or the end.  *)
Members ==
  IF Top.kind = "object" THEN Emplace(Top.members, Top.key, result) ELSE Append(Top.members, result)

Close(kind) == IF kind = "object" THEN "end_object" ELSE "end_array"

(* Mutant: a comma may stand before the closing bracket.                   *)
MutantNextMember ==
  /\ Reading /\ pc = "return" /\ stack # <<>>
  /\ NextToken.type = "value_separator"
  /\ last_token' = TokenAfter(NextToken)
  /\ IF last_token'.type = Close(Top.kind)
     THEN result' = Json(Top.kind, Members) /\ stack' = Tail(stack) /\ UNCHANGED pc
     ELSE /\ stack' = [stack EXCEPT ![1].members = Members]
          /\ pc' = IF Top.kind = "object" THEN "key" ELSE "value"
          /\ UNCHANGED result
  /\ UNCHANGED <<document, outcome>>

NextMember ==
  /\ Reading /\ pc = "return" /\ stack # <<>>
  /\ NextToken.type = "value_separator"
  /\ stack' = [stack EXCEPT ![1].members = Members]
  /\ last_token' = TokenAfter(NextToken)
  /\ pc' = IF Top.kind = "object" THEN "key" ELSE "value"
  /\ UNCHANGED <<document, result, outcome>>

LastMember ==
  /\ Reading /\ pc = "return" /\ stack # <<>>
  /\ NextToken.type = Close(Top.kind)
  /\ result' = Json(Top.kind, Members)
  /\ last_token' = NextToken
  /\ stack' = Tail(stack)
  /\ UNCHANGED <<document, pc, outcome>>

ExpectClose ==
  /\ Reading /\ pc = "return" /\ stack # <<>>
  /\ NextToken.type \notin {"value_separator", Close(Top.kind)}
  /\ Fail("parse_error.101")

(* parse(false, j): what follows the value is not looked at.               *)
Parsed ==
  /\ Reading /\ pc = "return" /\ stack = <<>>
  /\ outcome' = "parsed"
  /\ UNCHANGED <<document, last_token, stack, result, pc>>

InitParser ==
  /\ last_token = Scan(Bytes, Start(Bytes))
  /\ stack = <<>>
  /\ result = Json("discarded", <<>>)
  /\ pc = "value"
  /\ outcome = "reading"

Parse ==
  \/ OpenObject \/ OpenArray \/ ReadKey \/ ExpectKey
  \/ ParseScalar \/ NumberOverflow \/ ExpectValue
  \/ NextMember \/ LastMember \/ ExpectClose
  \/ Parsed
=============================================================================
