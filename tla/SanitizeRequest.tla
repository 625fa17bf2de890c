--------------------------- MODULE SanitizeRequest ---------------------------
(***************************************************************************)
(* sanitize-request.ts: what the Exit forwards of the JSON value it opened.  *)
(* A value has a type; objects and arrays have fields, a function of their   *)
(* property names, which for an array are its indices, as in JavaScript.    *)
(* An ExitInvalidRequest that is thrown is the value Rejected.               *)
(***************************************************************************)
EXTENDS Integers, Functions

CONSTANTS
  allowedModels,  \* all models there are, if the argument is undefined
  MaxDepth        \* bound: how deep in the request a place is looked at

\* The function of a message's tool call is five steps below the request.
ASSUME DepthAssumption == MaxDepth \in Nat /\ MaxDepth >= 5

VARIABLE request  \* the value the Exit opened

Object(fields) == [type |-> "object", fields |-> fields]
Array(fields) == [type |-> "array", fields |-> fields]
Text(text) == [type |-> "string", text |-> text]
Boolean == [type |-> "boolean"]
Null == [type |-> "null"]
Undefined == [type |-> "undefined"]
Rejected == [type |-> "rejected"]

Names(value) ==
  IF value.type \in {"object", "array"} THEN DOMAIN value.fields ELSE {}

Field(value, name) == IF name \in Names(value) THEN value.fields[name] ELSE Undefined

ALLOWED_FIELDS ==
  {"model", "messages", "temperature", "top_p", "n", "stream", "stop",
   "max_tokens", "max_completion_tokens", "presence_penalty",
   "frequency_penalty", "logit_bias", "tools", "tool_choice",
   "response_format", "seed", "stream_options", "parallel_tool_calls",
   "reasoning_effort"}

MESSAGE_FIELDS ==
  {"role", "content", "refusal", "tool_calls", "tool_call_id",
   "function_call", "audio"}

TOOL_FIELDS == {"type", "function"}
FUNCTION_FIELDS == {"name", "description", "parameters", "strict"}
TOOL_CALL_FIELDS == {"id", "type", "function"}
FUNCTION_CALL_FIELDS == {"name", "arguments"}
RESPONSE_FORMAT_FIELDS == {"type", "json_schema"}
JSON_SCHEMA_FIELDS == {"name", "description", "schema", "strict"}
STREAM_OPTION_FIELDS == {"include_usage", "include_obfuscation"}
-----------------------------------------------------------------------------
copyFields(value, fields) ==
  IF value.type # "object" THEN Rejected
  ELSE Object(Restrict(value.fields, fields \cap DOMAIN value.fields))

\* The value with one of its fields sanitized, if it has that field.
WithField(value, name, Sanitize(_)) ==
  LET sanitized == Sanitize(value.fields[name]) IN
  IF value = Rejected \/ Field(value, name) = Undefined THEN value
  ELSE IF sanitized = Rejected THEN Rejected
  ELSE Object([value.fields EXCEPT ![name] = sanitized])

\* An array with each of its items sanitized.
WithItems(value, Sanitize(_)) ==
  LET sanitized == [i \in DOMAIN value.fields |-> Sanitize(value.fields[i])] IN
  IF value.type # "array" \/ \E i \in DOMAIN sanitized : sanitized[i] = Rejected
    THEN Rejected ELSE Array(sanitized)

FunctionCall(value) == copyFields(value, FUNCTION_CALL_FIELDS)

\* Faulty: forwards all there is in a tool call's function.
ToolCallUncut(value) == copyFields(value, TOOL_CALL_FIELDS)

ToolCall(value) ==
  WithField(copyFields(value, TOOL_CALL_FIELDS), "function", FunctionCall)

ToolCalls(value) == WithItems(value, ToolCall)

Message(value) ==
  LET message == copyFields(value, MESSAGE_FIELDS) IN
  IF Field(message, "role").type # "string" THEN Rejected
  ELSE WithField(WithField(message, "tool_calls", ToolCalls),
                 "function_call", FunctionCall)

sanitizeMessages(value) == WithItems(value, Message)

ToolFunction(value) == copyFields(value, FUNCTION_FIELDS)

Tool(value) == WithField(copyFields(value, TOOL_FIELDS), "function", ToolFunction)

sanitizeTools(value) == WithItems(value, Tool)

JsonSchema(value) == copyFields(value, JSON_SCHEMA_FIELDS)

ResponseFormat(value) ==
  WithField(copyFields(value, RESPONSE_FORMAT_FIELDS), "json_schema", JsonSchema)

StreamOptions(value) == copyFields(value, STREAM_OPTION_FIELDS)

HasModel(value) ==
  LET model == Field(value, "model") IN
  /\ model.type = "string" /\ model.text # ""
  /\ model.text \in allowedModels

HasRequired(value) ==
  /\ value.type = "object"
  /\ HasModel(value)
  /\ Field(value, "messages").type = "array"
  /\ Field(value, "stream").type \in {"undefined", "boolean"}

sanitizeChatRequest(value) ==
  LET copied == copyFields(value, ALLOWED_FIELDS)
      messages == WithField(copied, "messages", sanitizeMessages)
      tools == WithField(messages, "tools", sanitizeTools)
      format == WithField(tools, "response_format", ResponseFormat)
  IN IF HasRequired(value) THEN WithField(format, "stream_options", StreamOptions)
     ELSE Rejected
-----------------------------------------------------------------------------
(* The request as it is described: a kind for every place of the tree, with   *)
(* the value there and what is forwarded of it.  The value at an open place  *)
(* is forwarded as it is.                                                   *)

Listed ==
  [request |-> ALLOWED_FIELDS, message |-> MESSAGE_FIELDS, tool |-> TOOL_FIELDS,
   tool_function |-> FUNCTION_FIELDS, tool_call |-> TOOL_CALL_FIELDS,
   function_call |-> FUNCTION_CALL_FIELDS,
   response_format |-> RESPONSE_FORMAT_FIELDS,
   json_schema |-> JSON_SCHEMA_FIELDS, stream_options |-> STREAM_OPTION_FIELDS]

ItemKind == [messages |-> "message", tools |-> "tool", tool_calls |-> "tool_call"]

FieldKind ==
  [request |-> [messages |-> "messages", tools |-> "tools",
                response_format |-> "response_format",
                stream_options |-> "stream_options"],
   message |-> [tool_calls |-> "tool_calls", function_call |-> "function_call"],
   tool |-> [function |-> "tool_function"],
   tool_call |-> [function |-> "function_call"],
   response_format |-> [json_schema |-> "json_schema"]]

ChildKind(kind, name) ==
  CASE kind \in {"open", "dropped"} -> kind
    [] kind \in DOMAIN ItemKind -> ItemKind[kind]
    [] kind \in DOMAIN Listed /\ name \notin Listed[kind] -> "dropped"
    [] kind \in DOMAIN FieldKind /\ name \in DOMAIN FieldKind[kind] ->
         FieldKind[kind][name]
    [] OTHER -> "open"

Root ==
  [kind |-> "request", value |-> request, forwarded |-> sanitizeChatRequest(request)]

Child(place, name) ==
  [kind |-> ChildKind(place.kind, name), value |-> Field(place.value, name),
   forwarded |-> Field(place.forwarded, name)]

Children(place) ==
  {Child(place, name) : name \in Names(place.value) \cup Names(place.forwarded)}

PlacesAt[depth \in 0..MaxDepth] ==
  IF depth = 0 THEN {Root} ELSE UNION {Children(place) : place \in PlacesAt[depth - 1]}

Places == UNION {PlacesAt[depth] : depth \in 0..MaxDepth}

\* What JSON.parse returns has no undefined fields.
Parsed ==
  \A place \in Places :
    \A name \in Names(place.value) : Field(place.value, name) # Undefined

\* A value has the type of its place, and a message has a role.
WellFormed(place) ==
  /\ place.kind \in DOMAIN ItemKind => place.value.type = "array"
  /\ place.kind \in DOMAIN Listed => place.value.type = "object"
  /\ place.kind = "message" => Field(place.value, "role").type = "string"

Forwarded(place) ==
  CASE place.kind = "dropped" -> place.forwarded = Undefined
    [] place.kind = "open" -> place.forwarded = place.value
    [] OTHER -> place.forwarded.type = place.value.type

(***************************************************************************)
(* What reaches the provider is the request with exactly the listed fields  *)
(* of every object in it, at every depth, and a request is refused exactly   *)
(* if it is malformed at one of its places.                                 *)
(***************************************************************************)
SanitizedAsListed ==
  /\ sanitizeChatRequest(request) = Rejected <=>
       ~HasRequired(request) \/ \E place \in Places : ~WellFormed(place)
  /\ sanitizeChatRequest(request) # Rejected => \A place \in Places : Forwarded(place)
=============================================================================
