----------------------------- MODULE MCAlgorithms -----------------------------
(* The algorithms that have no process of their own, each by itself on       *)
(* bounded inputs: the initial state says which of them it is.              *)
EXTENDS BodyReaders, ByteQueue, SanitizeRequest

VARIABLE algorithm
-----------------------------------------------------------------------------
(* Requests: one that has everything, at every depth, with an unlisted field *)
(* in each of its objects, and up to two of its places changed.             *)

AText == Text("m1")
JsonArray(item) == Array([i \in {"0"} |-> item])

Call == Object([name |-> AText, extra |-> AText])

Complete ==
  Object([
    model |-> AText, stream |-> Boolean, extra |-> Call,
    messages |-> JsonArray(Object([
      role |-> AText, content |-> Call, extra |-> AText, function_call |-> Call,
      tool_calls |-> JsonArray(Object([function |-> Call, extra |-> AText]))])),
    tools |-> JsonArray(Object([extra |-> AText, function |-> Call])),
    response_format |-> Object([extra |-> AText, json_schema |-> Call]),
    stream_options |-> Object([include_usage |-> AText, extra |-> AText])])

IsParent(value) == value.type \in {"object", "array"}

RECURSIVE PathsOf(_), Put(_, _, _)

PathsOf(value) ==
  {<<>>} \cup
  IF ~IsParent(value) THEN {}
  ELSE UNION {{<<name>> \o path : path \in PathsOf(value.fields[name])} :
                name \in DOMAIN value.fields}

\* What JSON.parse returns has no undefined fields.
WithoutUndefined(value) ==
  [value EXCEPT !.fields =
    [name \in {n \in DOMAIN @ : @[n] # Undefined} |-> @[name]]]

Put(value, path, new) ==
  IF path = <<>> THEN new
  ELSE IF ~IsParent(value) \/ Head(path) \notin DOMAIN value.fields THEN value
  ELSE WithoutUndefined(
         [value EXCEPT !.fields[Head(path)] = Put(@, Tail(path), new)])

Replacements ==
  {Text(""), Text("m2"), Null, Undefined,
   Object([extra |-> AText]), JsonArray(Call)}

Changed(value) ==
  {Put(value, path, new) :
    path \in PathsOf(Complete) \ {<<>>}, new \in Replacements}
-----------------------------------------------------------------------------
NoRequest == Undefined

NoReader ==
  /\ reader = "none" /\ declared = -1 /\ pending = <<>> /\ lines = <<>>
  /\ outcome = "none" /\ received = <<>>

Init ==
  /\ algorithm \in {"readers", "queue", "sanitizer"}
  /\ IF algorithm = "readers" THEN ReadersInit ELSE NoReader
  /\ QueueInit
  /\ request = IF algorithm = "sanitizer" THEN Complete ELSE NoRequest

\* The first step changes the request twice.
Change ==
  /\ request = Complete
  /\ \/ request' \in {AText, Null, JsonArray(Complete)}
     \/ \E once \in Changed(Complete) : request' \in Changed(once)

Next ==
  /\ UNCHANGED algorithm
  /\ \/ algorithm = "readers" /\ ReadersNext /\ UNCHANGED <<queueVars, request>>
     \/ algorithm = "queue" /\ QueueNext /\ UNCHANGED <<readerVars, request>>
     \/ algorithm = "sanitizer" /\ Change /\ UNCHANGED <<readerVars, queueVars>>

Spec == Init /\ [][Next]_<<algorithm, readerVars, queueVars, request>>
=============================================================================
