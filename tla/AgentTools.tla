------------------------------ MODULE AgentTools ------------------------------
(***************************************************************************)
(* The tools of an agent: the registry that looks a tool up, validates the *)
(* arguments and runs it (ToolDefinition and ToolRegistry of               *)
(* src/src/agent/types.rs), the dispatcher and the standard tools of       *)
(* agent/tools.rs over a store.                                            *)
(*                                                                         *)
(* An argument is [type, value]; keys are numbers in their order.  What a  *)
(* tool returns is cut down to what a caller can tell apart.               *)
(***************************************************************************)
EXTENDS Integers, Sequences, FiniteSets, Functions

CONSTANTS
    ToolKeys,       \* integers
    ToolValues,
    Operands,       \* of the calculator, integers
    ScanLimits,
    MaxBatch        \* calls dispatched at once, a bound

ASSUME ToolNumbers ==
    /\ ToolKeys \subseteq Int /\ IsFiniteSet(ToolKeys)
    /\ ScanLimits \subseteq Nat /\ MaxBatch \in Nat

VARIABLES
    kv,         \* the store: a function from the keys that it has
    batch       \* observer: the last batch [before, calls, outputs], {} before it

toolVars == <<kv, batch>>

-----------------------------------------------------------------------------
(* Definitions: the parameters, and which of them are required             *)

ToolParams ==
    [kv_get |-> {"key"}, kv_put |-> {"key", "value"}, kv_delete |-> {"key"},
     kv_scan |-> {"start_key", "limit"}, calculator |-> {"operation", "a", "b"}, echo |-> {"message"}]
RequiredParams == [ToolParams EXCEPT !.kv_scan = {"start_key"}]

\* create_standard_tool_registry with a store.
Registered == DOMAIN ToolParams

\* validate_arguments: types are not looked at.
Validates(tool, args) == RequiredParams[tool] \subseteq DOMAIN args

HasType(args, p, type) == p \in DOMAIN args /\ args[p].type = type

-----------------------------------------------------------------------------
(* Tools: [ok, result, kv]                                                 *)

Fails(store) == [ok |-> FALSE, result |-> "error", kv |-> store]
Returns(result, store) == [ok |-> TRUE, result |-> result, kv |-> store]

KvGet(args, store) ==
    IF ~ HasType(args, "key", "string") THEN Fails(store)
    ELSE LET k == args.key.value
         IN  Returns(IF k \in DOMAIN store THEN {store[k]} ELSE {}, store)

KvPut(args, store) ==
    IF ~ HasType(args, "key", "string") \/ ~ HasType(args, "value", "string") THEN Fails(store)
    ELSE LET k == args.key.value
         IN  Returns("written", [j \in DOMAIN store \cup {k} |->
                                   IF j = k THEN args.value.value ELSE store[j]])

KvDelete(args, store) ==
    IF ~ HasType(args, "key", "string") THEN Fails(store)
    ELSE Returns("deleted", [j \in DOMAIN store \ {args.key.value} |-> store[j]])

\* A limit that is no number is 20.
ScanLimit(args) == IF HasType(args, "limit", "number") THEN args.limit.value ELSE 20

\* The keys from the start on in their order, cut off.
KvScan(args, store) ==
    IF ~ HasType(args, "start_key", "string") THEN Fails(store)
    ELSE LET keys == {k \in DOMAIN store : k >= args.start_key.value}
             size == Cardinality(keys)
             found == [n \in 1..size |-> CHOOSE k \in keys : Cardinality({j \in keys : j < k}) = n - 1]
         IN  Returns(SubSeq(found, 1, IF ScanLimit(args) < size THEN ScanLimit(args) ELSE size), store)

\* The result is a number, or what JSON makes of one that is not finite.
Calculator(args, store) ==
    IF \/ ~ HasType(args, "operation", "string")
       \/ ~ HasType(args, "a", "number") \/ ~ HasType(args, "b", "number") THEN Fails(store)
    ELSE LET op == args.operation.value
             a == args.a.value
             b == args.b.value
         IN  IF op \notin {"add", "sub", "mul", "div", "pow", "mod"} \/ (op = "div" /\ b = 0)
               THEN Fails(store)
             ELSE IF (op = "mod" /\ b = 0) \/ (op = "pow" /\ a = 0 /\ b < 0)
               THEN Returns("null", store)
             ELSE Returns("number", store)

\* A message that is no string is echoed as the empty one.
Echo(args, store) ==
    Returns(IF HasType(args, "message", "string") THEN "message" ELSE "empty", store)

RunTool(tool, args, store) ==
    CASE tool = "kv_get" -> KvGet(args, store)
      [] tool = "kv_put" -> KvPut(args, store)
      [] tool = "kv_delete" -> KvDelete(args, store)
      [] tool = "kv_scan" -> KvScan(args, store)
      [] tool = "calculator" -> Calculator(args, store)
      [] tool = "echo" -> Echo(args, store)

-----------------------------------------------------------------------------
(* Registry and dispatcher                                                 *)

\* ToolRegistry::execute: an unknown tool, arguments that are missing and an error of the
\* tool are outputs too.
Execute(call, store) ==
    IF call.tool \notin Registered \/ ~ Validates(call.tool, call.args) THEN Fails(store)
    ELSE RunTool(call.tool, call.args, store)

\* What each call of a batch leaves to the one after it.
StoresAfter(calls, store) ==
    LET after[n \in 0..Len(calls)] ==
            IF n = 0 THEN store ELSE Execute(calls[n], after[n - 1]).kv
    IN  after

\* dispatch_batch: one after the other, whatever comes of them.
DispatchBatch(calls, store) ==
    LET stores == StoresAfter(calls, store)
        Output(n) == LET done == Execute(calls[n], stores[n - 1])
                     IN  [ok |-> done.ok, result |-> done.result]
    IN  [outputs |-> [n \in 1..Len(calls) |-> Output(n)], kv |-> stores[Len(calls)]]

-----------------------------------------------------------------------------
(* Calls: each argument there, missing, or of another type                 *)

Text(v) == [type |-> "string", value |-> v]
Number(n) == [type |-> "number", value |-> n]

SaidKeys == {Text(k) : k \in ToolKeys} \cup {Number(1)}
SaidNumbers == {Number(n) : n \in Operands}

\* What may be said for all parameters of a tool.
FullArguments ==
    [kv_get |-> [key : SaidKeys], kv_delete |-> [key : SaidKeys],
     kv_put |-> [key : SaidKeys, value : {Text(v) : v \in ToolValues}],
     kv_scan |-> [start_key : {Text(k) : k \in ToolKeys},
                  limit : {Number(n) : n \in ScanLimits} \cup {Text("many")}],
     calculator |-> [operation : {Text(op) : op \in {"add", "div", "mod", "pow", "log"}},
                     a : SaidNumbers, b : SaidNumbers],
     echo |-> [message : {Text("hello"), Number(1)}]]

\* Every way to say some of the parameters.
ArgumentsFor(tool) ==
    {[p \in said |-> args[p]] : said \in SUBSET ToolParams[tool], args \in FullArguments[tool]}

Calls ==
    (UNION {{[tool |-> tool, args |-> args] : args \in ArgumentsFor(tool)} : tool \in Registered})
      \cup {[tool |-> "unknown", args |-> [p \in {} |-> 0]]}

\* Any store that calls before have left.
ToolsInit == kv \in UNION {[ks -> ToolValues] : ks \in SUBSET ToolKeys} /\ batch = {}

Dispatch(calls) ==
    LET done == DispatchBatch(calls, kv)
    IN  /\ batch = {}
        /\ batch' = {[before |-> kv, calls |-> calls, outputs |-> done.outputs]}
        /\ kv' = done.kv

\* Storage tools in batches; the others, which leave the store alone, one at a time.
ToolsNext ==
    \/ \E n \in 0..MaxBatch : \E calls \in [1..n -> {c \in Calls : c.tool \in {"kv_get", "kv_put", "kv_delete"}}] :
         Dispatch(calls)
    \/ \E call \in Calls : Dispatch(<<call>>)

ToolsSpec == ToolsInit /\ [][ToolsNext]_toolVars

-----------------------------------------------------------------------------
(* Properties                                                              *)

\* Which calls can be done: all that is required is said, and as the right type.
Typed(call) ==
    LET text == {"key", "value", "start_key", "operation"} IN
    /\ call.tool \in Registered
    /\ \A p \in RequiredParams[call.tool] :
         /\ p \in DOMAIN call.args
         /\ p # "message" => call.args[p].type = IF p \in text THEN "string" ELSE "number"

\* The calls of a batch that wrote key k before its n-th.
Wrote(b, n, k) ==
    {i \in 1..(n - 1) : Typed(b.calls[i]) /\ b.calls[i].tool \in {"kv_put", "kv_delete"}
                          /\ b.calls[i].args.key.value = k}

\* What key k holds before the n-th call: what the last of them left, else what it held.
Holds(b, n, k) ==
    IF Wrote(b, n, k) # {}
      THEN LET c == b.calls[CHOOSE i \in Wrote(b, n, k) : \A j \in Wrote(b, n, k) : j <= i]
           IN  IF c.tool = "kv_put" THEN {c.args.value.value} ELSE {}
    ELSE IF k \in DOMAIN b.before THEN {b.before[k]} ELSE {}

\* A call that lacks something required fails and has no effect, another storage call succeeds;
\* a get sees the writes before it in the batch, a scan the first keys from its start.
OutputInOrder(b, i) ==
    LET call == b.calls[i]
        out == b.outputs[i]
        from == {k \in ToolKeys : k >= call.args.start_key.value /\ Holds(b, i, k) # {}}
    IN  /\ out.ok => Typed(call)
        /\ Typed(call) /\ call.tool # "calculator" => out.ok
        /\ out.ok /\ call.tool = "kv_get" => out.result = Holds(b, i, call.args.key.value)
        /\ out.ok /\ call.tool = "kv_scan" =>
             /\ Range(out.result) \subseteq from
             /\ \A j, m \in DOMAIN out.result : j < m => out.result[j] < out.result[m]
             /\ \A k \in from \ Range(out.result) :
                  /\ Len(out.result) = ScanLimit(call.args)
                  /\ \A seen \in Range(out.result) : seen < k

\* Every call of a batch has its output, what it did before the next one, and the store holds
\* all writes at the end (agent/tools.rs:49-51, agent/types.rs:1277-1316).
BatchesInOrder ==
    \A b \in batch :
        /\ Len(b.outputs) = Len(b.calls)
        /\ \A i \in 1..Len(b.calls) : OutputInOrder(b, i)
        /\ \A k \in ToolKeys :
             Holds(b, Len(b.calls) + 1, k) = IF k \in DOMAIN kv THEN {kv[k]} ELSE {}

-----------------------------------------------------------------------------
(* Statements of the repository that do not hold                           *)

\* "Performs mathematical arithmetic calculations" (agent/tools.rs:271): a calculation that
\* succeeds gives a number.
ResultsAreNumbers ==
    \A b \in batch : \A i \in DOMAIN b.calls :
        b.calls[i].tool = "calculator" /\ b.outputs[i].ok => b.outputs[i].result = "number"
=============================================================================
