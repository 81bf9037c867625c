----------------------------- MODULE McpCatalog -----------------------------
(***************************************************************************)
(* What the MCP server offers and how it answers (src/src/mcp/server.rs,   *)
(* tools.rs, resources.rs, prompts.rs, handlers.rs): the lists a client    *)
(* asks for, and the tools, resources and prompts behind them, over a      *)
(* store and, if they are attached, a retrieval and an agent engine.       *)
(*                                                                         *)
(* Requests are answered one at a time.  Arguments are a function from     *)
(* names to values, and leaving out the object is the same as an empty     *)
(* one; 0 is the empty string.  An answer is a code, why it is one, and a  *)
(* body; the reasons for one code are told apart, as its messages do.      *)
(***************************************************************************)
EXTENDS Integers, Sequences, FiniteSets

CONSTANTS
    ArgValues,      \* numbers: keys, values, limits, texts
    MaxExchanges    \* bound: requests of a session

VARIABLES
    server,         \* enabled capabilities, attached engines, the store, tasks, the log level
    exchanges       \* requests and what was answered

catalogVars == <<server, exchanges>>

-----------------------------------------------------------------------------
(* Answers                                                                 *)

Success(body) == [code |-> "OK", why |-> "none", body |-> body]
Failure(code, why) == [code |-> code, why |-> why, body |-> {}]
InvalidParams == Failure("INVALID_PARAMS", "params")
Disabled == Failure("SERVER_ERROR_START", "disabled")
\* A tool's error.
ToolFailed(why) == Failure("INTERNAL_ERROR", why)

-----------------------------------------------------------------------------
(* Tools                                                                   *)

Tools == {"flash_get", "flash_put", "flash_delete", "flash_scan", "flash_stats",
          "flash_rag_query", "flash_agent_run"}

\* StandardToolSchemas: what each tool says it is called with.
Schema(tool) ==
    CASE tool \in {"flash_get", "flash_delete"} -> [required |-> {"key"}, optional |-> {}]
      [] tool = "flash_put" -> [required |-> {"key", "value"}, optional |-> {}]
      [] tool = "flash_scan" -> [required |-> {}, optional |-> {"start_key", "end_key", "limit"}]
      [] tool = "flash_stats" -> [required |-> {}, optional |-> {}]
      [] tool = "flash_rag_query" -> [required |-> {"query"}, optional |-> {"top_k"}]
      [] tool = "flash_agent_run" -> [required |-> {"task_id", "prompt"}, optional |-> {"priority"}]

\* Every tool but flash_scan and flash_stats fails without one of these.
Has(args, names) == names \subseteq DOMAIN args
GivenOr(args, name, default) == IF name \in DOMAIN args THEN args[name] ELSE default

\* What a tool may answer, and the server afterwards.
Kept(s, answer) == {[server |-> s, answer |-> answer]}
\* The store's errors are passed on.
OrFails(s, outcomes) == outcomes \union Kept(s, ToolFailed("store"))

GetTool(s, args) ==
    IF ~ Has(args, {"key"}) THEN Kept(s, ToolFailed("argument"))
    ELSE OrFails(s, Kept(s, Success({s.pairs[k] : k \in {args["key"]} \intersect DOMAIN s.pairs})))

PutTool(s, args) ==
    IF ~ Has(args, {"key", "value"}) THEN Kept(s, ToolFailed("argument"))
    ELSE OrFails(s, Kept([s EXCEPT !.pairs = [k \in DOMAIN @ \union {args["key"]} |->
                                                IF k = args["key"] THEN args["value"] ELSE @[k]]],
                         Success({})))

DeleteTool(s, args) ==
    IF ~ Has(args, {"key"}) THEN Kept(s, ToolFailed("argument"))
    ELSE OrFails(s, Kept([s EXCEPT !.pairs = [k \in DOMAIN @ \ {args["key"]} |-> @[k]]], Success({})))

\* The pairs of start <= key < end, an empty string being no bound, and the first of them.
ScanTool(s, args) ==
    LET start == GivenOr(args, "start_key", 0)
        end == GivenOr(args, "end_key", 0)
        limit == GivenOr(args, "limit", 50)
        within == {k \in DOMAIN s.pairs : k >= start /\ (end = 0 \/ k < end)}
    IN  OrFails(s, Kept(s, Success({<<k, s.pairs[k]>> :
                              k \in {x \in within : Cardinality({y \in within : y < x}) < limit}})))

\* Without an engine there are no hits, and it says so.
RagQueryTool(s, args) ==
    IF ~ Has(args, {"query"}) THEN Kept(s, ToolFailed("argument")) ELSE Kept(s, Success({}))

\* The attached engine keeps the task whether or not it can be executed; a fresh one, which
\* has a worker, is gone afterwards.
AgentRunTool(s, args) ==
    IF ~ Has(args, {"task_id", "prompt"}) THEN Kept(s, ToolFailed("argument"))
    ELSE IF "agent" \notin s.engines THEN Kept(s, Success({args["task_id"]}))
    ELSE LET submitted == [s EXCEPT !.tasks = @ \union {args["task_id"]}]
         IN  Kept(submitted, Success({args["task_id"]})) \union Kept(submitted, ToolFailed("agent"))

\* McpToolRegistry::call.
Call(s, tool, args) ==
    CASE tool = "flash_get" -> GetTool(s, args)
      [] tool = "flash_put" -> PutTool(s, args)
      [] tool = "flash_delete" -> DeleteTool(s, args)
      [] tool = "flash_scan" -> ScanTool(s, args)
      [] tool = "flash_stats" -> Kept(s, Success({}))
      [] tool = "flash_rag_query" -> RagQueryTool(s, args)
      [] tool = "flash_agent_run" -> AgentRunTool(s, args)
      [] OTHER -> Kept(s, ToolFailed("unknown"))

-----------------------------------------------------------------------------
(* Resources and prompts                                                   *)

\* The providers that are registered, and what each lists.
Providers(s) == {"storage"} \union s.engines
ListResources(provider) ==
    CASE provider = "storage" -> {"flash://stats", "flash://manifest"}
      [] provider = "rag" -> {"flash://rag/stats", "flash://rag/config"}
      [] provider = "agent" -> {"flash://agent/state", "flash://agent/agents"}

\* What each has contents for; anything else it does not find.
ReadResource(provider, uri) ==
    CASE provider = "storage" -> uri = "flash://stats" \/ uri = "flash://manifest"
      [] provider = "rag" -> uri = "flash://rag/stats" \/ uri = "flash://rag/config"
      [] provider = "agent" -> uri = "flash://agent/state" \/ uri = "flash://agent/agents"

Listed(s) == UNION {ListResources(p) : p \in Providers(s)}

Read(s, uri) ==
    IF \E p \in Providers(s) : ReadResource(p, uri) THEN Success({uri})
    ELSE Failure("INVALID_PARAMS", "unknown")

Prompts == {"flash_troubleshoot", "flash_rag_synthesize", "flash_agent_orchestrate"}

\* Faulty: the goal is said to be optional.
PromptDefinitionOptionalGoal(prompt) ==
    CASE prompt = "flash_troubleshoot" -> [required |-> {"issue"}, optional |-> {"component"}]
      [] prompt = "flash_rag_synthesize" -> [required |-> {"query", "context"}, optional |-> {}]
      [] prompt = "flash_agent_orchestrate" -> [required |-> {}, optional |-> {"goal", "roles"}]

PromptDefinition(prompt) ==
    CASE prompt = "flash_troubleshoot" -> [required |-> {"issue"}, optional |-> {"component"}]
      [] prompt = "flash_rag_synthesize" -> [required |-> {"query", "context"}, optional |-> {}]
      [] prompt = "flash_agent_orchestrate" -> [required |-> {"goal"}, optional |-> {"roles"}]

\* Not every argument that is said to be required is missed.
Render(prompt, args) ==
    CASE prompt = "flash_troubleshoot" -> Success({prompt})
      [] prompt = "flash_rag_synthesize" ->
           IF Has(args, {"query"}) THEN Success({prompt}) ELSE Failure("INVALID_PARAMS", "argument")
      [] prompt = "flash_agent_orchestrate" ->
           IF Has(args, {"goal"}) THEN Success({prompt}) ELSE Failure("INVALID_PARAMS", "argument")
      [] OTHER -> Failure("INVALID_PARAMS", "unknown")

-----------------------------------------------------------------------------
(* Requests                                                                *)

Levels == 1..8      \* debug to emergency

Capabilities == {"tools", "resources", "prompts", "logging"}
\* The capability a method is one of; the others have none.
CapabilityOf(method) ==
    CASE method \in {"tools/list", "tools/call"} -> {"tools"}
      [] method \in {"resources/list", "resources/read"} -> {"resources"}
      [] method \in {"prompts/list", "prompts/get"} -> {"prompts"}
      [] method = "logging/setLevel" -> {"logging"}
      [] OTHER -> {}

\* The handlers, behind their common checks: p are the parsed parameters.
HandleInitialize(s, p) == Kept(s, Success(s.enabled))
HandleToolsList(s) == Kept(s, Success(Tools))
HandleToolsCall(s, p) == Call(s, p.name, p.arguments)
HandleResourcesList(s) == Kept(s, Success(Listed(s)))
HandleResourcesRead(s, p) == Kept(s, Read(s, p.uri))
HandlePromptsList(s) == Kept(s, Success(Prompts))
HandlePromptsGet(s, p) == Kept(s, Render(p.name, p.arguments))
HandleSetLevel(s, p) ==
    IF p.level \in Levels THEN Kept([s EXCEPT !.level = p.level], Success({}))
    ELSE Kept(s, InvalidParams)

\* The methods that parse their parameters.
Parsing == {"initialize", "tools/call", "resources/read", "prompts/get", "logging/setLevel"}

\* handle_request: params are a set with the parsed parameters, empty where there are none
\* or they do not parse.
Answers(s, method, params) ==
    IF ~ (CapabilityOf(method) \subseteq s.enabled) THEN Kept(s, Disabled)
    ELSE CASE method \in {"ping", "notifications/initialized"} -> Kept(s, Success({}))
           [] method = "tools/list" -> HandleToolsList(s)
           [] method = "resources/list" -> HandleResourcesList(s)
           [] method = "prompts/list" -> HandlePromptsList(s)
           [] method \in Parsing /\ params = {} -> Kept(s, InvalidParams)
           [] method \in Parsing /\ params # {} -> UNION {
                CASE method = "initialize" -> HandleInitialize(s, p)
                  [] method = "tools/call" -> HandleToolsCall(s, p)
                  [] method = "resources/read" -> HandleResourcesRead(s, p)
                  [] method = "prompts/get" -> HandlePromptsGet(s, p)
                  [] method = "logging/setLevel" -> HandleSetLevel(s, p)
                : p \in params}
           [] OTHER -> Kept(s, Failure("METHOD_NOT_FOUND", "method"))

Arguments(names) == UNION {[D -> ArgValues] : D \in SUBSET names}
CallParams(names, Definition(_)) ==
    (UNION {[name : {n}, arguments : Arguments(Definition(n).required \union Definition(n).optional)] :
              n \in names}) \union {[name |-> "other", arguments |-> << >>]}

Requests ==
    {[method |-> m, params |-> {}] :
       m \in {"initialize", "ping", "notifications/initialized", "tools/list", "tools/call", "resources/list",
              "resources/read", "prompts/list", "prompts/get", "logging/setLevel", "other"}}
      \union {[method |-> "initialize", params |-> {{}}]}
      \union {[method |-> "tools/call", params |-> {p}] : p \in CallParams(Tools, Schema)}
      \union {[method |-> "prompts/get", params |-> {p}] : p \in CallParams(Prompts, PromptDefinition)}
      \union {[method |-> "resources/read", params |-> {[uri |-> u]}] :
                u \in (UNION {ListResources(p) : p \in {"storage", "rag", "agent"}}) \union {"other"}}
      \union {[method |-> "logging/setLevel", params |-> {[level |-> l]}] : l \in {1, 8, 9}}

CatalogInit ==
    /\ server \in [enabled : {Capabilities, {"tools", "logging"}, {"resources", "prompts"}},
                   engines : SUBSET {"rag", "agent"}, pairs : {<< >>}, tasks : {{}}, level : {2}]
    /\ exchanges = << >>

HandleRequest(req) ==
    /\ Len(exchanges) < MaxExchanges
    /\ \E o \in Answers(server, req.method, req.params) :
         /\ server' = o.server
         /\ exchanges' = Append(exchanges, [request |-> req, answer |-> o.answer])

CatalogNext == \E req \in Requests : HandleRequest(req)

CatalogSpec == CatalogInit /\ [][CatalogNext]_catalogVars

-----------------------------------------------------------------------------
(* Properties                                                              *)

Asked(i, method) == exchanges[i].request.method = method
Ok(i) == exchanges[i].answer.code = "OK"
Body(i) == exchanges[i].answer.body
ToolCalled(i, tool) ==
    Asked(i, "tools/call") /\ \E p \in exchanges[i].request.params : p.name = tool
KeyOf(i) == (CHOOSE p \in exchanges[i].request.params : TRUE).arguments["key"]

\* What the lists of a session promise a later request keeps: a method is refused as disabled
\* just if initialize did not name its capability; a tool or prompt that was listed, called
\* with what its definition requires, is neither unknown nor misses an argument, and a resource
\* is found just if it was listed; and a get returns what the put or delete before it left,
\* if that succeeded (server.rs:145-457, tools.rs:155-690, prompts.rs:142-264, handlers.rs:29-257).
PromisesKept ==
    \A i, j \in DOMAIN exchanges : (i < j /\ Ok(i)) =>
        LET why == exchanges[j].answer.why  params == exchanges[j].request.params
            Known(p) == (p.name \in Body(i)) = (why # "unknown")
            Complete(p, Definition(_)) ==
                p.name \in Body(i) /\ Has(p.arguments, Definition(p.name).required) => why # "argument"
        IN
        /\ Asked(i, "initialize") =>
             (why = "disabled") = ~ (CapabilityOf(exchanges[j].request.method) \subseteq Body(i))
        /\ Asked(i, "tools/list") /\ Asked(j, "tools/call") =>
             (\A p \in params : Known(p) /\ Complete(p, Schema))
        /\ Asked(i, "prompts/list") /\ Asked(j, "prompts/get") =>
             (\A p \in params : Known(p) /\ Complete(p, PromptDefinition))
        /\ Asked(i, "resources/list") /\ Asked(j, "resources/read") =>
             (\A p \in params : (p.uri \in Body(i)) = (why # "unknown"))
        /\ ToolCalled(j, "flash_get") /\ Ok(j) /\ j = i + 1 /\ ToolCalled(i, "flash_put") /\ KeyOf(i) = KeyOf(j) =>
             Body(j) = {p.arguments["value"] : p \in exchanges[i].request.params}
        /\ ToolCalled(j, "flash_get") /\ Ok(j) /\ j = i + 1 /\ ToolCalled(i, "flash_delete") /\ KeyOf(i) = KeyOf(j) =>
             Body(j) = {}

\* An argument that a definition requires is missed when it is not there.
RequiredIsMissed ==
    \A i \in DOMAIN exchanges : \A p \in exchanges[i].request.params :
        /\ Asked(i, "tools/call") /\ p.name \in Tools /\ Ok(i) =>
             Has(p.arguments, Schema(p.name).required)
        /\ Asked(i, "prompts/get") /\ p.name \in Prompts /\ Ok(i) =>
             Has(p.arguments, PromptDefinition(p.name).required)

\* A call that failed has changed nothing.
FailedChangesNothing ==
    [][exchanges' # exchanges /\ exchanges'[Len(exchanges')].answer.code # "OK" => UNCHANGED server]_catalogVars
=============================================================================
