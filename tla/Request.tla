------------------------------ MODULE Request ------------------------------
(***************************************************************************)
(* What a request is answered: route registration (python/rayo/_app.py),   *)
(* the routing table start_server compiles (crates/router, crates/core),   *)
(* and AppService::handle with its two dispatch paths, from the request    *)
(* line to the response.                                                   *)
(*                                                                         *)
(* A path template is a sequence of segments; a segment is literal text, a *)
(* parameter `{name}`, or an escaped brace pair `{{name}}`.  A request     *)
(* path is a sequence of texts.  A list of parameters is a function on the *)
(* positions of their segments, whose order is the order of the list.      *)
(***************************************************************************)
EXTENDS JsonWriter

CONSTANTS
    Declarations,   \* the decorated handlers an application may register
    Targets,        \* the request lines clients may send
    Requests,
    MaxRoutes       \* bound on the routes of an application

ASSUME MaxRoutesAssumption == MaxRoutes \in Nat

ASSUME DeclarationsAssumption ==
    \A d \in Declarations :
        /\ d.path \in Seq([kind : {"literal", "param", "escaped"},
                           name : STRING, literal : STRING])
        /\ d.arguments \in [DOMAIN d.arguments -> STRING]
        /\ d.is_async \in BOOLEAN

ASSUME TargetsAssumption == \A t \in Targets : t.path \in Seq(STRING)

VARIABLES
    app_routes,     \* Rayo._routes
    refused,        \* the declarations _register raised on
    server,         \* "down", "up" or "failed" (start_server raised)
    routes,         \* AppService.routes, indexed by handler_id
    stage,          \* a request is "none", "queued" for a blocking thread,
                    \* "called" (its handler runs) or "answered"
    target,         \* its request line
    route,          \* the handler_id it matched, 0 for none
    kwargs,         \* what its handler was called with
    returned,       \* what its handler returned, or NoValue
    response        \* what the client got

NoValue == Scalar("unreturned", <<>>)
NoReply == [status |-> 0, type |-> "none", body |-> <<>>]

regVars == <<app_routes, refused, server, routes>>
reqVars == <<stage, target, route, kwargs, returned, response>>
vars == <<regVars, reqVars>>

-----------------------------------------------------------------------------
(***************************************************************************)
(* Registration: Rayo._register and start_server                           *)
(***************************************************************************)

Segment(kind, name, literal) ==
    [kind |-> kind, name |-> name, literal |-> literal]

NamesOf(path, kinds) ==
    [k \in {j \in DOMAIN path : path[j].kind \in kinds} |-> path[k].name]

\* _PATH_PARAMETER.findall: `\{(\w+)\}` also finds the inside of `{{name}}`.
PathParameterNames(path) == NamesOf(path, {"param", "escaped"})

\* The parameters matchit captures; `{{` and `}}` are literal braces to it.
CapturedNames(path) == NamesOf(path, {"param"})

\* An argument without an annotation is a str.
ParamKindByAnnotation == [str |-> 0, int |-> 1, float |-> 2, bool |-> 3]

\* _build_route_spec raises unless the arguments are the path parameters and
\* all their annotations are supported.
Registrable(d) ==
    /\ DOMAIN d.arguments = Range(PathParameterNames(d.path))
    /\ Range(d.arguments) \subseteq DOMAIN ParamKindByAnnotation

RouteSpec(d) ==
    LET names == PathParameterNames(d.path) IN
    [method |-> d.method, path |-> d.path, is_async |-> d.is_async,
     arguments |-> d.arguments,
     params |-> [k \in DOMAIN names |->
                    <<names[k],
                      ParamKindByAnnotation[d.arguments[names[k]]]>>]]

Register(d) ==
    /\ Len(app_routes) < MaxRoutes
    /\ IF Registrable(d)
       THEN app_routes' = Append(app_routes, RouteSpec(d)) /\ UNCHANGED refused
       ELSE refused' = refused \cup {d} /\ UNCHANGED app_routes
    /\ UNCHANGED <<server, routes, reqVars>>

\* Seeded fault: the codes of int and float are swapped.
FromCodeSwapped(code) ==
    CASE code = 0 -> "str" [] code = 1 -> "float" [] code = 2 -> "int"
      [] code = 3 -> "bool"

\* ParamKind::from_code
FromCode(code) ==
    CASE code = 0 -> "str" [] code = 1 -> "int" [] code = 2 -> "float"
      [] code = 3 -> "bool"

\* What matchit tells routes apart by: names of parameters do not count.
Shape(path) ==
    [k \in DOMAIN path |-> IF path[k].kind = "param" THEN <<>>
                           ELSE <<path[k].literal>>]

\* Router::add_route in turn; an insertion fails if the method's tree has the
\* same shape already.
Conflict(specs) ==
    \E i, j \in DOMAIN specs :
        /\ i < j
        /\ specs[i].method = specs[j].method
        /\ Shape(specs[i].path) = Shape(specs[j].path)

RouteEntry(spec) ==
    [spec EXCEPT !.params = [k \in DOMAIN spec.params |->
                                <<spec.params[k][1],
                                  FromCode(spec.params[k][2])>>]]

\* The Rust side gets a copy of the routes there are by now.
StartServer ==
    /\ server = "down"
    /\ IF Conflict(app_routes)
       THEN server' = "failed" /\ UNCHANGED routes
       ELSE /\ server' = "up"
            /\ routes' = [i \in DOMAIN app_routes |->
                             RouteEntry(app_routes[i])]
    /\ UNCHANGED <<app_routes, refused, reqVars>>

-----------------------------------------------------------------------------
(***************************************************************************)
(* The pieces of AppService::handle                                        *)
(***************************************************************************)

Matches(path, texts) ==
    /\ Len(path) = Len(texts)
    /\ \A k \in DOMAIN path :
           path[k].kind = "param" \/ path[k].literal = texts[k]

\* matchit prefers literal text to a parameter, leftmost segment first.
Before(path, other) ==
    \E k \in DOMAIN path :
        /\ path[k].kind # "param" /\ other[k].kind = "param"
        /\ \A j \in 1..(k - 1) :
               (path[j].kind = "param") = (other[j].kind = "param")

\* Router::lookup: the handler_id, or 0.
Lookup(t) ==
    LET found == {i \in DOMAIN routes : /\ routes[i].method = t.method
                                        /\ Matches(routes[i].path, t.path)}
    IN  IF found = {} THEN 0
        ELSE CHOOSE i \in found :
                 \A j \in found \ {i} : Before(routes[i].path, routes[j].path)

\* path_params: captured names and their texts, from left to right.
PathParams(entry, texts) ==
    LET names == CapturedNames(entry.path)
    IN  [k \in DOMAIN names |-> <<names[k], texts[k]>>]

\* What parse::<i64>, parse::<f64> and the bool match make of the texts they
\* accept.
Parse == [
    int |-> "0" :> "0" @@ "1" :> "1" @@ "7" :> "7" @@ "+7" :> "7",
    float |-> "0" :> "0.0" @@ "1" :> "1.0" @@ "7" :> "7.0" @@ "+7" :> "7.0"
              @@ "0.5" :> "0.5"
              @@ "9223372036854775808" :> "9223372036854775808.0",
    bool |-> "true" :> "true" @@ "TRUE" :> "true" @@ "1" :> "true"
             @@ "false" :> "false" @@ "0" :> "false"]
Converts(kind, raw) == kind = "str" \/ raw \in DOMAIN Parse[kind]

\* convert_and_insert, when it inserts.
Converted(kind, raw) ==
    Scalar(kind, <<IF kind = "str" THEN raw ELSE Parse[kind][raw]>>)

Reply(status, type, body) == [status |-> status, type |-> type, body |-> body]
\* Seeded fault: the status of a bad gateway.
BadGateway == Reply(502, "text", <<"InternalServerError">>)

NotFound == Reply(404, "text", <<"NotFound">>)
InternalError == Reply(500, "text", <<"InternalServerError">>)
ValidationError(name, kind, raw) == Reply(422, "json", <<name, kind, raw>>)

\* The loop of build_kwargs, and of the sync path: parameter after parameter,
\* the first that is lost or does not convert ends it.  `find` takes the first
\* capture of a name.
BuildKwargs(entry, path_params) ==
    LET name(k) == entry.params[k][1]
        kind(k) == entry.params[k][2]
        found(k) == {j \in DOMAIN path_params : path_params[j][1] = name(k)}
        text(k) == path_params[Min(found(k))][2]
        bad == {k \in DOMAIN entry.params :
                    found(k) = {} \/ ~Converts(kind(k), text(k))}
        first == Min(bad)
    IN  IF bad = {}
        THEN [ok |-> TRUE,
              kwargs |-> {<<name(k), Converted(kind(k), text(k))>> :
                             k \in DOMAIN entry.params}]
        ELSE [ok |-> FALSE,
              reply |-> IF found(first) = {} THEN InternalError
                        ELSE ValidationError(name(first), kind(first),
                                             text(first))]

\* Seeded fault: an error keeps the part of the body written so far.
PartialResponse(value) ==
    LET written == write_json[value] IN
    CASE value.type = "None" -> Reply(204, "text", <<>>)
      [] value.type = "str" -> Reply(200, "text", value.text)
      [] OTHER -> Reply(IF written.ok THEN 200 ELSE 500, "json", written.out)

\* response_from_return_value: the buffer of a failed write_json is dropped.
ResponseFromReturnValue(value) ==
    LET written == write_json[value] IN
    CASE value.type = "None" -> Reply(204, "text", <<>>)
      [] value.type = "str" -> IF Encodable(value.text)
                               THEN Reply(200, "text", value.text)
                               ELSE InternalError
      [] OTHER -> IF written.ok THEN Reply(200, "json", written.out)
                  ELSE InternalError

-----------------------------------------------------------------------------
(***************************************************************************)
(* The life of a request                                                   *)
(***************************************************************************)

Init ==
    /\ app_routes = <<>>
    /\ refused = {}
    /\ server = "down"
    /\ routes = <<>>
    /\ stage = [r \in Requests |-> "none"]
    /\ target \in [Requests -> Targets]
    /\ route = [r \in Requests |-> 0]
    /\ kwargs = [r \in Requests |-> {}]
    /\ returned = [r \in Requests |-> NoValue]
    /\ response = [r \in Requests |-> NoReply]

TypeOK ==
    /\ server \in {"down", "up", "failed"}
    /\ stage \in [Requests -> {"none", "queued", "called", "answered"}]
    /\ target \in [Requests -> Targets]
    /\ route \in [Requests -> 0..Len(routes)]
    /\ returned \in [Requests -> Values \cup {NoValue}]
    /\ \A r \in Requests :
           response[r].status \in {0, 200, 204, 404, 422, 500}

Answer(r, reply) ==
    /\ stage' = [stage EXCEPT ![r] = "answered"]
    /\ response' = [response EXCEPT ![r] = reply]

\* The handler is called with the arguments, or the error is the answer.
CallHandler(r, i) ==
    LET built == BuildKwargs(routes[i], PathParams(routes[i], target[r].path))
    IN  IF built.ok
        THEN /\ stage' = [stage EXCEPT ![r] = "called"]
             /\ kwargs' = [kwargs EXCEPT ![r] = built.kwargs]
             /\ UNCHANGED response
        ELSE Answer(r, built.reply) /\ UNCHANGED kwargs

\* handle: a miss is answered at once, an async route is dispatched here and
\* now, a sync one is left to a blocking thread.
Handle(r) ==
    LET i == Lookup(target[r]) IN
    /\ server = "up"
    /\ stage[r] = "none"
    /\ route' = [route EXCEPT ![r] = i]
    /\ \/ i = 0 /\ Answer(r, NotFound) /\ UNCHANGED kwargs
       \/ i # 0 /\ routes[i].is_async /\ CallHandler(r, i)
       \/ /\ i # 0 /\ ~routes[i].is_async
          /\ stage' = [stage EXCEPT ![r] = "queued"]
          /\ UNCHANGED <<kwargs, response>>
    /\ UNCHANGED <<regVars, target, returned>>

\* The closure of spawn_blocking.
RunBlocking(r) ==
    /\ stage[r] = "queued"
    /\ CallHandler(r, route[r])
    /\ UNCHANGED <<regVars, target, route, returned>>

HandlerReturns(r, value) ==
    /\ stage[r] = "called"
    /\ returned' = [returned EXCEPT ![r] = value]
    /\ Answer(r, ResponseFromReturnValue(value))
    /\ UNCHANGED <<regVars, target, route, kwargs>>

\* The handler raises, or its task or thread ends without sending a response.
HandlerFails(r) ==
    /\ stage[r] = "called"
    /\ Answer(r, InternalError)
    /\ UNCHANGED <<regVars, target, route, kwargs, returned>>

Next ==
    \/ \E d \in Declarations : Register(d)
    \/ StartServer
    \/ \E r \in Requests : \/ Handle(r)
                           \/ RunBlocking(r)
                           \/ \E value \in Values : HandlerReturns(r, value)
                           \/ HandlerFails(r)

Spec == Init /\ [][Next]_vars

-----------------------------------------------------------------------------
(***************************************************************************)
(* Safety                                                                  *)
(***************************************************************************)

\* The declaration r's request was routed to: the arguments of the handler, the
\* place in the path where one is found, and the text there.
Declared(r) == routes[route[r]].arguments
Places(r, name) ==
    LET path == routes[route[r]].path
    IN  {k \in DOMAIN path : path[k].kind = "param" /\ path[k].name = name}
TextOf(r, name) == target[r].path[Min(Places(r, name))]

\* The arguments that cannot be had from the request line.
Wrong(r) ==
    {name \in DOMAIN Declared(r) :
        \/ Places(r, name) = {}
        \/ ~Converts(Declared(r)[name], TextOf(r, name))}

\* The one of them that the template names first.
FirstWrong(r) ==
    LET path == routes[route[r]].path
    IN  path[Min({k \in DOMAIN path : /\ path[k].kind # "literal"
                                      /\ path[k].name \in Wrong(r)})].name

\* A handler is called with exactly the arguments of its signature, each of
\* its annotated type and with the text found at its place in the path: the
\* Python check at the decorator, the kind codes and the router's captures
\* agree.
CalledAsDeclared ==
    \A r \in Requests :
        stage[r] = "called"
            => /\ Wrong(r) = {}
               /\ kwargs[r] = {<<name, Converted(Declared(r)[name],
                                                TextOf(r, name))>> :
                                  name \in DOMAIN Declared(r)}

\* The status of an answer follows from the request line, the declaration and
\* what the handler did: 404 when no route of that method matches, also when
\* one of another method does (AppService::handle has one answer for every
\* miss; ARCHITECTURE.md lists a 405 too); 422 naming the first argument whose
\* text is of a wrong kind; 500 when the router captured no text for it, when
\* the handler failed or returned what has no JSON; else what it returned.
\* An error never carries a part of the value.
AnswerAsDeclared ==
    \A r \in Requests :
        stage[r] = "answered" =>
            IF route[r] = 0
            THEN /\ response[r] = NotFound
                 /\ ~ \E i \in DOMAIN routes :
                        /\ routes[i].method = target[r].method
                        /\ Matches(routes[i].path, target[r].path)
            ELSE IF Wrong(r) # {}
            THEN LET name == FirstWrong(r) IN
                 response[r] = IF Places(r, name) = {} THEN InternalError
                               ELSE ValidationError(name, Declared(r)[name],
                                                    TextOf(r, name))
            ELSE IF returned[r] # NoValue /\ Serializable[returned[r]]
            THEN response[r].status = IF returned[r].type = "None"
                                      THEN 204 ELSE 200
            ELSE response[r] = InternalError

\* A JSON body is one well-formed JSON text, and reading it gives back the
\* value the handler returned (write_json, write_json_string).
BodyMeansValue ==
    \A r \in Requests :
        response[r].status = 200 /\ response[r].type = "json"
            => Means(response[r].body, Json[returned[r]])

\* Every parameter of a compiled route is one that a match captures
\* (build_kwargs: "Registration guarantees spec params <= path params;
\* reaching here is a Rayo bug").
SpecParamsCaptured ==
    \A i \in DOMAIN routes :
        {p[1] : p \in Range(routes[i].params)}
            \subseteq Range(CapturedNames(routes[i].path))
=============================================================================
