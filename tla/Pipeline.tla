------------------------------ MODULE Pipeline ------------------------------
(***************************************************************************)
(* One call of the API on its way through the handlers that buildHandler   *)
(* (cmd/server/main.go) puts before the routes: the limiter, the access    *)
(* log, the error handler, content negotiation and CORS, and then the      *)
(* handlers of its route.  The album routes, which main.go has commented   *)
(* out, are those of album.RegisterHandlers.                               *)
(*                                                                         *)
(* ozzo-routing calls the handlers in a loop, c.Next().  A middleware may  *)
(* call c.Next() itself; it is then inside a loop of its own until that    *)
(* one ends, at the last handler, at the first error or by a panic.  All   *)
(* loops share c.index, which c.Abort() moves behind the last handler.     *)
(***************************************************************************)
EXTENDS Integers, Sequences

\* Mutant of Middlewares: errors are handled outside the access log.
MiddlewaresSwapped == <<"RateLimit", "errors", "accesslog", "TypeNegotiator", "cors">>

Middlewares == <<"RateLimit", "accesslog", "errors", "TypeNegotiator", "cors">>

Routes == [healthcheck |-> <<"healthcheck">>, login |-> <<"login">>,
           ask |-> <<"handleAsk">>, find |-> <<"handleDataRequest">>,
           readAlbum |-> <<"album">>, writeAlbum |-> <<"auth", "writeAlbum">>,
           nowhere |-> <<"MethodNotAllowed", "NotFound">>]

VARIABLES
  route,    \* where the call is routed to
  authed,   \* whether it carries a valid token
  index,    \* c.index
  phase,    \* "call": handler index is next; "return": one has returned; "done"
  inside,   \* the middlewares that wait for a c.Next() of theirs
  result,   \* what the last handler returned: nil, an error or a panic
  sent,     \* the status sent to the client, or None
  bodies,   \* how many bodies were written completely
  broken,   \* whether the client can no longer be written to
  status,   \* rw.Status of the access log, None before it wraps the response
  logs,     \* the statuses logged for this call
  reply,    \* the text of the model that /ask answered with, or NoText
  ran       \* history: the handlers that were called

vars   == <<route, authed, index, phase, inside, result, sent, bodies, broken,
            status, logs, reply, ran>>
output == <<sent, bodies, broken, status>>

None    == 0
Chain   == Middlewares \o Routes[route]
Aborted == Len(Chain) + 1
NoText  == [text |-> "none"]     \* no text of a model, not even a bad one

Init ==
  /\ route \in DOMAIN Routes /\ authed \in BOOLEAN
  /\ index = 1 /\ phase = "call" /\ inside = {} /\ result = "nil"
  /\ sent = None /\ bodies = 0 /\ broken = FALSE /\ status = None
  /\ logs = <<>> /\ reply = NoText /\ ran = {}

-----------------------------------------------------------------------------
(* The context of ozzo-routing.                                            *)

Calling(h) == phase = "call" /\ Chain[index] = h /\ ran' = ran \cup {h}

\* Handler h calls c.Next().
EnterNext(h) ==
  /\ Calling(h)
  /\ inside' = inside \cup {h} /\ index' = index + 1
  /\ UNCHANGED <<phase, result>>

Return(r) == phase' = "return" /\ result' = r /\ UNCHANGED inside

\* c.WriteHeader(code), or none, and then a body; the writer of the access log
\* notes every header, net/http sends the first.
Respond(code, complete) ==
  /\ sent' = IF sent # None THEN sent ELSE IF code = None THEN 200 ELSE code
  /\ status' = IF status # None /\ code # None THEN code ELSE status
  /\ bodies' = IF complete THEN bodies + 1 ELSE bodies
  /\ broken' = ~ complete

\* Mutant of Handles: the body is written before the header.
HandlesLate(code, complete) ==
  /\ sent' = IF sent # None THEN sent ELSE 200
  /\ status' = code
  /\ bodies' = IF complete THEN bodies + 1 ELSE bodies
  /\ broken' = ~ complete

\* The error handler writes the response that it has built.
Handles(code, complete) == Respond(code, complete)

\* The last thing a handler does is to write: it returns the error of that.
Write(code) ==
  \E complete \in BOOLEAN :
    /\ broken => ~ complete
    /\ Respond(code, complete)
    /\ Return(IF complete THEN "nil" ELSE "error")

-----------------------------------------------------------------------------
(* The middlewares on the way in.                                          *)

Allow == EnterNext("RateLimit") /\ UNCHANGED <<route, authed, output, logs, reply>>

\* 429 and c.Abort(); that the answer cannot be written is ignored.
Refuse ==
  /\ Calling("RateLimit")
  /\ \E complete \in BOOLEAN : Respond(429, complete)
  /\ index' = Aborted /\ Return("nil")
  /\ UNCHANGED <<route, authed, logs, reply>>

\* A block in force: 429 without c.Abort().
Reinstate ==
  /\ Calling("RateLimit")
  /\ Write(429)
  /\ UNCHANGED <<route, authed, index, logs, reply>>

WrapResponse ==
  /\ EnterNext("accesslog")
  /\ status' = 200
  /\ UNCHANGED <<route, authed, sent, bodies, broken, logs, reply>>

EnterErrors ==
  EnterNext("errors") /\ UNCHANGED <<route, authed, output, logs, reply>>

\* Handlers that set headers or a writer and return.
Pass ==
  /\ \/ Calling("TypeNegotiator")
     \/ Calling("cors")
     \/ Calling("auth") /\ authed
     \/ Calling("MethodNotAllowed")
  /\ Return("nil")
  /\ UNCHANGED <<route, authed, index, output, logs, reply>>

\* No route takes OPTIONS: cors answers a preflight with headers only.
Preflight ==
  /\ Calling("cors") /\ route = "nowhere"
  /\ index' = Aborted /\ Return("nil")
  /\ UNCHANGED <<route, authed, output, logs, reply>>

NotAuthenticated ==
  /\ Calling("auth") /\ ~ authed
  /\ Return("401")
  /\ UNCHANGED <<route, authed, index, output, logs, reply>>

-----------------------------------------------------------------------------
(* The handlers of the routes.                                             *)

\* Mutant of MethodNotAllowed: it does not abort.
MethodNotAllowedGoesOn ==
  /\ Calling("MethodNotAllowed")
  /\ sent' = (IF sent = None THEN 405 ELSE sent) /\ status' = 405
  /\ Return("nil")
  /\ UNCHANGED <<route, authed, index, bodies, broken, logs, reply>>

\* The path is known for other methods: 405 without a body, or headers only if
\* the method is OPTIONS.
MethodNotAllowed ==
  /\ Calling("MethodNotAllowed")
  /\ \/ sent' = (IF sent = None THEN 405 ELSE sent) /\ status' = 405
     \/ UNCHANGED <<sent, status>>
  /\ index' = Aborted /\ Return("nil")
  /\ UNCHANGED <<route, authed, bodies, broken, logs, reply>>

\* The errors that handlers return: an ErrorResponse or an HTTPError by its
\* status, validation.Errors, sql.ErrNoRows and any other.
Errors == [login |-> {"400", "401"},
           album |-> {"ErrNoRows", "error"},
           writeAlbum |-> {"400", "validation", "ErrNoRows", "error"},
           NotFound |-> {"404"}]

Fails ==
  /\ \E h \in DOMAIN Errors : Calling(h) /\ \E e \in Errors[h] : Return(e)
  /\ UNCHANGED <<route, authed, index, output, logs, reply>>

\* find and genealogy answer every failure but a panic with 200 and a text.
Answer ==
  /\ \/ \E h \in {"healthcheck", "login", "handleDataRequest", "album"} :
          Calling(h) /\ Write(None)
     \/ Calling("writeAlbum") /\ \E code \in {None, 201} : Write(code)
  /\ UNCHANGED <<route, authed, index, logs, reply>>

\* The session panics on an answer without candidates (KeyPool).
Panics ==
  /\ Calling("handleDataRequest") \/ Calling("handleAsk")
  /\ Return("panic")
  /\ UNCHANGED <<route, authed, index, output, logs, reply>>

\* What /ask decodes from its body: nothing, or a conversation of some length.
DecodeConversation == {"unreadable", "undecodable", "empty", "conversation"}

\* Texts of a model: one unmarshals into a ResponseSchema, with blocks or
\* without, or else has the structure of HTML, or neither.
Texts == {t \in [json : BOOLEAN, blocks : BOOLEAN, html : BOOLEAN] :
            (t.blocks => t.json) /\ ~ (t.json /\ t.html)}

\* Mutant of ValidateResponseSchema: what unmarshals is valid.
ValidateLax(t) == t.json \/ t.html

\* Mutant of ValidateResponseSchema: the fallback takes all that is not JSON.
ValidateFallback(t) == t.json => t.blocks

ValidateResponseSchema(t) == IF t.json THEN t.blocks ELSE t.html

\* StrayHTMLToResponseSchema makes one block of markup.
Reply(t) == IF t.html THEN [json |-> TRUE, blocks |-> TRUE, html |-> FALSE] ELSE t

\* A message that cannot be read or decoded, and an error of the pool, are
\* answered with 200 and a text; the last exchange of an empty conversation
\* does not exist; a validated text is answered.
HandleAsk ==
  /\ Calling("handleAsk")
  /\ \E message \in DecodeConversation :
       \/ message = "empty" /\ Return("panic") /\ UNCHANGED <<output, reply>>
       \/ message # "empty" /\ Write(None) /\ reply' = NoText
       \/ /\ message = "conversation" /\ Write(None)
          /\ \E t \in Texts : ValidateResponseSchema(t) /\ reply' = Reply(t)
  /\ UNCHANGED <<route, authed, index, logs>>

-----------------------------------------------------------------------------
(* The way out.                                                            *)

\* Mutant of LoopNext: the loop goes one too far.
LoopNextTooFar ==
  /\ phase = "return" /\ result = "nil" /\ index <= Len(Chain)
  /\ index' = index + 1 /\ phase' = "call"
  /\ UNCHANGED <<route, authed, inside, result, output, logs, reply, ran>>

\* A handler has returned nil and the loop is not at its end.
LoopNext ==
  /\ phase = "return" /\ result = "nil" /\ index < Len(Chain)
  /\ index' = index + 1 /\ phase' = "call"
  /\ UNCHANGED <<route, authed, inside, result, output, logs, reply, ran>>

\* The innermost loop has ended, and with it the c.Next() of handler h.
Ended == phase = "return" /\ ~ (result = "nil" /\ index < Len(Chain))

Position(h) == CHOOSE n \in DOMAIN Middlewares : Middlewares[n] = h

Leave(h) ==
  /\ Ended
  /\ h \in inside /\ \A g \in inside : Position(g) <= Position(h)
  /\ inside' = inside \ {h}

LimiterReturns ==
  /\ Leave("RateLimit")
  /\ UNCHANGED <<route, authed, index, phase, result, output, logs, reply, ran>>

\* The access log writes its line and returns what it got; a panic does not
\* come by here.
Log ==
  /\ Leave("accesslog")
  /\ logs' = IF result = "panic" THEN logs ELSE Append(logs, status)
  /\ UNCHANGED <<route, authed, index, phase, result, output, reply, ran>>

\* buildErrorResponse.
Status(e) ==
  CASE e \in {"400", "validation"} -> 400
    [] e = "401" -> 401
    [] e \in {"404", "ErrNoRows"} -> 404
    [] OTHER -> 500

\* Mutant of HandleError: the handlers that are pending are not skipped.
HandleErrorGoesOn ==
  /\ Leave("errors") /\ result # "nil"
  /\ \E complete \in BOOLEAN :
       (broken => ~ complete) /\ Handles(Status(result), complete)
  /\ result' = "nil"
  /\ UNCHANGED <<route, authed, index, phase, logs, reply, ran>>

\* Mutant of HandleError: the error of writing the response is returned.
HandleErrorFails ==
  /\ Leave("errors") /\ result # "nil"
  /\ \E complete \in BOOLEAN :
       /\ (broken => ~ complete) /\ Handles(Status(result), complete)
       /\ result' = IF complete THEN "nil" ELSE "error"
  /\ index' = Aborted
  /\ UNCHANGED <<route, authed, phase, logs, reply, ran>>

\* errors.Handler recovers from a panic, answers an error and hides it.
HandleError ==
  /\ Leave("errors") /\ result # "nil"
  /\ \E complete \in BOOLEAN :
       (broken => ~ complete) /\ Handles(Status(result), complete)
  /\ index' = Aborted /\ result' = "nil"
  /\ UNCHANGED <<route, authed, phase, logs, reply, ran>>

NoError ==
  /\ Leave("errors") /\ result = "nil"
  /\ UNCHANGED <<route, authed, index, phase, result, output, logs, reply, ran>>

\* The router is left; an error that gets this far it answers itself.
Finish ==
  /\ Ended /\ inside = {}
  /\ phase' = "done"
  /\ sent' = IF result # "nil" /\ sent = None THEN 500 ELSE sent
  /\ UNCHANGED <<route, authed, index, inside, result, bodies, broken, status,
                 logs, reply, ran>>

\* The context is reset before it is used for another call.
Done == phase = "done" /\ UNCHANGED vars

WayIn  == Allow \/ Refuse \/ Reinstate \/ WrapResponse \/ EnterErrors \/ Pass
            \/ Preflight \/ NotAuthenticated
Handle == MethodNotAllowed \/ Fails \/ Answer \/ Panics \/ HandleAsk
WayOut == LoopNext \/ LimiterReturns \/ Log \/ HandleError \/ NoError \/ Finish

Next == WayIn \/ Handle \/ WayOut \/ Done

Spec == Init /\ [][Next]_vars

-----------------------------------------------------------------------------
(* Properties.                                                             *)

Handlers == {"RateLimit", "accesslog", "errors", "TypeNegotiator", "cors", "auth",
             "healthcheck", "login", "handleAsk", "handleDataRequest", "album",
             "writeAlbum", "MethodNotAllowed", "NotFound"}
Results  == {"nil", "400", "401", "404", "validation", "ErrNoRows", "error", "panic"}
Codes    == {None, 200, 201, 400, 401, 404, 405, 429, 500}

TypeOK ==
  /\ route \in DOMAIN Routes /\ authed \in BOOLEAN /\ broken \in BOOLEAN
  /\ index \in 1 .. Aborted /\ phase \in {"call", "return", "done"}
  /\ phase = "call" => index <= Len(Chain)
  /\ inside \subseteq {"RateLimit", "accesslog", "errors"}
  /\ result \in Results /\ ran \subseteq Handlers
  /\ sent \in Codes /\ status \in Codes /\ bodies \in 0 .. 2
  /\ logs \in Seq(Codes) /\ reply \in Texts \cup {NoText}

\* The client was told 429 and its call went on to the handlers.
Reinstated == "accesslog" \in ran /\ sent = 429

\* album.RegisterHandlers: "the following endpoints require a valid JWT".  An
\* album is written for authenticated clients only: the error of the auth
\* handler is hidden by the error handler, and still nothing pending runs.
WritesAuthenticated == "writeAlbum" \in ran => authed

\* No error and no panic that happens behind the error handler reaches the
\* router or net/http, whatever was already sent when it happened.
NothingEscapes == phase = "done" /\ "errors" \in ran => result = "nil"

\* A call that passes the limiter leaves exactly one line in the access log,
\* by panics, aborts and broken connections too.
LoggedOnce ==
  phase = "done" => Len(logs) = (IF "accesslog" \in ran THEN 1 ELSE 0)

\* The status in the access log is the one the client was sent, unless 429 was
\* sent before the log saw the call or the connection broke within the body.
LoggedIsSent ==
  phase = "done" /\ logs # <<>> /\ ~ Reinstated /\ ~ broken =>
    logs[1] = (IF sent = None THEN 200 ELSE sent)

\* Whoever is not told 429 gets one body and no second one, but for the answers
\* to OPTIONS and to a wrong method, which have none.
OneBody ==
  phase = "done" /\ ~ broken /\ ~ Reinstated =>
    bodies = IF route = "nowhere" /\ sent \in {None, 405} THEN 0 ELSE 1

\* A text of a model that /ask answers with is a ResponseSchema with blocks:
\* stray HTML was wrapped, and a text that is neither was never answered.
AnswersFitSchema == reply # NoText => reply.json /\ reply.blocks

=============================================================================
