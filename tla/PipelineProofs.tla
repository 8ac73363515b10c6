--------------------------- MODULE PipelineProofs ---------------------------
(***************************************************************************)
(* Theorems about Pipeline: where a call can be in the nested loops of     *)
(* ozzo-routing, what was sent by then, and what follows for the client,   *)
(* for the access log and for the handlers behind authentication.          *)
(***************************************************************************)
EXTENDS Pipeline, SequenceTheorems, TLAPS

\* The loops that are open: a handler is inside its c.Next() exactly from its
\* call until everything behind it is through, and is left for good.
Loops ==
  /\ inside \subseteq ran
  /\ phase = "call" =>
       /\ result = "nil"
       /\ "accesslog" \in inside <=> index >= 3
       /\ "errors" \in inside <=> index >= 4
       /\ "accesslog" \in ran <=> index >= 3
       /\ "errors" \in ran <=> index >= 4
  /\ phase # "call" =>
       /\ "errors" \in ran <=> "accesslog" \in ran
       /\ "accesslog" \notin ran => index \in {1, Aborted}
       /\ "accesslog" \in ran => index >= 4
  /\ "errors" \in inside => "accesslog" \in inside
  /\ "errors" \in ran /\ "errors" \notin inside =>
       result = "nil" /\ index >= Len(Chain)
  /\ phase = "done" => inside = {}

\* Nothing was written for this call, but for the 429 of a block in force.
Unanswered ==
  /\ ~ broken
  /\ (sent = None /\ bodies = 0) \/ (sent = 429 /\ bodies = 1 /\ index >= 2)

\* The answer is complete.
Answered == bodies = IF route = "nowhere" /\ sent \in {None, 405} THEN 0 ELSE 1

\* What was sent at which point of the chain.
Answers ==
  /\ phase = "call" => IF index = 1 THEN ~ broken /\ sent = None /\ bodies = 0
                       ELSE Unanswered
  /\ phase # "call" /\ "accesslog" \notin ran /\ ~ broken => sent = 429 /\ bodies = 1
  /\ phase # "call" /\ "accesslog" \notin ran => sent # None
  /\ phase # "call" /\ "accesslog" \in ran /\ ~ broken =>
       IF result = "nil" /\ index >= Len(Chain)
       THEN sent = 429 \/ Answered
       ELSE Unanswered
  /\ phase = "return" /\ result = "nil" /\ index < Len(Chain) => ~ broken

\* The access log has the status that was sent, and one line once it is left.
Logs ==
  /\ "accesslog" \in ran /\ sent # 429 /\ ~ broken =>
       status = IF sent = None THEN 200 ELSE sent
  /\ logs = IF "accesslog" \in ran /\ "accesslog" \notin inside
            THEN <<status>> ELSE <<>>

\* Who comes by the auth handler of the album routes is authenticated.
Guarded ==
  /\ route = "writeAlbum" /\ index = 7 /\ phase = "call" => authed
  /\ route = "writeAlbum" /\ index = 6 /\ phase = "return" /\ result = "nil" => authed

IInv == TypeOK /\ Loops /\ Answers /\ Logs /\ Guarded /\ WritesAuthenticated
          /\ AnswersFitSchema

-----------------------------------------------------------------------------
(* The chain of handlers.                                                  *)

\* The middlewares come first, and then one or two handlers of the route.
LEMMA ChainShape ==
  ASSUME route \in DOMAIN Routes
  PROVE  /\ Len(Chain) \in Int /\ Len(Chain) >= 6 /\ Len(Chain) <= 7
         /\ Len(Chain) \in {6, 7} /\ Aborted = Len(Chain) + 1
         /\ Chain[1] = "RateLimit" /\ Chain[2] = "accesslog" /\ Chain[3] = "errors"
         /\ Chain[4] = "TypeNegotiator" /\ Chain[5] = "cors"
         /\ Chain[6] = Routes[route][1]
         /\ Len(Chain) = 7 => Chain[7] = Routes[route][2]
         /\ Len(Chain) = 7 <=> route \in {"writeAlbum", "nowhere"}
<1> DEFINE r == Routes[route]
<1>1. /\ \/ route \in {"writeAlbum", "nowhere"} /\ r = <<r[1], r[2]>>
         \/ route \notin {"writeAlbum", "nowhere"} /\ r = <<r[1]>>
      /\ r \in Seq(Handlers)
  <2>1. CASE route \in {"writeAlbum", "nowhere"}
    <3>1. r = <<"auth", "writeAlbum">> \/ r = <<"MethodNotAllowed", "NotFound">>
      BY <2>1 DEF Routes
    <3>2. \E g, h \in Handlers : r = <<g, h>>
      BY <3>1 DEF Handlers
    <3>3. QED BY <2>1, <3>2
  <2>2. CASE route \notin {"writeAlbum", "nowhere"}
    <3>1. \E h \in Handlers : r = <<h>>
      BY <2>2 DEF Routes, Handlers
    <3>2. QED BY <2>2, <3>1
  <2>3. QED BY <2>1, <2>2
<1>2. Middlewares \in Seq(Handlers) /\ Len(Middlewares) = 5
  BY DEF Middlewares, Handlers
<1>3. /\ Middlewares[1] = "RateLimit" /\ Middlewares[2] = "accesslog"
      /\ Middlewares[3] = "errors" /\ Middlewares[4] = "TypeNegotiator"
      /\ Middlewares[5] = "cors"
  BY DEF Middlewares
<1> HIDE DEF r
<1>4. Len(r) = IF route \in {"writeAlbum", "nowhere"} THEN 2 ELSE 1
  BY <1>1
<1>5. /\ Len(Middlewares \o r) = 5 + Len(r)
      /\ \A n \in 1 .. 5 + Len(r) :
           (Middlewares \o r)[n] = IF n <= 5 THEN Middlewares[n] ELSE r[n - 5]
  <2>1. r \in Seq(Handlers) /\ Middlewares \in Seq(Handlers)
    BY <1>1, <1>2
  <2>2. /\ Len(Middlewares \o r) = Len(Middlewares) + Len(r)
        /\ \A n \in 1 .. Len(Middlewares) + Len(r) :
             (Middlewares \o r)[n] = IF n <= Len(Middlewares) THEN Middlewares[n]
                                     ELSE r[n - Len(Middlewares)]
    BY <2>1, ConcatProperties, Zenon
  <2>3. QED BY <2>2, <1>2
<1>6. Chain = Middlewares \o r
  BY DEF Chain, r
<1>7. QED BY <1>3, <1>4, <1>5, <1>6 DEF r, Aborted

\* At which index, of which route, a handler is called.
LEMMA CalledAt ==
  ASSUME TypeOK, NEW h, Calling(h)
  PROVE  /\ phase = "call" /\ index \in 1 .. Len(Chain) /\ h \in Handlers
         /\ h = "RateLimit" <=> index = 1
         /\ h = "accesslog" <=> index = 2
         /\ h = "errors" <=> index = 3
         /\ h = "TypeNegotiator" <=> index = 4
         /\ h = "cors" <=> index = 5
         /\ h = "auth" <=> index = 6 /\ route = "writeAlbum"
         /\ h = "MethodNotAllowed" <=> index = 6 /\ route = "nowhere"
         /\ h = "writeAlbum" <=> index = 7 /\ route = "writeAlbum"
         /\ h = "NotFound" <=> index = 7 /\ route = "nowhere"
         /\ h \in {"healthcheck", "login", "handleAsk", "handleDataRequest", "album"} =>
              index = 6 /\ index = Len(Chain) /\ route # "nowhere"
<1>1. phase = "call" /\ index \in 1 .. Len(Chain) /\ Chain[index] = h /\ route \in DOMAIN Routes
  BY DEF TypeOK, Calling, Aborted
<1>2. Len(Chain) \in {6, 7} /\ (Len(Chain) = 7 <=> route \in {"writeAlbum", "nowhere"})
  BY <1>1, ChainShape
<1>3. CASE index \in 1 .. 5
  BY <1>1, <1>2, <1>3, ChainShape DEF Handlers
<1>4. CASE index = 6
  <2>1. h = Routes[route][1]
    BY <1>1, <1>4, ChainShape
  <2>2. QED BY <1>1, <1>2, <1>4, <2>1 DEF Routes, Handlers
<1>5. CASE index = 7
  <2>1. h = Routes[route][2] /\ Len(Chain) = 7
    BY <1>1, <1>2, <1>5, ChainShape
  <2>2. QED BY <1>1, <1>2, <1>5, <2>1 DEF Routes, Handlers
<1>6. QED BY <1>1, <1>2, <1>3, <1>4, <1>5

\* The chain is that of the route, for as long as the call takes.
LEMMA ChainStays == ASSUME route' = route PROVE Chain' = Chain /\ Aborted' = Aborted
  BY DEF Chain, Aborted

LEMMA Positions ==
  Position("RateLimit") = 1 /\ Position("accesslog") = 2 /\ Position("errors") = 3
<1>1. /\ DOMAIN Middlewares = 1 .. 5
      /\ Middlewares[1] = "RateLimit" /\ Middlewares[2] = "accesslog"
      /\ Middlewares[3] = "errors" /\ Middlewares[4] = "TypeNegotiator"
      /\ Middlewares[5] = "cors"
  BY DEF Middlewares
<1>2. /\ \A n \in 1 .. 5 : Middlewares[n] = "RateLimit" <=> n = 1
      /\ \A n \in 1 .. 5 : Middlewares[n] = "accesslog" <=> n = 2
      /\ \A n \in 1 .. 5 : Middlewares[n] = "errors" <=> n = 3
  BY <1>1
<1>3. QED BY <1>1, <1>2 DEF Position

\* Loops end from the inside.
LEMMA LeftAt ==
  ASSUME TypeOK, Loops, NEW h \in {"RateLimit", "accesslog", "errors"}, Leave(h)
  PROVE  /\ phase = "return" /\ (result # "nil" \/ index >= Len(Chain))
         /\ h \in inside /\ inside' = inside \ {h}
         /\ h = "RateLimit" => inside = {"RateLimit"}
         /\ h = "accesslog" => "accesslog" \in inside /\ "errors" \notin inside
         /\ h = "errors" => "errors" \in inside /\ "accesslog" \in inside
<1>1. /\ phase = "return" /\ (result # "nil" \/ ~ (index < Len(Chain)))
      /\ h \in inside /\ \A g \in inside : Position(g) <= Position(h)
      /\ inside' = inside \ {h} /\ inside \subseteq {"RateLimit", "accesslog", "errors"}
      /\ index \in Int /\ Len(Chain) \in Int
  BY ChainShape DEF Leave, Ended, TypeOK
<1>2. CASE h = "RateLimit"
  <2>1. "accesslog" \notin inside /\ "errors" \notin inside
    BY <1>1, <1>2, Positions
  <2>2. inside = {"RateLimit"}
    BY <1>1, <1>2, <2>1
  <2>3. QED BY <1>1, <1>2, <2>2
<1>3. CASE h = "accesslog"
  BY <1>1, <1>3, Positions
<1>4. CASE h = "errors"
  BY <1>1, <1>4 DEF Loops
<1>5. QED BY <1>1, <1>2, <1>3, <1>4

-----------------------------------------------------------------------------
(* Writing.                                                                *)

\* What Respond writes to a client that can be written to: the header, if none
\* was sent before, and one body or a part of it.
LEMMA Responded ==
  ASSUME TypeOK, NEW code \in Codes, NEW complete \in BOOLEAN, Respond(code, complete),
         bodies \in 0 .. 1
  PROVE  /\ sent' \in Codes \ {None} /\ status' \in Codes /\ broken' = ~ complete
         /\ bodies' \in 0 .. 2 /\ bodies' = bodies + (IF complete THEN 1 ELSE 0)
         /\ sent # None => sent' = sent
         /\ sent = None => sent' = IF code = None THEN 200 ELSE code
         /\ status' = IF status # None /\ code # None THEN code ELSE status
BY DEF TypeOK, Respond, Codes, None

-----------------------------------------------------------------------------
(* The steps.                                                              *)

LEMMA InvInit == ASSUME Init PROVE IInv
<1>1. Len(Chain) \in Int /\ Len(Chain) >= 6 /\ Len(Chain) <= 7 /\ Aborted = Len(Chain) + 1
  BY ChainShape DEF Init
<1>2. reply \in Texts \cup {NoText}
  BY DEF Init
<1>3. TypeOK
  <2>1. logs \in Seq(Codes) /\ {} \subseteq Handlers
    BY DEF Init
  <2>2. /\ sent \in Codes /\ status \in Codes /\ result \in Results /\ bodies \in 0 .. 2
        /\ inside \subseteq {"RateLimit", "accesslog", "errors"} /\ ran \subseteq Handlers
    BY DEF Init, Codes, Results, None
  <2>3. index \in 1 .. Aborted /\ index <= Len(Chain)
    BY <1>1 DEF Init
  <2>4. authed \in BOOLEAN /\ broken \in BOOLEAN
    BY DEF Init
  <2>5. QED BY <1>2, <2>1, <2>2, <2>3, <2>4 DEF Init, TypeOK
<1>4. Loops /\ Answers /\ Logs
  BY <1>1 DEF Init, Loops, Answers, Logs
<1>5. Guarded /\ WritesAuthenticated /\ AnswersFitSchema
  BY DEF Init, Guarded, WritesAuthenticated, AnswersFitSchema
<1>6. QED BY <1>3, <1>4, <1>5 DEF IInv

\* What every step may assume.
LEMMA Before ==
  ASSUME IInv, route' = route
  PROVE  /\ TypeOK /\ Loops /\ Answers /\ Logs /\ Guarded /\ WritesAuthenticated
         /\ AnswersFitSchema
         /\ Len(Chain) \in Int /\ Len(Chain) >= 6 /\ Len(Chain) <= 7 /\ Chain' = Chain
         /\ Len(Chain) = 7 <=> route \in {"writeAlbum", "nowhere"}
         /\ Aborted = Len(Chain) + 1 /\ Aborted' = Len(Chain) + 1
BY ChainShape, ChainStays DEF IInv, TypeOK

\* A middleware enters a c.Next() of its own: the limiter and the error handler
\* write nothing, the access log starts with the status 200.
LEMMA EnterKeeps ==
  ASSUME IInv, NEW h \in {"RateLimit", "accesslog", "errors"}, EnterNext(h),
         UNCHANGED <<route, authed, sent, bodies, broken, logs, reply>>,
         status' = IF h = "accesslog" THEN 200 ELSE status
  PROVE  IInv'
<1>1. /\ TypeOK /\ Loops /\ Answers /\ Logs /\ Guarded /\ WritesAuthenticated
      /\ AnswersFitSchema
      /\ Len(Chain) \in Int /\ Len(Chain) >= 6 /\ Len(Chain) <= 7 /\ Chain' = Chain
      /\ Len(Chain) = 7 <=> route \in {"writeAlbum", "nowhere"}
      /\ Aborted = Len(Chain) + 1 /\ Aborted' = Len(Chain) + 1
  BY Before
<1>2. /\ phase = "call" /\ phase' = "call" /\ index' = index + 1 /\ result' = result
      /\ inside' = inside \cup {h} /\ ran' = ran \cup {h} /\ h \in Handlers
      /\ h = "RateLimit" <=> index = 1
      /\ h = "accesslog" <=> index = 2
      /\ h = "errors" <=> index = 3
  BY <1>1, CalledAt DEF EnterNext, Calling
<1>3. TypeOK'
  <2>1. index \in 1 .. 3 /\ index' = index + 1 /\ Len(Chain') = Len(Chain)
    BY <1>1, <1>2
  <2>2. index' <= Len(Chain')
    BY <1>1, <2>1
  <2>3. index' \in 1 .. Aborted'
    BY <1>1, <2>1
  <2>4. status' \in Codes
    BY <1>1 DEF TypeOK, Codes
  <2>5. inside' \subseteq {"RateLimit", "accesslog", "errors"} /\ ran' \subseteq Handlers
    BY <1>1, <1>2 DEF TypeOK
  <2>6. QED BY <1>1, <1>2, <2>2, <2>3, <2>4, <2>5 DEF TypeOK
<1>4. Loops'
  BY <1>1, <1>2 DEF Loops
<1>5. Answers'
  BY <1>1, <1>2 DEF Answers, Unanswered, None
<1>6. Logs'
  BY <1>1, <1>2 DEF Logs, Loops, Answers, Unanswered, None
<1>7. Guarded' /\ WritesAuthenticated' /\ AnswersFitSchema'
  BY <1>1, <1>2 DEF Guarded, WritesAuthenticated, AnswersFitSchema
<1>8. QED BY <1>3, <1>4, <1>5, <1>6, <1>7 DEF IInv

\* A handler behind the error handler returns without having written: it leaves
\* more to do, or an error, or has skipped what is pending on no route.
LEMMA ReturnKeeps ==
  ASSUME IInv, NEW h, Calling(h), index >= 4, NEW r \in Results, Return(r),
         UNCHANGED <<route, authed, output, logs, reply>>,
         \/ index' = index /\ (r # "nil" \/ index < Len(Chain))
         \/ index' = Aborted /\ r = "nil" /\ route = "nowhere",
         h = "auth" /\ r = "nil" => authed,
         h # "writeAlbum" \/ authed
  PROVE  IInv'
<1>1. /\ TypeOK /\ Loops /\ Answers /\ Logs /\ Guarded /\ WritesAuthenticated
      /\ AnswersFitSchema
      /\ Len(Chain) \in Int /\ Len(Chain) >= 6 /\ Len(Chain) <= 7 /\ Chain' = Chain
      /\ Len(Chain) = 7 <=> route \in {"writeAlbum", "nowhere"}
      /\ Aborted = Len(Chain) + 1 /\ Aborted' = Len(Chain) + 1
  BY Before
<1>2. /\ phase = "call" /\ phase' = "return" /\ inside' = inside /\ result' = r
      /\ h \in Handlers \ {"RateLimit", "accesslog", "errors"} /\ ran' = ran \cup {h}
      /\ index \in 4 .. Len(Chain) /\ result = "nil"
      /\ route = "writeAlbum" /\ index = 6 => h = "auth"
  BY <1>1, CalledAt DEF Return, Calling, Loops
<1>3. TypeOK'
  BY <1>1, <1>2 DEF TypeOK, output
<1>4. Loops'
  BY <1>1, <1>2 DEF Loops
<1>5. Answers'
  BY <1>1, <1>2 DEF Answers, Answered, Unanswered, Loops, output, None
<1>6. Logs'
  BY <1>1, <1>2 DEF Logs, output
<1>7. Guarded'
  BY <1>1, <1>2 DEF Guarded
<1>8. WritesAuthenticated' /\ AnswersFitSchema'
  BY <1>1, <1>2 DEF WritesAuthenticated, AnswersFitSchema
<1>9. QED BY <1>3, <1>4, <1>5, <1>6, <1>7, <1>8 DEF IInv

\* The last handler of a route writes its answer.
LEMMA WriteKeeps ==
  ASSUME IInv, NEW h, Calling(h), index = Len(Chain), route # "nowhere",
         NEW code \in {None, 201}, Write(code),
         UNCHANGED <<route, authed, index, logs>>,
         reply' \in Texts \cup {NoText},
         reply' # NoText => reply'.json /\ reply'.blocks
  PROVE  IInv'
<1>1. /\ TypeOK /\ Loops /\ Answers /\ Logs /\ Guarded /\ WritesAuthenticated
      /\ AnswersFitSchema
      /\ Len(Chain) \in Int /\ Len(Chain) >= 6 /\ Len(Chain) <= 7 /\ Chain' = Chain
      /\ Len(Chain) = 7 <=> route \in {"writeAlbum", "nowhere"}
      /\ Aborted = Len(Chain) + 1 /\ Aborted' = Len(Chain) + 1
  BY Before
<1>2. PICK complete \in BOOLEAN :
        Respond(code, complete) /\ Return(IF complete THEN "nil" ELSE "error")
  BY DEF Write
<1>3. /\ phase = "call" /\ phase' = "return" /\ inside' = inside
      /\ result' = IF complete THEN "nil" ELSE "error"
      /\ h \in Handlers \ {"RateLimit", "accesslog", "errors"} /\ ran' = ran \cup {h}
      /\ h = "writeAlbum" => index = 7 /\ route = "writeAlbum"
  BY <1>1, <1>2, CalledAt DEF Return, Calling
<1>4. Unanswered /\ (sent # 429 => bodies = 0) /\ "accesslog" \in ran
  BY <1>1, <1>3 DEF Answers, Unanswered, Loops, None
<1>5. /\ sent' = (IF sent = None THEN IF code = None THEN 200 ELSE code ELSE sent)
      /\ status' = (IF status # None /\ code # None THEN code ELSE status)
      /\ bodies' = IF complete THEN bodies + 1 ELSE bodies
      /\ broken' = ~ complete
  BY <1>2 DEF Respond
<1>6. TypeOK'
  <2>1. bodies' \in 0 .. 2 /\ sent' \in Codes /\ status' \in Codes /\ broken' \in BOOLEAN
    BY <1>1, <1>4, <1>5 DEF TypeOK, Unanswered, Codes, None
  <2>2. ran' \subseteq Handlers /\ result' \in Results
    BY <1>1, <1>3 DEF TypeOK, Results
  <2>3. QED BY <1>1, <1>3, <2>1, <2>2 DEF TypeOK
<1>7. Loops'
  BY <1>1, <1>3 DEF Loops
<1>8. Answers'
  <2>1. index' = index /\ route' = route /\ "accesslog" \in ran'
    BY <1>3, <1>4
  <2>2. CASE complete
    <3>1. sent' = 429 \/ (bodies' = 1 /\ sent' \in {200, 201})
      BY <1>4, <1>5, <2>2 DEF Unanswered, None
    <3>2. QED BY <1>1, <1>3, <2>1, <2>2, <3>1 DEF Answers, Answered, None
  <2>3. CASE ~ complete
    BY <1>3, <1>5, <2>1, <2>3 DEF Answers
  <2>4. QED BY <2>2, <2>3
<1>9. Logs'
  <2>1. "accesslog" \in inside' /\ "accesslog" \in ran'
    BY <1>1, <1>3, <1>4 DEF Loops
  <2>2. sent' # 429 => status' = sent'
    BY <1>1, <1>4, <1>5 DEF Logs, Unanswered, None
  <2>3. logs = <<>>
    BY <1>1, <1>3, <2>1 DEF Logs
  <2>4. sent' # None
    BY <1>5 DEF None
  <2>5. QED BY <2>1, <2>2, <2>3, <2>4 DEF Logs
<1>10. Guarded' /\ WritesAuthenticated' /\ AnswersFitSchema'
  BY <1>1, <1>3 DEF Guarded, WritesAuthenticated, AnswersFitSchema
<1>11. QED BY <1>6, <1>7, <1>8, <1>9, <1>10 DEF IInv

\* The limiter answers 429: it skips what is pending, or it does not (a block
\* in force), and then the answer may be followed by the rest of the chain.
LEMMA LimitKeeps ==
  ASSUME IInv, Calling("RateLimit"), UNCHANGED <<route, authed, logs, reply>>,
         NEW complete \in BOOLEAN, Respond(429, complete),
         \/ Return("nil") /\ index' = Aborted
         \/ Return(IF complete THEN "nil" ELSE "error") /\ index' = index
  PROVE  IInv'
<1>1. /\ TypeOK /\ Loops /\ Answers /\ Logs /\ Guarded /\ WritesAuthenticated
      /\ AnswersFitSchema
      /\ Len(Chain) \in Int /\ Len(Chain) >= 6 /\ Len(Chain) <= 7 /\ Chain' = Chain
      /\ Len(Chain) = 7 <=> route \in {"writeAlbum", "nowhere"}
      /\ Aborted = Len(Chain) + 1 /\ Aborted' = Len(Chain) + 1
  BY Before
<1>2. /\ phase = "call" /\ phase' = "return" /\ inside' = inside /\ index = 1
      /\ result' \in {"nil", "error"} /\ (result' = "nil" \/ ~ complete)
      /\ index' \in {1, Aborted} /\ (index' = 1 => result' = "error" \/ complete)
      /\ ran' = ran \cup {"RateLimit"}
  BY <1>1, CalledAt DEF Return, Calling
<1>3. sent = None /\ bodies = 0 /\ ~ broken /\ "accesslog" \notin ran /\ "errors" \notin ran
  BY <1>1, <1>2 DEF Answers, Loops
<1>4. /\ sent' = 429 /\ status' \in {status, 429} /\ broken' = ~ complete
      /\ bodies' = IF complete THEN 1 ELSE 0
  BY <1>3 DEF Respond, None
<1>5. TypeOK'
  <2>1. bodies' \in 0 .. 2 /\ sent' \in Codes /\ status' \in Codes
    BY <1>1, <1>4 DEF TypeOK, Codes
  <2>2. ran' \subseteq Handlers /\ result' \in Results
    BY <1>1, <1>2 DEF TypeOK, Results, Handlers
  <2>3. index' \in 1 .. Aborted'
    BY <1>1, <1>2
  <2>4. QED BY <1>1, <1>2, <1>4, <2>1, <2>2, <2>3 DEF TypeOK
<1>6. Loops'
  BY <1>1, <1>2, <1>3 DEF Loops
<1>7. Answers'
  <2>1. phase' = "return" /\ "accesslog" \notin ran' /\ sent' = 429
    BY <1>2, <1>3, <1>4
  <2>2. ~ broken' => complete /\ bodies' = 1
    BY <1>4
  <2>3. index' < Len(Chain') /\ result' = "nil" => ~ broken'
    <3>1. Aborted >= Len(Chain)
      BY <1>1
    <3>2. index' < Len(Chain') => index' = 1
      BY <1>1, <1>2, <3>1
    <3>3. QED BY <1>2, <1>4, <3>2
  <2>4. QED BY <2>1, <2>2, <2>3 DEF Answers, None
<1>8. Logs'
  BY <1>1, <1>2, <1>3, <1>4 DEF Logs
<1>9. Guarded' /\ WritesAuthenticated' /\ AnswersFitSchema'
  BY <1>1, <1>2 DEF Guarded, WritesAuthenticated, AnswersFitSchema
<1>10. QED BY <1>5, <1>6, <1>7, <1>8, <1>9 DEF IInv

\* 405 without a body, or headers only; what is pending is skipped.
LEMMA MethodNotAllowedKeeps == ASSUME IInv, MethodNotAllowed PROVE IInv'
<1>1. /\ TypeOK /\ Loops /\ Answers /\ Logs /\ Guarded /\ WritesAuthenticated
      /\ AnswersFitSchema
      /\ Len(Chain) \in Int /\ Len(Chain) >= 6 /\ Len(Chain) <= 7 /\ Chain' = Chain
      /\ Len(Chain) = 7 <=> route \in {"writeAlbum", "nowhere"}
      /\ Aborted = Len(Chain) + 1 /\ Aborted' = Len(Chain) + 1
  BY Before DEF MethodNotAllowed
<1>2. /\ phase = "call" /\ phase' = "return" /\ inside' = inside /\ index = 6
      /\ result' = "nil" /\ index' = Aborted /\ route = "nowhere" /\ route' = route
      /\ ran' = ran \cup {"MethodNotAllowed"}
  BY <1>1, CalledAt DEF MethodNotAllowed, Return, Calling
<1>3. Unanswered /\ "accesslog" \in ran /\ "accesslog" \in inside
  BY <1>1, <1>2 DEF Answers, Loops
<1>4. /\ bodies' = bodies /\ broken' = broken /\ logs' = logs
      /\ \/ sent' = (IF sent = None THEN 405 ELSE sent) /\ status' = 405
         \/ sent' = sent /\ status' = status
  BY DEF MethodNotAllowed
<1>5. TypeOK'
  <2>1. sent' \in Codes /\ status' \in Codes
    BY <1>1, <1>4 DEF TypeOK, Codes
  <2>2. ran' \subseteq Handlers /\ result' \in Results
    BY <1>1, <1>2 DEF TypeOK, Results, Handlers
  <2>3. index' \in 1 .. Aborted'
    BY <1>1, <1>2
  <2>4. QED BY <1>1, <1>2, <1>4, <2>1, <2>2, <2>3 DEF TypeOK, MethodNotAllowed
<1>6. Loops'
  BY <1>1, <1>2 DEF Loops
<1>7. Answers'
  BY <1>1, <1>2, <1>3, <1>4 DEF Answers, Answered, Unanswered, None
<1>8. Logs'
  BY <1>1, <1>2, <1>3, <1>4 DEF Logs, Unanswered, None
<1>9. Guarded' /\ WritesAuthenticated' /\ AnswersFitSchema'
  BY <1>1, <1>2 DEF Guarded, WritesAuthenticated, AnswersFitSchema, MethodNotAllowed
<1>10. QED BY <1>5, <1>6, <1>7, <1>8, <1>9 DEF IInv

\* The loop goes on: nothing was answered yet, and the auth handler has passed.
LEMMA LoopKeeps == ASSUME IInv, LoopNext PROVE IInv'
<1>1. /\ TypeOK /\ Loops /\ Answers /\ Logs /\ Guarded /\ WritesAuthenticated
      /\ AnswersFitSchema
      /\ Len(Chain) \in Int /\ Len(Chain) >= 6 /\ Len(Chain) <= 7 /\ Chain' = Chain
      /\ Len(Chain) = 7 <=> route \in {"writeAlbum", "nowhere"}
      /\ Aborted = Len(Chain) + 1 /\ Aborted' = Len(Chain) + 1
  BY Before DEF LoopNext
<1>2. /\ phase = "return" /\ phase' = "call" /\ result = "nil" /\ index < Len(Chain)
      /\ index' = index + 1 /\ index \in 1 .. Aborted
      /\ UNCHANGED <<route, authed, inside, result, sent, bodies, broken, status, logs, reply, ran>>
  BY <1>1 DEF LoopNext, output, TypeOK
<1>3. TypeOK'
  <2>1. index' \in 1 .. Aborted'
    BY <1>1, <1>2
  <2>2. index' <= Len(Chain')
    BY <1>1, <1>2
  <2>3. QED BY <1>1, <1>2, <2>1, <2>2 DEF TypeOK
<1>4. /\ "accesslog" \in ran => index >= 4 /\ "errors" \in ran
      /\ "accesslog" \notin ran => index = 1
      /\ "errors" \in ran => "errors" \in inside /\ "accesslog" \in inside
  BY <1>1, <1>2 DEF Loops
<1>5. Loops'
  <2>1. CASE "accesslog" \in ran
    BY <1>1, <1>2, <1>4, <2>1 DEF Loops
  <2>2. CASE "accesslog" \notin ran
    BY <1>1, <1>2, <1>4, <2>2 DEF Loops
  <2>3. QED BY <2>1, <2>2
<1>6. Answers'
  <2>1. index' # 1 /\ index' >= 2 /\ phase' = "call"
    BY <1>1, <1>2
  <2>2. Unanswered \/ broken \/ (sent = 429 /\ bodies = 1)
    BY <1>1, <1>2 DEF Answers
  <2>3. ~ broken
    BY <1>1, <1>2, <1>4 DEF Answers
  <2>4. QED BY <1>2, <2>1, <2>2, <2>3 DEF Answers, Unanswered
<1>7. Logs'
  BY <1>1, <1>2 DEF Logs
<1>8. Guarded' /\ WritesAuthenticated' /\ AnswersFitSchema'
  BY <1>1, <1>2 DEF Guarded, WritesAuthenticated, AnswersFitSchema
<1>9. QED BY <1>3, <1>5, <1>6, <1>7, <1>8 DEF IInv

\* A middleware comes back with what the handlers behind it returned: nil or an
\* error to the limiter, nil to the error handler (NoError), and to the access
\* log, which notes the status.
LEMMA LeaveKeeps ==
  ASSUME IInv, NEW h \in {"RateLimit", "accesslog", "errors"}, Leave(h),
         UNCHANGED <<route, authed, index, phase, result, output, reply, ran>>,
         logs' = IF h # "accesslog" \/ result = "panic" THEN logs ELSE Append(logs, status),
         h = "errors" => result = "nil"
  PROVE  IInv'
<1>1. /\ TypeOK /\ Loops /\ Answers /\ Logs /\ Guarded /\ WritesAuthenticated
      /\ AnswersFitSchema
      /\ Len(Chain) \in Int /\ Len(Chain) >= 6 /\ Len(Chain) <= 7 /\ Chain' = Chain
      /\ Len(Chain) = 7 <=> route \in {"writeAlbum", "nowhere"}
      /\ Aborted = Len(Chain) + 1 /\ Aborted' = Len(Chain) + 1
  BY Before
<1>2. /\ phase = "return" /\ (result # "nil" \/ index >= Len(Chain))
      /\ h \in inside /\ inside' = inside \ {h} /\ h \in ran
      /\ h = "RateLimit" => inside = {"RateLimit"}
      /\ h = "accesslog" => "accesslog" \in inside /\ "errors" \notin inside
      /\ h = "errors" => "errors" \in inside /\ "accesslog" \in inside
  BY <1>1, LeftAt DEF Loops
<1>3. h = "accesslog" => logs' = <<status>> /\ logs = <<>>
  <2>1. CASE h = "accesslog"
    <3>1. result = "nil" /\ logs = <<>>
      BY <1>1, <1>2, <2>1 DEF Loops, Logs
    <3>2. QED BY <2>1, <3>1
  <2>2. QED BY <2>1
<1>4. TypeOK'
  <2>1. logs' \in Seq(Codes)
    BY <1>1, <1>3 DEF TypeOK
  <2>2. QED BY <1>1, <1>2, <2>1 DEF TypeOK, output
<1>5. Loops'
  BY <1>1, <1>2 DEF Loops
<1>6. Answers'
  BY <1>1 DEF Answers, Answered, Unanswered, output
<1>7. Logs'
  BY <1>1, <1>2, <1>3 DEF Logs, output
<1>8. Guarded' /\ WritesAuthenticated' /\ AnswersFitSchema'
  BY <1>1 DEF Guarded, WritesAuthenticated, AnswersFitSchema
<1>9. QED BY <1>4, <1>5, <1>6, <1>7, <1>8 DEF IInv

\* The error handler answers an error or a panic with its status, unless the
\* client cannot be written to, and hides it.
LEMMA HandleErrorKeeps == ASSUME IInv, HandleError PROVE IInv'
<1>1. /\ TypeOK /\ Loops /\ Answers /\ Logs /\ Guarded /\ WritesAuthenticated
      /\ AnswersFitSchema
      /\ Len(Chain) \in Int /\ Len(Chain) >= 6 /\ Len(Chain) <= 7 /\ Chain' = Chain
      /\ Len(Chain) = 7 <=> route \in {"writeAlbum", "nowhere"}
      /\ Aborted = Len(Chain) + 1 /\ Aborted' = Len(Chain) + 1
  BY Before DEF HandleError
<1>2. /\ phase = "return" /\ result # "nil" /\ inside' = inside \ {"errors"}
      /\ "errors" \in inside /\ "accesslog" \in inside
      /\ "errors" \in ran /\ "accesslog" \in ran
      /\ UNCHANGED <<route, authed, phase, logs, reply, ran>>
      /\ index' = Aborted /\ result' = "nil"
  BY <1>1, LeftAt DEF HandleError, Loops
<1>3. PICK complete \in BOOLEAN :
        (broken => ~ complete) /\ Respond(Status(result), complete)
  BY DEF HandleError, Handles
<1>4. Status(result) \in {400, 401, 404, 500}
  BY DEF Status
<1>5. /\ sent' = (IF sent = None THEN Status(result) ELSE sent)
      /\ status' = (IF status # None THEN Status(result) ELSE status)
      /\ bodies' = IF complete THEN bodies + 1 ELSE bodies
      /\ broken' = ~ complete
  BY <1>3, <1>4 DEF Respond, None
<1>6. complete => Unanswered
  BY <1>1, <1>2, <1>3 DEF Answers
<1>7. TypeOK'
  <2>1. sent' \in Codes /\ status' \in Codes
    BY <1>1, <1>4, <1>5 DEF TypeOK, Codes
  <2>2. bodies' \in 0 .. 2
    BY <1>1, <1>5, <1>6 DEF TypeOK, Unanswered
  <2>3. index' \in 1 .. Aborted' /\ result' \in Results
    BY <1>1, <1>2 DEF Results
  <2>4. QED BY <1>1, <1>2, <1>5, <2>1, <2>2, <2>3 DEF TypeOK
<1>8. Loops'
  BY <1>1, <1>2 DEF Loops
<1>9. Answers'
  <2>0. index' = Len(Chain') + 1 /\ Len(Chain') \in Int
    BY <1>1, <1>2
  <2>1. CASE complete
    <3>1. sent' = 429 \/ (bodies' = 1 /\ sent' \in {400, 401, 404, 500})
      BY <1>4, <1>5, <1>6, <2>1 DEF Unanswered, None
    <3>2. index' >= Len(Chain')
      BY <2>0
    <3>3. Answered' \/ sent' = 429
      BY <3>1 DEF Answered, None
    <3>4. ~ (index' < Len(Chain'))
      BY <2>0
    <3>5. QED BY <1>2, <3>2, <3>3, <3>4 DEF Answers
  <2>2. CASE ~ complete
    <3>1. ~ (index' < Len(Chain'))
      BY <2>0
    <3>2. QED BY <1>2, <1>5, <2>2, <3>1 DEF Answers
  <2>3. QED BY <2>1, <2>2
<1>10. Logs'
  <2>1. CASE complete
    BY <1>1, <1>2, <1>4, <1>5, <1>6, <2>1 DEF Logs, Unanswered, None
  <2>2. CASE ~ complete
    BY <1>1, <1>2, <1>5, <2>2 DEF Logs
  <2>3. QED BY <2>1, <2>2
<1>11. Guarded' /\ WritesAuthenticated' /\ AnswersFitSchema'
  BY <1>1, <1>2 DEF Guarded, WritesAuthenticated, AnswersFitSchema
<1>12. QED BY <1>7, <1>8, <1>9, <1>10, <1>11 DEF IInv

\* The router has nothing to answer: an error that gets this far was sent 429.
LEMMA FinishKeeps == ASSUME IInv, Finish PROVE IInv'
<1>1. /\ TypeOK /\ Loops /\ Answers /\ Logs /\ Guarded /\ WritesAuthenticated
      /\ AnswersFitSchema
      /\ Len(Chain) \in Int /\ Len(Chain) >= 6 /\ Len(Chain) <= 7 /\ Chain' = Chain
      /\ Len(Chain) = 7 <=> route \in {"writeAlbum", "nowhere"}
      /\ Aborted = Len(Chain) + 1 /\ Aborted' = Len(Chain) + 1
  BY Before DEF Finish
<1>2. /\ phase = "return" /\ inside = {} /\ phase' = "done"
      /\ (result # "nil" \/ ~ (index < Len(Chain)))
      /\ UNCHANGED <<route, authed, index, inside, result, bodies, broken, status,
                     logs, reply, ran>>
  BY DEF Finish, Ended
<1>3. sent' = sent
  <2>1. "accesslog" \in ran => result = "nil"
    BY <1>1, <1>2 DEF Loops
  <2>2. "accesslog" \notin ran => sent # None
    BY <1>1, <1>2 DEF Answers
  <2>3. QED BY <2>1, <2>2 DEF Finish
<1>4. TypeOK'
  BY <1>1, <1>2, <1>3 DEF TypeOK
<1>5. Loops' /\ Logs'
  BY <1>1, <1>2, <1>3 DEF Loops, Logs
<1>6. Answers'
  BY <1>1, <1>2, <1>3 DEF Answers, Answered, Unanswered
<1>7. Guarded' /\ WritesAuthenticated' /\ AnswersFitSchema'
  BY <1>1, <1>2 DEF Guarded, WritesAuthenticated, AnswersFitSchema
<1>8. QED BY <1>4, <1>5, <1>6, <1>7 DEF IInv

LEMMA WayInKeeps == ASSUME IInv, WayIn PROVE IInv'
<1> USE DEF output
<1>1. TypeOK /\ Guarded
  BY DEF IInv
<1>2. CASE Allow
  BY <1>2, EnterKeeps DEF Allow
<1>3. CASE Refuse
  BY <1>3, LimitKeeps DEF Refuse
<1>4. CASE Reinstate
  BY <1>4, LimitKeeps DEF Reinstate, Write
<1>5. CASE WrapResponse
  BY <1>5, EnterKeeps DEF WrapResponse
<1>6. CASE EnterErrors
  BY <1>6, EnterKeeps DEF EnterErrors
<1>7. CASE Pass
  <2>1. PICK h \in {"TypeNegotiator", "cors", "auth", "MethodNotAllowed"} :
          Calling(h) /\ (h = "auth" => authed)
    BY <1>7 DEF Pass
  <2>2. index \in 4 .. 6 /\ index < Len(Chain)
    <3>1. index \in 4 .. 6 /\ (index = 6 => route \in {"writeAlbum", "nowhere"})
      BY <1>1, <2>1, CalledAt
    <3>2. /\ Len(Chain) \in Int /\ Len(Chain) >= 6
          /\ Len(Chain) = 7 <=> route \in {"writeAlbum", "nowhere"}
      BY <1>1, ChainShape DEF TypeOK
    <3>3. CASE index = 6
      <4>1. Len(Chain) = 7
        BY <3>1, <3>2, <3>3
      <4>2. QED BY <3>1, <3>3, <4>1
    <3>4. CASE index # 6
      BY <3>1, <3>2, <3>4
    <3>5. QED BY <3>3, <3>4
  <2>3. QED BY <1>7, <2>1, <2>2, ReturnKeeps DEF Pass, Results
<1>8. CASE Preflight
  <2>1. Calling("cors") /\ index = 5
    BY <1>1, <1>8, CalledAt DEF Preflight
  <2>2. QED BY <1>8, <2>1, ReturnKeeps DEF Preflight, Results
<1>9. CASE NotAuthenticated
  <2>1. Calling("auth") /\ index = 6
    BY <1>1, <1>9, CalledAt DEF NotAuthenticated
  <2>2. QED BY <1>9, <2>1, ReturnKeeps DEF NotAuthenticated, Results
<1>10. QED BY <1>2, <1>3, <1>4, <1>5, <1>6, <1>7, <1>8, <1>9 DEF WayIn

\* Only the handler of writeAlbum may be reached by who is not authenticated, and
\* it is not.
LEMMA Admitted == ASSUME IInv, Calling("writeAlbum") PROVE authed
BY CalledAt DEF IInv, Guarded

LEMMA HandleKeeps == ASSUME IInv, Handle PROVE IInv'
<1> USE DEF output
<1>1. TypeOK
  BY DEF IInv
<1>2. CASE MethodNotAllowed
  BY <1>2, MethodNotAllowedKeeps
<1>3. CASE Fails
  <2>1. PICK h \in DOMAIN Errors : Calling(h) /\ \E e \in Errors[h] : Return(e)
    BY <1>3 DEF Fails
  <2>2. PICK e \in Errors[h] : Return(e)
    BY <2>1
  <2>3. h \in {"login", "album", "writeAlbum", "NotFound"} /\ e \in Results \ {"nil"}
    BY <2>1, <2>2 DEF Errors, Results
  <2>4. index >= 4 /\ (h # "writeAlbum" \/ authed)
    BY <1>1, <2>1, <2>3, CalledAt, Admitted
  <2>5. QED BY <1>3, <2>1, <2>2, <2>3, <2>4, ReturnKeeps DEF Fails
<1>4. CASE Answer
  <2>1. PICK h \in {"healthcheck", "login", "handleDataRequest", "album", "writeAlbum"},
             code \in {None, 201} : Calling(h) /\ Write(code)
    BY <1>4 DEF Answer
  <2>2. index = Len(Chain) /\ route # "nowhere"
    <3>1. CASE h = "writeAlbum"
      <4>1. index = 7 /\ route = "writeAlbum"
        BY <1>1, <2>1, <3>1, CalledAt
      <4>2. QED BY <1>1, <4>1, ChainShape DEF TypeOK
    <3>2. CASE h # "writeAlbum"
      BY <1>1, <2>1, <3>2, CalledAt
    <3>3. QED BY <3>1, <3>2
  <2>3. reply' \in Texts \cup {NoText} /\ (reply' # NoText => reply'.json /\ reply'.blocks)
    BY <1>4 DEF Answer, IInv, TypeOK, AnswersFitSchema
  <2>4. QED BY <1>4, <2>1, <2>2, <2>3, WriteKeeps DEF Answer
<1>5. CASE Panics
  <2>1. PICK h \in {"handleDataRequest", "handleAsk"} : Calling(h)
    BY <1>5 DEF Panics
  <2>2. index >= 4
    BY <1>1, <2>1, CalledAt
  <2>3. QED BY <1>5, <2>1, <2>2, ReturnKeeps DEF Panics, Results
<1>6. CASE HandleAsk
  <2>1. Calling("handleAsk") /\ index = 6 /\ index = Len(Chain) /\ route # "nowhere"
    BY <1>1, <1>6, CalledAt DEF HandleAsk
  <2>2. CASE Return("panic") /\ UNCHANGED <<output, reply>>
    BY <1>6, <2>1, <2>2, ReturnKeeps DEF HandleAsk, Results
  <2>3. CASE Write(None) /\ reply' = NoText
    BY <1>6, <2>1, <2>3, WriteKeeps DEF HandleAsk
  <2>4. CASE Write(None) /\ \E t \in Texts : ValidateResponseSchema(t) /\ reply' = Reply(t)
    <3>1. PICK t \in Texts : ValidateResponseSchema(t) /\ reply' = Reply(t)
      BY <2>4
    <3>2. Reply(t) \in Texts /\ Reply(t).json /\ Reply(t).blocks
      BY <3>1 DEF Texts, ValidateResponseSchema, Reply
    <3>3. QED BY <1>6, <2>1, <2>4, <3>1, <3>2, WriteKeeps DEF HandleAsk
  <2>5. QED BY <1>6, <2>2, <2>3, <2>4 DEF HandleAsk
<1>7. QED BY <1>2, <1>3, <1>4, <1>5, <1>6 DEF Handle

LEMMA WayOutKeeps == ASSUME IInv, WayOut PROVE IInv'
<1>1. CASE LoopNext
  BY <1>1, LoopKeeps
<1>2. CASE LimiterReturns
  BY <1>2, LeaveKeeps DEF LimiterReturns
<1>3. CASE Log
  BY <1>3, LeaveKeeps DEF Log
<1>4. CASE HandleError
  BY <1>4, HandleErrorKeeps
<1>5. CASE NoError
  BY <1>5, LeaveKeeps DEF NoError
<1>6. CASE Finish
  BY <1>6, FinishKeeps
<1>7. QED BY <1>1, <1>2, <1>3, <1>4, <1>5, <1>6 DEF WayOut

LEMMA InvInductive == Spec => []IInv
<1>1. Init => IInv
  BY InvInit
<1>2. IInv /\ UNCHANGED vars => IInv'
  <2>1. ASSUME IInv, UNCHANGED vars PROVE IInv'
    <3>1. Chain' = Chain /\ Aborted' = Aborted
      BY <2>1, ChainStays DEF vars
    <3>2. TypeOK' /\ WritesAuthenticated' /\ AnswersFitSchema' /\ Guarded'
      BY <2>1, <3>1 DEF IInv, vars, TypeOK, WritesAuthenticated, AnswersFitSchema, Guarded
    <3>3. Loops' /\ Answers' /\ Logs'
      BY <2>1, <3>1 DEF IInv, vars, Loops, Answers, Answered, Unanswered, Logs
    <3>4. QED BY <3>2, <3>3 DEF IInv
  <2>2. QED BY <2>1
<1>3. IInv /\ [Next]_vars => IInv'
  BY <1>2, WayInKeeps, HandleKeeps, WayOutKeeps DEF Next, Done
<1>4. QED BY <1>1, <1>3, PTL DEF Spec

-----------------------------------------------------------------------------
(* Theorems.                                                               *)

\* Every variable keeps its type; no more than two bodies are written.
THEOREM TypeCorrect == Spec => []TypeOK
<1>1. IInv => TypeOK
  BY DEF IInv
<1>2. QED BY <1>1, InvInductive, PTL

\* No album is written for a client that is not authenticated.
THEOREM WriterAuthenticated == Spec => []WritesAuthenticated
<1>1. IInv => WritesAuthenticated
  BY DEF IInv
<1>2. QED BY <1>1, InvInductive, PTL

\* The error handler lets no error and no panic out.
THEOREM ErrorsContained == Spec => []NothingEscapes
<1>1. IInv => NothingEscapes
  BY DEF IInv, Loops, NothingEscapes
<1>2. QED BY <1>1, InvInductive, PTL

\* Every call that passes the limiter is logged once, by whatever way it ends.
THEOREM OneLine == Spec => []LoggedOnce
<1>1. ASSUME IInv, phase = "done"
      PROVE  Len(logs) = IF "accesslog" \in ran THEN 1 ELSE 0
  <2>1. logs = IF "accesslog" \in ran THEN <<status>> ELSE <<>>
    BY <1>1 DEF IInv, Loops, Logs
  <2>2. QED BY <2>1
<1>2. IInv => LoggedOnce
  BY <1>1 DEF LoggedOnce
<1>3. QED BY <1>2, InvInductive, PTL

\* The log tells the truth about what was sent.
THEOREM LogTrue == Spec => []LoggedIsSent
<1>1. ASSUME IInv, phase = "done", logs # <<>>, ~ Reinstated, ~ broken
      PROVE  logs[1] = IF sent = None THEN 200 ELSE sent
  <2>1. "accesslog" \in ran /\ logs = <<status>>
    BY <1>1 DEF IInv, Logs
  <2>2. sent # 429
    BY <1>1, <2>1 DEF Reinstated
  <2>3. QED BY <1>1, <2>1, <2>2 DEF IInv, Logs
<1>2. IInv => LoggedIsSent
  BY <1>1 DEF LoggedIsSent
<1>3. QED BY <1>2, InvInductive, PTL

\* One body for every call, none for the answers that have none.
THEOREM BodyOnce == Spec => []OneBody
<1>1. ASSUME IInv, phase = "done", ~ broken, ~ Reinstated
      PROVE  bodies = IF route = "nowhere" /\ sent \in {None, 405} THEN 0 ELSE 1
  <2>1. CASE "accesslog" \notin ran
    BY <1>1, <2>1 DEF IInv, Answers, None
  <2>2. CASE "accesslog" \in ran
    <3>1. sent # 429
      BY <1>1, <2>2 DEF Reinstated
    <3>2. result = "nil" /\ index >= Len(Chain)
      BY <1>1, <2>2 DEF IInv, Loops
    <3>3. QED BY <1>1, <2>2, <3>1, <3>2 DEF IInv, Answers, Answered
  <2>3. QED BY <2>1, <2>2
<1>2. IInv => OneBody
  BY <1>1 DEF OneBody
<1>3. QED BY <1>2, InvInductive, PTL

\* What /ask answers with from a model has the structure of the schema.
THEOREM AskAnswersFit == Spec => []AnswersFitSchema
<1>1. IInv => AnswersFitSchema
  BY DEF IInv
<1>2. QED BY <1>1, InvInductive, PTL

=============================================================================
