----------------------------- MODULE WsgiWrapper -----------------------------
(***************************************************************************)
(* One request on its way through the middlewares to a WSGI application:   *)
(* the task of the application, which collects the body, the thread that   *)
(* runs the application, and the stream they both send to.                 *)
(***************************************************************************)
EXTENDS Middleware

CONSTANTS
  MaxBodySize,   \* wsgi_max_body_size, in parts
  MaxParts,      \* parts of a body the client sends
  MaxChunks,     \* chunks the application yields
  QueueSize      \* max_app_queue_size

ASSUME RequestAssumption ==
  MaxBodySize \in Nat /\ MaxParts \in Nat /\ MaxChunks \in Nat /\ QueueSize \in Nat \ {0}

VARIABLES
  setup,     \* the configuration: server names, mode, hops, host, mounts
  scope,     \* the scope, as far as the middlewares have changed it
  client,    \* the request's sender: "sends", "sent" or "gone"
  queue,     \* app_queue
  parts,     \* parts of the body the client has sent
  task,      \* where the application's task is
  body,      \* parts that handle_http has collected
  environ,
  thread,    \* where run_app is
  started,   \* response_started
  chunks,    \* chunks the application has yielded
  closes,    \* calls of response_body.close()
  state,     \* the stream's state
  closed,    \* the stream's closed
  out,       \* events the stream has passed to the protocol
  cut        \* the task was cancelled

scopeVars == <<setup, scope>>
clientVars == <<client, queue, parts>>
threadVars == <<thread, started, chunks, closes>>
streamVars == <<state, closed, out>>
requestVars == <<scopeVars, clientVars, task, body, environ, threadVars, streamVars, cut>>

Tasks == {"stream", "enter", "body", "thread", "final", "raised", "over",
          "handled", "refused", "close", "redirect", "400", "404", "answered"}
ThreadStates == {"none", "call", "iterate", "start", "chunk", "close",
                 "closeFailed", "done", "failed"}
Sent == {"Response", "Body", "EndBody", "StreamClosed"}

RequestTypeOK ==
  /\ client \in {"sends", "sent", "gone"}
  /\ queue \in Seq({"part", "end", "disconnect"}) /\ Len(queue) <= QueueSize
  /\ parts \in 0 .. MaxParts /\ body \in 0 .. MaxBodySize + 1
  /\ task \in Tasks /\ thread \in ThreadStates
  /\ started \in BOOLEAN /\ chunks \in 0 .. MaxChunks /\ closes \in Nat
  /\ state \in {"REQUEST", "RESPONSE", "CLOSED"}
  /\ out \in Seq(Sent) /\ cut \in BOOLEAN /\ closed \in BOOLEAN

RequestInit ==
  /\ client = "sends" /\ queue = <<>> /\ parts = 0
  /\ task = "stream" /\ body = 0 /\ environ = None
  /\ thread = "none" /\ started = FALSE /\ chunks = 0 /\ closes = 0
  /\ state = "REQUEST" /\ closed = FALSE /\ out = <<>> /\ cut = FALSE

----------------------------------------------------------------------------
(* The stream.                                                             *)

\* HTTPStream.app_send; an EndBody is followed by StreamClosed, to which the
\* protocol answers with the StreamClosed that sets closed.
Start ==
  /\ state = "REQUEST"
  /\ state' = "RESPONSE" /\ out' = Append(out, "Response") /\ UNCHANGED closed
Chunk ==
  /\ state = "RESPONSE"
  /\ out' = Append(out, "Body") /\ UNCHANGED <<state, closed>>
End ==
  /\ state = "RESPONSE"
  /\ state' = "CLOSED" /\ closed' = TRUE
  /\ out' = out \o <<"EndBody", "StreamClosed">>

ErrorResponse == <<"Response", "EndBody">>

\* send(None), the end of _handle
Handled ==
  /\ task \in {"raised", "over"} /\ task' = "handled"
  /\ IF closed THEN UNCHANGED <<out, closed>>
     ELSE /\ out' = out \o (IF state = "REQUEST" THEN ErrorResponse ELSE <<>>)
                        \o <<"StreamClosed">>
          /\ closed' = TRUE
  /\ UNCHANGED <<scopeVars, clientVars, body, environ, threadVars, state, cut>>

\* HTTPStream.handle(Request)
Request ==
  /\ task = "stream"
  /\ LET headers == IF scope.version = "2" THEN FilterPseudoHeaders(scope.headers)
                    ELSE scope.headers
         admitted == ValidServerName(setup.names, headers)
     IN /\ scope' = [scope EXCEPT !.headers = headers]
        /\ task' = IF admitted THEN "enter" ELSE "refused"
        /\ out' = IF admitted THEN out ELSE ErrorResponse
        /\ closed' = ~admitted
  /\ UNCHANGED <<setup, clientVars, body, environ, threadVars, state, cut>>

\* HTTPStream.handle(Body), (EndBody) and (StreamClosed)
Sends(message) == queue' = Append(queue, message)
Listening == task \notin {"stream", "refused"} /\ Len(queue) < QueueSize /\ ~closed
ClientSends ==
  /\ client = "sends" /\ Listening /\ parts < MaxParts
  /\ parts' = parts + 1 /\ Sends("part") /\ UNCHANGED <<client, closed>>
  /\ UNCHANGED <<scopeVars, task, body, environ, threadVars, state, out, cut>>
ClientEnds ==
  /\ client = "sends" /\ Listening
  /\ client' = "sent" /\ Sends("end") /\ UNCHANGED <<parts, closed>>
  /\ UNCHANGED <<scopeVars, task, body, environ, threadVars, state, out, cut>>
ClientLeaves ==
  /\ client # "gone" /\ Listening
  /\ client' = "gone" /\ Sends("disconnect") /\ closed' = TRUE /\ UNCHANGED parts
  /\ UNCHANGED <<scopeVars, task, body, environ, threadVars, state, out, cut>>

----------------------------------------------------------------------------
(* The application's task.                                                 *)

Goto(next) ==
  /\ task' = next
  /\ UNCHANGED <<setup, clientVars, threadVars, cut>>

\* The middlewares: ProxyFix, then the redirect, then the mounts.  A websocket
\* that is not redirected is closed, by WSGIWrapper.__call__ at the latest; the
\* dispatcher's http.response.start is an error on a websocket's stream.
Enter ==
  LET fixed == ProxyFix(setup.mode, setup.hops, scope)
      mount == MountOf(setup.mounts, scope.path)
  IN /\ task = "enter"
     /\ UNCHANGED <<body, environ, streamVars>>
     /\ IF Insecure(fixed)
        THEN /\ scope' = fixed
             /\ Goto(Redirect(setup.host, fixed).kind)
        ELSE IF mount = 0
        THEN scope' = fixed /\ Goto(IF fixed.type = "http" THEN "404" ELSE "raised")
        ELSE scope' = Mounted(setup.mounts[mount], fixed)
             /\ Goto(IF fixed.type = "http" THEN "body" ELSE "close")

\* (mutant: the first message is the whole body)
EndsAtOnce(message) == TRUE

EndsBody(message) == message # "part"

TooLarge(size) == size > MaxBodySize

\* handle_http: one message of the body.  http.disconnect has no more_body.
TakeBody ==
  /\ task = "body" /\ queue # <<>>
  /\ LET size == body + (IF Head(queue) = "part" THEN 1 ELSE 0)
     IN /\ body' = size
        /\ IF TooLarge(size)
           THEN task' = "400" /\ UNCHANGED <<environ, thread>>
           ELSE IF ~EndsBody(Head(queue))
           THEN UNCHANGED <<task, environ, thread>>
           ELSE /\ environ' = Environ(scope)
                /\ task' = IF environ' = None THEN "404" ELSE "thread"
                /\ thread' = IF environ' = None THEN "none" ELSE "call"
  /\ queue' = Tail(queue)
  /\ UNCHANGED <<scopeVars, client, parts, started, chunks, closes, streamVars, cut>>

\* A response of the task's own: a redirect, 400 or 404.
Answer ==
  /\ task \in {"redirect", "400", "404"}
  /\ UNCHANGED <<scope, body, environ>>
  /\ Start /\ Goto("answered")
EndAnswer ==
  /\ task = "answered" /\ End /\ Goto("over")
  /\ UNCHANGED <<scope, body, environ>>

\* (mutant: what run_app raised is lost)
FinalAnyway(result) == "final"

AfterThread(result) == IF result = "done" THEN "final" ELSE "raised"

\* What run_app raised, and then the last body.  It raises if nothing was
\* started: an application that yields nothing.
Joined ==
  /\ task = "thread" /\ thread \in {"done", "failed"}
  /\ Goto(AfterThread(thread))
  /\ UNCHANGED <<scope, body, environ, streamVars>>
FinalBody ==
  /\ task = "final"
  /\ UNCHANGED <<scope, body, environ>>
  /\ \/ End /\ Goto("over")
     \/ state # "RESPONSE" /\ Goto("raised") /\ UNCHANGED streamVars

\* The worker cancels the task: the thread runs on.
Cut ==
  /\ task \in {"body", "thread"} /\ cut' = TRUE /\ task' = "raised"
  /\ UNCHANGED <<scopeVars, clientVars, body, environ, threadVars, streamVars>>

----------------------------------------------------------------------------
(* run_app.  The application (external) may call start_response when it is *)
(* called or iterated, and raise at both.                                  *)

Thread(next) ==
  /\ thread' = next
  /\ UNCHANGED <<scopeVars, clientVars, task, body, environ, cut>>

AppCalled ==
  /\ thread = "call" /\ UNCHANGED <<chunks, closes, streamVars>>
  /\ \/ Thread("iterate") /\ started' \in BOOLEAN
     \/ Thread("failed") /\ UNCHANGED started

\* for output in response_body
AppYields ==
  /\ thread = "iterate" /\ chunks < MaxChunks
  /\ chunks' = chunks + 1 /\ started' \in {started, TRUE}
  /\ Thread(IF chunks > 0 THEN "chunk" ELSE IF started' THEN "start"
            ELSE "closeFailed")
  /\ UNCHANGED <<closes, streamVars>>
AppEnds ==
  /\ thread = "iterate" /\ Thread("close")
  /\ UNCHANGED <<started, chunks, closes, streamVars>>

FailsAfterClose == "closeFailed"

AppFails ==
  /\ thread = "iterate" /\ Thread(FailsAfterClose)
  /\ UNCHANGED <<started, chunks, closes, streamVars>>

\* call_soon(send, ...): what the stream raises is raised in the thread.
SendStart ==
  /\ thread = "start" /\ UNCHANGED <<started, chunks, closes>>
  /\ \/ Start /\ Thread("chunk")
     \/ state # "REQUEST" /\ Thread("closeFailed") /\ UNCHANGED streamVars
SendChunk ==
  /\ thread = "chunk" /\ UNCHANGED <<started, chunks, closes>>
  /\ \/ Chunk /\ Thread("iterate")
     \/ state # "RESPONSE" /\ Thread("closeFailed") /\ UNCHANGED streamVars

\* response_body.close()
CloseBody ==
  /\ thread \in {"close", "closeFailed"}
  /\ closes' = closes + 1
  /\ Thread(IF thread = "close" THEN "done" ELSE "failed")
  /\ UNCHANGED <<started, chunks, streamVars>>

ThreadStep ==
  AppCalled \/ AppYields \/ AppEnds \/ AppFails \/ SendStart \/ SendChunk \/ CloseBody
TaskStep ==
  Request \/ Enter \/ TakeBody \/ Answer \/ EndAnswer \/ Joined \/ FinalBody \/ Handled

RequestNext ==
  \/ TaskStep \/ ThreadStep \/ Cut
  \/ ClientSends \/ ClientEnds \/ ClientLeaves

RequestSpec == RequestInit /\ [][RequestNext]_requestVars

----------------------------------------------------------------------------
\* The application sees a body that the client has sent to its end, within
\* the limit, unless the client has left.
BodyWhole ==
  thread # "none" =>
    body <= MaxBodySize /\ (client = "gone" \/ (client = "sent" /\ body = parts))

\* A response of the application that ends well is complete: the iterable was
\* exhausted and closed.
CompleteIsDone ==
  ~cut /\ {"Body", "EndBody"} \subseteq {out[i] : i \in DOMAIN out} => thread = "done"

\* The iterable is closed when run_app ends, once, whatever raised.
ClosedOnce ==
  thread \in {"done", "failed"} /\ (chunks > 0 \/ thread = "done") => closes = 1

\* One response at most: the protocol is given nothing once the stream is at
\* its end, and no second response.  Only the thread of a task that was
\* cancelled does so: it begins its response after the error that ended the
\* request.
OneResponse ==
  cut \/ \A i \in DOMAIN out :
           /\ out[i] = "Response" <=> i = 1
           /\ out[i] = "EndBody" => i >= Len(out) - 1
           /\ out[i] = "StreamClosed" => i = Len(out)

\* A request is answered: its stream comes to its end, but for one that was
\* cut while the application's thread runs on.
Answered == (task = "enter") ~> (task \in {"handled", "close"})

\* SCRIPT_NAME and PATH_INFO make up the path of the request, and the
\* application is the first whose mount the path begins with.
PathKept ==
  environ # None =>
    /\ environ.SCRIPT_NAME \o environ.PATH_INFO \in {scope.path, scope.path \o <<"/">>}
    /\ \E i \in DOMAIN setup.mounts :
         /\ IsSuffix(setup.mounts[i], environ.SCRIPT_NAME)
         /\ IsPrefix(setup.mounts[i], scope.path)
         /\ \A j \in 1 .. i - 1 : ~IsPrefix(setup.mounts[j], scope.path)
=============================================================================
