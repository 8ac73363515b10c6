------------------------------ MODULE KeyPool -------------------------------
(***************************************************************************)
(* The pool of Gemini API keys (pkg/pool), the sessions that use a key     *)
(* (pkg/transformer/gemi) and the handlers that drive both                 *)
(* (internal/gemini/api.go), with the part of cmd/server that fills the    *)
(* pool when the process starts.                                           *)
(*                                                                         *)
(* Every request runs in a goroutine of its own; the goroutines share the  *)
(* buffered channel of keys and one global genai.Content that carries the  *)
(* system instruction of every model.  An /ask request runs QueuedEVS:     *)
(* QueueTries times it takes a key, and with each key it sends to the      *)
(* model at most MaxTries times.  A /find or /genealogy request takes one  *)
(* key and sends once.  A request that ends leaves its goroutine id free   *)
(* for the next one.                                                       *)
(*                                                                         *)
(* Every Queue reads instructions.txt again and writes what it read into   *)
(* the shared content, while other sessions may be sending with it.  The   *)
(* instructions are abstracted to the version of the file they come from.  *)
(***************************************************************************)
EXTENDS Naturals, Sequences

CONSTANTS Asks,        \* goroutines that serve POST /v1/ask
          Finds,       \* goroutines that serve POST /v1/find and /v1/genealogy
          NumKeys,     \* entries of the GEMINI_API_KEYS_POOL array
          QueueTries,  \* keys an /ask may try (3 in handleAsk)
          MaxTries,    \* sends an /ask may make with one key (2 in handleAsk)
          MaxVersions  \* bound: versions of instructions.txt

ASSUME RequestsAssumption == Asks \cap Finds = {}
ASSUME NamesAssumption    == {"free", "lost"} \cap (Asks \cup Finds) = {}
ASSUME KeysAssumption     == NumKeys \in Nat \ {0}
ASSUME TriesAssumption    == QueueTries \in Nat /\ MaxTries \in Nat
ASSUME VersionsAssumption == MaxVersions \in Nat \ {0}

Requests == Asks \cup Finds
Keys     == 1 .. NumKeys               \* a key is its place in the array
NoKey    == 0
Versions == 1 .. MaxVersions
NoText   == 0                          \* no version: nothing read, or stored
EnvKeys  == [k \in Keys |-> k]         \* the keys in the order of the array

VARIABLES
  boot,         \* "down", "loading", "hydrated" or "serving"
  once,         \* Instance.once has run
  channel,      \* Instance.Channel: the free keys, in the order they return
  file,         \* the version of instructions.txt; it outlives the process
  content,      \* the version in the shared noContent, or NoText
  text,         \* the version a request has read and not yet stored
  pc,           \* where each request is
  held,         \* the key of a request, or NoKey
  attempt,      \* i of QueuedEVS
  try,          \* i of ExponentiallyValidateSend
  context,      \* errors that SendError appended to the input of the request
  sends,        \* history: model calls the request has finished
  since,        \* history: the oldest version a request may be served with
  lost          \* history: keys that no request will ever return

process  == <<boot, once>>
counters == <<attempt, try, context, sends>>
prompt   == <<file, content, text>>
vars     == <<boot, once, channel, file, content, text, pc, held, attempt,
              try, context, sends, since, lost>>

PCs == {"idle", "queue", "program", "store", "client", "send", "backoff",
        "retry", "done"}

Zero == [r \in Requests |-> 0]
Idle == [r \in Requests |-> "idle"]

Init ==
  /\ boot = "down" /\ once = FALSE /\ channel = <<>>
  /\ file = 1 /\ content = NoText /\ text = Zero /\ since = Zero
  /\ pc = Idle /\ held = Zero /\ lost = {}
  /\ attempt = Zero /\ try = Zero /\ context = Zero /\ sends = Zero

-----------------------------------------------------------------------------
(* The life of the process.                                                *)

\* main() starts and buildHandler reads the environment.
StartProcess ==
  /\ boot = "down"
  /\ boot' = "loading"
  /\ UNCHANGED <<once, channel, prompt, since, pc, held, counters, lost>>

\* sync.Once: the first call makes the channel and fills it, later ones
\* change nothing.
HydrateChannels ==
  /\ once' = TRUE
  /\ channel' = IF once THEN channel ELSE EnvKeys

\* The variable is set, parses and names at least one key.
LoadEnv ==
  /\ boot = "loading"
  /\ HydrateChannels
  /\ boot' = "hydrated"
  /\ UNCHANGED <<prompt, since, pc, held, counters, lost>>

\* The variable is empty, is not a JSON array or names no key: os.Exit(-1).
LoadFails ==
  /\ boot = "loading"
  /\ boot' = "down"
  /\ UNCHANGED <<once, channel, prompt, since, pc, held, counters, lost>>

\* buildHandler hydrates the pool a second time and registers the routes.
RegisterHandlers ==
  /\ boot = "hydrated"
  /\ HydrateChannels
  /\ boot' = "serving"
  /\ UNCHANGED <<prompt, since, pc, held, counters, lost>>

\* Everything the process had in memory is gone.
ProcessEnds ==
  /\ boot' = "down" /\ once' = FALSE /\ channel' = <<>>
  /\ content' = NoText /\ text' = Zero /\ since' = Zero /\ UNCHANGED file
  /\ pc' = Idle /\ held' = Zero /\ lost' = {}
  /\ attempt' = Zero /\ try' = Zero /\ context' = Zero /\ sends' = Zero

\* The process is stopped, by a signal or by its host.
Killed == boot # "down" /\ ProcessEnds

-----------------------------------------------------------------------------
(* One request.                                                            *)

\* The handler returns; its local variables go with it.
EndHandler(r) ==
  /\ pc' = [pc EXCEPT ![r] = "idle"]
  /\ attempt' = [attempt EXCEPT ![r] = 0]
  /\ try' = [try EXCEPT ![r] = 0]
  /\ context' = [context EXCEPT ![r] = 0]
  /\ sends' = [sends EXCEPT ![r] = 0]
  /\ since' = [since EXCEPT ![r] = NoText]

\* A well-formed request reaches its handler.  A request the handler refuses
\* before it asks for a key (unreadable body, undecodable or empty
\* conversation, empty message) changes nothing here.
Receive(r) ==
  /\ boot = "serving"
  /\ pc[r] = "idle"
  /\ pc' = [pc EXCEPT ![r] = "queue"]
  /\ UNCHANGED <<process, channel, prompt, since, held, counters, lost>>

\* Mutant of NextAttempt: every attempt starts from the request's own input.
NextAttemptForgets(r) ==
  /\ attempt' = [attempt EXCEPT ![r] = @ + 1]
  /\ pc' = [pc EXCEPT ![r] = "queue"]
  /\ context' = [context EXCEPT ![r] = 0]
  /\ since' = [since EXCEPT ![r] = NoText]
  /\ UNCHANGED <<try, sends>>

\* QueuedEVS goes on with its next attempt, without waiting.
NextAttempt(r) ==
  /\ attempt' = [attempt EXCEPT ![r] = @ + 1]
  /\ pc' = [pc EXCEPT ![r] = "queue"]
  /\ since' = [since EXCEPT ![r] = NoText]
  /\ UNCHANGED <<try, context, sends>>

\* Queue() returned an error: QueuedEVS has its loop, handleDataRequest
\* reports the error to its client.
QueueFailed(r) ==
  \/ r \in Asks /\ NextAttempt(r)
  \/ r \in Finds /\ EndHandler(r)

\* Mutant of MayQueue: one attempt too many.
MayQueueAgain(r) == pc[r] = "queue" /\ (r \in Asks => attempt[r] <= QueueTries)

MayQueue(r) == pc[r] = "queue" /\ (r \in Asks => attempt[r] < QueueTries)

\* Queue: the non-blocking receive finds a key.
QueueKey(r) ==
  /\ MayQueue(r)
  /\ channel # <<>>
  /\ held' = [held EXCEPT ![r] = Head(channel)]
  /\ channel' = Tail(channel)
  /\ pc' = [pc EXCEPT ![r] = "program"]
  /\ since' = [since EXCEPT ![r] = file]
  /\ UNCHANGED <<process, prompt, counters, lost>>

\* Mutant of QueueEmpty: the receive has no default and waits for a key.
QueueEmptyWaits(r) ==
  /\ MayQueue(r)
  /\ channel = <<>>
  /\ UNCHANGED vars

\* Queue: no key in the channel, "no API keys available".
QueueEmpty(r) ==
  /\ MayQueue(r)
  /\ channel = <<>>
  /\ QueueFailed(r)
  /\ UNCHANGED <<process, channel, prompt, held, lost>>

\* QueuedEVS leaves its loop and the handler reports the failure.
GiveUp(r) ==
  /\ r \in Asks
  /\ pc[r] = "queue"
  /\ attempt[r] >= QueueTries
  /\ EndHandler(r)
  /\ UNCHANGED <<process, channel, prompt, held, lost>>

\* Queue calls GetProgramming, which reads instructions.txt.
Program(r) ==
  /\ pc[r] = "program"
  /\ text' = [text EXCEPT ![r] = file]
  /\ pc' = [pc EXCEPT ![r] = "store"]
  /\ UNCHANGED <<process, channel, file, content, held, counters, since, lost>>

\* The requests that have a key and have not yet stored their text.
InQueue == {r \in Requests : pc[r] \in {"program", "store"}}

\* The oldest of the versions of the file that the requests in Queue met when
\* they took their keys: any of them may still store what it read.
Oldest(v) ==
  /\ \E s \in InQueue : since[s] = v
  /\ \A s \in InQueue : v <= since[s]

\* Mutant of Store: the content is only set while it is the placeholder.
StoreOnce(r) ==
  /\ pc[r] = "store"
  /\ content' = IF content = NoText THEN text[r] ELSE content
  /\ text' = [text EXCEPT ![r] = NoText]
  /\ pc' = [pc EXCEPT ![r] = "client"]
  /\ \E v \in Versions : Oldest(v) /\ since' = [since EXCEPT ![r] = v]
  /\ UNCHANGED <<process, channel, file, held, counters, lost>>

\* cfx.Parameters.SystemInstruction.Parts = ...: no lock, and the content is
\* the one every session sends.  The slices stored there all have one element,
\* so that a header read while it is written is the old one or the new one, as
\* in this single step.
Store(r) ==
  /\ pc[r] = "store"
  /\ content' = text[r]
  /\ text' = [text EXCEPT ![r] = NoText]
  /\ pc' = [pc EXCEPT ![r] = "client"]
  /\ \E v \in Versions : Oldest(v) /\ since' = [since EXCEPT ![r] = v]
  /\ UNCHANGED <<process, channel, file, held, counters, lost>>

\* Somebody edits instructions.txt, which needs no restart.
EditFile ==
  /\ file < MaxVersions
  /\ file' = file + 1
  /\ UNCHANGED <<process, channel, content, text, pc, held, counters, since,
                 lost>>

\* GetProgramming cannot read the file: os.Exit(-1) for the whole process.
ProgramFails(r) ==
  /\ pc[r] = "program"
  /\ ProcessEnds

\* p.Channel <- api: a send on the buffered channel waits while it is full.
PutBack(r) ==
  /\ Len(channel) < NumKeys
  /\ channel' = Append(channel, held[r])
  /\ held' = [held EXCEPT ![r] = NoKey]

\* Mutants of ClientFails: the key is not returned, and it is returned but the
\* caller's cleanup will return it as well.
ClientFailsKeepsKey(r) ==
  /\ pc[r] = "client"
  /\ held' = [held EXCEPT ![r] = NoKey]
  /\ QueueFailed(r)
  /\ UNCHANGED <<process, channel, prompt, lost>>

ClientFailsReturnsTwice(r) ==
  /\ pc[r] = "client"
  /\ Len(channel) < NumKeys
  /\ channel' = Append(channel, held[r])
  /\ pc' = [pc EXCEPT ![r] = IF r \in Asks THEN "retry" ELSE "done"]
  /\ UNCHANGED <<process, prompt, since, held, counters, lost>>

\* gemi.Model returns an error and Queue returns the key itself.
ClientFails(r) ==
  /\ pc[r] = "client"
  /\ PutBack(r)
  /\ QueueFailed(r)
  /\ UNCHANGED <<process, prompt, lost>>

\* gemi.Model returns a model and its cleanup; the session begins.
ClientReady(r) ==
  /\ pc[r] = "client"
  /\ pc' = [pc EXCEPT ![r] = "send"]
  /\ try' = [try EXCEPT ![r] = 0]
  /\ UNCHANGED <<process, channel, prompt, since, held, attempt, context, sends,
                 lost>>

\* The model call is under way: ExponentiallyValidateSend is within its loop.
Sending(r) == pc[r] = "send" /\ (r \in Asks => try[r] < MaxTries)

\* The answer of an /ask passes the validation; whatever a /find is told,
\* answer or error, it passes on to its client.
AnswerValid(r) ==
  /\ Sending(r)
  /\ pc' = [pc EXCEPT ![r] = "done"]
  /\ sends' = [sends EXCEPT ![r] = @ + 1]
  /\ UNCHANGED <<process, channel, prompt, since, held, attempt, try, context,
                 lost>>

\* SendError: the next message tells the model what was wrong.
SendError(r) == context' = [context EXCEPT ![r] = @ + 1]

\* The call of an /ask fails, or its answer does not pass the validation.
AnswerRejected(r) ==
  /\ r \in Asks
  /\ Sending(r)
  /\ sends' = [sends EXCEPT ![r] = @ + 1]
  /\ SendError(r)
  /\ pc' = [pc EXCEPT ![r] = "backoff"]
  /\ UNCHANGED <<process, channel, prompt, since, held, attempt, try, lost>>

\* The answer has no candidate, or a candidate without content, and the
\* session panics.  QueuedEVS calls cleanup only after the session returns, so
\* the panic of an /ask leaves it with its key; errors.Handler recovers it.
AskPanics(r) ==
  /\ r \in Asks
  /\ Sending(r)
  /\ EndHandler(r)
  /\ lost' = lost \cup {held[r]}
  /\ held' = [held EXCEPT ![r] = NoKey]
  /\ UNCHANGED <<process, channel, prompt>>

\* Mutant of FindPanics: the cleanup is not deferred here either.
FindPanicsKeepsKey(r) ==
  /\ r \in Finds
  /\ Sending(r)
  /\ EndHandler(r)
  /\ lost' = lost \cup {held[r]}
  /\ held' = [held EXCEPT ![r] = NoKey]
  /\ UNCHANGED <<process, channel, prompt>>

\* handleDataRequest has deferred its cleanup, which runs before the recovery.
FindPanics(r) ==
  /\ r \in Finds
  /\ Sending(r)
  /\ pc' = [pc EXCEPT ![r] = "done"]
  /\ UNCHANGED <<process, channel, prompt, since, held, counters, lost>>

\* time.Sleep(time.Second << i), also after the last try of the loop.
Backoff(r) ==
  /\ pc[r] = "backoff"
  /\ try' = [try EXCEPT ![r] = @ + 1]
  /\ pc' = [pc EXCEPT ![r] = "send"]
  /\ UNCHANGED <<process, channel, prompt, since, held, attempt, context, sends,
                 lost>>

\* The loop of ExponentiallyValidateSend ends: "failed to validate response".
Exhausted(r) ==
  /\ r \in Asks
  /\ pc[r] = "send"
  /\ try[r] >= MaxTries
  /\ pc' = [pc EXCEPT ![r] = "retry"]
  /\ UNCHANGED <<process, channel, prompt, since, held, counters, lost>>

\* cleanup() after a session that failed: the key returns, then the next
\* attempt begins.
ReleaseAndRetry(r) ==
  /\ pc[r] = "retry"
  /\ PutBack(r)
  /\ NextAttempt(r)
  /\ UNCHANGED <<process, prompt, lost>>

\* cleanup() after the last use of the session: the handler then answers
\* (/ask), or has answered or panicked before its deferred cleanup (/find).
Release(r) ==
  /\ pc[r] = "done"
  /\ PutBack(r)
  /\ EndHandler(r)
  /\ UNCHANGED <<process, prompt, lost>>

-----------------------------------------------------------------------------
Answer(r) == AnswerValid(r) \/ AnswerRejected(r) \/ AskPanics(r) \/ FindPanics(r)

\* The steps a goroutine takes by itself; Answer waits for Gemini.
Own(r) ==
  \/ QueueKey(r) \/ QueueEmpty(r) \/ GiveUp(r)
  \/ Program(r) \/ Store(r) \/ ClientFails(r) \/ ClientReady(r)
  \/ Backoff(r) \/ Exhausted(r) \/ ReleaseAndRetry(r) \/ Release(r)

Boot == StartProcess \/ LoadEnv \/ LoadFails \/ RegisterHandlers \/ Killed

Next ==
  \/ Boot
  \/ EditFile
  \/ \E r \in Requests : Receive(r) \/ Own(r) \/ Answer(r) \/ ProgramFails(r)

Spec == Init /\ [][Next]_vars

\* The Go scheduler runs every goroutine that can run.  Nothing makes Gemini
\* answer: the handlers pass context.Background(), which has no deadline.
FairSpec == Spec /\ \A r \in Requests : WF_vars(Own(r))

-----------------------------------------------------------------------------
(* Properties.                                                             *)

TypeOK ==
  /\ boot \in {"down", "loading", "hydrated", "serving"}
  /\ once \in BOOLEAN
  /\ channel \in Seq(Keys)
  /\ file \in Versions
  /\ content \in Versions \cup {NoText}
  /\ text \in [Requests -> Versions \cup {NoText}]
  /\ since \in [Requests -> Versions \cup {NoText}]
  /\ pc \in [Requests -> PCs]
  /\ held \in [Requests -> Keys \cup {NoKey}]
  /\ attempt \in [Requests -> 0 .. QueueTries]
  /\ try \in [Requests -> 0 .. MaxTries]
  /\ context \in [Requests -> Nat]
  /\ sends \in [Requests -> Nat]
  /\ lost \subseteq Keys

InChannel(k) == \E n \in 1 .. Len(channel) : channel[n] = k
IsHeld(k)    == \E r \in Requests : held[r] = k

\* Conservation of keys: no key is in the channel twice, with two requests, or
\* in two places at once, and while the server runs every key is free, with a
\* request, or lost to a panic.
KeyConservation ==
  /\ \A m, n \in 1 .. Len(channel) : channel[m] = channel[n] => m = n
  /\ \A r, s \in Requests : held[r] = held[s] /\ held[r] # NoKey => r = s
  /\ \A k \in Keys :
       /\ ~ (InChannel(k) /\ IsHeld(k))
       /\ k \in lost => ~ InChannel(k) /\ ~ IsHeld(k)
  /\ boot = "serving" => \A k \in Keys : InChannel(k) \/ IsHeld(k) \/ k \in lost

\* The send on the channel that returns a key never waits: whoever has a key
\* finds room for it (the "Always return key" of Queue cannot deadlock).
ReturnNeverBlocks ==
  \A r \in Requests : held[r] # NoKey => Len(channel) < NumKeys

\* The model calls of one /ask: at most MaxTries with every key it tried, and
\* its retries tell the model about every answer that was rejected so far, also
\* after the request has gone on to another key.
RetryBudget ==
  \A r \in Asks :
    /\ sends[r] <= MaxTries * QueueTries
    /\ pc[r] \in {"send", "backoff", "retry", "queue"} => context[r] = sends[r]

\* What a session sends as its system instruction, now or in any later try, is
\* at least as new as instructions.txt was when the session's request took its
\* key, or when a request that was in Queue together with it took its own: the
\* late store of another goroutine may replace the text of a session, but never
\* with one older than that, and never with the placeholder.
InstructionsFresh ==
  \A r \in Requests :
    pc[r] \in {"client", "send", "backoff"} =>
      NoText < since[r] /\ since[r] <= content

\* The lease of every key that the channel and the goroutines stand for.
LeaseOf ==
  [k \in Keys |-> IF k \in lost THEN "lost"
                  ELSE IF IsHeld(k) THEN CHOOSE r \in Requests : held[r] = k
                  ELSE "free"]

Lease == INSTANCE KeyLease WITH MayLose <- Asks, lease <- LeaseOf

\* The pool implements KeyLease: one key per request, a key changes hands only
\* through the pool, and only a panicking /ask loses one.
LeaseSpec == Lease!Spec

\* A comment in Queue promises "Always return key": no key is lost.
NoKeyLost == lost = {}

\* Every request comes to its end, or waits for ever in one single call to
\* Gemini: no retry loop, no return of a key and no lack of keys holds it up.
EndsOrHangs ==
  \A r \in Requests : []<>(pc[r] = "idle") \/ <>[](pc[r] = "send")

=============================================================================
