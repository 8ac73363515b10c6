------------------------------ MODULE Lifecycle -----------------------------
(***************************************************************************)
(* The process of cmd/server: it loads its configuration, builds its       *)
(* handlers, serves calls and ends.  Three parties run concurrently: the   *)
(* main goroutine, the goroutine of routing.GracefulShutdown, which waits  *)
(* for a signal and then calls hs.Shutdown, and the goroutines of the      *)
(* calls being served.                                                     *)
(*                                                                         *)
(* Of the configuration a setting with a default (server_port;             *)
(* jwt_expiration is loaded the same way) and a required one               *)
(* (jwt_signing_key) are modelled.                                         *)
(***************************************************************************)
EXTENDS Naturals

CONSTANTS Calls,              \* goroutines of calls
          Ports,              \* numbers a layer may set the port to
          Keys,               \* signing keys a layer may set
          defaultServerPort,  \* the port if no layer sets one
          Unset,              \* not mentioned by a layer
          Empty               \* mentioned, but empty: no number and no key

ASSUME LayersAssumption ==
  /\ Unset \notin Ports \cup Keys \cup {defaultServerPort, Empty}
  /\ Empty \notin Ports \cup Keys \cup {defaultServerPort}

VARIABLES
  main,      \* where main() is: "load", "build", "listen", "bind", "serve",
             \* "closed" (ListenAndServe has returned ErrServerClosed),
             \* "failed" (it has returned another error) or "exited"
  code,      \* the exit status, or "none"
  file, environment,  \* the layers of the configuration
  cfg,       \* the configuration
  notifier,  \* GracefulShutdown: "off", "spawned", "waiting" for a signal,
             \* "draining" the server, "drained", or "late": out of time
  signalled, \* a signal was delivered to it
  calls,     \* of every call: "idle", "active", "answered" or "cut"
  broken     \* history: the listener could not be opened, or has failed

layers == <<file, environment>>
vars   == <<main, code, file, environment, cfg, notifier, signalled, calls,
            broken>>

Files        == [port : Ports \cup {Unset}, key : Keys \cup {Unset, Empty}]
Environments == [port : Ports \cup {Unset, Empty}, key : Keys \cup {Unset, Empty}]

Init ==
  /\ main = "load" /\ code = "none"
  /\ file \in Files /\ environment \in Environments
  /\ cfg = [port |-> defaultServerPort, key |-> Empty]
  /\ notifier = "off" /\ signalled = FALSE
  /\ calls = [c \in Calls |-> "idle"] /\ broken = FALSE

-----------------------------------------------------------------------------
(* The end of the process, wherever it comes from.                         *)

\* All goroutines end with the process.
Exit(status) ==
  /\ main' = "exited" /\ code' = status
  /\ calls' = [c \in Calls |-> IF calls[c] = "active" THEN "cut" ELSE calls[c]]
  /\ UNCHANGED <<layers, cfg, notifier, signalled, broken>>

-----------------------------------------------------------------------------
(* main().                                                                 *)

\* What a layer makes of the settings it is given.
Over(layer, c) ==
  [port |-> IF layer.port = Unset THEN c.port ELSE layer.port,
   key  |-> IF layer.key = Unset THEN c.key ELSE layer.key]

\* Mutant of Layered: the file is read last.
LayeredFileLast == Over(file, Over(environment, cfg))

\* The file over the defaults, the environment over both.
Layered == Over(environment, Over(file, cfg))

\* Mutant of Validate: the number of the environment is not looked at.
ValidateKey(c) == c.key # Empty

\* A number parses and the signing key is there.
Validate(c) == c.key # Empty /\ c.port # Empty

\* config.Load.
Load ==
  /\ main = "load"
  /\ Validate(Layered)
  /\ cfg' = Layered
  /\ main' = "build"
  /\ UNCHANGED <<code, layers, notifier, signalled, calls, broken>>

\* The file cannot be read, a number is none, or the signing key is missing.
LoadFails == main = "load" /\ Exit("failure")

\* buildHandler reads the keys of the pool; then the two goroutines start.
Build ==
  /\ main = "build"
  /\ main' = "listen" /\ notifier' = "spawned"
  /\ UNCHANGED <<code, layers, cfg, signalled, calls, broken>>

BuildFails == main = "build" /\ Exit("failure")

\* ListenAndServe: after Shutdown has begun it returns at once.
Listen ==
  /\ main = "listen"
  /\ main' = IF notifier \in {"spawned", "waiting"} THEN "bind" ELSE "closed"
  /\ UNCHANGED <<code, layers, cfg, notifier, signalled, calls, broken>>

\* The listener is opened; Shutdown may have begun meanwhile.
Bind ==
  /\ main = "bind"
  /\ main' = "serve"
  /\ UNCHANGED <<code, layers, cfg, notifier, signalled, calls, broken>>

\* ListenAndServe returns an error that is not ErrServerClosed.
ReturnsError ==
  /\ main' = "failed" /\ broken' = TRUE
  /\ UNCHANGED <<code, layers, cfg, notifier, signalled, calls>>

\* The address cannot be listened at.
ListenFails == main = "bind" /\ ReturnsError

\* Accept fails for good before Shutdown has begun, with calls answered and
\* calls active; afterwards its error would be ErrServerClosed.
ServeFails ==
  /\ main = "serve" /\ notifier \in {"spawned", "waiting"}
  /\ ReturnsError

\* Mutant of MainFails: the error is logged and main returns.
MainFailsLogged == main = "failed" /\ Exit("ok")

\* main logs the error and exits.
MainFails == main = "failed" /\ Exit("failure")

\* Shutdown closes the listeners, and ListenAndServe returns ErrServerClosed.
ServeReturns ==
  /\ main = "serve" /\ notifier \in {"draining", "drained", "late"}
  /\ main' = "closed"
  /\ UNCHANGED <<code, layers, cfg, notifier, signalled, calls, broken>>

\* Mutants of MainReturns: ErrServerClosed is taken for a failure, and main
\* waits for the calls, however long they take.
MainReturnsFailure == main = "closed" /\ Exit("failure")
MainReturnsIdle ==
  main = "closed" /\ (\A c \in Calls : calls[c] # "active") /\ Exit("ok")

\* ErrServerClosed is no failure: main is over, and the process with it.
MainReturns == main = "closed" /\ Exit("ok")

-----------------------------------------------------------------------------
(* routing.GracefulShutdown.                                               *)

Notify ==
  /\ main # "exited" /\ notifier = "spawned"
  /\ notifier' = "waiting"
  /\ UNCHANGED <<main, code, layers, cfg, signalled, calls, broken>>

\* SIGINT or SIGTERM: from Notify on it is delivered to the goroutine, before
\* it ends the process.
Signal ==
  \/ /\ main # "exited" /\ notifier \in {"off", "spawned"} /\ Exit("killed")
  \/ /\ main # "exited" /\ notifier = "waiting" /\ ~ signalled
     /\ signalled' = TRUE
     /\ UNCHANGED <<main, code, layers, cfg, notifier, calls, broken>>

\* The goroutine calls hs.Shutdown with a timeout of 10 seconds.
Shutdown ==
  /\ main # "exited" /\ notifier = "waiting" /\ signalled
  /\ notifier' = "draining"
  /\ UNCHANGED <<main, code, layers, cfg, signalled, calls, broken>>

\* Shutdown returns when no call is active or the time is over.
ShutdownReturns ==
  /\ main # "exited" /\ notifier = "draining"
  /\ \/ (\A c \in Calls : calls[c] # "active") /\ notifier' = "drained"
     \/ notifier' = "late"
  /\ UNCHANGED <<main, code, layers, cfg, signalled, calls, broken>>

-----------------------------------------------------------------------------
(* The calls.                                                              *)

CallArrives(c) ==
  /\ main = "serve" /\ notifier \in {"spawned", "waiting"}
  /\ calls[c] = "idle"
  /\ calls' = [calls EXCEPT ![c] = "active"]
  /\ UNCHANGED <<main, code, layers, cfg, notifier, signalled, broken>>

CallEnds(c) ==
  /\ main # "exited" /\ calls[c] = "active"
  /\ calls' = [calls EXCEPT ![c] = "answered"]
  /\ UNCHANGED <<main, code, layers, cfg, notifier, signalled, broken>>

\* A call may end the process: GetProgramming does, with the status of a failed
\* start, if it cannot read its file, and the runtime on a fatal error.
CallExits(c) ==
  /\ main # "exited" /\ calls[c] = "active"
  /\ \E status \in {"failure", "crash"} : Exit(status)

Main == Load \/ LoadFails \/ Build \/ BuildFails \/ Listen \/ Bind
          \/ ListenFails \/ MainFails \/ ServeReturns \/ MainReturns

Graceful == Notify \/ Shutdown \/ ShutdownReturns

Exited == main = "exited" /\ UNCHANGED vars

Next ==
  \/ Main \/ ServeFails \/ Graceful \/ Signal \/ Exited
  \/ \E c \in Calls : CallArrives(c) \/ CallEnds(c) \/ CallExits(c)

Spec == Init /\ [][Next]_vars

\* The scheduler runs main and the goroutine of GracefulShutdown, whose timer
\* fires.  Nothing makes a listener fail that serves, and nothing ends a call: one
\* to Gemini has no deadline and may stay active for ever.
FairSpec == Spec /\ WF_vars(Main) /\ WF_vars(Graceful)

-----------------------------------------------------------------------------
(* Properties.                                                             *)

TypeOK ==
  /\ main \in {"load", "build", "listen", "bind", "serve", "closed", "failed",
               "exited"}
  /\ code \in {"none", "ok", "failure", "killed", "crash"}
  /\ file \in Files /\ environment \in Environments
  /\ cfg \in [port : Ports \cup {defaultServerPort}, key : Keys \cup {Empty}]
  /\ notifier \in {"off", "spawned", "waiting", "draining", "drained", "late"}
  /\ signalled \in BOOLEAN
  /\ calls \in [Calls -> {"idle", "active", "answered", "cut"}]
  /\ broken \in BOOLEAN

\* Whoever is served is served under a signing key, and under the port and the
\* key of the environment where it names them, of the file where only that
\* does, and else under the default port (config.Load).
ServesConfigured ==
  main \in {"listen", "bind", "serve", "closed", "failed"} =>
    /\ cfg.key \in Keys /\ cfg.port # Empty
    /\ environment.port # Unset => cfg.port = environment.port
    /\ environment.key # Unset => cfg.key = environment.key
    /\ environment.port = Unset /\ file.port # Unset => cfg.port = file.port
    /\ environment.key = Unset => cfg.key = file.key
    /\ environment.port = Unset /\ file.port = Unset => cfg.port = defaultServerPort

CallLost == \E c \in Calls : calls[c] = "cut"

\* The exit status tells a supervisor what happened.  "failure" means that the
\* process did not get as far as its listener, that the listener failed, or that
\* a call ended the process and was lost; "ok" that it was asked to stop and its
\* listener worked.  So a process that has taken its signal exits with "ok", and
\* is not killed by it, unless its listener failed or calls were lost.
ExitStatus ==
  /\ code = "failure" => notifier = "off" \/ broken \/ CallLost
  /\ code = "ok" => signalled /\ ~ broken
  /\ code = "killed" => ~ signalled
  /\ main = "exited" /\ signalled => code = "ok" \/ broken \/ CallLost
  /\ code = "none" <=> main # "exited"

\* A process that was asked to stop stops, whatever its calls wait for.
StopsWhenAsked == signalled ~> main = "exited"

\* main.go says "start the HTTP server with graceful shutdown": a call that is
\* active when the process is asked to stop is answered, unless it takes longer
\* than the 10 seconds that Shutdown may wait.
Graced == code = "ok" /\ notifier # "late" => \A c \in Calls : calls[c] # "cut"

=============================================================================
