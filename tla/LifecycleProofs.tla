--------------------------- MODULE LifecycleProofs --------------------------
(***************************************************************************)
(* Theorems about Lifecycle, for all settings and any number of calls.     *)
(***************************************************************************)
EXTENDS Lifecycle, TLAPS

\* The configuration is the one of the layers from the moment it is loaded.
Loaded ==
  main \in {"build", "listen", "bind", "serve", "closed", "failed"} =>
    /\ cfg.key \in Keys
    /\ cfg.port = IF environment.port # Unset THEN environment.port
                  ELSE IF file.port # Unset THEN file.port ELSE defaultServerPort
    /\ cfg.key = IF environment.key # Unset THEN environment.key ELSE file.key
    /\ cfg.port # Empty

\* What the stages of main, the signal, the listener and the calls have to do
\* with each other.
Stages ==
  /\ main \in {"load", "build"} => notifier = "off"
  /\ main \in {"listen", "bind", "serve", "closed", "failed"} => notifier # "off"
  /\ main \in {"load", "build"} => \A c \in Calls : calls[c] = "idle"
  /\ main \notin {"failed", "exited"} => ~ broken
  /\ main = "failed" => broken
  /\ main = "load" => cfg = [port |-> defaultServerPort, key |-> Empty]
  /\ main = "closed" => signalled
  /\ notifier \in {"draining", "drained", "late"} => signalled
  /\ notifier \in {"off", "spawned"} => ~ signalled

IInv == TypeOK /\ Loaded /\ Stages /\ ExitStatus

LEMMA InvInit == ASSUME Init PROVE IInv
<1>1. TypeOK
  BY DEF Init, TypeOK
<1>2. Loaded /\ Stages /\ ExitStatus
  BY DEF Init, Loaded, Stages, ExitStatus
<1>3. QED BY <1>1, <1>2 DEF IInv

CallActive == \E c \in Calls : calls[c] = "active"

\* However the process ends, its exit status is right if the reason is.
LEMMA ExitKeeps ==
  ASSUME IInv, NEW status \in {"ok", "failure", "killed", "crash"}, Exit(status),
         status = "failure" => notifier = "off" \/ broken \/ CallActive,
         status = "crash" => CallActive,
         status = "ok" => signalled /\ ~ broken,
         status = "killed" => ~ signalled
  PROVE  IInv'
<1>1. \A c \in Calls : calls'[c] = IF calls[c] = "active" THEN "cut" ELSE calls[c]
  BY DEF Exit
<1>2. TypeOK'
  BY DEF IInv, TypeOK, Exit, layers
<1>3. Loaded' /\ Stages'
  BY DEF IInv, Stages, Loaded, Exit
<1>4. CallActive => CallLost'
  BY <1>1 DEF CallActive, CallLost
<1>5. signalled => notifier # "off"
  BY DEF IInv, Stages
<1>6. ExitStatus'
  BY <1>4, <1>5 DEF ExitStatus, Exit
<1>7. QED BY <1>2, <1>3, <1>6 DEF IInv

LEMMA LoadKeeps == ASSUME IInv, Load PROVE IInv'
<1>1. /\ cfg = [port |-> defaultServerPort, key |-> Empty]
      /\ file \in Files /\ environment \in Environments
      /\ file' = file /\ environment' = environment
  BY DEF Load, IInv, Stages, TypeOK, layers
<1>2. cfg' = Over(environment, Over(file, cfg)) /\ cfg'.key # Empty /\ cfg'.port # Empty
  BY DEF Load, Layered, Validate
<1>3. /\ cfg' \in [port : Ports \cup {defaultServerPort}, key : Keys]
      /\ cfg'.port = IF environment.port # Unset THEN environment.port
                     ELSE IF file.port # Unset THEN file.port ELSE defaultServerPort
      /\ cfg'.key = IF environment.key # Unset THEN environment.key
                    ELSE IF file.key # Unset THEN file.key ELSE Empty
  BY <1>1, <1>2, LayersAssumption DEF Over, Files, Environments
<1>4. TypeOK'
  BY <1>1, <1>3 DEF IInv, TypeOK, Load
<1>5. Loaded'
  BY <1>1, <1>2, <1>3, LayersAssumption DEF Loaded
<1>6. Stages' /\ ExitStatus'
  BY DEF Load, IInv, Stages, ExitStatus, CallLost
<1>7. QED BY <1>4, <1>5, <1>6 DEF IInv

LEMMA StepKeeps == ASSUME IInv, Next PROVE IInv'
<1> USE DEF IInv, TypeOK, Loaded, Stages, ExitStatus, CallLost, layers
<1>1. CASE Load
  BY <1>1, LoadKeeps
<1>2. CASE LoadFails \/ BuildFails \/ MainFails
  BY <1>2, ExitKeeps DEF LoadFails, BuildFails, MainFails
<1>3. CASE MainReturns
  BY <1>3, ExitKeeps DEF MainReturns
<1>4. CASE Build \/ Listen \/ Bind
  <2>1. UNCHANGED <<code, file, environment, cfg, signalled, calls, broken>>
    BY <1>4 DEF Build, Listen, Bind
  <2>2. /\ main' \in {"listen", "bind", "serve", "closed"}
        /\ main \in {"build", "listen", "bind"}
        /\ notifier' # "off" /\ notifier' \in {"spawned", notifier}
        /\ main' = "closed" => signalled
        /\ notifier' = "spawned" => ~ signalled
    BY <1>4 DEF Build, Listen, Bind
  <2>3. TypeOK' /\ Loaded' /\ ExitStatus'
    BY <2>1, <2>2
  <2>4. Stages'
    BY <2>1, <2>2
  <2>5. QED BY <2>3, <2>4
<1>4a. CASE ListenFails \/ ServeFails
  <2>1. /\ UNCHANGED <<code, file, environment, cfg, notifier, signalled, calls>>
        /\ main \in {"bind", "serve"} /\ main' = "failed" /\ broken' = TRUE
    BY <1>4a DEF ListenFails, ServeFails, ReturnsError
  <2>2. TypeOK' /\ Loaded'
    BY <2>1
  <2>3. Stages' /\ ExitStatus'
    BY <2>1
  <2>4. QED BY <2>2, <2>3
<1>5. CASE ServeReturns \/ Graceful
  <2>1. UNCHANGED <<code, file, environment, cfg, signalled, calls, broken>>
    BY <1>5 DEF ServeReturns, Graceful, Notify, Shutdown, ShutdownReturns
  <2>2. CASE ServeReturns
    BY <2>1, <2>2 DEF ServeReturns
  <2>3. CASE Graceful
    BY <2>1, <2>3 DEF Graceful, Notify, Shutdown, ShutdownReturns
  <2>4. QED BY <1>5, <2>2, <2>3
<1>6. CASE Signal
  <2>1. CASE notifier \in {"off", "spawned"} /\ Exit("killed")
    BY <2>1, ExitKeeps
  <2>2. CASE /\ main # "exited" /\ notifier = "waiting" /\ signalled' = TRUE
             /\ UNCHANGED <<main, code, layers, cfg, notifier, calls, broken>>
    BY <2>2
  <2>3. QED BY <1>6, <2>1, <2>2 DEF Signal
<1>7. CASE \E c \in Calls : CallExits(c)
  BY <1>7, ExitKeeps DEF CallExits, CallActive
<1>8. CASE \E c \in Calls : CallArrives(c) \/ CallEnds(c)
  BY <1>8 DEF CallArrives, CallEnds
<1>9. CASE Exited
  BY <1>9 DEF Exited, vars
<1>10. QED BY <1>1, <1>2, <1>3, <1>4, <1>4a, <1>5, <1>6, <1>7, <1>8, <1>9
         DEF Next, Main

LEMMA InvInductive == Spec => []IInv
<1>1. IInv /\ UNCHANGED vars => IInv'
  BY DEF IInv, vars, layers, TypeOK, Loaded, Stages, ExitStatus, CallLost
<1>2. IInv /\ [Next]_vars => IInv'
  BY <1>1, StepKeeps
<1>3. Init => IInv
  BY InvInit
<1>4. QED BY <1>2, <1>3, PTL DEF Spec

\* Every variable keeps its type.
THEOREM TypeCorrect == Spec => []TypeOK
<1>1. IInv => TypeOK
  BY DEF IInv
<1>2. QED BY <1>1, InvInductive, PTL

\* Whoever is served is served under the settings of the strongest layer that
\* names them, and under a signing key.
THEOREM ConfigurationServed == Spec => []ServesConfigured
<1>1. IInv => ServesConfigured
  BY DEF IInv, Loaded, ServesConfigured
<1>2. QED BY <1>1, InvInductive, PTL

\* A process that has taken its signal exits with "ok" unless its listener failed
\* or it lost calls; "failure" has one of three reasons (no start, no listener, a
\* lost call), which the status itself does not tell apart.
THEOREM ExitStatusRight == Spec => []ExitStatus
<1>1. IInv => ExitStatus
  BY DEF IInv
<1>2. QED BY <1>1, InvInductive, PTL

=============================================================================
