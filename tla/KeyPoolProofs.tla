--------------------------- MODULE KeyPoolProofs ----------------------------
(***************************************************************************)
(* Proofs about KeyPool for every number of keys, of requests and of       *)
(* tries.  The inductive invariant relates the position of a request to    *)
(* the key it has and to its loop counters (PcOK), and the phase of the    *)
(* process to the channel (BootOK).                                        *)
(***************************************************************************)
EXTENDS KeyPool, SequenceTheorems, FiniteSetTheorems, TLAPS

USE RequestsAssumption, KeysAssumption, TriesAssumption, VersionsAssumption

-----------------------------------------------------------------------------
(* Type correctness.                                                       *)

\* Where a request is decides whether it has a key and bounds its counters.
PcOK ==
  \A r \in Requests :
    /\ held[r] = NoKey <=> pc[r] \in {"idle", "queue"}
    /\ pc[r] \in {"backoff", "retry"} => r \in Asks
    /\ pc[r] = "backoff" => try[r] < MaxTries
    /\ r \in Asks /\ pc[r] \notin {"idle", "queue", "done"}
         => attempt[r] < QueueTries

TypeInv == TypeOK /\ PcOK

LEMMA ConstantTypes ==
  /\ EnvKeys \in Seq(Keys)
  /\ Len(EnvKeys) = NumKeys
  /\ \A k \in Keys : EnvKeys[k] = k
  /\ <<>> \in Seq(Keys)
  /\ Idle \in [Requests -> PCs]
  /\ Zero \in [Requests -> Keys \cup {NoKey}]
  /\ Zero \in [Requests -> Nat]
  /\ Zero \in [Requests -> 0 .. QueueTries]
  /\ Zero \in [Requests -> 0 .. MaxTries]
  /\ 1 \in Versions
  /\ Zero \in [Requests -> Versions \cup {NoText}]
  /\ \A r \in Requests : Zero[r] = NoKey /\ Zero[r] = NoText /\ Idle[r] = "idle"
<1>1. EnvKeys \in [1 .. NumKeys -> Keys]
  BY DEF EnvKeys, Keys
<1>2. EnvKeys \in Seq(Keys) /\ Len(EnvKeys) = NumKeys
  BY <1>1
<1>3. \A k \in Keys : EnvKeys[k] = k
  BY DEF EnvKeys
<1>4. 0 \in 0 .. QueueTries /\ 0 \in 0 .. MaxTries
  OBVIOUS
<1> QED
  BY <1>2, <1>3, <1>4, EmptySeq DEF Zero, Idle, NoKey, NoText, Versions, PCs

\* The end of the process establishes the invariant, whatever came before.
LEMMA EndTypes == TypeInv /\ ProcessEnds => TypeInv'
<1> SUFFICES ASSUME TypeInv, ProcessEnds PROVE TypeInv'
  OBVIOUS
<1>1. TypeOK'
  BY ConstantTypes DEF ProcessEnds, TypeInv, TypeOK
<1>2. PcOK'
  BY ConstantTypes DEF ProcessEnds, PcOK
<1> QED
  BY <1>1, <1>2 DEF TypeInv

LEMMA TypeInit == Init => TypeInv
<1> SUFFICES ASSUME Init PROVE TypeInv
  OBVIOUS
<1>1. TypeOK
  BY ConstantTypes DEF Init, TypeOK
<1>2. PcOK
  BY ConstantTypes DEF Init, PcOK
<1> QED
  BY <1>1, <1>2 DEF TypeInv

LEMMA TypeStep == TypeInv /\ [Next]_vars => TypeInv'
<1> SUFFICES ASSUME TypeInv, [Next]_vars PROVE TypeInv'
  OBVIOUS
<1> USE DEF TypeInv, TypeOK, PcOK, NoKey, PCs
<1>1. CASE StartProcess
  BY <1>1 DEF StartProcess, counters, prompt
<1>2. CASE LoadEnv
  BY <1>2, ConstantTypes DEF LoadEnv, HydrateChannels, counters, prompt
<1>3. CASE LoadFails
  BY <1>3 DEF LoadFails, counters, prompt
<1>4. CASE RegisterHandlers
  BY <1>4, ConstantTypes DEF RegisterHandlers, HydrateChannels, counters, prompt
<1>5. CASE Killed
  BY <1>5, EndTypes DEF Killed
<1>6. ASSUME NEW r \in Requests, Receive(r) PROVE TypeInv'
  BY <1>6 DEF Receive, process, counters, prompt
<1>7. ASSUME NEW r \in Requests, QueueKey(r) PROVE TypeInv'
  <2>1. Head(channel) \in Keys /\ Tail(channel) \in Seq(Keys)
    BY <1>7, HeadTailProperties DEF QueueKey
  <2> QED
    BY <1>7, <2>1, SMTT(30) DEF QueueKey, MayQueue, process, counters, prompt, Keys
<1>8. ASSUME NEW r \in Requests, QueueEmpty(r) PROVE TypeInv'
  <2>1. /\ MayQueue(r)
        /\ UNCHANGED <<boot, once, channel, file, content, text, held, lost>>
    BY <1>8 DEF QueueEmpty, process, prompt
  <2>2. CASE r \in Asks /\ NextAttempt(r)
    BY <2>1, <2>2, SMTT(30) DEF MayQueue, NextAttempt
  <2>3. CASE r \in Finds /\ EndHandler(r)
    BY <2>1, <2>3 DEF MayQueue, EndHandler
  <2> QED
    BY <1>8, <2>2, <2>3 DEF QueueEmpty, QueueFailed
<1>9. ASSUME NEW r \in Requests, GiveUp(r) PROVE TypeInv'
  BY <1>9 DEF GiveUp, EndHandler, process, prompt
<1>10. ASSUME NEW r \in Requests, Program(r) PROVE TypeInv'
  BY <1>10 DEF Program, process, counters, prompt
<1>10a. ASSUME NEW r \in Requests, Store(r) PROVE TypeInv'
  <2>1. text[r] \in Versions \cup {NoText}
    OBVIOUS
  <2>2. PICK v \in Versions : since' = [since EXCEPT ![r] = v]
    BY <1>10a DEF Store
  <2> QED
    BY <1>10a, <2>1, <2>2 DEF Store, process, counters
<1>10b. CASE EditFile
  BY <1>10b DEF EditFile, process, counters, Versions
<1>11. ASSUME NEW r \in Requests, ProgramFails(r) PROVE TypeInv'
  BY <1>11, EndTypes DEF ProgramFails
<1>12. ASSUME NEW r \in Requests, PutBack(r), held[r] \in Keys
       PROVE /\ channel' \in Seq(Keys)
             /\ held' \in [Requests -> Keys \cup {NoKey}]
  BY <1>12, AppendProperties DEF PutBack
<1>13. ASSUME NEW r \in Requests, ClientFails(r) PROVE TypeInv'
  <2>1. PutBack(r) /\ held[r] \in Keys
    BY <1>13 DEF ClientFails
  <2>2. channel' \in Seq(Keys) /\ held' \in [Requests -> Keys \cup {NoKey}]
    BY <2>1, <1>12
  <2>3. held' = [held EXCEPT ![r] = NoKey]
    BY <2>1 DEF PutBack
  <2> QED
    <3>1. CASE r \in Asks /\ NextAttempt(r)
      <4>1. /\ UNCHANGED <<boot, once, file, content, text, lost>>
            /\ attempt[r] < QueueTries
        BY <1>13, <3>1 DEF ClientFails, process, prompt
      <4>2. attempt' \in [Requests -> 0 .. QueueTries]
        BY <3>1, <4>1 DEF NextAttempt
      <4>3. TypeOK'
        BY <2>2, <3>1, <4>1, <4>2 DEF NextAttempt
      <4>4. PcOK'
        BY <2>3, <3>1, <4>1 DEF NextAttempt
      <4> QED
        BY <4>3, <4>4
    <3>2. CASE r \in Finds /\ EndHandler(r)
      BY <1>13, <2>2, <2>3, <3>2 DEF ClientFails, EndHandler, process, prompt
    <3> QED
      BY <1>13, <3>1, <3>2 DEF ClientFails, QueueFailed
<1>14. ASSUME NEW r \in Requests, ClientReady(r) PROVE TypeInv'
  BY <1>14 DEF ClientReady, process, prompt
<1>15. ASSUME NEW r \in Requests, AnswerValid(r) PROVE TypeInv'
  BY <1>15 DEF AnswerValid, Sending, process, prompt
<1>16. ASSUME NEW r \in Requests, AnswerRejected(r) PROVE TypeInv'
  BY <1>16 DEF AnswerRejected, Sending, SendError, process, prompt
<1>17. ASSUME NEW r \in Requests, AskPanics(r) \/ FindPanics(r) PROVE TypeInv'
  <2>1. CASE AskPanics(r)
    <3>1. held[r] \in Keys
      BY <2>1 DEF AskPanics, Sending
    <3>2. lost' \subseteq Keys
      BY <2>1, <3>1 DEF AskPanics
    <3>3. UNCHANGED <<boot, once, channel, file, content, text>>
      BY <2>1 DEF AskPanics, process, prompt
    <3>4. EndHandler(r) /\ held' = [held EXCEPT ![r] = NoKey]
      BY <2>1 DEF AskPanics
    <3> QED
      BY <3>2, <3>3, <3>4 DEF EndHandler
  <2>2. CASE FindPanics(r)
    BY <2>2 DEF FindPanics, Sending, process, counters, prompt
  <2> QED
    BY <1>17, <2>1, <2>2
<1>18. ASSUME NEW r \in Requests, Backoff(r) PROVE TypeInv'
  BY <1>18 DEF Backoff, process, prompt
<1>19. ASSUME NEW r \in Requests, Exhausted(r) PROVE TypeInv'
  BY <1>19 DEF Exhausted, process, counters, prompt
<1>20. ASSUME NEW r \in Requests, ReleaseAndRetry(r) PROVE TypeInv'
  <2>1. PutBack(r) /\ held[r] \in Keys
    BY <1>20 DEF ReleaseAndRetry
  <2>2. channel' \in Seq(Keys) /\ held' \in [Requests -> Keys \cup {NoKey}]
    BY <2>1, <1>12
  <2>3. held' = [held EXCEPT ![r] = NoKey]
    BY <2>1 DEF PutBack
  <2> QED
    <3>1. /\ UNCHANGED <<boot, once, file, content, text, lost>>
          /\ NextAttempt(r) /\ attempt[r] < QueueTries
      BY <1>20 DEF ReleaseAndRetry, process, prompt
    <3>2. attempt' \in [Requests -> 0 .. QueueTries]
      BY <3>1 DEF NextAttempt
    <3>3. TypeOK'
      BY <2>2, <3>1, <3>2 DEF NextAttempt
    <3>4. PcOK'
      BY <2>3, <3>1 DEF NextAttempt
    <3> QED
      BY <3>3, <3>4
<1>21. ASSUME NEW r \in Requests, Release(r) PROVE TypeInv'
  <2>1. PutBack(r) /\ held[r] \in Keys
    BY <1>21 DEF Release
  <2>2. channel' \in Seq(Keys) /\ held' \in [Requests -> Keys \cup {NoKey}]
    BY <2>1, <1>12
  <2>3. held' = [held EXCEPT ![r] = NoKey]
    BY <2>1 DEF PutBack
  <2> QED
    BY <1>21, <2>2, <2>3 DEF Release, EndHandler, process, prompt
<1>22. CASE UNCHANGED vars
  BY <1>22 DEF vars
<1> QED
  BY <1>1, <1>2, <1>3, <1>4, <1>5, <1>6, <1>7, <1>8, <1>9, <1>10, <1>10a,
     <1>10b, <1>11, <1>13,
     <1>14, <1>15, <1>16, <1>17, <1>18, <1>19, <1>20, <1>21, <1>22
     DEF Next, Boot, Own, Answer

\* Every variable keeps its type; in particular the loop counters of QueuedEVS
\* and ExponentiallyValidateSend stay within their bounds.
THEOREM TypeCorrect == Spec => []TypeOK
<1>1. Spec => []TypeInv
  BY TypeInit, TypeStep, PTL DEF Spec
<1>2. TypeInv => TypeOK
  BY DEF TypeInv
<1> QED
  BY <1>1, <1>2, PTL

-----------------------------------------------------------------------------
(* Conservation of keys.                                                   *)

In(s, k)    == \E n \in 1 .. Len(s) : s[n] = k
Distinct(s) == \A m, n \in 1 .. Len(s) : s[m] = s[n] => m = n

\* Receiving from a channel takes its oldest key out, and only that key.
LEMMA TailKeys ==
  ASSUME NEW S, NEW s \in Seq(S), s # <<>>, Distinct(s)
  PROVE  /\ In(s, Head(s))
         /\ Distinct(Tail(s))
         /\ \A k : In(Tail(s), k) <=> In(s, k) /\ k # Head(s)
<1>1. /\ Len(s) \in Nat \ {0}
      /\ Len(Tail(s)) = Len(s) - 1
      /\ \A n \in 1 .. Len(Tail(s)) : Tail(s)[n] = s[n + 1]
      /\ Head(s) = s[1]
  BY EmptySeq, HeadTailProperties
<1>2. In(s, Head(s))
  BY <1>1 DEF In
<1>3. Distinct(Tail(s))
  BY <1>1 DEF Distinct
<1>4. ASSUME NEW k, In(Tail(s), k) PROVE In(s, k) /\ k # Head(s)
  <2>1. PICK n \in 1 .. Len(Tail(s)) : Tail(s)[n] = k
    BY <1>4 DEF In
  <2>2. n + 1 \in 1 .. Len(s) /\ n + 1 # 1 /\ s[n + 1] = k /\ 1 \in 1 .. Len(s)
    BY <1>1, <2>1
  <2> QED
    BY <1>1, <2>2 DEF In, Distinct
<1>5. ASSUME NEW k, In(s, k), k # Head(s) PROVE In(Tail(s), k)
  <2>1. PICK n \in 1 .. Len(s) : s[n] = k
    BY <1>5 DEF In
  <2>2. n # 1
    BY <1>1, <1>5, <2>1
  <2>3. n - 1 \in 1 .. Len(Tail(s)) /\ Tail(s)[n - 1] = s[(n - 1) + 1]
    BY <1>1, <2>2
  <2> QED
    BY <2>1, <2>3 DEF In
<1> QED
  BY <1>2, <1>3, <1>4, <1>5

\* Sending on a channel adds the key that is sent.
LEMMA AppendKeys ==
  ASSUME NEW S, NEW s \in Seq(S), NEW e \in S, Distinct(s), ~ In(s, e)
  PROVE  /\ Distinct(Append(s, e))
         /\ \A k : In(Append(s, e), k) <=> In(s, k) \/ k = e
<1> DEFINE t == Append(s, e)
<1>1. /\ Len(s) \in Nat
      /\ Len(t) = Len(s) + 1
      /\ \A n \in 1 .. Len(s) : t[n] = s[n]
      /\ t[Len(s) + 1] = e
  BY AppendProperties, LenProperties
<1> HIDE DEF t
<1>2. \A n \in 1 .. Len(t) : n \in 1 .. Len(s) \/ n = Len(s) + 1
  BY <1>1
<1>3. Distinct(t)
  BY <1>1, <1>2 DEF Distinct, In
<1>4. \A k : In(t, k) <=> In(s, k) \/ k = e
  BY <1>1, <1>2 DEF In
<1> QED
  BY <1>3, <1>4 DEF t

\* What the phase of the process says about the pool.
BootOK ==
  /\ boot # "serving" => pc = Idle /\ held = Zero /\ lost = {}
  /\ boot \in {"down", "loading"} => ~ once /\ channel = <<>>
  /\ boot = "hydrated" => channel = EnvKeys
  /\ boot \in {"hydrated", "serving"} => once

PoolInv == TypeInv /\ BootOK /\ KeyConservation

\* Only a serving process runs handlers, and a handler does not end it.
LEMMA HandlerServes ==
  ASSUME TypeInv, BootOK, NEW r \in Requests, Receive(r) \/ Own(r) \/ Answer(r)
  PROVE  boot = "serving" /\ boot' = "serving" /\ BootOK'
<1>1. boot = "serving"
  <2>1. SUFFICES ASSUME boot # "serving" PROVE FALSE
    OBVIOUS
  <2>2. pc[r] = "idle"
    BY <2>1 DEF BootOK, Idle
  <2> QED
    BY <2>1, <2>2
       DEF Receive, Own, Answer, QueueKey, QueueEmpty, MayQueue, GiveUp, Program,
           Store, ClientFails, ClientReady, Sending, AnswerValid, AnswerRejected,
           AskPanics, FindPanics, Backoff, Exhausted, ReleaseAndRetry, Release
<1>2. UNCHANGED <<boot, once>>
  BY DEF process, Receive, Own, Answer, QueueKey, QueueEmpty, GiveUp, Program,
         Store, ClientFails, ClientReady, AnswerValid, AnswerRejected, AskPanics,
         FindPanics, Backoff, Exhausted, ReleaseAndRetry, Release
<1> QED
  BY <1>1, <1>2 DEF BootOK

\* A step that moves no key.
LEMMA NoKeyMoves ==
  ASSUME KeyConservation, UNCHANGED <<channel, held, lost>>,
         boot' = "serving" => boot = "serving"
  PROVE  KeyConservation'
  BY DEF KeyConservation, InChannel, IsHeld

\* From the channel to a request.
LEMMA QueueKeyConserves ==
  ASSUME PoolInv, NEW r \in Requests, QueueKey(r)
  PROVE  KeyConservation'
<1> DEFINE k == Head(channel)
<1>1. /\ held[r] = NoKey
      /\ held' = [held EXCEPT ![r] = k]
      /\ channel' = Tail(channel)
      /\ UNCHANGED <<boot, lost>>
      /\ channel # <<>>
  BY DEF PoolInv, TypeInv, PcOK, QueueKey, MayQueue, process
<1>2. channel \in Seq(Keys) /\ Distinct(channel)
  BY DEF PoolInv, TypeInv, TypeOK, KeyConservation, Distinct
<1>3. /\ In(channel, k)
      /\ k \in Keys
      /\ Distinct(channel')
      /\ \A j : In(channel', j) <=> In(channel, j) /\ j # k
  BY <1>1, <1>2, TailKeys, HeadTailProperties
<1>4. /\ held'[r] = k
      /\ \A s \in Requests : s # r => held'[s] = held[s]
  BY <1>1 DEF PoolInv, TypeInv, TypeOK
<1>5. /\ \A j : InChannel(j) <=> In(channel, j)
      /\ \A j : InChannel(j)' <=> In(channel', j)
  BY DEF InChannel, In
<1>6. ~ IsHeld(k) /\ k \notin lost /\ k # NoKey
  BY <1>3, <1>5 DEF PoolInv, KeyConservation, Keys, NoKey
<1>7. \A j \in Keys : IsHeld(j)' <=> IsHeld(j) \/ j = k
  BY <1>1, <1>4, <1>3 DEF IsHeld, Keys, NoKey
<1>8. \A m, n \in 1 .. Len(channel') : channel'[m] = channel'[n] => m = n
  BY <1>3 DEF Distinct
<1>9. \A q, s \in Requests : held'[q] = held'[s] /\ held'[q] # NoKey => q = s
  BY <1>4, <1>6 DEF PoolInv, KeyConservation, IsHeld
<1>10. \A j \in Keys :
         /\ ~ (InChannel(j)' /\ IsHeld(j)')
         /\ j \in lost' => ~ InChannel(j)' /\ ~ IsHeld(j)'
  BY <1>1, <1>3, <1>5, <1>6, <1>7 DEF PoolInv, KeyConservation
<1>11. boot' = "serving" =>
         \A j \in Keys : InChannel(j)' \/ IsHeld(j)' \/ j \in lost'
  BY <1>1, <1>3, <1>5, <1>7 DEF PoolInv, KeyConservation
<1> QED
  BY <1>8, <1>9, <1>10, <1>11 DEF KeyConservation

\* From a request to the channel.
LEMMA PutBackConserves ==
  ASSUME PoolInv, NEW r \in Requests, held[r] # NoKey, PutBack(r),
         UNCHANGED <<boot, lost>>
  PROVE  KeyConservation'
<1> DEFINE k == held[r]
<1>1. /\ held' = [held EXCEPT ![r] = NoKey]
      /\ channel' = Append(channel, k)
      /\ k \in Keys
      /\ IsHeld(k)
  BY DEF PutBack, PoolInv, TypeInv, TypeOK, IsHeld
<1>2. /\ channel \in Seq(Keys)
      /\ Distinct(channel)
      /\ \A j : InChannel(j) <=> In(channel, j)
      /\ \A j : InChannel(j)' <=> In(channel', j)
  BY DEF PoolInv, TypeInv, TypeOK, KeyConservation, Distinct, InChannel, In
<1>3. ~ In(channel, k) /\ k \notin lost
  BY <1>1, <1>2 DEF PoolInv, KeyConservation
<1>4. /\ Distinct(channel')
      /\ \A j : In(channel', j) <=> In(channel, j) \/ j = k
  BY <1>1, <1>2, <1>3, AppendKeys
<1>5. /\ held'[r] = NoKey
      /\ \A s \in Requests : s # r => held'[s] = held[s]
  BY <1>1 DEF PoolInv, TypeInv, TypeOK
<1>6. \A j \in Keys : IsHeld(j)' <=> IsHeld(j) /\ j # k
  BY <1>5 DEF IsHeld, Keys, NoKey, PoolInv, KeyConservation
<1>7. \A m, n \in 1 .. Len(channel') : channel'[m] = channel'[n] => m = n
  BY <1>4 DEF Distinct
<1>8. \A q, s \in Requests : held'[q] = held'[s] /\ held'[q] # NoKey => q = s
  BY <1>5 DEF PoolInv, KeyConservation
<1>9. \A j \in Keys :
        /\ ~ (InChannel(j)' /\ IsHeld(j)')
        /\ j \in lost' => ~ InChannel(j)' /\ ~ IsHeld(j)'
  BY <1>2, <1>3, <1>4, <1>6 DEF PoolInv, KeyConservation
<1>10. boot' = "serving" =>
         \A j \in Keys : InChannel(j)' \/ IsHeld(j)' \/ j \in lost'
  BY <1>2, <1>4, <1>6 DEF PoolInv, KeyConservation
<1> QED
  BY <1>7, <1>8, <1>9, <1>10 DEF KeyConservation

\* Out of reach, with the handler that had it.
LEMMA PanicConserves ==
  ASSUME PoolInv, NEW r \in Requests, AskPanics(r)
  PROVE  KeyConservation'
<1> DEFINE k == held[r]
<1>1. /\ held' = [held EXCEPT ![r] = NoKey]
      /\ lost' = lost \cup {k}
      /\ UNCHANGED <<boot, channel>>
      /\ k # NoKey
      /\ k \in Keys
  BY DEF AskPanics, Sending, process, PoolInv, TypeInv, TypeOK, PcOK
<1>2. /\ held'[r] = NoKey
      /\ \A s \in Requests : s # r => held'[s] = held[s]
  BY <1>1 DEF PoolInv, TypeInv, TypeOK
<1>3. \A j \in Keys : IsHeld(j)' <=> IsHeld(j) /\ j # k
  BY <1>1, <1>2 DEF IsHeld, Keys, NoKey, PoolInv, KeyConservation
<1>4. IsHeld(k)
  BY DEF IsHeld
<1>5. \A j : InChannel(j)' <=> InChannel(j)
  BY <1>1 DEF InChannel
<1>6. \A m, n \in 1 .. Len(channel') : channel'[m] = channel'[n] => m = n
  BY <1>1 DEF PoolInv, KeyConservation
<1>7. \A q, s \in Requests : held'[q] = held'[s] /\ held'[q] # NoKey => q = s
  BY <1>2 DEF PoolInv, KeyConservation
<1>8. \A j \in Keys :
        /\ ~ (InChannel(j)' /\ IsHeld(j)')
        /\ j \in lost' => ~ InChannel(j)' /\ ~ IsHeld(j)'
  BY <1>1, <1>3, <1>4, <1>5 DEF PoolInv, KeyConservation
<1>9. boot' = "serving" =>
        \A j \in Keys : InChannel(j)' \/ IsHeld(j)' \/ j \in lost'
  BY <1>1, <1>3, <1>5 DEF PoolInv, KeyConservation
<1> QED
  BY <1>6, <1>7, <1>8, <1>9 DEF KeyConservation

\* An empty pool of a process without requests, and a freshly filled one.
Emptied == channel = <<>> /\ held = Zero /\ lost = {} /\ boot # "serving"
Filled  == channel = EnvKeys /\ held = Zero /\ lost = {}

LEMMA EmptyPool == Emptied => KeyConservation
<1> SUFFICES ASSUME Emptied PROVE KeyConservation
  OBVIOUS
<1> USE DEF Emptied
<1>1. \A n : n \notin 1 .. Len(channel)
  BY EmptySeq
<1>2. \A k \in Keys : ~ InChannel(k) /\ ~ IsHeld(k)
  BY <1>1, ConstantTypes DEF InChannel, IsHeld, Keys, NoKey
<1>3. \A r \in Requests : held[r] = NoKey
  BY ConstantTypes
<1> QED
  BY <1>1, <1>2, <1>3 DEF KeyConservation

LEMMA FullPool == Filled => KeyConservation
<1> SUFFICES ASSUME Filled PROVE KeyConservation
  OBVIOUS
<1> USE DEF Filled
<1>1. \A n \in 1 .. Len(channel) : n \in Keys /\ channel[n] = n
  BY ConstantTypes DEF Keys
<1>2. \A k \in Keys : InChannel(k) /\ ~ IsHeld(k)
  BY <1>1, ConstantTypes DEF InChannel, IsHeld, Keys, NoKey
<1>3. \A r \in Requests : held[r] = NoKey
  BY ConstantTypes
<1> QED
  BY <1>1, <1>2, <1>3 DEF KeyConservation

LEMMA PoolInit == Init => PoolInv
<1> SUFFICES ASSUME Init PROVE PoolInv
  OBVIOUS
<1>1. BootOK
  BY DEF Init, BootOK
<1>2. KeyConservation
  BY EmptyPool DEF Init, Emptied
<1> QED
  BY <1>1, <1>2, TypeInit DEF PoolInv

LEMMA PoolStep == PoolInv /\ [Next]_vars => PoolInv'
<1> SUFFICES ASSUME PoolInv, [Next]_vars PROVE PoolInv'
  OBVIOUS
<1> USE DEF PoolInv
<1>1. TypeInv'
  BY TypeStep
<1>2. ASSUME ProcessEnds PROVE BootOK' /\ KeyConservation'
  <2>1. BootOK'
    BY <1>2 DEF ProcessEnds, BootOK
  <2>2. Emptied'
    BY <1>2 DEF ProcessEnds, Emptied
  <2> QED
    BY <2>1, <2>2, EmptyPool, PTL
<1>3. CASE StartProcess
  BY <1>1, <1>3, NoKeyMoves DEF StartProcess, BootOK
<1>4. CASE LoadEnv
  <2>1. /\ channel' = EnvKeys /\ once' /\ boot' = "hydrated"
        /\ held' = Zero /\ lost' = {} /\ pc' = Idle
    BY <1>4 DEF LoadEnv, HydrateChannels, BootOK
  <2>2. Filled'
    BY <2>1 DEF Filled
  <2>3. KeyConservation'
    BY <2>2, FullPool, PTL
  <2> QED
    BY <1>1, <2>1, <2>3 DEF BootOK
<1>5. CASE LoadFails
  BY <1>1, <1>5, NoKeyMoves DEF LoadFails, BootOK
<1>6. CASE RegisterHandlers
  <2>1. /\ channel' = EnvKeys /\ once' /\ boot' = "serving"
        /\ held' = Zero /\ lost' = {}
    BY <1>6 DEF RegisterHandlers, HydrateChannels, BootOK
  <2>2. Filled'
    BY <2>1 DEF Filled
  <2>3. KeyConservation'
    BY <2>2, FullPool, PTL
  <2> QED
    BY <1>1, <2>1, <2>3 DEF BootOK
<1>7. CASE Killed
  BY <1>1, <1>2, <1>7 DEF Killed
<1>8. ASSUME NEW r \in Requests, Receive(r) \/ Own(r) \/ Answer(r)
      PROVE PoolInv'
  <2>1. boot = "serving" /\ boot' = "serving" /\ BootOK'
    BY <1>8, HandlerServes
  <2>2. CASE QueueKey(r)
    BY <1>1, <2>1, <2>2, QueueKeyConserves
  <2>3. ASSUME ClientFails(r) \/ ReleaseAndRetry(r) \/ Release(r)
        PROVE KeyConservation'
    <3>1. held[r] # NoKey
      BY <2>3 DEF ClientFails, ReleaseAndRetry, Release, TypeInv, PcOK
    <3>2. PutBack(r) /\ UNCHANGED <<boot, lost>>
      BY <2>3 DEF ClientFails, ReleaseAndRetry, Release, process
    <3> QED
      BY <3>1, <3>2, PutBackConserves
  <2>4. CASE AskPanics(r)
    BY <1>1, <2>1, <2>4, PanicConserves
  <2>5. ASSUME \/ Receive(r) \/ QueueEmpty(r) \/ GiveUp(r) \/ Program(r)
               \/ Store(r) \/ ClientReady(r) \/ AnswerValid(r) \/ AnswerRejected(r)
               \/ FindPanics(r) \/ Backoff(r) \/ Exhausted(r)
        PROVE KeyConservation'
    <3>1. UNCHANGED <<channel, held, lost>>
      BY <2>5 DEF Receive, QueueEmpty, GiveUp, Program, Store, ClientReady,
                  AnswerValid, AnswerRejected, FindPanics, Backoff, Exhausted
    <3> QED
      BY <2>1, <3>1, NoKeyMoves
  <2> QED
    BY <1>1, <1>8, <2>1, <2>2, <2>3, <2>4, <2>5 DEF Own, Answer
<1>9. ASSUME NEW r \in Requests, ProgramFails(r) PROVE PoolInv'
  BY <1>1, <1>2, <1>9 DEF ProgramFails
<1>10. CASE EditFile \/ UNCHANGED vars
  BY <1>1, <1>10, NoKeyMoves DEF EditFile, process, vars, BootOK
<1> QED
  BY <1>3, <1>4, <1>5, <1>6, <1>7, <1>8, <1>9, <1>10 DEF Next, Boot

LEMMA PoolInvariant == Spec => []PoolInv
  BY PoolInit, PoolStep, PTL DEF Spec

\* A key is in one place only, and while the server runs it is free, with one
\* request, or lost to the panic of an /ask.
THEOREM KeysConserved == Spec => []KeyConservation
<1>1. PoolInv => KeyConservation
  BY DEF PoolInv
<1> QED
  BY <1>1, PoolInvariant, PTL

-----------------------------------------------------------------------------
(* Room in the channel.                                                    *)

\* A channel that misses a key is shorter than the array of keys.
LEMMA RoomForMissingKey ==
  ASSUME NEW s \in Seq(Keys), Distinct(s), NEW k \in Keys, ~ In(s, k)
  PROVE  Len(s) < NumKeys
<1> DEFINE D == 1 .. Len(s)
           T == Keys \ {k}
<1>1. Len(s) \in Nat /\ s \in [D -> Keys]
  BY LenProperties
<1>2. IsFiniteSet(Keys) /\ Cardinality(Keys) = NumKeys
  BY FS_Interval DEF Keys
<1>3. IsFiniteSet(T) /\ Cardinality(T) = NumKeys - 1
  BY <1>2, FS_RemoveElement
<1>4. IsFiniteSet(D) /\ Cardinality(D) = Len(s)
  BY <1>1, FS_Interval
<1>5. s \in [D -> T]
  BY <1>1 DEF In
<1>6. ~ (Cardinality(T) < Cardinality(D))
  <2> SUFFICES ASSUME Cardinality(T) < Cardinality(D) PROVE FALSE
    OBVIOUS
  <2>1. \E m, n \in D : m # n /\ s[m] = s[n]
    BY <1>3, <1>4, <1>5, FS_PigeonHole
  <2> QED
    BY <2>1 DEF Distinct
<1> QED
  BY <1>1, <1>3, <1>4, <1>6

\* Returning a key never waits for room in the channel.
THEOREM ReturnsNeverBlock == Spec => []ReturnNeverBlocks
<1>1. PoolInv => ReturnNeverBlocks
  <2> SUFFICES ASSUME PoolInv, NEW r \in Requests, held[r] # NoKey
               PROVE  Len(channel) < NumKeys
    BY DEF ReturnNeverBlocks
  <2>1. held[r] \in Keys /\ channel \in Seq(Keys)
    BY DEF PoolInv, TypeInv, TypeOK
  <2>2. Distinct(channel)
    BY DEF PoolInv, KeyConservation, Distinct
  <2>3. ~ In(channel, held[r])
    BY <2>1 DEF PoolInv, KeyConservation, IsHeld, InChannel, In
  <2> QED
    BY <2>1, <2>2, <2>3, RoomForMissingKey
<1> QED
  BY <1>1, PoolInvariant, PTL

-----------------------------------------------------------------------------
(* What an /ask sends to Gemini.                                           *)

\* The model calls that a attempts may make.
Budget(a) == MaxTries * a

LEMMA BudgetGrows ==
  /\ Budget(0) = 0
  /\ \A a \in Nat : /\ Budget(a) \in Nat
                    /\ Budget(a + 1) = Budget(a) + MaxTries
                    /\ a < QueueTries => Budget(a + 1) <= Budget(QueueTries)
                    /\ a <= QueueTries => Budget(a) <= Budget(QueueTries)
<1>1. \A a, b \in Nat : a <= b => MaxTries * a <= MaxTries * b
  OBVIOUS
<1>2. \A a \in Nat : /\ MaxTries * a \in Nat
                     /\ MaxTries * (a + 1) = MaxTries * a + MaxTries
  OBVIOUS
<1>3. MaxTries * 0 = 0
  OBVIOUS
<1> QED
  BY <1>1, <1>2, <1>3 DEF Budget

\* How far the calls of an /ask have come at every position of the two loops.
BudgetAt(r) ==
  /\ pc[r] = "idle" => attempt[r] = 0 /\ sends[r] = 0
  /\ pc[r] \in {"queue", "program", "store", "client"}
       => sends[r] <= Budget(attempt[r])
  /\ pc[r] = "send" => sends[r] <= Budget(attempt[r]) + try[r]
  /\ pc[r] = "backoff" => sends[r] <= Budget(attempt[r]) + try[r] + 1
  /\ pc[r] \in {"retry", "done"} => sends[r] <= Budget(attempt[r]) + MaxTries
  /\ pc[r] = "done" => attempt[r] < QueueTries
  /\ pc[r] # "done" => context[r] = sends[r]

BudgetInv == \A r \in Asks : BudgetAt(r)

LEMMA BudgetInit == ASSUME Init PROVE BudgetInv
  BY ConstantTypes, BudgetGrows DEF Init, BudgetInv, BudgetAt, NoKey, Requests

LEMMA BudgetStep == TypeInv /\ BudgetInv /\ [Next]_vars => BudgetInv'
<1> SUFFICES ASSUME TypeInv, BudgetInv, [Next]_vars, NEW q \in Asks
             PROVE  BudgetAt(q)'
  BY DEF BudgetInv
<1>1. /\ BudgetAt(q)
      /\ q \in Requests
      /\ attempt[q] \in Nat /\ try[q] \in Nat /\ sends[q] \in Nat
      /\ try[q] <= MaxTries
  BY DEF BudgetInv, TypeInv, TypeOK, Requests
<1>2. /\ Budget(0) = 0
      /\ Budget(attempt[q]) \in Nat
      /\ Budget(attempt[q] + 1) = Budget(attempt[q]) + MaxTries
  BY <1>1, BudgetGrows
<1>3. ASSUME ProcessEnds PROVE BudgetAt(q)'
  BY <1>1, <1>2, <1>3, ConstantTypes DEF ProcessEnds, BudgetAt, NoKey
<1>4. ASSUME UNCHANGED <<pc[q], attempt[q], try[q], context[q], sends[q]>>
      PROVE  BudgetAt(q)'
  BY <1>1, <1>4 DEF BudgetAt
<1>5. CASE Boot \/ EditFile
  BY <1>3, <1>4, <1>5
     DEF EditFile, Boot, StartProcess, LoadEnv, LoadFails, RegisterHandlers,
         Killed, counters
<1>6. ASSUME NEW r \in Requests, ProgramFails(r) PROVE BudgetAt(q)'
  BY <1>3, <1>6 DEF ProgramFails
\* A step of another request.
<1>7. ASSUME NEW r \in Requests, r # q, Receive(r) \/ Own(r) \/ Answer(r)
      PROVE  BudgetAt(q)'
  <2>1. UNCHANGED <<pc[q], attempt[q], try[q], context[q], sends[q]>>
    BY <1>1, <1>7
       DEF Receive, Own, Answer, QueueKey, QueueEmpty, QueueFailed, GiveUp, Program,
           Store, ClientFails, ClientReady, AnswerValid, AnswerRejected, SendError,
           AskPanics, FindPanics, Backoff, Exhausted, ReleaseAndRetry, Release,
           NextAttempt, EndHandler, counters, TypeInv, TypeOK
  <2> QED
    BY <2>1, <1>4
\* A step of q itself.
<1> USE DEF TypeInv, TypeOK, PcOK, BudgetAt
<1>8. ASSUME EndHandler(q) PROVE BudgetAt(q)'
  BY <1>1, <1>2, <1>8 DEF EndHandler
<1>9. ASSUME NextAttempt(q), pc[q] \in {"queue", "client", "retry"}
      PROVE  BudgetAt(q)'
  BY <1>1, <1>2, <1>9 DEF NextAttempt
<1>10. CASE Receive(q)
  BY <1>1, <1>2, <1>10 DEF Receive, counters
<1>11. CASE QueueKey(q)
  BY <1>1, <1>11 DEF QueueKey, MayQueue, counters
<1>12. CASE QueueEmpty(q) \/ ClientFails(q)
  BY <1>8, <1>9, <1>12 DEF QueueEmpty, MayQueue, ClientFails, QueueFailed
<1>13. CASE GiveUp(q) \/ AskPanics(q) \/ Release(q)
  BY <1>8, <1>13 DEF GiveUp, AskPanics, Release
<1>14. CASE Program(q) \/ Store(q)
  BY <1>1, <1>14 DEF Program, Store, counters
<1>15. CASE ClientReady(q)
  BY <1>1, <1>2, <1>15 DEF ClientReady
<1>16. CASE AnswerValid(q)
  <2>1. /\ pc'[q] = "done" /\ sends'[q] = sends[q] + 1
        /\ UNCHANGED <<attempt, try, context>>
    BY <1>1, <1>16 DEF AnswerValid
  <2>2. /\ sends[q] <= Budget(attempt[q]) + try[q] /\ try[q] < MaxTries
        /\ attempt[q] < QueueTries
    BY <1>1, <1>16 DEF AnswerValid, Sending
  <2> QED
    BY <1>1, <1>2, <2>1, <2>2
<1>17. CASE AnswerRejected(q)
  BY <1>1, <1>2, <1>17 DEF AnswerRejected, SendError, Sending
<1>18. CASE Backoff(q)
  BY <1>1, <1>2, <1>18 DEF Backoff
<1>19. CASE Exhausted(q)
  BY <1>1, <1>2, <1>19 DEF Exhausted, counters
<1>20. CASE ReleaseAndRetry(q)
  BY <1>9, <1>20 DEF ReleaseAndRetry
<1>21. CASE UNCHANGED vars
  BY <1>4, <1>21 DEF vars
<1>22. ~ FindPanics(q)
  BY RequestsAssumption DEF FindPanics
<1> QED
  BY <1>5, <1>6, <1>7, <1>10, <1>11, <1>12, <1>13, <1>14, <1>15, <1>16, <1>17,
     <1>18, <1>19, <1>20, <1>21, <1>22 DEF Next, Own, Answer

\* An /ask makes at most MaxTries model calls with every key it tries, and what
\* it has sent names every rejected answer so far, whichever key it came from.
THEOREM RetriesBounded == Spec => []RetryBudget
<1>1. Init => TypeInv /\ BudgetInv
  BY TypeInit, BudgetInit
<1>2. Spec => [](TypeInv /\ BudgetInv)
  BY <1>1, TypeStep, BudgetStep, PTL DEF Spec
<1>3. TypeInv /\ BudgetInv => RetryBudget
  <2> SUFFICES ASSUME TypeInv, BudgetInv, NEW r \in Asks
               PROVE  /\ sends[r] <= MaxTries * QueueTries
                      /\ pc[r] \in {"send", "backoff", "retry", "queue"}
                           => context[r] = sends[r]
    BY DEF RetryBudget
  <2>1. /\ BudgetAt(r) /\ r \in Requests
        /\ attempt[r] \in Nat /\ try[r] \in Nat /\ sends[r] \in Nat
        /\ try[r] <= MaxTries /\ attempt[r] <= QueueTries
        /\ pc[r] \in PCs
        /\ pc[r] = "backoff" => try[r] < MaxTries
    BY DEF TypeInv, TypeOK, PcOK, BudgetInv, Requests
  <2>2. /\ Budget(attempt[r]) \in Nat
        /\ Budget(QueueTries) \in Nat
        /\ Budget(attempt[r]) <= Budget(QueueTries)
        /\ attempt[r] < QueueTries
             => Budget(attempt[r]) + MaxTries <= Budget(QueueTries)
    BY <2>1, BudgetGrows
  <2>3. CASE pc[r] \in {"idle", "queue"}
    BY <2>1, <2>2, <2>3 DEF BudgetAt, Budget
  <2>4. CASE pc[r] \notin {"idle", "queue"}
    <3>1. attempt[r] < QueueTries
      BY <2>1, <2>4 DEF BudgetAt, PCs, TypeInv, PcOK
    <3>2. sends[r] <= Budget(attempt[r]) + MaxTries
      BY <2>1, <2>2, <2>4 DEF BudgetAt, PCs
    <3>3. sends[r] <= Budget(QueueTries)
      BY <2>1, <2>2, <3>1, <3>2
    <3> QED
      BY <2>1, <3>3 DEF BudgetAt, Budget
  <2> QED
    BY <2>3, <2>4
<1> QED
  BY <1>2, <1>3, PTL

-----------------------------------------------------------------------------
(* The system instruction.                                                 *)

Using(r) == pc[r] \in {"client", "send", "backoff"}

\* What the versions have to do with each other: what a request in Queue may
\* still store is not older than the file was when it took its key, and no
\* request in Queue took its key before the version a session may count on.
PromptOK ==
  /\ content <= file
  /\ \A r \in Requests :
       /\ r \in InQueue => NoText < since[r] /\ since[r] <= file
       /\ pc[r] = "store" => since[r] <= text[r] /\ text[r] <= file
       /\ Using(r) => NoText < since[r] /\ since[r] <= content
       /\ Using(r) => \A s \in InQueue : since[r] <= since[s]

\* The part of the types that is about versions: they are numbers.
LEMMA PromptTypes ==
  ASSUME TypeInv
  PROVE  /\ file \in Nat \ {0} /\ content \in Nat
         /\ \A r \in Requests : text[r] \in Nat /\ since[r] \in Nat
         /\ pc \in [Requests -> PCs]
         /\ text \in [Requests -> Versions \cup {NoText}]
         /\ since \in [Requests -> Versions \cup {NoText}]
<1>1. Versions \subseteq Nat \ {0} /\ NoText \in Nat
  BY DEF Versions, NoText
<1> QED
  BY <1>1 DEF TypeInv, TypeOK

\* A request that leaves the model, or goes back to queue, disturbs nobody.
LEMMA PromptLeaves ==
  ASSUME TypeInv, PromptOK, NEW r \in Requests,
         UNCHANGED <<file, content, text>>,
         NEW p \in {"idle", "queue", "retry", "done"},
         pc' = [pc EXCEPT ![r] = p],
         \A s \in Requests : s # r => since'[s] = since[s]
  PROVE  PromptOK'
<1>1. /\ pc'[r] = p
      /\ \A s \in Requests : s # r => pc'[s] = pc[s]
  BY PromptTypes
<1>2. r \notin InQueue' /\ ~ Using(r)'
  BY <1>1 DEF InQueue, Using
<1>3. InQueue' \subseteq Requests
  BY DEF InQueue
<1>4. content' <= file'
  BY DEF PromptOK
<1>5. ASSUME NEW q \in Requests, q # r
      PROVE  /\ UNCHANGED <<since[q], text[q], pc[q]>>
             /\ q \in InQueue' <=> q \in InQueue
             /\ Using(q)' <=> Using(q)
             /\ Using(q) => \A s \in InQueue : since[q] <= since[s]
  <2>1. since'[q] = since[q] /\ pc'[q] = pc[q] /\ text'[q] = text[q]
    BY <1>1, <1>5
  <2>2. (q \in InQueue' <=> q \in InQueue) /\ (Using(q)' <=> Using(q))
    BY <2>1 DEF InQueue, Using
  <2>3. Using(q) => \A s \in InQueue : since[q] <= since[s]
    BY <1>5 DEF PromptOK
  <2> QED
    BY <2>1, <2>2, <2>3
<1>6. ASSUME NEW q \in Requests, Using(q)', NEW s \in InQueue'
      PROVE  since'[q] <= since'[s]
  <2>1. q # r /\ s # r /\ s \in Requests
    BY <1>2, <1>3, <1>6
  <2> QED
    BY <1>5, <1>6, <2>1
<1>7. ASSUME NEW q \in Requests
      PROVE  /\ q \in InQueue' => NoText < since'[q] /\ since'[q] <= file'
             /\ pc'[q] = "store" => since'[q] <= text'[q] /\ text'[q] <= file'
             /\ Using(q)' => NoText < since'[q] /\ since'[q] <= content'
  <2>1. CASE q = r
    BY <1>1, <1>2, <2>1
  <2>2. CASE q # r
    BY <1>5, <2>2 DEF PromptOK
  <2> QED
    BY <2>1, <2>2
<1> QED
  BY <1>4, <1>6, <1>7 DEF PromptOK

LEMMA PromptInit == Init => PromptOK
  BY ConstantTypes DEF Init, PromptOK, InQueue, Using, NoText

LEMMA PromptStep == TypeInv /\ PromptOK /\ [Next]_vars => PromptOK'
<1> SUFFICES ASSUME TypeInv, PromptOK, [Next]_vars PROVE PromptOK'
  OBVIOUS
<1>1. /\ file \in Nat \ {0} /\ content \in Nat
      /\ \A r \in Requests : text[r] \in Nat /\ since[r] \in Nat
      /\ pc \in [Requests -> PCs]
      /\ text \in [Requests -> Versions \cup {NoText}]
      /\ since \in [Requests -> Versions \cup {NoText}]
  BY PromptTypes
<1>2. ASSUME ProcessEnds PROVE PromptOK'
  BY <1>1, <1>2, ConstantTypes
     DEF ProcessEnds, PromptOK, InQueue, Using, NoText
<1>3. ASSUME UNCHANGED <<file, content, text, pc, since>> PROVE PromptOK'
  BY <1>3 DEF PromptOK, InQueue, Using
<1>4. CASE Boot
  BY <1>2, <1>3, <1>4 DEF Boot, StartProcess, LoadEnv, LoadFails,
                          RegisterHandlers, Killed, prompt
<1>5. CASE EditFile
  BY <1>1, <1>5 DEF EditFile, PromptOK, InQueue, Using
\* The steps that only move a request within or out of the use of its model.
<1>6. ASSUME NEW r \in Requests,
             \/ Receive(r) \/ QueueEmpty(r) \/ GiveUp(r) \/ ClientFails(r)
             \/ AnswerValid(r) \/ AskPanics(r) \/ FindPanics(r)
             \/ Exhausted(r) \/ ReleaseAndRetry(r) \/ Release(r)
      PROVE  PromptOK'
  <2>1. UNCHANGED <<file, content, text>>
    BY <1>6 DEF Receive, QueueEmpty, GiveUp, ClientFails, AnswerValid, AskPanics,
                FindPanics, Exhausted, ReleaseAndRetry, Release, prompt
  <2>2. \E p \in {"idle", "queue", "retry", "done"} : pc' = [pc EXCEPT ![r] = p]
    BY <1>6 DEF Receive, QueueEmpty, QueueFailed, GiveUp, ClientFails, AnswerValid,
                AskPanics, FindPanics, Exhausted, ReleaseAndRetry, Release,
                NextAttempt, EndHandler
  <2>3. \A s \in Requests : s # r => since'[s] = since[s]
    BY <1>1, <1>6
       DEF Receive, QueueEmpty, QueueFailed, GiveUp, ClientFails, AnswerValid,
           AskPanics, FindPanics, Exhausted, ReleaseAndRetry, Release,
           NextAttempt, EndHandler
  <2> QED
    BY <2>1, <2>2, <2>3, PromptLeaves
<1>7. ASSUME NEW r \in Requests,
             ClientReady(r) \/ AnswerRejected(r) \/ Backoff(r)
      PROVE  PromptOK'
  <2>1. /\ UNCHANGED <<file, content, text, since>>
        /\ Using(r) /\ Using(r)'
        /\ \A s \in Requests : s # r => pc'[s] = pc[s]
        /\ pc'[r] \notin {"program", "store"}
    BY <1>1, <1>7 DEF ClientReady, AnswerRejected, Sending, Backoff, Using, prompt
  <2>2. /\ InQueue' = InQueue
        /\ \A s \in Requests : Using(s)' <=> Using(s)
    BY <2>1 DEF InQueue, Using
  <2> QED
    BY <2>1, <2>2 DEF PromptOK
<1>8. ASSUME NEW r \in Requests, QueueKey(r) PROVE PromptOK'
  <2>1. /\ UNCHANGED <<file, content, text>>
        /\ pc'[r] = "program" /\ since'[r] = file
        /\ \A s \in Requests : s # r => pc'[s] = pc[s] /\ since'[s] = since[s]
    BY <1>1, <1>8 DEF QueueKey, prompt
  <2>2. /\ InQueue' = InQueue \cup {r}
        /\ \A s \in Requests : Using(s)' => Using(s) /\ s # r
    BY <2>1 DEF InQueue, Using
  <2>3. \A s \in Requests : Using(s) => since[s] <= file
    BY <1>1 DEF PromptOK
  <2>4. content' <= file'
    BY <2>1 DEF PromptOK
  <2>5. ASSUME NEW q \in Requests, Using(q)', NEW s \in InQueue'
        PROVE  since'[q] <= since'[s]
    <3>1. Using(q) /\ q # r /\ since'[q] = since[q]
      BY <2>1, <2>2, <2>5
    <3>2. CASE s = r
      BY <2>1, <2>3, <3>1, <3>2
    <3>3. CASE s # r
      <4>1. s \in InQueue /\ s \in Requests
        BY <2>2, <2>5, <3>3 DEF InQueue
      <4> QED
        BY <2>1, <3>1, <3>3, <4>1 DEF PromptOK
    <3> QED
      BY <3>2, <3>3
  <2>6. ASSUME NEW q \in Requests
        PROVE  /\ q \in InQueue' => NoText < since'[q] /\ since'[q] <= file'
               /\ pc'[q] = "store" => since'[q] <= text'[q] /\ text'[q] <= file'
               /\ Using(q)' => NoText < since'[q] /\ since'[q] <= content'
    <3>1. CASE q = r
      BY <1>1, <2>1, <2>2, <3>1 DEF NoText
    <3>2. CASE q # r
      BY <2>1, <2>2, <3>2 DEF PromptOK
    <3> QED
      BY <3>1, <3>2
  <2> QED
    BY <2>4, <2>5, <2>6 DEF PromptOK
<1>9. ASSUME NEW r \in Requests, Program(r) PROVE PromptOK'
  <2>1. /\ UNCHANGED <<file, content, since>>
        /\ pc[r] = "program" /\ pc'[r] = "store" /\ text'[r] = file
        /\ \A s \in Requests : s # r => pc'[s] = pc[s] /\ text'[s] = text[s]
    BY <1>1, <1>9 DEF Program
  <2>2. /\ InQueue' = InQueue /\ r \in InQueue
        /\ \A s \in Requests : Using(s)' <=> Using(s)
    BY <2>1 DEF InQueue, Using
  <2> QED
    BY <1>1, <2>1, <2>2 DEF PromptOK
<1>10. ASSUME NEW r \in Requests, Store(r) PROVE PromptOK'
  <2>1. PICK v \in Versions : Oldest(v) /\ since' = [since EXCEPT ![r] = v]
    BY <1>10 DEF Store
  <2>2. /\ file' = file /\ content' = text[r] /\ since'[r] = v
        /\ pc[r] = "store" /\ pc'[r] = "client"
        /\ \A s \in Requests : s # r => /\ pc'[s] = pc[s]
                                       /\ text'[s] = text[s]
                                       /\ since'[s] = since[s]
    BY <1>1, <1>10, <2>1 DEF Store
  <2>3. /\ v \in Nat /\ NoText < v
        /\ \A s \in InQueue : v <= since[s]
    BY <2>1 DEF Oldest, Versions, NoText
  <2>4. /\ InQueue' = InQueue \ {r} /\ r \in InQueue
        /\ \A s \in Requests : s # r => (Using(s)' <=> Using(s))
    BY <2>2 DEF InQueue, Using
  <2>5. since[r] <= text[r] /\ text[r] <= file
    BY <2>2 DEF PromptOK
  \* The sessions that have the content now were there before r took its key,
  \* or may count on no more than r itself.
  <2>6. \A s \in Requests : Using(s) => since[s] <= content'
    BY <1>1, <2>2, <2>4, <2>5 DEF PromptOK
  <2>7. v <= content'
    BY <1>1, <2>2, <2>3, <2>4, <2>5
  <2>8. content' <= file'
    BY <2>2, <2>5
  <2>9. ASSUME NEW q \in Requests, Using(q)', NEW s \in InQueue'
        PROVE  since'[q] <= since'[s]
    <3>1. s \in InQueue /\ s # r /\ s \in Requests /\ since'[s] = since[s]
      BY <2>2, <2>4, <2>9 DEF InQueue
    <3>2. CASE q = r
      BY <2>2, <2>3, <3>1, <3>2
    <3>3. CASE q # r
      BY <2>2, <2>4, <2>9, <3>1, <3>3 DEF PromptOK
    <3> QED
      BY <3>2, <3>3
  <2>10. ASSUME NEW q \in Requests
         PROVE  /\ q \in InQueue' => NoText < since'[q] /\ since'[q] <= file'
                /\ pc'[q] = "store" => since'[q] <= text'[q] /\ text'[q] <= file'
                /\ Using(q)' => NoText < since'[q] /\ since'[q] <= content'
    <3>1. CASE q = r
      BY <2>2, <2>3, <2>4, <2>7, <3>1
    <3>2. CASE q # r
      BY <2>2, <2>4, <2>6, <3>2 DEF PromptOK
    <3> QED
      BY <3>1, <3>2
  <2> QED
    BY <2>8, <2>9, <2>10 DEF PromptOK
<1>11. ASSUME NEW r \in Requests, ProgramFails(r) PROVE PromptOK'
  BY <1>2, <1>11 DEF ProgramFails
<1>12. CASE UNCHANGED vars
  BY <1>3, <1>12 DEF vars
<1> QED
  BY <1>4, <1>5, <1>6, <1>7, <1>8, <1>9, <1>10, <1>11, <1>12
     DEF Next, Own, Answer

\* However the reads of instructions.txt and the writes of the shared content of
\* any number of goroutines interleave with edits of the file, no session sends
\* the placeholder, or instructions older than the file was when its request,
\* or one that was in Queue together with it, took its key.
THEOREM InstructionsStayFresh == Spec => []InstructionsFresh
<1>1. Spec => [](TypeInv /\ PromptOK)
  BY TypeInit, PromptInit, TypeStep, PromptStep, PTL DEF Spec
<1>2. PromptOK => InstructionsFresh
  BY DEF PromptOK, Using, InstructionsFresh
<1> QED
  BY <1>1, <1>2, PTL

-----------------------------------------------------------------------------
(* The pool implements KeyLease.                                           *)

\* The value of the refinement mapping in each of the places a key can be.
LeaseValues ==
  /\ LeaseOf = [k \in Keys |-> LeaseOf[k]]
  /\ \A k \in Keys :
       /\ k \in lost => LeaseOf[k] = "lost"
       /\ \A r \in Requests : held[r] = k => LeaseOf[k] = r
       /\ k \notin lost /\ ~ IsHeld(k) => LeaseOf[k] = "free"

LEMMA LeaseMapping == PoolInv => LeaseValues
<1> SUFFICES ASSUME PoolInv PROVE LeaseValues
  OBVIOUS
<1>1. LeaseOf = [k \in Keys |-> LeaseOf[k]]
  BY DEF LeaseOf
<1>2. ASSUME NEW k \in Keys, NEW r \in Requests, held[r] = k
      PROVE  LeaseOf[k] = r
  <2>1. k \notin lost /\ IsHeld(k) /\ k # NoKey
    BY <1>2 DEF PoolInv, KeyConservation, IsHeld, Keys, NoKey
  <2>2. \A s \in Requests : held[s] = k => s = r
    BY <1>2, <2>1 DEF PoolInv, KeyConservation
  <2>3. (CHOOSE s \in Requests : held[s] = k) = r
    BY <1>2, <2>2
  <2> QED
    BY <2>1, <2>3 DEF LeaseOf
<1>3. ASSUME NEW k \in Keys
      PROVE  /\ k \in lost => LeaseOf[k] = "lost"
             /\ k \notin lost /\ ~ IsHeld(k) => LeaseOf[k] = "free"
  BY DEF LeaseOf
<1> QED
  BY <1>1, <1>2, <1>3 DEF LeaseValues

LEMMA LeaseMappingNext == PoolInv' => LeaseValues'
  BY LeaseMapping, PTL

LEMMA LeaseInit == Init => Lease!Init
<1> SUFFICES ASSUME Init PROVE LeaseOf = [k \in Keys |-> "free"]
  BY DEF Lease!Init, Lease!Free
<1>1. \A k \in Keys : k \notin lost /\ ~ IsHeld(k)
  BY ConstantTypes DEF Init, IsHeld, Keys, NoKey
<1> QED
  BY <1>1 DEF LeaseOf

\* Every step of the pool is a step of the abstract lease, or leaves it alone.
LEMMA LeaseStep ==
  PoolInv /\ PoolInv' /\ [Next]_vars => [Lease!Next]_LeaseOf
<1> SUFFICES ASSUME PoolInv, PoolInv', [Next]_vars
             PROVE  Lease!Next \/ UNCHANGED LeaseOf
  OBVIOUS
<1>1. LeaseValues /\ LeaseValues'
  BY LeaseMapping, LeaseMappingNext
<1>2. /\ held \in [Requests -> Keys \cup {NoKey}]
      /\ \A r, s \in Requests : held[r] = held[s] /\ held[r] # NoKey => r = s
      /\ \A r \in Requests : held[r] \in Keys => held[r] \notin lost
  <2>1. held \in [Requests -> Keys \cup {NoKey}]
    BY DEF PoolInv, TypeInv, TypeOK
  <2>2. \A r \in Requests : held[r] \in Keys => IsHeld(held[r])
    BY DEF IsHeld
  <2> QED
    BY <2>1, <2>2 DEF PoolInv, KeyConservation
<1>3. NoKey \notin Keys
  BY DEF NoKey, Keys
<1>4. ASSUME UNCHANGED <<held, lost>> PROVE UNCHANGED LeaseOf
  BY <1>4 DEF LeaseOf, IsHeld
<1>5. ASSUME ProcessEnds PROVE Lease!Restart
  <2>1. \A k \in Keys : k \notin lost' /\ ~ IsHeld(k)'
    BY <1>3, <1>5, ConstantTypes DEF ProcessEnds, IsHeld
  <2>2. LeaseOf' = [k \in Keys |-> "free"]
    BY <1>1, <2>1 DEF LeaseValues
  <2> QED
    BY <2>2 DEF Lease!Restart, Lease!Free
<1>6. ASSUME NEW r \in Requests, QueueKey(r)
      PROVE  \E k \in Keys : Lease!Take(r, k)
  <2> DEFINE k == Head(channel)
  <2>1. /\ held[r] = NoKey
        /\ held' = [held EXCEPT ![r] = k]
        /\ lost' = lost
        /\ channel # <<>> /\ channel \in Seq(Keys) /\ Distinct(channel)
    BY <1>6 DEF QueueKey, MayQueue, PoolInv, TypeInv, TypeOK, PcOK,
                KeyConservation, Distinct
  <2>2. k \in Keys /\ InChannel(k)
    BY <2>1, TailKeys, HeadTailProperties DEF InChannel, In
  <2>3. k \notin lost /\ ~ IsHeld(k)
    BY <2>2 DEF PoolInv, KeyConservation
  <2> HIDE DEF k
  <2>4. /\ held'[r] = k
        /\ \A s \in Requests : s # r => held'[s] = held[s]
    BY <1>2, <2>1
  <2>5. LeaseOf[k] = "free"
    BY <1>1, <2>2, <2>3 DEF LeaseValues
  <2>6. ASSUME NEW j \in Keys PROVE LeaseOf[j] # r
    <3>1. CASE j \in lost
      BY <1>1, <3>1, NamesAssumption DEF LeaseValues, Requests
    <3>2. CASE j \notin lost /\ ~ IsHeld(j)
      BY <1>1, <3>2, NamesAssumption DEF LeaseValues, Requests
    <3>3. CASE IsHeld(j)
      BY <1>1, <1>3, <2>1, <3>3 DEF LeaseValues, IsHeld
    <3> QED
      BY <3>1, <3>2, <3>3
  <2>7. ASSUME NEW j \in Keys
        PROVE  LeaseOf'[j] = IF j = k THEN r ELSE LeaseOf[j]
    <3>1. CASE j = k
      BY <1>1, <2>4, <3>1 DEF LeaseValues
    <3>2. CASE j # k /\ j \in lost
      BY <1>1, <2>1, <3>2 DEF LeaseValues
    <3>3. CASE j # k /\ IsHeld(j)
      BY <1>1, <1>3, <2>1, <2>4, <3>3 DEF LeaseValues, IsHeld
    <3>4. CASE j # k /\ j \notin lost /\ ~ IsHeld(j)
      <4>1. ~ IsHeld(j)' /\ j \notin lost'
        BY <2>1, <2>4, <3>4 DEF IsHeld
      <4> QED
        BY <1>1, <3>4, <4>1 DEF LeaseValues
    <3> QED
      BY <3>1, <3>2, <3>3, <3>4
  <2>8. LeaseOf' = [LeaseOf EXCEPT ![k] = r]
    BY <1>1, <2>7 DEF LeaseValues
  <2> QED
    BY <2>2, <2>5, <2>6, <2>8 DEF Lease!Take, Lease!Free
<1>7. ASSUME NEW r \in Requests, NEW k \in Keys, held[r] = k,
             held' = [held EXCEPT ![r] = NoKey],
             NEW v, \/ lost' = lost /\ v = "free"
                    \/ lost' = lost \cup {k} /\ v = "lost"
      PROVE  /\ LeaseOf[k] = r
             /\ LeaseOf' = [LeaseOf EXCEPT ![k] = v]
  <2>1. LeaseOf[k] = r
    BY <1>1, <1>7 DEF LeaseValues
  <2>2. /\ held'[r] = NoKey
        /\ \A s \in Requests : s # r => held'[s] = held[s]
    BY <1>2, <1>7
  <2>3. k \notin lost /\ ~ IsHeld(k)'
    BY <1>2, <1>3, <1>7, <2>2 DEF IsHeld
  <2>4. ASSUME NEW j \in Keys
        PROVE  LeaseOf'[j] = IF j = k THEN v ELSE LeaseOf[j]
    <3>1. CASE j = k
      BY <1>1, <1>7, <2>3, <3>1 DEF LeaseValues
    <3>2. CASE j # k /\ j \in lost
      BY <1>1, <1>7, <3>2 DEF LeaseValues
    <3>3. CASE j # k /\ IsHeld(j)
      BY <1>1, <1>7, <2>2, <3>3 DEF LeaseValues, IsHeld
    <3>4. CASE j # k /\ j \notin lost /\ ~ IsHeld(j)
      <4>1. ~ IsHeld(j)' /\ j \notin lost'
        BY <1>3, <1>7, <2>2, <3>4 DEF IsHeld
      <4> QED
        BY <1>1, <3>4, <4>1 DEF LeaseValues
    <3> QED
      BY <3>1, <3>2, <3>3, <3>4
  <2>5. LeaseOf' = [LeaseOf EXCEPT ![k] = v]
    BY <1>1, <2>4 DEF LeaseValues
  <2> QED
    BY <2>1, <2>5
<1>8. ASSUME NEW r \in Requests, ClientFails(r) \/ ReleaseAndRetry(r) \/ Release(r)
      PROVE  \E k \in Keys : Lease!GiveBack(r, k)
  <2>1. /\ held[r] # NoKey
        /\ held' = [held EXCEPT ![r] = NoKey]
        /\ lost' = lost
    BY <1>8 DEF ClientFails, ReleaseAndRetry, Release, PutBack, PoolInv, TypeInv,
                PcOK
  <2> DEFINE k == held[r]
  <2>2. k \in Keys
    BY <1>2, <2>1
  <2>3. LeaseOf[k] = r /\ LeaseOf' = [LeaseOf EXCEPT ![k] = "free"]
    BY <1>7, <2>1, <2>2
  <2> QED
    BY <2>2, <2>3 DEF Lease!GiveBack, Lease!Free
<1>9. ASSUME NEW r \in Requests, AskPanics(r)
      PROVE  \E k \in Keys : Lease!Lose(r, k)
  <2>1. /\ r \in Asks
        /\ held[r] # NoKey
        /\ held' = [held EXCEPT ![r] = NoKey]
        /\ lost' = lost \cup {held[r]}
    BY <1>9 DEF AskPanics, Sending, PoolInv, TypeInv, PcOK
  <2>2. PICK k \in Keys : held[r] = k
    BY <1>2, <2>1
  <2>3. held' = [held EXCEPT ![r] = NoKey] /\ lost' = lost \cup {k}
    BY <2>1, <2>2
  <2>4. LeaseOf[k] = r /\ LeaseOf' = [LeaseOf EXCEPT ![k] = "lost"]
    BY <1>7, <2>2, <2>3
  <2> QED
    BY <2>1, <2>4 DEF Lease!Lose, Lease!Lost
<1>10. ASSUME NEW r \in Requests,
              \/ Receive(r) \/ QueueEmpty(r) \/ GiveUp(r) \/ Program(r) \/ Store(r)
              \/ ClientReady(r) \/ AnswerValid(r) \/ AnswerRejected(r)
              \/ FindPanics(r) \/ Backoff(r) \/ Exhausted(r)
       PROVE  UNCHANGED LeaseOf
  <2>1. UNCHANGED <<held, lost>>
    BY <1>10 DEF Receive, QueueEmpty, GiveUp, Program, Store, ClientReady,
                 AnswerValid, AnswerRejected, FindPanics, Backoff, Exhausted
  <2> QED
    BY <1>4, <2>1
<1>11. CASE Boot
  <2>1. CASE Killed
    BY <1>5, <2>1 DEF Killed, Lease!Next
  <2>2. CASE StartProcess \/ LoadEnv \/ LoadFails \/ RegisterHandlers
    BY <1>4, <2>2 DEF StartProcess, LoadEnv, LoadFails, RegisterHandlers
  <2> QED
    BY <1>11, <2>1, <2>2 DEF Boot
<1>12. ASSUME NEW r \in Requests, ProgramFails(r) PROVE Lease!Next
  BY <1>5, <1>12 DEF ProgramFails, Lease!Next
<1>13. CASE UNCHANGED vars
  BY <1>4, <1>13 DEF vars
<1>14. CASE EditFile
  BY <1>4, <1>14 DEF EditFile
<1> QED
  BY <1>6, <1>8, <1>9, <1>10, <1>11, <1>12, <1>13, <1>14
     DEF Next, Own, Answer, Lease!Next

\* The channel, the retries and the deferred returns implement the lease: a key
\* passes from one request to another only through the pool, and only an /ask
\* that panics makes one disappear.
THEOREM PoolImplementsLease == Spec => LeaseSpec
<1>1. Spec => Lease!Init /\ [][Lease!Next]_LeaseOf
  BY LeaseInit, LeaseStep, PoolInvariant, PTL DEF Spec
<1> QED
  BY <1>1, PTL DEF LeaseSpec, Lease!Spec

=============================================================================
