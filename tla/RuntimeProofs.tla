---------------------------- MODULE RuntimeProofs ----------------------------
(***************************************************************************)
(* Proofs about Runtime and Alerts, for any number of events, of requests  *)
(* at once and of time units of grace: the one socket of the syslog sink,  *)
(* the attempts of the webhook sink, the order of the shutdown, and who    *)
(* holds the mutex where Run has come to.                                  *)
(***************************************************************************)
EXTENDS Runtime, TLAPS

(* The goroutine past Lock holds the mutex, Close included; it alone sees  *)
(* the connection half replaced.                                           *)
Exclusion ==
    /\ line \in [Event -> LinePC]
    /\ \A e \in Event : line[e] \in Holding => mu = e
    /\ main = "closing" => mu = Close
    /\ \A e \in Event : /\ line[e] = "dial" => conn = "none"
                        /\ line[e] = "write" => conn # "none"
    /\ pc \in {"opendb", "health", "agent"} => \A e \in Event : line[e] = "none"

(* An event that has not been emitted has no goroutine; one that was       *)
(* answered for good has no attempt left.                                  *)
Attempts ==
    /\ next \in Nat \ {0}
    /\ hook \in [Event -> HookPC] /\ answer \in [Event -> Answers]
    /\ \A e \in Event : /\ hook[e] # "none" => e < next
                        /\ answer[e] \in {"2xx", "refusal"} => hook[e] \in HookEnd

(* Servers come up before the process has started, and go down after.      *)
Shutdown ==
    /\ serving \in [Handlers -> Servers \cup {"none"}]
    /\ pc \in Boot => ~started
    /\ pc \in {"opendb", "health", "agent", "admin"} =>
          "admin" \notin listening /\ InFlight("admin") = {}
    /\ db = "closed" => pc \in {"opendb", "exit"} \cup Ended
    /\ started /\ pc \in {"stoptrace", "stopsinks", "closedb", "exit"} =>
          "admin" \notin listening /\ (InFlight("admin") = {} \/ left = 0)
    /\ ~started /\ broken # {} => pc \in {"exit"} \cup Ended
    /\ OpenWhileServing

-----------------------------------------------------------------------------
LEMMA InitAll == Init => Exclusion /\ OneSocket /\ Attempts /\ Shutdown
<1> SUFFICES ASSUME Init PROVE Exclusion /\ OneSocket /\ Attempts /\ Shutdown
  OBVIOUS
<1> USE DEF Init, AlertsInit
<1>1. Exclusion
  BY DEF Exclusion, LinePC, Holding
<1>2. OneSocket
  BY DEF OneSocket
<1>3. Attempts
  BY DEF Attempts, HookPC, Answers
<1>4. Shutdown
  BY DEF Shutdown, Servers, Boot, InFlight, OpenWhileServing
<1> QED
  BY <1>1, <1>2, <1>3, <1>4

-----------------------------------------------------------------------------
(* One lemma for each goroutine that takes the mutex.                      *)
LEMMA SyslogStep ==
    ASSUME Exclusion, OneSocket, NEW e \in Event, Syslog(e), UNCHANGED process
    PROVE  Exclusion' /\ OneSocket'
<1> USE HoldersAssumption
<1>1. UNCHANGED <<pc, main>>
  BY DEF Syslog, Lock, Write, Dial, Retry, Unlock, process
<1>2. CASE Lock(e)
  BY <1>1, <1>2 DEF Lock, At, Exclusion, OneSocket, LinePC, Holding
<1>3. CASE Write(e)
  BY <1>1, <1>3 DEF Write, At, Exclusion, OneSocket, LinePC, Holding
<1>4. CASE Dial(e)
  BY <1>1, <1>4 DEF Dial, At, Exclusion, OneSocket, LinePC, Holding
<1>5. CASE Retry(e)
  BY <1>1, <1>5 DEF Retry, At, Exclusion, OneSocket, LinePC, Holding
<1>6. CASE Unlock(e)
  BY <1>1, <1>6 DEF Unlock, At, Exclusion, OneSocket, LinePC, Holding
<1> QED
  BY <1>2, <1>3, <1>4, <1>5, <1>6 DEF Syslog

LEMMA CloseStep == Exclusion /\ OneSocket /\ StopSinks => Exclusion' /\ OneSocket'
<1> SUFFICES ASSUME Exclusion, OneSocket, StopSinks PROVE Exclusion' /\ OneSocket'
  OBVIOUS
<1> USE HoldersAssumption
<1>1. CASE CloseLock /\ UNCHANGED pc
  BY <1>1 DEF CloseLock, Exclusion, OneSocket, syslog, Holding
<1>2. CASE CloseConn /\ UNCHANGED pc
  BY <1>2 DEF CloseConn, Exclusion, OneSocket, Holding
<1>3. CASE Goto("closedb") /\ UNCHANGED alerting
  BY <1>3 DEF Goto, Exclusion, OneSocket, alerting, syslog
<1> QED
  BY <1>1, <1>2, <1>3 DEF StopSinks

(* The steps of Run before and after the agent.                            *)
LEMMA RunStep == Exclusion /\ OneSocket /\ Run => Exclusion' /\ OneSocket'
<1> SUFFICES ASSUME Exclusion, OneSocket, Run PROVE Exclusion' /\ OneSocket'
  OBVIOUS
<1>1. CASE OpenDB \/ StartServer("health", "agent") \/ StartServer("admin", "signals") \/ Notify
           \/ StartWatchdog \/ RunAgent \/ ShutDown("health", "stopadmin")
           \/ ShutDown("admin", "stoptrace") \/ CloseDB
  <2>1. UNCHANGED alerting
        /\ (pc' \in {"opendb", "health", "agent"} => pc \in {"opendb", "health", "agent"})
    BY <1>1 DEF OpenDB, StartServer, Notify, StartWatchdog, RunAgent, ShutDown, CloseDB, Goto,
                Stopping
  <2> QED
    BY <2>1 DEF Exclusion, OneSocket, alerting, syslog
<1>2. CASE NewAgent
  BY <1>2 DEF NewAgent, OpenSinks, Goto, Exclusion, OneSocket, Holding
<1>3. CASE StopTracer \/ Exit
  BY <1>3 DEF StopTracer, StartClose, Exit, Goto, Exclusion, OneSocket, syslog
<1>4. CASE StopSinks
  BY <1>4, CloseStep
<1> QED
  BY <1>1, <1>2, <1>3, <1>4 DEF Run

LEMMA SocketStep == Exclusion /\ OneSocket /\ [Next]_vars => Exclusion' /\ OneSocket'
<1> SUFFICES ASSUME Exclusion, OneSocket, [Next]_vars PROVE Exclusion' /\ OneSocket'
  OBVIOUS
<1>1. CASE Run
  BY <1>1, RunStep
<1>2. CASE EmitEvent
  <2>1. /\ line' = [line EXCEPT ![next] = "lock"] /\ pc = "run"
        /\ UNCHANGED <<pc, main, mu, conn, sockets>>
    BY <1>2 DEF EmitEvent, Emit, process
  <2> QED
    BY <2>1 DEF Exclusion, OneSocket, LinePC, Holding
<1>3. CASE Signal
  BY <1>3 DEF Signal, Goto, Exclusion, OneSocket, syslog
<1>4. ASSUME NEW e \in Event, Syslog(e), UNCHANGED process PROVE Exclusion' /\ OneSocket'
  BY <1>4, SyslogStep
<1>5. CASE Break /\ UNCHANGED process
  BY <1>5 DEF Break, process, Exclusion, OneSocket
<1>6. CASE \/ ClockTicks \/ UNCHANGED vars
           \/ \E e \in Event : Webhook(e) /\ UNCHANGED process
           \/ \E h \in Handlers : Query(h) \/ Answer(h) \/ \E server \in Servers : Accept(h, server)
  <2>1. UNCHANGED <<pc, main, syslog>>
    BY <1>6 DEF ClockTicks, vars, alerting, process, Webhook, Post, WaitOver, Query, Answer, Accept
  <2> QED
    BY <2>1 DEF Exclusion, OneSocket, syslog
<1> QED
  BY <1>1, <1>2, <1>3, <1>4, <1>5, <1>6 DEF Next, Deliver

(* However writes, dials and Close interleave, the syslog sink has at most *)
(* one socket, the one it knows of.                                        *)
THEOREM OneSocketAlways == Spec => []OneSocket
  BY InitAll, SocketStep, PTL DEF Spec

-----------------------------------------------------------------------------
LEMMA AttemptsStep == Attempts /\ [Next]_vars => Attempts'
<1> SUFFICES ASSUME Attempts, [Next]_vars PROVE Attempts'
  OBVIOUS
<1> USE EventsAssumption DEF Event
<1>1. CASE EmitEvent
  <2>1. /\ next \in Event /\ next' = next + 1 /\ hook' = [hook EXCEPT ![next] = "post"]
        /\ UNCHANGED answer
    BY <1>1 DEF EmitEvent, Emit, Attempts
  <2> QED
    BY <2>1 DEF Attempts, HookPC, HookEnd
<1>2. ASSUME NEW e \in Event, Post(e) PROVE Attempts'
  <2>1. PICK a \in Answers \ {"none"} :
           /\ answer' = [answer EXCEPT ![e] = a]
           /\ \/ a = "2xx" /\ hook' = [hook EXCEPT ![e] = "sent"]
              \/ a = "refusal" /\ hook' = [hook EXCEPT ![e] = "rejected"]
              \/ a = "transient" /\ TryAgain(e)
    BY <1>2 DEF Post, Refused
  <2>2. hook[e] = "post" /\ UNCHANGED next
    BY <1>2 DEF Post
  <2>3. e < next
    BY <1>2 DEF Post, Attempts
  <2> QED
    BY <2>1, <2>2, <2>3 DEF Attempts, TryAgain, HookPC, HookEnd, Answers
<1>3. ASSUME NEW e \in Event, WaitOver(e) PROVE Attempts'
  <2>1. /\ hook[e] = "wait" /\ UNCHANGED <<next, answer>>
        /\ \E place \in {"post", "failed"} : hook' = [hook EXCEPT ![e] = place]
    BY <1>3 DEF WaitOver
  <2> QED
    BY <2>1 DEF Attempts, HookPC, HookEnd
<1>4. CASE UNCHANGED <<next, webhook>>
  BY <1>4 DEF webhook, Attempts
<1>5. CASE Run
  BY <1>4, <1>5 DEF Run, OpenDB, StartServer, NewAgent, OpenSinks, Notify, StartWatchdog,
                    RunAgent, ShutDown, StopTracer, StartClose, StopSinks, CloseLock, CloseConn,
                    CloseDB, Exit, alerting
<1>6. CASE Signal \/ ClockTicks \/ UNCHANGED vars
  BY <1>4, <1>6 DEF Signal, ClockTicks, vars, alerting
<1>7. CASE Break
  BY <1>4, <1>7 DEF Break
<1>8. ASSUME NEW e \in Event, Syslog(e) PROVE Attempts'
  BY <1>4, <1>8 DEF Syslog, Lock, Write, Dial, Retry, Unlock
<1>9. ASSUME NEW h \in Handlers,
             Query(h) \/ Answer(h) \/ \E server \in Servers : Accept(h, server)
      PROVE  Attempts'
  BY <1>4, <1>9 DEF Query, Answer, Accept, alerting
<1>10. CASE Deliver
  BY <1>2, <1>3, <1>7, <1>8, <1>10 DEF Deliver, Webhook
<1> QED
  BY <1>1, <1>5, <1>6, <1>9, <1>10 DEF Next

(* An event that the receiver of the webhook has accepted or refused is    *)
(* not posted again.                                                       *)
THEOREM AnswersAreFinal == Spec => AnswerIsFinal
<1> DEFINE Final == \A e \in Event : answer[e] \in {"2xx", "refusal"} => posts'[e] = posts[e]
<1>1. Attempts /\ [Next]_vars => [Final]_alerting
  <2> SUFFICES ASSUME Attempts, [Next]_vars, NEW e \in Event, answer[e] \in {"2xx", "refusal"}
               PROVE  posts'[e] = posts[e]
    OBVIOUS
  <2>1. hook[e] \in HookEnd
    BY DEF Attempts
  <2>2. CASE \E f \in Event : Post(f)
    <3>1. PICK f \in Event : Post(f)
      BY <2>2
    <3>2. f # e /\ posts' = [posts EXCEPT ![f] = @ + 1]
      BY <2>1, <3>1 DEF Post, HookEnd
    <3> QED
      BY <3>2
  <2>3. CASE UNCHANGED posts
    BY <2>3
  <2>4. CASE Run
    BY <2>3, <2>4 DEF Run, OpenDB, StartServer, NewAgent, OpenSinks, Notify, StartWatchdog,
                      RunAgent, ShutDown, StopTracer, StartClose, StopSinks, CloseLock,
                      CloseConn, CloseDB, Exit, alerting, webhook
  <2>5. CASE EmitEvent \/ Signal \/ ClockTicks \/ UNCHANGED vars \/ Break
    BY <2>3, <2>5 DEF EmitEvent, Emit, Signal, ClockTicks, Break, vars, alerting, webhook
  <2>6. CASE \E f \in Event : WaitOver(f) \/ Syslog(f)
    BY <2>3, <2>6 DEF WaitOver, Syslog, Lock, Write, Dial, Retry, Unlock, webhook
  <2>7. CASE \E h \in Handlers : Query(h) \/ Answer(h) \/ \E server \in Servers : Accept(h, server)
    BY <2>3, <2>7 DEF Query, Answer, Accept, alerting, webhook
  <2> QED
    BY <2>2, <2>4, <2>5, <2>6, <2>7 DEF Next, Deliver, Webhook
<1> QED
  BY <1>1, InitAll, AttemptsStep, PTL DEF Spec, AnswerIsFinal

-----------------------------------------------------------------------------
LEMMA ShutdownRun == Shutdown /\ Run => Shutdown'
<1> SUFFICES ASSUME Shutdown, Run PROVE Shutdown'
  OBVIOUS
<1> USE DEF Shutdown, InFlight, OpenWhileServing, Goto, Boot, Ended, Stop
<1>1. CASE OpenDB
  BY <1>1 DEF OpenDB
<1>2. CASE StartServer("health", "agent") \/ StartServer("admin", "signals")
  BY <1>2 DEF StartServer
<1>3. CASE NewAgent
  BY <1>3 DEF NewAgent
<1>4. CASE Notify \/ StartWatchdog
  BY <1>4 DEF Notify, StartWatchdog
<1>5. CASE RunAgent
  BY <1>5 DEF RunAgent
<1>6. CASE ShutDown("health", "stopadmin") \/ ShutDown("admin", "stoptrace")
  BY <1>6 DEF ShutDown, Stopping
<1>7. CASE StopTracer
  BY <1>7 DEF StopTracer
<1>8. CASE StopSinks
  BY <1>8 DEF StopSinks
<1>9. CASE CloseDB
  BY <1>9 DEF CloseDB
<1>10. CASE Exit
  BY <1>10 DEF Exit
<1> QED
  BY <1>1, <1>2, <1>3, <1>4, <1>5, <1>6, <1>7, <1>8, <1>9, <1>10 DEF Run

LEMMA ShutdownStep == Shutdown /\ [Next]_vars => Shutdown'
<1> SUFFICES ASSUME Shutdown, [Next]_vars PROVE Shutdown'
  OBVIOUS
<1> USE DEF Shutdown, InFlight, OpenWhileServing, Boot, Ended, Stop
<1>1. CASE Run
  BY <1>1, ShutdownRun
<1>2. CASE EmitEvent \/ UNCHANGED vars \/ (Deliver /\ UNCHANGED process)
  BY <1>2 DEF EmitEvent, vars, process
<1>3. CASE Signal
  BY <1>3 DEF Signal, Goto, Servers
<1>4. CASE ClockTicks
  BY <1>4 DEF ClockTicks
<1>5. ASSUME NEW h \in Handlers, Query(h) PROVE Shutdown'
  BY <1>5 DEF Query
<1>6. ASSUME NEW h \in Handlers, Answer(h) PROVE Shutdown'
  BY <1>6 DEF Answer
<1>7. ASSUME NEW h \in Handlers, NEW server \in Servers, Accept(h, server) PROVE Shutdown'
  BY <1>7 DEF Accept, Servers
<1> QED
  BY <1>1, <1>2, <1>3, <1>4, <1>5, <1>6, <1>7 DEF Next

(* Whatever is in flight when the process is told to stop: a handler that  *)
(* finds the database closed has used up the grace period.                 *)
THEOREM OpenWhileServingAlways == Spec => []OpenWhileServing
<1>1. Shutdown => OpenWhileServing
  BY DEF Shutdown
<1> QED
  BY <1>1, InitAll, ShutdownStep, PTL DEF Spec

-----------------------------------------------------------------------------
(* Where Run is says how far Close has come, what is open and who holds    *)
(* the mutex for it.                                                       *)
Places ==
    /\ pc \in Boot \cup Stop \cup {"run", "closedb", "exit"} \cup Ended
    /\ pc \in Boot \cup {"run", "stophealth", "stopadmin", "stoptrace"} => main = "running"
    /\ pc = "stopsinks" => main \in {"close", "closing", "closed"}
    /\ pc \in {"closedb", "exit"} => main \in {"running", "closed"}
    /\ pc \in Ended <=> main = "exited"
    /\ db \in {"closed", "open"} /\ (pc \in {"opendb", "exit"} \cup Ended => db = "closed")
    /\ listening \subseteq Servers /\ (pc \in Ended => listening = {})
    /\ left \in 0..Grace
    /\ broken \subseteq Handlers

(* The mutex is held by a goroutine that is past Lock, by Close, or free;  *)
(* an event that has not been emitted has no goroutine to hold it.         *)
Mutex ==
    /\ \A e \in Event : /\ mu = e => line[e] \in Holding
                        /\ line[e] # "none" => e < next
    /\ mu = Close => main = "closing"
    /\ mu \in Event \cup {Close, Free}
    /\ conn \in {"none", "open", "broken"} /\ arrived \subseteq Event

Counts == next \in 1..(NumEvents + 1) /\ posts \in [Event -> Nat]

Flags == ctxDone \in BOOLEAN /\ started \in BOOLEAN

(* Run goes from place to place; Close is only begun and ended at its own. *)
LEMMA PlacesStep == ASSUME Places, [Next]_vars PROVE Places'
<1> USE DEF Places, Boot, Stop, Ended, Goto, Servers
<1>1. CASE Run
  <2>1. CASE OpenDB
    BY <2>1 DEF OpenDB, alerting
  <2>2. CASE StartServer("health", "agent") \/ StartServer("admin", "signals")
    BY <2>2 DEF StartServer, alerting
  <2>3. CASE NewAgent
    BY <2>3 DEF NewAgent, OpenSinks
  <2>4. CASE Notify \/ StartWatchdog \/ RunAgent
    BY <2>4 DEF Notify, StartWatchdog, RunAgent, alerting
  <2>5. CASE ShutDown("health", "stopadmin") \/ ShutDown("admin", "stoptrace")
    BY <2>5 DEF ShutDown, Stopping, alerting
  <2>6. CASE StopTracer
    BY <2>6 DEF StopTracer, StartClose
  <2>7. CASE StopSinks
    BY <2>7 DEF StopSinks, CloseLock, CloseConn, alerting
  <2>8. CASE CloseDB
    BY <2>8 DEF CloseDB, alerting
  <2>9. CASE Exit
    BY <2>9 DEF Exit
  <2> QED BY <1>1, <2>1, <2>2, <2>3, <2>4, <2>5, <2>6, <2>7, <2>8, <2>9 DEF Run
<1>2. CASE EmitEvent
  BY <1>2 DEF EmitEvent, Emit, process
<1>3. CASE Signal
  BY <1>3 DEF Signal
<1>4. CASE ClockTicks
  BY <1>4, GraceAssumption DEF ClockTicks, alerting
<1>5. CASE Deliver /\ UNCHANGED process
  BY <1>5 DEF Deliver, Break, Webhook, Post, WaitOver, Syslog, Lock, Write, Dial, Retry, Unlock,
              process
<1>6. ASSUME NEW h \in Handlers, Query(h) \/ Answer(h) \/ \E server \in Servers : Accept(h, server)
      PROVE  Places'
  BY <1>6 DEF Query, Answer, Accept, alerting
<1>7. CASE UNCHANGED vars
  BY <1>7 DEF vars, alerting, process
<1> QED BY <1>1, <1>2, <1>3, <1>4, <1>5, <1>6, <1>7 DEF Next

(* Lock takes the mutex when it is free, Unlock and CloseConn give it up.  *)
LEMMA MutexStep == ASSUME Exclusion, Places, Mutex, Counts, [Next]_vars PROVE Mutex'
<1> USE HoldersAssumption
<1>1. ASSUME NEW e \in Event, Syslog(e), UNCHANGED process PROVE Mutex'
  <2> USE DEF Mutex, Exclusion, At, LinePC, Holding
  <2>1. CASE Lock(e)
    BY <2>1 DEF Lock
  <2>2. CASE Write(e)
    BY <2>2 DEF Write
  <2>3. CASE Dial(e)
    BY <2>3 DEF Dial
  <2>4. CASE Retry(e)
    BY <2>4 DEF Retry
  <2>5. CASE Unlock(e)
    BY <2>5 DEF Unlock
  <2> QED BY <1>1, <2>1, <2>2, <2>3, <2>4, <2>5 DEF Syslog
<1>2. CASE StopSinks
  BY <1>2 DEF StopSinks, CloseLock, CloseConn, alerting, webhook, syslog, Mutex, Goto
<1>3. CASE EmitEvent
  <2>1. /\ UNCHANGED <<main, mu, conn, arrived>> /\ line' = [line EXCEPT ![next] = "lock"]
        /\ next' = next + 1 /\ next \in Event
    BY <1>3, EventsAssumption DEF EmitEvent, Emit, Counts, Event
  <2>2. \A e \in Event : e \in Nat
    BY DEF Event
  <2>3. line[next] = "none"
    BY <2>1, <2>2 DEF Mutex
  <2>4. \A e \in Event : e # next => line'[e] = line[e]
    BY <2>1 DEF Exclusion
  <2>5. line'[next] = "lock"
    BY <2>1 DEF Exclusion
  <2>6. mu # next
    BY <2>1, <2>3 DEF Mutex, Holding
  <2>7. \A e \in Event : /\ mu' = e => line'[e] \in Holding
                         /\ line'[e] # "none" => e < next'
    BY <2>1, <2>2, <2>4, <2>6 DEF Mutex
  <2>8. /\ mu' = Close => main' = "closing"
        /\ mu' \in Event \cup {Close, Free}
        /\ conn' \in {"none", "open", "broken"} /\ arrived' \subseteq Event
    BY <2>1 DEF Mutex
  <2> QED BY <2>7, <2>8 DEF Mutex
<1>4. CASE Signal \/ Exit
  <2>1. UNCHANGED <<line, mu, conn, arrived, next>> /\ (main' = main \/ main # "closing")
    BY <1>4 DEF Signal, Exit, Places, syslog, Boot
  <2> QED BY <2>1 DEF Mutex
<1>5. CASE StopTracer \/ NewAgent
  BY <1>5 DEF StopTracer, StartClose, NewAgent, OpenSinks, syslog, Mutex
<1>6. CASE Deliver /\ UNCHANGED process
  <2>1. CASE Break
    BY <2>1 DEF Break, Mutex
  <2>2. ASSUME NEW e \in Event, Webhook(e) PROVE Mutex'
    BY <2>2 DEF Webhook, Post, WaitOver, syslog, Mutex
  <2> QED BY <1>1, <1>6, <2>1, <2>2 DEF Deliver
<1>7. CASE UNCHANGED alerting
  BY <1>7 DEF alerting, syslog, Mutex
<1>8. CASE Run /\ ~StopSinks /\ ~StopTracer /\ ~NewAgent /\ ~Exit
  <2>1. UNCHANGED alerting
    BY <1>8 DEF Run, OpenDB, StartServer, Notify, StartWatchdog, RunAgent, ShutDown, CloseDB
  <2> QED BY <2>1, <1>7
<1>9. CASE ClockTicks \/ UNCHANGED vars
          \/ \E h \in Handlers : Query(h) \/ Answer(h) \/ \E server \in Servers : Accept(h, server)
  BY <1>7, <1>9 DEF ClockTicks, Query, Answer, Accept, vars
<1> QED
  BY <1>2, <1>3, <1>4, <1>5, <1>6, <1>8, <1>9 DEF Next

(* Each event is emitted once, and a post adds one attempt.                *)
LEMMA CountsStep == ASSUME Counts, [Next]_vars PROVE Counts'
<1>1. \/ UNCHANGED <<next, posts>>
      \/ next <= NumEvents /\ next' = next + 1 /\ UNCHANGED posts
      \/ UNCHANGED next /\ \E e \in Event : posts' = [posts EXCEPT ![e] = @ + 1]
  BY DEF Next, Run, OpenDB, StartServer, NewAgent, OpenSinks, Notify, StartWatchdog, RunAgent,
         ShutDown, StopTracer, StartClose, StopSinks, CloseLock, CloseConn, CloseDB, Exit,
         EmitEvent, Emit, Signal, ClockTicks, Deliver, Break, Webhook, Post, WaitOver, Syslog,
         Lock, Write, Dial, Retry, Unlock, Query, Answer, Accept, vars, alerting, webhook
<1> QED BY <1>1, EventsAssumption DEF Counts

LEMMA FlagsStep == ASSUME Flags, [Next]_vars PROVE Flags'
<1>1. ctxDone' \in {ctxDone, TRUE} /\ started' \in {started, TRUE}
  BY DEF Next, Run, OpenDB, StartServer, NewAgent, OpenSinks, Notify, StartWatchdog, RunAgent,
         ShutDown, StopTracer, StartClose, StopSinks, CloseLock, CloseConn, CloseDB, Exit,
         EmitEvent, Emit, Signal, ClockTicks, Deliver, Break, Webhook, Post, WaitOver, Syslog,
         Lock, Write, Dial, Retry, Unlock, Query, Answer, Accept, vars, alerting, process
<1> QED BY <1>1, Zenon DEF Flags

(* Types, and that the place of Run says whether the process has exited,   *)
(* and who is past Lock who holds the mutex.                               *)
THEOREM RuntimeTypeCorrect == Spec => []TypeOK
<1>1. Init => Places /\ Mutex /\ Counts /\ Flags
  <2> SUFFICES ASSUME Init PROVE Places /\ Mutex /\ Counts /\ Flags
    OBVIOUS
  <2>1. Places
    BY GraceAssumption DEF Init, AlertsInit, Places, Boot, Stop, Ended, Servers
  <2>2. Mutex
    BY HoldersAssumption DEF Init, AlertsInit, Mutex
  <2>3. Counts
    BY EventsAssumption DEF Init, AlertsInit, Counts
  <2>4. Flags
    BY DEF Init, AlertsInit, Flags
  <2> QED BY <2>1, <2>2, <2>3, <2>4
<1>2. Exclusion /\ OneSocket /\ Attempts /\ Shutdown /\ Places /\ Mutex /\ Counts /\ Flags => TypeOK
  <2> SUFFICES ASSUME Exclusion, OneSocket, Attempts, Shutdown, Places, Mutex, Counts, Flags
               PROVE  TypeOK
    OBVIOUS
  <2>1. main \in {"running", "close", "closing", "closed", "exited"}
    BY DEF Places, Boot, Stop, Ended
  <2>2. sockets \in Nat
    BY DEF OneSocket
  <2>3. \A e \in Event : line[e] \in Holding <=> mu = e
    BY DEF Exclusion, Mutex
  <2>4. main = "closing" <=> mu = Close
    BY DEF Exclusion, Mutex
  <2>5. AlertsTypeOK
    BY <2>1, <2>2, <2>3, <2>4 DEF Exclusion, Attempts, Mutex, Counts, Flags, AlertsTypeOK
  <2>6. pc \in Ended => db = "closed" /\ listening = {}
    BY DEF Places
  <2> QED BY <2>5, <2>6 DEF Places, Shutdown, Flags, TypeOK
<1>3. Places /\ Mutex /\ Counts /\ Flags /\ Exclusion /\ [Next]_vars
         => (Places /\ Mutex /\ Counts /\ Flags)'
  BY PlacesStep, MutexStep, CountsStep, FlagsStep
<1> QED
  BY <1>1, <1>2, <1>3, InitAll, SocketStep, AttemptsStep, ShutdownStep, PTL DEF Spec
=============================================================================
