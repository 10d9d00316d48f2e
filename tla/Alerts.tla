------------------------------- MODULE Alerts -------------------------------
(***************************************************************************)
(* Delivery of change events (internal/alerts): Multiplexer.Emit starts a  *)
(* goroutine for each event and sink, the webhook sink posts with one      *)
(* retry, the syslog sinks of all events share one connection under a      *)
(* mutex, which Close takes too.  Who emits, and when Close is called and  *)
(* the process ends, is in module Runtime.                                 *)
(*                                                                         *)
(* The receivers are nondeterministic: an answer of the webhook receiver   *)
(* may be lost after it has taken the event, and a TCP peer that has gone  *)
(* lets a write into the kernel's buffer succeed before one fails.         *)
(***************************************************************************)
EXTENDS Integers, FiniteSets

CONSTANTS
    NumEvents,    \* events the scan loop emits
    Close,        \* holder of the mutex that is no event: SyslogSink.Close
    Free          \* no holder

ASSUME EventsAssumption == NumEvents \in Nat
Event == 1..NumEvents
ASSUME HoldersAssumption == Close \notin Event /\ Free \notin Event /\ Close # Free

VARIABLES
    ctxDone,    \* the context that Emit passes on is cancelled
    main,       \* the main goroutine: "running", in Close, or "exited"
    next,       \* the event to be emitted next
    hook,       \* where the webhook goroutine of each event is
    posts,      \* attempts it has made
    line,       \* where the syslog goroutine of each event is
    mu,         \* holder of SyslogSink.mu
    conn        \* SyslogSink.conn: none, open, or broken by the other side

(* History.                                                                *)
VARIABLES
    answer,     \* what the last attempt of each webhook goroutine came to
    arrived,    \* events that reached the syslog receiver
    sockets     \* sockets the sink has open

webhook == <<hook, posts, answer>>
syslog == <<line, mu, conn, arrived, sockets>>
alerting == <<ctxDone, main, next, webhook, syslog>>

HookPC == {"none", "post", "wait", "sent", "rejected", "failed"}
HookEnd == {"sent", "rejected", "failed"}
Answers == {"none", "2xx", "refusal", "transient"}
LinePC == {"none", "lock", "write", "dial", "retry", "unlock-sent", "unlock-failed",
           "sent", "failed"}
LineEnd == {"sent", "failed"}
Holding == {"write", "dial", "retry", "unlock-sent", "unlock-failed"}

Alive == main # "exited"
Emitted == 1..(next - 1)

-----------------------------------------------------------------------------
AlertsInit ==
    /\ ctxDone = FALSE /\ main = "running" /\ next = 1
    /\ hook = [e \in Event |-> "none"] /\ posts = [e \in Event |-> 0]
    /\ answer = [e \in Event |-> "none"]
    /\ line = [e \in Event |-> "none"]
    /\ mu = Free /\ conn = "none" /\ arrived = {} /\ sockets = 0

(* NewSyslogSink dials eagerly; a sink that cannot is not configured.      *)
OpenSinks ==
    /\ conn' = "open" /\ sockets' = 1
    /\ UNCHANGED <<ctxDone, main, next, webhook, line, mu, arrived>>

EmitInTurn ==        \* mutant: the sinks in turn, the next one only after a success
    \/ /\ main = "running" /\ next <= NumEvents
       /\ next' = next + 1
       /\ hook' = [hook EXCEPT ![next] = "post"]
       /\ UNCHANGED <<ctxDone, main, posts, answer, syslog>>
    \/ /\ \E e \in Event :
             /\ hook[e] = "sent" /\ line[e] = "none"
             /\ line' = [line EXCEPT ![e] = "lock"]
       /\ UNCHANGED <<ctxDone, main, next, webhook, mu, conn, arrived, sockets>>

(* Multiplexer.Emit.                                                       *)
Emit ==
    /\ main = "running" /\ next <= NumEvents
    /\ next' = next + 1
    /\ hook' = [hook EXCEPT ![next] = "post"]
    /\ line' = [line EXCEPT ![next] = "lock"]
    /\ UNCHANGED <<ctxDone, main, posts, answer, mu, conn, arrived, sockets>>

-----------------------------------------------------------------------------
(* WebhookSink.Emit.                                                       *)

MoreAttempts(e) == posts[e] + 1 < 2

(* After a transient failure: the wait before the next attempt, or the end.*)
TryAgain(e) == hook' = [hook EXCEPT ![e] = IF MoreAttempts(e) THEN "wait" ELSE "failed"]

RefusalRetried(e) == TryAgain(e)          \* mutant: 4xx is taken for transient
Refused(e) == hook' = [hook EXCEPT ![e] = "rejected"]

(* One POST: accepted, refused for good, or failed for now, before or      *)
(* after the receiver had processed it.  A cancelled context fails it      *)
(* before it is sent.                                                      *)
Post(e) ==
    /\ Alive /\ hook[e] = "post"
    /\ posts' = [posts EXCEPT ![e] = @ + 1]
    /\ \E a \in Answers \ {"none"} :
          /\ ctxDone => a = "transient"
          /\ answer' = [answer EXCEPT ![e] = a]
          /\ \/ a = "2xx" /\ hook' = [hook EXCEPT ![e] = "sent"]
             \/ a = "refusal" /\ Refused(e)
             \/ a = "transient" /\ TryAgain(e)
    /\ UNCHANGED <<ctxDone, main, next, syslog>>

WaitOver(e) ==
    /\ Alive /\ hook[e] = "wait"
    /\ \/ hook' = [hook EXCEPT ![e] = "post"]
       \/ ctxDone /\ hook' = [hook EXCEPT ![e] = "failed"]
    /\ UNCHANGED <<ctxDone, main, next, posts, answer, syslog>>

Webhook(e) == Post(e) \/ WaitOver(e)

-----------------------------------------------------------------------------
(* SyslogSink.Emit.  It looks at the context for a deadline only.          *)

At(e, place) == line' = [line EXCEPT ![e] = place]

Lock(e) ==
    /\ Alive /\ line[e] = "lock" /\ mu = Free
    /\ mu' = e
    /\ At(e, IF conn = "none" THEN "dial" ELSE "write")
    /\ UNCHANGED <<ctxDone, main, next, webhook, conn, arrived, sockets>>

WriteKeepsSocket(e) ==       \* mutant: no Close before the redial
    /\ Alive /\ line[e] = "write"
    /\ At(e, "dial") /\ conn' = "none"
    /\ UNCHANGED <<ctxDone, main, next, webhook, mu, arrived, sockets>>

(* The first write.  It arrives, or gets no further than a buffer, or      *)
(* fails; then the connection is closed.                                   *)
Write(e) ==
    /\ Alive /\ line[e] = "write"
    /\ \/ /\ conn = "open"
          /\ arrived' = arrived \cup {e}
          /\ At(e, "unlock-sent") /\ UNCHANGED <<conn, sockets>>
       \/ /\ conn = "broken"
          /\ At(e, "unlock-sent") /\ UNCHANGED <<conn, arrived, sockets>>
       \/ /\ At(e, "dial")
          /\ conn' = "none" /\ sockets' = sockets - 1 /\ UNCHANGED arrived
    /\ UNCHANGED <<ctxDone, main, next, webhook, mu>>

Dial(e) ==
    /\ Alive /\ line[e] = "dial"
    /\ \/ At(e, "retry") /\ conn' = "open" /\ sockets' = sockets + 1
       \/ At(e, "unlock-failed") /\ UNCHANGED <<conn, sockets>>
    /\ UNCHANGED <<ctxDone, main, next, webhook, mu, arrived>>

(* The write after a redial; its failure leaves the connection in place.   *)
Retry(e) ==
    /\ Alive /\ line[e] = "retry"
    /\ \/ At(e, "unlock-sent") /\ conn = "open" /\ arrived' = arrived \cup {e}
       \/ At(e, "unlock-sent") /\ conn = "broken" /\ UNCHANGED arrived
       \/ At(e, "unlock-failed") /\ UNCHANGED arrived
    /\ UNCHANGED <<ctxDone, main, next, webhook, mu, conn, sockets>>

UnlockOnSuccess(e) ==        \* mutant: an error return without Unlock
    /\ Alive /\ line[e] \in {"unlock-sent", "unlock-failed"}
    /\ mu' = IF line[e] = "unlock-sent" THEN Free ELSE mu
    /\ At(e, IF line[e] = "unlock-sent" THEN "sent" ELSE "failed")
    /\ UNCHANGED <<ctxDone, main, next, webhook, conn, arrived, sockets>>

(* The deferred Unlock; an error is logged by the Multiplexer.             *)
Unlock(e) ==
    /\ Alive /\ line[e] \in {"unlock-sent", "unlock-failed"}
    /\ mu' = Free
    /\ At(e, IF line[e] = "unlock-sent" THEN "sent" ELSE "failed")
    /\ UNCHANGED <<ctxDone, main, next, webhook, conn, arrived, sockets>>

Syslog(e) == Lock(e) \/ Write(e) \/ Dial(e) \/ Retry(e) \/ Unlock(e)

(* The syslog receiver goes away; nobody is told.                          *)
Break ==
    /\ Alive /\ conn = "open"
    /\ conn' = "broken"
    /\ UNCHANGED <<ctxDone, main, next, webhook, line, mu, arrived, sockets>>

-----------------------------------------------------------------------------
(* Multiplexer.Close, which closes the webhook sink (nothing to do) and    *)
(* the syslog sink.                                                        *)
StartClose ==
    /\ main = "running"
    /\ main' = "close"
    /\ UNCHANGED <<ctxDone, next, webhook, syslog>>

CloseLock ==
    /\ main = "close" /\ mu = Free
    /\ mu' = Close /\ main' = "closing"
    /\ UNCHANGED <<ctxDone, next, webhook, line, conn, arrived, sockets>>

CloseConn ==
    /\ main = "closing"
    /\ conn' = "none"
    /\ sockets' = IF conn = "none" THEN sockets ELSE sockets - 1
    /\ mu' = Free /\ main' = "closed"
    /\ UNCHANGED <<ctxDone, next, webhook, line, arrived>>

(* The goroutines of the sinks, and their receivers.                       *)
Deliver == Break \/ \E e \in Event : Webhook(e) \/ Syslog(e)

(* Goroutines run, posts and writes time out. Each goroutine locks the     *)
(* mutex once, so no more is asked of sync.Mutex than to be lockable.      *)
DeliveryFairness == \A e \in Event : WF_alerting(Webhook(e)) /\ WF_alerting(Syslog(e))

-----------------------------------------------------------------------------
(* Type invariant of the sinks; who is past Lock holds the mutex, alone.   *)
AlertsTypeOK ==
    /\ ctxDone \in BOOLEAN
    /\ main \in {"running", "close", "closing", "closed", "exited"}
    /\ next \in 1..(NumEvents + 1)
    /\ hook \in [Event -> HookPC] /\ posts \in [Event -> Nat] /\ answer \in [Event -> Answers]
    /\ line \in [Event -> LinePC]
    /\ mu \in Event \cup {Close, Free}
    /\ conn \in {"none", "open", "broken"} /\ sockets \in Nat /\ arrived \in SUBSET Event
    /\ \A e \in Event : line[e] \in Holding <=> mu = e
    /\ main = "closing" <=> mu = Close

(* The sink has the one socket it knows of, whatever failed in whichever   *)
(* goroutine: a redial never leaks the connection it replaces.             *)
OneSocket == sockets = IF conn = "none" THEN 0 ELSE 1

(* An event that was accepted, or refused for good, is not posted again:   *)
(* only failures of the network and of the receiver are retried.           *)
AnswerIsFinal ==
    [][\A e \in Event : answer[e] \in {"2xx", "refusal"} => posts'[e] = posts[e]]_alerting

(* A failing webhook does not keep an event from the syslog sink, nor the  *)
(* other way round: both get to an end, unless the process exits first.    *)
EverySinkTried ==
    \A e \in Event : (e \in Emitted)
        ~> (main = "exited" \/ (hook[e] \in HookEnd /\ line[e] \in LineEnd))
=============================================================================
