------------------------------ MODULE Startup ------------------------------
(***************************************************************************)
(* The life of a FlowDoctor instance around its reports: the constructor,  *)
(* which wires the parts one after the other and validates every notifier  *)
(* on a thread of its own under one deadline, the calls made on what it    *)
(* left wired, and the log captures that calls open and close.             *)
(***************************************************************************)
EXTENDS Integers, Sequences, FiniteSets

CONSTANTS
  Thread,      \* threads and tasks that use the instance
  Notifier,
  Configured,  \* the notify list: a sequence of notifiers
  Disabled,    \* those whose auto_create_issue is off
  NoCheck,     \* those whose class keeps the validate() that does nothing
  Budget,      \* _preflight_budget, in ticks
  MaxCaptures, \* bound: capture_logs contexts opened
  MaxCalls     \* bound: calls on the instance

ASSUME StartupAssumption ==
  /\ Configured \in Seq(Notifier) /\ Disabled \subseteq Notifier
  /\ NoCheck \subseteq Notifier
  /\ Budget \in Nat \ {0} /\ MaxCaptures \in Nat /\ MaxCalls \in Nat

None == 0   \* no capture; a capture is its number

VARIABLES
  strict,    \* the constructor's argument
  bypass,    \* FLOW_DOCTOR_SKIP_PREFLIGHT is set
  pc,        \* where the constructor stands, or how it ended
  wired,     \* the parts the instance has
  built,     \* the list _init_notifiers has built so far
  notifiers, \* _notifiers
  next,      \* the entry or the notifier whose turn it is
  clock,     \* ticks since preflight began
  until,     \* when the join in progress gives up
  verdict,   \* [Notifier -> what its validate() came to]
  unreached, \* notifiers a warning calls unreachable
  skipped,   \* notifiers a warning calls UNVALIDATED
  calls,
  alerts,    \* history: what each send to the notifiers had in front of it
  captures,  \* the contexts opened: who opened it, the handler it replaced
  open,      \* those not closed
  current,   \* _log_handler
  crossed    \* history: a context was closed before a younger one

start == <<strict, bypass, pc, wired, built, notifiers, next, clock, until, verdict,
           unreached, skipped>>
use == <<calls, alerts>>
capture == <<captures, open, current, crossed>>
vars == <<start, use, capture>>

Part == {"store", "limits", "diagnosis", "remediation", "digest"}
Ended == {"raised", "degraded", "healthy"}
Verdict == {"none", "running", "ok", "warned", "unchecked", "unreachable", "rejected"}

(***************************************************************************)
(* __init__                                                                *)
(***************************************************************************)

\* An error other than StorageBackendError: raised when strict.
Fail == pc' = IF strict THEN "raised" ELSE "degraded"

InitStore ==
  /\ pc = "store"
  /\ \/ wired' = wired \cup {"store"} /\ pc' = "notifiers"
     \/ pc' = "degraded" /\ UNCHANGED wired      \* StorageBackendError
     \/ Fail /\ UNCHANGED wired                  \* ConfigError
  /\ UNCHANGED <<strict, bypass, built, notifiers, next, clock, until, verdict, unreached, skipped,
                 use, capture>>

\* The next entry of the notify list, a required field of which may be missing:
\* what was built so far is dropped with the error.
BuildNotifier ==
  /\ pc = "notifiers" /\ next <= Len(Configured)
  /\ \/ /\ built' = IF Configured[next] \in Disabled THEN built
                    ELSE Append(built, Configured[next])
        /\ next' = next + 1
        /\ UNCHANGED pc
     \/ Fail /\ built' = <<>> /\ next' = 1
  /\ UNCHANGED <<strict, bypass, wired, notifiers, clock, until, verdict, unreached, skipped,
                 use, capture>>

InitNotifiers ==
  /\ pc = "notifiers" /\ next > Len(Configured)
  /\ notifiers' = built /\ built' = <<>> /\ next' = 1
  /\ pc' = "preflight"
  /\ UNCHANGED <<strict, bypass, wired, clock, until, verdict, unreached, skipped,
                 use, capture>>

\* The turn of the next notifier: its validate() starts, or the budget is spent.
Preflight ==
  /\ pc = "preflight" /\ next <= Len(notifiers)
  /\ IF clock >= Budget
     THEN /\ skipped' = skipped \cup {notifiers[next]}
          /\ next' = next + 1
          /\ UNCHANGED <<pc, until, verdict>>
     ELSE /\ verdict' = [verdict EXCEPT ![notifiers[next]] = "running"]
          /\ until' = Budget
          /\ pc' = "join"
          /\ UNCHANGED <<skipped, next>>
  /\ UNCHANGED <<strict, bypass, wired, built, notifiers, clock, unreached, use, capture>>

Running == verdict[notifiers[next]] = "running"

\* Mutant: join() without a timeout.
JoinForever ==
  /\ pc = "join" /\ ~Running
  /\ pc' = "check"
  /\ UNCHANGED <<strict, bypass, wired, built, notifiers, next, clock, until, verdict, unreached,
                 skipped, use, capture>>

\* join(timeout=remaining) returns.
Join ==
  /\ pc = "join" /\ (~Running \/ clock >= until)
  /\ pc' = "check"
  /\ UNCHANGED <<strict, bypass, wired, built, notifiers, next, clock, until, verdict, unreached,
                 skipped, use, capture>>

\* Mutant: a thread that left no exception is taken for a good credential.
CheckNoException ==
  /\ pc = "check"
  /\ LET n == notifiers[next] IN
       IF verdict[n] = "rejected"
       THEN Fail /\ UNCHANGED <<next, unreached, skipped>>
       ELSE /\ pc' = "preflight" /\ next' = next + 1
            /\ unreached' =
                 IF verdict[n] = "unreachable" THEN unreached \cup {n} ELSE unreached
            /\ UNCHANGED skipped
  /\ UNCHANGED <<strict, bypass, wired, built, notifiers, clock, until, verdict, use, capture>>

\* is_alive(), then the exception it left.
Check ==
  /\ pc = "check"
  /\ LET n == notifiers[next] IN
       IF verdict[n] = "rejected"
       THEN Fail /\ UNCHANGED <<next, unreached, skipped>>
       ELSE /\ pc' = "preflight" /\ next' = next + 1
            /\ skipped' = IF verdict[n] = "running" THEN skipped \cup {n} ELSE skipped
            /\ unreached' =
                 IF verdict[n] = "unreachable" THEN unreached \cup {n} ELSE unreached
  /\ UNCHANGED <<strict, bypass, wired, built, notifiers, clock, until, verdict, use, capture>>

\* Dedup checker, rate limiter and cascade detector.
Wire ==
  /\ pc = "preflight" /\ next > Len(notifiers)
  /\ wired' = wired \cup {"limits"}
  /\ pc' = "diagnosis"
  /\ UNCHANGED <<strict, bypass, built, notifiers, next, clock, until, verdict, unreached, skipped,
                 use, capture>>

\* No provider named is an error; a missing package or key disables diagnosis.
InitDiagnosis ==
  /\ pc = "diagnosis"
  /\ \/ \E w \in {{}, {"diagnosis"}} : wired' = wired \cup w /\ pc' = "remediation"
     \/ Fail /\ UNCHANGED wired
  /\ UNCHANGED <<strict, bypass, built, notifiers, next, clock, until, verdict, unreached, skipped,
                 use, capture>>

\* Its own errors are printed and passed over; the digest follows.
InitRemediation ==
  /\ pc = "remediation"
  /\ \E w \in {{}, {"remediation"}} : wired' = wired \cup w \cup {"digest"}
  /\ pc' = "healthy"
  /\ UNCHANGED <<strict, bypass, built, notifiers, next, clock, until, verdict, unreached, skipped,
                 use, capture>>

\* validate() asks the service about the credential.
Checks(n) == n \notin NoCheck /\ ~bypass

\* A validate() comes to its end, in time or long after, or never does: with a
\* good credential, with a line of its own in the log that it could not tell,
\* or with an OSError or another exception.  One that asks nothing returns.
Validated(n) ==
  /\ verdict[n] = "running"
  /\ \E v \in IF Checks(n) THEN {"ok", "warned", "unreachable", "rejected"}
                           ELSE {"unchecked"} :
       verdict' = [verdict EXCEPT ![n] = v]
  /\ UNCHANGED <<strict, bypass, pc, wired, built, notifiers, next, clock, until,
                 unreached, skipped, use, capture>>

\* Time passes for the constructor only where it waits.
Tick ==
  /\ pc = "join" /\ Running /\ clock < until
  /\ clock' = clock + 1
  /\ UNCHANGED <<strict, bypass, pc, wired, built, notifiers, next, until, verdict,
                 unreached, skipped, use, capture>>

(***************************************************************************)
(* Calls on the instance the constructor returned                          *)
(***************************************************************************)
Returned == pc \in {"degraded", "healthy"}

Call == Returned /\ calls < MaxCalls /\ calls' = calls + 1
\* Mutant: an instance without a limiter sends all the same.
SendUnlimited == notifiers # <<>>
\* _send_notifications reaches no notifier without a limiter: the check raises.
Send == notifiers # <<>> /\ "limits" \in wired
Sent(api) == alerts' = IF Send THEN alerts \cup {[api |-> api, wired |-> wired]} ELSE alerts

\* report() needs the dedup checker; without it the call ends in its except.
Report ==
  /\ Call
  /\ IF "limits" \in wired THEN Sent("report") ELSE UNCHANGED alerts
  /\ UNCHANGED <<start, capture>>

\* notify_event() and notify_success() pass over the dedup and the store they
\* lack.
Notify == Call /\ Sent("notify") /\ UNCHANGED <<start, capture>>

\* digest(): past the limiter, to every notifier.
Digest ==
  /\ Call
  /\ alerts' = IF "digest" \in wired /\ notifiers # <<>>
               THEN alerts \cup {[api |-> "digest", wired |-> wired]} ELSE alerts
  /\ UNCHANGED <<start, capture>>

(***************************************************************************)
(* capture_logs                                                            *)
(***************************************************************************)
Enter(t) ==
  /\ Returned /\ Len(captures) < MaxCaptures
  /\ captures' = Append(captures, [by |-> t, prev |-> current])
  /\ open' = open \cup {Len(captures) + 1}
  /\ current' = Len(captures) + 1
  /\ UNCHANGED <<start, use, crossed>>

\* The innermost context of the thread.
Inner(t, c) ==
  /\ c \in open /\ captures[c].by = t
  /\ \A d \in open : captures[d].by = t => d <= c

\* Mutant: the outermost handler is not restored.
LeaveCurrent(t) ==
  \E c \in open :
    /\ Inner(t, c)
    /\ open' = open \ {c}
    /\ current' = IF captures[c].prev = None THEN current ELSE captures[c].prev
    /\ crossed' = (crossed \/ \E d \in open : d > c)
    /\ UNCHANGED <<start, use, captures>>

\* The handler goes off the logger; the one it replaced comes back.
Leave(t) ==
  \E c \in open :
    /\ Inner(t, c)
    /\ open' = open \ {c}
    /\ current' = captures[c].prev
    /\ crossed' = (crossed \/ \E d \in open : d > c)
    /\ UNCHANGED <<start, use, captures>>

Init ==
  /\ strict \in BOOLEAN /\ bypass \in BOOLEAN
  /\ pc = "store"
  /\ wired = {}
  /\ built = <<>> /\ notifiers = <<>>
  /\ next = 1
  /\ clock = 0 /\ until = 0
  /\ verdict = [n \in Notifier |-> "none"]
  /\ unreached = {} /\ skipped = {}
  /\ calls = 0 /\ alerts = {}
  /\ captures = <<>> /\ open = {} /\ current = None /\ crossed = FALSE

Construct ==
  \/ InitStore \/ BuildNotifier \/ InitNotifiers \/ Preflight \/ Join \/ Check \/ Wire
  \/ InitDiagnosis \/ InitRemediation

Next ==
  \/ Construct \/ Tick
  \/ \E n \in Notifier : Validated(n)
  \/ Report \/ Notify \/ Digest
  \/ \E t \in Thread : Enter(t) \/ Leave(t)

Spec == Init /\ [][Next]_vars

\* The constructor runs and time passes; no validate() is sure to return.
FairSpec == Spec /\ WF_vars(Construct) /\ WF_vars(Tick)

(***************************************************************************)
(* Properties                                                              *)
(***************************************************************************)

\* Entries of the list the constructor goes through.
Turns == IF pc = "notifiers" THEN Len(Configured) ELSE Len(notifiers)

StartTypes ==
  /\ pc \in Ended \cup {"store", "notifiers", "preflight", "join", "check",
                        "diagnosis", "remediation"}
  /\ strict \in BOOLEAN /\ bypass \in BOOLEAN /\ wired \subseteq Part
  /\ built \in Seq(Notifier) /\ notifiers \in Seq(Notifier)
  /\ next \in 1..Turns + 1 /\ clock \in Nat /\ until \in Nat
  /\ verdict \in [Notifier -> Verdict]
  /\ unreached \subseteq Notifier /\ skipped \subseteq Notifier

UseTypes ==
  /\ calls \in 0..MaxCalls
  /\ open \subseteq DOMAIN captures /\ current \in DOMAIN captures \cup {None}

\* Every part of the instance has its type, the constructor never goes past
\* the end of its lists, and a capture in force was opened.
TypeOK == StartTypes /\ UseTypes

\* A notifier that was to be checked and was not never looks like one that is
\* fine (_run_notifier_preflights): past preflight, one whose validate() asks
\* its service has a good credential, or a warning names it: the constructor's
\* or, from validate() itself, the notifier's own. This holds whatever comes in
\* late, and the whole of preflight took no more than the one budget. Of one
\* that is not checked at all silence says nothing.
PreflightHonest ==
  /\ clock <= Budget
  /\ pc \in {"diagnosis", "remediation", "healthy"} =>
       \A i \in DOMAIN notifiers :
         Checks(notifiers[i]) => \/ notifiers[i] \in skipped \cup unreached
                                 \/ verdict[notifiers[i]] \in {"ok", "warned"}

\* However far the constructor came, no alert goes out past the limiter, and
\* no digest from an instance that is not healthy.
AlertsLimited ==
  \A a \in alerts : /\ {"store", "limits"} \subseteq a.wired
                    /\ a.api = "digest" => pc = "healthy"

\* capture_logs: while contexts close in the order they nest, reports attach
\* the records of the youngest open one, and none when all are closed.
CaptureInScope ==
  ~crossed => current = IF open = {} THEN None
                        ELSE CHOOSE c \in open : \A d \in open : d <= c

\* The constructor ends, whatever the notifiers' endpoints do.
StartupEnds == <>(pc \in Ended)
=============================================================================
