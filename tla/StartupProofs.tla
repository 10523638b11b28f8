--------------------------- MODULE StartupProofs ---------------------------
(***************************************************************************)
(* What Startup promises, for every list of notifiers, every budget and    *)
(* every number of threads, captures and calls.                            *)
(*                                                                         *)
(* StartInv says what the constructor has done by the time it stands at a  *)
(* place; CaptureInv says that an open context remembers the youngest of   *)
(* the older open ones, which is what makes closing it restore the right   *)
(* handler.                                                                *)
(***************************************************************************)
EXTENDS Startup, TLAPS

Past == {"notifiers", "preflight", "join", "check", "diagnosis", "remediation", "healthy"}
Limited == {"diagnosis", "remediation", "healthy"}

\* What is known of notifier n once its turn is over.
Came == {"ok", "warned", "unchecked"}
Known(n) == n \in skipped \cup unreached \/ verdict[n] \in Came

StartInv ==
  /\ pc = "store" => notifiers = <<>> /\ next = 1
  /\ pc \in {"join", "check"} => /\ next <= Len(notifiers)
                                 /\ verdict[notifiers[next]] # "none"
  /\ pc = "check" /\ verdict[notifiers[next]] = "running" => clock <= Budget
  /\ clock <= Budget /\ until <= Budget
  /\ \A n \in Notifier : verdict[n] = "unchecked" => ~Checks(n)
  /\ pc \in {"preflight", "join", "check"} =>
       \A i \in 1..(next - 1) :
         \/ Known(notifiers[i])
         \/ pc \in {"join", "check"} /\ notifiers[i] = notifiers[next]
  /\ pc \in Limited => \A i \in 1..Len(notifiers) : Known(notifiers[i])
  /\ pc \in Past => "store" \in wired
  /\ pc \in Limited => "limits" \in wired
  /\ "limits" \in wired => "store" \in wired
  /\ "digest" \in wired => pc = "healthy"
  /\ AlertsLimited

\* m is the youngest of S, or None.
Youngest(m, S) == IF S = {} THEN m = None ELSE m \in S /\ \A d \in S : d <= m

Context == [by : Thread, prev : Nat]

CaptureInv ==
  /\ captures \in Seq(Context)
  /\ \A c \in DOMAIN captures : captures[c].prev < c
  /\ ~crossed => /\ Youngest(current, open)
                 /\ \A c \in open :
                      Youngest(captures[c].prev, {d \in open : d < c})

LifeInv == TypeOK /\ StartInv /\ CaptureInv

USE DEF None, Checks, Came

LEMMA InitLife == Init => LifeInv
<1> SUFFICES ASSUME Init PROVE LifeInv
  OBVIOUS
<1>1. TypeOK
  BY StartupAssumption DEF Init, TypeOK, StartTypes, UseTypes, Turns, Verdict, Ended
<1>2. StartInv
  BY StartupAssumption DEF Init, StartInv, AlertsLimited, Past, Limited
<1>3. CaptureInv
  BY DEF Init, CaptureInv, Youngest
<1> QED
  BY <1>1, <1>2, <1>3 DEF LifeInv

\* A step of the constructor leaves the captures, any other leaves start or
\* reads it only.
LEMMA CaptureKept ==
  ASSUME CaptureInv, UNCHANGED capture PROVE CaptureInv'
  BY DEF CaptureInv, capture, Youngest

LEMMA StartKept ==
  ASSUME StartInv, UNCHANGED start, AlertsLimited' PROVE StartInv'
  BY DEF StartInv, start, Known

LEMMA UseKept ==
  ASSUME AlertsLimited, UNCHANGED alerts, pc = "healthy" => pc' = "healthy"
  PROVE AlertsLimited'
  BY DEF AlertsLimited


(***************************************************************************)
(* A step of the constructor                                               *)
(***************************************************************************)
LEMMA ConstructLife ==
  ASSUME LifeInv, Construct PROVE LifeInv'
<1> USE DEF LifeInv
<1>1. UNCHANGED <<use, capture>>
  BY DEF Construct, InitStore, BuildNotifier, InitNotifiers, Preflight, Join, Check,
         Wire, InitDiagnosis, InitRemediation
<1>2. CaptureInv'
  BY <1>1, CaptureKept
<1>a. AlertsLimited /\ pc # "healthy"
  BY DEF StartInv, Construct, InitStore, BuildNotifier, InitNotifiers, Preflight, Join,
         Check, Wire, InitDiagnosis, InitRemediation
<1>3. AlertsLimited'
  BY <1>1, <1>a, UseKept DEF use
<1>4. UseTypes'
  BY <1>1 DEF TypeOK, UseTypes, use, capture
<1>t. StartTypes /\ StartInv
  BY DEF TypeOK
<1>n. Len(Configured) \in Nat /\ Len(notifiers) \in Nat /\ clock \in Nat /\ Budget \in Nat
  BY <1>t, StartupAssumption DEF StartTypes
<1>5. StartTypes' /\ StartInv'
  <2> USE <1>n
  <2>1. CASE InitStore
    <3>1. StartTypes'
      <4>1. next' = 1 /\ notifiers' = <<>>
        BY <1>t, <2>1 DEF InitStore, StartInv
      <4>2. pc' \in Ended \cup {"notifiers"}
        BY <2>1 DEF InitStore, Fail, Ended
      <4>3. wired' \subseteq Part
        BY <1>t, <2>1 DEF InitStore, StartTypes, Part
      <4>4. UNCHANGED <<strict, bypass, built, notifiers, clock, until, verdict, unreached, skipped>>
        BY <2>1 DEF InitStore
      <4> QED
        BY <1>t, <4>1, <4>2, <4>3, <4>4 DEF StartTypes, Turns
    <3>2. StartInv'
      BY <1>t, <1>3, <2>1 DEF InitStore, Fail, StartInv, Past, Limited
    <3> QED
      BY <3>1, <3>2
  <2>2. CASE BuildNotifier
    <3>1. next \in 1..Len(Configured) /\ Configured[next] \in Notifier
      BY <1>t, <2>2, StartupAssumption DEF BuildNotifier, StartTypes, Turns
    <3>2. Append(built, Configured[next]) \in Seq(Notifier) /\ <<>> \in Seq(Notifier)
      BY <1>t, <3>1 DEF StartTypes
    <3>3. built' \in Seq(Notifier)
      BY <1>t, <2>2, <3>2 DEF BuildNotifier, StartTypes
    <3>4. /\ next' \in 1..Len(Configured) + 1
          /\ pc' \in {"notifiers", "raised", "degraded"}
          /\ pc' # "notifiers" => next' = 1
      BY <2>2, <3>1 DEF BuildNotifier, Fail
    <3>5. UNCHANGED <<strict, bypass, wired, notifiers, clock, until, verdict, unreached, skipped>>
      BY <2>2 DEF BuildNotifier
    <3>6. StartTypes'
      BY <1>t, <3>3, <3>4, <3>5 DEF Ended, StartTypes, Turns
    <3>7. StartInv'
      <4>1. pc = "notifiers"
        BY <2>2 DEF BuildNotifier
      <4>2. \A n \in Notifier : verdict'[n] = "unchecked" => ~Checks(n)'
        BY <1>t, <3>5 DEF StartInv
      <4>3. /\ pc' # "store" /\ pc' \notin {"preflight", "join", "check"}
            /\ pc' # "healthy" /\ pc' \notin Limited /\ (pc' \in Past => pc \in Past)
        BY <3>4, <4>1 DEF Past, Limited
      <4>4. clock' <= Budget /\ until' <= Budget
        BY <1>t, <3>5 DEF StartInv
      <4>5. /\ (pc' \in Past => "store" \in wired')
            /\ ("limits" \in wired' => "store" \in wired')
            /\ ("digest" \in wired' => pc' = "healthy")
        BY <1>t, <3>5, <4>1, <4>3 DEF StartInv
      <4> QED
        BY <1>3, <4>2, <4>3, <4>4, <4>5 DEF StartInv, Limited
    <3> QED
      BY <3>6, <3>7
  <2>3. CASE InitNotifiers
    <3>1. StartTypes'
      BY <1>t, <2>3 DEF InitNotifiers, StartTypes, Turns
    <3>2. StartInv'
      BY <1>t, <1>3, <2>3 DEF InitNotifiers, StartInv, Past, Limited
    <3> QED
      BY <3>1, <3>2
  <2>4. CASE Preflight
    <3> DEFINE n == notifiers[next]
    <3>1. next \in 1..Len(notifiers) /\ n \in Notifier
      BY <1>t, <2>4 DEF Preflight, StartTypes, Turns
    <3>2. StartTypes'
      <4>1. pc = "preflight" /\ pc' \in {"preflight", "join"} /\ skipped' \subseteq Notifier
        BY <1>t, <2>4, <3>1 DEF Preflight, StartTypes
      <4>2. until' \in Nat
        BY <1>t, <2>4, <1>n DEF Preflight, StartTypes
      <4>3. verdict' \in [Notifier -> Verdict]
        BY <1>t, <2>4, <3>1 DEF Preflight, StartTypes, Verdict
      <4>4. next' \in 1..Len(notifiers) + 1
        BY <2>4, <3>1 DEF Preflight
      <4>5. UNCHANGED <<strict, bypass, wired, built, notifiers, clock, unreached>>
        BY <2>4 DEF Preflight
      <4> QED
        BY <1>t, <4>1, <4>2, <4>3, <4>4, <4>5 DEF StartTypes, Turns
    <3>3. ASSUME clock >= Budget PROVE StartInv'
      BY <1>t, <1>3, <2>4, <3>1, <3>3 DEF Preflight, Known, StartInv, Past, Limited
    <3>4. ASSUME clock < Budget PROVE StartInv'
      <4>1. verdict' = [verdict EXCEPT ![n] = "running"]
        BY <2>4, <3>4 DEF Preflight
      <4>2. verdict'[n] = "running" /\ \A m \in Notifier : m # n => verdict'[m] = verdict[m]
        BY <1>t, <3>1, <4>1 DEF StartTypes
      <4>3. \A i \in 1..Len(notifiers) : notifiers[i] \in Notifier
        BY <1>t DEF StartTypes
      <4> QED
        BY <1>t, <1>3, <2>4, <3>1, <3>4, <4>2, <4>3, StartupAssumption
        DEF Preflight, Known, StartInv, StartTypes, Past, Limited
    <3> QED
      BY <3>2, <3>3, <3>4
  <2>5. CASE Join
    <3>1. StartTypes'
      BY <1>t, <2>5 DEF Join, StartTypes, Turns
    <3>2. StartInv'
      BY <1>t, <1>3, <2>5 DEF Join, Known, StartInv, Past, Limited
    <3> QED
      BY <3>1, <3>2
  <2>6. CASE Check
    <3> DEFINE n == notifiers[next]
    <3>1. next \in 1..Len(notifiers) /\ n \in Notifier /\ verdict[n] \in Verdict \ {"none"}
      BY <1>t, <2>6 DEF Check, StartTypes, StartInv, Turns
    <3>2. StartTypes'
      BY <1>t, <2>6, <3>1 DEF Check, Fail, Ended, StartTypes, Turns
    <3>3. pc' = "preflight" => n \in skipped' \cup unreached' \/ verdict'[n] \in Came
      BY <2>6, <3>1 DEF Check, Fail, Verdict
    <3>4. StartInv'
      BY <1>t, <1>3, <2>6, <3>1, <3>3 DEF Check, Fail, Known, StartInv, Past, Limited
    <3> QED
      BY <3>2, <3>4
  <2>7. CASE Wire
    <3>1. StartTypes'
      BY <1>t, <2>7 DEF Wire, StartTypes, Turns, Part
    <3>2. StartInv'
      BY <1>t, <1>3, <2>7 DEF Wire, Known, StartTypes, StartInv, Turns, Past, Limited
    <3> QED
      BY <3>1, <3>2
  <2>8. CASE InitDiagnosis
    <3>1. StartTypes'
      BY <1>t, <2>8 DEF InitDiagnosis, Fail, Ended, StartTypes, Turns, Part
    <3>2. StartInv'
      BY <1>t, <1>3, <2>8 DEF InitDiagnosis, Fail, Known, StartInv, Past, Limited
    <3> QED
      BY <3>1, <3>2
  <2>9. CASE InitRemediation
    <3>1. StartTypes'
      BY <1>t, <2>9 DEF InitRemediation, Ended, StartTypes, Turns, Part
    <3>2. StartInv'
      BY <1>t, <1>3, <2>9 DEF InitRemediation, Known, StartInv, Past, Limited
    <3> QED
      BY <3>1, <3>2
  <2> QED
    BY <2>1, <2>2, <2>3, <2>4, <2>5, <2>6, <2>7, <2>8, <2>9 DEF Construct
<1> QED
  BY <1>2, <1>4, <1>5 DEF TypeOK

(***************************************************************************)
(* The other steps                                                         *)
(***************************************************************************)
LEMMA WaitLife ==
  ASSUME LifeInv, Tick \/ \E n \in Notifier : Validated(n) PROVE LifeInv'
<1>1. UNCHANGED <<use, capture>> /\ pc' = pc
  BY DEF Tick, Validated
<1>2. CaptureInv' /\ UseTypes'
  BY <1>1, CaptureKept DEF LifeInv, TypeOK, UseTypes, use, capture
<1>3. AlertsLimited'
  BY <1>1, UseKept DEF LifeInv, StartInv, use
<1>t. StartTypes /\ StartInv
  BY DEF LifeInv, TypeOK
<1>4. CASE Tick
  <2>1. StartTypes'
    BY <1>t, <1>4 DEF Tick, StartTypes, Turns
  <2>2. StartInv'
    BY <1>t, <1>3, <1>4, StartupAssumption
    DEF Tick, Running, Known, StartTypes, StartInv, Past, Limited
  <2> QED
    BY <1>2, <2>1, <2>2 DEF LifeInv, TypeOK
<1>5. ASSUME NEW n \in Notifier, Validated(n) PROVE LifeInv'
  <2>1. /\ verdict[n] = "running" /\ verdict'[n] \in {"ok", "warned", "unchecked", "unreachable", "rejected"}
        /\ verdict'[n] = "unchecked" => ~Checks(n)
        /\ \A m \in Notifier : m # n => verdict'[m] = verdict[m]
        /\ verdict' \in [Notifier -> Verdict]
    BY <1>t, <1>5 DEF Validated, StartTypes, Verdict
  <2>2. UNCHANGED <<strict, bypass, pc, wired, built, notifiers, next, clock, until, unreached, skipped>>
    BY <1>5 DEF Validated
  <2>3. StartTypes'
    BY <1>t, <2>1, <2>2 DEF StartTypes, Turns
  <2>4. \A m \in Notifier : Known(m) => m \in skipped' \cup unreached' \/ verdict'[m] \in Came
    BY <2>1, <2>2 DEF Known
  <2>5. \A i \in 1..Len(notifiers) : notifiers[i] \in Notifier
    BY <1>t DEF StartTypes
  <2>6. next \in 1..Len(notifiers) + 1 \/ pc = "notifiers"
    BY <1>t DEF StartTypes, Turns
  <2>7. StartInv'
    BY <1>t, <1>3, <2>1, <2>2, <2>4, <2>5, <2>6 DEF StartTypes, StartInv, Known, Past, Limited
  <2> QED
    BY <1>2, <2>3, <2>7 DEF LifeInv, TypeOK
<1> QED
  BY <1>4, <1>5

\* A call sends through the limiter, or through the digest of a healthy instance.
LEMMA CallLife ==
  ASSUME LifeInv, Report \/ Notify \/ Digest PROVE LifeInv'
<1>1. UNCHANGED <<start, capture>> /\ calls' \in 0..MaxCalls
  BY StartupAssumption DEF LifeInv, TypeOK, UseTypes, Report, Notify, Digest, Call
<1>2. CaptureInv' /\ TypeOK'
  BY <1>1, CaptureKept
  DEF LifeInv, TypeOK, StartTypes, UseTypes, Turns, start, capture
<1>3. AlertsLimited'
  <2> USE DEF LifeInv, StartInv, AlertsLimited
  <2>1. pc' = pc
    BY <1>1 DEF start
  <2>2. CASE Report \/ Notify
    <3>1. \A a \in alerts' \ alerts : a.api # "digest" /\ "limits" \in a.wired /\ a.wired = wired
      BY <2>2 DEF Report, Notify, Sent, Send
    <3> QED
      BY <2>1, <3>1
  <2>3. CASE Digest
    <3>1. \A a \in alerts' \ alerts : a.wired = wired /\ "digest" \in wired
      BY <2>3 DEF Digest
    <3>2. "digest" \in wired => {"store", "limits"} \subseteq wired /\ pc = "healthy"
      BY DEF Past, Limited
    <3> QED
      BY <2>1, <3>1, <3>2
  <2> QED
    BY <2>2, <2>3
<1> QED
  BY <1>1, <1>2, <1>3, StartKept DEF LifeInv

LEMMA CapturesLife ==
  ASSUME LifeInv, NEW t \in Thread, Enter(t) \/ Leave(t) PROVE LifeInv'
<1>1. UNCHANGED <<start, use>>
  BY DEF Enter, Leave
<1>2. AlertsLimited' /\ StartInv'
  BY <1>1, UseKept, StartKept DEF LifeInv, StartInv, start, use
<1>3. StartTypes' /\ calls' \in 0..MaxCalls
  BY <1>1 DEF LifeInv, TypeOK, StartTypes, UseTypes, Turns, start, use
<1>c. /\ captures \in Seq(Context) /\ open \subseteq DOMAIN captures
      /\ current \in DOMAIN captures \cup {0} /\ DOMAIN captures = 1..Len(captures)
      /\ Len(captures) \in Nat
  BY DEF LifeInv, TypeOK, UseTypes, CaptureInv
<1>4. CASE Enter(t)
  <2> DEFINE k == Len(captures) + 1
             new == [by |-> t, prev |-> current]
  <2>1. /\ captures' = Append(captures, new) /\ open' = open \cup {k} /\ current' = k
        /\ crossed' = crossed
    BY <1>4 DEF Enter
  <2>2. /\ captures' \in Seq(Context) /\ DOMAIN captures' = 1..k
        /\ captures'[k] = new /\ \A c \in 1..Len(captures) : captures'[c] = captures[c]
    <3>1. new \in Context
      BY <1>c DEF Context
    <3> QED
      BY <1>c, <2>1, <3>1
  <2>3. UseTypes'
    BY <1>c, <1>3, <2>1, <2>2 DEF UseTypes
  <2>4. \A c \in DOMAIN captures' : captures'[c].prev < c
    BY <1>c, <2>1, <2>2 DEF LifeInv, CaptureInv
  <2>5. ~crossed => Youngest(current', open')
    BY <1>c, <2>1 DEF Youngest
  <2>6. ASSUME ~crossed, NEW c \in open' PROVE Youngest(captures'[c].prev, {d \in open' : d < c})
    <3>1. CASE c = k
      <4>1. {d \in open' : d < c} = open /\ captures'[c].prev = current
        BY <1>c, <2>1, <2>2, <3>1
      <4> QED
        BY <2>6, <4>1 DEF LifeInv, CaptureInv
    <3>2. CASE c \in open
      <4>1. {d \in open' : d < c} = {d \in open : d < c} /\ captures'[c].prev = captures[c].prev
        BY <1>c, <2>1, <2>2, <3>2
      <4> QED
        BY <2>6, <3>2, <4>1 DEF LifeInv, CaptureInv
    <3> QED
      BY <2>1, <3>1, <3>2
  <2>7. CaptureInv'
    BY <2>1, <2>2, <2>4, <2>5, <2>6 DEF CaptureInv
  <2> QED
    BY <1>2, <1>3, <2>3, <2>7 DEF LifeInv, TypeOK
<1>5. CASE Leave(t)
  <2>1. PICK c \in open : /\ open' = open \ {c} /\ current' = captures[c].prev
                          /\ ~crossed' => ~crossed /\ \A d \in open : ~(d > c)
                          /\ captures' = captures
    BY <1>5 DEF Leave
  <2>2. captures[c].prev \in Nat /\ captures[c].prev < c /\ c \in 1..Len(captures)
    <3>0. c \in 1..Len(captures)
      BY <1>c, <2>1
    <3>1. captures[c] \in Context
      BY <1>c, <3>0
    <3> QED
      BY <1>c, <3>0, <3>1 DEF LifeInv, CaptureInv, Context
  <2>i. open \subseteq Int /\ c \in Int
    BY <1>c, <2>1
  <2>3. UseTypes'
    BY <1>c, <1>3, <2>1, <2>2 DEF UseTypes
  <2>4. ASSUME ~crossed' PROVE /\ Youngest(current', open')
                               /\ \A e \in open' :
                                    Youngest(captures'[e].prev, {d \in open' : d < e})
    <3>1. ~crossed /\ \A d \in open : d <= c
      BY <2>i, <2>1, <2>4
    <3>2. open' = {d \in open : d < c}
      BY <1>c, <2>1, <3>1
    <3>3. Youngest(current', open')
      BY <2>1, <3>1, <3>2 DEF LifeInv, CaptureInv
    <3>4. ASSUME NEW e \in open' PROVE {d \in open' : d < e} = {d \in open : d < e}
      BY <1>c, <2>1, <3>2
    <3> QED
      BY <2>1, <3>1, <3>3, <3>4 DEF LifeInv, CaptureInv
  <2>5. CaptureInv'
    BY <2>1, <2>4 DEF LifeInv, CaptureInv
  <2> QED
    BY <1>2, <1>3, <2>3, <2>5 DEF LifeInv, TypeOK
<1> QED
  BY <1>4, <1>5

LEMMA NextLife == LifeInv /\ [Next]_vars => LifeInv'
<1> SUFFICES ASSUME LifeInv, [Next]_vars PROVE LifeInv'
  OBVIOUS
<1>1. CASE UNCHANGED vars
  <2>1. UNCHANGED <<start, use, capture>>
    BY <1>1 DEF vars
  <2>2. AlertsLimited'
    BY <2>1 DEF LifeInv, StartInv, AlertsLimited, start, use
  <2>3. TypeOK'
    BY <2>1 DEF LifeInv, TypeOK, StartTypes, UseTypes, Turns, start, use, capture
  <2> QED
    BY <2>1, <2>2, <2>3, StartKept, CaptureKept DEF LifeInv
<1>2. CASE Next
  BY <1>2, ConstructLife, WaitLife, CallLife, CapturesLife DEF Next
<1> QED
  BY <1>1, <1>2

THEOREM LifeInvariant == Spec => []LifeInv
  BY InitLife, NextLife, PTL DEF Spec

\* The constructor and the instance it leaves stay within their types: no list
\* is indexed past its end, for every notify list.
THEOREM StartupTypes == Spec => []TypeOK
<1>1. LifeInv => TypeOK
  BY DEF LifeInv
<1> QED
  BY <1>1, LifeInvariant, PTL

\* A notifier whose validate() asks its service and that no warning names has a
\* good credential, and the budget is one for all (_run_notifier_preflights).
THEOREM NoFalseVerdict == Spec => []PreflightHonest
<1>1. LifeInv => PreflightHonest
  BY DEF LifeInv, TypeOK, StartTypes, StartInv, PreflightHonest, Limited, Known, Came
<1> QED
  BY <1>1, LifeInvariant, PTL

\* A half-wired instance (strict=False, a lost store) never sends unlimited.
THEOREM DegradedIsSilent == Spec => []AlertsLimited
<1>1. LifeInv => AlertsLimited
  BY DEF LifeInv, StartInv
<1> QED
  BY <1>1, LifeInvariant, PTL

\* Reports attach the records of the youngest open capture_logs context.
THEOREM CaptureNests == Spec => []CaptureInScope
<1>1. LifeInv => CaptureInScope
  <2> SUFFICES ASSUME LifeInv, ~crossed, open # {}
               PROVE current = CHOOSE c \in open : \A d \in open : d <= c
    BY DEF CaptureInScope, LifeInv, CaptureInv, Youngest
  <2>1. current \in open /\ \A d \in open : d <= current
    BY DEF LifeInv, CaptureInv, Youngest
  <2>2. open \subseteq Nat
    BY DEF LifeInv, TypeOK, UseTypes, CaptureInv
  <2>3. \A c \in open : (\A d \in open : d <= c) => c = current
    BY <2>1, <2>2
  <2> QED
    BY <2>1, <2>3
<1> QED
  BY <1>1, LifeInvariant, PTL
(***************************************************************************)
(* Why the constructor ends                                                *)
(*                                                                         *)
(* ToGo bounds what is left of it, ticks of waiting included: every step   *)
(* of its own and every tick lowers it, and nothing anybody else does,     *)
(* a validate() that answers late for one, raises it.                      *)
(***************************************************************************)

\* What the notify list left in built so far.
BuiltInv ==
  /\ pc = "store" => built = <<>>
  /\ pc = "notifiers" => Len(built) <= next - 1

EndInv == LifeInv /\ BuiltInv

Entries == Len(Configured)

\* Three steps for each notifier still to validate, one for each entry still to
\* build, and one for each part.
Steps(p, k, n) ==
  CASE p = "store" -> 4 * Entries + 6
    [] p = "notifiers" -> (Entries + 1 - k) + 3 * Entries + 4
    [] p = "preflight" -> 3 * (n + 1 - k) + 3
    [] p = "join" -> 3 * (n + 1 - k) + 2
    [] p = "check" -> 3 * (n + 1 - k) + 1
    [] p = "diagnosis" -> 2
    [] p = "remediation" -> 1
    [] OTHER -> 0

ToGo == Steps(pc, next, Len(notifiers)) + (Budget - clock)

Ends ==
  /\ ToGo' <= ToGo
  /\ Construct \/ Tick => ToGo' < ToGo

Place == Ended \cup {"store", "notifiers", "preflight", "join", "check",
                   "diagnosis", "remediation"}

\* v is Steps(p, k, n), place by place.
Tells(v, p, k, n) ==
  /\ v \in Int
  /\ p = "store" => v = 4 * Entries + 6
  /\ p = "notifiers" => v = 4 * Entries + 5 - k
  /\ p = "preflight" => v = 3 * (n - k) + 6
  /\ p = "join" => v = 3 * (n - k) + 5
  /\ p = "check" => v = 3 * (n - k) + 4
  /\ p = "diagnosis" => v = 2
  /\ p = "remediation" => v = 1
  /\ p \in Ended => v = 0

LEMMA StepsAre ==
  ASSUME NEW p \in Place, NEW k \in Int, NEW n \in Int, Entries \in Nat
  PROVE  Tells(Steps(p, k, n), p, k, n)
<1>1. CASE p = "store"
  BY <1>1 DEF Steps, Tells, Ended
<1>2. CASE p = "notifiers"
  BY <1>2 DEF Steps, Tells, Ended
<1>3. CASE p = "preflight"
  BY <1>3 DEF Steps, Tells, Ended
<1>4. CASE p = "join"
  BY <1>4 DEF Steps, Tells, Ended
<1>5. CASE p = "check"
  BY <1>5 DEF Steps, Tells, Ended
<1>6. CASE p = "diagnosis" \/ p = "remediation"
  BY <1>6 DEF Steps, Tells, Ended
<1>7. CASE p \in Ended
  BY <1>7 DEF Steps, Tells, Ended
<1> QED
  BY <1>1, <1>2, <1>3, <1>4, <1>5, <1>6, <1>7 DEF Place

LEMMA InitBuilt == Init => EndInv /\ ToGo = 4 * Entries + 6 + Budget
<1> SUFFICES ASSUME Init PROVE EndInv /\ ToGo = 4 * Entries + 6 + Budget
  OBVIOUS
<1>1. LifeInv
  BY InitLife
<1>2. BuiltInv
  BY DEF Init, BuiltInv
<1>3. Entries \in Nat /\ Budget \in Nat
  BY StartupAssumption DEF Entries
<1>4. pc = "store" /\ next = 1 /\ Len(notifiers) = 0 /\ clock = 0
  BY DEF Init
<1>5. Tells(Steps("store", 1, 0), "store", 1, 0)
  BY <1>3, StepsAre DEF Place
<1> QED
  BY <1>1, <1>2, <1>3, <1>4, <1>5 DEF EndInv, ToGo, Tells

\* Lists and counters of a state in LifeInv are numbers, and the constructor's
\* budget is not overdrawn.
LEMMA Numbers ==
  ASSUME LifeInv
  PROVE  /\ Entries \in Nat /\ Budget \in Nat /\ clock \in 0..Budget
         /\ Len(notifiers) \in Nat /\ Len(built) \in Nat
         /\ next \in 1..Turns + 1 /\ next \in Int /\ pc \in Place
         /\ Tells(Steps(pc, next, Len(notifiers)), pc, next, Len(notifiers))
<1>1. /\ Entries \in Nat /\ Budget \in Nat /\ clock \in 0..Budget
      /\ Len(notifiers) \in Nat /\ Len(built) \in Nat
      /\ next \in 1..Turns + 1 /\ next \in Int /\ pc \in Place
  BY StartupAssumption DEF LifeInv, TypeOK, StartTypes, StartInv, Entries, Place
<1> QED
  BY <1>1, StepsAre

\* The same after a step, for what a step can change.
LEMMA NumbersAfter ==
  ASSUME LifeInv'
  PROVE  /\ clock' \in 0..Budget /\ next' \in Int /\ pc' \in Place
         /\ Len(notifiers') \in Nat
         /\ Tells(Steps(pc', next', Len(notifiers')), pc', next', Len(notifiers'))
<1>1. /\ Entries \in Nat /\ clock' \in 0..Budget /\ Len(notifiers') \in Nat
      /\ next' \in Int /\ pc' \in Place
  BY StartupAssumption DEF LifeInv, TypeOK, StartTypes, StartInv, Entries, Place
<1> QED
  BY <1>1, StepsAre

LEMMA ConstructEnds ==
  ASSUME EndInv, LifeInv', Construct
  PROVE  BuiltInv' /\ ToGo' < ToGo
<1> USE DEF EndInv
<1>n. /\ Entries \in Nat /\ Budget \in Nat /\ clock \in 0..Budget
      /\ Len(notifiers) \in Nat /\ Len(built) \in Nat
      /\ next \in 1..Turns + 1 /\ next \in Int
  BY Numbers
<1> DEFINE before == Steps(pc, next, Len(notifiers))
           after == Steps(pc', next', Len(notifiers'))
<1>b. Tells(before, pc, next, Len(notifiers))
  BY Numbers
<1>m. /\ next' \in Int /\ Len(notifiers') \in Nat
      /\ Tells(after, pc', next', Len(notifiers'))
  BY NumbersAfter
<1>c. clock' = clock
  BY DEF Construct, InitStore, BuildNotifier, InitNotifiers, Preflight, Join, Check,
         Wire, InitDiagnosis, InitRemediation
<1> SUFFICES BuiltInv' /\ after < before
  BY <1>n, <1>m, <1>b, <1>c DEF ToGo, Tells
<1> HIDE DEF before, after
<1>1. CASE InitStore
  <2>1. next = 1 /\ next' = 1 /\ built' = built /\ built = <<>>
    BY <1>1 DEF InitStore, LifeInv, StartInv, BuiltInv
  <2>2. pc = "store" /\ pc' \in {"notifiers", "degraded", "raised"}
    BY <1>1 DEF InitStore, Fail
  <2> QED
    BY <1>n, <1>m, <1>b, <2>1, <2>2 DEF BuiltInv, Ended, Tells
<1>2. CASE BuildNotifier
  <2>1. next \in 1..Entries /\ Configured[next] \in Notifier /\ built \in Seq(Notifier)
    BY <1>2, StartupAssumption
    DEF BuildNotifier, LifeInv, TypeOK, StartTypes, Turns, Entries
  <2>2. pc = "notifiers" /\ Len(built) <= next - 1
    BY <1>2 DEF BuildNotifier, BuiltInv
  <2>3. \/ /\ pc' = pc /\ next' = next + 1
           /\ built' \in {built, Append(built, Configured[next])}
        \/ pc' \in {"raised", "degraded"} /\ next' = 1
    BY <1>2 DEF BuildNotifier, Fail
  <2>4. Len(Append(built, Configured[next])) = Len(built) + 1
    BY <2>1
  <2>5. BuiltInv'
    BY <1>n, <2>1, <2>2, <2>3, <2>4 DEF BuiltInv
  <2>6. after < before
    <3>1. before = 4 * Entries + 5 - next /\ after \in Int
      BY <1>m, <1>b, <2>2 DEF Tells
    <3>2. CASE pc' = pc /\ next' = next + 1
      <4>1. after = 4 * Entries + 5 - (next + 1)
        BY <1>m, <2>2, <3>2 DEF Tells
      <4> QED
        BY <1>n, <3>1, <4>1
    <3>3. CASE pc' \in {"raised", "degraded"}
      <4>1. after = 0
        BY <1>m, <3>3 DEF Ended, Tells
      <4> QED
        BY <1>n, <2>1, <3>1, <4>1
    <3> QED
      BY <2>3, <3>2, <3>3
  <2> QED
    BY <2>5, <2>6
<1>3. CASE InitNotifiers
  <2>1. /\ pc = "notifiers" /\ pc' = "preflight" /\ next' = 1
        /\ notifiers' = built /\ Len(built) <= next - 1
    BY <1>3 DEF InitNotifiers, BuiltInv
  <2>2. next = Entries + 1
    BY <1>3, <1>n, <2>1 DEF InitNotifiers, Turns, Entries
  <2> QED
    BY <1>n, <1>m, <1>b, <2>1, <2>2 DEF BuiltInv, Ended, Tells
<1>4. CASE Preflight
  <2>1. /\ pc = "preflight" /\ notifiers' = notifiers
        /\ \/ pc' = "preflight" /\ next' = next + 1
           \/ pc' = "join" /\ next' = next
    BY <1>4 DEF Preflight
  <2>2. next \in 1..Len(notifiers)
    BY <1>4, <1>n, <2>1 DEF Preflight, Turns
  <2> QED
    BY <1>n, <1>m, <1>b, <2>1, <2>2 DEF BuiltInv, Ended, Tells
<1>5. CASE Join
  <2>1. pc = "join" /\ pc' = "check" /\ UNCHANGED <<next, notifiers>>
    BY <1>5 DEF Join
  <2> QED
    BY <1>n, <1>m, <1>b, <2>1 DEF BuiltInv, Ended, Tells
<1>6. CASE Check
  <2>1. /\ pc = "check" /\ notifiers' = notifiers
        /\ \/ pc' = "preflight" /\ next' = next + 1
           \/ pc' \in {"raised", "degraded"} /\ next' = next
    BY <1>6 DEF Check, Fail
  <2>2. next \in 1..Len(notifiers)
    BY <1>n, <2>1 DEF LifeInv, StartInv
  <2> QED
    BY <1>n, <1>m, <1>b, <2>1, <2>2 DEF BuiltInv, Ended, Tells
<1>7. CASE Wire
  <2>1. pc = "preflight" /\ pc' = "diagnosis" /\ UNCHANGED <<next, notifiers>>
    BY <1>7 DEF Wire
  <2> QED
    BY <1>n, <1>m, <1>b, <2>1 DEF BuiltInv, Ended, Tells, Turns
<1>8. CASE InitDiagnosis
  <2>1. /\ pc = "diagnosis" /\ pc' \in {"remediation", "raised", "degraded"}
    BY <1>8 DEF InitDiagnosis, Fail
  <2> QED
    BY <1>n, <1>m, <1>b, <2>1 DEF BuiltInv, Ended, Tells
<1>9. CASE InitRemediation
  <2>1. pc = "remediation" /\ pc' = "healthy"
    BY <1>9 DEF InitRemediation
  <2> QED
    BY <1>n, <1>m, <1>b, <2>1 DEF BuiltInv, Ended, Tells
<1> QED
  BY <1>1, <1>2, <1>3, <1>4, <1>5, <1>6, <1>7, <1>8, <1>9 DEF Construct

LEMMA NextEnds == EndInv /\ [Next]_vars => EndInv' /\ (Ends \/ UNCHANGED vars)
<1> SUFFICES ASSUME EndInv, [Next]_vars PROVE EndInv' /\ (Ends \/ UNCHANGED vars)
  OBVIOUS
<1>1. LifeInv'
  BY NextLife DEF EndInv
<1>n. /\ Budget \in Nat /\ clock \in 0..Budget /\ clock' \in 0..Budget
      /\ Steps(pc, next, Len(notifiers)) \in Int /\ Steps(pc', next', Len(notifiers')) \in Int
  BY <1>1, Numbers, NumbersAfter DEF EndInv, Tells
<1>2. CASE Construct
  <2>1. BuiltInv' /\ ToGo' < ToGo
    BY <1>1, <1>2, ConstructEnds
  <2>2. ToGo \in Int /\ ToGo' \in Int
    BY <1>n DEF ToGo
  <2> QED
    BY <1>1, <2>1, <2>2 DEF EndInv, Ends
<1>3. CASE ~Construct /\ UNCHANGED <<pc, next, notifiers, built>>
  <2>1. BuiltInv'
    BY <1>3 DEF EndInv, BuiltInv
  <2>2. Steps(pc', next', Len(notifiers')) = Steps(pc, next, Len(notifiers))
    BY <1>3
  <2>3. CASE Tick
    <3>1. clock' = clock + 1
      BY <2>3 DEF Tick
    <3> QED
      BY <1>1, <1>n, <2>1, <2>2, <3>1 DEF EndInv, Ends, ToGo
  <2>4. CASE ~Tick
    <3>1. UNCHANGED clock
      BY <1>3, <2>4 DEF Next, Validated, Report, Notify, Digest, Enter, Leave, vars, start
    <3> QED
      BY <1>1, <1>3, <1>n, <2>1, <2>2, <2>4, <3>1 DEF EndInv, Ends, ToGo
  <2> QED
    BY <2>3, <2>4
<1>4. Construct \/ UNCHANGED <<pc, next, notifiers, built>>
  BY DEF Next, Tick, Validated, Report, Notify, Digest, Enter, Leave, vars, start
<1> QED
  BY <1>2, <1>3, <1>4

\* The constructor takes at most four steps per entry of the notify list, six
\* for the parts, and the ticks of one budget, whatever the endpoints do: what
\* is left of StartupEnds is that it goes on.
THEOREM ConstructorBounded ==
  Spec => /\ ToGo = 4 * Entries + 6 + Budget
          /\ [](ToGo >= 0)
          /\ [][Ends]_vars
<1>1. EndInv => ToGo >= 0
  <2> SUFFICES ASSUME EndInv PROVE ToGo >= 0
    OBVIOUS
  <2>1. /\ Entries \in Nat /\ Budget \in Nat /\ clock \in 0..Budget
        /\ Len(notifiers) \in Nat /\ next \in 1..Turns + 1
        /\ next \in Int /\ pc \in Place
        /\ Tells(Steps(pc, next, Len(notifiers)), pc, next, Len(notifiers))
    BY Numbers DEF EndInv
  <2>2. Steps(pc, next, Len(notifiers)) >= 0
    <3>1. CASE pc \in {"notifiers"}
      BY <2>1, <3>1 DEF Turns, Entries, Tells
    <3>2. CASE pc # "notifiers"
      <4>1. next \in 1..Len(notifiers) + 1
        BY <2>1, <3>2 DEF Turns
      <4> QED
        BY <2>1, <3>2, <4>1 DEF Place, Tells
    <3> QED
      BY <3>1, <3>2
  <2> QED
    BY <2>1, <2>2 DEF ToGo, Tells
<1>2. EndInv /\ [Next]_vars => [Ends]_vars
  BY NextEnds
<1>3. EndInv /\ [Next]_vars => EndInv'
  BY NextEnds
<1> QED
  BY InitBuilt, <1>1, <1>2, <1>3, PTL DEF Spec
=============================================================================
