----------------------------- MODULE GithubProofs -----------------------------
(***************************************************************************)
(* What GithubIssues promises, for every number of threads and instances,  *)
(* every set of findings and every number of sends and faults.             *)
(*                                                                         *)
(* An issue is firm when its instance knows of it, it is open, and no      *)
(* other send of the finding went through that instance while it was       *)
(* filed.  FilingInv: the last firm issue of a finding is in the table     *)
(* (NewestInv), a send on its way to file has seen that there is none      *)
(* (LookedInv), and whoever could have filed or dropped an entry in the    *)
(* meantime is marked as having overlapped (CrossInv).  CountInv ties the  *)
(* counter in an issue's body to what the sends that will patch it have    *)
(* read of it; RightInv says that what they found is of their finding.     *)
(***************************************************************************)
EXTENDS GithubIssues, FiniteSetTheorems, SequenceTheorems, TLAPS

(***************************************************************************)
(* Sequences                                                               *)
(***************************************************************************)

\* Every set of natural numbers that is not empty has a least element.
LEMMA Least ==
  ASSUME NEW T, T \subseteq Nat, T # {}
  PROVE  \E x \in T : \A y \in T : x <= y
<1> DEFINE D == {0..x : x \in T}
           R == StrictSubsetOrdering(Nat)
           S == FiniteSubsetsOf(Nat)
<1>1. D \subseteq S
  <2> SUFFICES ASSUME NEW x \in T PROVE (0..x) \in S
    BY Zenon
  <2>1. x \in Nat /\ (0..x) \subseteq Nat
    OBVIOUS
  <2> QED
    BY <2>1, FS_Interval DEF FiniteSubsetsOf
<1>2. D # {}
  OBVIOUS
<1>3. IsWellFoundedOn(R, S)
  BY FS_StrictSubsetOrderingWellFounded
<1> HIDE DEF R, S
<1>4. PICK d \in D : \A e \in D : ~ (<<e, d>> \in R)
  BY <1>1, <1>2, <1>3, WFMin
<1>5. PICK x \in T : d = 0..x
  OBVIOUS
<1>6. ASSUME NEW y \in T, y < x PROVE FALSE
  <2>1. (0..y) \in D
    OBVIOUS
  <2>2. /\ (0..y) \subseteq (0..x) /\ (0..y) # (0..x)
        /\ (0..y) \subseteq Nat /\ (0..x) \subseteq Nat
    <3>1. x \in Nat /\ y \in Nat
      OBVIOUS
    <3>2. x \in 0..x /\ x \notin 0..y
      BY <3>1, <1>6
    <3> QED
      BY <3>1, <3>2, <1>6
  <2>3. <<0..y, 0..x>> \in R
    BY <2>2 DEF R, StrictSubsetOrdering
  <2> QED
    BY <2>1, <2>3, <1>4, <1>5
<1> QED
  BY <1>6

\* g is the filter's run over the first m members of s.
Runs(g, m, s, T) ==
  /\ g = [i \in 0..m |-> g[i]]
  /\ g[0] = <<>>
  /\ \A i \in 1..m : g[i] = IF s[i] \in T THEN Append(g[i - 1], s[i]) ELSE g[i - 1]

LEMMA RunsTyped ==
  ASSUME NEW S, NEW s \in Seq(S), NEW T, NEW m \in 0..Len(s), NEW g, Runs(g, m, s, T)
  PROVE  \A i \in 0..m : /\ g[i] \in Seq(S) /\ Len(g[i]) <= i
                         /\ \A k \in 1..Len(g[i]) : g[i][k] \in S \cap T
<1> DEFINE Good(i) == /\ g[i] \in Seq(S) /\ Len(g[i]) <= i
                      /\ \A k \in 1..Len(g[i]) : g[i][k] \in S \cap T
           Bad == {i \in 0..m : ~Good(i)}
<1>1. Len(s) \in Nat /\ m \in Nat /\ m <= Len(s)
  OBVIOUS
<1>2. ASSUME Bad # {} PROVE FALSE
  <2>1. PICK i \in Bad : \A j \in Bad : i <= j
    <3>1. Bad \subseteq Nat
      BY <1>1
    <3> HIDE DEF Bad
    <3> QED
      BY <1>2, <3>1, Least
  <2>2. i \in 0..m /\ ~Good(i)
    BY <2>1
  <2>3. i # 0
    <3>1. g[0] = <<>>
      BY DEF Runs
    <3>2. Good(0)
      BY <3>1
    <3> QED
      BY <2>2, <3>2
  <2>4. i - 1 \in 0..m /\ i \in 1..m /\ i - 1 < i
    BY <1>1, <2>2, <2>3
  <2>5. Good(i - 1)
    <3> HIDE DEF Good
    <3>1. i - 1 \notin Bad
      BY <1>1, <2>1, <2>2, <2>4
    <3> QED
      BY <2>4, <3>1
  <2>6. s[i] \in S
    BY <1>1, <2>4
  <2>7. g[i] = IF s[i] \in T THEN Append(g[i - 1], s[i]) ELSE g[i - 1]
    BY <2>4 DEF Runs
  <2>8. CASE s[i] \in T
    <3> DEFINE h == g[i - 1]
    <3>1. /\ h \in Seq(S) /\ Len(h) <= i - 1 /\ g[i] = Append(h, s[i])
          /\ \A k \in 1..Len(h) : h[k] \in S \cap T
      BY <2>5, <2>7, <2>8
    <3> HIDE DEF h
    <3>2. /\ g[i] \in Seq(S) /\ Len(g[i]) = Len(h) + 1
          /\ \A k \in 1..Len(h) : g[i][k] = h[k]
          /\ g[i][Len(h) + 1] = s[i] /\ Len(h) \in Nat
      BY <2>6, <3>1
    <3>3. \A k \in 1..Len(g[i]) : k \in 1..Len(h) \/ k = Len(h) + 1
      BY <3>2
    <3>4. Good(i)
      BY <1>1, <2>2, <2>6, <2>8, <3>1, <3>2, <3>3
    <3> QED
      BY <2>2, <3>4
  <2>9. CASE s[i] \notin T
    BY <1>1, <2>2, <2>5, <2>7, <2>9
  <2> QED
    BY <2>8, <2>9
<1> QED
  BY <1>2

LEMMA RunsExist ==
  ASSUME NEW S, NEW s \in Seq(S), NEW T, NEW n \in 0..Len(s)
  PROVE  \E g : Runs(g, n, s, T)
<1> DEFINE Bad == {m \in 0..n : ~ \E g : Runs(g, m, s, T)}
<1>1. n \in Nat
  OBVIOUS
<1>2. ASSUME Bad # {} PROVE FALSE
  <2>1. PICK m \in Bad : \A j \in Bad : m <= j
    <3>1. Bad \subseteq Nat
      BY <1>1
    <3> HIDE DEF Bad
    <3> QED
      BY <1>2, <3>1, Least
  <2>2. m \in 0..n /\ ~ \E g : Runs(g, m, s, T)
    BY <2>1
  <2>3. m # 0
    <3>1. Runs([i \in 0..0 |-> <<>>], 0, s, T)
      BY DEF Runs
    <3> QED
      BY <2>2, <3>1
  <2>4. m - 1 \in 0..n /\ m - 1 < m /\ m \in Nat /\ m > 0
    BY <1>1, <2>2, <2>3
  <2>5. m - 1 \notin Bad
    BY <1>1, <2>1, <2>2, <2>4
  <2>6. PICK g : Runs(g, m - 1, s, T)
    BY <2>4, <2>5
  <2> DEFINE h == [i \in 0..m |-> IF i < m THEN g[i]
                     ELSE IF s[m] \in T THEN Append(g[m - 1], s[m]) ELSE g[m - 1]]
  <2>7. h = [i \in 0..m |-> h[i]] /\ h[0] = <<>>
    BY <2>4, <2>6 DEF Runs
  <2>8. ASSUME NEW i \in 1..m
        PROVE  h[i] = IF s[i] \in T THEN Append(h[i - 1], s[i]) ELSE h[i - 1]
    <3>1. h[i - 1] = g[i - 1]
      BY <2>4
    <3>2. CASE i = m
      BY <2>4, <3>1, <3>2
    <3>3. CASE i # m
      <4>1. i \in 1..(m - 1) /\ h[i] = g[i]
        BY <2>4, <3>3
      <4> HIDE DEF h
      <4> QED
        BY <2>6, <3>1, <4>1 DEF Runs
    <3> QED
      BY <3>2, <3>3
  <2> HIDE DEF h
  <2>9. Runs(h, m, s, T)
    BY <2>7, <2>8 DEF Runs
  <2> QED
    BY <2>2, <2>9
<1>3. n \notin Bad
  BY <1>2
<1> QED
  BY <1>1, <1>3

LEMMA KeptRuns ==
  ASSUME NEW S, NEW s \in Seq(S), NEW T
  PROVE  \E g : Runs(g, Len(s), s, T) /\ Kept(s, T) = g[Len(s)]
<1> DEFINE step(f) == [i \in 0..Len(s) |->
             IF i = 0 THEN <<>>
             ELSE IF s[i] \in T THEN Append(f[i - 1], s[i]) ELSE f[i - 1]]
           kept == CHOOSE f : f = step(f)
<1>1. Kept(s, T) = kept[Len(s)]
  BY DEF Kept
<1>2. Len(s) \in Nat
  OBVIOUS
<1>3. PICK g : Runs(g, Len(s), s, T)
  BY <1>2, RunsExist
<1>4. g = step(g)
  <2>1. g = [i \in 0..Len(s) |-> g[i]]
    BY <1>3 DEF Runs
  <2>2. ASSUME NEW i \in 0..Len(s)
        PROVE  g[i] = IF i = 0 THEN <<>>
                      ELSE IF s[i] \in T THEN Append(g[i - 1], s[i]) ELSE g[i - 1]
    BY <1>2, <1>3, <2>2 DEF Runs
  <2> QED
    BY <2>1, <2>2
<1> HIDE DEF step
<1>5. kept = step(kept)
  BY <1>4, Zenon
<1> HIDE DEF kept
<1>6. Runs(kept, Len(s), s, T)
  <2>1. kept = [i \in 0..Len(s) |->
             IF i = 0 THEN <<>>
             ELSE IF s[i] \in T THEN Append(kept[i - 1], s[i]) ELSE kept[i - 1]]
    BY <1>5 DEF step
  <2>2. \A i \in 0..Len(s) : kept[i] = IF i = 0 THEN <<>>
             ELSE IF s[i] \in T THEN Append(kept[i - 1], s[i]) ELSE kept[i - 1]
    BY <2>1
  <2>3. kept = [i \in 0..Len(s) |-> kept[i]]
    BY <2>1, <2>2
  <2>4. kept[0] = <<>>
    BY <1>2, <2>2
  <2>5. ASSUME NEW i \in 1..Len(s)
        PROVE  kept[i] = IF s[i] \in T THEN Append(kept[i - 1], s[i]) ELSE kept[i - 1]
    BY <1>2, <2>2, <2>5
  <2> QED
    BY <2>3, <2>4, <2>5 DEF Runs
<1> QED
  BY <1>1, <1>6

\* A list comprehension yields a list of the same type that is no longer.
LEMMA KeptTyped ==
  ASSUME NEW S, NEW s \in Seq(S), NEW T
  PROVE  Kept(s, T) \in Seq(S) /\ Len(Kept(s, T)) <= Len(s)
<1>1. PICK g : Runs(g, Len(s), s, T) /\ Kept(s, T) = g[Len(s)]
  BY KeptRuns
<1>2. Len(s) \in Nat /\ Len(s) \in 0..Len(s)
  OBVIOUS
<1>3. g[Len(s)] \in Seq(S) /\ Len(g[Len(s)]) <= Len(s)
  BY <1>1, <1>2, RunsTyped
<1> QED
  BY <1>1, <1>3

LEMMA TrimTyped ==
  ASSUME NEW S, NEW s \in Seq(S)
  PROVE  /\ Trim(s) \in Seq(S) /\ Len(Trim(s)) <= MaxRecent
         /\ Len(s) <= MaxRecent => Trim(s) = s
<1>1. MaxRecent \in Nat /\ Len(s) \in Nat
  BY GithubAssumption
<1>2. CASE Len(s) > MaxRecent
  <2> DEFINE m == Len(s) - MaxRecent + 1
  <2>1. m \in 1..(Len(s) + 1) /\ Len(s) - m + 1 = MaxRecent
    BY <1>1, <1>2
  <2>2. SubSeq(s, m, Len(s)) \in Seq(S) /\ Len(SubSeq(s, m, Len(s))) = MaxRecent
    BY <1>1, <2>1
  <2> QED
    BY <1>1, <1>2, <2>2 DEF Trim
<1>3. CASE Len(s) <= MaxRecent
  BY <1>1, <1>3 DEF Trim
<1> QED
  BY <1>1, <1>2, <1>3

LEMMA RemoveAtIs ==
  ASSUME NEW S, NEW s \in Seq(S), NEW i \in DOMAIN s
  PROVE  /\ RemoveAt(s, i) \in Seq(S) /\ Len(RemoveAt(s, i)) = Len(s) - 1
         /\ \A j \in 1..(Len(s) - 1) : RemoveAt(s, i)[j] = s[IF j < i THEN j ELSE j + 1]
<1>1. Len(s) \in Nat /\ i \in 1..Len(s)
  OBVIOUS
<1> DEFINE a == SubSeq(s, 1, i - 1)
           b == SubSeq(s, i + 1, Len(s))
<1>2. /\ a \in Seq(S) /\ Len(a) = i - 1 /\ \A j \in 1..(i - 1) : a[j] = s[j]
  BY <1>1
<1>3. /\ b \in Seq(S) /\ Len(b) = Len(s) - i
      /\ \A j \in 1..(Len(s) - i) : b[j] = s[i + j]
  BY <1>1
<1> HIDE DEF a, b
<1>4. /\ a \o b \in Seq(S) /\ Len(a \o b) = Len(s) - 1
      /\ \A j \in 1..(Len(s) - 1) : (a \o b)[j] = IF j <= i - 1 THEN a[j] ELSE b[j - (i - 1)]
  BY <1>1, <1>2, <1>3
<1>5. ASSUME NEW j \in 1..(Len(s) - 1)
      PROVE  (a \o b)[j] = s[IF j < i THEN j ELSE j + 1]
  <2>1. CASE j < i
    BY <1>1, <1>2, <1>4, <2>1
  <2>2. CASE ~ (j < i)
    <3>1. j - (i - 1) \in 1..(Len(s) - i) /\ i + (j - (i - 1)) = j + 1 /\ ~ (j <= i - 1)
      BY <1>1, <2>2
    <3> QED
      BY <1>3, <1>4, <2>2, <3>1
  <2> QED
    BY <2>1, <2>2
<1> QED
  BY <1>4, <1>5 DEF RemoveAt, a, b

LEMMA AppendIs ==
  ASSUME NEW S, NEW s \in Seq(S), NEW e \in S
  PROVE  /\ Append(s, e) \in Seq(S) /\ Len(Append(s, e)) = Len(s) + 1
         /\ DOMAIN Append(s, e) = 1..(Len(s) + 1) /\ DOMAIN s = 1..Len(s)
         /\ \A i \in DOMAIN s : i \in DOMAIN Append(s, e) /\ Append(s, e)[i] = s[i]
         /\ Append(s, e)[Len(s) + 1] = e
         /\ \A i \in DOMAIN Append(s, e) : i \in DOMAIN s \/ i = Len(s) + 1
OBVIOUS

LEMMA ExceptIs ==
  ASSUME NEW S, NEW s \in Seq(S), NEW n \in DOMAIN s, NEW e \in S, NEW new,
         new = [s EXCEPT ![n] = e]
  PROVE  /\ new \in Seq(S) /\ Len(new) = Len(s) /\ DOMAIN new = DOMAIN s
         /\ new[n] = e /\ \A i \in DOMAIN s \ {n} : new[i] = s[i]
BY ExceptSeq

(***************************************************************************)
(* Types                                                                   *)
(***************************************************************************)

IssueType == [fingerprint : Fingerprints, by : Instances, open : BOOLEAN,
              count : Nat, recurred : Nat, comments : Nat, diagnosed : BOOLEAN,
              labelled : BOOLEAN, blind : BOOLEAN, noted : BOOLEAN, apart : BOOLEAN,
              undisturbed : BOOLEAN]
SendType == [ts : 0 .. MaxClock, finding : Findings, issue : Numbers]
FilingType == [fingerprint : Fingerprints, issue : Numbers]
FrameType == [at : {"idle", "search", "readback", "get", "pop", "comment", "bump",
                    "create", "remember", "label"},
              finding : Findings, diagnosed : BOOLEAN, begun : 0 .. MaxClock,
              blind : BOOLEAN, target : Nat, count : Nat, fresh : BOOLEAN]

TrackerOK == /\ issues \in Seq(IssueType)
             /\ index \in [Numbers -> [open : BOOLEAN, count : Nat]]
RecentOK == /\ recent \in [Instances -> Seq(SendType)]
            /\ \A p \in Instances : Len(recent[p]) <= MaxRecent
FiledOK == /\ filed \in [Instances -> Seq(FilingType)]
           /\ \A p \in Instances : Len(filed[p]) <= MaxRecent
CallOK == home \in [Threads -> Instances] /\ call \in [Threads -> FrameType]
RestOK == /\ lastError \in [Instances -> BOOLEAN]
          /\ clock \in 0 .. MaxClock /\ sends \in 0 .. MaxSends /\ faults \in 0 .. MaxFaults
          /\ crossed \subseteq Threads

LEMMA TypeParts == TypeOK <=> TrackerOK /\ RecentOK /\ FiledOK /\ CallOK /\ RestOK
BY Zenon DEF TypeOK, TrackerOK, RecentOK, FiledOK, CallOK, RestOK, IssueType, SendType,
             FilingType, FrameType

\* A call that speaks of an issue speaks of one there is.
Aiming == {"get", "comment", "bump", "remember", "label"}
TargetInv == \A t \in Threads : call[t].at \in Aiming => call[t].target \in Numbers

Typed == TrackerOK /\ RecentOK /\ FiledOK /\ CallOK /\ RestOK /\ TargetInv

LEMMA Bounds ==
  /\ MaxRecent \in Nat /\ MaxRecent > 0 /\ Window \in Nat
  /\ MaxSends \in Nat /\ MaxClock \in Nat /\ MaxFaults \in Nat
  /\ AutoFix \in BOOLEAN
BY GithubAssumption

LEMMA IdleFrame ==
  /\ Idle \in FrameType /\ Idle.at = "idle" /\ Idle.blind = FALSE
  /\ Idle.target = 0 /\ Idle.count = 0
<1>1. (CHOOSE f \in Findings : TRUE) \in Findings
  BY GithubAssumption
<1>2. 0 \in 0 .. MaxClock
  BY Bounds
<1> QED
  BY <1>1, <1>2 DEF Idle, FrameType

LEMMA FingerprintIn == ASSUME NEW f \in Findings PROVE FingerprintOf[f] \in Fingerprints
BY DEF Fingerprints

LEMMA InitTyped == Init => Typed
<1> SUFFICES ASSUME Init PROVE Typed
  OBVIOUS
<1>1. TrackerOK
  <2>1. Numbers = {} /\ issues = <<>> /\ index = <<>>
    BY DEF Init, Numbers
  <2> QED
    BY <2>1 DEF TrackerOK
<1>2. RecentOK /\ FiledOK
  BY Bounds DEF Init, RecentOK, FiledOK
<1>3. CallOK
  BY IdleFrame DEF Init, CallOK
<1>4. RestOK
  BY Bounds DEF Init, RestOK
<1>5. TargetInv
  BY IdleFrame DEF Init, TargetInv, Aiming
<1> QED
  BY <1>1, <1>2, <1>3, <1>4, <1>5 DEF Typed

(***************************************************************************)
(* What each step does to the tracker                                      *)
(***************************************************************************)

\* e is what a step may make of issue i: what the filing wrote is as it was, a
\* closed issue stays closed, and what its instance knows of stays known.
Follows(e, i) ==
  /\ e.fingerprint = i.fingerprint /\ e.by = i.by /\ e.blind = i.blind
  /\ e.open => i.open
  /\ i.noted => e.noted

\* What its instance knows of it is as it was.
Marked(e, i) == e.noted = i.noted /\ e.apart = i.apart

\* The issue that Create files.
NewIssue(t) ==
  [fingerprint |-> FingerprintOf[call[t].finding], by |-> home[t], open |-> TRUE,
   count |-> 1, recurred |-> 0, comments |-> 0, diagnosed |-> call[t].diagnosed,
   labelled |-> FALSE, blind |-> call[t].blind, noted |-> FALSE, apart |-> FALSE,
   undisturbed |-> TRUE]

LEMMA TrackerDomain ==
  ASSUME TrackerOK
  PROVE  /\ Numbers = 1..Len(issues) /\ Len(issues) \in Nat
         /\ \A n \in Numbers : issues[n] \in IssueType
         /\ index \in Seq([open : BOOLEAN, count : Nat]) /\ Len(index) = Len(issues)
<1>1. Numbers = 1..Len(issues) /\ Len(issues) \in Nat
  BY DEF TrackerOK, Numbers
<1>2. \A n \in Numbers : issues[n] \in IssueType
  BY DEF TrackerOK, Numbers
<1>3. index \in [1..Len(issues) -> [open : BOOLEAN, count : Nat]]
  BY <1>1 DEF TrackerOK
<1>4. index \in Seq([open : BOOLEAN, count : Nat])
  BY <1>1, <1>3, SeqDef, Zenon
<1>5. DOMAIN index = 1..Len(issues)
  BY <1>3
<1>6. Len(index) = Len(issues)
  BY <1>1, <1>4, <1>5, LenProperties
<1> QED
  BY <1>1, <1>2, <1>4, <1>6

LEMMA NewIssueType ==
  ASSUME CallOK, NEW t \in Threads
  PROVE  NewIssue(t) \in IssueType
<1>1. /\ call[t].finding \in Findings /\ call[t].diagnosed \in BOOLEAN
      /\ call[t].blind \in BOOLEAN /\ home[t] \in Instances
  BY DEF CallOK, FrameType
<1>2. FingerprintOf[call[t].finding] \in Fingerprints
  BY <1>1, FingerprintIn
<1> QED
  BY <1>1, <1>2 DEF NewIssue, IssueType

\* Issue n becomes e.
Patched(n, e) == n \in Numbers /\ e \in IssueType /\ issues' = [issues EXCEPT ![n] = e]

LEMMA PatchedIs ==
  ASSUME TrackerOK, NEW n, NEW e, Patched(n, e)
  PROVE  /\ issues' \in Seq(IssueType) /\ Len(issues') = Len(issues) /\ Numbers' = Numbers
         /\ issues'[n] = e /\ \A i \in Numbers \ {n} : issues'[i] = issues[i]
BY ExceptIs DEF Patched, Numbers, TrackerOK

LEMMA FiledNew ==
  ASSUME TrackerOK, NEW e \in IssueType, issues' = Append(issues, e)
  PROVE  /\ issues' \in Seq(IssueType) /\ Len(issues') = Len(issues) + 1
         /\ Numbers' = Numbers \cup {Len(issues) + 1} /\ Numbers \subseteq Numbers'
         /\ issues'[Len(issues) + 1] = e /\ \A i \in Numbers : issues'[i] = issues[i]
<1>1. issues \in Seq(IssueType)
  BY DEF TrackerOK
<1> QED
  BY <1>1, AppendIs DEF Numbers

LEMMA CommentStep ==
  ASSUME TrackerOK, TargetInv, CallOK, NEW t \in Threads, PostRecurrence(t)
  PROVE  /\ call[t].target \in Numbers /\ call[t].at = "comment"
         /\ call' = [call EXCEPT ![t].at = "bump"]
         /\ \/ /\ Carried
               /\ \E e \in IssueType :
                    /\ Patched(call[t].target, e) /\ Follows(e, issues[call[t].target])
                    /\ Marked(e, issues[call[t].target])
                    /\ e = [issues[call[t].target] EXCEPT !.comments = @ + 1]
            \/ issues' = issues /\ Fault
<1> DEFINE n == call[t].target
           e == [issues[n] EXCEPT !.comments = @ + 1]
<1>1. call[t].at = "comment" /\ n \in Numbers /\ call' = [call EXCEPT ![t].at = "bump"]
  BY DEF PostRecurrence, At, TargetInv, Aiming
<1>2. issues[n] \in IssueType
  BY <1>1, TrackerDomain
<1>3. e \in IssueType /\ Follows(e, issues[n]) /\ Marked(e, issues[n])
  BY <1>2 DEF IssueType, Follows, Marked
<1>4. CASE Carried /\ issues' = [issues EXCEPT ![n].comments = @ + 1]
  <2>1. issues' = [issues EXCEPT ![n] = e]
    BY <1>4
  <2>2. Patched(n, e)
    BY <1>1, <1>3, <2>1 DEF Patched
  <2> QED
    BY <1>1, <1>3, <1>4, <2>2
<1>5. CASE Fault /\ UNCHANGED issues
  BY <1>1, <1>5
<1> QED
  BY <1>4, <1>5, Zenon DEF PostRecurrence

\* No other call is under way.
Lonely(t) == \A u \in Threads \ {t} : At(u, "idle")

LEMMA BumpStep ==
  ASSUME TrackerOK, TargetInv, CallOK, NEW t \in Threads, BumpOccurrences(t)
  PROVE  LET n == call[t].target
             i == issues[n]
         IN  /\ n \in Numbers /\ call[t].at = "bump" /\ Return(t)
             /\ \E e \in IssueType :
                  /\ Patched(n, e) /\ Follows(e, i) /\ Marked(e, i)
                  /\ e.recurred = i.recurred + 1 /\ e.comments = i.comments
                  /\ \/ /\ Carried /\ e.count = call[t].count + 1
                        /\ e.undisturbed = (i.undisturbed /\ Lonely(t) /\ call[t].fresh)
                     \/ Fault /\ e.count = i.count /\ e.undisturbed = FALSE
<1> DEFINE n == call[t].target
           i == issues[n]
           still == i.undisturbed /\ Lonely(t) /\ call[t].fresh
           a == [i EXCEPT !.count = call[t].count + 1, !.recurred = @ + 1, !.undisturbed = still]
           b == [i EXCEPT !.recurred = @ + 1, !.undisturbed = FALSE]
<1>1. call[t].at = "bump" /\ n \in Numbers /\ Return(t)
  BY DEF BumpOccurrences, At, TargetInv, Aiming
<1>2. i \in IssueType
  BY <1>1, TrackerDomain
<1>3. call[t].count \in Nat /\ still \in BOOLEAN
  BY DEF CallOK, FrameType
<1>4. CASE Carried /\ issues' = [issues EXCEPT ![n].count = call[t].count + 1,
                                  ![n].recurred = @ + 1, ![n].undisturbed = still]
  <2>1. issues' = [issues EXCEPT ![n] = a]
    BY <1>1, <1>2, <1>4 DEF IssueType, TrackerOK, Numbers
  <2> HIDE DEF still
  <2>2. /\ a \in IssueType /\ Follows(a, i) /\ Marked(a, i)
        /\ a.recurred = i.recurred + 1 /\ a.comments = i.comments
        /\ a.count = call[t].count + 1 /\ a.undisturbed = still
    <3>1. call[t].count + 1 \in Nat /\ i.recurred + 1 \in Nat
      BY <1>2, <1>3 DEF IssueType
    <3>2. a \in IssueType
      BY <1>2, <1>3, <3>1 DEF IssueType
    <3>3. Follows(a, i) /\ Marked(a, i) /\ a.comments = i.comments
      BY <1>2 DEF IssueType, Follows, Marked
    <3>4. a.recurred = i.recurred + 1 /\ a.count = call[t].count + 1 /\ a.undisturbed = still
      BY <1>2 DEF IssueType
    <3> QED
      BY <3>2, <3>3, <3>4
  <2>3. Patched(n, a)
    BY <1>1, <2>1, <2>2 DEF Patched
  <2> HIDE DEF a
  <2> QED
    BY <1>1, <1>4, <2>2, <2>3, Zenon DEF still
<1>5. CASE Fault /\ issues' = [issues EXCEPT ![n].recurred = @ + 1, ![n].undisturbed = FALSE]
  <2>1. issues' = [issues EXCEPT ![n] = b]
    BY <1>1, <1>2, <1>5 DEF IssueType, TrackerOK, Numbers
  <2>2. /\ b \in IssueType /\ Follows(b, i) /\ Marked(b, i)
        /\ b.recurred = i.recurred + 1 /\ b.comments = i.comments
        /\ b.count = i.count /\ b.undisturbed = FALSE
    <3>1. i.recurred + 1 \in Nat
      BY <1>2 DEF IssueType
    <3>2. b \in IssueType
      BY <1>2, <3>1 DEF IssueType
    <3>3. Follows(b, i) /\ Marked(b, i) /\ b.comments = i.comments /\ b.count = i.count
      BY <1>2 DEF IssueType, Follows, Marked
    <3>4. b.recurred = i.recurred + 1 /\ b.undisturbed = FALSE
      BY <1>2 DEF IssueType
    <3> QED
      BY <3>2, <3>3, <3>4
  <2>3. Patched(n, b)
    BY <1>1, <2>1, <2>2 DEF Patched
  <2> HIDE DEF b
  <2> QED
    BY <1>1, <1>5, <2>2, <2>3, Zenon
<1> QED
  BY <1>4, <1>5, Zenon DEF BumpOccurrences, Lonely

LEMMA LabelStep ==
  ASSUME TrackerOK, TargetInv, CallOK, NEW t \in Threads, AddLabel(t)
  PROVE  /\ call[t].target \in Numbers /\ call[t].at = "label" /\ Return(t)
         /\ \/ /\ Carried
               /\ \E e \in IssueType :
                    /\ Patched(call[t].target, e) /\ Follows(e, issues[call[t].target])
                    /\ Marked(e, issues[call[t].target])
                    /\ e = [issues[call[t].target] EXCEPT !.labelled = TRUE]
            \/ issues' = issues /\ Fault
<1> DEFINE n == call[t].target
           e == [issues[n] EXCEPT !.labelled = TRUE]
<1>1. call[t].at = "label" /\ n \in Numbers /\ Return(t)
  BY DEF AddLabel, At, TargetInv, Aiming
<1>2. issues[n] \in IssueType
  BY <1>1, TrackerDomain
<1>3. e \in IssueType /\ Follows(e, issues[n]) /\ Marked(e, issues[n])
  BY <1>2 DEF IssueType, Follows, Marked
<1>4. CASE Carried /\ issues' = [issues EXCEPT ![n].labelled = TRUE]
  <2>1. issues' = [issues EXCEPT ![n] = e]
    BY <1>4
  <2>2. Patched(n, e)
    BY <1>1, <1>3, <2>1 DEF Patched
  <2> QED
    BY <1>1, <1>3, <1>4, <2>2
<1>5. CASE Fault /\ UNCHANGED issues
  BY <1>1, <1>5
<1> QED
  BY <1>4, <1>5, Zenon DEF AddLabel

LEMMA CloseStep ==
  ASSUME TrackerOK, NEW n \in Numbers, Close(n)
  PROVE  \E e \in IssueType :
           /\ Patched(n, e) /\ Follows(e, issues[n]) /\ Marked(e, issues[n])
           /\ e = [issues[n] EXCEPT !.open = FALSE]
<1> DEFINE e == [issues[n] EXCEPT !.open = FALSE]
<1>1. issues[n] \in IssueType
  BY TrackerDomain
<1>2. e \in IssueType /\ Follows(e, issues[n]) /\ Marked(e, issues[n])
  BY <1>1 DEF IssueType, Follows, Marked
<1>3. issues' = [issues EXCEPT ![n] = e]
  BY DEF Close
<1>4. Patched(n, e)
  BY <1>2, <1>3 DEF Patched
<1> QED
  BY <1>2, <1>4

LEMMA CreateStep ==
  ASSUME TrackerOK, CallOK, NEW t \in Threads, Create(t)
  PROVE  /\ call[t].at = "create"
         /\ \/ /\ faults' = faults
               /\ issues' = Append(issues, NewIssue(t)) /\ index' = Append(index, Unindexed)
               /\ call' = [call EXCEPT ![t].at = "remember", ![t].target = Len(issues) + 1]
               /\ lastError' = lastError /\ crossed' = crossed
            \/ /\ Fault
               /\ \/ issues' = issues /\ index' = index
                  \/ issues' = Append(issues, NewIssue(t)) /\ index' = Append(index, Unindexed)
               /\ lastError' = [lastError EXCEPT ![home[t]] = TRUE]
               /\ Return(t)
         /\ UNCHANGED <<home, recent, filed, clock, sends>>
BY Zenon DEF Create, At, NewIssue, NoFault

LEMMA RememberStep ==
  ASSUME TrackerOK, TargetInv, CallOK, NEW t \in Threads, Remember(t)
  PROVE  LET n == call[t].target
             i == issues[n]
         IN  /\ n \in Numbers /\ call[t].at = "remember"
             /\ RememberSend(t, n)
             /\ RememberFiled(home[t], FingerprintOf[call[t].finding], n)
             /\ \/ call' = [call EXCEPT ![t].at = "label"] /\ crossed' = crossed
                \/ Return(t)
             /\ \E e \in IssueType :
                  /\ Patched(n, e) /\ Follows(e, i)
                  /\ e = [i EXCEPT !.noted = TRUE, !.apart = (t \notin crossed)]
<1> DEFINE n == call[t].target
           i == issues[n]
           apart == t \notin crossed
           e == [i EXCEPT !.noted = TRUE, !.apart = apart]
<1>1. call[t].at = "remember" /\ n \in Numbers
  BY DEF Remember, At, TargetInv, Aiming
<1>2. i \in IssueType
  BY <1>1, TrackerDomain
<1>3. issues' = [issues EXCEPT ![n] = e]
  BY <1>1, <1>2 DEF Remember, IssueType, TrackerOK, Numbers
<1>4. apart \in BOOLEAN
  OBVIOUS
<1> HIDE DEF apart
<1>5. e \in IssueType /\ Follows(e, i)
  BY <1>2, <1>4 DEF IssueType, Follows
<1>6. Patched(n, e)
  BY <1>1, <1>3, <1>5 DEF Patched
<1>7. /\ RememberSend(t, n)
      /\ RememberFiled(home[t], FingerprintOf[call[t].finding], n)
      /\ \/ call' = [call EXCEPT ![t].at = "label"] /\ crossed' = crossed
         \/ Return(t)
  BY Zenon DEF Remember
<1> QED
  BY <1>1, <1>5, <1>6, <1>7, Zenon DEF apart

(***************************************************************************)
(* Each part of the types is kept                                          *)
(***************************************************************************)

LEMMA FollowsItself == ASSUME NEW i PROVE Follows(i, i)
BY DEF Follows

LEMMA PatchFollows ==
  ASSUME TrackerOK, NEW n, NEW e, Patched(n, e), Follows(e, issues[n]), index' = index
  PROVE  /\ TrackerOK' /\ Len(issues') = Len(issues) /\ Numbers' = Numbers
         /\ \A i \in Numbers : Follows(issues'[i], issues[i])
<1>1. /\ issues' \in Seq(IssueType) /\ Len(issues') = Len(issues) /\ Numbers' = Numbers
      /\ issues'[n] = e /\ \A i \in Numbers \ {n} : issues'[i] = issues[i]
  BY PatchedIs
<1>2. index \in [Numbers -> [open : BOOLEAN, count : Nat]]
  BY DEF TrackerOK
<1>3. TrackerOK'
  BY <1>1, <1>2 DEF TrackerOK
<1>4. \A i \in Numbers : Follows(issues'[i], issues[i])
  BY <1>1, FollowsItself
<1> QED
  BY <1>1, <1>3, <1>4

LEMMA AppendFollows ==
  ASSUME TrackerOK, NEW e \in IssueType, issues' = Append(issues, e),
         index' = Append(index, Unindexed)
  PROVE  /\ TrackerOK' /\ Len(issues) <= Len(issues') /\ Numbers \subseteq Numbers'
         /\ \A i \in Numbers : Follows(issues'[i], issues[i])
<1>1. /\ issues' \in Seq(IssueType) /\ Len(issues') = Len(issues) + 1
      /\ Numbers' = Numbers \cup {Len(issues) + 1} /\ Numbers \subseteq Numbers'
      /\ \A i \in Numbers : issues'[i] = issues[i]
  BY FiledNew
<1>2. /\ index \in Seq([open : BOOLEAN, count : Nat]) /\ Len(index) = Len(issues)
      /\ Numbers = 1..Len(issues) /\ Len(issues) \in Nat
  BY TrackerDomain
<1>3. Unindexed \in [open : BOOLEAN, count : Nat]
  BY DEF Unindexed
<1>4. /\ index' \in Seq([open : BOOLEAN, count : Nat]) /\ Len(index') = Len(index) + 1
  BY <1>2, <1>3, AppendIs
<1>5. index' \in [1..(Len(issues) + 1) -> [open : BOOLEAN, count : Nat]]
  BY <1>2, <1>4, LenProperties
<1>6. Numbers' = 1..(Len(issues) + 1)
  BY <1>1 DEF Numbers
<1>7. TrackerOK'
  BY <1>1, <1>5, <1>6 DEF TrackerOK
<1>8. \A i \in Numbers : Follows(issues'[i], issues[i])
  BY <1>1, FollowsItself
<1> QED
  BY <1>1, <1>2, <1>7, <1>8

\* The steps that look or begin: nothing changes in the tracker.
Looking(t) == \/ \E f \in Findings : Collapse(t, f) \/ Begin(t, f)
              \/ Search(t) \/ ReadBack(t) \/ GetIssue(t) \/ ForgetFiled(t)

LEMMA LookingQuiet ==
  ASSUME NEW t \in Threads, Looking(t)
  PROVE  issues' = issues /\ index' = index /\ home' = home /\ clock' = clock
BY Zenon DEF Looking, Collapse, Begin, Search, ReadBack, GetIssue, ForgetFiled

LEMMA StepTracker ==
  ASSUME TrackerOK, CallOK, TargetInv, [Next]_vars
  PROVE  /\ TrackerOK' /\ Len(issues) <= Len(issues') /\ Numbers \subseteq Numbers'
         /\ \A n \in Numbers : Follows(issues'[n], issues[n])
<1> DEFINE Goal == /\ TrackerOK' /\ Len(issues) <= Len(issues') /\ Numbers \subseteq Numbers'
                   /\ \A n \in Numbers : Follows(issues'[n], issues[n])
<1>1. Len(issues) \in Nat
  BY TrackerDomain
<1>2. ASSUME issues' = issues, index' = index PROVE Goal
  BY <1>1, <1>2, FollowsItself DEF TrackerOK, Numbers
<1>3. ASSUME NEW n \in Numbers, Reindex(n) PROVE Goal
  <2>1. issues[n] \in IssueType
    BY TrackerDomain
  <2>2. [open |-> issues[n].open, count |-> issues[n].count] \in [open : BOOLEAN, count : Nat]
    BY <2>1 DEF IssueType
  <2>3. issues' = issues /\ index' = [index EXCEPT ![n] = [open |-> issues[n].open, count |-> issues[n].count]]
    BY <1>3 DEF Reindex
  <2>4. index' \in [Numbers -> [open : BOOLEAN, count : Nat]]
    BY <2>2, <2>3 DEF TrackerOK
  <2>5. TrackerOK'
    BY <2>3, <2>4 DEF TrackerOK, Numbers
  <2> QED
    BY <1>1, <2>3, <2>5, FollowsItself DEF Numbers
<1>4. ASSUME NEW n, NEW e, Patched(n, e), Follows(e, issues[n]), index' = index PROVE Goal
  BY <1>1, <1>4, PatchFollows
<1>5. ASSUME NEW e \in IssueType, issues' = Append(issues, e), index' = Append(index, Unindexed)
      PROVE  Goal
  BY <1>5, AppendFollows
<1>6. ASSUME NEW n \in Numbers, Close(n) PROVE Goal
  BY <1>4, <1>6, CloseStep, Zenon DEF Close
<1>7. ASSUME NEW t \in Threads, PostRecurrence(t) PROVE Goal
  <2>1. index' = index
    BY <1>7 DEF PostRecurrence
  <2> HIDE DEF Goal
  <2> QED
    BY <1>2, <1>4, <1>7, <2>1, CommentStep, Zenon
<1>8. ASSUME NEW t \in Threads, BumpOccurrences(t) PROVE Goal
  <2>1. index' = index
    BY <1>8 DEF BumpOccurrences
  <2> HIDE DEF Goal
  <2> QED
    BY <1>4, <1>8, <2>1, BumpStep, Zenon
<1>9. ASSUME NEW t \in Threads, AddLabel(t) PROVE Goal
  <2>1. index' = index
    BY <1>9 DEF AddLabel
  <2> HIDE DEF Goal
  <2> QED
    BY <1>2, <1>4, <1>9, <2>1, LabelStep, Zenon
<1>10. ASSUME NEW t \in Threads, Create(t) PROVE Goal
  <2>1. \/ issues' = issues /\ index' = index
        \/ issues' = Append(issues, NewIssue(t)) /\ index' = Append(index, Unindexed)
    BY <1>10, CreateStep, Zenon
  <2> HIDE DEF Goal
  <2> QED
    BY <1>2, <1>5, <2>1, NewIssueType, Zenon
<1>11. ASSUME NEW t \in Threads, Looking(t) PROVE issues' = issues /\ index' = index
  BY <1>11, LookingQuiet
<1>14. ASSUME NEW t \in Threads, Remember(t) PROVE Goal
  <2>1. index' = index
    BY <1>14 DEF Remember
  <2> HIDE DEF Goal
  <2> QED
    BY <1>4, <1>14, <2>1, RememberStep, Zenon
<1>12. ASSUME Tick \/ UNCHANGED vars PROVE issues' = issues /\ index' = index
  BY <1>12 DEF Tick, vars
<1> HIDE DEF Goal
<1>13. Goal
  BY <1>2, <1>3, <1>6, <1>7, <1>8, <1>9, <1>10, <1>11, <1>12, <1>14, Zenon
     DEF Next, Step, Looking
<1> QED
  BY <1>13 DEF Goal

LEMMA StepRest == RestOK /\ CallOK /\ [Next]_vars => RestOK'
<1> SUFFICES ASSUME RestOK, CallOK, [Next]_vars PROVE RestOK'
  OBVIOUS
<1> DEFINE Counters == /\ clock' \in 0 .. MaxClock /\ sends' \in 0 .. MaxSends
                       /\ faults' \in 0 .. MaxFaults
<1>1. ASSUME \/ sends' = sends \/ (sends < MaxSends /\ sends' = sends + 1),
             \/ clock' = clock \/ (clock < MaxClock /\ clock' = clock + 1),
             \/ faults' = faults \/ (faults < MaxFaults /\ faults' = faults + 1)
      PROVE  Counters
  BY <1>1, Bounds DEF RestOK
<1>2. /\ \/ sends' = sends \/ (sends < MaxSends /\ sends' = sends + 1)
      /\ \/ clock' = clock \/ (clock < MaxClock /\ clock' = clock + 1)
      /\ \/ faults' = faults \/ (faults < MaxFaults /\ faults' = faults + 1)
  BY Zenon DEF Next, Step, vars, Tick, Collapse, Begin, Search, ReadBack, GetIssue, ForgetFiled,
     PostRecurrence, BumpOccurrences, Create, Remember, AddLabel, Reindex, Close, Fault, NoFault,
     Carried
<1>3. \/ lastError' = lastError
      \/ \E t \in Threads, b \in BOOLEAN : lastError' = [lastError EXCEPT ![home[t]] = b]
  BY Zenon DEF Next, Step, vars, Tick, Collapse, Begin, Search, ReadBack, GetIssue, ForgetFiled,
     PostRecurrence, BumpOccurrences, Create, Remember, AddLabel, Reindex, Close
<1>4. lastError' \in [Instances -> BOOLEAN]
  BY <1>3 DEF RestOK, CallOK
<1>5. \/ crossed' = crossed
      \/ \E t \in Threads : \/ crossed' = crossed \ {t}
                             \/ \E f : crossed' = crossed \cup Rivals(t, f) \cup {t}
  BY Zenon DEF Next, Step, vars, Tick, Collapse, Begin, Search, ReadBack, GetIssue, ForgetFiled,
     PostRecurrence, BumpOccurrences, Create, Remember, AddLabel, Reindex, Close, Return
<1>6. crossed' \subseteq Threads
  BY <1>5 DEF RestOK, Rivals
<1> QED
  BY <1>1, <1>2, <1>4, <1>6 DEF RestOK

\* The lists of an instance stay typed while the tracker grows.
LEMMA ListsGrow ==
  ASSUME Numbers \subseteq Numbers'
  PROVE  /\ Seq(SendType) \subseteq Seq(SendType')
         /\ Seq(FilingType) \subseteq Seq(FilingType')
<1>1. SendType \subseteq SendType' /\ FilingType \subseteq FilingType'
  BY DEF SendType, FilingType
<1> HIDE DEF SendType, FilingType
<1> QED
  BY <1>1, SeqMonotonic

LEMMA RememberSendType ==
  ASSUME RecentOK, CallOK, Numbers \subseteq Numbers', NEW t \in Threads, NEW n \in Numbers',
         RememberSend(t, n)
  PROVE  RecentOK'
<1> DEFINE p == home[t]
           e == [ts |-> call[t].begun, finding |-> call[t].finding, issue |-> n]
           s == Trim(Append(recent[p], e))
<1>1. /\ p \in Instances /\ call[t].begun \in 0 .. MaxClock /\ call[t].finding \in Findings
  BY DEF CallOK, FrameType
<1>2. e \in SendType'
  BY <1>1 DEF SendType
<1>3. recent \in [Instances -> Seq(SendType')] /\ \A q \in Instances : Len(recent[q]) <= MaxRecent
  <2>1. recent \in [Instances -> Seq(SendType)]
    BY DEF RecentOK
  <2>2. Seq(SendType) \subseteq Seq(SendType')
    BY ListsGrow
  <2>3. \A q \in Instances : Len(recent[q]) <= MaxRecent
    BY DEF RecentOK
  <2> HIDE DEF SendType
  <2> QED
    BY <2>1, <2>2, <2>3
<1>4. recent' = [recent EXCEPT ![p] = s]
  BY DEF RememberSend
<1>5. s \in Seq(SendType') /\ Len(s) <= MaxRecent
  <2> HIDE DEF e, p
  <2>1. Append(recent[p], e) \in Seq(SendType')
    BY <1>1, <1>2, <1>3, AppendIs
  <2> QED
    BY <2>1, TrimTyped DEF s
<1> HIDE DEF e, p, s
<1>6. recent' \in [Instances -> Seq(SendType')] /\ \A q \in Instances : Len(recent'[q]) <= MaxRecent
  BY <1>1, <1>3, <1>4, <1>5
<1> QED
  BY <1>6 DEF RecentOK

LEMMA StepRecent ==
  ASSUME RecentOK, TrackerOK, CallOK, TargetInv, [Next]_vars
  PROVE  RecentOK'
<1>1. Numbers \subseteq Numbers'
  BY StepTracker
<1>2. ASSUME recent' = recent PROVE RecentOK'
  <2>1. recent \in [Instances -> Seq(SendType)] /\ Seq(SendType) \subseteq Seq(SendType')
    BY <1>1, ListsGrow DEF RecentOK
  <2>2. recent' \in [Instances -> Seq(SendType')]
    BY <1>2, <2>1
  <2> QED
    BY <1>2, <2>2 DEF RecentOK
<1>3. ASSUME NEW t \in Threads, NEW f \in Findings, Collapse(t, f) \/ Begin(t, f) PROVE RecentOK'
  <2> DEFINE p == home[t]
  <2>1. recent' = [recent EXCEPT ![p] = RecentOf(p)] /\ issues' = issues
    BY <1>3, Zenon DEF Collapse, Begin
  <2>2. p \in Instances
    BY DEF CallOK
  <2>3. recent[p] \in Seq(SendType) /\ Len(recent[p]) <= MaxRecent
    BY <2>2 DEF RecentOK
  <2>4. RecentOf(p) \in Seq(SendType) /\ Len(RecentOf(p)) <= Len(recent[p])
    BY <2>3, KeptTyped DEF RecentOf
  <2>5. Len(RecentOf(p)) <= MaxRecent
    BY <2>3, <2>4, Bounds
  <2> DEFINE s == RecentOf(p)
  <2>6. recent' \in [Instances -> Seq(SendType)] /\ \A q \in Instances : Len(recent'[q]) <= MaxRecent
    <3>1. /\ s \in Seq(SendType) /\ Len(s) <= MaxRecent
          /\ recent' = [recent EXCEPT ![p] = s]
      BY <2>1, <2>4, <2>5
    <3>2. recent \in [Instances -> Seq(SendType)] /\ \A q \in Instances : Len(recent[q]) <= MaxRecent
      BY DEF RecentOK
    <3> HIDE DEF s, p
    <3> QED
      BY <2>2, <3>1, <3>2
  <2>7. SendType' = SendType
    BY <2>1 DEF SendType, Numbers
  <2> QED
    BY <2>6, <2>7 DEF RecentOK
<1>4. ASSUME NEW t \in Threads, BumpOccurrences(t) PROVE RecentOK'
  <2>1. call[t].target \in Numbers' /\ RememberSend(t, call[t].target)
    BY <1>1, <1>4, BumpStep, Zenon DEF BumpOccurrences
  <2> QED
    BY <1>1, <2>1, RememberSendType
<1>5. ASSUME NEW t \in Threads, Remember(t) PROVE RecentOK'
  <2>1. call[t].target \in Numbers' /\ RememberSend(t, call[t].target)
    BY <1>1, <1>5, RememberStep, Zenon
  <2> QED
    BY <1>1, <2>1, RememberSendType
<1>6. ASSUME NEW t \in Threads,
             \/ Search(t) \/ ReadBack(t) \/ GetIssue(t) \/ ForgetFiled(t)
             \/ PostRecurrence(t) \/ Create(t) \/ AddLabel(t)
      PROVE  recent' = recent
  BY <1>6, Zenon DEF Search, ReadBack, GetIssue, ForgetFiled, PostRecurrence, Create, AddLabel
<1>7. ASSUME Tick \/ UNCHANGED vars \/ \E n \in Numbers : Reindex(n) \/ Close(n) PROVE recent' = recent
  BY <1>7 DEF Tick, vars, Reindex, Close
<1> QED
  BY <1>2, <1>3, <1>4, <1>5, <1>6, <1>7, Zenon DEF Next, Step

(***************************************************************************)
(* What an instance remembers of its filings                               *)
(***************************************************************************)

\* No fingerprint is in the table twice.
Distinct(s) == \A i, j \in DOMAIN s : s[i].fingerprint = s[j].fingerprint => i = j

\* w holds every entry of s but those for fp.
HoldsRest(w, s, fp) == \A i \in DOMAIN s : s[i].fingerprint # fp => \E j \in DOMAIN w : w[j] = s[i]

\* Taking a fingerprint out leaves the other entries, in their order.
LEMMA WithoutIs ==
  ASSUME FiledOK, NEW p \in Instances, NEW fp
  PROVE  LET s == filed[p]
             w == WithoutFiled(filed[p], fp)
         IN  /\ w \in Seq(FilingType) /\ Len(w) <= Len(s)
             /\ \A j \in DOMAIN w : \E i \in DOMAIN s : w[j] = s[i]
             /\ Distinct(s) =>
                  /\ Distinct(w)
                  /\ \A j \in DOMAIN w : w[j].fingerprint # fp
                  /\ HoldsRest(w, s, fp)
<1> DEFINE s == filed[p]
           w == WithoutFiled(filed[p], fp)
           places == {i \in DOMAIN s : s[i].fingerprint = fp}
           Goal ==
             /\ w \in Seq(FilingType) /\ Len(w) <= Len(s)
             /\ \A j \in DOMAIN w : \E i \in DOMAIN s : w[j] = s[i]
             /\ Distinct(s) =>
                  /\ Distinct(w)
                  /\ \A j \in DOMAIN w : w[j].fingerprint # fp
                  /\ HoldsRest(w, s, fp)
<1>1. s \in Seq(FilingType) /\ Len(s) \in Nat /\ DOMAIN s = 1..Len(s)
  BY DEF FiledOK
<1>2. w = IF places = {} THEN s ELSE RemoveAt(s, CHOOSE i \in places : TRUE)
  BY DEF WithoutFiled
<1> HIDE DEF s, w
<1>3. CASE places = {}
  <2>1. w = s
    BY <1>2, <1>3
  <2>2. \A i \in DOMAIN s : s[i].fingerprint # fp
    BY <1>3
  <2>3. HoldsRest(w, s, fp)
    BY <2>1 DEF HoldsRest
  <2> QED
    BY <1>1, <2>1, <2>2, <2>3 DEF s, w
<1>4. CASE places # {}
  <2>1. PICK k \in places : w = RemoveAt(s, k)
    BY <1>2, <1>4, Zenon
  <2>2. k \in 1..Len(s) /\ s[k].fingerprint = fp
    BY <1>1, <2>1, Zenon
  <2>3. /\ w \in Seq(FilingType) /\ Len(w) = Len(s) - 1
        /\ \A j \in 1..(Len(s) - 1) : w[j] = s[IF j < k THEN j ELSE j + 1]
    BY <1>1, <2>1, <2>2, RemoveAtIs, Zenon
  <2>4. DOMAIN w = 1..(Len(s) - 1)
    BY <2>3
  <2> HIDE DEF places
  <2>5. ASSUME NEW j \in DOMAIN w
        PROVE  /\ (IF j < k THEN j ELSE j + 1) \in 1..Len(s)
               /\ (IF j < k THEN j ELSE j + 1) # k
    BY <1>1, <2>2, <2>4
  <2>6. ASSUME Distinct(s) PROVE Distinct(w)
    <3> SUFFICES ASSUME NEW i \in DOMAIN w, NEW j \in DOMAIN w, w[i].fingerprint = w[j].fingerprint
                 PROVE  i = j
      BY DEF Distinct
    <3>1. (IF i < k THEN i ELSE i + 1) = (IF j < k THEN j ELSE j + 1)
      BY <1>1, <2>3, <2>4, <2>5, <2>6 DEF Distinct
    <3> QED
      BY <1>1, <2>2, <2>4, <3>1
  <2>7. ASSUME Distinct(s), NEW j \in DOMAIN w PROVE w[j].fingerprint # fp
    BY <1>1, <2>2, <2>3, <2>4, <2>5, <2>7 DEF Distinct
  <2>8. ASSUME NEW i \in DOMAIN s, s[i].fingerprint # fp PROVE \E j \in DOMAIN w : w[j] = s[i]
    <3>1. i # k /\ i \in 1..Len(s)
      BY <1>1, <2>2, <2>8
    <3>2. CASE i < k
      <4>1. i \in DOMAIN w /\ w[i] = s[i]
        BY <1>1, <2>2, <2>3, <2>4, <3>1, <3>2
      <4> QED
        BY <4>1
    <3>3. CASE i > k
      <4>1. i - 1 \in DOMAIN w /\ w[i - 1] = s[i]
        BY <1>1, <2>2, <2>3, <2>4, <3>1, <3>3
      <4> QED
        BY <4>1
    <3> QED
      BY <1>1, <2>2, <3>1, <3>2, <3>3
  <2>9. HoldsRest(w, s, fp)
    BY <2>8 DEF HoldsRest
  <2>10. \A j \in DOMAIN w : \E i \in DOMAIN s : w[j] = s[i]
    BY <1>1, <2>3, <2>4, <2>5
  <2>11. Len(w) <= Len(s)
    BY <1>1, <2>3
  <2> QED
    BY <2>3, <2>6, <2>7, <2>9, <2>10, <2>11 DEF s, w
<1> QED
  BY <1>3, <1>4 DEF s, w

LEMMA FiledHereIs ==
  ASSUME FiledOK, NEW p \in Instances, NEW fp
  PROVE  /\ FiledHere(p, fp) \subseteq Numbers
         /\ \A n : n \in FiledHere(p, fp) <=>
              \E i \in DOMAIN filed[p] : filed[p][i].fingerprint = fp /\ filed[p][i].issue = n
<1>1. filed[p] \in Seq(FilingType)
  BY DEF FiledOK
<1>2. \A i \in DOMAIN filed[p] : filed[p][i] \in FilingType
  BY <1>1
<1>3. \A i \in DOMAIN filed[p] : filed[p][i].issue \in Numbers
  BY <1>2 DEF FilingType
<1>4. \A n : n \in FiledHere(p, fp) <=>
              \E i \in DOMAIN filed[p] : filed[p][i].fingerprint = fp /\ filed[p][i].issue = n
  BY DEF FiledHere, Range
<1> QED
  BY <1>3, <1>4

\* The entry that RememberFiled adds.
LEMMA RememberFiledIs ==
  ASSUME FiledOK, Numbers \subseteq Numbers', NEW p \in Instances, NEW fp \in Fingerprints,
         NEW n \in Numbers', RememberFiled(p, fp, n)
  PROVE  LET w == WithoutFiled(filed[p], fp)
             e == [fingerprint |-> fp, issue |-> n]
         IN  /\ FiledOK'
             /\ e \in FilingType' /\ w \in Seq(FilingType')
             /\ filed' = [filed EXCEPT ![p] = Trim(Append(w, e))]
<1> DEFINE w == WithoutFiled(filed[p], fp)
           e == [fingerprint |-> fp, issue |-> n]
           s == Trim(Append(w, e))
<1>1. e \in FilingType'
  BY DEF FilingType
<1>2. w \in Seq(FilingType) /\ Seq(FilingType) \subseteq Seq(FilingType')
  BY WithoutIs, ListsGrow
<1>3. filed' = [filed EXCEPT ![p] = s]
  BY DEF RememberFiled, FiledOK
<1>4. s \in Seq(FilingType') /\ Len(s) <= MaxRecent
  <2> HIDE DEF e, w
  <2>1. Append(w, e) \in Seq(FilingType')
    BY <1>1, <1>2, AppendIs
  <2> QED
    BY <2>1, TrimTyped DEF s
<1>5. filed \in [Instances -> Seq(FilingType')] /\ \A q \in Instances : Len(filed[q]) <= MaxRecent
  <2> HIDE DEF FilingType
  <2> QED
    BY <1>2 DEF FiledOK
<1>6. FiledOK'
  <2> HIDE DEF s
  <2>1. filed' \in [Instances -> Seq(FilingType')] /\ \A q \in Instances : Len(filed'[q]) <= MaxRecent
    BY <1>3, <1>4, <1>5
  <2> QED
    BY <2>1 DEF FiledOK
<1> QED
  BY <1>1, <1>2, <1>3, <1>6

LEMMA StepFiled ==
  ASSUME FiledOK, TrackerOK, CallOK, TargetInv, [Next]_vars
  PROVE  FiledOK'
<1>1. Numbers \subseteq Numbers'
  BY StepTracker
<1>2. ASSUME filed' = filed PROVE FiledOK'
  <2>1. filed \in [Instances -> Seq(FilingType)] /\ Seq(FilingType) \subseteq Seq(FilingType')
    BY <1>1, ListsGrow DEF FiledOK
  <2>2. filed' \in [Instances -> Seq(FilingType')]
    BY <1>2, <2>1
  <2> QED
    BY <1>2, <2>2 DEF FiledOK
<1>3. ASSUME NEW t \in Threads, ForgetFiled(t) PROVE FiledOK'
  <2> DEFINE p == home[t]
             w == WithoutFiled(filed[p], FingerprintOf[call[t].finding])
  <2>1. p \in Instances
    BY DEF CallOK
  <2>2. filed' = [filed EXCEPT ![p] = w]
    BY <1>3 DEF ForgetFiled, FiledOK
  <2>3. w \in Seq(FilingType) /\ Len(w) <= Len(filed[p])
    BY <2>1, WithoutIs
  <2>4. FilingType' = FilingType
    BY <1>3 DEF ForgetFiled, FilingType, Numbers
  <2>5. Len(filed[p]) <= MaxRecent /\ Len(filed[p]) \in Nat /\ Len(w) \in Nat
    BY <2>1, <2>3 DEF FiledOK
  <2>6. Len(w) <= MaxRecent
    BY <2>3, <2>5, Bounds
  <2> HIDE DEF w, p
  <2>7. filed' \in [Instances -> Seq(FilingType)] /\ \A q \in Instances : Len(filed'[q]) <= MaxRecent
    BY <2>1, <2>2, <2>3, <2>6 DEF FiledOK
  <2> QED
    BY <2>4, <2>7 DEF FiledOK
<1>4. ASSUME NEW t \in Threads, Remember(t) PROVE FiledOK'
  <2>1. /\ call[t].target \in Numbers'
        /\ RememberFiled(home[t], FingerprintOf[call[t].finding], call[t].target)
    BY <1>1, <1>4, RememberStep, Zenon
  <2>2. home[t] \in Instances /\ FingerprintOf[call[t].finding] \in Fingerprints
    BY FingerprintIn DEF CallOK, FrameType
  <2> QED
    BY <1>1, <2>1, <2>2, RememberFiledIs
<1>5. ASSUME NEW t \in Threads,
             \/ \E f \in Findings : Collapse(t, f) \/ Begin(t, f)
             \/ Search(t) \/ ReadBack(t) \/ GetIssue(t)
             \/ PostRecurrence(t) \/ BumpOccurrences(t) \/ Create(t) \/ AddLabel(t)
      PROVE  filed' = filed
  BY <1>5, Zenon DEF Collapse, Begin, Search, ReadBack, GetIssue, PostRecurrence,
                     BumpOccurrences, Create, AddLabel
<1>6. ASSUME Tick \/ UNCHANGED vars \/ \E n \in Numbers : Reindex(n) \/ Close(n) PROVE filed' = filed
  BY <1>6 DEF Tick, vars, Reindex, Close
<1> QED
  BY <1>2, <1>3, <1>4, <1>5, <1>6, Zenon DEF Next, Step

(***************************************************************************)
(* The frame of a call                                                     *)
(***************************************************************************)

\* The frame of t becomes k.
Framed(t, k) == k \in FrameType /\ call' = [call EXCEPT ![t] = k]

\* Frame k is about the same report.
Carries(k, c) == k.finding = c.finding /\ k.diagnosed = c.diagnosed

LEMMA BeginFrame ==
  ASSUME CallOK, RestOK, NEW t \in Threads, NEW f \in Findings, Begin(t, f)
  PROVE  \E k \in FrameType :
           /\ Framed(t, k) /\ k.at = "search" /\ k.blind = FALSE
           /\ k.finding = f /\ k.diagnosed = (f \in Diagnosed)
<1> DEFINE k == [Idle EXCEPT !.at = "search", !.finding = f,
                   !.diagnosed = (f \in Diagnosed), !.begun = clock]
<1>1. k \in FrameType
  <2>1. (f \in Diagnosed) \in BOOLEAN /\ clock \in 0 .. MaxClock
    BY DEF RestOK
  <2> QED
    BY <2>1, IdleFrame DEF FrameType
<1>2. /\ k.at = "search" /\ k.blind = FALSE
      /\ k.finding = f /\ k.diagnosed = (f \in Diagnosed)
  BY IdleFrame DEF FrameType
<1>3. call' = [call EXCEPT ![t] = k]
  BY Zenon DEF Begin
<1> HIDE DEF k
<1> QED
  BY <1>1, <1>2, <1>3 DEF Framed

LEMMA FoundFrame ==
  ASSUME CallOK, TrackerOK, NEW t \in Threads, NEW n \in Numbers, NEW c \in Nat, Found(t, n, c)
  PROVE  \E k \in FrameType :
           /\ Framed(t, k) /\ k.at = "comment" /\ k.target = n /\ k.count = c
           /\ k.fresh = (c = issues[n].count)
           /\ k.blind = call[t].blind /\ Carries(k, call[t])
<1> DEFINE ok == (c = issues[n].count)
           k == [call[t] EXCEPT !.at = "comment", !.target = n, !.count = c, !.fresh = ok]
<1>1. call[t] \in FrameType /\ n \in Nat /\ ok \in BOOLEAN
  BY TrackerDomain DEF CallOK
<1>2. call' = [call EXCEPT ![t] = k]
  BY DEF Found, CallOK
<1> HIDE DEF ok
<1>3. k \in FrameType
  BY <1>1 DEF FrameType
<1>4. /\ k.at = "comment" /\ k.target = n /\ k.count = c /\ k.fresh = ok
      /\ k.blind = call[t].blind /\ Carries(k, call[t])
  BY <1>1 DEF FrameType, Carries
<1> HIDE DEF k
<1> QED
  BY <1>2, <1>3, <1>4 DEF Framed, ok

\* Only the place of t, its blind mark and the issue it speaks of change.
Goto(t, at, blind, n) ==
  call' = [call EXCEPT ![t].at = at, ![t].blind = blind, ![t].target = n]
Places == {"readback", "get", "pop", "bump", "create", "remember", "label"}

LEMMA GotoFrame ==
  ASSUME CallOK, NEW t \in Threads, NEW at \in Places, NEW blind \in BOOLEAN, NEW n \in Nat,
         Goto(t, at, blind, n)
  PROVE  \E k \in FrameType :
           /\ Framed(t, k) /\ k.at = at /\ k.blind = blind /\ k.target = n
           /\ k.finding = call[t].finding /\ Carries(k, call[t])
           /\ k.count = call[t].count /\ k.fresh = call[t].fresh
<1> DEFINE k == [call[t] EXCEPT !.at = at, !.blind = blind, !.target = n]
<1>1. call[t] \in FrameType
  BY DEF CallOK
<1>2. call' = [call EXCEPT ![t] = k]
  BY DEF CallOK, Goto
<1>3. k \in FrameType
  BY <1>1 DEF FrameType, Places
<1>4. /\ k.at = at /\ k.blind = blind /\ k.target = n
      /\ k.finding = call[t].finding /\ Carries(k, call[t])
      /\ k.count = call[t].count /\ k.fresh = call[t].fresh
  BY <1>1 DEF FrameType, Carries
<1> HIDE DEF k
<1> QED
  BY <1>2, <1>3, <1>4 DEF Framed

\* The ways in which the steps write that.
LEMMA Moves ==
  ASSUME CallOK, NEW t \in Threads, NEW at
  PROVE  /\ call' = [call EXCEPT ![t].at = at] =>
              Goto(t, at, call[t].blind, call[t].target)
         /\ call' = [call EXCEPT ![t].at = at, ![t].blind = TRUE] =>
              Goto(t, at, TRUE, call[t].target)
         /\ \A n : call' = [call EXCEPT ![t].at = at, ![t].target = n] =>
              Goto(t, at, call[t].blind, n)
         /\ call[t].blind \in BOOLEAN /\ call[t].target \in Nat
<1>1. call[t] \in FrameType
  BY DEF CallOK
<1>2. [call[t] EXCEPT !.at = at]
        = [call[t] EXCEPT !.at = at, !.blind = call[t].blind, !.target = call[t].target]
  BY <1>1 DEF FrameType
<1>3. [call[t] EXCEPT !.at = at, !.blind = TRUE]
        = [call[t] EXCEPT !.at = at, !.blind = TRUE, !.target = call[t].target]
  BY <1>1 DEF FrameType
<1>4. \A n : [call[t] EXCEPT !.at = at, !.target = n]
        = [call[t] EXCEPT !.at = at, !.blind = call[t].blind, !.target = n]
  BY <1>1 DEF FrameType
<1>5. call[t].blind \in BOOLEAN /\ call[t].target \in Nat
  BY <1>1 DEF FrameType
<1> QED
  BY <1>2, <1>3, <1>4, <1>5 DEF Goto

\* The send goes on with issue n, whose count it read as c.
GoesOn(t, k, n, c) ==
  /\ n \in Numbers /\ k.at = "comment" /\ k.target = n /\ k.count = c
  /\ k.fresh = (c = issues[n].count)

\* The send goes on at another place; a lookup that failed leaves its mark.
Passes(t, k, at, n) ==
  /\ k.at = at /\ k.target = n
  /\ \/ k.blind = call[t].blind /\ faults' = faults
     \/ k.blind = TRUE /\ Fault

LEMMA PassOn ==
  ASSUME CallOK, NEW t \in Threads, NEW at \in Places, faults' = faults,
         call' = [call EXCEPT ![t].at = at]
  PROVE  \E k \in FrameType : /\ Framed(t, k) /\ Carries(k, call[t])
                              /\ Passes(t, k, at, call[t].target) /\ k.blind = call[t].blind
<1>1. /\ Goto(t, at, call[t].blind, call[t].target)
      /\ call[t].blind \in BOOLEAN /\ call[t].target \in Nat
  BY Moves
<1>2. PICK k \in FrameType :
        /\ Framed(t, k) /\ k.at = at /\ k.blind = call[t].blind /\ k.target = call[t].target
        /\ Carries(k, call[t])
  BY <1>1, GotoFrame
<1> QED
  BY <1>2 DEF Passes

LEMMA PassTo ==
  ASSUME CallOK, NEW t \in Threads, NEW at \in Places, faults' = faults, NEW n \in Nat,
         call' = [call EXCEPT ![t].at = at, ![t].target = n]
  PROVE  \E k \in FrameType : /\ Framed(t, k) /\ Carries(k, call[t])
                              /\ Passes(t, k, at, n) /\ k.blind = call[t].blind
<1>1. Goto(t, at, call[t].blind, n) /\ call[t].blind \in BOOLEAN
  BY Moves
<1>2. PICK k \in FrameType :
        /\ Framed(t, k) /\ k.at = at /\ k.blind = call[t].blind /\ k.target = n
        /\ Carries(k, call[t])
  BY <1>1, GotoFrame
<1> QED
  BY <1>2 DEF Passes

LEMMA MarkedFrame ==
  ASSUME CallOK, NEW t \in Threads, NEW at \in Places, NEW b \in BOOLEAN, NEW n \in Nat,
         Goto(t, at, b, n), b, Fault
  PROVE  \E k \in FrameType : /\ Framed(t, k) /\ Carries(k, call[t])
                              /\ Passes(t, k, at, n) /\ k.blind = TRUE
<1> DEFINE Lands(v) ==
             \E k \in FrameType :
               /\ Framed(t, k) /\ k.at = at /\ k.blind = v /\ k.target = n
               /\ k.finding = call[t].finding /\ Carries(k, call[t])
               /\ k.count = call[t].count /\ k.fresh = call[t].fresh
<1>0. \A v \in BOOLEAN : Goto(t, at, v, n) => Lands(v)
  BY GotoFrame
<1>1. PICK k \in FrameType :
        /\ Framed(t, k) /\ k.at = at /\ k.blind = b /\ k.target = n
        /\ Carries(k, call[t])
  BY <1>0
<1> QED
  BY <1>1 DEF Passes

LEMMA PassMarked ==
  ASSUME CallOK, NEW t \in Threads, NEW at \in Places, Fault,
         call' = [call EXCEPT ![t].at = at, ![t].blind = TRUE]
  PROVE  \E k \in FrameType : /\ Framed(t, k) /\ Carries(k, call[t])
                              /\ Passes(t, k, at, call[t].target) /\ k.blind = TRUE
<1>1. Goto(t, at, TRUE, call[t].target) /\ call[t].target \in Nat
  BY Moves
<1>2. TRUE \in BOOLEAN
  OBVIOUS
<1> QED
  BY <1>1, <1>2, MarkedFrame, Zenon

LEMMA SearchFrame ==
  ASSUME Typed, NEW t \in Threads, Search(t)
  PROVE  \E k \in FrameType :
           /\ Framed(t, k) /\ Carries(k, call[t])
           /\ \/ /\ faults' = faults /\ k.blind = call[t].blind
                 /\ \E n \in Numbers :
                      /\ GoesOn(t, k, n, index[n].count)
                      /\ issues[n].fingerprint = FingerprintOf[call[t].finding]
              \/ Passes(t, k, "readback", call[t].target)
<1> USE DEF Typed
<1>1. ASSUME NEW n \in Numbers, Found(t, n, index[n].count)
      PROVE  \E k \in FrameType : /\ Framed(t, k) /\ Carries(k, call[t])
                                  /\ k.blind = call[t].blind
                                  /\ GoesOn(t, k, n, index[n].count)
  <2>1. index[n].count \in Nat
    BY DEF TrackerOK
  <2> QED
    BY <1>1, <2>1, FoundFrame DEF GoesOn
<1>2. ASSUME call' = [call EXCEPT ![t].at = "readback"], NoFault
      PROVE  \E k \in FrameType : /\ Framed(t, k) /\ Carries(k, call[t])
                                  /\ Passes(t, k, "readback", call[t].target)
  BY <1>2, PassOn DEF Places, NoFault
<1>3. ASSUME call' = [call EXCEPT ![t].at = "readback", ![t].blind = TRUE], Fault
      PROVE  \E k \in FrameType : /\ Framed(t, k) /\ Carries(k, call[t])
                                  /\ Passes(t, k, "readback", call[t].target)
  BY <1>3, PassMarked DEF Places
<1>4. \/ NoFault /\ \E n \in Numbers : /\ Found(t, n, index[n].count)
                                       /\ issues[n].fingerprint = FingerprintOf[call[t].finding]
      \/ NoFault /\ call' = [call EXCEPT ![t].at = "readback"]
      \/ Fault /\ call' = [call EXCEPT ![t].at = "readback", ![t].blind = TRUE]
  BY DEF Search
<1> QED
  BY <1>1, <1>2, <1>3, <1>4, Zenon DEF NoFault

LEMMA ReadBackFrame ==
  ASSUME Typed, NEW t \in Threads, ReadBack(t)
  PROVE  LET here == FiledHere(home[t], FingerprintOf[call[t].finding])
         IN  /\ call[t].at = "readback" /\ here \subseteq Numbers /\ filed' = filed
             /\ \E k \in FrameType :
                  /\ Framed(t, k) /\ Carries(k, call[t])
                  /\ \/ here = {} /\ Passes(t, k, "create", call[t].target)
                     \/ \E n \in here : Passes(t, k, "get", n)
<1> USE DEF Typed
<1> DEFINE here == FiledHere(home[t], FingerprintOf[call[t].finding])
<1>1. here \subseteq Numbers
  BY FiledHereIs DEF CallOK
<1>2. \A n \in Numbers : n \in Nat
  BY TrackerDomain
<1> HIDE DEF here
<1>3. ASSUME call' = [call EXCEPT ![t].at = "create"], faults' = faults
      PROVE  \E k \in FrameType : /\ Framed(t, k) /\ Carries(k, call[t])
                                  /\ Passes(t, k, "create", call[t].target)
  BY <1>3, PassOn DEF Places
<1>4. ASSUME NEW n \in here, call' = [call EXCEPT ![t].at = "get", ![t].target = n],
             faults' = faults
      PROVE  \E k \in FrameType : /\ Framed(t, k) /\ Carries(k, call[t])
                                  /\ Passes(t, k, "get", n)
  BY <1>1, <1>2, <1>4, PassTo DEF Places
<1>5. /\ call[t].at = "readback" /\ filed' = filed /\ faults' = faults
      /\ \/ here = {} /\ call' = [call EXCEPT ![t].at = "create"]
         \/ \E n \in here : call' = [call EXCEPT ![t].at = "get", ![t].target = n]
  BY Zenon DEF ReadBack, At, here
<1> QED
  BY <1>1, <1>3, <1>4, <1>5, Zenon DEF here

LEMMA GetFrame ==
  ASSUME Typed, NEW t \in Threads, GetIssue(t)
  PROVE  LET n == call[t].target
         IN  /\ call[t].at = "get" /\ n \in Numbers /\ filed' = filed
             /\ \E k \in FrameType :
                  /\ Framed(t, k) /\ Carries(k, call[t])
                  /\ \/ /\ faults' = faults /\ k.blind = call[t].blind
                        /\ GoesOn(t, k, n, issues[n].count)
                     \/ ~issues[n].open /\ Passes(t, k, "pop", n)
                     \/ Passes(t, k, "create", n) /\ k.blind = TRUE
<1> USE DEF Typed
<1> DEFINE n == call[t].target
<1>1. call[t].at = "get" /\ n \in Numbers /\ filed' = filed
  BY DEF GetIssue, At, TargetInv, Aiming
<1>2. ASSUME Found(t, n, issues[n].count)
      PROVE  \E k \in FrameType : /\ Framed(t, k) /\ Carries(k, call[t])
                                  /\ k.blind = call[t].blind
                                  /\ GoesOn(t, k, n, issues[n].count)
  <2>1. issues[n].count \in Nat
    BY <1>1, TrackerDomain DEF IssueType
  <2> QED
    BY <1>1, <1>2, <2>1, FoundFrame DEF GoesOn
<1>3. ASSUME call' = [call EXCEPT ![t].at = "pop"], NoFault
      PROVE  \E k \in FrameType : /\ Framed(t, k) /\ Carries(k, call[t])
                                  /\ Passes(t, k, "pop", n)
  BY <1>3, PassOn DEF Places, NoFault
<1>4. ASSUME call' = [call EXCEPT ![t].at = "create", ![t].blind = TRUE], Fault
      PROVE  \E k \in FrameType : /\ Framed(t, k) /\ Carries(k, call[t])
                                  /\ Passes(t, k, "create", n) /\ k.blind = TRUE
  BY <1>4, PassMarked DEF Places
<1>5. \/ NoFault /\ Found(t, n, issues[n].count)
      \/ NoFault /\ ~issues[n].open /\ call' = [call EXCEPT ![t].at = "pop"]
      \/ Fault /\ call' = [call EXCEPT ![t].at = "create", ![t].blind = TRUE]
  BY Zenon DEF GetIssue
<1> QED
  BY <1>1, <1>2, <1>3, <1>4, <1>5, Zenon DEF NoFault

LEMMA ForgetFrame ==
  ASSUME Typed, NEW t \in Threads, ForgetFiled(t)
  PROVE  LET p == home[t]
         IN  /\ call[t].at = "pop"
             /\ filed' = [filed EXCEPT ![p] =
                            WithoutFiled(filed[p], FingerprintOf[call[t].finding])]
             /\ \E k \in FrameType :
                  /\ Framed(t, k) /\ Carries(k, call[t])
                  /\ Passes(t, k, "create", call[t].target) /\ k.blind = call[t].blind
<1> USE DEF Typed
<1>1. call[t].at = "pop" /\ faults' = faults /\ call' = [call EXCEPT ![t].at = "create"]
  BY Zenon DEF ForgetFiled, At
<1>2. \E k \in FrameType :
        /\ Framed(t, k) /\ Carries(k, call[t])
        /\ Passes(t, k, "create", call[t].target) /\ k.blind = call[t].blind
  BY <1>1, PassOn DEF Places
<1>3. filed' = [filed EXCEPT ![home[t]] =
                  WithoutFiled(filed[home[t]], FingerprintOf[call[t].finding])]
  BY DEF ForgetFiled, FiledOK, CallOK
<1> QED
  BY <1>1, <1>2, <1>3

LEMMA CommentFrame ==
  ASSUME Typed, NEW t \in Threads, PostRecurrence(t)
  PROVE  \E k \in FrameType :
           /\ Framed(t, k) /\ k.at = "bump" /\ k.blind = call[t].blind /\ Carries(k, call[t])
           /\ k.target = call[t].target /\ k.count = call[t].count /\ k.fresh = call[t].fresh
<1>1. /\ Goto(t, "bump", call[t].blind, call[t].target)
      /\ call[t].blind \in BOOLEAN /\ call[t].target \in Nat
  BY Moves DEF PostRecurrence, Typed
<1>2. "bump" \in Places
  BY DEF Places
<1> QED
  BY <1>1, <1>2, GotoFrame DEF Typed

LEMMA ReturnFrame ==
  ASSUME NEW t \in Threads, Return(t)
  PROVE  Framed(t, Idle)
BY IdleFrame DEF Framed, Return

\* What a send has filed it tells the memories of next.
LEMMA CreateFrame ==
  ASSUME Typed, NEW t \in Threads, Create(t)
  PROVE  \E k \in FrameType :
           /\ Framed(t, k)
           /\ \/ k.at = "idle" /\ Return(t)
              \/ /\ k.at = "remember" /\ k.target = Len(issues) + 1
                 /\ k.blind = call[t].blind /\ Carries(k, call[t])
                 /\ issues' = Append(issues, NewIssue(t)) /\ faults' = faults
<1> DEFINE n == Len(issues) + 1
<1>1. n \in Nat
  BY TrackerDomain DEF Typed
<1>2. CASE Return(t)
  BY <1>2, ReturnFrame, IdleFrame
<1>3. ASSUME call' = [call EXCEPT ![t].at = "remember", ![t].target = n]
      PROVE  \E k \in FrameType :
               /\ Framed(t, k) /\ k.at = "remember" /\ k.target = n
               /\ k.blind = call[t].blind /\ Carries(k, call[t])
  <2>1. Goto(t, "remember", call[t].blind, n) /\ call[t].blind \in BOOLEAN
    BY <1>3, Moves DEF Typed
  <2>2. "remember" \in Places
    BY DEF Places
  <2> HIDE DEF n
  <2> QED
    BY <1>1, <2>1, <2>2, GotoFrame DEF Typed
<1> QED
  BY <1>2, <1>3, CreateStep, Zenon DEF Typed

LEMMA RememberFrame ==
  ASSUME Typed, NEW t \in Threads, Remember(t)
  PROVE  \E k \in FrameType :
           /\ Framed(t, k)
           /\ \/ k.at = "idle" /\ Return(t)
              \/ /\ k.at = "label" /\ k.target = call[t].target
                 /\ k.blind = call[t].blind /\ Carries(k, call[t])
<1>1. CASE Return(t)
  BY <1>1, ReturnFrame, IdleFrame
<1>2. ASSUME call' = [call EXCEPT ![t].at = "label"]
      PROVE  \E k \in FrameType :
               /\ Framed(t, k) /\ k.at = "label" /\ k.target = call[t].target
               /\ k.blind = call[t].blind /\ Carries(k, call[t])
  <2>1. /\ Goto(t, "label", call[t].blind, call[t].target)
        /\ call[t].blind \in BOOLEAN /\ call[t].target \in Nat
    BY <1>2, Moves DEF Typed
  <2>2. "label" \in Places
    BY DEF Places
  <2> QED
    BY <2>1, <2>2, GotoFrame DEF Typed
<1> QED
  BY <1>1, <1>2, RememberStep, Zenon DEF Typed

\* The frames of the other calls are as they were.
LEMMA FramedIs ==
  ASSUME CallOK, NEW t \in Threads, NEW k, Framed(t, k)
  PROVE  /\ call' \in [Threads -> FrameType] /\ call'[t] = k
         /\ \A u \in Threads \ {t} : call'[u] = call[u]
BY DEF CallOK, Framed

LEMMA HomeFixed == [Next]_vars => home' = home
BY Zenon DEF Next, vars, Step, Tick, Collapse, Begin, Search, ReadBack, GetIssue, ForgetFiled,
       PostRecurrence, BumpOccurrences, Create, Remember, AddLabel, Reindex, Close

\* The steps, by what they do to the frame of the call.
Still == \/ \E t \in Threads, f \in Findings : Collapse(t, f)
         \/ Tick \/ UNCHANGED vars \/ \E n \in Numbers : Reindex(n) \/ Close(n)

LEMMA StillIs == Still => call' = call /\ crossed' = crossed
BY Zenon DEF Still, Collapse, Tick, vars, Reindex, Close

LEMMA StepCall ==
  ASSUME Typed, [Next]_vars
  PROVE  CallOK' /\ TargetInv'
<1> USE DEF Typed
<1>1. Numbers \subseteq Numbers'
  BY StepTracker, Zenon
<1>2. home' = home
  BY HomeFixed
<1>3. ASSUME NEW t \in Threads, NEW k \in FrameType, Framed(t, k),
             k.at \in Aiming => k.target \in Numbers'
      PROVE  CallOK' /\ TargetInv'
  <2>1. /\ call' \in [Threads -> FrameType] /\ call'[t] = k
        /\ \A u \in Threads \ {t} : call'[u] = call[u]
    BY <1>3, FramedIs
  <2>2. CallOK'
    BY <1>2, <2>1 DEF CallOK
  <2>3. ASSUME NEW u \in Threads, call'[u].at \in Aiming
        PROVE  call'[u].target \in Numbers'
    BY <1>1, <1>3, <2>1, <2>3 DEF TargetInv
  <2>4. TargetInv'
    BY <2>3, Zenon DEF TargetInv, Aiming
  <2> QED
    BY <2>2, <2>4
<1>4. ASSUME call' = call PROVE CallOK' /\ TargetInv'
  <2>1. TargetInv'
    BY <1>1, <1>4 DEF TargetInv, Aiming
  <2> QED
    BY <1>2, <1>4, <2>1 DEF CallOK
<1>5. ASSUME NEW t \in Threads, Return(t) PROVE CallOK' /\ TargetInv'
  <2>1. Framed(t, Idle)
    BY <1>5, ReturnFrame
  <2> QED
    BY <1>3, <2>1, IdleFrame DEF Aiming
<1>6. ASSUME NEW t \in Threads, NEW f \in Findings, Begin(t, f) PROVE CallOK' /\ TargetInv'
  <2>1. PICK k \in FrameType : Framed(t, k) /\ k.at = "search"
    BY <1>6, BeginFrame
  <2> QED
    BY <1>3, <2>1 DEF Aiming
<1>7. ASSUME NEW t \in Threads, Search(t) PROVE CallOK' /\ TargetInv'
  <2>1. PICK k \in FrameType : Framed(t, k) /\ (k.at = "readback" \/ k.target \in Numbers)
    BY <1>7, SearchFrame, Zenon DEF GoesOn, Passes
  <2> QED
    BY <1>1, <1>3, <2>1 DEF Aiming
<1>8. ASSUME NEW t \in Threads, ReadBack(t) PROVE CallOK' /\ TargetInv'
  <2>1. PICK k \in FrameType : Framed(t, k) /\ (k.at = "create" \/ k.target \in Numbers)
    BY <1>8, ReadBackFrame DEF Passes
  <2> QED
    BY <1>1, <1>3, <2>1 DEF Aiming
<1>9. ASSUME NEW t \in Threads, GetIssue(t) PROVE CallOK' /\ TargetInv'
  <2>1. PICK k \in FrameType : Framed(t, k) /\ k.target \in Numbers
    BY <1>9, GetFrame DEF GoesOn, Passes
  <2> QED
    BY <1>1, <1>3, <2>1
<1>10. ASSUME NEW t \in Threads, ForgetFiled(t) PROVE CallOK' /\ TargetInv'
  <2>1. PICK k \in FrameType : Framed(t, k) /\ k.at = "create"
    BY <1>10, ForgetFrame DEF Passes
  <2> QED
    BY <1>3, <2>1 DEF Aiming
<1>11. ASSUME NEW t \in Threads, PostRecurrence(t) PROVE CallOK' /\ TargetInv'
  <2>1. PICK k \in FrameType : Framed(t, k) /\ k.target = call[t].target
    BY <1>11, CommentFrame, Zenon
  <2>2. call[t].target \in Numbers
    BY <1>11, CommentStep
  <2> QED
    BY <1>1, <1>3, <2>1, <2>2
<1>12. ASSUME NEW t \in Threads, Create(t) PROVE CallOK' /\ TargetInv'
  <2>1. PICK k \in FrameType :
           /\ Framed(t, k)
           /\ \/ k.at = "idle"
              \/ k.target = Len(issues) + 1 /\ issues' = Append(issues, NewIssue(t))
    BY <1>12, CreateFrame, Zenon
  <2>2. k.at \in Aiming => k.target \in Numbers'
    BY <2>1, NewIssueType, FiledNew DEF Aiming
  <2> QED
    BY <1>3, <2>1, <2>2
<1>13. ASSUME NEW t \in Threads, Remember(t) PROVE CallOK' /\ TargetInv'
  <2>1. PICK k \in FrameType : Framed(t, k) /\ (k.at = "idle" \/ k.target = call[t].target)
    BY <1>13, RememberFrame, Zenon
  <2>2. call[t].target \in Numbers
    BY <1>13, RememberStep
  <2> QED
    BY <1>1, <1>3, <2>1, <2>2 DEF Aiming
<1>14. ASSUME NEW t \in Threads, BumpOccurrences(t) \/ AddLabel(t) PROVE Return(t)
  BY <1>14 DEF BumpOccurrences, AddLabel
<1>15. ASSUME Still PROVE CallOK' /\ TargetInv'
  BY <1>4, <1>15, StillIs
<1> QED
  BY <1>5, <1>6, <1>7, <1>8, <1>9, <1>10, <1>11, <1>12, <1>13, <1>14, <1>15, Zenon
     DEF Next, Step, Still

LEMMA StepTyped == Typed /\ [Next]_vars => Typed'
<1> SUFFICES ASSUME Typed, [Next]_vars PROVE Typed'
  OBVIOUS
<1>1. TrackerOK' /\ RecentOK' /\ FiledOK' /\ RestOK'
  BY StepTracker, StepRecent, StepFiled, StepRest DEF Typed
<1>2. CallOK' /\ TargetInv'
  BY StepCall
<1> QED
  BY <1>1, <1>2 DEF Typed

\* TypeOK: the variables keep their types, the tables of every instance their
\* bound.
THEOREM TypeCorrect == Spec => []TypeOK
<1>1. Typed => TypeOK
  BY TypeParts DEF Typed
<1> QED
  BY InitTyped, StepTyped, <1>1, PTL DEF Spec

(***************************************************************************)
(* One filing per finding and instance                                     *)
(***************************************************************************)

\* What instance p knows it has filed for fp.
Filed(p, fp) == {i \in Numbers : /\ issues[i].fingerprint = fp /\ issues[i].by = p
                                 /\ issues[i].noted}

\* Those it has to reckon with: open, and filed while no other send of the
\* finding went through it.
Firm(p, fp) == {i \in Filed(p, fp) : issues[i].apart /\ issues[i].open}

\* There is a later one.
Replaced(p, fp, i) == \E k \in Filed(p, fp) : k > i

\* Instance p holds the entry that says so of issue i.
Held(p, fp, i) ==
  \E j \in DOMAIN filed[p] : filed[p][j] = [fingerprint |-> fp, issue |-> i]

\* A firm filing is the last one of its finding and is held, or there is a
\* later one.
NewestInv ==
  \A p \in Instances : \A fp : \A i \in Firm(p, fp) : Held(p, fp, i) \/ Replaced(p, fp, i)

\* None is left but those that a later one has replaced.
Clear(p, fp) == \A i \in Firm(p, fp) : Replaced(p, fp, i)

\* What the send with frame k through p has found out, and how it stands to
\* what it filed itself; overlaps tells whether another send of the finding
\* went through p at the time.
Looked(k, p, overlaps) ==
  LET fp == FingerprintOf[k.finding]
  IN  /\ k.at = "get" => \A i \in Firm(p, fp) : i = k.target \/ Replaced(p, fp, i)
      /\ k.at = "pop" \/ (k.at = "create" /\ ~k.blind) => Clear(p, fp)
      /\ k.at = "remember" =>
           /\ issues[k.target].fingerprint = fp /\ issues[k.target].by = p
           /\ \A i \in Firm(p, fp) : i < k.target
           /\ ~overlaps => \A j \in Numbers :
                j > k.target => ~ (issues[j].fingerprint = fp /\ issues[j].by = p)

LookedInv == \A t \in Threads : Looked(call[t], home[t], t \in crossed)

\* Two sends of a finding through one instance both know of the overlap.
Meet(t, u) == /\ t # u /\ home[t] = home[u]
              /\ call[t].at # "idle" /\ call[u].at # "idle"
              /\ FingerprintOf[call[t].finding] = FingerprintOf[call[u].finding]
CrossInv == \A t, u \in Threads : Meet(t, u) => t \in crossed /\ u \in crossed

FilingInv ==
  /\ \A p \in Instances : Distinct(filed[p])
  /\ NewestInv /\ LookedInv /\ CrossInv /\ OneOpenPerInstance

\* The table holds every fingerprint there is.
Roomy == IsFiniteSet(Fingerprints) /\ Cardinality(Fingerprints) <= MaxRecent

LEMMA DistinctFits ==
  ASSUME NEW N, NEW s \in Seq([fingerprint : Fingerprints, issue : N]), Distinct(s), Roomy
  PROVE  Len(s) <= MaxRecent
<1>1. Len(s) \in Nat /\ DOMAIN s = 1..Len(s)
  OBVIOUS
<1> DEFINE f == [i \in 1..Len(s) |-> s[i].fingerprint]
<1>2. \A i \in 1..Len(s) : s[i].fingerprint \in Fingerprints
  <2> DEFINE S == [fingerprint : Fingerprints, issue : N]
  <2>1. \A i \in 1..Len(s) : s[i] \in S
    <3> HIDE DEF S
    <3>1. s \in Seq(S)
      BY DEF S
    <3> QED
      BY <3>1
  <2> QED
    BY <2>1
<1>3. f \in [1..Len(s) -> Fingerprints]
  BY <1>2
<1>4. \A i, j \in 1..Len(s) : f[i] = f[j] => i = j
  BY <1>1 DEF Distinct
<1> HIDE DEF f
<1>5. f \in Injection(1..Len(s), Fingerprints)
  BY <1>3, <1>4 DEF Injection, IsInjective
<1>6. Cardinality(1..Len(s)) <= Cardinality(Fingerprints)
  BY <1>5, FS_Injection DEF Roomy
<1>7. Cardinality(1..Len(s)) = Len(s)
  <2>1. 1 \in Int /\ Len(s) \in Int
    BY <1>1
  <2>2. Cardinality(1..Len(s)) = IF 1 > Len(s) THEN 0 ELSE Len(s) - 1 + 1
    BY <2>1, FS_Interval
  <2> QED
    BY <1>1, <2>2
<1>8. Cardinality(Fingerprints) \in Nat
  BY FS_CardinalityType DEF Roomy
<1> QED
  BY <1>1, <1>6, <1>7, <1>8, Bounds DEF Roomy

\* With room for all, remembering a filing replaces the one before it and
\* forgets no other.
LEMMA RememberKeeps ==
  ASSUME Roomy, FiledOK, Numbers \subseteq Numbers', NEW p \in Instances,
         NEW fp \in Fingerprints, NEW n \in Numbers', RememberFiled(p, fp, n),
         \A q \in Instances : Distinct(filed[q])
  PROVE  /\ \A q \in Instances : Distinct(filed'[q])
         /\ Held(p, fp, n)'
         /\ \A q \in Instances : \A gp, i :
              Held(q, gp, i) /\ ~ (q = p /\ gp = fp) => Held(q, gp, i)'
<1> DEFINE w == WithoutFiled(filed[p], fp)
           e == [fingerprint |-> fp, issue |-> n]
           a == Append(w, e)
<1>1. /\ FiledOK' /\ e \in FilingType' /\ w \in Seq(FilingType')
      /\ filed' = [filed EXCEPT ![p] = Trim(a)]
  BY RememberFiledIs
<1>2. /\ Distinct(w) /\ \A j \in DOMAIN w : w[j].fingerprint # fp
      /\ HoldsRest(w, filed[p], fp)
  BY WithoutIs
<1>3. e.fingerprint = fp /\ e.issue = n
  OBVIOUS
<1> HIDE DEF w, e
<1>4. /\ a \in Seq(FilingType') /\ Len(a) = Len(w) + 1
      /\ DOMAIN a = 1..(Len(w) + 1) /\ DOMAIN w = 1..Len(w)
      /\ \A i \in DOMAIN w : i \in DOMAIN a /\ a[i] = w[i]
      /\ a[Len(w) + 1] = e
      /\ \A i \in DOMAIN a : i \in DOMAIN w \/ i = Len(w) + 1
      /\ Len(w) \in Nat
  <2> HIDE DEF FilingType
  <2> QED
    BY <1>1, AppendIs
<1> HIDE DEF a
<1>5. Distinct(a)
  <2> SUFFICES ASSUME NEW i \in DOMAIN a, NEW j \in DOMAIN a, a[i].fingerprint = a[j].fingerprint
               PROVE  i = j
    BY DEF Distinct
  <2>1. CASE i \in DOMAIN w /\ j \in DOMAIN w
    BY <1>2, <1>4, <2>1 DEF Distinct
  <2>2. CASE i = Len(w) + 1 /\ j \in DOMAIN w
    BY <1>2, <1>3, <1>4, <2>2
  <2>3. CASE j = Len(w) + 1 /\ i \in DOMAIN w
    BY <1>2, <1>3, <1>4, <2>3
  <2> QED
    BY <1>4, <2>1, <2>2, <2>3
<1>6. Trim(a) = a
  <2>1. a \in Seq([fingerprint : Fingerprints, issue : Numbers'])
    BY <1>4 DEF FilingType
  <2>2. Len(a) <= MaxRecent
    BY <1>5, <2>1, DistinctFits
  <2> QED
    BY <2>1, <2>2, TrimTyped
<1>7. filed'[p] = a /\ \A q \in Instances \ {p} : filed'[q] = filed[q]
  BY <1>1, <1>6 DEF FiledOK
<1>8. \A q \in Instances : Distinct(filed'[q])
  BY <1>5, <1>7
<1>9. Held(p, fp, n)'
  <2>1. Len(w) + 1 \in DOMAIN a /\ a[Len(w) + 1] = [fingerprint |-> fp, issue |-> n]
    BY <1>4 DEF e
  <2> QED
    BY <1>7, <2>1 DEF Held
<1>10. ASSUME NEW q \in Instances, NEW gp, NEW i, Held(q, gp, i), ~ (q = p /\ gp = fp)
       PROVE  Held(q, gp, i)'
  <2>1. CASE q # p
    BY <1>7, <1>10, <2>1 DEF Held
  <2>2. CASE q = p
    <3>1. PICK j \in DOMAIN filed[p] : filed[p][j] = [fingerprint |-> gp, issue |-> i]
      BY <1>10, <2>2 DEF Held
    <3>2. filed[p][j].fingerprint # fp
      BY <1>10, <2>2, <3>1
    <3>3. PICK m \in DOMAIN w : w[m] = filed[p][j]
      BY <1>2, <3>2 DEF HoldsRest
    <3>4. m \in DOMAIN a /\ a[m] = [fingerprint |-> gp, issue |-> i]
      BY <1>4, <3>1, <3>3
    <3> QED
      BY <1>7, <2>2, <3>4 DEF Held
  <2> QED
    BY <2>1, <2>2
<1> QED
  BY <1>8, <1>9, <1>10

\* What a step leaves of the tracker.
LEMMA StepGrows ==
  ASSUME Typed, [Next]_vars
  PROVE  /\ Numbers \subseteq Numbers' /\ Numbers = 1..Len(issues) /\ Numbers' = 1..Len(issues')
         /\ Len(issues) \in Nat /\ Len(issues') \in Nat
         /\ \A n \in Numbers : Follows(issues'[n], issues[n])
         /\ \A p, fp : Filed(p, fp) \subseteq Filed(p, fp)'
<1>1. /\ TrackerOK' /\ Numbers \subseteq Numbers'
      /\ \A n \in Numbers : Follows(issues'[n], issues[n])
  BY StepTracker DEF Typed
<1>2. Numbers = 1..Len(issues) /\ Len(issues) \in Nat
  BY TrackerDomain DEF Typed
<1>3. Numbers' = 1..Len(issues') /\ Len(issues') \in Nat
  BY <1>1 DEF TrackerOK, Numbers
<1>4. \A p, fp : Filed(p, fp) \subseteq Filed(p, fp)'
  BY <1>1 DEF Filed, Follows
<1> QED
  BY <1>1, <1>2, <1>3, <1>4

LEMMA StaysReplaced ==
  ASSUME Typed, [Next]_vars, NEW p, NEW fp, NEW i, Replaced(p, fp, i)
  PROVE  Replaced(p, fp, i)'
BY StepGrows DEF Replaced

\* A step files at most one issue, for the send that takes it.
LEMMA StepNew ==
  ASSUME Typed, [Next]_vars, NEW n \in Numbers' \ Numbers
  PROVE  \E t \in Threads : /\ Create(t) /\ n = Len(issues) + 1
                            /\ issues' = Append(issues, NewIssue(t))
                            /\ index' = Append(index, Unindexed)
                            /\ issues'[n] = NewIssue(t)
<1>1. Numbers' # Numbers
  OBVIOUS
<1>2. ASSUME NEW m, NEW e, Patched(m, e) PROVE FALSE
  BY <1>1, <1>2, PatchedIs DEF Typed
<1>3. issues' # issues
  BY <1>1 DEF Numbers
<1>4. ASSUME NEW t \in Threads, PostRecurrence(t) \/ BumpOccurrences(t) \/ AddLabel(t) \/ Remember(t)
      PROVE  FALSE
  <2>1. issues' = issues \/ \E m, e : Patched(m, e)
    BY <1>4, CommentStep, BumpStep, LabelStep, RememberStep, Zenon DEF Typed
  <2> QED
    BY <1>2, <1>3, <2>1
<1>5. ASSUME NEW m \in Numbers, Close(m) PROVE FALSE
  BY <1>2, <1>5, CloseStep, Zenon DEF Typed
<1>6. ASSUME (\E t \in Threads : Looking(t)) \/ Tick \/ UNCHANGED vars \/ \E m \in Numbers : Reindex(m)
      PROVE  FALSE
  BY <1>3, <1>6, LookingQuiet, Zenon DEF Tick, vars, Reindex
<1>7. PICK t \in Threads : Create(t)
  BY <1>4, <1>5, <1>6, Zenon DEF Next, Step, Looking
<1>8. issues' = Append(issues, NewIssue(t)) /\ index' = Append(index, Unindexed)
  BY <1>3, <1>7, CreateStep, Zenon DEF Typed
<1>9. n = Len(issues) + 1 /\ issues'[n] = NewIssue(t)
  BY <1>8, NewIssueType, FiledNew DEF Typed
<1> QED
  BY <1>7, <1>8, <1>9

\* Only when an instance learns what it has filed do the marks of an issue
\* change, and those of that issue alone.
LEMMA StepMarks ==
  ASSUME Typed, [Next]_vars, NEW n \in Numbers, ~Marked(issues'[n], issues[n])
  PROVE  \E t \in Threads : /\ Remember(t) /\ n = call[t].target
                            /\ issues'[n].apart = (t \notin crossed)
<1>1. issues'[n] # issues[n]
  BY DEF Marked
<1>2. ASSUME NEW m, NEW e, Patched(m, e), Marked(e, issues[m]) PROVE FALSE
  BY <1>1, <1>2, PatchedIs DEF Typed
<1>3. ASSUME NEW t \in Threads, PostRecurrence(t) \/ BumpOccurrences(t) \/ AddLabel(t)
      PROVE  FALSE
  <2>1. issues' = issues \/ \E m, e : Patched(m, e) /\ Marked(e, issues[m])
    BY <1>3, CommentStep, BumpStep, LabelStep, Zenon DEF Typed
  <2> QED
    BY <1>1, <1>2, <2>1
<1>4. ASSUME NEW m \in Numbers, Close(m) PROVE FALSE
  BY <1>2, <1>4, CloseStep, Zenon DEF Typed
<1>5. ASSUME (\E t \in Threads : Looking(t)) \/ Tick \/ UNCHANGED vars \/ \E m \in Numbers : Reindex(m)
      PROVE  FALSE
  BY <1>1, <1>5, LookingQuiet, Zenon DEF Tick, vars, Reindex
<1>6. ASSUME NEW t \in Threads, Create(t) PROVE FALSE
  <2>1. issues' = issues \/ issues' = Append(issues, NewIssue(t))
    BY <1>6, CreateStep, Zenon DEF Typed
  <2> QED
    BY <1>1, <2>1, NewIssueType, FiledNew DEF Typed
<1>7. PICK t \in Threads : Remember(t)
  BY <1>3, <1>4, <1>5, <1>6, Zenon DEF Next, Step, Looking
<1>8. PICK e : /\ Patched(call[t].target, e) /\ call[t].target \in Numbers
               /\ e = [issues[call[t].target] EXCEPT !.noted = TRUE, !.apart = (t \notin crossed)]
  BY <1>7, RememberStep DEF Typed
<1>9. n = call[t].target
  BY <1>1, <1>8, PatchedIs DEF Typed
<1>10. issues'[n].apart = (t \notin crossed)
  <2>1. issues[n] \in IssueType
    BY TrackerDomain DEF Typed
  <2>2. issues'[n] = e
    BY <1>8, <1>9, PatchedIs DEF Typed
  <2> QED
    BY <1>8, <1>9, <2>1, <2>2 DEF IssueType
<1> QED
  BY <1>7, <1>9, <1>10

\* A firm filing was so before, unless its instance has just learnt of it.
LEMMA StepFirm ==
  ASSUME Typed, [Next]_vars, NEW p, NEW fp, NEW i \in Firm(p, fp)', i \notin Firm(p, fp)
  PROVE  \E t \in Threads : Remember(t) /\ i = call[t].target /\ t \notin crossed
<1>1. /\ i \in Numbers' /\ issues'[i].noted /\ issues'[i].apart /\ issues'[i].open
      /\ issues'[i].fingerprint = fp /\ issues'[i].by = p
  BY DEF Firm, Filed
<1>2. i \in Numbers
  <2>1. ASSUME i \notin Numbers PROVE FALSE
    <3>1. \E t \in Threads : issues'[i] = NewIssue(t)
      BY <1>1, <2>1, StepNew
    <3> QED
      BY <1>1, <3>1 DEF NewIssue
  <2> QED
    BY <2>1
<1>3. Follows(issues'[i], issues[i])
  BY <1>2, StepGrows
<1>4. ~Marked(issues'[i], issues[i])
  <2>1. ASSUME Marked(issues'[i], issues[i]) PROVE FALSE
    BY <1>1, <1>2, <1>3, <2>1 DEF Firm, Filed, Follows, Marked
  <2> QED
    BY <2>1
<1> QED
  BY <1>1, <1>2, <1>4, StepMarks

\* For a send that did not take the step: nothing firm was added to what it
\* found out, and nothing was filed beside it without a mark.
LEMMA OthersLook ==
  ASSUME Typed, [Next]_vars, LookedInv, CrossInv, NEW u \in Threads, call[u].at # "idle",
         call'[u] = call[u], NEW p, p = home[u], NEW fp, fp = FingerprintOf[call[u].finding]
  PROVE  Firm(p, fp)' \subseteq Firm(p, fp)
<1> SUFFICES ASSUME NEW i \in Firm(p, fp)', i \notin Firm(p, fp) PROVE FALSE
  OBVIOUS
<1>1. PICK t \in Threads : Remember(t) /\ i = call[t].target /\ t \notin crossed
  BY StepFirm
<1>2. call[t].at = "remember" /\ i \in Numbers
  BY <1>1, RememberStep DEF Typed
<1>3. issues[i].fingerprint = FingerprintOf[call[t].finding] /\ issues[i].by = home[t]
  BY <1>1, <1>2 DEF LookedInv, Looked
<1>4. issues'[i].fingerprint = fp /\ issues'[i].by = p
  BY DEF Firm, Filed
<1>5. issues[i].fingerprint = fp /\ issues[i].by = p
  BY <1>2, <1>4, StepGrows DEF Follows
<1>6. t # u
  <2>1. PICK k \in FrameType : Framed(t, k) /\ k.at # "remember"
    BY <1>1, RememberFrame, Zenon
  <2> QED
    BY <1>2, <2>1, FramedIs DEF Typed
<1>7. Meet(t, u)
  BY <1>2, <1>3, <1>5, <1>6 DEF Meet
<1> QED
  BY <1>1, <1>7 DEF CrossInv

\* Who knows of an overlap knows of it until it returns.
LEMMA StepCrossed ==
  ASSUME Typed, [Next]_vars, NEW u \in Threads, call'[u] = call[u], call[u].at # "idle",
         u \in crossed
  PROVE  u \in crossed'
<1>1. ASSUME NEW t \in Threads, Return(t) PROVE u \in crossed'
  <2>1. Framed(t, Idle)
    BY <1>1, ReturnFrame
  <2>2. t # u
    BY <2>1, FramedIs, IdleFrame DEF Typed
  <2> QED
    BY <1>1, <2>2 DEF Return
<1>2. ASSUME NEW t \in Threads, NEW f \in Findings, Begin(t, f) PROVE u \in crossed'
  <2>1. PICK k \in FrameType : Framed(t, k) /\ k.at = "search"
    BY <1>2, BeginFrame DEF Typed
  <2>2. call[t].at = "idle" /\ t # u
    BY <1>2 DEF Begin, At
  <2>3. crossed' = crossed \ {t} \/ crossed' = crossed \cup Rivals(t, f) \cup {t}
    BY <1>2, Zenon DEF Begin
  <2> QED
    BY <2>2, <2>3
<1>3. ASSUME ~ \E t \in Threads : Return(t), ~ \E t \in Threads, f \in Findings : Begin(t, f)
      PROVE  crossed' = crossed
  BY <1>3, Zenon DEF Next, Step, vars, Tick, Collapse, Search, ReadBack, GetIssue, ForgetFiled,
     PostRecurrence, BumpOccurrences, Create, Remember, AddLabel, Reindex, Close
<1> QED
  BY <1>1, <1>2, <1>3

LEMMA LookedStays ==
  ASSUME Typed, [Next]_vars, LookedInv, CrossInv, NEW u \in Threads, call'[u] = call[u]
  PROVE  Looked(call[u], home[u], u \in crossed)'
<1> PICK k, p, fp : k = call[u] /\ p = home[u] /\ fp = FingerprintOf[k.finding]
  OBVIOUS
<1>1. home'[u] = p /\ call'[u] = k
  BY HomeFixed
<1>2. CASE k.at = "idle"
  BY <1>1, <1>2 DEF Looked
<1>3. CASE k.at # "idle"
  <2>1. Firm(p, fp)' \subseteq Firm(p, fp)
    BY <1>3, OthersLook
  <2>2. \A i : Replaced(p, fp, i) => Replaced(p, fp, i)'
    BY StaysReplaced
  <2>3. Looked(k, p, u \in crossed)
    BY DEF LookedInv
  <2>4. ASSUME k.at = "get", NEW i \in Firm(p, fp)' PROVE i = k.target \/ Replaced(p, fp, i)'
    BY <2>1, <2>2, <2>3, <2>4 DEF Looked
  <2>5. ASSUME k.at = "pop" \/ (k.at = "create" /\ ~k.blind) PROVE Clear(p, fp)'
    <3>1. Clear(p, fp)
      BY <2>3, <2>5 DEF Looked
    <3> QED
      BY <2>1, <2>2, <3>1 DEF Clear
  <2>6. ASSUME k.at = "remember"
        PROVE  /\ issues'[k.target].fingerprint = fp /\ issues'[k.target].by = p
               /\ \A i \in Firm(p, fp)' : i < k.target
    <3>1. k.target \in Numbers
      BY <2>6 DEF Typed, TargetInv, Aiming
    <3>2. Follows(issues'[k.target], issues[k.target])
      BY <3>1, StepGrows
    <3> QED
      BY <2>1, <2>3, <2>6, <3>2 DEF Looked, Follows
  <2>7. ASSUME k.at = "remember", u \notin crossed', NEW j \in Numbers', j > k.target,
               issues'[j].fingerprint = fp, issues'[j].by = p
        PROVE  FALSE
    <3>1. u \notin crossed
      BY <1>3, <2>7, StepCrossed
    <3>2. CASE j \in Numbers
      <4>1. issues[j].fingerprint = fp /\ issues[j].by = p
        BY <2>7, <3>2, StepGrows DEF Follows
      <4> QED
        BY <2>3, <2>7, <3>1, <3>2, <4>1 DEF Looked
    <3>3. CASE j \notin Numbers
      <4>1. PICK t \in Threads : Create(t) /\ issues'[j] = NewIssue(t)
        BY <3>3, StepNew
      <4>2. FingerprintOf[call[t].finding] = fp /\ home[t] = p
        BY <2>7, <4>1 DEF NewIssue
      <4>3. call[t].at = "create"
        BY <4>1, CreateStep DEF Typed
      <4>4. t # u /\ call[u].at = "remember"
        BY <2>7, <4>3
      <4>5. Meet(t, u)
        BY <4>2, <4>3, <4>4 DEF Meet
      <4> QED
        BY <3>1, <4>5 DEF CrossInv
    <3> QED
      BY <3>2, <3>3
  <2>8. k.at = "remember" => (u \notin crossed' => \A j \in Numbers' :
          j > k.target => ~ (issues'[j].fingerprint = fp /\ issues'[j].by = p))
    BY <2>7
  <2> HIDE DEF Clear
  <2> QED
    BY <1>1, <2>4, <2>5, <2>6, <2>8 DEF Looked, Firm, Replaced, Filed, Clear
<1> QED
  BY <1>2, <1>3

LEMMA LookedKept ==
  ASSUME Typed, [Next]_vars, LookedInv, CrossInv, NEW t \in Threads, NEW k, Framed(t, k),
         Looked(call[t], home[t], t \in crossed)'
  PROVE  LookedInv'
<1>1. \A u \in Threads \ {t} : call'[u] = call[u]
  BY FramedIs DEF Typed
<1>2. \A u \in Threads : Looked(call[u], home[u], u \in crossed)'
  BY <1>1, LookedStays
<1> QED
  BY <1>2 DEF LookedInv

\* A frame that asks for nothing.
LEMMA LookedIdle ==
  ASSUME Typed, [Next]_vars, LookedInv, CrossInv, NEW t \in Threads, NEW k, Framed(t, k),
         k.at \notin {"get", "pop", "create", "remember"}
  PROVE  LookedInv'
<1>1. call'[t] = k
  BY FramedIs DEF Typed
<1>2. Looked(call[t], home[t], t \in crossed)'
  BY <1>1 DEF Looked
<1> QED
  BY <1>2, LookedKept

\* Sends of a finding that overlap keep knowing it.
LEMMA StepCrossInv == Typed /\ CrossInv /\ [Next]_vars => CrossInv'
<1> SUFFICES ASSUME Typed, CrossInv, [Next]_vars PROVE CrossInv'
  OBVIOUS
<1>1. home' = home
  BY HomeFixed
<1>2. ASSUME NEW t \in Threads, NEW f \in Findings, Begin(t, f) PROVE CrossInv'
  <2>1. PICK k \in FrameType : Framed(t, k) /\ k.at = "search" /\ k.finding = f
    BY <1>2, BeginFrame DEF Typed
  <2>2. call'[t] = k /\ \A u \in Threads \ {t} : call'[u] = call[u]
    BY <2>1, FramedIs DEF Typed
  <2>3. \/ Rivals(t, f) = {} /\ crossed' = crossed \ {t}
        \/ crossed' = crossed \cup Rivals(t, f) \cup {t}
    BY <1>2, Zenon DEF Begin
  <2>4. ASSUME NEW u \in Threads \ {t}, home[u] = home[t], call[u].at # "idle",
               FingerprintOf[call[u].finding] = FingerprintOf[f]
        PROVE  u \in crossed' /\ t \in crossed'
    <3>1. u \in Rivals(t, f)
      BY <2>4 DEF Rivals, At
    <3> QED
      BY <2>3, <3>1
  <2>5. ASSUME NEW u \in Threads, NEW v \in Threads, Meet(u, v)' PROVE u \in crossed' /\ v \in crossed'
    <3>1. CASE u # t /\ v # t
      <4>1. Meet(u, v)
        BY <1>1, <2>2, <2>5, <3>1 DEF Meet
      <4> QED
        BY <2>3, <3>1, <4>1 DEF CrossInv
    <3>2. CASE u = t
      <4>1. v \in Threads \ {t} /\ home[v] = home[t] /\ call[v].at # "idle"
            /\ FingerprintOf[call[v].finding] = FingerprintOf[f]
        BY <1>1, <2>1, <2>2, <2>5, <3>2 DEF Meet
      <4> QED
        BY <2>4, <3>2, <4>1
    <3>3. CASE v = t
      <4>1. u \in Threads \ {t} /\ home[u] = home[t] /\ call[u].at # "idle"
            /\ FingerprintOf[call[u].finding] = FingerprintOf[f]
        BY <1>1, <2>1, <2>2, <2>5, <3>3 DEF Meet
      <4> QED
        BY <2>4, <3>3, <4>1
    <3> QED
      BY <3>1, <3>2, <3>3
  <2> QED
    BY <2>5 DEF CrossInv
<1>3. ASSUME NEW t \in Threads, Return(t) PROVE CrossInv'
  <2>1. call'[t] = Idle /\ \A u \in Threads \ {t} : call'[u] = call[u]
    BY <1>3, ReturnFrame, FramedIs DEF Typed
  <2>2. \A u, v \in Threads : Meet(u, v)' => Meet(u, v) /\ u # t /\ v # t
    BY <1>1, <2>1, IdleFrame DEF Meet
  <2> QED
    BY <1>3, <2>2 DEF CrossInv, Return
<1>4. ASSUME crossed' = crossed, NEW t \in Threads, NEW k, Framed(t, k), Carries(k, call[t]),
             call[t].at # "idle"
      PROVE  CrossInv'
  <2>1. call'[t] = k /\ \A u \in Threads \ {t} : call'[u] = call[u]
    BY <1>4, FramedIs DEF Typed
  <2>2. \A u, v \in Threads : Meet(u, v)' => Meet(u, v)
    BY <1>1, <1>4, <2>1 DEF Meet, Carries
  <2> QED
    BY <1>4, <2>2 DEF CrossInv
<1>5. ASSUME NEW t \in Threads, Search(t) \/ ReadBack(t) \/ GetIssue(t) \/ ForgetFiled(t) \/ PostRecurrence(t)
      PROVE  CrossInv'
  <2>1. crossed' = crossed /\ call[t].at # "idle"
    BY <1>5 DEF Search, ReadBack, GetIssue, ForgetFiled, PostRecurrence, At
  <2>2. PICK k : Framed(t, k) /\ Carries(k, call[t])
    BY <1>5, SearchFrame, ReadBackFrame, GetFrame, ForgetFrame, CommentFrame, Zenon
  <2> QED
    BY <1>4, <2>1, <2>2
<1>6. ASSUME NEW t \in Threads, BumpOccurrences(t) \/ AddLabel(t) PROVE CrossInv'
  BY <1>3, <1>6 DEF BumpOccurrences, AddLabel
<1>7. ASSUME NEW t \in Threads, Create(t) PROVE CrossInv'
  <2>1. call[t].at = "create" /\ (crossed' = crossed \/ Return(t))
    BY <1>7, CreateStep, Zenon DEF Typed
  <2>2. PICK k : Framed(t, k) /\ (Return(t) \/ Carries(k, call[t]))
    BY <1>7, CreateFrame, Zenon
  <2> QED
    BY <1>3, <1>4, <2>1, <2>2
<1>8. ASSUME NEW t \in Threads, Remember(t) PROVE CrossInv'
  <2>1. call[t].at = "remember" /\ (crossed' = crossed \/ Return(t))
    BY <1>8, RememberStep, Zenon DEF Typed
  <2>2. PICK k : Framed(t, k) /\ (Return(t) \/ Carries(k, call[t]))
    BY <1>8, RememberFrame, Zenon
  <2> QED
    BY <1>3, <1>4, <2>1, <2>2
<1>9. ASSUME Still PROVE CrossInv'
  <2>1. \A u, v \in Threads : Meet(u, v)' => Meet(u, v)
    BY <1>1, <1>9, StillIs DEF Meet
  <2> QED
    BY <1>9, <2>1, StillIs DEF CrossInv
<1> QED
  BY <1>2, <1>3, <1>5, <1>6, <1>7, <1>8, <1>9, Zenon DEF Next, Step, Still

\* What OneOpenPerInstance says of one issue.
Justified(j) ==
  ~issues[j].blind =>
    \A i \in FiledBefore(j) :
      issues[i].apart /\ issues[i].open => \E k \in FiledBefore(j) : k > i

LEMMA OneKept ==
  ASSUME Typed, [Next]_vars, LookedInv, OneOpenPerInstance,
         \A j \in Numbers' \ Numbers : Justified(j)'
  PROVE  OneOpenPerInstance'
<1>1. /\ Numbers = 1..Len(issues) /\ Len(issues) \in Nat
      /\ \A n \in Numbers : Follows(issues'[n], issues[n])
  BY StepGrows
<1>2. ASSUME NEW j \in Numbers PROVE Justified(j)'
  <2>1. \A i \in 1 .. j - 1 : i \in Numbers /\ j > i
    BY <1>1
  <2>2. Follows(issues'[j], issues[j]) /\ \A i \in 1 .. j - 1 : Follows(issues'[i], issues[i])
    BY <1>1, <2>1
  <2>3. FiledBefore(j) \subseteq FiledBefore(j)'
    BY <2>2 DEF FiledBefore, Follows
  <2>4. Justified(j)
    BY DEF OneOpenPerInstance, Justified
  <2>5. SUFFICES ASSUME ~issues'[j].blind, NEW i \in FiledBefore(j)', issues'[i].apart,
                        issues'[i].open
                 PROVE  \E k \in FiledBefore(j) : k > i
    BY <2>3 DEF Justified
  <2>6. /\ i \in 1 .. j - 1 /\ issues'[i].noted
        /\ issues'[i].fingerprint = issues'[j].fingerprint /\ issues'[i].by = issues'[j].by
    BY DEF FiledBefore
  <2>7. /\ ~issues[j].blind /\ issues[i].open
        /\ issues[i].fingerprint = issues[j].fingerprint /\ issues[i].by = issues[j].by
    BY <2>2, <2>5, <2>6 DEF Follows
  <2>8. CASE Marked(issues'[i], issues[i])
    <3>1. i \in FiledBefore(j) /\ issues[i].apart
      BY <2>5, <2>6, <2>7, <2>8 DEF Marked, FiledBefore
    <3> QED
      BY <2>4, <2>7, <3>1 DEF Justified
  <2>9. CASE ~Marked(issues'[i], issues[i])
    <3>1. PICK t \in Threads : Remember(t) /\ i = call[t].target /\ t \notin crossed
      BY <2>1, <2>5, <2>6, <2>9, StepMarks
    <3>2. call[t].at = "remember"
      BY <3>1, RememberStep DEF Typed
    <3>3. Looked(call[t], home[t], t \in crossed)
      BY DEF LookedInv
    <3>4. /\ issues[i].fingerprint = FingerprintOf[call[t].finding] /\ issues[i].by = home[t]
          /\ \A n \in Numbers : n > i =>
               ~ (issues[n].fingerprint = FingerprintOf[call[t].finding] /\ issues[n].by = home[t])
      BY <3>1, <3>2, <3>3 DEF Looked
    <3> QED
      BY <2>1, <2>6, <2>7, <3>4
  <2> QED
    BY <2>8, <2>9
<1>3. \A j \in Numbers' : Justified(j)'
  BY <1>2
<1> QED
  BY <1>3 DEF OneOpenPerInstance, Justified

LEMMA NewestKept ==
  ASSUME Typed, [Next]_vars, NewestInv,
         \A p \in Instances : \A fp, i :
           i \in Firm(p, fp)' => i \in Firm(p, fp) \/ Held(p, fp, i)' \/ Replaced(p, fp, i)',
         \A p \in Instances : \A fp : \A i \in Firm(p, fp) :
           Held(p, fp, i) => Held(p, fp, i)' \/ Replaced(p, fp, i)'
  PROVE  NewestInv'
<1> SUFFICES ASSUME NEW p \in Instances, NEW fp, NEW i \in Firm(p, fp)'
             PROVE  Held(p, fp, i)' \/ Replaced(p, fp, i)'
  BY DEF NewestInv, Held, Filed, Firm, Replaced
<1>1. CASE i \in Firm(p, fp)
  BY <1>1, StaysReplaced DEF NewestInv
<1> QED
  BY <1>1

\* A step that tells no memory of a filing adds no firm one.
LEMMA NothingFirm ==
  ASSUME Typed, [Next]_vars, ~ \E t \in Threads : Remember(t)
  PROVE  \A p, fp, i : i \in Firm(p, fp)' => i \in Firm(p, fp)
BY StepFirm

\* A step that files nothing and forgets nothing.
LEMMA QuietFiling ==
  ASSUME Typed, [Next]_vars, FilingInv, filed' = filed, Numbers' = Numbers, LookedInv',
         ~ \E t \in Threads : Remember(t)
  PROVE  FilingInv'
<1>1. OneOpenPerInstance'
  BY OneKept DEF FilingInv
<1>2. NewestInv'
  <2>1. \A p, fp, i : Held(p, fp, i) => Held(p, fp, i)'
    BY DEF Held
  <2> QED
    BY <2>1, NewestKept, NothingFirm DEF FilingInv
<1>3. \A p \in Instances : Distinct(filed'[p])
  BY DEF FilingInv
<1>4. CrossInv'
  BY StepCrossInv DEF FilingInv
<1> QED
  BY <1>1, <1>2, <1>3, <1>4 DEF FilingInv, Distinct

LEMMA HeldOnly ==
  ASSUME FiledOK, NEW p \in Instances, Distinct(filed[p]), NEW fp, NEW i, Held(p, fp, i)
  PROVE  i \in FiledHere(p, fp) /\ \A n \in FiledHere(p, fp) : n = i
<1>1. PICK j \in DOMAIN filed[p] : filed[p][j] = [fingerprint |-> fp, issue |-> i]
  BY DEF Held
<1>2. filed[p][j].fingerprint = fp /\ filed[p][j].issue = i
  BY <1>1
<1>3. i \in FiledHere(p, fp)
  BY <1>2, FiledHereIs
<1>4. ASSUME NEW n \in FiledHere(p, fp) PROVE n = i
  <2>1. PICK m \in DOMAIN filed[p] : filed[p][m].fingerprint = fp /\ filed[p][m].issue = n
    BY FiledHereIs
  <2>2. m = j
    BY <1>2, <2>1 DEF Distinct
  <2> QED
    BY <1>2, <2>1, <2>2
<1> QED
  BY <1>3, <1>4

\* Without an entry for the finding its instance has none to reckon with.
LEMMA NoneHere ==
  ASSUME Typed, FilingInv, NEW p \in Instances, NEW fp, FiledHere(p, fp) = {}
  PROVE  Clear(p, fp)
<1>1. ASSUME NEW i \in Firm(p, fp) PROVE Replaced(p, fp, i)
  <2>1. Held(p, fp, i) => i \in FiledHere(p, fp)
    BY HeldOnly DEF Typed, FilingInv
  <2> QED
    BY <2>1 DEF FilingInv, NewestInv
<1> QED
  BY <1>1 DEF Clear

\* The entry it has is the one it has to reckon with, if any.
LEMMA OneHere ==
  ASSUME Typed, FilingInv, NEW p \in Instances, NEW fp, NEW n \in FiledHere(p, fp)
  PROVE  \A i \in Firm(p, fp) : i = n \/ Replaced(p, fp, i)
<1>1. ASSUME NEW i \in Firm(p, fp) PROVE i = n \/ Replaced(p, fp, i)
  <2>1. Held(p, fp, i) => n = i
    BY HeldOnly DEF Typed, FilingInv
  <2> QED
    BY <2>1 DEF FilingInv, NewestInv
<1> QED
  BY <1>1

\* A step that changes nothing in the tracker leaves what was found out of it.
LEMMA SameTracker ==
  ASSUME issues' = issues
  PROVE  /\ Numbers' = Numbers
         /\ \A p, fp : /\ Filed(p, fp)' = Filed(p, fp) /\ Firm(p, fp)' = Firm(p, fp)
                       /\ Clear(p, fp)' <=> Clear(p, fp)
         /\ \A p, fp, i : Replaced(p, fp, i)' <=> Replaced(p, fp, i)
BY DEF Numbers, Filed, Firm, Clear, Replaced

\* The parts of what a frame that asks has found out.
LEMMA LookedParts ==
  ASSUME NEW k, NEW p, NEW b, NEW fp, fp = FingerprintOf[k.finding]
  PROVE  /\ k.at \notin {"get", "pop", "create", "remember"} => Looked(k, p, b)
         /\ k.at = "get" => (Looked(k, p, b) <=>
              \A i \in Firm(p, fp) : i = k.target \/ Replaced(p, fp, i))
         /\ k.at = "pop" => (Looked(k, p, b) <=> Clear(p, fp))
         /\ k.at = "create" => (Looked(k, p, b) <=> (~k.blind => Clear(p, fp)))
BY DEF Looked

LEMMA SearchFiling ==
  ASSUME Typed, [Next]_vars, FilingInv, NEW t \in Threads, Search(t)
  PROVE  LookedInv'
<1>1. PICK k \in FrameType : Framed(t, k) /\ k.at \in {"comment", "readback"}
  BY SearchFrame DEF GoesOn, Passes
<1> QED
  BY <1>1, LookedIdle DEF FilingInv

LEMMA ReadBackFiling ==
  ASSUME Typed, [Next]_vars, FilingInv, NEW t \in Threads, ReadBack(t)
  PROVE  LookedInv'
<1> PICK p, fp : p = home[t] /\ fp = FingerprintOf[call[t].finding]
  OBVIOUS
<1> DEFINE here == FiledHere(p, fp)
<1>1. PICK k \in FrameType :
        /\ Framed(t, k) /\ k.finding = call[t].finding
        /\ \/ here = {} /\ k.at = "create"
           \/ k.at = "get" /\ k.target \in here
  BY ReadBackFrame DEF Carries, Passes
<1>2. call'[t] = k /\ home'[t] = p /\ p \in Instances
  BY <1>1, FramedIs, HomeFixed DEF Typed, CallOK
<1>3. issues' = issues
  BY DEF ReadBack
<1>4. /\ here = {} => Clear(p, fp)
      /\ \A n \in here : \A i \in Firm(p, fp) : i = n \/ Replaced(p, fp, i)
  BY <1>2, NoneHere, OneHere
<1> HIDE DEF here
<1>5. fp = FingerprintOf[k.finding]
  BY <1>1
<1>6. Looked(k, p, t \in crossed)'
  BY <1>1, <1>3, <1>4, <1>5, SameTracker DEF Looked
<1>7. Looked(call[t], home[t], t \in crossed)'
  BY <1>2, <1>6 DEF Looked
<1> QED
  BY <1>1, <1>7, LookedKept DEF FilingInv

LEMMA GetFiling ==
  ASSUME Typed, [Next]_vars, FilingInv, NEW t \in Threads, GetIssue(t)
  PROVE  LookedInv'
<1> PICK p, fp, n : p = home[t] /\ fp = FingerprintOf[call[t].finding] /\ n = call[t].target
  OBVIOUS
<1>1. PICK k \in FrameType :
        /\ Framed(t, k) /\ k.finding = call[t].finding
        /\ \/ k.at = "comment"
           \/ k.at = "pop" /\ ~issues[n].open
           \/ k.at = "create" /\ k.blind = TRUE
  BY GetFrame DEF Carries, Passes, GoesOn
<1>2. call'[t] = k /\ home'[t] = p /\ call[t].at = "get"
  BY <1>1, FramedIs, HomeFixed, GetFrame DEF Typed
<1>3. issues' = issues
  BY DEF GetIssue
<1>4. \A i \in Firm(p, fp) : i = n \/ Replaced(p, fp, i)
  BY <1>2 DEF FilingInv, LookedInv, Looked
<1>5. ~issues[n].open => Clear(p, fp)
  BY <1>4 DEF Clear, Firm
<1>6. fp = FingerprintOf[k.finding]
  BY <1>1
<1>7. Looked(k, p, t \in crossed)'
  BY <1>1, <1>3, <1>5, <1>6, SameTracker DEF Looked
<1>8. Looked(call[t], home[t], t \in crossed)'
  BY <1>2, <1>7 DEF Looked
<1> QED
  BY <1>1, <1>8, LookedKept DEF FilingInv

\* Taking out the entry of a closed issue, or of one that took its place, loses
\* none that the instance has to reckon with.
LEMMA ForgetFiling ==
  ASSUME Typed, [Next]_vars, FilingInv, NEW t \in Threads, ForgetFiled(t)
  PROVE  FilingInv'
<1> PICK p, fp : p = home[t] /\ fp = FingerprintOf[call[t].finding]
  OBVIOUS
<1> DEFINE w == WithoutFiled(filed[p], fp)
<1>1. PICK k \in FrameType :
        Framed(t, k) /\ k.finding = call[t].finding /\ k.at = "create"
  BY ForgetFrame DEF Carries, Passes
<1>2. /\ call'[t] = k /\ home'[t] = p /\ p \in Instances /\ call[t].at = "pop"
      /\ filed' = [filed EXCEPT ![p] = w]
  BY <1>1, FramedIs, HomeFixed, ForgetFrame DEF Typed, CallOK
<1>3. issues' = issues
  BY DEF ForgetFiled
<1>4. Clear(p, fp)
  BY <1>2 DEF FilingInv, LookedInv, Looked
<1>5. Distinct(w) /\ HoldsRest(w, filed[p], fp)
  BY <1>2, WithoutIs DEF Typed, FilingInv
<1> HIDE DEF w
<1>6. filed'[p] = w /\ \A q \in Instances \ {p} : filed'[q] = filed[q]
  BY <1>2 DEF Typed, FiledOK
<1>7. \A q \in Instances : Distinct(filed'[q])
  BY <1>5, <1>6 DEF FilingInv
<1>8. LookedInv'
  <2>1. fp = FingerprintOf[k.finding]
    BY <1>1
  <2>2. Looked(k, p, t \in crossed)'
    BY <1>1, <1>3, <1>4, <2>1, SameTracker DEF Looked
  <2>3. Looked(call[t], home[t], t \in crossed)'
    BY <1>2, <2>2 DEF Looked
  <2> QED
    BY <1>1, <2>3, LookedKept DEF FilingInv
<1>9. ~ \E u \in Threads : Remember(u)
  <2>1. ASSUME NEW u \in Threads, Remember(u) PROVE FALSE
    <3>1. PICK e : /\ Patched(call[u].target, e) /\ call[u].target \in Numbers
                   /\ RememberFiled(home[u], FingerprintOf[call[u].finding], call[u].target)
                   /\ call[u].at = "remember"
      BY <2>1, RememberStep DEF Typed
    <3>2. PICK l \in FrameType : Framed(u, l) /\ l.at # "remember"
      BY <2>1, RememberFrame, Zenon
    <3>3. call'[u] = l /\ u # t
      BY <1>2, <3>1, <3>2, FramedIs DEF Typed
    <3>4. call'[u] = call[u]
      BY <1>1, <3>3, FramedIs DEF Typed
    <3> QED
      BY <3>1, <3>2, <3>3, <3>4
  <2> QED
    BY <2>1
<1>10. ASSUME NEW q \in Instances, NEW gp, NEW i \in Firm(q, gp), Held(q, gp, i)
       PROVE  Held(q, gp, i)' \/ Replaced(q, gp, i)'
  <2>1. CASE q # p
    BY <1>6, <1>10, <2>1 DEF Held
  <2>2. CASE q = p /\ gp = fp
    BY <1>3, <1>4, <1>10, <2>2, SameTracker DEF Clear
  <2>3. CASE q = p /\ gp # fp
    <3>1. PICK j \in DOMAIN filed[p] : filed[p][j] = [fingerprint |-> gp, issue |-> i]
      BY <1>10, <2>3 DEF Held
    <3>2. filed[p][j].fingerprint # fp
      BY <2>3, <3>1
    <3>3. \E m \in DOMAIN w : w[m] = filed[p][j]
      BY <1>5, <3>2 DEF HoldsRest
    <3> QED
      BY <1>6, <2>3, <3>1, <3>3 DEF Held
  <2> QED
    BY <2>1, <2>2, <2>3
<1>11. NewestInv'
  BY <1>9, <1>10, NewestKept, NothingFirm DEF FilingInv
<1>12. OneOpenPerInstance'
  BY <1>3, SameTracker, OneKept DEF FilingInv
<1>13. CrossInv'
  BY StepCrossInv DEF FilingInv
<1> QED
  BY <1>7, <1>8, <1>11, <1>12, <1>13 DEF FilingInv, Distinct

\* No other call takes the step of one that remembers.
LEMMA OnlyRemembers ==
  ASSUME Typed, NEW t \in Threads, call[t].at # "remember", NEW k, Framed(t, k)
  PROVE  ~ \E u \in Threads : Remember(u)
<1> SUFFICES ASSUME NEW u \in Threads, Remember(u) PROVE FALSE
  OBVIOUS
<1>1. call[u].at = "remember"
  BY RememberStep DEF Typed
<1>2. PICK l \in FrameType : Framed(u, l) /\ l.at # "remember"
  BY RememberFrame, Zenon
<1>3. call'[u] = l /\ call'[u] = call[u]
  BY <1>1, <1>2, FramedIs DEF Typed
<1> QED
  BY <1>1, <1>2, <1>3

\* What has just been filed, its instance does not know of yet.
LEMMA CreateFiling ==
  ASSUME Typed, [Next]_vars, FilingInv, NEW t \in Threads, Create(t)
  PROVE  FilingInv'
<1> PICK p, fp, m : /\ p = home[t] /\ fp = FingerprintOf[call[t].finding]
                    /\ m = Len(issues) + 1
  OBVIOUS
<1>1. PICK k \in FrameType :
        /\ Framed(t, k)
        /\ \/ k.at = "idle"
           \/ /\ k.at = "remember" /\ k.target = m /\ k.finding = call[t].finding
              /\ issues' = Append(issues, NewIssue(t))
  BY CreateFrame, Zenon DEF Carries
<1>2. call'[t] = k /\ home'[t] = p /\ call[t].at = "create" /\ filed' = filed
  BY <1>1, FramedIs, HomeFixed, CreateStep DEF Typed
<1>3. ~ \E u \in Threads : Remember(u)
  BY <1>1, <1>2, OnlyRemembers
<1>4. \A q, gp, i : i \in Firm(q, gp)' => i \in Firm(q, gp)
  BY <1>3, NothingFirm
<1>5. Numbers = 1..Len(issues) /\ Len(issues) \in Nat
  BY StepGrows
<1>6. LookedInv'
  <2>1. CASE k.at = "idle"
    BY <1>1, <2>1, LookedIdle DEF FilingInv
  <2>2. CASE k.at = "remember"
    <3>1. /\ k.target = m /\ k.finding = call[t].finding
          /\ issues' = Append(issues, NewIssue(t))
      BY <1>1, <2>2
    <3>2. issues'[m] = NewIssue(t) /\ Numbers' = Numbers \cup {m}
      BY <3>1, NewIssueType, FiledNew DEF Typed
    <3>3. issues'[m].fingerprint = fp /\ issues'[m].by = p
      BY <3>2 DEF NewIssue
    <3>4. \A i \in Firm(p, fp)' : i < m
      BY <1>4, <1>5 DEF Firm, Filed
    <3>5. \A j \in Numbers' : ~ (j > m)
      BY <1>5, <3>2
    <3>6. fp = FingerprintOf[k.finding]
      BY <3>1
    <3>7. Looked(k, p, t \in crossed)'
      BY <2>2, <3>1, <3>3, <3>4, <3>5, <3>6 DEF Looked
    <3>8. Looked(call[t], home[t], t \in crossed)'
      BY <1>2, <3>7 DEF Looked
    <3> QED
      BY <1>1, <3>8, LookedKept DEF FilingInv
  <2> QED
    BY <1>1, <2>1, <2>2
<1>7. ASSUME NEW j \in Numbers' \ Numbers PROVE Justified(j)'
  <2>1. j = m /\ issues' = Append(issues, NewIssue(t)) /\ issues'[j] = NewIssue(t)
    <3>1. PICK u \in Threads : /\ Create(u) /\ j = m /\ issues'[j] = NewIssue(u)
                               /\ issues' = Append(issues, NewIssue(u))
      BY <1>7, StepNew
    <3>2. issues' = Append(issues, NewIssue(t)) \/ issues' = issues
      BY CreateStep, Zenon DEF Typed
    <3>3. issues' # issues
      BY <1>7 DEF Numbers
    <3>4. issues'[j] = NewIssue(t)
      BY <3>1, <3>2, <3>3, NewIssueType, FiledNew DEF Typed
    <3> QED
      BY <3>1, <3>2, <3>3, <3>4
  <2>2. \A i \in Numbers : issues'[i] = issues[i]
    BY <2>1, NewIssueType, FiledNew DEF Typed
  <2>3. issues'[j].fingerprint = fp /\ issues'[j].by = p /\ issues'[j].blind = call[t].blind
    BY <2>1 DEF NewIssue
  <2>4. FiledBefore(j)' = Filed(p, fp)
    <3>1. \A i : i \in 1 .. j - 1 <=> i \in Numbers
      BY <1>5, <2>1
    <3> QED
      BY <2>2, <2>3, <3>1 DEF FiledBefore, Filed
  <2>5. ~call[t].blind => Clear(p, fp)
    BY <1>2 DEF FilingInv, LookedInv, Looked
  <2>6. SUFFICES ASSUME ~issues'[j].blind, NEW i \in FiledBefore(j)', issues'[i].apart,
                        issues'[i].open
                 PROVE  \E n \in FiledBefore(j)' : n > i
    BY DEF Justified
  <2>7. i \in Firm(p, fp)
    BY <2>2, <2>4, <2>6 DEF Firm, Filed
  <2>8. Replaced(p, fp, i)
    BY <2>3, <2>5, <2>6, <2>7 DEF Clear
  <2> QED
    BY <2>4, <2>8 DEF Replaced
<1>8. OneOpenPerInstance'
  BY <1>7, OneKept DEF FilingInv
<1>9. NewestInv'
  <2>1. \A q, gp, i : Held(q, gp, i) => Held(q, gp, i)'
    BY <1>2 DEF Held
  <2> QED
    BY <1>4, <2>1, NewestKept DEF FilingInv
<1>10. CrossInv'
  BY StepCrossInv DEF FilingInv
<1>11. \A q \in Instances : Distinct(filed'[q])
  BY <1>2 DEF FilingInv
<1> QED
  BY <1>6, <1>8, <1>9, <1>10, <1>11 DEF FilingInv, Distinct

\* The answer is there: the entry takes the place of an older one's.
LEMMA RememberFiling ==
  ASSUME Roomy, Typed, [Next]_vars, FilingInv, NEW t \in Threads, Remember(t)
  PROVE  FilingInv'
<1> PICK p, fp, n : /\ p = home[t] /\ fp = FingerprintOf[call[t].finding]
                    /\ n = call[t].target
  OBVIOUS
<1>1. PICK e : /\ n \in Numbers /\ call[t].at = "remember" /\ RememberFiled(p, fp, n)
               /\ Patched(n, e)
               /\ e = [issues[n] EXCEPT !.noted = TRUE, !.apart = (t \notin crossed)]
  BY RememberStep DEF Typed
<1>2. /\ Numbers' = Numbers /\ issues'[n] = e
      /\ \A i \in Numbers \ {n} : issues'[i] = issues[i]
  BY <1>1, PatchedIs DEF Typed
<1>3. /\ issues[n].fingerprint = fp /\ issues[n].by = p
      /\ \A i \in Firm(p, fp) : i < n
  BY <1>1 DEF FilingInv, LookedInv, Looked
<1>4. issues[n] \in IssueType
  BY <1>1, TrackerDomain DEF Typed
<1>5. issues'[n].fingerprint = fp /\ issues'[n].by = p /\ issues'[n].noted
  BY <1>1, <1>2, <1>3, <1>4 DEF IssueType
<1>6. p \in Instances /\ fp \in Fingerprints /\ n \in Numbers'
  BY <1>1, <1>2, FingerprintIn DEF Typed, CallOK, FrameType
<1>7. /\ \A q \in Instances : Distinct(filed'[q])
      /\ Held(p, fp, n)'
      /\ \A q \in Instances : \A gp, i :
           Held(q, gp, i) /\ ~ (q = p /\ gp = fp) => Held(q, gp, i)'
  BY <1>1, <1>2, <1>6, RememberKeeps DEF Typed, FilingInv
<1>8. n \in Filed(p, fp)'
  BY <1>1, <1>2, <1>5 DEF Filed
<1>9. ASSUME NEW q \in Instances, NEW gp, NEW i, i \in Firm(q, gp)'
      PROVE  i \in Firm(q, gp) \/ Held(q, gp, i)' \/ Replaced(q, gp, i)'
  <2>1. CASE i = n
    <3>1. q = p /\ gp = fp
      BY <1>5, <1>9, <2>1 DEF Firm, Filed
    <3> QED
      BY <1>7, <2>1, <3>1
  <2>2. CASE i # n
    BY <1>2, <1>9, <2>2 DEF Firm, Filed
  <2> QED
    BY <2>1, <2>2
<1>10. ASSUME NEW q \in Instances, NEW gp, NEW i \in Firm(q, gp), Held(q, gp, i)
       PROVE  Held(q, gp, i)' \/ Replaced(q, gp, i)'
  <2>1. CASE q = p /\ gp = fp
    <3>1. n > i
      BY <1>3, <2>1, StepGrows DEF Firm, Filed
    <3> QED
      BY <1>8, <2>1, <3>1 DEF Replaced
  <2> QED
    BY <1>7, <1>10, <2>1
<1>11. NewestInv'
  BY <1>9, <1>10, NewestKept DEF FilingInv
<1>12. OneOpenPerInstance'
  BY <1>2, OneKept DEF FilingInv
<1>13. LookedInv'
  <2>1. PICK k \in FrameType : Framed(t, k) /\ k.at \in {"idle", "label"}
    BY RememberFrame, Zenon
  <2> QED
    BY <2>1, LookedIdle DEF FilingInv
<1>14. CrossInv'
  BY StepCrossInv DEF FilingInv
<1> QED
  BY <1>7, <1>11, <1>12, <1>13, <1>14 DEF FilingInv, Distinct

LEMMA InitFiling == Init => FilingInv
<1> SUFFICES ASSUME Init PROVE FilingInv
  OBVIOUS
<1>1. Numbers = {} /\ \A t \in Threads : call[t] = Idle
  BY DEF Init, Numbers
<1>2. (\A p \in Instances : Distinct(filed[p])) /\ NewestInv
  BY <1>1 DEF Init, Distinct, NewestInv, Firm, Filed
<1>3. LookedInv /\ CrossInv
  BY <1>1, IdleFrame DEF LookedInv, Looked, CrossInv, Meet
<1>4. OneOpenPerInstance
  BY <1>1 DEF OneOpenPerInstance
<1> QED
  BY <1>2, <1>3, <1>4 DEF FilingInv

LEMMA StepFiling == Roomy /\ Typed /\ FilingInv /\ [Next]_vars => FilingInv'
<1> SUFFICES ASSUME Roomy, Typed, FilingInv, [Next]_vars PROVE FilingInv'
  OBVIOUS
<1>1. ASSUME NEW t \in Threads, NEW k, Framed(t, k), call[t].at # "remember",
             filed' = filed, Numbers' = Numbers, LookedInv'
      PROVE  FilingInv'
  BY <1>1, OnlyRemembers, QuietFiling
<1>2. ASSUME NEW t \in Threads, NEW f \in Findings, Begin(t, f) PROVE FilingInv'
  <2>1. PICK k \in FrameType : Framed(t, k) /\ k.at = "search"
    BY <1>2, BeginFrame DEF Typed
  <2>2. call[t].at # "remember" /\ filed' = filed /\ Numbers' = Numbers
    BY <1>2 DEF Begin, At, Numbers
  <2>3. LookedInv'
    BY <2>1, LookedIdle DEF FilingInv
  <2> QED
    BY <1>1, <2>1, <2>2, <2>3
<1>3. ASSUME NEW t \in Threads, Search(t) \/ ReadBack(t) \/ GetIssue(t) PROVE FilingInv'
  <2>1. PICK k : Framed(t, k)
    BY <1>3, SearchFrame, ReadBackFrame, GetFrame, Zenon
  <2>2. call[t].at # "remember" /\ filed' = filed /\ Numbers' = Numbers
    BY <1>3 DEF Search, ReadBack, GetIssue, At, Numbers
  <2>3. LookedInv'
    BY <1>3, SearchFiling, ReadBackFiling, GetFiling
  <2> QED
    BY <1>1, <2>1, <2>2, <2>3
<1>4. ASSUME NEW t \in Threads, PostRecurrence(t) PROVE FilingInv'
  <2>1. PICK k \in FrameType : Framed(t, k) /\ k.at = "bump"
    BY <1>4, CommentFrame, Zenon
  <2>2. call[t].at # "remember" /\ filed' = filed
    BY <1>4 DEF PostRecurrence, At
  <2>3. Numbers' = Numbers
    BY <1>4, CommentStep, PatchedIs, Zenon DEF Typed, Numbers
  <2>4. LookedInv'
    BY <2>1, LookedIdle DEF FilingInv
  <2> QED
    BY <1>1, <2>1, <2>2, <2>3, <2>4
<1>5. ASSUME NEW t \in Threads, BumpOccurrences(t) \/ AddLabel(t) PROVE FilingInv'
  <2>1. Framed(t, Idle)
    BY <1>5, ReturnFrame DEF BumpOccurrences, AddLabel
  <2>2. call[t].at # "remember" /\ filed' = filed
    BY <1>5 DEF BumpOccurrences, AddLabel, At
  <2>3. Numbers' = Numbers
    BY <1>5, BumpStep, LabelStep, PatchedIs, Zenon DEF Typed, Numbers
  <2>4. LookedInv'
    BY <2>1, LookedIdle, IdleFrame DEF FilingInv
  <2> QED
    BY <1>1, <2>1, <2>2, <2>3, <2>4
<1>6. ASSUME Still PROVE FilingInv'
  <2>1. call' = call /\ filed' = filed
    BY <1>6, StillIs, Zenon DEF Still, Collapse, Tick, vars, Reindex, Close
  <2>2. issues' = issues \/ \E n, e : Patched(n, e)
    BY <1>6, CloseStep, Zenon DEF Still, Collapse, Tick, vars, Reindex, Typed
  <2>3. Numbers' = Numbers
    BY <2>2, PatchedIs DEF Typed, Numbers
  <2>4. LookedInv'
    <3>1. \A u \in Threads : Looked(call[u], home[u], u \in crossed)'
      BY <2>1, LookedStays DEF FilingInv
    <3> QED
      BY <3>1 DEF LookedInv
  <2>5. ~ \E u \in Threads : Remember(u)
    <3>1. ASSUME NEW u \in Threads, Remember(u) PROVE FALSE
      <4>1. PICK l \in FrameType : Framed(u, l) /\ l.at # "remember"
        BY <3>1, RememberFrame, Zenon
      <4>2. call'[u] = l /\ call[u].at = "remember"
        BY <3>1, <4>1, FramedIs, RememberStep DEF Typed
      <4> QED
        BY <2>1, <4>1, <4>2
    <3> QED
      BY <3>1
  <2> QED
    BY <2>1, <2>3, <2>4, <2>5, QuietFiling
<1> QED
  BY <1>2, <1>3, <1>4, <1>5, <1>6, ForgetFiling, CreateFiling, RememberFiling, Zenon
     DEF Next, Step, Still

\* OneOpenPerInstance: of the issues an instance knows it has filed for a
\* finding the last one is closed before it files another, in a table with room
\* for every fingerprint, unless a lookup of that send failed or another send of
\* the finding went through the instance while that one was filed.
THEOREM OneOpen ==
  ASSUME Roomy
  PROVE  Spec => []OneOpenPerInstance
<1>1. Init => Typed /\ FilingInv
  BY InitTyped, InitFiling
<1>2. Typed /\ FilingInv /\ [Next]_vars => (Typed /\ FilingInv)'
  BY StepTyped, StepFiling
<1>3. FilingInv => OneOpenPerInstance
  BY DEF FilingInv
<1> QED
  BY <1>1, <1>2, <1>3, PTL DEF Spec

(***************************************************************************)
(* The counter in the body                                                 *)
(***************************************************************************)

\* What a frame has read of the body of issue i is no more than happened, and
\* if it was the body as it stood, it still is while no one comes between.
Read(k, i) == /\ k.count <= 1 + i.recurred
              /\ k.fresh /\ i.undisturbed => k.count = i.count

ReadInv ==
  \A t \in Threads : call[t].at \in {"comment", "bump"} =>
    \A n : n = call[t].target => Read(call[t], issues[n])

CountsInv ==
  \A n \in Numbers :
    /\ issues[n].count <= 1 + issues[n].recurred
    /\ index[n].count <= 1 + issues[n].recurred
    /\ issues[n].undisturbed => issues[n].count = 1 + issues[n].recurred

\* The calls that commented on n, or failed to, and have not yet returned.
Bumping(n) == {t \in Threads : call[t].at = "bump" /\ call[t].target = n}

CommentInv ==
  \A n \in Numbers :
    issues[n].comments + faults >= issues[n].recurred + Cardinality(Bumping(n))

CountInv == ReadInv /\ CountsInv /\ CommentInv

SameCount(e, i) == /\ e.count = i.count /\ e.recurred = i.recurred
                   /\ e.undisturbed = i.undisturbed

LEMMA BumpingFinite ==
  \A n : IsFiniteSet(Bumping(n)) /\ Cardinality(Bumping(n)) \in Nat
<1> SUFFICES ASSUME NEW n PROVE IsFiniteSet(Bumping(n)) /\ Cardinality(Bumping(n)) \in Nat
  OBVIOUS
<1>1. IsFiniteSet(Threads) /\ Bumping(n) \subseteq Threads
  BY GithubAssumption DEF Bumping
<1>2. IsFiniteSet(Bumping(n))
  BY <1>1, FS_Subset
<1> QED
  BY <1>2, FS_CardinalityType

\* Who counts as bumping when the frame of t becomes k.
LEMMA BumpingIs ==
  ASSUME CallOK, NEW t \in Threads, NEW k, Framed(t, k), NEW n
  PROVE  /\ k.at # "bump" => Bumping(n)' = Bumping(n) \ {t}
         /\ k.at = "bump" /\ k.target = n => Bumping(n)' = Bumping(n) \cup {t}
         /\ k.at = "bump" /\ k.target # n => Bumping(n)' = Bumping(n) \ {t}
<1>1. call'[t] = k /\ \A u \in Threads \ {t} : call'[u] = call[u]
  BY FramedIs
<1> QED
  BY <1>1 DEF Bumping

\* Only a patch of the body changes a count.
LEMMA StepCounts ==
  ASSUME Typed, [Next]_vars
  PROVE  \/ \E t \in Threads : BumpOccurrences(t)
         \/ \A n \in Numbers : SameCount(issues'[n], issues[n])
<1>1. ASSUME issues' = issues PROVE \A n \in Numbers : SameCount(issues'[n], issues[n])
  BY <1>1 DEF SameCount
<1>2. ASSUME NEW n, NEW e, Patched(n, e), SameCount(e, issues[n])
      PROVE  \A m \in Numbers : SameCount(issues'[m], issues[m])
  <2>1. issues'[n] = e /\ \A m \in Numbers \ {n} : issues'[m] = issues[m]
    BY <1>2, PatchedIs DEF Typed
  <2> QED
    BY <1>2, <2>1 DEF SameCount
<1>3. ASSUME NEW t \in Threads, PostRecurrence(t)
      PROVE  \A n \in Numbers : SameCount(issues'[n], issues[n])
  <2>1. CASE issues' = issues
    BY <1>1, <2>1
  <2>2. CASE \E e \in IssueType : /\ Patched(call[t].target, e)
                                  /\ e = [issues[call[t].target] EXCEPT !.comments = @ + 1]
    <3>1. PICK e \in IssueType : /\ Patched(call[t].target, e)
                                 /\ e = [issues[call[t].target] EXCEPT !.comments = @ + 1]
      BY <2>2
    <3>2. issues[call[t].target] \in IssueType
      BY <1>3, CommentStep, TrackerDomain DEF Typed
    <3>3. SameCount(e, issues[call[t].target])
      BY <3>1, <3>2 DEF SameCount, IssueType
    <3> QED
      BY <1>2, <3>1, <3>3
  <2> QED
    BY <1>3, <2>1, <2>2, CommentStep, Zenon DEF Typed
<1>4. ASSUME NEW t \in Threads, AddLabel(t)
      PROVE  \A n \in Numbers : SameCount(issues'[n], issues[n])
  <2>1. CASE issues' = issues
    BY <1>1, <2>1
  <2>2. CASE \E e \in IssueType : /\ Patched(call[t].target, e)
                                  /\ e = [issues[call[t].target] EXCEPT !.labelled = TRUE]
    <3>1. PICK e \in IssueType : /\ Patched(call[t].target, e)
                                 /\ e = [issues[call[t].target] EXCEPT !.labelled = TRUE]
      BY <2>2
    <3>2. issues[call[t].target] \in IssueType
      BY <1>4, LabelStep, TrackerDomain DEF Typed
    <3>3. SameCount(e, issues[call[t].target])
      BY <3>1, <3>2 DEF SameCount, IssueType
    <3> QED
      BY <1>2, <3>1, <3>3
  <2> QED
    BY <1>4, <2>1, <2>2, LabelStep, Zenon DEF Typed
<1>5. ASSUME NEW n \in Numbers, Close(n)
      PROVE  \A m \in Numbers : SameCount(issues'[m], issues[m])
  <2>1. PICK e \in IssueType : Patched(n, e) /\ e = [issues[n] EXCEPT !.open = FALSE]
    BY <1>5, CloseStep DEF Typed
  <2>2. issues[n] \in IssueType
    BY TrackerDomain DEF Typed
  <2>3. SameCount(e, issues[n])
    BY <2>1, <2>2 DEF SameCount, IssueType
  <2> QED
    BY <1>2, <2>1, <2>3
<1>6. ASSUME NEW t \in Threads, Create(t)
      PROVE  \A n \in Numbers : SameCount(issues'[n], issues[n])
  <2>1. issues' = issues \/ issues' = Append(issues, NewIssue(t))
    BY <1>6, CreateStep, Zenon DEF Typed
  <2>2. ASSUME issues' = Append(issues, NewIssue(t))
        PROVE  \A n \in Numbers : SameCount(issues'[n], issues[n])
    <3>1. \A n \in Numbers : issues'[n] = issues[n]
      BY <2>2, NewIssueType, FiledNew DEF Typed
    <3> QED
      BY <3>1 DEF SameCount
  <2> QED
    BY <1>1, <2>1, <2>2
<1>7. ASSUME NEW t \in Threads, Remember(t)
      PROVE  \A n \in Numbers : SameCount(issues'[n], issues[n])
  <2>1. PICK e \in IssueType :
          /\ Patched(call[t].target, e) /\ call[t].target \in Numbers
          /\ e = [issues[call[t].target] EXCEPT !.noted = TRUE, !.apart = (t \notin crossed)]
    BY <1>7, RememberStep DEF Typed
  <2>2. issues[call[t].target] \in IssueType
    BY <2>1, TrackerDomain DEF Typed
  <2>3. SameCount(e, issues[call[t].target])
    BY <2>1, <2>2 DEF SameCount, IssueType
  <2> QED
    BY <1>2, <2>1, <2>3
<1>8. ASSUME (\E t \in Threads : Looking(t)) \/ Tick \/ UNCHANGED vars \/ \E n \in Numbers : Reindex(n)
      PROVE  issues' = issues
  BY <1>8, LookingQuiet, Zenon DEF Tick, vars, Reindex
<1> HIDE DEF SameCount
<1> QED
  BY <1>1, <1>3, <1>4, <1>5, <1>6, <1>7, <1>8, Zenon DEF Next, Step, Looking

LEMMA ReadKept ==
  ASSUME Typed, ReadInv, NEW t \in Threads, NEW k, Framed(t, k),
         k.at \in {"comment", "bump"} => Read(k, issues'[k.target]),
         \A u \in Threads \ {t} : \A n :
           call[u].at \in {"comment", "bump"} /\ n = call[u].target => Read(call[u], issues'[n])
  PROVE  ReadInv'
<1>1. call'[t] = k /\ \A u \in Threads \ {t} : call'[u] = call[u]
  BY FramedIs DEF Typed
<1>2. ASSUME NEW u \in Threads, NEW l, l = call'[u], l.at \in {"comment", "bump"},
             NEW n, n = l.target
      PROVE  Read(l, issues'[n])
  <2>1. CASE u = t
    BY <1>1, <1>2, <2>1
  <2>2. CASE u # t
    BY <1>1, <1>2, <2>2
  <2> QED
    BY <2>1, <2>2
<1> QED
  BY <1>2 DEF ReadInv, Read

LEMMA ReadSame ==
  ASSUME Typed, ReadInv, \A n \in Numbers : SameCount(issues'[n], issues[n]),
         NEW u \in Threads, call[u].at \in {"comment", "bump"}, NEW n, n = call[u].target
  PROVE  Read(call[u], issues'[n])
<1>1. n \in Numbers
  BY DEF Typed, TargetInv, Aiming
<1>2. Read(call[u], issues[n])
  BY DEF ReadInv
<1> QED
  BY <1>1, <1>2 DEF Read, SameCount

\* A send that read an issue's count read no more than happened, and the body
\* as it stands if it was fresh.
LEMMA GoesOnRead ==
  ASSUME Typed, CountsInv, NEW t \in Threads, NEW k, NEW n \in Numbers, NEW c, GoesOn(t, k, n, c),
         c = index[n].count \/ c = issues[n].count
  PROVE  k.target = n /\ Read(k, issues[n])
<1>1. c <= 1 + issues[n].recurred
  BY DEF CountsInv
<1> QED
  BY <1>1 DEF GoesOn, Read

LEMMA StepRead == Typed /\ CountInv /\ [Next]_vars => ReadInv'
<1> SUFFICES ASSUME Typed, ReadInv, CountsInv, [Next]_vars PROVE ReadInv'
  BY DEF CountInv
<1>1. ASSUME \A n \in Numbers : SameCount(issues'[n], issues[n]),
             NEW t \in Threads, NEW k, Framed(t, k),
             k.at \in {"comment", "bump"} =>
               k.target \in Numbers /\ Read(k, issues[k.target])
      PROVE  ReadInv'
  <2>1. k.at \in {"comment", "bump"} => Read(k, issues'[k.target])
    BY <1>1 DEF Read, SameCount
  <2>2. \A u \in Threads \ {t} : \A n :
           call[u].at \in {"comment", "bump"} /\ n = call[u].target => Read(call[u], issues'[n])
    BY <1>1, ReadSame
  <2> QED
    BY <1>1, <2>1, <2>2, ReadKept
<1>2. ASSUME \A n \in Numbers : SameCount(issues'[n], issues[n]), call' = call PROVE ReadInv'
  <2>1. \A u \in Threads : \A n :
           call[u].at \in {"comment", "bump"} /\ n = call[u].target => Read(call[u], issues'[n])
    BY <1>2, ReadSame
  <2> QED
    BY <1>2, <2>1 DEF ReadInv, Read
<1>3. ASSUME NEW t \in Threads, BumpOccurrences(t) PROVE ReadInv'
  <2> PICK n : n = call[t].target
    OBVIOUS
  <2>1. n \in Numbers /\ call[t].at = "bump" /\ Return(t)
    BY <1>3, BumpStep DEF Typed
  <2>2. PICK e \in IssueType :
          /\ Patched(n, e) /\ e.recurred = issues[n].recurred + 1
          /\ e.undisturbed => Lonely(t)
    <3>1. \E e \in IssueType :
            /\ Patched(n, e) /\ e.recurred = issues[n].recurred + 1
            /\ \/ e.undisturbed = (issues[n].undisturbed /\ Lonely(t) /\ call[t].fresh)
               \/ e.undisturbed = FALSE
      BY <1>3, BumpStep, Zenon DEF Typed
    <3> QED
      BY <3>1
  <2>3. issues'[n] = e /\ \A m \in Numbers \ {n} : issues'[m] = issues[m]
    BY <2>2, PatchedIs DEF Typed
  <2>4. Framed(t, Idle)
    BY <2>1, ReturnFrame
  <2>5. ASSUME NEW u \in Threads \ {t}, NEW m, call[u].at \in {"comment", "bump"},
               m = call[u].target
        PROVE  Read(call[u], issues'[m])
    <3>1. m \in Numbers /\ Read(call[u], issues[m])
      BY <2>5 DEF Typed, TargetInv, Aiming, ReadInv
    <3>2. CASE m # n
      BY <2>3, <3>1, <3>2
    <3>3. CASE m = n
      <4>1. ~Lonely(t)
        BY <2>5 DEF Lonely, At
      <4>2. issues[n].recurred \in Nat /\ call[u].count \in Nat
        BY <2>1, TrackerDomain DEF Typed, IssueType, CallOK, FrameType
      <4>3. call[u].count <= 1 + e.recurred
        BY <2>2, <3>1, <3>3, <4>2 DEF Read
      <4> QED
        BY <2>2, <2>3, <3>3, <4>1, <4>3 DEF Read
    <3> QED
      BY <3>2, <3>3
  <2> QED
    BY <2>4, <2>5, IdleFrame, ReadKept
<1>4. ASSUME NEW t \in Threads, AddLabel(t), \A n \in Numbers : SameCount(issues'[n], issues[n])
      PROVE  ReadInv'
  BY <1>1, <1>4, ReturnFrame, IdleFrame DEF AddLabel
<1>5. ASSUME NEW t \in Threads, NEW f \in Findings, Begin(t, f),
             \A n \in Numbers : SameCount(issues'[n], issues[n])
      PROVE  ReadInv'
  <2>1. PICK k \in FrameType : Framed(t, k) /\ k.at = "search"
    BY <1>5, BeginFrame DEF Typed
  <2> QED
    BY <1>1, <1>5, <2>1
<1>6. ASSUME NEW t \in Threads, Create(t), \A n \in Numbers : SameCount(issues'[n], issues[n])
      PROVE  ReadInv'
  <2>1. PICK k \in FrameType : Framed(t, k) /\ (k.at = "idle" \/ k.at = "remember")
    BY <1>6, CreateFrame, Zenon
  <2> QED
    BY <1>1, <1>6, <2>1
<1>11. ASSUME NEW t \in Threads, Remember(t), \A n \in Numbers : SameCount(issues'[n], issues[n])
       PROVE  ReadInv'
  <2>1. PICK k \in FrameType : Framed(t, k) /\ (k.at = "idle" \/ k.at = "label")
    BY <1>11, RememberFrame, Zenon
  <2> QED
    BY <1>1, <1>11, <2>1
<1>7. ASSUME NEW t \in Threads, PostRecurrence(t), \A n \in Numbers : SameCount(issues'[n], issues[n])
      PROVE  ReadInv'
  <2>1. PICK k \in FrameType :
           /\ Framed(t, k) /\ k.at = "bump"
           /\ k.target = call[t].target /\ k.count = call[t].count /\ k.fresh = call[t].fresh
    BY <1>7, CommentFrame, Zenon
  <2>2. call[t].target \in Numbers /\ Read(call[t], issues[call[t].target])
    BY <1>7, CommentStep DEF Typed, ReadInv
  <2> QED
    BY <1>1, <1>7, <2>1, <2>2 DEF Read
<1>8. ASSUME NEW t \in Threads, Search(t), \A n \in Numbers : SameCount(issues'[n], issues[n])
      PROVE  ReadInv'
  <2>1. PICK k \in FrameType :
           /\ Framed(t, k)
           /\ (\E n \in Numbers : GoesOn(t, k, n, index[n].count)) \/ k.at = "readback"
    BY <1>8, SearchFrame, Zenon DEF Passes
  <2>2. k.at \in {"comment", "bump"} => k.target \in Numbers /\ Read(k, issues[k.target])
    BY <2>1, GoesOnRead
  <2> QED
    BY <1>1, <1>8, <2>1, <2>2
<1>12. ASSUME NEW t \in Threads, ReadBack(t) \/ ForgetFiled(t),
              \A n \in Numbers : SameCount(issues'[n], issues[n])
       PROVE  ReadInv'
  <2>1. PICK k \in FrameType : Framed(t, k) /\ (k.at = "create" \/ k.at = "get")
    BY <1>12, ReadBackFrame, ForgetFrame DEF Passes
  <2> QED
    BY <1>1, <1>12, <2>1
<1>9. ASSUME NEW t \in Threads, GetIssue(t), \A n \in Numbers : SameCount(issues'[n], issues[n])
      PROVE  ReadInv'
  <2>1. PICK k \in FrameType :
           /\ Framed(t, k)
           /\ \/ \E n \in Numbers : GoesOn(t, k, n, issues[n].count)
              \/ k.at = "create" \/ k.at = "pop"
    BY <1>9, GetFrame DEF Passes
  <2>2. k.at \in {"comment", "bump"} => k.target \in Numbers /\ Read(k, issues[k.target])
    BY <2>1, GoesOnRead
  <2> QED
    BY <1>1, <1>9, <2>1, <2>2
<1>10. ASSUME Still PROVE call' = call
  BY <1>10, StillIs
<1> QED
  BY <1>2, <1>3, <1>4, <1>5, <1>6, <1>7, <1>8, <1>9, <1>10, <1>11, <1>12, StepCounts, Zenon
     DEF Next, Step, Still

\* What CountsInv says of one issue and its entry in the index.
Counted(i, x) == /\ i.count <= 1 + i.recurred
                 /\ x.count <= 1 + i.recurred
                 /\ i.undisturbed => i.count = 1 + i.recurred

LEMMA CountsInvIs == CountsInv <=> \A n \in Numbers : Counted(issues[n], index[n])
BY DEF CountsInv, Counted

\* What a step makes of the search endpoint's answer about an issue.
LEMMA StepIndex ==
  ASSUME Typed, [Next]_vars, NEW n \in Numbers
  PROVE  index'[n] = index[n] \/ (index'[n].count = issues[n].count /\ issues' = issues)
<1>1. ASSUME NEW m \in Numbers, Reindex(m)
      PROVE  index'[n] = index[n] \/ (index'[n].count = issues[n].count /\ issues' = issues)
  BY <1>1 DEF Reindex, Typed, TrackerOK
<1>2. ASSUME NEW t \in Threads, Create(t) PROVE index'[n] = index[n]
  <2>1. index' = index \/ index' = Append(index, Unindexed)
    BY <1>2, CreateStep, Zenon DEF Typed
  <2>2. index \in Seq([open : BOOLEAN, count : Nat]) /\ n \in 1..Len(index)
    BY TrackerDomain DEF Typed
  <2>3. Unindexed \in [open : BOOLEAN, count : Nat] /\ n \in DOMAIN index
    BY <2>2 DEF Unindexed
  <2> QED
    BY <2>1, <2>2, <2>3, AppendIs
<1>3. ASSUME \/ \E t \in Threads : \/ Looking(t) \/ PostRecurrence(t) \/ BumpOccurrences(t)
                                   \/ Remember(t) \/ AddLabel(t)
             \/ Tick \/ UNCHANGED vars \/ \E m \in Numbers : Close(m)
      PROVE  index' = index
  BY <1>3, LookingQuiet, Zenon DEF PostRecurrence, BumpOccurrences, Remember, AddLabel,
                                   Tick, vars, Close
<1> QED
  BY <1>1, <1>2, <1>3, Zenon DEF Next, Step, Looking

\* A new issue: counted once, and not in the index yet.
LEMMA NewCount ==
  ASSUME Typed, [Next]_vars, NEW n \in Numbers' \ Numbers
  PROVE  /\ issues'[n].count = 1 /\ issues'[n].recurred = 0 /\ issues'[n].comments = 0
         /\ index'[n] = Unindexed
         /\ \E t \in Threads : Create(t)
<1>1. PICK t \in Threads : /\ Create(t) /\ n = Len(issues) + 1
                           /\ index' = Append(index, Unindexed) /\ issues'[n] = NewIssue(t)
  BY StepNew
<1>2. index \in Seq([open : BOOLEAN, count : Nat]) /\ Len(index) = Len(issues)
  BY TrackerDomain DEF Typed
<1>3. Unindexed \in [open : BOOLEAN, count : Nat]
  BY DEF Unindexed
<1>4. index'[n] = Unindexed
  BY <1>1, <1>2, <1>3, AppendIs
<1> QED
  BY <1>1, <1>4 DEF NewIssue

LEMMA StepCountsInv == Typed /\ CountInv /\ [Next]_vars => CountsInv'
<1> SUFFICES ASSUME Typed, ReadInv, CountsInv, [Next]_vars, NEW n \in Numbers'
             PROVE  Counted(issues'[n], index'[n])
  BY CountsInvIs DEF CountInv, CountsInv, Counted
<1>1. CASE n \notin Numbers
  <2>1. n \in Numbers' \ Numbers
    BY <1>1
  <2>2. issues'[n].count = 1 /\ issues'[n].recurred = 0 /\ index'[n].count = 0
    BY <2>1, NewCount DEF Unindexed
  <2> QED
    BY <2>2 DEF Counted
<1>2. CASE n \in Numbers
  <2>1. Counted(issues[n], index[n])
    BY <1>2, CountsInvIs
  <2>2. index'[n] = index[n] \/ (index'[n].count = issues[n].count /\ issues' = issues)
    BY <1>2, StepIndex
  <2>3. CASE SameCount(issues'[n], issues[n])
    BY <2>1, <2>2, <2>3 DEF Counted, SameCount
  <2>4. ASSUME NEW t \in Threads, BumpOccurrences(t) PROVE Counted(issues'[n], index'[n])
    <3> PICK m : m = call[t].target
      OBVIOUS
    <3>1. m \in Numbers /\ call[t].at = "bump"
      BY <2>4, BumpStep DEF Typed
    <3>2. PICK e \in IssueType :
            /\ Patched(m, e) /\ e.recurred = issues[m].recurred + 1
            /\ \/ /\ e.count = call[t].count + 1
                  /\ e.undisturbed = (issues[m].undisturbed /\ Lonely(t) /\ call[t].fresh)
               \/ e.count = issues[m].count /\ e.undisturbed = FALSE
      BY <2>4, BumpStep, Zenon DEF Typed
    <3>3. issues'[m] = e /\ \A i \in Numbers \ {m} : issues'[i] = issues[i]
      BY <3>2, PatchedIs DEF Typed
    <3>4. index' = index
      BY <2>4 DEF BumpOccurrences
    <3>5. CASE n # m
      BY <1>2, <2>1, <3>3, <3>4, <3>5
    <3>6. CASE n = m
      <4>1. Read(call[t], issues[m])
        BY <3>1 DEF ReadInv
      <4>2. /\ issues[m].recurred \in Nat /\ issues[m].count \in Nat
            /\ index[m].count \in Nat /\ call[t].count \in Nat
        BY <3>1, TrackerDomain DEF Typed, IssueType, TrackerOK, CallOK, FrameType
      <4> HIDE DEF Lonely
      <4>3. e.count <= 1 + e.recurred /\ index[m].count <= 1 + e.recurred
        BY <2>1, <3>2, <3>6, <4>1, <4>2 DEF Counted, Read
      <4>4. ASSUME e.undisturbed PROVE e.count = 1 + e.recurred
        <5>1. e.count = call[t].count + 1 /\ issues[m].undisturbed /\ call[t].fresh
          BY <3>2, <4>4
        <5> QED
          BY <2>1, <3>2, <3>6, <4>1, <4>2, <5>1 DEF Counted, Read
      <4> QED
        BY <3>3, <3>4, <3>6, <4>3, <4>4 DEF Counted
    <3> QED
      BY <3>5, <3>6
  <2> QED
    BY <1>2, <2>3, <2>4, StepCounts
<1> QED
  BY <1>1, <1>2

\* What CommentInv says of issue i when so many calls are bumping it.
Noted(i, lost, bumping) == i.comments + lost >= i.recurred + bumping

LEMMA CommentInvIs ==
  CommentInv <=> \A n \in Numbers : Noted(issues[n], faults, Cardinality(Bumping(n)))
BY DEF CommentInv, Noted

LEMMA NobodyBumps == ASSUME Typed, NEW n, n \notin Numbers PROVE Bumping(n) = {}
BY DEF Bumping, Typed, TargetInv, Aiming

\* The comments and recurrences of issue n are as they were.
SameNotes(n) == /\ issues'[n].comments = issues[n].comments
                /\ issues'[n].recurred = issues[n].recurred

\* Only a comment, or the patch after it, touches them.
LEMMA StepNotes ==
  ASSUME Typed, [Next]_vars
  PROVE  \/ \E t \in Threads : PostRecurrence(t) \/ BumpOccurrences(t)
         \/ \A n \in Numbers : SameNotes(n)
<1>1. ASSUME issues' = issues PROVE \A n \in Numbers : SameNotes(n)
  BY <1>1 DEF SameNotes
<1>2. ASSUME NEW n, NEW e, Patched(n, e),
             \/ e = [issues[n] EXCEPT !.labelled = TRUE] \/ e = [issues[n] EXCEPT !.open = FALSE]
             \/ \E b : e = [issues[n] EXCEPT !.noted = TRUE, !.apart = b]
      PROVE  \A m \in Numbers : SameNotes(m)
  <2>1. issues'[n] = e /\ \A m \in Numbers \ {n} : issues'[m] = issues[m]
    BY <1>2, PatchedIs DEF Typed
  <2>2. issues[n] \in IssueType
    BY <1>2, TrackerDomain DEF Typed, Patched
  <2>3. e.comments = issues[n].comments /\ e.recurred = issues[n].recurred
    BY <1>2, <2>2 DEF IssueType
  <2> QED
    BY <2>1, <2>3 DEF SameNotes
<1>3. ASSUME NEW t \in Threads, AddLabel(t) PROVE \A n \in Numbers : SameNotes(n)
  <2>1. \/ issues' = issues
        \/ \E n, e : Patched(n, e) /\ e = [issues[n] EXCEPT !.labelled = TRUE]
    BY <1>3, LabelStep, Zenon DEF Typed
  <2> QED
    BY <1>1, <1>2, <2>1, Zenon
<1>4. ASSUME NEW n \in Numbers, Close(n) PROVE \A m \in Numbers : SameNotes(m)
  <2>1. \E e : Patched(n, e) /\ e = [issues[n] EXCEPT !.open = FALSE]
    BY <1>4, CloseStep, Zenon DEF Typed
  <2> QED
    BY <1>2, <2>1, Zenon
<1>7. ASSUME NEW t \in Threads, Remember(t) PROVE \A n \in Numbers : SameNotes(n)
  <2>1. \E n, e : /\ Patched(n, e)
                  /\ \E b : e = [issues[n] EXCEPT !.noted = TRUE, !.apart = b]
    BY <1>7, RememberStep DEF Typed
  <2> QED
    BY <1>2, <2>1, Zenon
<1>5. ASSUME NEW t \in Threads, Create(t) PROVE \A n \in Numbers : SameNotes(n)
  <2>1. issues' = issues \/ issues' = Append(issues, NewIssue(t))
    BY <1>5, CreateStep, Zenon DEF Typed
  <2>2. ASSUME issues' = Append(issues, NewIssue(t))
        PROVE  \A n \in Numbers : SameNotes(n)
    <3>1. \A n \in Numbers : issues'[n] = issues[n]
      BY <2>2, NewIssueType, FiledNew DEF Typed
    <3> QED
      BY <3>1 DEF SameNotes
  <2> QED
    BY <1>1, <2>1, <2>2
<1>6. ASSUME (\E t \in Threads : Looking(t)) \/ Tick \/ UNCHANGED vars \/ \E n \in Numbers : Reindex(n)
      PROVE  issues' = issues
  BY <1>6, LookingQuiet, Zenon DEF Tick, vars, Reindex
<1> HIDE DEF SameNotes
<1> QED
  BY <1>1, <1>3, <1>4, <1>5, <1>6, <1>7, Zenon DEF Next, Step, Looking

\* Elsewhere the same calls are bumping as before.
LEMMA StepBumping ==
  ASSUME Typed, [Next]_vars
  PROVE  \/ \E t \in Threads : PostRecurrence(t) \/ BumpOccurrences(t)
         \/ \A n : Bumping(n)' = Bumping(n)
<1>1. ASSUME call' = call PROVE \A n : Bumping(n)' = Bumping(n)
  BY <1>1 DEF Bumping
<1>2. ASSUME NEW t \in Threads, NEW k, Framed(t, k), k.at # "bump", call[t].at # "bump"
      PROVE  \A n : Bumping(n)' = Bumping(n)
  <2>1. \A n : Bumping(n)' = Bumping(n) \ {t}
    BY <1>2, BumpingIs DEF Typed
  <2>2. \A n : t \notin Bumping(n)
    BY <1>2 DEF Bumping
  <2> QED
    BY <2>1, <2>2
<1>3. ASSUME NEW t \in Threads, NEW f \in Findings, Begin(t, f)
      PROVE  \A n : Bumping(n)' = Bumping(n)
  <2>1. PICK k \in FrameType : Framed(t, k) /\ k.at = "search"
    BY <1>3, BeginFrame DEF Typed
  <2>2. call[t].at = "idle"
    BY <1>3 DEF Begin, At
  <2> QED
    BY <1>2, <2>1, <2>2
<1>4. ASSUME NEW t \in Threads, Search(t) PROVE \A n : Bumping(n)' = Bumping(n)
  <2>1. PICK k \in FrameType : Framed(t, k) /\ (k.at = "comment" \/ k.at = "readback")
    BY <1>4, SearchFrame, Zenon DEF GoesOn, Passes
  <2>2. call[t].at = "search"
    BY <1>4 DEF Search, At
  <2> QED
    BY <1>2, <2>1, <2>2
<1>5. ASSUME NEW t \in Threads, ReadBack(t) \/ GetIssue(t) \/ ForgetFiled(t)
      PROVE  \A n : Bumping(n)' = Bumping(n)
  <2>1. PICK k \in FrameType : Framed(t, k) /\ k.at # "bump"
    BY <1>5, ReadBackFrame, GetFrame, ForgetFrame DEF GoesOn, Passes
  <2>2. call[t].at # "bump"
    BY <1>5 DEF ReadBack, GetIssue, ForgetFiled, At
  <2> QED
    BY <1>2, <2>1, <2>2
<1>6. ASSUME NEW t \in Threads, Create(t) PROVE \A n : Bumping(n)' = Bumping(n)
  <2>1. PICK k \in FrameType : Framed(t, k) /\ (k.at = "idle" \/ k.at = "remember")
    BY <1>6, CreateFrame, Zenon
  <2>2. call[t].at = "create"
    BY <1>6, CreateStep DEF Typed
  <2> QED
    BY <1>2, <2>1, <2>2
<1>9. ASSUME NEW t \in Threads, Remember(t) PROVE \A n : Bumping(n)' = Bumping(n)
  <2>1. PICK k \in FrameType : Framed(t, k) /\ (k.at = "idle" \/ k.at = "label")
    BY <1>9, RememberFrame, Zenon
  <2>2. call[t].at = "remember"
    BY <1>9, RememberStep DEF Typed
  <2> QED
    BY <1>2, <2>1, <2>2
<1>7. ASSUME NEW t \in Threads, AddLabel(t) PROVE \A n : Bumping(n)' = Bumping(n)
  <2>1. Framed(t, Idle) /\ call[t].at = "label"
    BY <1>7, LabelStep, ReturnFrame DEF Typed
  <2> QED
    BY <1>2, <2>1, IdleFrame
<1>8. ASSUME Still PROVE call' = call
  BY <1>8, StillIs
<1> QED
  BY <1>1, <1>3, <1>4, <1>5, <1>6, <1>7, <1>8, <1>9, Zenon DEF Next, Step, Still

LEMMA FaultsGrow ==
  ASSUME Typed, [Next]_vars
  PROVE  faults \in Nat /\ faults' \in Nat /\ faults <= faults'
<1>1. faults \in Nat
  BY DEF Typed, RestOK
<1>2. faults' = faults \/ faults' = faults + 1
  BY Zenon DEF Next, Step, vars, Tick, Collapse, Begin, Search, ReadBack, GetIssue, ForgetFiled,
     PostRecurrence, BumpOccurrences, Create, Remember, AddLabel, Reindex, Close, Fault, NoFault,
     Carried
<1> QED
  BY <1>1, <1>2

\* A comment or a patch files nothing.
LEMMA NotesLength ==
  ASSUME Typed, NEW t \in Threads, PostRecurrence(t) \/ BumpOccurrences(t)
  PROVE  Numbers' = Numbers
<1>1. issues' = issues \/ \E m, e : Patched(m, e)
  BY CommentStep, BumpStep, Zenon DEF Typed
<1> QED
  BY <1>1, PatchedIs DEF Typed, Numbers

LEMMA StepCommentInv == Typed /\ CountInv /\ [Next]_vars => CommentInv'
<1> SUFFICES ASSUME Typed, CommentInv, [Next]_vars, NEW n \in Numbers'
             PROVE  Noted(issues'[n], faults', Cardinality(Bumping(n)'))
  BY CommentInvIs DEF CountInv, CommentInv, Noted
<1>1. faults \in Nat /\ faults' \in Nat /\ faults <= faults'
  BY FaultsGrow
<1>2. IsFiniteSet(Bumping(n)) /\ Cardinality(Bumping(n)) \in Nat
  BY BumpingFinite
<1>3. ASSUME n \in Numbers
      PROVE  /\ Noted(issues[n], faults, Cardinality(Bumping(n)))
             /\ issues[n].comments \in Nat /\ issues[n].recurred \in Nat
  BY <1>3, CommentInvIs, TrackerDomain DEF Typed, IssueType
<1>4. ASSUME n \notin Numbers PROVE Noted(issues'[n], faults', Cardinality(Bumping(n)'))
  <2>1. n \in Numbers' \ Numbers
    BY <1>4
  <2>2. PICK t \in Threads : Create(t)
    BY <2>1, NewCount
  <2>3. ~ \E u \in Threads : PostRecurrence(u) \/ BumpOccurrences(u)
    BY <2>1, <2>2, NotesLength
  <2>4. Bumping(n)' = {}
    BY <1>4, <2>3, StepBumping, NobodyBumps
  <2> QED
    BY <1>1, <2>1, <2>4, NewCount, FS_EmptySet DEF Noted
<1>5. CASE n \in Numbers /\ SameNotes(n) /\ Bumping(n)' = Bumping(n)
  BY <1>1, <1>2, <1>3, <1>5 DEF Noted, SameNotes
<1>6. ASSUME NEW t \in Threads, PostRecurrence(t), n \in Numbers
      PROVE  Noted(issues'[n], faults', Cardinality(Bumping(n)'))
  <2> PICK m : m = call[t].target
    OBVIOUS
  <2>1. m \in Numbers /\ call[t].at = "comment"
    BY <1>6, CommentStep DEF Typed
  <2>2. PICK k : Framed(t, k) /\ k.at = "bump" /\ k.target = m
    BY <1>6, CommentFrame, Zenon
  <2>3. t \notin Bumping(n)
    BY <2>1 DEF Bumping
  <2>4. \/ \E e : Patched(m, e) /\ e = [issues[m] EXCEPT !.comments = @ + 1]
        \/ issues' = issues /\ faults' = faults + 1
    BY <1>6, CommentStep, Zenon DEF Typed, Fault
  <2>5. issues[m] \in IssueType
    BY <2>1, TrackerDomain DEF Typed
  <2>6. CASE n = m
    <3>1. Cardinality(Bumping(n)') = Cardinality(Bumping(n)) + 1
      <4>1. Bumping(n)' = Bumping(n) \cup {t}
        BY <2>2, <2>6, BumpingIs DEF Typed
      <4> QED
        BY <1>2, <2>3, <4>1, FS_AddElement
    <3>2. CASE issues' = issues /\ faults' = faults + 1
      BY <1>1, <1>2, <1>3, <1>6, <3>1, <3>2 DEF Noted
    <3>3. CASE \E e : Patched(m, e) /\ e = [issues[m] EXCEPT !.comments = @ + 1]
      <4>1. PICK e : Patched(m, e) /\ e = [issues[m] EXCEPT !.comments = @ + 1]
        BY <3>3
      <4>2. e.comments = issues[m].comments + 1 /\ e.recurred = issues[m].recurred
        BY <2>5, <4>1 DEF IssueType
      <4>3. issues'[n] = e
        BY <2>6, <4>1, PatchedIs DEF Typed
      <4> QED
        BY <1>1, <1>2, <1>3, <1>6, <2>6, <3>1, <3>3, <4>2, <4>3 DEF Noted
    <3> QED
      BY <2>4, <3>2, <3>3
  <2>7. CASE n # m
    <3>1. Bumping(n)' = Bumping(n)
      BY <2>2, <2>3, <2>7, BumpingIs DEF Typed
    <3>2. issues'[n] = issues[n]
      BY <1>6, <2>4, <2>7, PatchedIs DEF Typed
    <3> QED
      BY <1>5, <1>6, <3>1, <3>2 DEF SameNotes
  <2> QED
    BY <2>6, <2>7
<1>7. ASSUME NEW t \in Threads, BumpOccurrences(t), n \in Numbers
      PROVE  Noted(issues'[n], faults', Cardinality(Bumping(n)'))
  <2> PICK m : m = call[t].target
    OBVIOUS
  <2>1. m \in Numbers /\ call[t].at = "bump" /\ Framed(t, Idle)
    BY <1>7, BumpStep, ReturnFrame DEF Typed
  <2>2. PICK e \in IssueType :
          /\ Patched(m, e) /\ e.recurred = issues[m].recurred + 1
          /\ e.comments = issues[m].comments
    BY <1>7, BumpStep, Zenon DEF Typed
  <2>3. issues'[m] = e /\ \A i \in Numbers \ {m} : issues'[i] = issues[i]
    BY <2>2, PatchedIs DEF Typed
  <2>4. Bumping(n)' = Bumping(n) \ {t}
    BY <2>1, BumpingIs, IdleFrame DEF Typed
  <2>5. CASE n = m
    <3>1. t \in Bumping(n)
      BY <2>1, <2>5 DEF Bumping
    <3>2. Cardinality(Bumping(n)') = Cardinality(Bumping(n)) - 1
      BY <1>2, <2>4, <3>1, FS_RemoveElement
    <3> QED
      BY <1>1, <1>2, <1>3, <1>7, <2>2, <2>3, <2>5, <3>2 DEF Noted
  <2>6. CASE n # m
    <3>1. t \notin Bumping(n)
      BY <2>6 DEF Bumping
    <3> QED
      BY <1>5, <1>7, <2>3, <2>4, <2>6, <3>1 DEF SameNotes
  <2> QED
    BY <2>5, <2>6
<1> QED
  BY <1>4, <1>5, <1>6, <1>7, StepNotes, StepBumping

LEMMA InitCount == Init => CountInv
<1> SUFFICES ASSUME Init PROVE CountInv
  OBVIOUS
<1>1. Numbers = {}
  BY DEF Init, Numbers
<1>2. ReadInv
  BY IdleFrame DEF Init, ReadInv
<1> QED
  BY <1>1, <1>2 DEF CountInv, CountsInv, CommentInv

\* CountHonest: the counter in the body never claims more than happened, is
\* exact where nothing came between, and what it misses was commented on or
\* is a failed call.
THEOREM Counts == Spec => []CountHonest
<1>1. Init => Typed /\ CountInv
  BY InitTyped, InitCount
<1>2. Typed /\ CountInv /\ [Next]_vars => (Typed /\ CountInv)'
  BY StepTyped, StepRead, StepCountsInv, StepCommentInv DEF CountInv
<1>3. Typed /\ CountInv => CountHonest
  <2> SUFFICES ASSUME Typed, CountInv, NEW n \in Numbers
               PROVE  /\ issues[n].count <= 1 + issues[n].recurred
                      /\ issues[n].undisturbed => issues[n].count = 1 + issues[n].recurred
                      /\ issues[n].comments + faults >= issues[n].recurred
    BY DEF CountHonest
  <2>1. issues[n].comments + faults >= issues[n].recurred + Cardinality(Bumping(n))
    BY DEF CountInv, CommentInv
  <2>2. issues[n] \in IssueType /\ faults \in Nat
    BY TrackerDomain, Bounds DEF Typed, RestOK
  <2>3. issues[n].comments + faults >= issues[n].recurred
    BY <2>1, <2>2, BumpingFinite DEF IssueType
  <2> QED
    BY <2>3 DEF CountInv, CountsInv
<1> QED
  BY <1>1, <1>2, <1>3, PTL DEF Spec

(***************************************************************************)
(* send() implements TrackerPromise                                        *)
(***************************************************************************)

\* What an instance remembers of a filing is true of the issue.
EntriesRight ==
  \A p \in Instances : \A i \in DOMAIN filed[p] :
    issues[filed[p][i].issue].fingerprint = filed[p][i].fingerprint

\* A send that found an issue found one of its finding.
FoundRight ==
  \A t \in Threads : call[t].at \in {"get", "comment"} =>
    issues[call[t].target].fingerprint = FingerprintOf[call[t].finding]

RightInv == EntriesRight /\ FoundRight

LEMMA TrimMembers ==
  ASSUME NEW S, NEW s \in Seq(S)
  PROVE  \A j \in DOMAIN Trim(s) : \E i \in DOMAIN s : Trim(s)[j] = s[i]
<1>1. MaxRecent \in Nat /\ Len(s) \in Nat
  BY GithubAssumption
<1>2. CASE Len(s) > MaxRecent
  <2> DEFINE m == Len(s) - MaxRecent + 1
  <2>1. m \in 1..(Len(s) + 1)
    BY <1>1, <1>2
  <2>2. ASSUME NEW j \in DOMAIN SubSeq(s, m, Len(s))
        PROVE  \E i \in DOMAIN s : SubSeq(s, m, Len(s))[j] = s[i]
    <3>1. j \in 1..(Len(s) - m + 1) /\ SubSeq(s, m, Len(s))[j] = s[m + j - 1]
      BY <1>1, <2>1
    <3>2. m + j - 1 \in DOMAIN s
      BY <1>1, <2>1, <3>1
    <3> QED
      BY <3>1, <3>2
  <2>3. Trim(s) = SubSeq(s, m, Len(s))
    BY <1>2 DEF Trim
  <2> QED
    BY <2>2, <2>3
<1>3. CASE Len(s) <= MaxRecent
  BY <1>1, <1>3 DEF Trim
<1> QED
  BY <1>1, <1>2, <1>3

\* An entry that was right stays right.
LEMMA EntryStays ==
  ASSUME Typed, [Next]_vars, EntriesRight, NEW p \in Instances, NEW i \in DOMAIN filed[p]
  PROVE  issues'[filed[p][i].issue].fingerprint = filed[p][i].fingerprint
<1>1. filed[p][i].issue \in Numbers
  <2>1. filed[p] \in Seq(FilingType)
    BY DEF Typed, FiledOK
  <2>2. filed[p][i] \in FilingType
    BY <2>1
  <2> QED
    BY <2>2 DEF FilingType
<1> QED
  BY <1>1, StepGrows DEF EntriesRight, Follows

LEMMA EntriesStay ==
  ASSUME Typed, [Next]_vars, EntriesRight,
         \A p \in Instances : \A j \in DOMAIN filed'[p] :
           \/ \E i \in DOMAIN filed[p] : filed'[p][j] = filed[p][i]
           \/ issues'[filed'[p][j].issue].fingerprint = filed'[p][j].fingerprint
  PROVE  EntriesRight'
BY EntryStays DEF EntriesRight

\* The members of w are members of s, or e.
Within(w, s) == \A j \in DOMAIN w : \E i \in DOMAIN s : w[j] = s[i]
WithinOr(w, s, e) == \A j \in DOMAIN w : (\E i \in DOMAIN s : w[j] = s[i]) \/ w[j] = e

\* A table without a fingerprint holds entries of the table.
LEMMA WithoutMembers ==
  ASSUME FiledOK, NEW p \in Instances, NEW fp
  PROVE  /\ WithoutFiled(filed[p], fp) \in Seq(FilingType)
         /\ Within(WithoutFiled(filed[p], fp), filed[p])
<1> PICK s, places, w : /\ s = filed[p] /\ places = {i \in DOMAIN s : s[i].fingerprint = fp}
                        /\ w = WithoutFiled(filed[p], fp)
  OBVIOUS
<1>1. s \in Seq(FilingType) /\ Len(s) \in Nat /\ DOMAIN s = 1..Len(s)
  BY DEF FiledOK
<1>2. w = IF places = {} THEN s ELSE RemoveAt(s, CHOOSE i \in places : TRUE)
  BY DEF WithoutFiled
<1>3. CASE places = {}
  BY <1>1, <1>2, <1>3 DEF Within
<1>4. CASE places # {}
  <2>1. PICK k \in places : w = RemoveAt(s, k)
    BY <1>2, <1>4, Zenon
  <2>2. k \in DOMAIN s
    BY <2>1
  <2>3. /\ w \in Seq(FilingType) /\ Len(w) = Len(s) - 1
        /\ \A j \in 1..(Len(s) - 1) : w[j] = s[IF j < k THEN j ELSE j + 1]
    BY <1>1, <2>1, <2>2, RemoveAtIs, Zenon
  <2>4. DOMAIN w = 1..(Len(s) - 1)
    BY <2>3
  <2>5. \A j \in DOMAIN w : (IF j < k THEN j ELSE j + 1) \in DOMAIN s
    BY <1>1, <2>2, <2>4
  <2> QED
    BY <2>3, <2>4, <2>5 DEF Within
<1> QED
  BY <1>3, <1>4

\* A trimmed table with a new entry holds entries of the old one, and that.
LEMMA AddedMembers ==
  ASSUME NEW S, NEW w \in Seq(S), NEW e \in S
  PROVE  WithinOr(Trim(Append(w, e)), w, e)
<1> PICK a : a = Append(w, e)
  OBVIOUS
<1>1. a \in Seq(S) /\ WithinOr(a, w, e)
  BY DEF WithinOr
<1>2. ASSUME NEW j \in DOMAIN Trim(a)
      PROVE  (\E i \in DOMAIN w : Trim(a)[j] = w[i]) \/ Trim(a)[j] = e
  <2>1. PICK m \in DOMAIN a : Trim(a)[j] = a[m]
    BY <1>1, TrimMembers
  <2> QED
    BY <1>1, <2>1 DEF WithinOr
<1> QED
  BY <1>2 DEF WithinOr

LEMMA StepEntries == Typed /\ LookedInv /\ EntriesRight /\ [Next]_vars => EntriesRight'
<1> SUFFICES ASSUME Typed, LookedInv, EntriesRight, [Next]_vars PROVE EntriesRight'
  OBVIOUS
<1>1. CASE filed' = filed
  BY <1>1, EntriesStay
<1>2. ASSUME NEW t \in Threads, ForgetFiled(t) PROVE EntriesRight'
  <2> PICK p, fp, w : /\ p = home[t] /\ fp = FingerprintOf[call[t].finding]
                      /\ w = WithoutFiled(filed[p], fp)
    OBVIOUS
  <2>1. filed' = [filed EXCEPT ![p] = w]
    BY <1>2, ForgetFrame
  <2>2. p \in Instances
    BY DEF Typed, CallOK
  <2>3. Within(w, filed[p])
    <3>1. FiledOK
      BY DEF Typed
    <3> QED
      BY <2>2, <3>1, WithoutMembers, Zenon
  <2>4. filed'[p] = w /\ \A q \in Instances \ {p} : filed'[q] = filed[q]
    BY <2>1, <2>2 DEF Typed, FiledOK
  <2> QED
    BY <2>3, <2>4, EntriesStay DEF Within
<1>3. ASSUME NEW t \in Threads, Remember(t) PROVE EntriesRight'
  <2> PICK p, fp, n, w, e : /\ p = home[t] /\ fp = FingerprintOf[call[t].finding]
                            /\ n = call[t].target /\ w = WithoutFiled(filed[p], fp)
                            /\ e = [fingerprint |-> fp, issue |-> n]
    OBVIOUS
  <2>1. n \in Numbers /\ call[t].at = "remember" /\ RememberFiled(p, fp, n)
    BY <1>3, RememberStep DEF Typed
  <2>2. p \in Instances /\ fp \in Fingerprints
    BY FingerprintIn DEF Typed, CallOK, FrameType
  <2>3. Numbers \subseteq Numbers' /\ n \in Numbers' /\ issues'[n].fingerprint = fp
    BY <2>1, StepGrows DEF LookedInv, Looked, Follows
  <2>4. filed' = [filed EXCEPT ![p] = Trim(Append(w, e))]
    <3>1. FiledOK
      BY DEF Typed
    <3> QED
      BY <2>1, <3>1 DEF RememberFiled, FiledOK
  <2>5. w \in Seq(FilingType) /\ Within(w, filed[p])
    <3>1. FiledOK
      BY DEF Typed
    <3> QED
      BY <2>2, <3>1, WithoutMembers, Zenon
  <2>6. e.fingerprint = fp /\ e.issue = n
    OBVIOUS
  <2>7. WithinOr(Trim(Append(w, e)), filed[p], e)
    <3>1. e \in FilingType
      BY <2>1, <2>2 DEF FilingType
    <3>2. WithinOr(Trim(Append(w, e)), w, e)
      <4> PICK S : S = FilingType
        OBVIOUS
      <4>1. w \in Seq(S) /\ e \in S
        BY <2>5, <3>1, Zenon
      <4> QED
        BY <4>1, AddedMembers, Zenon
    <3> QED
      BY <2>5, <3>2 DEF Within, WithinOr
  <2>8. /\ filed'[p] = Trim(Append(w, e))
        /\ \A q \in Instances \ {p} : filed'[q] = filed[q]
    BY <2>2, <2>4 DEF Typed, FiledOK
  <2> QED
    BY <2>3, <2>6, <2>7, <2>8, EntriesStay DEF WithinOr
<1>4. ASSUME NEW t \in Threads,
             \/ \E f \in Findings : Collapse(t, f) \/ Begin(t, f)
             \/ Search(t) \/ ReadBack(t) \/ GetIssue(t)
             \/ PostRecurrence(t) \/ BumpOccurrences(t) \/ Create(t) \/ AddLabel(t)
      PROVE  filed' = filed
  BY <1>4, Zenon DEF Collapse, Begin, Search, ReadBack, GetIssue, PostRecurrence,
                     BumpOccurrences, Create, AddLabel
<1>5. ASSUME Tick \/ UNCHANGED vars \/ \E n \in Numbers : Reindex(n) \/ Close(n) PROVE filed' = filed
  BY <1>5 DEF Tick, vars, Reindex, Close
<1> QED
  BY <1>1, <1>2, <1>3, <1>4, <1>5, Zenon DEF Next, Step

\* How the frame changes on the steps that only look.
Asking == {"search", "readback", "get", "pop", "comment", "create"}

Looker(t) == Search(t) \/ ReadBack(t) \/ GetIssue(t) \/ ForgetFiled(t)

LEMMA Looks ==
  ASSUME Typed, RightInv, NEW t \in Threads, Looker(t)
  PROVE  /\ call[t].at \in Asking /\ issues' = issues /\ home' = home /\ crossed' = crossed
         /\ \E k \in FrameType :
              /\ Framed(t, k) /\ Carries(k, call[t]) /\ k.at \in Asking
              /\ k.at \in {"get", "comment"} =>
                   issues[k.target].fingerprint = FingerprintOf[call[t].finding]
              /\ \/ k.blind = call[t].blind /\ faults' = faults
                 \/ k.blind = TRUE /\ Fault
<1> PICK p, fp : p = home[t] /\ fp = FingerprintOf[call[t].finding]
  OBVIOUS
<1> DEFINE Good(k) ==
             /\ Framed(t, k) /\ Carries(k, call[t]) /\ k.at \in Asking
             /\ k.at \in {"get", "comment"} => issues[k.target].fingerprint = fp
             /\ \/ k.blind = call[t].blind /\ faults' = faults
                \/ k.blind = TRUE /\ Fault
<1>1. /\ call[t].at \in Asking /\ issues' = issues /\ home' = home /\ crossed' = crossed
  BY Zenon DEF Looker, Search, ReadBack, GetIssue, ForgetFiled, At, Asking
<1>2. ASSUME Search(t) PROVE \E k \in FrameType : Good(k)
  <2>1. PICK k \in FrameType :
           /\ Framed(t, k) /\ Carries(k, call[t])
           /\ \/ /\ faults' = faults /\ k.blind = call[t].blind
                 /\ \E n \in Numbers :
                      /\ GoesOn(t, k, n, index[n].count)
                      /\ issues[n].fingerprint = FingerprintOf[call[t].finding]
              \/ Passes(t, k, "readback", call[t].target)
    BY <1>2, SearchFrame, Zenon
  <2>2. Good(k)
    BY <2>1 DEF GoesOn, Passes, Asking
  <2> QED
    BY <2>2
<1>3. ASSUME ReadBack(t) PROVE \E k \in FrameType : Good(k)
  <2>1. PICK k \in FrameType :
          /\ Framed(t, k) /\ Carries(k, call[t])
          /\ \/ Passes(t, k, "create", call[t].target)
             \/ \E n \in FiledHere(p, fp) : Passes(t, k, "get", n)
    BY <1>3, ReadBackFrame, Zenon
  <2>2. ASSUME NEW n \in FiledHere(p, fp) PROVE issues[n].fingerprint = fp
    <3>1. p \in Instances
      BY DEF Typed, CallOK
    <3>2. PICK i \in DOMAIN filed[p] : filed[p][i].fingerprint = fp /\ filed[p][i].issue = n
      BY <3>1, FiledHereIs DEF Typed
    <3> QED
      BY <3>1, <3>2 DEF RightInv, EntriesRight
  <2>3. Good(k)
    BY <2>1, <2>2 DEF Passes, Asking
  <2> QED
    BY <2>3
<1>4. ASSUME GetIssue(t) PROVE \E k \in FrameType : Good(k)
  <2>1. PICK n, k : /\ n = call[t].target /\ call[t].at = "get" /\ k \in FrameType
                    /\ Framed(t, k) /\ Carries(k, call[t])
                    /\ \/ /\ faults' = faults /\ k.blind = call[t].blind
                          /\ GoesOn(t, k, n, issues[n].count)
                       \/ Passes(t, k, "pop", n)
                       \/ Passes(t, k, "create", n)
    BY <1>4, GetFrame, Zenon
  <2>2. issues[n].fingerprint = fp
    BY <2>1 DEF RightInv, FoundRight
  <2>3. Good(k)
    BY <2>1, <2>2 DEF Passes, GoesOn, Asking
  <2> QED
    BY <2>1, <2>3
<1>5. ASSUME ForgetFiled(t) PROVE \E k \in FrameType : Good(k)
  <2>1. PICK k \in FrameType :
          Framed(t, k) /\ Carries(k, call[t]) /\ Passes(t, k, "create", call[t].target)
    BY <1>5, ForgetFrame, Zenon
  <2>2. Good(k)
    BY <2>1 DEF Passes, Asking
  <2> QED
    BY <2>2
<1> QED
  BY <1>1, <1>2, <1>3, <1>4, <1>5 DEF Looker

\* A frame that was right stays right.
LEMMA FoundStays ==
  ASSUME Typed, [Next]_vars, FoundRight, NEW u \in Threads, call[u].at \in {"get", "comment"}
  PROVE  issues'[call[u].target].fingerprint = FingerprintOf[call[u].finding]
<1>1. call[u].target \in Numbers
  BY DEF Typed, TargetInv, Aiming
<1> QED
  BY <1>1, StepGrows DEF FoundRight, Follows

LEMMA FoundKept ==
  ASSUME Typed, [Next]_vars, FoundRight, NEW t \in Threads, NEW k, Framed(t, k),
         k.at \in {"get", "comment"} =>
           issues'[k.target].fingerprint = FingerprintOf[k.finding]
  PROVE  FoundRight'
<1>1. call'[t] = k /\ \A u \in Threads \ {t} : call'[u] = call[u]
  BY FramedIs DEF Typed
<1> QED
  BY <1>1, FoundStays DEF FoundRight

LEMMA StepFound == Typed /\ RightInv /\ [Next]_vars => FoundRight'
<1> SUFFICES ASSUME Typed, RightInv, FoundRight, [Next]_vars PROVE FoundRight'
  BY DEF RightInv
<1>1. ASSUME NEW t \in Threads, NEW f \in Findings, Begin(t, f) PROVE FoundRight'
  <2>1. PICK k \in FrameType : Framed(t, k) /\ k.at = "search"
    BY <1>1, BeginFrame DEF Typed
  <2> QED
    BY <2>1, FoundKept
<1>2. ASSUME NEW t \in Threads, Looker(t) PROVE FoundRight'
  <2>1. PICK k \in FrameType :
          /\ Framed(t, k) /\ Carries(k, call[t])
          /\ k.at \in {"get", "comment"} =>
               issues[k.target].fingerprint = FingerprintOf[call[t].finding]
    BY <1>2, Looks, Zenon
  <2>2. issues' = issues
    BY <1>2, Looks
  <2> QED
    BY <2>1, <2>2, FoundKept DEF Carries
<1>3. ASSUME NEW t \in Threads, PostRecurrence(t) PROVE FoundRight'
  <2>1. PICK k \in FrameType : Framed(t, k) /\ k.at = "bump"
    BY <1>3, CommentFrame
  <2> QED
    BY <2>1, FoundKept
<1>4. ASSUME NEW t \in Threads, BumpOccurrences(t) \/ AddLabel(t) PROVE FoundRight'
  <2>1. Framed(t, Idle)
    BY <1>4, ReturnFrame DEF BumpOccurrences, AddLabel
  <2> QED
    BY <2>1, FoundKept, IdleFrame
<1>5. ASSUME NEW t \in Threads, Create(t) \/ Remember(t) PROVE FoundRight'
  <2>1. PICK k \in FrameType : Framed(t, k) /\ k.at \in {"idle", "remember", "label"}
    BY <1>5, CreateFrame, RememberFrame, Zenon
  <2> QED
    BY <2>1, FoundKept
<1>6. ASSUME Still PROVE FoundRight'
  <2>1. call' = call
    BY <1>6, StillIs
  <2> QED
    BY <2>1, FoundStays DEF FoundRight
<1> QED
  BY <1>1, <1>2, <1>3, <1>4, <1>5, <1>6, Zenon DEF Next, Step, Still, Looker

-------------------------------------------------------------------------------
(* Step by step.                                                           *)

PromiseStep == [Promise!TrackerNext]_(Promise!trackerVars)

\* A send seen at a stage.
Sent(stage, k, p, n) ==
  [stage |-> stage, fingerprint |-> FingerprintOf[k.finding], by |-> p,
   diagnosed |-> k.diagnosed, blind |-> k.blind, issue |-> n]

LEMMA SendIs ==
  ASSUME NEW k, NEW p
  PROVE  /\ k.at \in Asking => SendOf(k, p) = Sent("asked", k, p, 0)
         /\ k.at = "bump" => SendOf(k, p) = Sent("noted", k, p, k.target)
         /\ k.at = "remember" => SendOf(k, p) = Sent("filed", k, p, k.target)
         /\ k.at = "label" => SendOf(k, p) = Sent("told", k, p, k.target)
         /\ k.at = "idle" => SendOf(k, p) = Promise!AtRest
BY DEF SendOf, Sent, StageOf, Asking, Promise!AtRest

LEMMA SentSame ==
  ASSUME NEW c, NEW k, NEW p, NEW n, NEW stage, Carries(k, c), k.blind = c.blind
  PROVE  Sent(stage, k, p, n) = Sent(stage, c, p, n)
BY DEF Sent, Carries

\* A send that has missed a lookup, and one that has got to issue n.
Missed(s) == [s EXCEPT !.blind = TRUE]
Moved(s, stage, n) == [s EXCEPT !.stage = stage, !.issue = n]

Blind(k) == k.blind = TRUE

LEMMA SentBlind ==
  ASSUME NEW c, NEW k, Carries(k, c), Blind(k), NEW p, NEW n, NEW stage
  PROVE  Missed(Sent(stage, c, p, n)) = Sent(stage, k, p, n)
<1> PICK s : s = Sent(stage, c, p, n)
  OBVIOUS
<1> PICK q : q = [s EXCEPT !.blind = TRUE]
  OBVIOUS
<1>1. q = Sent(stage, k, p, n)
  BY DEF Sent, Carries, Blind
<1>2. q = Missed(s)
  BY Zenon DEF Missed
<1> QED
  BY <1>1, <1>2

LEMMA SentMoves ==
  ASSUME NEW c, NEW p, NEW n, NEW i, NEW stage, NEW next, NEW s, s = Sent(stage, c, p, i)
  PROVE  Moved(s, next, n) = Sent(next, c, p, n)
<1> PICK q : q = [s EXCEPT !.stage = next, !.issue = n]
  OBVIOUS
<1>1. q = Sent(next, c, p, n)
  BY DEF Sent
<1>2. q = Moved(s, next, n)
  BY Zenon DEF Moved
<1> QED
  BY <1>1, <1>2

LEMMA SendingNow ==
  /\ Sending = [t \in Threads |-> Sending[t]]
  /\ \A t \in Threads : Sending[t] = SendOf(call[t], home[t])
BY DEF Sending

LEMMA SendingMissed ==
  ASSUME NEW t \in Threads, Sending' = [Sending EXCEPT ![t] = Missed(Sending[t])]
  PROVE  Sending' = [Sending EXCEPT ![t].blind = TRUE]
BY Zenon DEF Missed

LEMMA SendingNoted ==
  ASSUME NEW t \in Threads, NEW n,
         Sending' = [Sending EXCEPT ![t] = Moved(Sending[t], "noted", n)]
  PROVE  Sending' = [Sending EXCEPT ![t].stage = "noted", ![t].issue = n]
<1> PICK f, s : f = Sending /\ s = f[t]
  OBVIOUS
<1>1. f = [u \in Threads |-> SendOf(call[u], home[u])]
  BY DEF Sending
<1>2. [f EXCEPT ![t] = [s EXCEPT !.stage = "noted", !.issue = n]]
      = [f EXCEPT ![t].stage = "noted", ![t].issue = n]
  BY <1>1
<1> QED
  BY <1>2, Zenon DEF Moved

LEMMA SendingFiled ==
  ASSUME NEW t \in Threads, NEW n,
         Sending' = [Sending EXCEPT ![t] = Moved(Sending[t], "filed", n)]
  PROVE  Sending' = [Sending EXCEPT ![t].stage = "filed", ![t].issue = n]
<1> PICK f, s : f = Sending /\ s = f[t]
  OBVIOUS
<1>1. f = [u \in Threads |-> SendOf(call[u], home[u])]
  BY DEF Sending
<1>2. [f EXCEPT ![t] = [s EXCEPT !.stage = "filed", !.issue = n]]
      = [f EXCEPT ![t].stage = "filed", ![t].issue = n]
  BY <1>1
<1> QED
  BY <1>2, Zenon DEF Moved

\* A filing that its instance has heard of keeps its issue.
LEMMA SendingTold ==
  ASSUME NEW t \in Threads, NEW n, NEW c, NEW p, Sending[t] = Sent("filed", c, p, n),
         Sending' = [Sending EXCEPT ![t] = Moved(Sending[t], "told", n)]
  PROVE  Sending' = [Sending EXCEPT ![t].stage = "told"]
<1> PICK f, s : f = Sending /\ s = f[t]
  OBVIOUS
<1>1. f = [u \in Threads |-> SendOf(call[u], home[u])]
  BY DEF Sending
<1>2. [s EXCEPT !.stage = "told", !.issue = n] = [s EXCEPT !.stage = "told"]
  <2>1. s.issue = n /\ "issue" \in DOMAIN s /\ s = [i \in DOMAIN s |-> s[i]]
    BY DEF Sent
  <2> QED
    BY <2>1
<1>3. [f EXCEPT ![t] = [s EXCEPT !.stage = "told"]] = [f EXCEPT ![t].stage = "told"]
  BY <1>1
<1>4. Moved(Sending[t], "told", n) = [s EXCEPT !.stage = "told", !.issue = n]
  BY Zenon DEF Moved
<1> QED
  BY <1>2, <1>3, <1>4, Zenon

LEMMA SendingSame == ASSUME call' = call, home' = home PROVE Sending' = Sending
BY DEF Sending

LEMMA SendingStep ==
  ASSUME CallOK, home' = home, NEW t \in Threads, NEW k, Framed(t, k)
  PROVE  Sending' = [Sending EXCEPT ![t] = SendOf(k, home[t])]
<1>1. call'[t] = k /\ \A u \in Threads \ {t} : call'[u] = call[u]
  BY FramedIs
<1> QED
  BY <1>1 DEF Sending

LEMMA Ended ==
  ASSUME CallOK, home' = home, NEW t \in Threads, Return(t)
  PROVE  Promise!Ends(t)
<1>1. Framed(t, Idle)
  BY ReturnFrame
<1>2. SendOf(Idle, home[t]) = Promise!AtRest
  BY SendIs, IdleFrame
<1>3. crossed' = crossed \ {t}
  BY DEF Return
<1> QED
  BY <1>1, <1>2, <1>3, SendingStep DEF Promise!Ends

LEMMA Failed == ASSUME Fault PROVE Promise!Fails
BY DEF Fault, Promise!Fails

LEMMA CarriedOut == ASSUME Carried PROVE Promise!Carried
BY Failed DEF Carried, NoFault, Promise!Carried

LEMMA Stutters ==
  ASSUME issues' = issues, Sending' = Sending, faults' = faults, crossed' = crossed
  PROVE  PromiseStep
BY DEF PromiseStep, Promise!trackerVars

LEMMA PromiseSteps ==
  ASSUME NEW t \in Threads, NEW s, s = Sending[t],
         \/ Promise!Ask(t, s) \/ Promise!Miss(t, s) \/ Promise!Note(t, s)
         \/ Promise!Count(t, s) \/ Promise!File(t, s) \/ Promise!Tell(t, s)
         \/ Promise!Label(t, s)
  PROVE  PromiseStep
BY DEF PromiseStep, Promise!TrackerNext

\* The sends that a new one overlaps are the same on both sides.
LEMMA OthersAre ==
  ASSUME CallOK, NEW t \in Threads, NEW f
  PROVE  Promise!Others(t, home[t], FingerprintOf[f]) = Rivals(t, f)
<1>1. ASSUME NEW u \in Threads, call[u].at # "idle"
      PROVE  /\ Sending[u].stage # "none" /\ Sending[u].by = home[u]
             /\ Sending[u].fingerprint = FingerprintOf[call[u].finding]
  <2>1. call[u].at \in DOMAIN StageOf /\ StageOf[call[u].at] # "none"
    BY <1>1 DEF CallOK, FrameType, StageOf
  <2> QED
    BY <1>1, <2>1, SendingNow DEF SendOf
<1>2. ASSUME NEW u \in Threads, call[u].at = "idle" PROVE Sending[u].stage = "none"
  BY <1>2, SendingNow DEF SendOf
<1>3. ASSUME NEW u \in Threads \ {t}
      PROVE  /\ Sending[u].stage # "none" /\ Sending[u].by = home[t]
             /\ Sending[u].fingerprint = FingerprintOf[f]
             <=> /\ home[u] = home[t] /\ call[u].at # "idle"
                 /\ FingerprintOf[call[u].finding] = FingerprintOf[f]
  BY <1>1, <1>2
<1> QED
  BY <1>3, Zenon DEF Rivals, At, Promise!Others

LEMMA BeginKept ==
  ASSUME Typed, NEW t \in Threads, NEW f \in Findings, Begin(t, f)
  PROVE  PromiseStep
<1> PICK s : s = Sending[t]
  OBVIOUS
<1>1. PICK k \in FrameType :
        /\ Framed(t, k) /\ k.at = "search" /\ k.blind = FALSE
        /\ k.finding = f /\ k.diagnosed = (f \in Diagnosed)
  BY BeginFrame DEF Typed
<1>2. /\ call[t].at = "idle" /\ home' = home /\ issues' = issues /\ faults' = faults
      /\ crossed' = IF Rivals(t, f) = {} THEN crossed \ {t} ELSE crossed \cup Rivals(t, f) \cup {t}
  BY Zenon DEF Begin, At
<1>3. home[t] \in Instances /\ FingerprintOf[f] \in Fingerprints /\ k.diagnosed \in BOOLEAN
  BY <1>1, FingerprintIn DEF Typed, CallOK, FrameType
<1>4. s.stage = "none"
  BY <1>2, SendIs, SendingNow DEF Promise!AtRest
<1>5. Sending' = [Sending EXCEPT ![t] =
         [stage |-> "asked", fingerprint |-> FingerprintOf[f], by |-> home[t],
          diagnosed |-> k.diagnosed, blind |-> FALSE, issue |-> 0]]
  <2>1. Sending' = [Sending EXCEPT ![t] = SendOf(k, home[t])]
    BY <1>1, <1>2, SendingStep DEF Typed
  <2>2. SendOf(k, home[t]) = Sent("asked", k, home[t], 0)
    BY <1>1, SendIs DEF Asking
  <2> QED
    BY <1>1, <2>1, <2>2 DEF Sent
<1>6. crossed' = IF Promise!Others(t, home[t], FingerprintOf[f]) = {} THEN crossed \ {t}
                ELSE crossed \cup Promise!Others(t, home[t], FingerprintOf[f]) \cup {t}
  <2>1. Promise!Others(t, home[t], FingerprintOf[f]) = Rivals(t, f)
    BY OthersAre DEF Typed
  <2> QED
    BY <1>2, <2>1
<1>7. Promise!Ask(t, s)
  BY <1>2, <1>3, <1>4, <1>5, <1>6, Zenon DEF Promise!Ask
<1> QED
  BY <1>7, PromiseSteps

\* A lookup is not to be seen, unless it fails.
LEMMA LooksKept ==
  ASSUME Typed, RightInv, NEW t \in Threads, Looker(t)
  PROVE  PromiseStep
<1> PICK s : s = Sending[t]
  OBVIOUS
<1>1. /\ call[t].at \in Asking /\ issues' = issues /\ home' = home /\ crossed' = crossed
  BY Looks
<1>2. PICK k \in FrameType :
        /\ Framed(t, k) /\ Carries(k, call[t]) /\ k.at \in Asking
        /\ \/ k.blind = call[t].blind /\ faults' = faults
           \/ k.blind = TRUE /\ Fault
  BY Looks, Zenon
<1>3. s = Sent("asked", call[t], home[t], 0)
  BY <1>1, SendIs, SendingNow
<1>4. Sending' = [Sending EXCEPT ![t] = Sent("asked", k, home[t], 0)]
  <2>1. SendOf(k, home[t]) = Sent("asked", k, home[t], 0)
    BY <1>2, SendIs
  <2> QED
    BY <1>1, <1>2, <2>1, SendingStep DEF Typed
<1>5. CASE k.blind = call[t].blind /\ faults' = faults
  <2>1. Sent("asked", k, home[t], 0) = s
    BY <1>2, <1>3, <1>5, SentSame
  <2>2. Sending' = Sending
    BY <1>4, <2>1, SendingNow
  <2> QED
    BY <1>1, <1>5, <2>2, Stutters
<1>6. CASE k.blind = TRUE /\ Fault
  <2>1. Missed(s) = Sent("asked", k, home[t], 0)
    <3>1. Carries(k, call[t]) /\ Blind(k)
      BY <1>2, <1>6 DEF Blind
    <3>2. Missed(Sent("asked", call[t], home[t], 0)) = Sent("asked", k, home[t], 0)
      BY <3>1, SentBlind
    <3> QED
      BY <1>3, <3>2
  <2>2. Sending' = [Sending EXCEPT ![t].blind = TRUE]
    <3>1. Sending' = [Sending EXCEPT ![t] = Missed(Sending[t])]
      BY <1>4, <2>1
    <3> QED
      BY <3>1, SendingMissed
  <2>3. s.stage = "asked"
    BY <1>3 DEF Sent
  <2>4. Promise!Miss(t, s)
    BY <1>1, <1>6, <2>2, <2>3, Failed DEF Promise!Miss
  <2> QED
    BY <2>4, PromiseSteps
<1> QED
  BY <1>2, <1>5, <1>6

LEMMA CommentKept ==
  ASSUME Typed, RightInv, NEW t \in Threads, PostRecurrence(t)
  PROVE  PromiseStep
<1> PICK s, n : s = Sending[t] /\ n = call[t].target
  OBVIOUS
<1>1. /\ call[t].at = "comment" /\ n \in Numbers /\ home' = home /\ crossed' = crossed
      /\ issues[n].fingerprint = FingerprintOf[call[t].finding]
  BY CommentStep DEF Typed, RightInv, FoundRight, PostRecurrence
<1>2. s = Sent("asked", call[t], home[t], 0)
  BY <1>1, SendIs, SendingNow DEF Asking
<1>3. PICK k \in FrameType : /\ Framed(t, k) /\ k.at = "bump" /\ k.target = n
                             /\ Carries(k, call[t]) /\ k.blind = call[t].blind
  BY CommentFrame
<1>4. SendOf(k, home[t]) = Moved(s, "noted", n)
  <2>1. SendOf(k, home[t]) = Sent("noted", k, home[t], n)
    BY <1>3, SendIs
  <2>2. Sent("noted", k, home[t], n) = Sent("noted", call[t], home[t], n)
    BY <1>3, SentSame
  <2>3. Moved(s, "noted", n) = Sent("noted", call[t], home[t], n)
    BY <1>2, SentMoves
  <2> QED
    BY <2>1, <2>2, <2>3
<1>5. Sending' = [Sending EXCEPT ![t].stage = "noted", ![t].issue = n]
  <2>1. Sending' = [Sending EXCEPT ![t] = SendOf(k, home[t])]
    BY <1>1, <1>3, SendingStep DEF Typed
  <2> QED
    <3>1. Sending' = [Sending EXCEPT ![t] = Moved(Sending[t], "noted", n)]
      BY <1>4, <2>1, Zenon
    <3> QED
      BY <3>1, SendingNoted, Zenon
<1>6. s.stage = "asked" /\ issues[n].fingerprint = s.fingerprint
  BY <1>1, <1>2 DEF Sent
<1>7. \/ issues' = [issues EXCEPT ![n].comments = @ + 1] /\ Promise!Carried
      \/ Promise!Fails /\ UNCHANGED issues
  BY CarriedOut, Failed, Zenon DEF PostRecurrence
<1>8. Promise!Note(t, s)
  BY <1>1, <1>5, <1>6, <1>7, Zenon DEF Promise!Note, Numbers
<1> QED
  BY <1>8, PromiseSteps

LEMMA BumpKept ==
  ASSUME Typed, CountInv, NEW t \in Threads, BumpOccurrences(t)
  PROVE  PromiseStep
<1> PICK s, n : s = Sending[t] /\ n = call[t].target
  OBVIOUS
<1> DEFINE recurred == issues[n].recurred + 1
           exact == issues[n].undisturbed /\ Lonely(t) /\ call[t].fresh
<1>1. /\ call[t].at = "bump" /\ n \in Numbers /\ home' = home /\ Return(t)
      /\ issues[n] \in IssueType /\ call[t].count \in Nat
  <2>1. call[t].at = "bump" /\ n \in Numbers /\ Return(t)
    BY BumpStep DEF Typed
  <2>2. home' = home
    BY Zenon DEF BumpOccurrences
  <2>3. call[t].count \in Nat
    BY DEF Typed, CallOK, FrameType
  <2> QED
    BY <2>1, <2>2, <2>3, TrackerDomain DEF Typed
<1>2. s = Sent("noted", call[t], home[t], n)
  BY <1>1, SendIs, SendingNow
<1>3. s.stage = "noted" /\ s.issue = n
  BY <1>2 DEF Sent
<1>4. Promise!Ends(t)
  BY <1>1, Ended DEF Typed
<1>5. \/ /\ issues' = [issues EXCEPT ![n].count = call[t].count + 1, ![n].recurred = recurred,
                                     ![n].undisturbed = exact]
         /\ Promise!Carried
      \/ /\ issues' = [issues EXCEPT ![n].recurred = recurred, ![n].undisturbed = FALSE]
         /\ Promise!Fails
  BY CarriedOut, Failed, Zenon DEF BumpOccurrences, Lonely
<1>6. /\ call[t].count + 1 \in 0 .. recurred + 1 /\ exact \in BOOLEAN
      /\ exact => issues[n].undisturbed /\ call[t].count + 1 = recurred + 1
  <2>1. Read(call[t], issues[n])
    BY <1>1 DEF CountInv, ReadInv
  <2>2. issues[n].undisturbed => issues[n].count = 1 + issues[n].recurred
    BY <1>1 DEF CountInv, CountsInv
  <2>3. issues[n].recurred \in Nat /\ issues[n].count \in Nat /\ issues[n].undisturbed \in BOOLEAN
    BY <1>1 DEF IssueType
  <2>4. call[t].fresh \in BOOLEAN
    BY DEF Typed, CallOK, FrameType
  <2> HIDE DEF Lonely
  <2> QED
    BY <1>1, <2>1, <2>2, <2>3, <2>4 DEF Read
<1> HIDE DEF exact
<1>7. Promise!Count(t, s)
  BY <1>3, <1>4, <1>5, <1>6, Zenon DEF Promise!Count
<1> QED
  BY <1>7, PromiseSteps

LEMMA CreateKept ==
  ASSUME Typed, FilingInv, NEW t \in Threads, Create(t)
  PROVE  PromiseStep
<1> PICK s, n, p, fp : /\ s = Sending[t] /\ n = Len(issues) + 1 /\ p = home[t]
                       /\ fp = FingerprintOf[call[t].finding]
  OBVIOUS
<1>1. call[t].at = "create" /\ home' = home
  BY CreateStep DEF Typed
<1>2. s = Sent("asked", call[t], p, 0)
  BY <1>1, SendIs, SendingNow DEF Asking
<1>3. /\ s.stage = "asked" /\ s.fingerprint = fp /\ s.by = p
      /\ s.diagnosed = call[t].diagnosed /\ s.blind = call[t].blind
  BY <1>2 DEF Sent
<1>4. s.blind \/ Promise!NoneOpen(s)
  <2>1. Promise!Own(p, fp) = Filed(p, fp)
    BY DEF Promise!Own, Filed, Numbers
  <2>2. call[t].blind \/ Clear(p, fp)
    BY <1>1 DEF FilingInv, LookedInv, Looked
  <2>3. Clear(p, fp) => \A i \in Filed(p, fp) :
          issues[i].apart /\ issues[i].open => \E k \in Filed(p, fp) : k > i
    BY DEF Clear, Firm, Replaced
  <2> QED
    BY <1>3, <2>1, <2>2, <2>3, Zenon DEF Promise!NoneOpen
<1>5. NewIssue(t) =
        [fingerprint |-> s.fingerprint, by |-> s.by, open |-> TRUE, count |-> 1,
         recurred |-> 0, comments |-> 0, diagnosed |-> s.diagnosed, labelled |-> FALSE,
         blind |-> s.blind, noted |-> FALSE, apart |-> FALSE, undisturbed |-> TRUE]
  BY <1>3 DEF NewIssue
<1>6. \/ /\ issues' = Append(issues, NewIssue(t)) /\ crossed' = crossed /\ faults' = faults
         /\ call' = [call EXCEPT ![t].at = "remember", ![t].target = n]
      \/ issues' \in {issues, Append(issues, NewIssue(t))} /\ Return(t) /\ Fault
  BY CreateStep DEF Typed
<1>7. Return(t) => Promise!Ends(t)
  BY <1>1, Ended DEF Typed
<1>8. ASSUME call' = [call EXCEPT ![t].at = "remember", ![t].target = n]
      PROVE  Sending' = [Sending EXCEPT ![t].stage = "filed", ![t].issue = n]
  <2> PICK k : k = [call[t] EXCEPT !.at = "remember", !.target = n]
    OBVIOUS
  <2>1. call[t] \in FrameType /\ n \in Nat
    BY TrackerDomain DEF Typed, CallOK
  <2>2. /\ k \in FrameType /\ k.at = "remember" /\ k.target = n
        /\ Carries(k, call[t]) /\ k.blind = call[t].blind
    BY <2>1 DEF FrameType, Carries
  <2>3. call' = [call EXCEPT ![t] = k]
    BY <1>8
  <2>4. Sending' = [Sending EXCEPT ![t] = SendOf(k, p)]
    <3>1. Framed(t, k)
      BY <2>2, <2>3 DEF Framed
    <3> QED
      BY <1>1, <3>1, SendingStep DEF Typed
  <2>5. SendOf(k, p) = Sent("filed", k, p, n)
    BY <2>2, SendIs
  <2>6. Sent("filed", k, p, n) = Sent("filed", call[t], p, n)
    BY <2>2 DEF Sent, Carries
  <2>7. Moved(s, "filed", n) = Sent("filed", call[t], p, n)
    BY <1>2, SentMoves
  <2>8. SendOf(k, p) = Moved(Sending[t], "filed", n)
    BY <2>5, <2>6, <2>7
  <2> QED
    <3>1. Sending' = [Sending EXCEPT ![t] = Moved(Sending[t], "filed", n)]
      BY <2>4, <2>8, Zenon
    <3> QED
      BY <3>1, SendingFiled, Zenon
<1>9. Promise!File(t, s)
  BY <1>3, <1>4, <1>5, <1>6, <1>7, <1>8, Failed, Zenon DEF Promise!File
<1> QED
  BY <1>9, PromiseSteps

LEMMA RememberKept ==
  ASSUME Typed, NEW t \in Threads, Remember(t)
  PROVE  PromiseStep
<1> PICK s, n, p : s = Sending[t] /\ n = call[t].target /\ p = home[t]
  OBVIOUS
<1>1. call[t].at = "remember" /\ home' = home /\ faults' = faults
  BY Zenon DEF Remember, At
<1>2. s = Sent("filed", call[t], p, n)
  BY <1>1, SendIs, SendingNow
<1>3. s.stage = "filed" /\ s.issue = n /\ s.diagnosed = call[t].diagnosed
  BY <1>2 DEF Sent
<1>4. /\ issues' = [issues EXCEPT ![n].noted = TRUE, ![n].apart = (t \notin crossed)]
      /\ IF AutoFix /\ call[t].diagnosed
         THEN call' = [call EXCEPT ![t].at = "label"] /\ crossed' = crossed
         ELSE Return(t)
  BY Zenon DEF Remember
<1>5. Return(t) => Promise!Ends(t)
  BY <1>1, Ended DEF Typed
<1>6. ASSUME call' = [call EXCEPT ![t].at = "label"]
      PROVE  Sending' = [Sending EXCEPT ![t].stage = "told"]
  <2> PICK k : k = [call[t] EXCEPT !.at = "label"]
    OBVIOUS
  <2>1. call[t] \in FrameType
    BY DEF Typed, CallOK
  <2>2. /\ k \in FrameType /\ k.at = "label" /\ k.target = n
        /\ Carries(k, call[t]) /\ k.blind = call[t].blind
    BY <2>1 DEF FrameType, Carries
  <2>3. call' = [call EXCEPT ![t] = k]
    BY <1>6
  <2>4. Sending' = [Sending EXCEPT ![t] = SendOf(k, p)]
    <3>1. Framed(t, k)
      BY <2>2, <2>3 DEF Framed
    <3> QED
      BY <1>1, <3>1, SendingStep DEF Typed
  <2>5. SendOf(k, p) = Sent("told", k, p, n)
    BY <2>2, SendIs
  <2>6. Sent("told", k, p, n) = Sent("told", call[t], p, n)
    BY <2>2 DEF Sent, Carries
  <2>7. Moved(s, "told", n) = Sent("told", call[t], p, n)
    BY <1>2, SentMoves
  <2>8. SendOf(k, p) = Moved(Sending[t], "told", n)
    BY <2>5, <2>6, <2>7
  <2>9. Sending[t] = Sent("filed", call[t], p, n)
    BY <1>2
  <2> QED
    <3>1. Sending' = [Sending EXCEPT ![t] = Moved(Sending[t], "told", n)]
      BY <2>4, <2>8, Zenon
    <3> QED
      BY <2>9, <3>1, SendingTold, Zenon
<1>7. Promise!Tell(t, s)
  BY <1>1, <1>3, <1>4, <1>5, <1>6, Zenon DEF Promise!Tell
<1> QED
  BY <1>7, PromiseSteps

LEMMA LabelKept ==
  ASSUME Typed, NEW t \in Threads, AddLabel(t)
  PROVE  PromiseStep
<1> PICK s, n : s = Sending[t] /\ n = call[t].target
  OBVIOUS
<1>1. call[t].at = "label" /\ home' = home /\ Return(t)
  BY LabelStep DEF Typed, AddLabel
<1>2. s = Sent("told", call[t], home[t], n)
  BY <1>1, SendIs, SendingNow
<1>3. s.stage = "told" /\ s.issue = n
  BY <1>2 DEF Sent
<1>4. Promise!Ends(t)
  BY <1>1, Ended DEF Typed
<1>5. \/ issues' = [issues EXCEPT ![n].labelled = TRUE] /\ Promise!Carried
      \/ Promise!Fails /\ UNCHANGED issues
  BY CarriedOut, Failed, Zenon DEF AddLabel
<1>6. Promise!Label(t, s)
  BY <1>3, <1>4, <1>5, Zenon DEF Promise!Label
<1> QED
  BY <1>6, PromiseSteps

LEMMA CloseKept ==
  ASSUME NEW n \in Numbers, Close(n)
  PROVE  PromiseStep
<1>1. Sending' = Sending /\ faults' = faults /\ crossed' = crossed
  BY SendingSame DEF Close
<1>2. Promise!Close(n)
  BY <1>1 DEF Close, Promise!Close
<1> QED
  BY <1>2 DEF PromiseStep, Promise!TrackerNext, Numbers

LEMMA StepKept ==
  Typed /\ FilingInv /\ CountInv /\ RightInv /\ [Next]_vars => PromiseStep
<1> SUFFICES ASSUME Typed, FilingInv, CountInv, RightInv, [Next]_vars PROVE PromiseStep
  OBVIOUS
<1>1. ASSUME \/ \E t \in Threads, f \in Findings : Collapse(t, f)
             \/ Tick \/ UNCHANGED vars \/ \E n \in Numbers : Reindex(n)
      PROVE  PromiseStep
  <2>1. issues' = issues /\ faults' = faults /\ call' = call /\ home' = home /\ crossed' = crossed
    BY <1>1, Zenon DEF Collapse, Tick, vars, Reindex
  <2> QED
    BY <2>1, SendingSame, Stutters
<1> QED
  BY <1>1, BeginKept, LooksKept, CommentKept, BumpKept, CreateKept, RememberKept, LabelKept,
     CloseKept, Zenon DEF Next, Step, Looker

\* KeepsTrackerPromise: searches, memories and their limits are not to be seen
\* from outside; what a send does to the tracker is what TrackerPromise allows,
\* for every number of threads and instances and every number of failed
\* requests, carried out or not.
THEOREM TrackerKept == ASSUME Roomy PROVE Spec => KeepsTrackerPromise
<1> DEFINE Inv == Typed /\ FilingInv /\ CountInv /\ RightInv
<1>1. Init => Inv
  <2>1. Init => RightInv
    BY Bounds, IdleFrame DEF Init, RightInv, EntriesRight, FoundRight
  <2> QED
    BY <2>1, InitTyped, InitFiling, InitCount
<1>2. Inv /\ [Next]_vars => Inv'
  BY StepTyped, StepFiling, StepRead, StepCountsInv, StepCommentInv, StepEntries, StepFound
     DEF CountInv, RightInv, FilingInv
<1>3. Init => Promise!TrackerInit
  <2> SUFFICES ASSUME Init PROVE Promise!TrackerInit
    OBVIOUS
  <2>1. Sending = [t \in Threads |-> Promise!AtRest]
    <3>1. \A t \in Threads : call[t] = Idle
      BY DEF Init
    <3>2. \A t \in Threads : SendOf(call[t], home[t]) = Promise!AtRest
      BY <3>1, SendIs, IdleFrame
    <3> QED
      BY <3>2 DEF Sending
  <2> QED
    BY <2>1 DEF Init, Promise!TrackerInit
<1>4. Inv /\ [Next]_vars => [Promise!TrackerNext]_(Promise!trackerVars)
  BY StepKept DEF PromiseStep
<1> QED
  BY <1>1, <1>2, <1>3, <1>4, PTL DEF Spec, KeepsTrackerPromise, Promise!TrackerSpec

===============================================================================
