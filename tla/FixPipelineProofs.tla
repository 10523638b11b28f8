-------------------------- MODULE FixPipelineProofs --------------------------
(***************************************************************************)
(* The auto-fix pipeline keeps FixPromise and leaves nothing untold, for   *)
(* every number of concurrent runs, every scope, issue, patch and residue, *)
(* whatever the owner does meanwhile and however many calls fail.          *)
(*                                                                         *)
(* RunInv speaks of one run. Outcomes ties its place to its branch, its    *)
(* pull request and its result, Told to the rows and comments it wrote,    *)
(* Based to what it read of the owner's checkout.                          *)
(***************************************************************************)
EXTENDS FixPipeline, TLAPS

Early == {"idle", "read", "prompt", "generate", "inventory", "dirty", "worktree", "apply",
          "check", "test", "reject", "push"}
Guarded == {"dirty", "worktree", "apply", "check", "test", "push"}
Rooted == {"apply", "check", "test", "push"}
Late == {"comment", "leave", "ended"}
Clean(r) == branches[r] = NoBranch /\ r \notin pulls
Opened(r) == branches[r].paths # {} /\ r \in pulls /\ r \notin DryRuns

Outcomes(r) ==
  /\ pc[r] \in Early => Clean(r)
  /\ pc[r] \in Guarded => \A p \in run[r].inventory : InScope(p)
  /\ pc[r] \in {"push", "open"} => r \notin DryRuns
  /\ pc[r] = "open" => branches[r].paths # {} /\ r \notin pulls
  /\ pc[r] \in {"save", "link"} => Opened(r)
  /\ r \in pulls => branches[r].paths # {}
  /\ pc[r] = "comment" => run[r].result \in {"skipped", "failed"}
  /\ pc[r] = "leave" => run[r].result \in {"skipped", "failed", "created", "raised"}
  /\ pc[r] = "ended" => run[r].result \in {"skipped", "failed", "created", "raised", "killed"}
  /\ pc[r] \in Late /\ run[r].result = "skipped" => Clean(r)
  /\ pc[r] \in Late /\ run[r].result = "created" =>
       (r \in DryRuns /\ Clean(r)) \/ Opened(r)

Rejected(r) == [run |-> r, rejected |-> TRUE, pull |-> FALSE]
Pulled(r) == [run |-> r, rejected |-> FALSE, pull |-> TRUE]

Told(r) ==
  /\ Rejected(r) \in attempts => pc[r] \in Late /\ branches[r] = NoBranch
  /\ Pulled(r) \in attempts => r \in pulls
  /\ comments[r] = "link" => r \in pulls
  /\ comments[r] = "failed" =>
       pc[r] \in {"leave", "ended"} /\ run[r].result \in {"failed", "killed"}
  /\ trees[r].there /\ pc[r] = "ended" => faults > 0

Reading == {"prompt", "generate", "inventory", "dirty", "worktree"}
Faithful(r, p) == Undisturbed(r) /\ p \in run[r].read => run[r].base[p] = run[r].seen[p]

Based(r) ==
  /\ run[r].readAt <= caller.edits
  /\ pc[r] \in Reading /\ run[r].readAt = caller.edits => run[r].seen = caller.work
  /\ pc[r] = "worktree" /\ run[r].readAt = caller.edits =>
       \A p \in run[r].inventory : caller.work[p] = caller.head[p]
  /\ pc[r] \in Rooted => \A p \in run[r].inventory : Faithful(r, p)
  /\ \A p \in branches[r].paths : Faithful(r, p)

RunInv(r) == Outcomes(r) /\ Told(r) /\ Based(r)
FixInv == TypeOK /\ \A r \in Runs : RunInv(r)

LEMMA Bounds == MaxEdits \in Nat /\ MaxFaults \in Nat
  BY FixAssumption

LEMMA InitFix == Init => FixInv
<1> SUFFICES ASSUME Init PROVE FixInv
  OBVIOUS
<1> DEFINE first ==
  [files |-> {}, id |-> FALSE, read |-> {}, seen |-> Unchanged0, readAt |-> 0,
   prior |-> {}, router |-> FALSE, patch |-> {}, inventory |-> {},
   base |-> Unchanged0, baseAt |-> 0, result |-> "none"]
<1>1. Unchanged0 \in [Paths -> Versions] /\ 0 \in Versions /\ 0 \in 0 .. MaxFaults
  BY Bounds DEF Unchanged0, Versions
<1>2. first \in Locals
  BY <1>1 DEF Locals, FixOutcome
<1>3. /\ first.inventory = {} /\ first.read = {} /\ first.readAt = 0
      /\ first.seen = Unchanged0 /\ first.base = Unchanged0
  OBVIOUS
<1>4. run = [r \in Runs |-> first]
  BY DEF Init
<1> HIDE DEF first
<1>5. pc \in [Runs -> PC] /\ \A r \in Runs : pc[r] = "idle"
  BY DEF Init, PC
<1>6. TypeOK
  BY <1>1, <1>2, <1>4, <1>5 DEF Init, TypeOK, NoTree, NoBranch
<1>7. ASSUME NEW r \in Runs PROVE RunInv(r)
  <2>1. run[r] = first /\ pc[r] = "idle" /\ branches[r] = NoBranch /\ pulls = {}
        /\ attempts = {} /\ comments[r] = "none" /\ caller.edits = 0
        /\ caller.work = Unchanged0 /\ caller.head = Unchanged0
    BY <1>4, <1>5 DEF Init
  <2>2. Outcomes(r)
    BY <2>1, <1>3 DEF Outcomes, Early, Guarded, Late, Clean
  <2>3. Told(r)
    BY <2>1 DEF Told
  <2>4. Based(r)
    BY <2>1, <1>3 DEF Based, Reading, Rooted, Faithful, NoBranch
  <2> QED
    BY <2>2, <2>3, <2>4 DEF RunInv
<1> QED
  BY <1>6, <1>7 DEF FixInv

(***************************************************************************)
(* What the helpers of the actions do                                      *)
(***************************************************************************)
LEMMA GotoType ==
  ASSUME TypeOK, NEW r \in Runs, NEW p \in PC, Goto(r, p)
  PROVE /\ pc' \in [Runs -> PC] /\ pc'[r] = p
        /\ \A s \in Runs : s # r => pc'[s] = pc[s]
  BY DEF TypeOK, Goto

\* The locals the invariant speaks of.
Same(r) ==
  /\ run'[r].read = run[r].read /\ run'[r].seen = run[r].seen
  /\ run'[r].readAt = run[r].readAt /\ run'[r].inventory = run[r].inventory
  /\ run'[r].base = run[r].base /\ run'[r].baseAt = run[r].baseAt

LEMMA ResultType ==
  ASSUME TypeOK, NEW r \in Runs, NEW o \in FixOutcome \cup {"raised", "killed"},
         run' = [run EXCEPT ![r].result = o]
  PROVE /\ run' \in [Runs -> Locals] /\ run'[r].result = o /\ Same(r)
        /\ \A s \in Runs : s # r => run'[s] = run[s]
<1> DEFINE g == [run[r] EXCEPT !.result = o]
<1>1. run[r] \in Locals /\ run' = [run EXCEPT ![r] = g]
  BY DEF TypeOK
<1>2. g \in Locals /\ g.result = o
      /\ g.read = run[r].read /\ g.seen = run[r].seen /\ g.readAt = run[r].readAt
      /\ g.inventory = run[r].inventory /\ g.base = run[r].base /\ g.baseAt = run[r].baseAt
  BY <1>1 DEF Locals, FixOutcome
<1> HIDE DEF g
<1>3. run \in [Runs -> Locals]
  BY DEF TypeOK
<1>4. run' \in [Runs -> Locals] /\ run'[r] = g /\ \A s \in Runs : s # r => run'[s] = run[s]
  BY <1>1, <1>2, <1>3
<1> QED
  BY <1>2, <1>4 DEF Same

(***************************************************************************)
(* A step of r leaves the other runs alone                                 *)
(***************************************************************************)
Elsewhere(r) ==
  /\ \A s \in Runs : s # r =>
       /\ pc'[s] = pc[s] /\ run'[s] = run[s] /\ trees'[s] = trees[s]
       /\ branches'[s] = branches[s] /\ comments'[s] = comments[s]
       /\ s \in pulls' <=> s \in pulls
       /\ \A a \in attempts' : a.run = s => a \in attempts
  /\ caller' = caller
  /\ faults \in Nat /\ faults' \in Nat /\ faults <= faults'

LEMMA OthersKeep ==
  ASSUME NEW r \in Runs, NEW s \in Runs, s # r, RunInv(s), Elsewhere(r)
  PROVE RunInv(s)'
<1>1. /\ pc'[s] = pc[s] /\ run'[s] = run[s] /\ trees'[s] = trees[s]
      /\ branches'[s] = branches[s] /\ comments'[s] = comments[s]
      /\ s \in pulls' <=> s \in pulls
  BY DEF Elsewhere
<1>2. /\ Rejected(s) \in attempts' => Rejected(s) \in attempts
      /\ Pulled(s) \in attempts' => Pulled(s) \in attempts
  BY DEF Elsewhere, Rejected, Pulled
<1>3. caller' = caller /\ (faults > 0 => faults' > 0)
  BY DEF Elsewhere
<1>4. Outcomes(s)'
  BY <1>1 DEF RunInv, Outcomes, Clean, Opened
<1>5. Told(s)'
  BY <1>1, <1>2, <1>3 DEF RunInv, Told, Rejected, Pulled
<1>6. Based(s)'
  BY <1>1, <1>3 DEF RunInv, Based, Faithful, Undisturbed
<1> QED
  BY <1>4, <1>5, <1>6 DEF RunInv

LEMMA StepKeeps ==
  ASSUME FixInv, NEW r \in Runs, Elsewhere(r), TypeOK', RunInv(r)'
  PROVE FixInv'
<1>1. ASSUME NEW s \in Runs PROVE RunInv(s)'
  BY OthersKeep DEF FixInv
<1> QED
  BY <1>1 DEF FixInv

\* Faults only grow, to at most MaxFaults.
LEMMA FaultGrows ==
  ASSUME TypeOK, Fault \/ NoFault
  PROVE /\ faults \in Nat /\ faults' \in Nat /\ faults <= faults'
        /\ faults' \in 0 .. MaxFaults /\ (Fault => faults' > 0)
<1>1. MaxFaults \in Nat
  BY Bounds
<1>2. faults \in 0 .. MaxFaults
  BY DEF TypeOK
<1>3. CASE Fault
  BY <1>1, <1>2, <1>3 DEF Fault
<1>4. CASE NoFault /\ ~Fault
  BY <1>1, <1>2, <1>4 DEF NoFault
<1> QED
  BY <1>3, <1>4

(***************************************************************************)
(* Steps that stop the run before it published anything                    *)
(***************************************************************************)
LEMMA StopsEarly ==
  ASSUME FixInv, NEW r \in Runs, pc[r] \in Early,
         NEW o \in {"failed", "skipped", "raised", "created"},
         \/ Reports(r, o) /\ o \in {"failed", "skipped"}
         \/ Returns(r, o) /\ (o = "created" => r \in DryRuns),
         Fault \/ NoFault,
         trees' \in [Runs -> [there : BOOLEAN, patched : SUBSET Paths, stray : SUBSET Paths]],
         \A s \in Runs : s # r => trees'[s] = trees[s],
         UNCHANGED <<caller, branches, pulls, comments, attempts>>
  PROVE FixInv'
<1>t. TypeOK /\ RunInv(r)
  BY DEF FixInv
<1>1. PICK p \in {"comment", "leave"} :
        /\ Goto(r, p) /\ run' = [run EXCEPT ![r].result = o]
        /\ p = "comment" => o \in {"failed", "skipped"}
        /\ o = "created" => r \in DryRuns
  BY DEF Reports, Returns
<1>2. /\ pc' \in [Runs -> PC] /\ pc'[r] = p
      /\ \A s \in Runs : s # r => pc'[s] = pc[s]
  BY <1>t, <1>1, GotoType DEF PC
<1>3. /\ run' \in [Runs -> Locals] /\ run'[r].result = o /\ Same(r)
      /\ \A s \in Runs : s # r => run'[s] = run[s]
  BY <1>t, <1>1, ResultType DEF FixOutcome
<1>4. Elsewhere(r) /\ faults' \in 0 .. MaxFaults
  BY <1>t, <1>2, <1>3, FaultGrows DEF Elsewhere
<1>5. TypeOK'
  BY <1>t, <1>2, <1>3, <1>4 DEF TypeOK
<1>6. Clean(r) /\ Clean(r)'
  BY <1>t DEF RunInv, Outcomes, Clean
<1>7. Outcomes(r)'
  BY <1>1, <1>2, <1>3, <1>6 DEF Outcomes, Early, Guarded, Late, Clean
<1>8. Told(r)'
  BY <1>t, <1>2, <1>6 DEF RunInv, Told, Early, Late, Rejected, Pulled, Clean
<1>9. Based(r)'
  BY <1>t, <1>2, <1>3, <1>6
  DEF RunInv, Based, Reading, Rooted, Faithful, Undisturbed, Same, Clean, NoBranch
<1> QED
  BY <1>4, <1>5, <1>7, <1>8, <1>9, StepKeeps DEF RunInv

(***************************************************************************)
(* Steps that take the run on, with nothing published yet                  *)
(***************************************************************************)
LEMMA GoesOn ==
  ASSUME FixInv, NEW r \in Runs, pc[r] \in Early,
         NEW p \in Early, Goto(r, p), Fault \/ NoFault,
         run' \in [Runs -> Locals], \A s \in Runs : s # r => run'[s] = run[s],
         trees' \in [Runs -> [there : BOOLEAN, patched : SUBSET Paths, stray : SUBSET Paths]],
         \A s \in Runs : s # r => trees'[s] = trees[s],
         UNCHANGED <<caller, branches, pulls, comments, attempts>>,
         p \in Guarded => \A q \in run'[r].inventory : InScope(q),
         p = "push" => r \notin DryRuns,
         run'[r].readAt <= caller.edits,
         p \in Reading /\ run'[r].readAt = caller.edits => run'[r].seen = caller.work,
         p = "worktree" /\ run'[r].readAt = caller.edits =>
           \A q \in run'[r].inventory : caller.work[q] = caller.head[q],
         p \in Rooted => \A q \in run'[r].inventory : Faithful(r, q)'
  PROVE FixInv'
<1>t. TypeOK /\ RunInv(r)
  BY DEF FixInv
<1>1. /\ pc' \in [Runs -> PC] /\ pc'[r] = p
      /\ \A s \in Runs : s # r => pc'[s] = pc[s]
  BY <1>t, GotoType DEF PC, Early
<1>2. Elsewhere(r) /\ faults' \in 0 .. MaxFaults
  BY <1>t, <1>1, FaultGrows DEF Elsewhere
<1>3. TypeOK'
  BY <1>t, <1>1, <1>2 DEF TypeOK
<1>4. Clean(r) /\ Clean(r)'
  BY <1>t DEF RunInv, Outcomes, Clean
<1>5. Outcomes(r)'
  BY <1>1, <1>4 DEF Outcomes, Early, Late, Clean
<1>6. Told(r)'
  BY <1>t, <1>1, <1>4 DEF RunInv, Told, Early, Late, Rejected, Pulled, Clean
<1>7. Based(r)'
  BY <1>t, <1>1, <1>4 DEF Based, Clean, NoBranch
<1> QED
  BY <1>2, <1>3, <1>5, <1>6, <1>7, StepKeeps DEF RunInv

(***************************************************************************)
(* The gates, one command after the other                                  *)
(***************************************************************************)
LEMMA KeptRun ==
  ASSUME TypeOK, UNCHANGED run
  PROVE run' \in [Runs -> Locals] /\ \A s \in Runs : run'[s] = run[s]
  BY DEF TypeOK

LEMMA KeptTrees ==
  ASSUME TypeOK, UNCHANGED trees
  PROVE /\ trees' \in [Runs -> [there : BOOLEAN, patched : SUBSET Paths, stray : SUBSET Paths]]
        /\ \A s \in Runs : trees'[s] = trees[s]
  BY DEF TypeOK

LEMMA FetchKeeps ==
  ASSUME FixInv, NEW r \in Runs, FetchFails(r) \/ Fetch(r) PROVE FixInv'
<1>t. TypeOK /\ RunInv(r)
  BY DEF FixInv
<1>0. /\ pc[r] = "idle" /\ (Fault \/ NoFault) /\ UNCHANGED trees
      /\ UNCHANGED <<caller, branches, pulls, comments, attempts>>
  BY DEF FetchFails, Fetch, At
<1>1. CASE \/ Reports(r, "failed") \/ Reports(r, "skipped")
           \/ Returns(r, "failed") \/ Returns(r, "raised")
  BY <1>t, <1>0, <1>1, KeptTrees, StopsEarly DEF Early
<1>2. ASSUME NEW issue \in Issues,
             run' = [run EXCEPT ![r].files = issue.files, ![r].id = issue.id],
             Goto(r, "read")
      PROVE FixInv'
  <2> DEFINE g == [run[r] EXCEPT !.files = issue.files, !.id = issue.id]
  <2>1. run[r] \in Locals /\ run' = [run EXCEPT ![r] = g] /\ run \in [Runs -> Locals]
    BY <1>t, <1>2 DEF TypeOK
  <2>2. issue.files \subseteq Paths /\ issue.id \in BOOLEAN
    BY FixAssumption
  <2>3. g \in Locals /\ g.readAt = run[r].readAt
    BY <2>1, <2>2 DEF Locals
  <2> HIDE DEF g
  <2>4. /\ run' \in [Runs -> Locals] /\ run'[r] = g
        /\ \A s \in Runs : s # r => run'[s] = run[s]
    BY <2>1, <2>3
  <2>5. run[r].readAt <= caller.edits
    BY <1>t DEF RunInv, Based
  <2> QED
    BY <1>t, <1>0, <1>2, <2>3, <2>4, <2>5, KeptTrees, GoesOn
    DEF Early, Guarded, Reading, Rooted
<1> QED
  BY <1>1, <1>2 DEF FetchFails, Fetch

LEMMA ReadKeeps ==
  ASSUME FixInv, NEW r \in Runs, ReadFiles(r) PROVE FixInv'
<1>t. TypeOK /\ RunInv(r)
  BY DEF FixInv
<1>0. /\ pc[r] = "read" /\ (Fault \/ NoFault) /\ UNCHANGED trees
      /\ UNCHANGED <<caller, branches, pulls, comments, attempts>>
  BY DEF ReadFiles, At
<1>1. CASE Reports(r, "failed") \/ Reports(r, "skipped")
  BY <1>t, <1>0, <1>1, KeptTrees, StopsEarly DEF Early
<1>2. ASSUME NEW read \in SUBSET Paths,
             run' = [run EXCEPT ![r].read = read, ![r].seen = caller.work,
                                ![r].readAt = caller.edits],
             Goto(r, "prompt")
      PROVE FixInv'
  <2> DEFINE g == [run[r] EXCEPT !.read = read, !.seen = caller.work,
                                 !.readAt = caller.edits]
  <2>1. run[r] \in Locals /\ run' = [run EXCEPT ![r] = g] /\ run \in [Runs -> Locals]
    BY <1>t, <1>2 DEF TypeOK
  <2>2. caller.work \in [Paths -> Versions] /\ caller.edits \in Versions
    BY <1>t DEF TypeOK
  <2>3. g \in Locals /\ g.readAt = caller.edits /\ g.seen = caller.work
    BY <2>1, <2>2 DEF Locals
  <2> HIDE DEF g
  <2>4. /\ run' \in [Runs -> Locals] /\ run'[r] = g
        /\ \A s \in Runs : s # r => run'[s] = run[s]
    BY <2>1, <2>3
  <2>5. caller.edits <= caller.edits
    BY <2>2, Bounds DEF Versions
  <2> QED
    BY <1>t, <1>0, <1>2, <2>3, <2>4, <2>5, KeptTrees, GoesOn
    DEF Early, Guarded, Reading, Rooted
<1>3. CASE \E read \in SUBSET Paths :
             /\ run' = [run EXCEPT ![r].read = read, ![r].seen = caller.work,
                                  ![r].readAt = caller.edits]
             /\ Goto(r, "prompt")
  BY <1>2, <1>3
<1>4. PICK listed \in BOOLEAN, unreadable \in SUBSET run[r].files, shown \in SUBSET Paths :
        LET accepted == IF listed THEN {p \in run[r].files : Confined(p)} ELSE {}
            read == accepted \ unreadable
        IN  \/ Reports(r, "skipped") \/ Reports(r, "failed")
            \/ /\ read \in SUBSET run[r].files
               /\ run' = [run EXCEPT ![r].read = read \cup shown, ![r].seen = caller.work,
                                    ![r].readAt = caller.edits]
               /\ Goto(r, "prompt")
  BY Zenon DEF ReadFiles
<1>5. run[r].files \subseteq Paths
  BY <1>t DEF TypeOK, Locals
<1>6. ASSUME NEW read \in SUBSET run[r].files, NEW others \in SUBSET Paths
      PROVE read \cup others \in SUBSET Paths
  BY <1>5, <1>6
<1>7. \/ Reports(r, "skipped") \/ Reports(r, "failed")
      \/ \E read \in SUBSET Paths :
           /\ run' = [run EXCEPT ![r].read = read, ![r].seen = caller.work,
                                ![r].readAt = caller.edits]
           /\ Goto(r, "prompt")
  <2> DEFINE accepted == IF listed THEN {p \in run[r].files : Confined(p)} ELSE {}
             read == accepted \ unreadable
  <2>1. read \in SUBSET run[r].files => read \cup shown \in SUBSET Paths
    BY <1>6
  <2> HIDE DEF accepted
  <2>2. \/ Reports(r, "skipped") \/ Reports(r, "failed")
        \/ /\ read \in SUBSET run[r].files
           /\ run' = [run EXCEPT ![r].read = read \cup shown, ![r].seen = caller.work,
                                ![r].readAt = caller.edits]
           /\ Goto(r, "prompt")
    BY <1>4, Zenon DEF accepted
  <2> HIDE DEF read
  <2> QED
    BY <2>1, <2>2, Zenon
<1> QED
  BY <1>1, <1>3, <1>7

LEMMA PromptKeeps ==
  ASSUME FixInv, NEW r \in Runs, Prompt(r) PROVE FixInv'
<1>t. TypeOK /\ RunInv(r)
  BY DEF FixInv
<1>0. /\ pc[r] = "prompt" /\ (Fault \/ NoFault) /\ UNCHANGED trees
      /\ UNCHANGED <<caller, branches, pulls, comments, attempts>>
  BY DEF Prompt, At
<1>1. CASE Reports(r, "failed")
  BY <1>t, <1>0, <1>1, KeptTrees, StopsEarly DEF Early
<1>2. ASSUME NEW prior \in {{}, IF run[r].id THEN Rejections(attempts) ELSE {}},
             NEW router \in BOOLEAN,
             run' = [run EXCEPT ![r].prior = prior, ![r].router = router],
             Goto(r, "generate")
      PROVE FixInv'
  <2> DEFINE g == [run[r] EXCEPT !.prior = prior, !.router = router]
  <2>1. run[r] \in Locals /\ run' = [run EXCEPT ![r] = g] /\ run \in [Runs -> Locals]
    BY <1>t, <1>2 DEF TypeOK
  <2>2. prior \subseteq Runs
    BY <1>t DEF TypeOK, Rejections
  <2>3. g \in Locals /\ g.readAt = run[r].readAt /\ g.seen = run[r].seen
    BY <2>1, <2>2 DEF Locals
  <2> HIDE DEF g
  <2>4. /\ run' \in [Runs -> Locals] /\ run'[r] = g
        /\ \A s \in Runs : s # r => run'[s] = run[s]
    BY <2>1, <2>3
  <2>5. /\ run[r].readAt <= caller.edits
        /\ run[r].readAt = caller.edits => run[r].seen = caller.work
    BY <1>t, <1>0 DEF RunInv, Based, Reading
  <2> QED
    BY <1>t, <1>0, <1>2, <2>3, <2>4, <2>5, KeptTrees, GoesOn
    DEF Early, Guarded, Reading, Rooted
<1> QED
  BY <1>1, <1>2 DEF Prompt

LEMMA GenerateKeeps ==
  ASSUME FixInv, NEW r \in Runs, Generate(r) PROVE FixInv'
<1>t. TypeOK /\ RunInv(r)
  BY DEF FixInv
<1>0. /\ pc[r] = "generate" /\ (Fault \/ NoFault) /\ UNCHANGED trees
      /\ UNCHANGED <<caller, branches, pulls, comments, attempts>>
  BY DEF Generate, At
<1>1. CASE Reports(r, "failed") \/ Reports(r, "skipped") \/ Returns(r, "raised")
  BY <1>t, <1>0, <1>1, KeptTrees, StopsEarly DEF Early
<1>2. ASSUME NEW patch \in Patches,
             run' = [run EXCEPT ![r].patch = patch.git, ![r].inventory = Inventory(patch)],
             Goto(r, "inventory")
      PROVE FixInv'
  <2> DEFINE g == [run[r] EXCEPT !.patch = patch.git, !.inventory = Inventory(patch)]
  <2>1. run[r] \in Locals /\ run' = [run EXCEPT ![r] = g] /\ run \in [Runs -> Locals]
    BY <1>t, <1>2 DEF TypeOK
  <2>2. patch.git \subseteq Paths /\ Inventory(patch) \subseteq Paths
    BY FixAssumption DEF Inventory
  <2>3. g \in Locals /\ g.readAt = run[r].readAt /\ g.seen = run[r].seen
    BY <2>1, <2>2 DEF Locals
  <2> HIDE DEF g
  <2>4. /\ run' \in [Runs -> Locals] /\ run'[r] = g
        /\ \A s \in Runs : s # r => run'[s] = run[s]
    BY <2>1, <2>3
  <2>5. /\ run[r].readAt <= caller.edits
        /\ run[r].readAt = caller.edits => run[r].seen = caller.work
    BY <1>t, <1>0 DEF RunInv, Based, Reading
  <2> QED
    BY <1>t, <1>0, <1>2, <2>3, <2>4, <2>5, KeptTrees, GoesOn
    DEF Early, Guarded, Reading, Rooted
<1> QED
  BY <1>1, <1>2 DEF Generate

LEMMA InventoryKeeps ==
  ASSUME FixInv, NEW r \in Runs, TakeInventory(r) PROVE FixInv'
<1>t. TypeOK /\ RunInv(r)
  BY DEF FixInv
<1>0. /\ pc[r] = "inventory" /\ NoFault /\ UNCHANGED trees
      /\ UNCHANGED <<caller, branches, pulls, comments, attempts>>
  BY DEF TakeInventory, At
<1>1. CASE Reports(r, "skipped")
  BY <1>t, <1>0, <1>1, KeptTrees, StopsEarly DEF Early
<1>2. CASE Violations(run[r].inventory) = {} /\ Goto(r, "dirty") /\ UNCHANGED run
  <2>1. run[r].inventory \subseteq Paths
    BY <1>t DEF TypeOK, Locals
  <2>2. \A q \in run[r].inventory : InScope(q)
    BY <2>1, <1>2 DEF Violations
  <2>3. /\ run[r].readAt <= caller.edits
        /\ run[r].readAt = caller.edits => run[r].seen = caller.work
    BY <1>t, <1>0 DEF RunInv, Based, Reading
  <2> QED
    BY <1>t, <1>0, <1>2, <2>2, <2>3, KeptRun, KeptTrees, GoesOn
    DEF Early, Guarded, Reading, Rooted
<1> QED
  BY <1>1, <1>2 DEF TakeInventory

LEMMA DirtyKeeps ==
  ASSUME FixInv, NEW r \in Runs, CheckDirty(r) PROVE FixInv'
<1>t. TypeOK /\ RunInv(r)
  BY DEF FixInv
<1>0. /\ pc[r] = "dirty" /\ (Fault \/ NoFault) /\ UNCHANGED trees
      /\ UNCHANGED <<caller, branches, pulls, comments, attempts>>
  BY DEF CheckDirty, At
<1>1. CASE Reports(r, "skipped") \/ Reports(r, "failed")
  BY <1>t, <1>0, <1>1, KeptTrees, StopsEarly DEF Early
<1>2. CASE run[r].inventory \cap DirtyPaths = {} /\ Goto(r, "worktree") /\ UNCHANGED run
  <2>1. run[r].inventory \subseteq Paths
    BY <1>t DEF TypeOK, Locals
  <2>2. \A q \in run[r].inventory : caller.work[q] = caller.head[q]
    BY <2>1, <1>2 DEF DirtyPaths
  <2>3. /\ run[r].readAt <= caller.edits
        /\ run[r].readAt = caller.edits => run[r].seen = caller.work
        /\ \A q \in run[r].inventory : InScope(q)
    BY <1>t, <1>0 DEF RunInv, Based, Outcomes, Reading, Guarded
  <2> QED
    BY <1>t, <1>0, <1>2, <2>2, <2>3, KeptRun, KeptTrees, GoesOn
    DEF Early, Guarded, Reading, Rooted
<1> QED
  BY <1>1, <1>2 DEF CheckDirty

LEMMA WorktreeKeeps ==
  ASSUME FixInv, NEW r \in Runs, CreateWorktree(r) PROVE FixInv'
<1>t. TypeOK /\ RunInv(r)
  BY DEF FixInv
<1>0. /\ pc[r] = "worktree" /\ (Fault \/ NoFault)
      /\ UNCHANGED <<caller, branches, pulls, comments, attempts>>
  BY DEF CreateWorktree, At
<1>1. CASE Reports(r, "failed") /\ UNCHANGED trees
  BY <1>t, <1>0, <1>1, KeptTrees, StopsEarly DEF Early
<1>2. ASSUME NEW stray \in Residues,
             trees' = [trees EXCEPT ![r] = [NoTree EXCEPT !.there = TRUE, !.stray = stray]],
             run' = [run EXCEPT ![r].base = caller.head, ![r].baseAt = caller.edits],
             Goto(r, "apply")
      PROVE FixInv'
  <2> DEFINE g == [run[r] EXCEPT !.base = caller.head, !.baseAt = caller.edits]
             t == [NoTree EXCEPT !.there = TRUE, !.stray = stray]
  <2>1. run[r] \in Locals /\ run' = [run EXCEPT ![r] = g] /\ run \in [Runs -> Locals]
    BY <1>t, <1>2 DEF TypeOK
  <2>2. caller.head \in [Paths -> Versions] /\ caller.edits \in Versions
    BY <1>t DEF TypeOK
  <2>3. g \in Locals /\ g.readAt = run[r].readAt /\ g.seen = run[r].seen
        /\ g.read = run[r].read /\ g.inventory = run[r].inventory
        /\ g.base = caller.head /\ g.baseAt = caller.edits
    BY <2>1, <2>2 DEF Locals
  <2>4. t \in [there : BOOLEAN, patched : SUBSET Paths, stray : SUBSET Paths]
    BY FixAssumption DEF NoTree
  <2>5. trees' = [trees EXCEPT ![r] = t]
    BY <1>2
  <2> HIDE DEF g, t
  <2>6. /\ run' \in [Runs -> Locals] /\ run'[r] = g
        /\ \A s \in Runs : s # r => run'[s] = run[s]
    BY <2>1, <2>3
  <2>7. /\ trees' \in [Runs -> [there : BOOLEAN, patched : SUBSET Paths, stray : SUBSET Paths]]
        /\ \A s \in Runs : s # r => trees'[s] = trees[s]
    BY <1>t, <2>4, <2>5 DEF TypeOK
  <2>8. /\ run[r].readAt <= caller.edits
        /\ run[r].readAt = caller.edits => run[r].seen = caller.work
        /\ run[r].readAt = caller.edits =>
             \A q \in run[r].inventory : caller.work[q] = caller.head[q]
        /\ \A q \in run[r].inventory : InScope(q)
    BY <1>t, <1>0 DEF RunInv, Based, Outcomes, Reading, Guarded
  <2>9. \A q \in run'[r].inventory : Faithful(r, q)'
    BY <2>3, <2>6, <2>8 DEF Faithful, Undisturbed
  <2> QED
    BY <1>t, <1>0, <1>2, <2>3, <2>6, <2>7, <2>8, <2>9, GoesOn
    DEF Early, Guarded, Reading, Rooted
<1> QED
  BY <1>1, <1>2 DEF CreateWorktree

\* What a run that has its worktree knows, and still knows once it moves on.
LEMMA StaysRooted ==
  ASSUME FixInv, NEW r \in Runs, pc[r] \in Rooted, UNCHANGED <<run, caller>>
  PROVE /\ run' \in [Runs -> Locals] /\ \A s \in Runs : run'[s] = run[s]
        /\ run[r].readAt <= caller.edits
        /\ \A q \in run[r].inventory : InScope(q)
        /\ \A q \in run[r].inventory : Faithful(r, q) /\ Faithful(r, q)'
<1>t. TypeOK /\ RunInv(r)
  BY DEF FixInv
<1>1. \A q \in run[r].inventory : Faithful(r, q)
  BY <1>t DEF RunInv, Based
<1>2. \A q \in run[r].inventory : Faithful(r, q)'
  BY <1>1 DEF Faithful, Undisturbed
<1>3. run[r].readAt <= caller.edits /\ \A q \in run[r].inventory : InScope(q)
  BY <1>t DEF RunInv, Based, Outcomes, Rooted, Guarded
<1> QED
  BY <1>t, <1>1, <1>2, <1>3, KeptRun

LEMMA ApplyKeeps ==
  ASSUME FixInv, NEW r \in Runs, ApplyDiff(r) PROVE FixInv'
<1>t. TypeOK /\ RunInv(r)
  BY DEF FixInv
<1>0. /\ pc[r] = "apply" /\ NoFault
      /\ UNCHANGED <<caller, branches, pulls, comments, attempts>>
  BY DEF ApplyDiff, At
<1>1. CASE Reports(r, "failed") /\ UNCHANGED trees
  BY <1>t, <1>0, <1>1, KeptTrees, StopsEarly DEF Early
<1>2. CASE trees' = [trees EXCEPT ![r].patched = run[r].patch] /\ Goto(r, "check") /\ UNCHANGED run
  <2>1. run[r].patch \subseteq Paths
    BY <1>t DEF TypeOK, Locals
  <2>2. trees \in [Runs -> [there : BOOLEAN, patched : SUBSET Paths, stray : SUBSET Paths]]
    BY <1>t DEF TypeOK
  <2>3. trees' \in [Runs -> [there : BOOLEAN, patched : SUBSET Paths, stray : SUBSET Paths]]
    BY <1>2, <2>1, <2>2
  <2>4. \A s \in Runs : s # r => trees'[s] = trees[s]
    BY <1>2, <2>2
  <2> QED
    BY <1>t, <1>0, <1>2, <2>3, <2>4, StaysRooted, GoesOn DEF Early, Guarded, Reading, Rooted
<1> QED
  BY <1>1, <1>2 DEF ApplyDiff

LEMMA CheckKeeps ==
  ASSUME FixInv, NEW r \in Runs, CheckApplied(r) PROVE FixInv'
<1>t. TypeOK /\ RunInv(r)
  BY DEF FixInv
<1>0. /\ pc[r] = "check" /\ (Fault \/ NoFault) /\ UNCHANGED trees
      /\ UNCHANGED <<caller, branches, pulls, comments, attempts>>
  BY DEF CheckApplied, At
<1>1. CASE Reports(r, "failed")
  BY <1>t, <1>0, <1>1, KeptTrees, StopsEarly DEF Early
<1>2. CASE Goto(r, "test") /\ UNCHANGED run
  BY <1>t, <1>0, <1>2, KeptTrees, StaysRooted, GoesOn DEF Early, Guarded, Reading, Rooted
<1> QED
  BY <1>1, <1>2 DEF CheckApplied

LEMMA TestsKeeps ==
  ASSUME FixInv, NEW r \in Runs, RunTests(r) PROVE FixInv'
<1>t. TypeOK /\ RunInv(r)
  BY DEF FixInv
<1>0. /\ pc[r] = "test" /\ NoFault
      /\ UNCHANGED <<caller, branches, pulls, comments, attempts>>
  BY DEF RunTests, At
<1>1. PICK residue \in Residues :
        trees' = [trees EXCEPT ![r].stray = trees[r].stray \cup residue]
  BY DEF RunTests
<1>2. /\ trees' \in [Runs -> [there : BOOLEAN, patched : SUBSET Paths, stray : SUBSET Paths]]
      /\ \A s \in Runs : s # r => trees'[s] = trees[s]
  <2> DEFINE t == [trees[r] EXCEPT !.stray = trees[r].stray \cup residue]
  <2>1. trees[r] \in [there : BOOLEAN, patched : SUBSET Paths, stray : SUBSET Paths]
    BY <1>t DEF TypeOK
  <2>2. residue \subseteq Paths
    BY FixAssumption
  <2>3. t \in [there : BOOLEAN, patched : SUBSET Paths, stray : SUBSET Paths]
    BY <2>1, <2>2
  <2>4. trees' = [trees EXCEPT ![r] = t]
    BY <1>1
  <2> HIDE DEF t
  <2> QED
    BY <1>t, <2>3, <2>4 DEF TypeOK
<1>3. CASE r \in DryRuns /\ Returns(r, "created")
  BY <1>t, <1>0, <1>2, <1>3, StopsEarly DEF Early
<1>4. CASE Goto(r, "reject") /\ UNCHANGED run
  BY <1>t, <1>0, <1>2, <1>4, StaysRooted, GoesOn DEF Early, Guarded, Reading, Rooted
<1>5. CASE r \notin DryRuns /\ Goto(r, "push") /\ UNCHANGED run
  BY <1>t, <1>0, <1>2, <1>5, StaysRooted, GoesOn DEF Early, Guarded, Reading, Rooted
<1>6. \/ Goto(r, "reject") /\ UNCHANGED run
      \/ r \in DryRuns /\ Returns(r, "created")
      \/ r \notin DryRuns /\ Goto(r, "push") /\ UNCHANGED run
  BY Zenon DEF RunTests
<1> QED
  BY <1>3, <1>4, <1>5, <1>6, Zenon

(***************************************************************************)
(* The steps that publish, write rows or comments, or end the run          *)
(***************************************************************************)
LEMMA Moves ==
  ASSUME TypeOK, NEW r \in Runs, NEW p \in PC, Goto(r, p),
         NEW o \in FixOutcome \cup {"raised", "killed"},
         UNCHANGED run \/ run' = [run EXCEPT ![r].result = o],
         Fault \/ NoFault
  PROVE /\ pc' \in [Runs -> PC] /\ pc'[r] = p
        /\ \A s \in Runs : s # r => pc'[s] = pc[s]
        /\ run' \in [Runs -> Locals] /\ Same(r)
        /\ \A s \in Runs : s # r => run'[s] = run[s]
        /\ run'[r].result \in {run[r].result, o}
        /\ run' = [run EXCEPT ![r].result = o] => run'[r].result = o
        /\ faults \in Nat /\ faults' \in Nat /\ faults <= faults'
        /\ faults' \in 0 .. MaxFaults /\ (Fault => faults' > 0)
<1>1. CASE UNCHANGED run /\ run' # [run EXCEPT ![r].result = o]
  BY <1>1, GotoType, KeptRun, FaultGrows DEF Same
<1>2. CASE run' = [run EXCEPT ![r].result = o]
  BY <1>2, GotoType, ResultType, FaultGrows
<1> QED
  BY <1>1, <1>2

\* Based depends on nothing but what the run read and on the branch.
LEMMA BasedLate ==
  ASSUME NEW r \in Runs, Based(r), Same(r), UNCHANGED caller,
         pc'[r] \notin Reading \cup Rooted,
         \A p \in branches'[r].paths : Faithful(r, p)
  PROVE Based(r)'
  BY DEF Based, Same, Faithful, Undisturbed, Reading

LEMMA RejectKeeps ==
  ASSUME FixInv, NEW r \in Runs, SaveRejection(r) PROVE FixInv'
<1>t. TypeOK /\ RunInv(r)
  BY DEF FixInv
<1>0. /\ pc[r] = "reject" /\ (Fault \/ NoFault) /\ Reports(r, "skipped")
      /\ attempts' \in {attempts, attempts \cup {Rejected(r)}}
      /\ UNCHANGED <<trees, caller, branches, pulls, comments>>
  BY DEF SaveRejection, At, Rejected
<1>1. /\ Goto(r, "comment") /\ run' = [run EXCEPT ![r].result = "skipped"]
      /\ "comment" \in PC /\ "skipped" \in FixOutcome
  BY <1>0 DEF Reports, PC, FixOutcome
<1>2. /\ pc' \in [Runs -> PC] /\ pc'[r] = "comment"
      /\ \A s \in Runs : s # r => pc'[s] = pc[s]
      /\ run' \in [Runs -> Locals] /\ Same(r) /\ run'[r].result = "skipped"
      /\ \A s \in Runs : s # r => run'[s] = run[s]
      /\ faults \in Nat /\ faults' \in Nat /\ faults <= faults'
      /\ faults' \in 0 .. MaxFaults
  BY <1>t, <1>0, <1>1, Moves
<1>3. Elsewhere(r)
  BY <1>0, <1>2 DEF Elsewhere, Rejected
<1>4. TypeOK'
  <2>1. Rejected(r) \in [run : Runs, rejected : BOOLEAN, pull : BOOLEAN]
    BY DEF Rejected
  <2> QED
    BY <1>t, <1>0, <1>2, <2>1 DEF TypeOK
<1>5. Clean(r) /\ Clean(r)'
  BY <1>t, <1>0 DEF RunInv, Outcomes, Early, Clean
<1>6. Outcomes(r)'
  BY <1>2, <1>5 DEF Outcomes, Early, Guarded, Late, Clean
<1>7. Told(r)'
  BY <1>t, <1>0, <1>2, <1>5 DEF RunInv, Told, Late, Rejected, Pulled, Clean
<1>8. Based(r)'
  BY <1>t, <1>0, <1>2, BasedLate DEF RunInv, Based, Reading, Rooted
<1> QED
  BY <1>3, <1>4, <1>6, <1>7, <1>8, StepKeeps DEF RunInv

LEMMA PushKeeps ==
  ASSUME FixInv, NEW r \in Runs, CommitAndPush(r) PROVE FixInv'
<1>t. TypeOK /\ RunInv(r)
  BY DEF FixInv
<1> DEFINE staged == ChangedPaths(trees[r]) \cap run[r].inventory
           branch == [paths |-> staged, residue |-> trees[r].stray \cap staged]
<1>1. staged \subseteq run[r].inventory /\ branch.paths = staged
      /\ branch \in [paths : SUBSET Paths, residue : SUBSET Paths]
  BY <1>t DEF TypeOK, Locals
<1>2. /\ pc[r] = "push" /\ UNCHANGED <<trees, caller, pulls, comments, attempts>>
      /\ \/ NoFault /\ Reports(r, "failed") /\ UNCHANGED branches
         \/ /\ staged # {} /\ NoFault
            /\ branches' = [branches EXCEPT ![r] = branch]
            /\ Goto(r, "open") /\ UNCHANGED run
         \/ /\ staged # {} /\ Fault
            /\ branches' \in {branches, [branches EXCEPT ![r] = branch]}
            /\ Reports(r, "failed") \/ Returns(r, "raised")
  BY DEF CommitAndPush, At
<1> HIDE DEF staged, branch
<1>3. PICK p \in {"open", "comment", "leave"}, o \in {"failed", "raised"} :
        /\ Goto(r, p) /\ (Fault \/ NoFault)
        /\ UNCHANGED run \/ run' = [run EXCEPT ![r].result = o]
        /\ p = "open" => branches' = [branches EXCEPT ![r] = branch] /\ staged # {}
        /\ p # "open" => run' = [run EXCEPT ![r].result = o]
        /\ p = "comment" => o = "failed"
        /\ \/ UNCHANGED branches
           \/ staged # {} /\ branches' = [branches EXCEPT ![r] = branch]
  BY <1>2 DEF Reports, Returns
<1>4. /\ pc' \in [Runs -> PC] /\ pc'[r] = p
      /\ \A s \in Runs : s # r => pc'[s] = pc[s]
      /\ run' \in [Runs -> Locals] /\ Same(r) /\ (p # "open" => run'[r].result = o)
      /\ \A s \in Runs : s # r => run'[s] = run[s]
      /\ faults \in Nat /\ faults' \in Nat /\ faults <= faults'
      /\ faults' \in 0 .. MaxFaults
  BY <1>t, <1>3, Moves DEF PC, FixOutcome
<1>5. /\ branches' \in [Runs -> [paths : SUBSET Paths, residue : SUBSET Paths]]
      /\ \A s \in Runs : s # r => branches'[s] = branches[s]
      /\ branches'[r] \in {branches[r], branch}
      /\ p = "open" => branches'[r].paths # {}
  BY <1>t, <1>1, <1>3 DEF TypeOK
<1>6. Elsewhere(r)
  BY <1>2, <1>4, <1>5 DEF Elsewhere
<1>7. TypeOK'
  BY <1>t, <1>2, <1>4, <1>5 DEF TypeOK
<1>8. Clean(r) /\ r \notin DryRuns
  BY <1>t, <1>2 DEF RunInv, Outcomes, Early
<1>9. Outcomes(r)'
  <2>1. r \notin pulls' /\ r \notin DryRuns
    BY <1>2, <1>8 DEF Clean
  <2>2. CASE p = "open"
    BY <1>4, <1>5, <2>1, <2>2 DEF Outcomes, Early, Guarded, Late
  <2>3. CASE p # "open"
    BY <1>3, <1>4, <2>1, <2>3 DEF Outcomes, Early, Guarded, Late
  <2> QED
    BY <2>2, <2>3
<1>10. Told(r)'
  BY <1>t, <1>2, <1>4, <1>8 DEF RunInv, Told, Late, Rejected, Pulled, Clean
<1>11. \A q \in branches'[r].paths : Faithful(r, q)
  BY <1>t, <1>1, <1>2, <1>5 DEF RunInv, Based, Rooted
<1>12. Based(r)'
  BY <1>t, <1>2, <1>4, <1>11, BasedLate DEF RunInv, Reading, Rooted
<1> QED
  BY <1>6, <1>7, <1>9, <1>10, <1>12, StepKeeps DEF RunInv

LEMMA CreatePrKeeps ==
  ASSUME FixInv, NEW r \in Runs, CreatePr(r) PROVE FixInv'
<1>t. TypeOK /\ RunInv(r)
  BY DEF FixInv
<1>1. PICK p \in {"save", "comment"} :
        /\ Goto(r, p) /\ (Fault \/ NoFault)
        /\ UNCHANGED run \/ run' = [run EXCEPT ![r].result = "failed"]
        /\ pulls' \in {pulls, pulls \cup {r}}
        /\ p = "save" => pulls' = pulls \cup {r}
        /\ p = "comment" => run' = [run EXCEPT ![r].result = "failed"]
  BY DEF CreatePr, Reports
<1>2. pc[r] = "open" /\ UNCHANGED <<trees, caller, branches, comments, attempts>>
  BY DEF CreatePr, At
<1>3. /\ pc' \in [Runs -> PC] /\ pc'[r] = p
      /\ \A s \in Runs : s # r => pc'[s] = pc[s]
      /\ run' \in [Runs -> Locals] /\ Same(r)
      /\ p = "comment" => run'[r].result = "failed"
      /\ \A s \in Runs : s # r => run'[s] = run[s]
      /\ faults \in Nat /\ faults' \in Nat /\ faults <= faults'
      /\ faults' \in 0 .. MaxFaults
  BY <1>t, <1>1, Moves DEF PC, FixOutcome
<1>4. Elsewhere(r)
  BY <1>1, <1>2, <1>3 DEF Elsewhere
<1>5. TypeOK'
  BY <1>t, <1>1, <1>2, <1>3 DEF TypeOK
<1>6. branches[r].paths # {} /\ r \notin DryRuns
  BY <1>t, <1>2 DEF RunInv, Outcomes
<1>7. Outcomes(r)'
  BY <1>1, <1>2, <1>3, <1>6 DEF Outcomes, Early, Guarded, Late, Clean, Opened
<1>8. Told(r)'
  BY <1>t, <1>1, <1>2, <1>3 DEF RunInv, Told, Late, Rejected, Pulled
<1>9. Based(r)'
  BY <1>t, <1>2, <1>3, BasedLate DEF RunInv, Based, Reading, Rooted
<1> QED
  BY <1>4, <1>5, <1>7, <1>8, <1>9, StepKeeps DEF RunInv

LEMMA SaveKeeps ==
  ASSUME FixInv, NEW r \in Runs, SaveAttempt(r) PROVE FixInv'
<1>t. TypeOK /\ RunInv(r)
  BY DEF FixInv
<1>1. /\ pc[r] = "save" /\ Goto(r, "link") /\ (Fault \/ NoFault)
      /\ attempts' \in {attempts, attempts \cup {Pulled(r)}}
      /\ UNCHANGED <<run, trees, caller, branches, pulls, comments>>
      /\ "link" \in PC
  BY DEF SaveAttempt, At, Pulled, PC
<1>2. /\ pc' \in [Runs -> PC] /\ pc'[r] = "link"
      /\ \A s \in Runs : s # r => pc'[s] = pc[s]
      /\ run' \in [Runs -> Locals] /\ Same(r)
      /\ faults \in Nat /\ faults' \in Nat /\ faults <= faults'
      /\ faults' \in 0 .. MaxFaults
  BY <1>t, <1>1, Moves DEF FixOutcome
<1>3. Elsewhere(r)
  BY <1>1, <1>2 DEF Elsewhere, Pulled
<1>4. TypeOK'
  <2>1. Pulled(r) \in [run : Runs, rejected : BOOLEAN, pull : BOOLEAN]
    BY DEF Pulled
  <2> QED
    BY <1>t, <1>1, <1>2, <2>1 DEF TypeOK
<1>5. Opened(r)
  BY <1>t, <1>1 DEF RunInv, Outcomes
<1>6. Outcomes(r)'
  BY <1>1, <1>2, <1>5 DEF Outcomes, Early, Guarded, Late, Opened
<1>7. Told(r)'
  BY <1>t, <1>1, <1>2, <1>5 DEF RunInv, Told, Late, Rejected, Pulled, Opened
<1>8. Based(r)'
  BY <1>t, <1>1, <1>2, BasedLate DEF RunInv, Based, Reading, Rooted
<1> QED
  BY <1>3, <1>4, <1>6, <1>7, <1>8, StepKeeps DEF RunInv

LEMMA LinkKeeps ==
  ASSUME FixInv, NEW r \in Runs, LinkPr(r) PROVE FixInv'
<1>t. TypeOK /\ RunInv(r)
  BY DEF FixInv
<1>1. /\ pc[r] = "link" /\ Goto(r, "leave") /\ (Fault \/ NoFault)
      /\ run' = [run EXCEPT ![r].result = "created"]
      /\ comments' \in {comments, [comments EXCEPT ![r] = "link"]}
      /\ UNCHANGED <<trees, caller, branches, pulls, attempts>>
      /\ "leave" \in PC /\ "created" \in FixOutcome
  BY DEF LinkPr, At, Returns, PC, FixOutcome
<1>2. /\ pc' \in [Runs -> PC] /\ pc'[r] = "leave"
      /\ \A s \in Runs : s # r => pc'[s] = pc[s]
      /\ run' \in [Runs -> Locals] /\ Same(r) /\ run'[r].result = "created"
      /\ \A s \in Runs : s # r => run'[s] = run[s]
      /\ faults \in Nat /\ faults' \in Nat /\ faults <= faults'
      /\ faults' \in 0 .. MaxFaults
  BY <1>t, <1>1, Moves
<1>3. /\ comments' \in [Runs -> {"none", "skipped", "failed", "link"}]
      /\ \A s \in Runs : s # r => comments'[s] = comments[s]
      /\ comments'[r] \in {comments[r], "link"}
  BY <1>t, <1>1 DEF TypeOK
<1>4. Elsewhere(r)
  BY <1>1, <1>2, <1>3 DEF Elsewhere
<1>5. TypeOK'
  BY <1>t, <1>1, <1>2, <1>3 DEF TypeOK
<1>6. Opened(r) /\ comments[r] # "failed"
  BY <1>t, <1>1 DEF RunInv, Outcomes, Told
<1>7. Outcomes(r)'
  BY <1>1, <1>2, <1>6 DEF Outcomes, Early, Guarded, Late, Opened
<1>8. Told(r)'
  BY <1>t, <1>1, <1>2, <1>3, <1>6 DEF RunInv, Told, Late, Rejected, Pulled, Opened
<1>9. Based(r)'
  BY <1>t, <1>1, <1>2, BasedLate DEF RunInv, Based, Reading, Rooted
<1> QED
  BY <1>4, <1>5, <1>7, <1>8, <1>9, StepKeeps DEF RunInv

LEMMA CommentKeeps ==
  ASSUME FixInv, NEW r \in Runs, Comment(r) PROVE FixInv'
<1>t. TypeOK /\ RunInv(r)
  BY DEF FixInv
<1>1. /\ pc[r] = "comment" /\ Goto(r, "leave") /\ (Fault \/ NoFault)
      /\ comments' \in {comments, [comments EXCEPT ![r] = run[r].result]}
      /\ UNCHANGED <<run, trees, caller, branches, pulls, attempts>>
      /\ "leave" \in PC
  BY DEF Comment, At, PC
<1>2. /\ pc' \in [Runs -> PC] /\ pc'[r] = "leave"
      /\ \A s \in Runs : s # r => pc'[s] = pc[s]
      /\ run' \in [Runs -> Locals] /\ Same(r)
      /\ faults \in Nat /\ faults' \in Nat /\ faults <= faults'
      /\ faults' \in 0 .. MaxFaults
  BY <1>t, <1>1, Moves DEF FixOutcome
<1>3. run[r].result \in {"skipped", "failed"}
  BY <1>t, <1>1 DEF RunInv, Outcomes
<1>4. /\ comments' \in [Runs -> {"none", "skipped", "failed", "link"}]
      /\ \A s \in Runs : s # r => comments'[s] = comments[s]
      /\ comments'[r] \in {comments[r], run[r].result}
  BY <1>t, <1>1, <1>3 DEF TypeOK
<1>5. Elsewhere(r)
  BY <1>1, <1>2, <1>4 DEF Elsewhere
<1>6. TypeOK'
  BY <1>t, <1>1, <1>2, <1>4 DEF TypeOK
<1>7. Outcomes(r)'
  BY <1>t, <1>1, <1>2, <1>3 DEF RunInv, Outcomes, Early, Guarded, Late, Clean
<1>8. Told(r)'
  BY <1>t, <1>1, <1>2, <1>3, <1>4 DEF RunInv, Told, Late, Rejected, Pulled
<1>9. Based(r)'
  BY <1>t, <1>1, <1>2, BasedLate DEF RunInv, Based, Reading, Rooted
<1> QED
  BY <1>5, <1>6, <1>7, <1>8, <1>9, StepKeeps DEF RunInv

LEMMA LeaveKeeps ==
  ASSUME FixInv, NEW r \in Runs, Leave(r) PROVE FixInv'
<1>t. TypeOK /\ RunInv(r)
  BY DEF FixInv
<1>1. /\ pc[r] = "leave" /\ Goto(r, "ended") /\ (Fault \/ NoFault)
      /\ Fault \/ trees' = [trees EXCEPT ![r] = NoTree]
      /\ trees' \in {trees, [trees EXCEPT ![r] = NoTree]}
      /\ UNCHANGED <<run, caller, branches, pulls, comments, attempts>>
      /\ "ended" \in PC
  BY DEF Leave, At, PC
<1>2. /\ pc' \in [Runs -> PC] /\ pc'[r] = "ended"
      /\ \A s \in Runs : s # r => pc'[s] = pc[s]
      /\ run' \in [Runs -> Locals] /\ Same(r)
      /\ faults \in Nat /\ faults' \in Nat /\ faults <= faults'
      /\ faults' \in 0 .. MaxFaults /\ (Fault => faults' > 0)
  BY <1>t, <1>1, Moves DEF FixOutcome
<1>3. /\ trees' \in [Runs -> [there : BOOLEAN, patched : SUBSET Paths, stray : SUBSET Paths]]
      /\ \A s \in Runs : s # r => trees'[s] = trees[s]
      /\ Fault \/ ~trees'[r].there
  <2>1. NoTree \in [there : BOOLEAN, patched : SUBSET Paths, stray : SUBSET Paths]
        /\ ~NoTree.there
    BY DEF NoTree
  <2> QED
    BY <1>t, <1>1, <2>1 DEF TypeOK
<1>4. Elsewhere(r)
  BY <1>1, <1>2, <1>3 DEF Elsewhere
<1>5. TypeOK'
  BY <1>t, <1>1, <1>2, <1>3 DEF TypeOK
<1>6. Outcomes(r)'
  BY <1>t, <1>1, <1>2 DEF RunInv, Outcomes, Early, Guarded, Late, Clean, Opened
<1>7. Told(r)'
  BY <1>t, <1>1, <1>2, <1>3 DEF RunInv, Told, Late, Rejected, Pulled
<1>8. Based(r)'
  BY <1>t, <1>1, <1>2, BasedLate DEF RunInv, Based, Reading, Rooted
<1> QED
  BY <1>4, <1>5, <1>6, <1>7, <1>8, StepKeeps DEF RunInv

LEMMA KilledKeeps ==
  ASSUME FixInv, NEW r \in Runs, Killed(r) PROVE FixInv'
<1>t. TypeOK /\ RunInv(r)
  BY DEF FixInv
<1>1. /\ Goto(r, "ended") /\ Fault /\ pc[r] # "ended"
      /\ run' = [run EXCEPT ![r].result = "killed"]
      /\ UNCHANGED <<trees, caller, branches, pulls, comments, attempts>>
      /\ "ended" \in PC
  BY DEF Killed, PC
<1>2. /\ pc' \in [Runs -> PC] /\ pc'[r] = "ended"
      /\ \A s \in Runs : s # r => pc'[s] = pc[s]
      /\ run' \in [Runs -> Locals] /\ Same(r) /\ run'[r].result = "killed"
      /\ \A s \in Runs : s # r => run'[s] = run[s]
      /\ faults \in Nat /\ faults' \in Nat /\ faults <= faults'
      /\ faults' \in 0 .. MaxFaults /\ faults' > 0
  BY <1>t, <1>1, Moves DEF FixOutcome
<1>3. Elsewhere(r)
  BY <1>1, <1>2 DEF Elsewhere
<1>4. TypeOK'
  BY <1>t, <1>1, <1>2 DEF TypeOK
<1>5. Outcomes(r)'
  BY <1>t, <1>1, <1>2 DEF RunInv, Outcomes, Early, Guarded, Late
<1>6. Told(r)'
  BY <1>t, <1>1, <1>2 DEF RunInv, Told, Late, Rejected, Pulled
<1>7. Based(r)'
  BY <1>t, <1>1, <1>2, BasedLate DEF RunInv, Based, Reading, Rooted
<1> QED
  BY <1>3, <1>4, <1>5, <1>6, <1>7, StepKeeps DEF RunInv

\* The owner's step moves the checkout past every reading of it.
LEMMA OwnerKeeps ==
  ASSUME FixInv, OwnerWorks PROVE FixInv'
<1>t. TypeOK
  BY DEF FixInv
<1>1. /\ caller.edits \in 0 .. MaxEdits /\ MaxEdits \in Nat /\ caller.edits < MaxEdits
      /\ caller.head \in [Paths -> Versions] /\ caller.work \in [Paths -> Versions]
      /\ caller \in [head : [Paths -> Versions], work : [Paths -> Versions], edits : Versions]
  BY <1>t, Bounds DEF TypeOK, OwnerWorks, Versions
<1>2. /\ caller.edits + 1 \in Versions /\ caller.edits + 1 > caller.edits
      /\ caller.edits \in Nat
  BY <1>1 DEF Versions
<1>3. /\ caller' \in [head : [Paths -> Versions], work : [Paths -> Versions], edits : Versions]
      /\ caller'.edits = caller.edits + 1
  <2>1. \/ \E p \in Paths : caller' = [caller EXCEPT !.edits = caller.edits + 1,
                                                      !.work[p] = caller.edits + 1]
        \/ caller' = [caller EXCEPT !.edits = caller.edits + 1, !.head = caller.work]
        \/ caller' = [caller EXCEPT !.edits = caller.edits + 1, !.work = caller.head]
    BY DEF OwnerWorks
  <2>2. ASSUME NEW p \in Paths
        PROVE [caller.work EXCEPT ![p] = caller.edits + 1] \in [Paths -> Versions]
    BY <1>1, <1>2
  <2>3. ASSUME NEW p \in Paths,
               caller' = [caller EXCEPT !.edits = caller.edits + 1,
                                        !.work[p] = caller.edits + 1]
        PROVE /\ caller' \in [head : [Paths -> Versions], work : [Paths -> Versions], edits : Versions]
              /\ caller'.edits = caller.edits + 1
    <3> DEFINE w == [caller.work EXCEPT ![p] = caller.edits + 1]
    <3>1. caller' = [caller EXCEPT !.edits = caller.edits + 1, !.work = w]
      BY <1>1, <2>3
    <3>2. w \in [Paths -> Versions]
      BY <2>2
    <3> HIDE DEF w
    <3> QED
      BY <1>1, <1>2, <3>1, <3>2
  <2> QED
    BY <1>1, <1>2, <2>1, <2>3
<1>4. UNCHANGED <<pc, run, trees, branches, pulls, comments, attempts, faults>>
  BY DEF OwnerWorks
<1>5. TypeOK'
  BY <1>t, <1>3, <1>4 DEF TypeOK
<1>6. ASSUME NEW r \in Runs PROVE RunInv(r)'
  <2>t. RunInv(r)
    BY DEF FixInv
  <2>1. Outcomes(r)' /\ Told(r)'
    BY <2>t, <1>4 DEF RunInv, Outcomes, Told, Clean, Opened
  <2>2. run[r].readAt \in Nat
    BY <1>t, <1>1 DEF TypeOK, Locals, Versions
  <2>3. run'[r].readAt < caller'.edits
    BY <1>2, <1>3, <1>4, <2>t, <2>2 DEF RunInv, Based
  <2>4. Based(r)'
    BY <1>2, <1>3, <1>4, <2>t, <2>2, <2>3 DEF RunInv, Based, Faithful, Undisturbed
  <2> QED
    BY <2>1, <2>4 DEF RunInv
<1> QED
  BY <1>5, <1>6 DEF FixInv

LEMMA NextFix == FixInv /\ [Next]_vars => FixInv'
<1> SUFFICES ASSUME FixInv, [Next]_vars PROVE FixInv'
  OBVIOUS
<1>1. ASSUME NEW r \in Runs, Step(r) PROVE FixInv'
  BY <1>1, FetchKeeps, ReadKeeps, PromptKeeps, GenerateKeeps, InventoryKeeps, DirtyKeeps,
     WorktreeKeeps, ApplyKeeps, CheckKeeps, TestsKeeps, RejectKeeps, PushKeeps,
     CreatePrKeeps, SaveKeeps, LinkKeeps, CommentKeeps, LeaveKeeps, KilledKeeps
  DEF Step
<1>2. CASE UNCHANGED vars
  BY <1>2 DEF vars, FixInv, TypeOK, RunInv, Outcomes, Told, Based, Faithful, Undisturbed,
              Clean, Opened
<1> QED
  BY <1>1, <1>2, OwnerKeeps DEF Next

(***************************************************************************)
(* The theorems                                                            *)
(***************************************************************************)

\* FixInv is inductive: it holds in every state of the pipeline.
THEOREM FixInvariant == Spec => []FixInv
  BY InitFix, NextFix, PTL DEF Spec

\* Type correctness of the pipeline's state.
THEOREM FixTypes == Spec => []TypeOK
<1>1. FixInv => TypeOK
  BY DEF FixInv
<1> QED
  BY <1>1, FixInvariant, PTL

\* What a run leaves behind tells the truth (cli.py's outcomes, rows, comments,
\* branch and worktree), for every number of runs and failures.
THEOREM Leftovers == Spec => []LeftoversTold
<1>1. FixInv => LeftoversTold
  <2> SUFFICES ASSUME FixInv, NEW r \in Runs
               PROVE /\ pc[r] = "ended" /\ ExitCode(r) = 0 =>
                          (branches[r] = NoBranch <=> r \notin pulls)
                     /\ Rejected(r) \in attempts => branches[r] = NoBranch
                     /\ Pulled(r) \in attempts => r \in pulls
                     /\ comments[r] = "link" => r \in pulls
                     /\ comments[r] = "failed" => run[r].result \in {"failed", "killed"}
                     /\ trees[r].there /\ pc[r] = "ended" => faults > 0
    BY DEF LeftoversTold, Rejected, Pulled
  <2>1. Outcomes(r) /\ Told(r)
    BY DEF FixInv, RunInv
  <2>2. ASSUME pc[r] = "ended", ExitCode(r) = 0
        PROVE branches[r] = NoBranch <=> r \notin pulls
    <3>1. run[r].result \in {"created", "skipped"}
      BY <2>2 DEF ExitCode
    <3>2. Clean(r) \/ Opened(r)
      BY <2>1, <2>2, <3>1 DEF Outcomes, Late
    <3> QED
      BY <3>2 DEF Clean, Opened, NoBranch
  <2> QED
    BY <2>1, <2>2 DEF Told
<1> QED
  BY <1>1, FixInvariant, PTL

\* Whoever edits and commits meanwhile, a fix is never built on something else
\* than what the model was shown, unless the owner worked in between.
THEOREM FixBase == Spec => []FixMatchesItsBase
<1>1. FixInv => FixMatchesItsBase
  BY DEF FixInv, RunInv, Based, Faithful, FixMatchesItsBase
<1> QED
  BY <1>1, FixInvariant, PTL

(***************************************************************************)
(* FixPipeline implements FixPromise                                       *)
(***************************************************************************)
Moved(r) ==
  /\ \E p \in PC \ {"ended"} : Goto(r, p)
  /\ \A s \in Runs : s # r => run'[s] = run[s]

Quiet(r) == pc[r] # "ended" /\ Moved(r) /\ UNCHANGED <<caller, branches, pulls>>

LEMMA StopsMove ==
  ASSUME TypeOK, NEW r \in Runs, NEW o, Reports(r, o) \/ Returns(r, o)
  PROVE Moved(r)
  BY DEF TypeOK, Reports, Returns, Moved, PC

LEMMA StaysMove ==
  ASSUME TypeOK, NEW r \in Runs, UNCHANGED run, NEW p \in PC \ {"ended"}, Goto(r, p)
  PROVE Moved(r)
  BY DEF Moved

\* All steps but the push, the pull request, the end and the kill are internal.
LEMMA QuietSteps ==
  ASSUME TypeOK, NEW r \in Runs,
         \/ FetchFails(r) \/ Fetch(r) \/ ReadFiles(r) \/ Prompt(r) \/ Generate(r)
         \/ TakeInventory(r) \/ CheckDirty(r) \/ CreateWorktree(r) \/ ApplyDiff(r)
         \/ CheckApplied(r) \/ RunTests(r) \/ SaveRejection(r)
         \/ SaveAttempt(r) \/ LinkPr(r) \/ Comment(r)
  PROVE Quiet(r)
<1>f. \A s \in Runs : run[s] = run[s] /\ run \in [Runs -> Locals]
  BY DEF TypeOK
<1>1. CASE FetchFails(r) \/ Fetch(r)
  <2>1. ASSUME NEW issue \in Issues,
               run' = [run EXCEPT ![r].files = issue.files, ![r].id = issue.id],
               Goto(r, "read")
        PROVE Moved(r)
    BY <1>f, <2>1 DEF Moved, PC
  <2> QED
    BY <1>1, <2>1, StopsMove DEF FetchFails, Fetch, At, Quiet
<1>2. CASE ReadFiles(r)
  <2>1. PICK listed \in BOOLEAN, unreadable \in SUBSET run[r].files, shown \in SUBSET Paths :
        LET accepted == IF listed THEN {p \in run[r].files : Confined(p)} ELSE {}
            read == accepted \ unreadable
        IN  \/ Reports(r, "skipped") \/ Reports(r, "failed")
            \/ /\ run' = [run EXCEPT ![r].read = read \cup shown, ![r].seen = caller.work,
                                    ![r].readAt = caller.edits]
               /\ Goto(r, "prompt")
    BY <1>2, Zenon DEF ReadFiles
  <2>2. ASSUME NEW read, run' = [run EXCEPT ![r].read = read, ![r].seen = caller.work,
                                           ![r].readAt = caller.edits],
               Goto(r, "prompt")
        PROVE Moved(r)
    BY <1>f, <2>2 DEF Moved, PC
  <2>3. Moved(r)
    BY <2>1, <2>2, StopsMove
  <2> QED
    BY <1>2, <2>3 DEF ReadFiles, At, Quiet
<1>3. CASE Prompt(r)
  <2>1. ASSUME NEW prior, NEW router,
               run' = [run EXCEPT ![r].prior = prior, ![r].router = router],
               Goto(r, "generate")
        PROVE Moved(r)
    BY <1>f, <2>1 DEF Moved, PC
  <2> QED
    BY <1>3, <2>1, StopsMove DEF Prompt, At, Quiet
<1>4. CASE Generate(r)
  <2>1. ASSUME NEW patch \in Patches,
               run' = [run EXCEPT ![r].patch = patch.git, ![r].inventory = Inventory(patch)],
               Goto(r, "inventory")
        PROVE Moved(r)
    BY <1>f, <2>1 DEF Moved, PC
  <2> QED
    BY <1>4, <2>1, StopsMove DEF Generate, At, Quiet
<1>5. CASE CreateWorktree(r)
  <2>1. ASSUME run' = [run EXCEPT ![r].base = caller.head, ![r].baseAt = caller.edits],
               Goto(r, "apply")
        PROVE Moved(r)
    BY <1>f, <2>1 DEF Moved, PC
  <2> QED
    BY <1>5, <2>1, StopsMove DEF CreateWorktree, At, Quiet
<1>6. CASE TakeInventory(r) \/ CheckDirty(r)
  BY <1>6, StopsMove, StaysMove DEF TakeInventory, CheckDirty, At, Quiet, PC
<1>7. CASE ApplyDiff(r) \/ CheckApplied(r)
  BY <1>7, StopsMove, StaysMove DEF ApplyDiff, CheckApplied, At, Quiet, PC
<1>8. CASE RunTests(r)
  <2>1. \/ Goto(r, "reject") /\ UNCHANGED run
        \/ Returns(r, "created")
        \/ Goto(r, "push") /\ UNCHANGED run
    BY <1>8, Zenon DEF RunTests
  <2>2. Moved(r)
    BY <2>1, StopsMove, StaysMove DEF PC
  <2> QED
    BY <1>8, <2>2 DEF RunTests, At, Quiet
<1>9. CASE SaveRejection(r) \/ LinkPr(r)
  BY <1>9, StopsMove DEF SaveRejection, LinkPr, At, Quiet
<1>10. CASE SaveAttempt(r) \/ Comment(r)
  BY <1>10, StaysMove DEF SaveAttempt, Comment, At, Quiet, PC
<1> QED
  BY <1>1, <1>2, <1>3, <1>4, <1>5, <1>6, <1>7, <1>8, <1>9, <1>10

\* What the outcome of every run becomes when r moves and has not ended.
LEMMA OutcomeStays ==
  ASSUME TypeOK, NEW r \in Runs, pc[r] # "ended", Moved(r)
  PROVE [s \in Runs |-> FinalOutcome(s)]' = [s \in Runs |-> FinalOutcome(s)]
<1>1. pc'[r] # "ended" /\ \A s \in Runs : s # r => pc'[s] = pc[s] /\ run'[s] = run[s]
  BY GotoType DEF Moved
<1>2. ASSUME NEW s \in Runs PROVE FinalOutcome(s)' = FinalOutcome(s)
  BY <1>1 DEF FinalOutcome
<1> QED
  BY <1>2

\* The run's own outcome when it ends.
LEMMA OutcomeEnds ==
  ASSUME TypeOK, NEW r \in Runs, pc[r] # "ended", Goto(r, "ended"),
         NEW o, o = FinalOutcome(r)', \A s \in Runs : s # r => run'[s] = run[s]
  PROVE /\ [s \in Runs |-> FinalOutcome(s)][r] = "running"
        /\ [s \in Runs |-> FinalOutcome(s)]' =
             [[s \in Runs |-> FinalOutcome(s)] EXCEPT ![r] = o]
<1>1. \A s \in Runs : s # r => pc'[s] = pc[s] /\ run'[s] = run[s]
  BY GotoType DEF PC
<1>2. ASSUME NEW s \in Runs, s # r PROVE FinalOutcome(s)' = FinalOutcome(s)
  BY <1>1, <1>2 DEF FinalOutcome
<1>3. FinalOutcome(r) = "running"
  BY DEF FinalOutcome
<1> QED
  BY <1>2, <1>3

Outcome == [s \in Runs |-> FinalOutcome(s)]
Published == [s \in Runs |-> branches[s].paths]
Checkout == [head |-> caller.head, work |-> caller.work]

PromiseStep ==
  \/ UNCHANGED <<Checkout, Published, pulls, Outcome>>
  \/ Checkout' # Checkout /\ UNCHANGED <<Published, pulls, Outcome>>
  \/ \E r \in Runs :
       /\ Outcome[r] = "running" /\ UNCHANGED Checkout
       /\ \/ /\ Published[r] = {} /\ UNCHANGED <<pulls, Outcome>>
             /\ \E paths \in SUBSET {p \in Paths : InScope(p)} :
                  paths # {} /\ Published' = [Published EXCEPT ![r] = paths]
          \/ /\ Published[r] # {} /\ r \notin pulls /\ pulls' = pulls \cup {r}
             /\ UNCHANGED <<Published, Outcome>>
          \/ /\ UNCHANGED <<Published, pulls>>
             /\ \/ Outcome' = [Outcome EXCEPT ![r] = "skipped"] /\ Published[r] = {}
                \/ /\ Outcome' = [Outcome EXCEPT ![r] = "created"]
                   /\ IF r \in DryRuns THEN Published[r] = {} ELSE r \in pulls
                \/ Outcome' = [Outcome EXCEPT ![r] = "failed"]
                \/ Outcome' = [Outcome EXCEPT ![r] = "died"]

LEMMA PushPromise ==
  ASSUME FixInv, NEW r \in Runs, CommitAndPush(r) PROVE PromiseStep
<1>t. TypeOK /\ RunInv(r)
  BY DEF FixInv
<1> DEFINE staged == ChangedPaths(trees[r]) \cap run[r].inventory
           branch == [paths |-> staged, residue |-> trees[r].stray \cap staged]
<1>1. /\ pc[r] = "push" /\ UNCHANGED <<caller, pulls>>
      /\ \/ UNCHANGED branches
         \/ staged # {} /\ branches' = [branches EXCEPT ![r] = branch]
  BY DEF CommitAndPush, At
<1>2. Moved(r)
  BY <1>t, StopsMove, StaysMove DEF CommitAndPush, PC
<1>3. UNCHANGED <<Checkout, Outcome>> /\ Outcome[r] = "running"
  BY <1>t, <1>1, <1>2, OutcomeStays DEF Checkout, Outcome, FinalOutcome
<1>4. staged \subseteq {p \in Paths : InScope(p)}
  BY <1>t, <1>1 DEF TypeOK, Locals, RunInv, Outcomes, Guarded
<1>5. Published[r] = {}
  BY <1>t, <1>1 DEF RunInv, Outcomes, Early, Clean, NoBranch, Published
<1>6. CASE UNCHANGED branches
  BY <1>1, <1>3, <1>6 DEF PromiseStep, Published
<1>7. CASE staged # {} /\ branches' = [branches EXCEPT ![r] = branch]
  <2>1. branch.paths = staged
    OBVIOUS
  <2> HIDE DEF branch, staged
  <2>2. Published' = [Published EXCEPT ![r] = staged]
    BY <1>t, <1>7, <2>1 DEF Published, TypeOK
  <2> QED
    BY <1>1, <1>3, <1>4, <1>5, <1>7, <2>2 DEF PromiseStep
<1> QED
  BY <1>1, <1>6, <1>7

LEMMA PullPromise ==
  ASSUME FixInv, NEW r \in Runs, CreatePr(r) PROVE PromiseStep
<1>t. TypeOK /\ RunInv(r)
  BY DEF FixInv
<1>1. /\ pc[r] = "open" /\ UNCHANGED <<caller, branches>>
      /\ pulls' \in {pulls, pulls \cup {r}}
  BY DEF CreatePr, At
<1>2. Moved(r)
  BY <1>t, StopsMove, StaysMove DEF CreatePr, PC
<1>3. UNCHANGED <<Checkout, Outcome, Published>> /\ Outcome[r] = "running"
  BY <1>t, <1>1, <1>2, OutcomeStays DEF Checkout, Outcome, FinalOutcome, Published
<1>4. Published[r] # {} /\ r \notin pulls
  BY <1>t, <1>1 DEF RunInv, Outcomes, Published
<1> QED
  BY <1>1, <1>3, <1>4 DEF PromiseStep

LEMMA EndPromise ==
  ASSUME FixInv, NEW r \in Runs, Leave(r) \/ Killed(r) PROVE PromiseStep
<1>t. TypeOK /\ RunInv(r)
  BY DEF FixInv
<1>1. /\ pc[r] # "ended" /\ Goto(r, "ended") /\ UNCHANGED <<caller, branches, pulls>>
  BY DEF Leave, Killed, At
<1>2. \/ pc[r] = "leave" /\ UNCHANGED run
      \/ run' = [run EXCEPT ![r].result = "killed"]
  BY DEF Leave, Killed, At
<1>3. pc'[r] = "ended" /\ \A s \in Runs : s # r => run'[s] = run[s]
  BY <1>t, <1>1, <1>2, GotoType, ResultType DEF PC
<1>4. UNCHANGED <<Checkout, Published, pulls>>
  BY <1>1 DEF Checkout, Published
<1>5. /\ Outcome[r] = "running"
      /\ Outcome' = [Outcome EXCEPT ![r] = FinalOutcome(r)']
  BY <1>t, <1>1, <1>3, OutcomeEnds DEF Outcome
<1>6. CASE pc[r] = "leave" /\ UNCHANGED run
  <2>1. run[r].result \in {"skipped", "failed", "created", "raised"}
    BY <1>t, <1>6 DEF RunInv, Outcomes
  <2>2. FinalOutcome(r)' = IF run[r].result = "raised" THEN "died" ELSE run[r].result
    BY <1>3, <1>6, <2>1 DEF FinalOutcome
  <2>3. run[r].result = "skipped" => Published[r] = {}
    BY <1>t, <1>6 DEF RunInv, Outcomes, Late, Clean, NoBranch, Published
  <2>4. run[r].result = "created" => IF r \in DryRuns THEN Published[r] = {} ELSE r \in pulls
    BY <1>t, <1>6 DEF RunInv, Outcomes, Late, Clean, Opened, NoBranch, Published
  <2> QED
    BY <1>4, <1>5, <2>1, <2>2, <2>3, <2>4 DEF PromiseStep
<1>7. CASE run' = [run EXCEPT ![r].result = "killed"]
  <2>1. run'[r].result = "killed"
    BY <1>t, <1>7, ResultType
  <2>2. FinalOutcome(r)' = "died"
    BY <1>3, <2>1 DEF FinalOutcome
  <2> QED
    BY <1>4, <1>5, <2>2 DEF PromiseStep
<1> QED
  BY <1>2, <1>6, <1>7

LEMMA EveryStepKept == FixInv /\ [Next]_vars => PromiseStep
<1> SUFFICES ASSUME FixInv, [Next]_vars PROVE PromiseStep
  OBVIOUS
<1>t. TypeOK
  BY DEF FixInv
<1>1. CASE OwnerWorks
  BY <1>1 DEF OwnerWorks, PromiseStep, Published, Outcome, FinalOutcome
<1>2. CASE UNCHANGED vars
  BY <1>2 DEF vars, PromiseStep, Checkout, Published, Outcome, FinalOutcome
<1>3. ASSUME NEW r \in Runs, Quiet(r) PROVE PromiseStep
  <2>1. UNCHANGED Outcome
    BY <1>t, <1>3, OutcomeStays DEF Quiet, Outcome
  <2> QED
    BY <1>3, <2>1 DEF Quiet, PromiseStep, Checkout, Published
<1>4. ASSUME NEW r \in Runs, Step(r) PROVE PromiseStep
  BY <1>t, <1>3, <1>4, QuietSteps, PushPromise, PullPromise, EndPromise DEF Step
<1> QED
  BY <1>1, <1>2, <1>4 DEF Next

\* The pipeline implements FixPromise: nothing out of scope is ever published, a
\* declined run has published nothing, a run that reports success opened its
\* pull request, and no run touches the owner's checkout.
THEOREM PipelineKeepsPromise == Spec => KeepsFixPromise
<1>1. Init => Promise!PromiseInit
  BY DEF Init, Promise!PromiseInit, FinalOutcome, NoBranch
<1>2. FixInv /\ [Next]_vars => [Promise!PromiseNext]_(Promise!promiseVars)
  <2> SUFFICES ASSUME FixInv, [Next]_vars
               PROVE Promise!PromiseNext \/ UNCHANGED Promise!promiseVars
    OBVIOUS
  <2>1. PromiseStep
    BY EveryStepKept
  <2> QED
    BY <2>1 DEF PromiseStep, Checkout, Published, Outcome, Promise!promiseVars,
                Promise!PromiseNext, Promise!OwnerWorks, Promise!Publish, Promise!OpenPull,
                Promise!Decline, Promise!Succeed, Promise!Break, Promise!Ends
<1> QED
  BY <1>1, <1>2, FixInvariant, PTL DEF Spec, KeepsFixPromise, Promise!PromiseSpec
===============================================================================
