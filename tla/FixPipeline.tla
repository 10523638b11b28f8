----------------------------- MODULE FixPipeline ------------------------------
(***************************************************************************)
(* Auto-fix (fix/cli.py and what it calls): from a labelled issue to a     *)
(* pull request. Runs are processes over one checkout, one repository and  *)
(* one attempts table; the owner of the checkout goes on editing and       *)
(* committing. A step is one command or call that reads or changes         *)
(* something outside the process; the gates in between belong to it.       *)
(* GitHub, git, the LLM and the test command are choices.                  *)
(***************************************************************************)
EXTENDS Naturals, FiniteSets

CONSTANTS
  Runs,        \* invocations of generate-fix, all for one diagnosis
  DryRuns,     \* those with --dry-run or auto_fix.dry_run
  Paths,       \* repository paths
  Allow, Deny, \* the scope patterns of auto_fix.scope; here a pattern is a path
  Unsafe,      \* paths path_problem refuses: absolute, "..", .git, ...
  Secrets,     \* names that match SECRET_PATTERNS
  Tracked,     \* regular files git tracks, reached without a symlink
  TestOf,      \* [Paths -> Paths], tests/test_<stem>.py
  Issues,      \* issue bodies a run may fetch
  Configs,     \* diagnosis sections of flow-doctor.yaml
  Patches,     \* diffs the model may answer with: git's reading, the headers'
  Residues,    \* paths a checkout filter or the tests may leave changed
  MaxEdits,    \* bound on what the owner does
  MaxFaults    \* bound on failing calls and killed processes

ASSUME FixAssumption ==
  /\ DryRuns \subseteq Runs
  /\ Allow \subseteq Paths /\ Deny \subseteq Paths /\ Unsafe \subseteq Paths
  /\ Secrets \subseteq Paths /\ Tracked \subseteq Paths
  /\ TestOf \in [Paths -> Paths]
  /\ Issues \subseteq [meta : BOOLEAN, category : {"CODE", "CONFIG", "EXTERNAL", "INFRA"},
                       credentials : BOOLEAN, confidence : {"malformed", "low", "high"},
                       files : SUBSET Paths, id : BOOLEAN]
  /\ Configs \subseteq [provider : {"", "anthropic", "other", "router", "openai_compat"},
                        model_group : BOOLEAN, base_url : BOOLEAN, api_key : BOOLEAN]
  /\ Patches \subseteq [git : SUBSET Paths, headers : SUBSET Paths]
  /\ Residues \subseteq SUBSET Paths
  /\ MaxEdits \in Nat /\ MaxFaults \in Nat

VARIABLES
  pc,        \* per run: the next command or call
  run,       \* per run: the locals of generate_fix
  trees,     \* per run: its worktree
  caller,    \* the owner's checkout
  branches,  \* per run: the branch on the remote
  pulls,     \* runs whose pull request exists
  comments,  \* per run: what it last wrote on the issue
  attempts,  \* rows of fix_attempts
  faults

vars == <<pc, run, trees, caller, branches, pulls, comments, attempts, faults>>

FixOutcome == {"created", "skipped", "failed"}
Versions == 0 .. MaxEdits
NoTree == [there |-> FALSE, patched |-> {}, stray |-> {}]
NoBranch == [paths |-> {}, residue |-> {}]

PC == {"idle", "read", "prompt", "generate", "inventory", "dirty", "worktree", "apply",
       "check", "test", "reject", "push", "open", "save", "link", "comment", "leave",
       "ended"}
Locals == [files : SUBSET Paths, id : BOOLEAN,
           read : SUBSET Paths, seen : [Paths -> Versions], readAt : Versions,
           prior : SUBSET Runs, router : BOOLEAN,
           patch : SUBSET Paths, inventory : SUBSET Paths,
           base : [Paths -> Versions], baseAt : Versions,
           result : FixOutcome \cup {"none", "raised", "killed"}]

TypeOK ==
  /\ pc \in [Runs -> PC]
  /\ run \in [Runs -> Locals]
  /\ trees \in [Runs -> [there : BOOLEAN, patched : SUBSET Paths, stray : SUBSET Paths]]
  /\ caller \in [head : [Paths -> Versions], work : [Paths -> Versions], edits : Versions]
  /\ branches \in [Runs -> [paths : SUBSET Paths, residue : SUBSET Paths]]
  /\ pulls \subseteq Runs
  /\ comments \in [Runs -> {"none", "skipped", "failed", "link"}]
  /\ attempts \subseteq [run : Runs, rejected : BOOLEAN, pull : BOOLEAN]
  /\ faults \in 0 .. MaxFaults

-------------------------------------------------------------------------------
(* The scope guard, the read boundary and the gates over the issue.        *)

IsAllowed(p) == Allow = {} \/ p \in Allow
IsDenied(p) == p \in Deny
PathProblem(p) == p \in Unsafe
IsSecret(p) == p \in Secrets

InScope(p) == ~PathProblem(p) /\ IsAllowed(p) /\ ~IsDenied(p) /\ ~IsSecret(p)
Violations(paths) == {p \in paths : ~InScope(p)}

Confined(p) == InScope(p) /\ p \in Tracked

\* The tests of the files read, held to the same boundary but for Allow.
Tests(read) ==
  {q \in {TestOf[p] : p \in read} :
     q \in Tracked /\ ~PathProblem(q) /\ ~IsDenied(q) /\ ~IsSecret(q)}

Inventory(patch) == patch.git \cup patch.headers

ChangedPaths(tree) == tree.patched \cup tree.stray
\* Mutant: git status unavailable reads as a clean checkout.
DirtyPathsNone == {}

DirtyPaths == {p \in Paths : caller.work[p] # caller.head[p]}

Declined(issue) ==
  \/ issue.category \in {"EXTERNAL", "INFRA"}
  \/ issue.category = "CONFIG" /\ issue.credentials
  \/ issue.confidence = "low"
  \/ issue.files = {}

ProviderProblem(config) ==
  \/ config.provider \notin {"router", "openai_compat"}
  \/ config.provider = "router" /\ ~config.model_group
  \/ config.provider = "openai_compat" /\ ~(config.base_url /\ config.api_key)

Rejections(rows) == {a.run : a \in {b \in rows : b.rejected}}

-------------------------------------------------------------------------------
(* Steps. Unlisted variables are left alone by the action that uses these. *)

At(r, step) == pc[r] = step
Goto(r, step) == pc' = [pc EXCEPT ![r] = step]
Fault == faults < MaxFaults /\ faults' = faults + 1
NoFault == UNCHANGED faults

\* The code's "_comment_...(); return (outcome, msg)".
Reports(r, outcome) ==
  /\ run' = [run EXCEPT ![r].result = outcome]
  /\ Goto(r, "comment")

\* A return without a comment, or an exception nobody catches.
Returns(r, outcome) ==
  /\ run' = [run EXCEPT ![r].result = outcome]
  /\ Goto(r, "leave")

FetchFails(r) ==
  /\ At(r, "idle") /\ Fault
  /\ Returns(r, "failed")
  /\ UNCHANGED <<trees, caller, branches, pulls, comments, attempts>>

\* Fetch, parse the metadata block and pass the gates over it. A confidence
\* that is no number raises ValueError out of generate_fix.
Fetch(r) ==
  /\ At(r, "idle") /\ NoFault
  /\ \E issue \in Issues :
       \/ ~issue.meta /\ Reports(r, "failed")
       \/ issue.meta /\ issue.confidence = "malformed" /\ Returns(r, "raised")
       \/ /\ issue.meta /\ issue.confidence # "malformed"
          /\ Declined(issue)
          /\ Reports(r, "skipped")
       \/ /\ issue.meta /\ issue.confidence # "malformed"
          /\ ~Declined(issue)
          /\ run' = [run EXCEPT ![r].files = issue.files, ![r].id = issue.id]
          /\ Goto(r, "read")
  /\ UNCHANGED <<trees, caller, branches, pulls, comments, attempts>>

\* What resolve_confined accepts is read from the owner's working tree, and the
\* tests of what was read. If git lists no files every name is refused; a read
\* that raises drops its file.
ReadFiles(r) ==
  /\ At(r, "read")
  /\ \E listed \in BOOLEAN, unreadable \in SUBSET run[r].files, shown \in SUBSET Paths :
       LET accepted == IF listed THEN {p \in run[r].files : Confined(p)} ELSE {}
           read == accepted \ unreadable
       IN  /\ unreadable \subseteq accepted /\ shown \subseteq Tests(read)
           /\ IF listed /\ unreadable = {} /\ shown = Tests(read) THEN NoFault ELSE Fault
           /\ \/ read = {} /\ accepted # run[r].files /\ Reports(r, "skipped")
              \/ read = {} /\ accepted = run[r].files /\ Reports(r, "failed")
              \/ /\ read # {}
                 /\ run' = [run EXCEPT ![r].read = read \cup shown,
                                       ![r].seen = caller.work,
                                       ![r].readAt = caller.edits]
                 /\ Goto(r, "prompt")
  /\ UNCHANGED <<trees, caller, branches, pulls, comments, attempts>>

\* The replay store is best effort; then the gates over the provider.
Prompt(r) ==
  /\ At(r, "prompt")
  /\ \E prior \in {{}, IF run[r].id THEN Rejections(attempts) ELSE {}}, config \in Configs :
       /\ IF prior = {} /\ run[r].id /\ Rejections(attempts) # {} THEN Fault ELSE NoFault
       /\ \/ ProviderProblem(config) /\ Reports(r, "failed")
          \/ /\ ~ProviderProblem(config)
             /\ run' = [run EXCEPT ![r].prior = prior,
                                   ![r].router = (config.provider = "router")]
             /\ Goto(r, "generate")
  /\ UNCHANGED <<trees, caller, branches, pulls, comments, attempts>>

\* The model declines, the router group does not resolve, the call raises (and
\* only RouterUnresolvable is caught), or there is a diff.
Generate(r) ==
  /\ At(r, "generate") /\ NoFault
  /\ \/ Reports(r, "skipped")
     \/ run[r].router /\ Reports(r, "failed")
     \/ Returns(r, "raised")
     \/ \E patch \in Patches :
          /\ run' = [run EXCEPT ![r].patch = patch.git, ![r].inventory = Inventory(patch)]
          /\ Goto(r, "inventory")
  /\ UNCHANGED <<trees, caller, branches, pulls, comments, attempts>>

\* Apply to a scratch index, list what the patch touches, ask the scope guard.
TakeInventory(r) ==
  /\ At(r, "inventory") /\ NoFault
  /\ \/ Reports(r, "skipped")
     \/ /\ run[r].inventory = {} \/ Violations(run[r].inventory) # {}
        /\ Reports(r, "skipped")
     \/ /\ run[r].inventory # {} /\ Violations(run[r].inventory) = {}
        /\ Goto(r, "dirty") /\ UNCHANGED run
  /\ UNCHANGED <<trees, caller, branches, pulls, comments, attempts>>

CheckDirty(r) ==
  /\ At(r, "dirty")
  /\ \/ Fault /\ Reports(r, "failed")
     \/ NoFault /\ run[r].inventory \cap DirtyPaths # {} /\ Reports(r, "skipped")
     \/ NoFault /\ run[r].inventory \cap DirtyPaths = {} /\ Goto(r, "worktree") /\ UNCHANGED run
  /\ UNCHANGED <<trees, caller, branches, pulls, comments, attempts>>

\* A detached worktree at the caller's HEAD; a checkout filter or hook may
\* already have changed paths in it.
CreateWorktree(r) ==
  /\ At(r, "worktree")
  /\ \/ Fault /\ Reports(r, "failed") /\ UNCHANGED trees
     \/ /\ NoFault
        /\ \E stray \in Residues :
             trees' = [trees EXCEPT ![r] = [NoTree EXCEPT !.there = TRUE, !.stray = stray]]
        /\ run' = [run EXCEPT ![r].base = caller.head, ![r].baseAt = caller.edits]
        /\ Goto(r, "apply")
  /\ UNCHANGED <<caller, branches, pulls, comments, attempts>>

ApplyDiff(r) ==
  /\ At(r, "apply") /\ NoFault
  /\ \/ Reports(r, "failed") /\ UNCHANGED trees
     \/ /\ trees' = [trees EXCEPT ![r].patched = run[r].patch]
        /\ Goto(r, "check") /\ UNCHANGED run
  /\ UNCHANGED <<caller, branches, pulls, comments, attempts>>

CheckApplied(r) ==
  LET stray == ChangedPaths(trees[r]) \ run[r].inventory
  IN  /\ At(r, "check")
      /\ \/ Fault /\ Reports(r, "failed")
         \/ NoFault /\ stray # {} /\ Reports(r, "failed")
         \/ NoFault /\ stray = {} /\ Goto(r, "test") /\ UNCHANGED run
      /\ UNCHANGED <<trees, caller, branches, pulls, comments, attempts>>

\* The tests pass, or fail, run out of time or cannot start; either way they
\* may leave changed files behind. A dry run ends here.
RunTests(r) ==
  /\ At(r, "test") /\ NoFault
  /\ \E residue \in Residues : trees' = [trees EXCEPT ![r].stray = @ \cup residue]
  /\ \/ Goto(r, "reject") /\ UNCHANGED run
     \/ r \in DryRuns /\ Returns(r, "created")
     \/ r \notin DryRuns /\ Goto(r, "push") /\ UNCHANGED run
  /\ UNCHANGED <<caller, branches, pulls, comments, attempts>>

\* Mutant: the row's status taken for the outcome.
SaveRejectionRejected(r) ==
  /\ At(r, "reject") /\ NoFault
  /\ attempts' = attempts \cup {[run |-> r, rejected |-> TRUE, pull |-> FALSE]}
  /\ Reports(r, "rejected")
  /\ UNCHANGED <<trees, caller, branches, pulls, comments>>

SaveRejection(r) ==
  /\ At(r, "reject")
  /\ \/ NoFault /\ attempts' = attempts \cup {[run |-> r, rejected |-> TRUE, pull |-> FALSE]}
     \/ Fault /\ UNCHANGED attempts
  /\ Reports(r, "skipped")
  /\ UNCHANGED <<trees, caller, branches, pulls, comments>>

\* Mutant: stages everything, as commit_and_push does without paths.
CommitAndPushAll(r) ==
  LET staged == ChangedPaths(trees[r])
      branch == [paths |-> staged, residue |-> trees[r].stray]
  IN  /\ At(r, "push") /\ NoFault
      /\ branches' = [branches EXCEPT ![r] = branch]
      /\ Goto(r, "open") /\ UNCHANGED run
      /\ UNCHANGED <<trees, caller, pulls, comments, attempts>>

\* Stage the inventory only, refuse an empty or foreign staged set, commit,
\* push. A push may be refused, or accepted while git reports failure, or
\* the subprocess call itself may raise.
CommitAndPush(r) ==
  LET staged == ChangedPaths(trees[r]) \cap run[r].inventory
      branch == [paths |-> staged, residue |-> trees[r].stray \cap staged]
  IN  /\ At(r, "push")
      /\ \/ NoFault /\ staged = {} /\ Reports(r, "failed") /\ UNCHANGED branches
         \/ /\ staged # {} /\ NoFault
            /\ branches' = [branches EXCEPT ![r] = branch]
            /\ Goto(r, "open") /\ UNCHANGED run
         \/ /\ staged # {} /\ Fault
            /\ branches' \in {branches, [branches EXCEPT ![r] = branch]}
            /\ Reports(r, "failed") \/ Returns(r, "raised")
      /\ UNCHANGED <<trees, caller, pulls, comments, attempts>>

\* Mutant: goes on without a pull request.
CreatePrUnchecked(r) ==
  /\ At(r, "open")
  /\ \/ NoFault /\ pulls' = pulls \cup {r}
     \/ Fault /\ UNCHANGED pulls
  /\ Goto(r, "save")
  /\ UNCHANGED <<run, trees, caller, branches, comments, attempts>>

\* create_pr: refused, or created while the answer is lost.
CreatePr(r) ==
  /\ At(r, "open")
  /\ \/ NoFault /\ pulls' = pulls \cup {r} /\ Goto(r, "save") /\ UNCHANGED run
     \/ Fault /\ pulls' \in {pulls, pulls \cup {r}} /\ Reports(r, "failed")
  /\ UNCHANGED <<trees, caller, branches, comments, attempts>>

SaveAttempt(r) ==
  /\ At(r, "save")
  /\ \/ NoFault /\ attempts' = attempts \cup {[run |-> r, rejected |-> FALSE, pull |-> TRUE]}
     \/ Fault /\ UNCHANGED attempts
  /\ Goto(r, "link")
  /\ UNCHANGED <<run, trees, caller, branches, pulls, comments>>

\* The link on the issue and the ping on Telegram; neither failure counts.
LinkPr(r) ==
  /\ At(r, "link")
  /\ \/ NoFault /\ comments' = [comments EXCEPT ![r] = "link"]
     \/ Fault /\ UNCHANGED comments
  /\ Returns(r, "created")
  /\ UNCHANGED <<trees, caller, branches, pulls, attempts>>

\* comment_on_issue never raises.
Comment(r) ==
  /\ At(r, "comment")
  /\ \/ NoFault /\ comments' = [comments EXCEPT ![r] = run[r].result]
     \/ Fault /\ UNCHANGED comments
  /\ Goto(r, "leave")
  /\ UNCHANGED <<run, trees, caller, branches, pulls, attempts>>

\* "finally: worktree.remove()", whichever way the run got here.
Leave(r) ==
  /\ At(r, "leave")
  /\ \/ NoFault /\ trees' = [trees EXCEPT ![r] = NoTree]
     \/ trees[r].there /\ Fault /\ UNCHANGED trees
  /\ Goto(r, "ended")
  /\ UNCHANGED <<run, caller, branches, pulls, comments, attempts>>

\* The process is killed (a CI job is cancelled).
Killed(r) ==
  /\ pc[r] \notin {"idle", "ended"} /\ Fault
  /\ run' = [run EXCEPT ![r].result = "killed"]
  /\ Goto(r, "ended")
  /\ UNCHANGED <<trees, caller, branches, pulls, comments, attempts>>

\* The owner edits a file, or commits or discards what is uncommitted.
OwnerWorks ==
  /\ caller.edits < MaxEdits
  /\ LET now == caller.edits + 1
     IN  \/ \E p \in Paths : caller' = [caller EXCEPT !.edits = now, !.work[p] = now]
         \/ caller' = [caller EXCEPT !.edits = now, !.head = caller.work]
         \/ caller' = [caller EXCEPT !.edits = now, !.work = caller.head]
  /\ UNCHANGED <<pc, run, trees, branches, pulls, comments, attempts, faults>>

ExitCode(r) == IF run[r].result \in {"created", "skipped"} THEN 0 ELSE 1

Unchanged0 == [p \in Paths |-> 0]

Init ==
  /\ pc = [r \in Runs |-> "idle"]
  /\ run = [r \in Runs |->
       [files |-> {}, id |-> FALSE, read |-> {}, seen |-> Unchanged0, readAt |-> 0,
        prior |-> {}, router |-> FALSE, patch |-> {}, inventory |-> {},
        base |-> Unchanged0, baseAt |-> 0, result |-> "none"]]
  /\ trees = [r \in Runs |-> NoTree]
  /\ caller = [head |-> Unchanged0, work |-> Unchanged0, edits |-> 0]
  /\ branches = [r \in Runs |-> NoBranch]
  /\ pulls = {}
  /\ comments = [r \in Runs |-> "none"]
  /\ attempts = {}
  /\ faults = 0

Step(r) ==
  \/ FetchFails(r) \/ Fetch(r) \/ ReadFiles(r) \/ Prompt(r) \/ Generate(r)
  \/ TakeInventory(r) \/ CheckDirty(r) \/ CreateWorktree(r) \/ ApplyDiff(r)
  \/ CheckApplied(r) \/ RunTests(r) \/ SaveRejection(r) \/ CommitAndPush(r)
  \/ CreatePr(r) \/ SaveAttempt(r) \/ LinkPr(r) \/ Comment(r) \/ Leave(r) \/ Killed(r)

Next == OwnerWorks \/ \E r \in Runs : Step(r)

Spec == Init /\ [][Next]_vars

-------------------------------------------------------------------------------
(* Properties.                                                             *)

Undisturbed(r) == run[r].baseAt = run[r].readAt

\* Unless the owner worked in between, the commit a fix is built on holds, for
\* every file the branch changes and the model was shown, what the model was
\* shown: uncommitted edits are never silently dropped from under a fix
\* (cli.py:441-446, and the README's "a patch touching a file with uncommitted
\* edits is refused").
FixMatchesItsBase ==
  \A r \in Runs : Undisturbed(r) =>
    \A p \in branches[r].paths \cap run[r].read : run[r].base[p] = run[r].seen[p]

\* What a run leaves behind tells the truth. A branch nobody opened a pull
\* request for belongs to a run that ends red; a rejection on file was never
\* published; a row, a comment or a green exit that speaks of a pull request
\* has one, a "failed" comment is not followed by a green exit, and a worktree
\* outlives its run only if something failed or killed it.
LeftoversTold ==
  \A r \in Runs :
    /\ pc[r] = "ended" /\ ExitCode(r) = 0 => (branches[r] = NoBranch <=> r \notin pulls)
    /\ [run |-> r, rejected |-> TRUE, pull |-> FALSE] \in attempts => branches[r] = NoBranch
    /\ [run |-> r, rejected |-> FALSE, pull |-> TRUE] \in attempts => r \in pulls
    /\ comments[r] = "link" => r \in pulls
    /\ comments[r] = "failed" => run[r].result \in {"failed", "killed"}
    /\ trees[r].there /\ pc[r] = "ended" => faults > 0

FinalOutcome(r) ==
  CASE pc[r] # "ended" -> "running"
    [] pc[r] = "ended" /\ run[r].result \in {"raised", "killed"} -> "died"
    [] OTHER -> run[r].result

Promise == INSTANCE FixPromise WITH
  Scope <- {p \in Paths : InScope(p)},
  checkout <- [head |-> caller.head, work |-> caller.work],
  published <- [r \in Runs |-> branches[r].paths],
  outcome <- [r \in Runs |-> FinalOutcome(r)]

\* The pipeline implements FixPromise (README.md, "Auto-Fix PRs"): nothing out
\* of scope is ever published, a declined run publishes nothing, success means
\* a pull request, the checkout is the owner's alone.
KeepsFixPromise == Promise!PromiseSpec
===============================================================================
