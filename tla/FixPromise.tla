------------------------------ MODULE FixPromise ------------------------------
(***************************************************************************)
(* What auto-fix promises to the owner of a repository, whatever gates,    *)
(* tools and services stand behind it: a run publishes at most one branch, *)
(* non-empty and in scope, before it ends; a pull request only over its    *)
(* branch; a run that declines has published nothing; one that reports     *)
(* success has opened a pull request, or was a dry run and published       *)
(* nothing; and no run touches the owner's checkout.                       *)
(***************************************************************************)
CONSTANTS Runs, DryRuns, Scope

VARIABLES
  checkout,   \* the owner's files and HEAD
  published,  \* per run, the paths changed by the branch it pushed; {} if none
  pulls,      \* the runs that opened a pull request
  outcome     \* per run: "running", "skipped", "created", "failed", "died"

promiseVars == <<checkout, published, pulls, outcome>>

Ends(r, result) ==
  /\ outcome[r] = "running"
  /\ outcome' = [outcome EXCEPT ![r] = result]
  /\ UNCHANGED <<checkout, published, pulls>>

Publish(r, paths) ==
  /\ outcome[r] = "running"
  /\ published[r] = {}
  /\ paths # {} /\ paths \subseteq Scope
  /\ published' = [published EXCEPT ![r] = paths]
  /\ UNCHANGED <<checkout, pulls, outcome>>

OpenPull(r) ==
  /\ outcome[r] = "running"
  /\ published[r] # {}
  /\ r \notin pulls
  /\ pulls' = pulls \cup {r}
  /\ UNCHANGED <<checkout, published, outcome>>

Decline(r) == published[r] = {} /\ Ends(r, "skipped")

Succeed(r) ==
  /\ IF r \in DryRuns THEN published[r] = {} ELSE r \in pulls
  /\ Ends(r, "created")

Break(r) == Ends(r, "failed") \/ Ends(r, "died")

OwnerWorks ==
  /\ checkout' # checkout
  /\ UNCHANGED <<published, pulls, outcome>>

PromiseInit ==
  /\ published = [r \in Runs |-> {}]
  /\ pulls = {}
  /\ outcome = [r \in Runs |-> "running"]

PromiseNext ==
  \/ OwnerWorks
  \/ \E r \in Runs : \/ \E paths \in SUBSET Scope : Publish(r, paths)
                     \/ OpenPull(r) \/ Decline(r) \/ Succeed(r) \/ Break(r)

PromiseSpec == PromiseInit /\ [][PromiseNext]_promiseVars
===============================================================================
