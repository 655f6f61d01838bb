---------------------------- MODULE RunPipeline -----------------------------
(***************************************************************************)
(* run.sh and its stages in lib/: invocations, one after another, on one   *)
(* machine.  Each fetches the repository's HEAD, gets a recipe that builds *)
(* and passes its check, and runs the tasks one by one behind a proxy.     *)
(* Docker, git, the analyzer and the tests may fail at any call, and a     *)
(* SIGTERM may come at any time.                                           *)
(*                                                                         *)
(* Between invocations the recipes and the overlay images stay; a run's    *)
(* folder is its own.                                                      *)
(***************************************************************************)
EXTENDS Naturals, Sequences, FiniteSets

CONSTANTS
  Commits,      (* HEADs of the repository                                  *)
  Recipes,      (* what the analyzer may return                             *)
  None,
  TaskList,     (* the tasks of an invocation, in order                     *)
  MaxRuns,      (* invocations                                              *)
  Signals       (* a SIGTERM may come                                       *)

ASSUME RunPipelineAssumption ==
  /\ None \notin Recipes /\ MaxRuns \in Nat /\ Signals \in BOOLEAN
  /\ TaskList \in Seq({ TaskList[i] : i \in DOMAIN TaskList }) /\ Len(TaskList) > 0

VARIABLES
  stored,       (* recipes/<name>@<sha>.json                                *)
  image,        (* overlay images by tag: their labels, and whether the     *)
                (* check has passed in them                                 *)
  run,          (* the invocation: where it is and its shell variables      *)
  folder,       (* folder[i]: run.json of the i-th task                     *)
  cur,          (* CUR_PROXY and CUR_RUN                                    *)
  containers,   (* that exist                                               *)
  alive,        (* the harness process runs                                 *)
  runs          (* invocations so far                                       *)

dockerVars == << cur, containers, alive >>
vars == << stored, image, run, folder, dockerVars, runs >>

Steps == DOMAIN TaskList
Tags  == { "base" } \cup { TaskList[i] : i \in Steps }

NoImage == [ commit |-> None, recipe |-> None, passed |-> FALSE ]
Idle    == [ at |-> "over", commit |-> None, recipe |-> None, analyze |-> FALSE, force |-> FALSE,
             attempt |-> 0, task |-> 1, failed |-> FALSE, code |-> 0 ]

Init ==
  /\ stored = [ c \in Commits |-> None ]
  /\ image = [ t \in Tags |-> NoImage ]
  /\ run = Idle
  /\ folder = [ i \in Steps |-> [ stage |-> "none", recipe |-> None ] ]
  /\ cur = {} /\ containers = {} /\ alive = FALSE
  /\ runs = 0

At(place) == run.at = place
Go(place) == run' = [ run EXCEPT !.at = place ]

(* die, and set -e: the EXIT trap, if it is installed, then the status.    *)
Die == run' = [ run EXCEPT !.at = "exit", !.code = 2 ]

-----------------------------------------------------------------------------
(* fetch, select.                                                          *)

Start ==
  /\ At("over") /\ runs < MaxRuns
  /\ runs' = runs + 1
  /\ run' = [ Idle EXCEPT !.at = "fetch" ]
  /\ folder' = [ i \in Steps |-> [ stage |-> "none", recipe |-> None ] ]
  /\ UNCHANGED << stored, image, dockerVars >>

Fetch ==
  /\ At("fetch")
  /\ \/ \E c \in Commits : run' = [ run EXCEPT !.at = "select", !.commit = c ]
     \/ Die
  /\ UNCHANGED << stored, image, folder, dockerVars, runs >>

Select ==
  /\ At("select")
  /\ Go("recipe") \/ Die
  /\ UNCHANGED << stored, image, folder, dockerVars, runs >>

-----------------------------------------------------------------------------
(* prepare_recipe.  A stored recipe of an older schema, or --rebuild, is   *)
(* analyzed again.                                                         *)

Prepare ==
  /\ At("recipe")
  /\ \/ /\ stored[run.commit] # None
        /\ run' = [ run EXCEPT !.at = "base", !.recipe = stored[run.commit], !.attempt = 1 ]
     \/ run' = [ run EXCEPT !.at = "analyze", !.analyze = TRUE, !.attempt = 1 ]
  /\ UNCHANGED << stored, image, folder, dockerVars, runs >>

Retry_Uncounted == run' = [ run EXCEPT !.at = "analyze", !.analyze = TRUE ]

Retry ==
  IF run.attempt = 3 THEN Die
  ELSE run' = [ run EXCEPT !.at = "analyze", !.analyze = TRUE, !.attempt = @ + 1 ]

Analyze ==
  /\ At("analyze")
  /\ \/ \E r \in Recipes : run' = [ run EXCEPT !.at = "base", !.recipe = r, !.force = TRUE ]
     \/ Retry
     \/ Die                                  (* the agent gave up           *)
  /\ UNCHANGED << stored, image, folder, dockerVars, runs >>

(* build_overlay: an image with the labels of this commit and recipe is    *)
(* reused; else docker build, which moves the tag, then check_image.       *)
Reusable_ByCommit(tag) == image[tag].commit = run.commit
Reusable(tag)          == image[tag].commit = run.commit /\ image[tag].recipe = run.recipe

Heeds_Nothing(passed) == TRUE
Heeds(passed)         == passed

Overlay(tag, force, built, not) ==
  \/ /\ ~force /\ Reusable(tag)
     /\ built /\ UNCHANGED image
  \/ /\ force \/ ~Reusable(tag)
     /\ \/ not /\ UNCHANGED image
        \/ \E passed \in BOOLEAN :
             /\ image' = [ image EXCEPT ![tag] = [ commit |-> run.commit, recipe |-> run.recipe, passed |-> passed ] ]
             /\ IF Heeds(passed) THEN built ELSE not

BuildBase ==
  /\ At("base")
  /\ Overlay("base", run.force, Go("first"), Retry)
  /\ UNCHANGED << stored, folder, dockerVars, runs >>

BuildFirst ==
  /\ At("first")
  /\ Overlay(TaskList[1], run.force, Go("keep"), Retry)
  /\ UNCHANGED << stored, folder, dockerVars, runs >>

Keep ==
  /\ At("keep")
  /\ stored' = IF run.force THEN [ stored EXCEPT ![run.commit] = run.recipe ] ELSE stored
  /\ Go("proxies")
  /\ UNCHANGED << image, folder, dockerVars, runs >>

(* build_proxy_image; the traps come after it.                             *)
Proxies ==
  /\ At("proxies")
  /\ Go("task") \/ Die
  /\ UNCHANGED << stored, image, folder, dockerVars, runs >>

-----------------------------------------------------------------------------
(* The loop over the tasks.  A task whose image or overlay fails is        *)
(* skipped, and fails the invocation (INFRA_FAIL) when it ends.            *)

Skip_Silent == run' = [ run EXCEPT !.at = "task", !.task = @ + 1 ]
Skip        == run' = [ run EXCEPT !.at = "task", !.task = @ + 1, !.failed = TRUE ]

Task ==
  /\ At("task") /\ run.task \in Steps
  /\ \/ Skip /\ UNCHANGED image
     \/ Overlay(TaskList[run.task], FALSE, Go("origin"), Skip)
  /\ UNCHANGED << stored, folder, dockerVars, runs >>

Writes(stage, next) ==
  /\ folder' = [ folder EXCEPT ![run.task] = [ stage |-> stage, recipe |-> run.recipe ] ]
  /\ Go(next)
  /\ UNCHANGED << stored, image, dockerVars, runs >>

Origin     == At("origin") /\ Writes("origin", "provenance")
Provenance == At("provenance") /\ Writes("provenance", "proxy")

(* start_proxy and agent_phase set the name of a container before they     *)
(* remove an old one and create it.                                        *)
Named_Late(who) == IF who \in containers THEN cur \cup {who} ELSE cur
Named(who)      == cur \cup {who}

Name(who, place, next) ==
  /\ At(place)
  /\ cur' = Named(who)
  /\ Go(next)
  /\ UNCHANGED << stored, image, folder, containers, alive, runs >>

NameProxy == Name("proxy", "proxy", "starting")
NameRun   == Name("harness", "agent", "running")

StartProxy ==
  /\ At("starting")
  /\ \/ containers' = containers \cup { "proxy" } /\ Go("agent")
     \/ containers' = containers \cup { "proxy" } /\ Die      (* unhealthy   *)
     \/ UNCHANGED containers /\ Die
  /\ UNCHANGED << stored, image, folder, cur, alive, runs >>

StartRun ==
  /\ At("running")
  /\ \/ containers' = containers \cup { "harness" } /\ alive' = TRUE /\ Go("working")
     \/ UNCHANGED << containers, alive >> /\ Die
  /\ UNCHANGED << stored, image, folder, cur, runs >>

(* with_timeout ends docker exec, the client; what it started in the       *)
(* container goes on.                                                      *)
AgentEnds ==
  /\ At("working")
  /\ alive' \in { alive, FALSE }
  /\ Go("verify")
  /\ UNCHANGED << stored, image, folder, cur, containers, runs >>

(* proxy_phase, the open network and the tests, then test.sh.              *)
Verify ==
  /\ At("verify")
  /\ Go("testing") \/ Die
  /\ UNCHANGED << stored, image, folder, dockerVars, runs >>

Tested ==
  /\ At("testing")
  /\ Go("finish")
  /\ UNCHANGED << stored, image, folder, dockerVars, runs >>

Exits ==
  /\ At("working") \/ At("testing") \/ At("finish")
  /\ alive /\ alive' = FALSE
  /\ UNCHANGED << stored, image, run, folder, cur, containers, runs >>

(* finish_containers: what cur names.                                      *)
Cleared_RunOnly == containers \ (cur \cap { "harness" })
Cleared         == containers \ cur

Removes ==
  /\ containers' = Cleared
  /\ cur' = {}
  /\ alive' = (alive /\ "harness" \in Cleared)

Finish ==
  /\ At("finish")
  /\ Removes
  /\ Go("result")
  /\ UNCHANGED << stored, image, folder, runs >>

(* The result half of run.json, and the line of the batch.                 *)
Result ==
  /\ At("result")
  /\ folder' = [ folder EXCEPT ![run.task].stage = "result" ]
  /\ run' = [ run EXCEPT !.at = "task", !.task = @ + 1 ]
  /\ UNCHANGED << stored, image, dockerVars, runs >>

Summary ==
  /\ At("task") /\ run.task \notin Steps
  /\ run' = [ run EXCEPT !.at = "exit", !.code = IF run.failed THEN 1 ELSE 0 ]
  /\ UNCHANGED << stored, image, folder, dockerVars, runs >>

(* The EXIT trap.  Before it is installed there is nothing to remove.      *)
Exit ==
  /\ At("exit")
  /\ Removes
  /\ Go("over")
  /\ UNCHANGED << stored, image, folder, runs >>

Term ==
  /\ Signals /\ run.at \notin { "over", "exit" }
  /\ run' = [ run EXCEPT !.at = "exit", !.code = 143 ]
  /\ UNCHANGED << stored, image, folder, dockerVars, runs >>

-----------------------------------------------------------------------------

Stage ==
  \/ Fetch \/ Select \/ Prepare \/ Analyze \/ BuildBase \/ BuildFirst \/ Keep \/ Proxies
  \/ Task \/ Origin \/ Provenance \/ NameProxy \/ StartProxy \/ NameRun \/ StartRun
  \/ AgentEnds \/ Verify \/ Tested \/ Finish \/ Result \/ Summary \/ Exit

Next == Start \/ Stage \/ Exits \/ Term

Spec     == Init /\ [][Next]_vars
FairSpec == Spec /\ WF_vars(Stage)

-----------------------------------------------------------------------------

TypeOK ==
  /\ \A t \in Tags : image[t].passed => image[t].recipe \in Recipes
  /\ run.attempt \in 0 .. 3 /\ run.task \in 1 .. Len(TaskList) + 1
  /\ containers \subseteq cur /\ (alive => "harness" \in containers)

(* A harness runs in an image of the commit and recipe that its run.json   *)
(* names, though the images of other commits and recipes carry the same    *)
(* tags (build_overlay).                                                   *)
RunsWhatItRecords ==
  At("working") => /\ folder[run.task] = [ stage |-> "provenance", recipe |-> run.recipe ]
                   /\ image[TaskList[run.task]].recipe = run.recipe
                   /\ image[TaskList[run.task]].commit = run.commit

(* A recipe is kept for a commit only after it was built and checked on    *)
(* the base and on the first task.                                         *)
StoredRecipesPassed ==
  [][ \A c \in Commits : stored'[c] # stored[c] =>
        \A t \in { "base", TaskList[1] } : image[t] = [ commit |-> c, recipe |-> stored'[c], passed |-> TRUE ] ]_vars

(* However an invocation ends, short of a SIGKILL, its containers go       *)
(* ("exit through the EXIT trap so the containers go too").                *)
NothingLeftRunning == At("over") => containers = {} /\ ~alive

(* The result half counts the calls of a proxy that is gone.               *)
ResultAfterRemoval == [][ folder' # folder /\ ~At("over") => containers = {} ]_vars

(* Exit status 0, which the workers call done, means that every task has   *)
(* its result.                                                             *)
ZeroMeansAll ==
  At("over") /\ runs > 0 /\ run.code = 0 => \A i \in Steps : folder[i].stage = "result"

(* An invocation ends, after at most three attempts at a recipe.           *)
InvocationsEnd == run.at # "over" ~> At("over")

(* An invocation in every state: what runs is what is recorded, nothing    *)
(* stays behind, the exit status is true.                                  *)
PipelineSafety == TypeOK /\ RunsWhatItRecords /\ NothingLeftRunning /\ ZeroMeansAll

(* An invocation in every step: what it stores was checked, and a result   *)
(* follows the removal of what made it.                                    *)
PipelineSteps == StoredRecipesPassed /\ ResultAfterRemoval

=============================================================================
