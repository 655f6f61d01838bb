------------------------------ MODULE RunProofs ------------------------------
(***************************************************************************)
(* Proofs about what happens inside run.sh: RunPipeline for any repository,*)
(* tasks and number of invocations, for any failure and with or without    *)
(* signals, and RecipeAgent for any budget and any model.                  *)
(***************************************************************************)
EXTENDS RunPipeline, RecipeAgent, TLAPS

Before == { "fetch", "select", "recipe", "analyze", "base", "first", "keep", "proxies" }
Fresh  == { "origin", "provenance", "proxy", "starting", "agent", "running", "working" }
Graded == { "verify", "testing", "finish", "result" }
OfTask == Fresh \cup Graded
Places == Before \cup OfTask \cup { "task", "exit", "over" }

Image == [ commit : Commits \cup {None}, recipe : Recipes \cup {None}, passed : BOOLEAN ]
Run   == [ at : Places, commit : Commits \cup {None}, recipe : Recipes \cup {None}, analyze : BOOLEAN,
           force : BOOLEAN, attempt : 0 .. 3, task : 1 .. Len(TaskList) + 1, failed : BOOLEAN,
           code : { 0, 1, 2, 143 } ]
Entry == [ stage : { "none", "origin", "provenance", "result" }, recipe : Recipes \cup {None} ]

TypeInv ==
  /\ stored \in [ Commits -> Recipes \cup {None} ]
  /\ image \in [ Tags -> Image ]
  /\ run \in Run
  /\ folder \in [ Steps -> Entry ]
  /\ cur \subseteq { "proxy", "harness" } /\ alive \in BOOLEAN
  /\ runs \in Nat

(* What exists has a name that the traps know, and outside of a task's     *)
(* containers nothing exists.                                              *)
ContainerInv ==
  /\ containers \subseteq cur /\ (alive => "harness" \in containers)
  /\ At("starting") => "proxy" \in cur
  /\ At("running") => "harness" \in cur
  /\ run.at \in Before \cup { "over", "task", "origin", "provenance", "proxy", "result" } => containers = {}

(* The recipe in hand, and the images that it was checked in.              *)
InHand == [ commit |-> run.commit, recipe |-> run.recipe, passed |-> TRUE ]

RecipeInv ==
  /\ \A t \in Tags : image[t].passed => image[t].recipe \in Recipes
  /\ run.at \in { "select", "recipe", "analyze" } => run.commit \in Commits
  /\ run.at \in { "base", "first", "keep", "proxies", "task" } \cup OfTask =>
        run.commit \in Commits /\ run.recipe \in Recipes
  /\ At("first") /\ run.force => image["base"] = InHand
  /\ At("keep") /\ run.force => image["base"] = InHand /\ image[TaskList[1]] = InHand

(* The task in hand: its image, its folder, and those before it.           *)
TaskInv ==
  /\ run.at \in Before => run.task = 1 /\ ~run.failed
  /\ run.at \in OfTask => run.task \in Steps
  /\ run.at \in Fresh =>
        image[TaskList[run.task]].commit = run.commit /\ image[TaskList[run.task]].recipe = run.recipe
  /\ run.at \in Fresh \ { "origin", "provenance" } =>
        folder[run.task] = [ stage |-> "provenance", recipe |-> run.recipe ]
  /\ run.at \in OfTask \cup { "task" } /\ ~run.failed =>
        \A i \in Steps : i < run.task => folder[i].stage = "result"
  /\ run.at \in { "exit", "over" } /\ runs > 0 /\ run.code = 0 => \A i \in Steps : folder[i].stage = "result"

IInv == TypeInv /\ ContainerInv /\ RecipeInv /\ TaskInv

-----------------------------------------------------------------------------
(* What the updates do to the fields of run.                               *)

LEMMA TaskListIsSequence ==
  Len(TaskList) \in Nat /\ Steps = 1 .. Len(TaskList) /\ 1 \in Steps
<1> DEFINE S == { TaskList[i] : i \in DOMAIN TaskList }
<1>1. TaskList \in Seq(S) /\ Len(TaskList) > 0
  BY RunPipelineAssumption
<1> HIDE DEF S
<1>2. QED
  BY <1>1 DEF Steps

LEMMA GoIs ==
  ASSUME run \in Run, NEW place \in Places, Go(place)
  PROVE  /\ run' \in Run /\ run'.at = place
         /\ UNCHANGED << run.commit, run.recipe, run.force, run.task, run.failed, run.code >>
BY DEF Go, Run

LEMMA DieIs ==
  ASSUME run \in Run, Die
  PROVE  /\ run' \in Run /\ run'.at = "exit" /\ run'.code = 2
BY DEF Die, Run, Places

LEMMA RetryIs ==
  ASSUME run \in Run, Retry
  PROVE  /\ run' \in Run
         /\ \/ run'.at = "exit" /\ run'.code = 2
            \/ /\ run'.at = "analyze"
               /\ UNCHANGED << run.commit, run.task, run.failed >>
<1>1. CASE run.attempt = 3
  BY <1>1, DieIs DEF Retry
<1>2. CASE run.attempt # 3
  <2> DEFINE n == run.attempt + 1
  <2>1. n \in 0 .. 3
    BY <1>2 DEF Run
  <2>2. run' = [ run EXCEPT !.at = "analyze", !.analyze = TRUE, !.attempt = n ]
    BY <1>2 DEF Retry
  <2> HIDE DEF n
  <2>3. QED
    BY <2>1, <2>2 DEF Run, Places, Before
<1>3. QED
  BY <1>1, <1>2

LEMMA SkipIs ==
  ASSUME run \in Run, run.task \in Steps, Skip
  PROVE  /\ run' \in Run /\ run'.at = "task" /\ run'.task = run.task + 1 /\ run'.failed
         /\ UNCHANGED << run.commit, run.recipe >>
<1> DEFINE n == run.task + 1
<1>1. n \in 1 .. Len(TaskList) + 1
  BY TaskListIsSequence
<1>2. run' = [ run EXCEPT !.at = "task", !.task = n, !.failed = TRUE ]
  BY DEF Skip
<1> HIDE DEF n
<1>3. run' \in Run /\ run'.at = "task" /\ run'.task = n /\ run'.failed = TRUE /\ UNCHANGED << run.commit, run.recipe >>
  BY <1>1, <1>2 DEF Run, Places
<1>4. QED
  BY <1>3 DEF n

LEMMA ResultIs ==
  ASSUME run \in Run, run.task \in Steps, Result
  PROVE  /\ run' \in Run /\ run'.at = "task" /\ run'.task = run.task + 1
         /\ UNCHANGED << run.commit, run.recipe, run.failed >>
<1> DEFINE n == run.task + 1
<1>1. n \in 1 .. Len(TaskList) + 1
  BY TaskListIsSequence
<1>2. run' = [ run EXCEPT !.at = "task", !.task = n ]
  BY DEF Result
<1> HIDE DEF n
<1>3. run' \in Run /\ run'.at = "task" /\ run'.task = n /\ UNCHANGED << run.commit, run.recipe, run.failed >>
  BY <1>1, <1>2 DEF Run, Places
<1>4. QED
  BY <1>3 DEF n

LEMMA StartIs ==
  ASSUME Start
  PROVE  run' \in Run /\ run'.at = "fetch" /\ run'.task = 1 /\ run'.failed = FALSE
<1>1. Idle \in Run /\ Idle.task = 1 /\ Idle.failed = FALSE
  BY TaskListIsSequence DEF Idle, Run, Places
<1>2. run' = [ Idle EXCEPT !.at = "fetch" ]
  BY DEF Start
<1>3. QED
  BY <1>1, <1>2 DEF Run, Places, Before

LEMMA FetchIs ==
  ASSUME run \in Run, Fetch
  PROVE  /\ run' \in Run
         /\ \/ run'.at = "exit" /\ run'.code = 2
            \/ /\ run'.at = "select" /\ run'.commit \in Commits
               /\ UNCHANGED << run.task, run.failed >>
<1>1. CASE \E c \in Commits : run' = [ run EXCEPT !.at = "select", !.commit = c ]
  <2>1. PICK c \in Commits : run' = [ run EXCEPT !.at = "select", !.commit = c ]
    BY <1>1
  <2>2. QED
    BY <2>1 DEF Run, Places, Before
<1>2. CASE Die
  BY <1>2, DieIs
<1>3. QED
  BY <1>1, <1>2 DEF Fetch

LEMMA PrepareIs ==
  ASSUME TypeInv, run.commit \in Commits, Prepare
  PROVE  /\ run' \in Run /\ UNCHANGED << run.commit, run.force, run.task, run.failed >>
         /\ \/ run'.at = "base" /\ run'.recipe \in Recipes
            \/ run'.at = "analyze"
<1>0. run \in Run
  BY DEF TypeInv
<1>1. stored[run.commit] # None => stored[run.commit] \in Recipes
  BY DEF TypeInv
<1>2. PICK n \in 0 .. 3 : n = 1
  OBVIOUS
<1>3. CASE /\ stored[run.commit] # None
           /\ run' = [ run EXCEPT !.at = "base", !.recipe = stored[run.commit], !.attempt = n ]
  <2>1. PICK r \in Recipes : run' = [ run EXCEPT !.at = "base", !.recipe = r, !.attempt = n ]
    BY <1>1, <1>3
  <2>2. QED
    BY <1>0, <2>1 DEF Run, Places, Before
<1>4. CASE run' = [ run EXCEPT !.at = "analyze", !.analyze = TRUE, !.attempt = n ]
  BY <1>0, <1>4 DEF Run, Places, Before
<1>5. QED
  BY <1>2, <1>3, <1>4 DEF Prepare

LEMMA AnalyzeIs ==
  ASSUME run \in Run, Analyze
  PROVE  /\ run' \in Run
         /\ \/ run'.at = "exit" /\ run'.code = 2
            \/ /\ run'.at \in { "base", "analyze" } /\ UNCHANGED << run.commit, run.task, run.failed >>
               /\ run'.at = "base" => run'.recipe \in Recipes /\ run'.force
<1>1. CASE \E r \in Recipes : run' = [ run EXCEPT !.at = "base", !.recipe = r, !.force = TRUE ]
  <2>1. PICK r \in Recipes : run' = [ run EXCEPT !.at = "base", !.recipe = r, !.force = TRUE ]
    BY <1>1
  <2>2. QED
    BY <2>1 DEF Run, Places, Before
<1>2. CASE Retry \/ Die
  BY <1>2, RetryIs, DieIs
<1>3. QED
  BY <1>1, <1>2 DEF Analyze

LEMMA SummaryIs ==
  ASSUME run \in Run, Summary
  PROVE  run' \in Run /\ run'.at = "exit" /\ (run'.code = 0 => ~run.failed)
<1> DEFINE c == IF run.failed THEN 1 ELSE 0
<1>1. run' = [ run EXCEPT !.at = "exit", !.code = c ]
  BY DEF Summary
<1>2. c \in { 0, 1 } /\ (c = 0 => ~run.failed)
  BY DEF Run
<1> HIDE DEF c
<1>3. QED
  BY <1>1, <1>2 DEF Run, Places

LEMMA TermIs ==
  ASSUME run \in Run, Term
  PROVE  run' \in Run /\ run'.at = "exit" /\ run'.code = 143
BY DEF Term, Run, Places

-----------------------------------------------------------------------------
(* build_overlay: the tag that is built, and what became of run.           *)

LEMMA ImageIs ==
  ASSUME image \in [ Tags -> Image ], run \in Run, run.recipe \in Recipes, NEW which \in Tags, NEW passed \in BOOLEAN,
         \A t \in Tags : image[t].passed => image[t].recipe \in Recipes,
         image' = [ image EXCEPT ![which] = [ commit |-> run.commit, recipe |-> run.recipe, passed |-> passed ] ]
  PROVE  /\ image' \in [ Tags -> Image ]
         /\ \A t \in Tags : image'[t].passed => image'[t].recipe \in Recipes
         /\ image'[which] = [ commit |-> run.commit, recipe |-> run.recipe, passed |-> passed ]
         /\ \A t \in Tags : t # which => image'[t] = image[t]
<1> DEFINE built == [ commit |-> run.commit, recipe |-> run.recipe, passed |-> passed ]
<1>1. built \in Image /\ built.recipe \in Recipes
  BY DEF Image, Run
<1> HIDE DEF built
<1>2. image' = [ image EXCEPT ![which] = built ]
  BY DEF built
<1>3. image' \in [ Tags -> Image ] /\ image'[which] = built /\ \A t \in Tags : t # which => image'[t] = image[t]
  BY <1>1, <1>2
<1>4. \A t \in Tags : image'[t].passed => image'[t].recipe \in Recipes
  BY <1>1, <1>3
<1>5. QED
  BY <1>3, <1>4 DEF built

LEMMA BuildBaseIs ==
  ASSUME TypeInv, RecipeInv, BuildBase
  PROVE  /\ image' \in [ Tags -> Image ]
         /\ \A t \in Tags : image'[t].passed => image'[t].recipe \in Recipes
         /\ \/ Retry
            \/ Go("first") /\ (run.force => image'["base"] = InHand)
<1> USE DEF TypeInv, RecipeInv, At, Reusable, Heeds
<1>1. "base" \in Tags /\ run.recipe \in Recipes
  BY DEF BuildBase, Tags
<1>2. CASE ~run.force /\ Go("first") /\ UNCHANGED image
  BY <1>2
<1>3. CASE Retry /\ UNCHANGED image
  BY <1>3
<1>4. CASE \E passed \in BOOLEAN :
             /\ image' = [ image EXCEPT !["base"] = [ commit |-> run.commit, recipe |-> run.recipe, passed |-> passed ] ]
             /\ IF passed THEN Go("first") ELSE Retry
  <2>1. PICK passed \in BOOLEAN :
             /\ image' = [ image EXCEPT !["base"] = [ commit |-> run.commit, recipe |-> run.recipe, passed |-> passed ] ]
             /\ IF passed THEN Go("first") ELSE Retry
    BY <1>4
  <2>2. /\ image' \in [ Tags -> Image ]
        /\ \A t \in Tags : image'[t].passed => image'[t].recipe \in Recipes
        /\ image'["base"] = [ commit |-> run.commit, recipe |-> run.recipe, passed |-> passed ]
    BY <1>1, <2>1, ImageIs
  <2>3. passed => image'["base"] = InHand
    BY <2>2 DEF InHand
  <2>4. QED
    BY <2>1, <2>2, <2>3
<1>5. QED
  BY <1>2, <1>3, <1>4 DEF BuildBase, Overlay

LEMMA BuildFirstIs ==
  ASSUME TypeInv, RecipeInv, BuildFirst
  PROVE  /\ image' \in [ Tags -> Image ]
         /\ \A t \in Tags : image'[t].passed => image'[t].recipe \in Recipes
         /\ \/ Retry
            \/ Go("keep") /\ (run.force => image'["base"] = InHand /\ image'[TaskList[1]] = InHand)
<1> USE DEF TypeInv, RecipeInv, At, Reusable, Heeds
<1> DEFINE first == TaskList[1]
<1>1. first \in Tags /\ "base" \in Tags /\ run.recipe \in Recipes
  BY TaskListIsSequence DEF BuildFirst, Tags
<1>2. run.force => image["base"] = InHand
  BY DEF BuildFirst
<1> HIDE DEF first
<1>3. CASE ~run.force /\ Go("keep") /\ UNCHANGED image
  BY <1>3
<1>4. CASE Retry /\ UNCHANGED image
  BY <1>4
<1>5. CASE \E passed \in BOOLEAN :
             /\ image' = [ image EXCEPT ![first] = [ commit |-> run.commit, recipe |-> run.recipe, passed |-> passed ] ]
             /\ IF passed THEN Go("keep") ELSE Retry
  <2>1. PICK passed \in BOOLEAN :
             /\ image' = [ image EXCEPT ![first] = [ commit |-> run.commit, recipe |-> run.recipe, passed |-> passed ] ]
             /\ IF passed THEN Go("keep") ELSE Retry
    BY <1>5
  <2>2. /\ image' \in [ Tags -> Image ]
        /\ \A t \in Tags : image'[t].passed => image'[t].recipe \in Recipes
        /\ image'[first] = [ commit |-> run.commit, recipe |-> run.recipe, passed |-> passed ]
        /\ \A t \in Tags : t # first => image'[t] = image[t]
    BY <1>1, <2>1, ImageIs
  <2>3. passed => image'[first] = InHand
    BY <2>2 DEF InHand
  <2>4. passed /\ run.force => image'["base"] = InHand
    BY <1>1, <1>2, <2>2, <2>3
  <2>5. QED
    BY <2>1, <2>2, <2>3, <2>4 DEF first
<1>6. QED
  BY <1>3, <1>4, <1>5 DEF BuildFirst, Overlay, first

LEMMA TaskIs ==
  ASSUME TypeInv, RecipeInv, Task
  PROVE  /\ image' \in [ Tags -> Image ]
         /\ \A t \in Tags : image'[t].passed => image'[t].recipe \in Recipes
         /\ \/ Skip
            \/ /\ Go("origin")
               /\ image'[TaskList[run.task]].commit = run.commit
               /\ image'[TaskList[run.task]].recipe = run.recipe
<1> USE DEF TypeInv, RecipeInv, At, Reusable, Heeds
<1> DEFINE which == TaskList[run.task]
<1>1. which \in Tags /\ run.recipe \in Recipes
  BY DEF Task, Tags
<1> HIDE DEF which
<1>2. CASE Reusable(which) /\ Go("origin") /\ UNCHANGED image
  BY <1>2 DEF which
<1>3. CASE Skip /\ UNCHANGED image
  BY <1>3
<1>4. CASE \E passed \in BOOLEAN :
             /\ image' = [ image EXCEPT ![which] = [ commit |-> run.commit, recipe |-> run.recipe, passed |-> passed ] ]
             /\ IF passed THEN Go("origin") ELSE Skip
  <2>1. PICK passed \in BOOLEAN :
             /\ image' = [ image EXCEPT ![which] = [ commit |-> run.commit, recipe |-> run.recipe, passed |-> passed ] ]
             /\ IF passed THEN Go("origin") ELSE Skip
    BY <1>4
  <2>2. /\ image' \in [ Tags -> Image ]
        /\ \A t \in Tags : image'[t].passed => image'[t].recipe \in Recipes
        /\ image'[which] = [ commit |-> run.commit, recipe |-> run.recipe, passed |-> passed ]
    BY <1>1, <2>1, ImageIs
  <2>3. image'[which].commit = run.commit /\ image'[which].recipe = run.recipe
    BY <2>2
  <2>4. QED
    BY <2>1, <2>2, <2>3 DEF which
<1>5. QED
  BY <1>2, <1>3, <1>4 DEF Task, Overlay, which

-----------------------------------------------------------------------------
(* run.json of the task in hand.                                           *)

LEMMA WritesIs ==
  ASSUME folder \in [ Steps -> Entry ], run \in Run,
         NEW stage \in { "origin", "provenance" }, NEW next \in Places, Writes(stage, next)
  PROVE  /\ folder' \in [ Steps -> Entry ]
         /\ run.task \in Steps => folder'[run.task] = [ stage |-> stage, recipe |-> run.recipe ]
         /\ \A i \in Steps : i # run.task => folder'[i] = folder[i]
<1> DEFINE e == [ stage |-> stage, recipe |-> run.recipe ]
<1>1. e \in Entry
  BY DEF Entry, Run
<1>2. folder' = [ folder EXCEPT ![run.task] = e ]
  BY DEF Writes
<1> HIDE DEF e
<1>3. QED
  BY <1>1, <1>2 DEF e

LEMMA ResultFolder ==
  ASSUME folder \in [ Steps -> Entry ], run \in Run, run.task \in Steps, Result
  PROVE  /\ folder' \in [ Steps -> Entry ]
         /\ folder'[run.task].stage = "result"
         /\ \A i \in Steps : i # run.task => folder'[i] = folder[i]
<1>1. folder' = [ folder EXCEPT ![run.task].stage = "result" ]
  BY DEF Result
<1>2. QED
  BY <1>1 DEF Entry

-----------------------------------------------------------------------------
(* Every action keeps the four parts of the invariant.                     *)

LEMMA NextType ==
  ASSUME IInv, [Next]_vars
  PROVE  TypeInv'
<1> USE DEF IInv, TypeInv, RecipeInv, TaskInv, Places, Before, Fresh, Graded, OfTask, dockerVars
<1>1. CASE Start
  BY <1>1, StartIs DEF Start, Entry
<1>2. CASE Fetch
  BY <1>2, FetchIs DEF Fetch, At
<1>3. CASE Select
  BY <1>3, GoIs, DieIs DEF Select, At
<1>4. CASE Prepare
  <2>1. run.commit \in Commits
    BY <1>4 DEF Prepare, At
  <2>2. QED
    BY <1>4, <2>1, PrepareIs DEF Prepare
<1>5. CASE Analyze
  BY <1>5, AnalyzeIs DEF Analyze, At
<1>6. CASE BuildBase
  BY <1>6, BuildBaseIs, GoIs, RetryIs DEF BuildBase, At
<1>7. CASE BuildFirst
  BY <1>7, BuildFirstIs, GoIs, RetryIs DEF BuildFirst, At
<1>8. CASE Keep
  <2>1. run.recipe \in Recipes /\ run' \in Run
    BY <1>8, GoIs DEF Keep, At
  <2>2. stored' \in [ Commits -> Recipes \cup {None} ]
    BY <1>8, <2>1 DEF Keep
  <2>3. QED
    BY <1>8, <2>1, <2>2 DEF Keep
<1>9. CASE Proxies
  BY <1>9, GoIs, DieIs DEF Proxies, At
<1>10. CASE Task
  BY <1>10, TaskIs, GoIs, SkipIs DEF Task, At
<1>11. CASE Origin
  <2>1. Writes("origin", "provenance")
    BY <1>11 DEF Origin
  <2>2. run' \in Run /\ folder' \in [ Steps -> Entry ]
    BY <2>1, GoIs, WritesIs DEF Writes
  <2>3. QED
    BY <2>1, <2>2 DEF Writes
<1>12. CASE Provenance
  <2>1. Writes("provenance", "proxy")
    BY <1>12 DEF Provenance
  <2>2. run' \in Run /\ folder' \in [ Steps -> Entry ]
    BY <2>1, GoIs, WritesIs DEF Writes
  <2>3. QED
    BY <2>1, <2>2 DEF Writes
<1>13. CASE NameProxy
  BY <1>13, GoIs DEF NameProxy, At, Name, Named
<1>14. CASE StartProxy
  BY <1>14, GoIs, DieIs DEF StartProxy, At
<1>15. CASE NameRun
  BY <1>15, GoIs DEF NameRun, At, Name, Named
<1>16. CASE StartRun
  BY <1>16, GoIs, DieIs DEF StartRun, At
<1>17. CASE AgentEnds
  BY <1>17, GoIs DEF AgentEnds, At
<1>18. CASE Verify
  BY <1>18, GoIs, DieIs DEF Verify, At
<1>19. CASE Tested
  BY <1>19, GoIs DEF Tested, At
<1>20. CASE Finish
  BY <1>20, GoIs DEF Finish, At, Removes, Cleared
<1>21. CASE Result
  <2>1. run.task \in Steps
    BY <1>21 DEF Result, At
  <2>2. run' \in Run /\ folder' \in [ Steps -> Entry ]
    BY <1>21, <2>1, ResultIs, ResultFolder
  <2>3. QED
    BY <1>21, <2>2 DEF Result
<1>22. CASE Summary
  BY <1>22, SummaryIs DEF Summary, At
<1>23. CASE Exit
  BY <1>23, GoIs DEF Exit, At, Removes, Cleared
<1>24. CASE Exits
  BY <1>24 DEF Exits, At
<1>25. CASE Term
  BY <1>25, TermIs DEF Term, At
<1>26. CASE UNCHANGED vars
  BY <1>26 DEF vars, At
<1>27. QED
  BY <1>1, <1>2, <1>3, <1>4, <1>5, <1>6, <1>7, <1>8, <1>9, <1>10, <1>11, <1>12, <1>13, <1>14, <1>15, <1>16, <1>17, <1>18, <1>19, <1>20, <1>21, <1>22, <1>23, <1>24, <1>25, <1>26 DEF Next, Stage

LEMMA NextContainer ==
  ASSUME IInv, [Next]_vars
  PROVE  ContainerInv'
<1> USE DEF IInv, TypeInv, ContainerInv, RecipeInv, Places, Before, Fresh, Graded, OfTask, dockerVars
<1>1. CASE Start
  BY <1>1, StartIs DEF Start, At
<1>2. CASE Fetch
  BY <1>2, FetchIs DEF Fetch, At
<1>3. CASE Select
  BY <1>3, GoIs, DieIs DEF Select, At
<1>4. CASE Prepare
  <2>1. run.commit \in Commits /\ containers = {} /\ UNCHANGED dockerVars
    BY <1>4 DEF Prepare, At
  <2>2. run'.at \in { "base", "analyze" }
    BY <1>4, <2>1, PrepareIs
  <2>3. QED
    BY <2>1, <2>2 DEF At
<1>5. CASE Analyze
  BY <1>5, AnalyzeIs DEF Analyze, At
<1>6. CASE BuildBase
  BY <1>6, BuildBaseIs, GoIs, RetryIs DEF BuildBase, At
<1>7. CASE BuildFirst
  BY <1>7, BuildFirstIs, GoIs, RetryIs DEF BuildFirst, At
<1>8. CASE Keep
  BY <1>8, GoIs DEF Keep, At
<1>9. CASE Proxies
  BY <1>9, GoIs, DieIs DEF Proxies, At
<1>10. CASE Task
  BY <1>10, TaskIs, GoIs, SkipIs DEF Task, At
<1>11. CASE Origin
  BY <1>11, GoIs DEF Origin, At, Writes
<1>12. CASE Provenance
  BY <1>12, GoIs DEF Provenance, At, Writes
<1>13. CASE NameProxy
  BY <1>13, GoIs DEF NameProxy, At, Name, Named
<1>14. CASE StartProxy
  <2>1. CASE containers' = containers \cup { "proxy" } /\ Go("agent")
    BY <1>14, <2>1, GoIs DEF StartProxy, At
  <2>2. CASE containers' = containers \cup { "proxy" } /\ Die
    BY <1>14, <2>2, DieIs DEF StartProxy, At
  <2>3. CASE UNCHANGED containers /\ Die
    BY <1>14, <2>3, DieIs DEF StartProxy, At
  <2>4. QED
    BY <1>14, <2>1, <2>2, <2>3 DEF StartProxy
<1>15. CASE NameRun
  BY <1>15, GoIs DEF NameRun, At, Name, Named
<1>16. CASE StartRun
  <2>1. CASE containers' = containers \cup { "harness" } /\ alive' = TRUE /\ Go("working")
    BY <1>16, <2>1, GoIs DEF StartRun, At
  <2>2. CASE UNCHANGED << containers, alive >> /\ Die
    BY <1>16, <2>2, DieIs DEF StartRun, At
  <2>3. QED
    BY <1>16, <2>1, <2>2 DEF StartRun
<1>17. CASE AgentEnds
  <2>1. At("working") /\ run'.at = "verify" /\ UNCHANGED << cur, containers >>
    BY <1>17, GoIs DEF AgentEnds
  <2>2. alive' => alive
    BY <1>17 DEF AgentEnds
  <2>3. QED
    BY <2>1, <2>2 DEF At
<1>18. CASE Verify
  BY <1>18, GoIs, DieIs DEF Verify, At
<1>19. CASE Tested
  BY <1>19, GoIs DEF Tested, At
<1>20. CASE Finish
  BY <1>20, GoIs DEF Finish, At, Removes, Cleared
<1>21. CASE Result
  BY <1>21, ResultIs DEF Result, At
<1>22. CASE Summary
  BY <1>22, SummaryIs DEF Summary, At
<1>23. CASE Exit
  BY <1>23, GoIs DEF Exit, At, Removes, Cleared
<1>24. CASE Exits
  BY <1>24 DEF Exits, At
<1>25. CASE Term
  BY <1>25, TermIs DEF Term, At
<1>26. CASE UNCHANGED vars
  BY <1>26 DEF vars, At
<1>27. QED
  BY <1>1, <1>2, <1>3, <1>4, <1>5, <1>6, <1>7, <1>8, <1>9, <1>10, <1>11, <1>12, <1>13, <1>14, <1>15, <1>16, <1>17, <1>18, <1>19, <1>20, <1>21, <1>22, <1>23, <1>24, <1>25, <1>26 DEF Next, Stage

LEMMA NextRecipe ==
  ASSUME IInv, [Next]_vars
  PROVE  RecipeInv'
<1> USE DEF IInv, TypeInv, RecipeInv, TaskInv, InHand, Places, Before, Fresh, Graded, OfTask, dockerVars
<1>1. CASE Start
  BY <1>1, StartIs DEF Start, At
<1>2. CASE Fetch
  BY <1>2, FetchIs DEF Fetch, At
<1>3. CASE Select
  BY <1>3, GoIs, DieIs DEF Select, At
<1>4. CASE Prepare
  BY <1>4, PrepareIs DEF Prepare, At
<1>5. CASE Analyze
  BY <1>5, AnalyzeIs DEF Analyze, At
<1>6. CASE BuildBase
  <2>1. run.commit \in Commits /\ run.recipe \in Recipes
    BY <1>6 DEF BuildBase, At
  <2>2. CASE Retry
    BY <1>6, <2>1, <2>2, BuildBaseIs, RetryIs DEF At
  <2>3. CASE Go("first") /\ (run.force => image'["base"] = InHand)
    <3>1. /\ run'.at = "first"
          /\ UNCHANGED << run.commit, run.recipe, run.force >>
      BY <2>3, GoIs
    <3>2. run'.force => image'["base"] = InHand'
      BY <2>3, <3>1
    <3>3. QED
      BY <1>6, <2>1, <3>1, <3>2, BuildBaseIs DEF At
  <2>4. QED
    BY <1>6, <2>2, <2>3, BuildBaseIs
<1>7. CASE BuildFirst
  BY <1>7, BuildFirstIs, GoIs, RetryIs DEF BuildFirst, At
<1>8. CASE Keep
  BY <1>8, GoIs DEF Keep, At
<1>9. CASE Proxies
  BY <1>9, GoIs, DieIs DEF Proxies, At
<1>10. CASE Task
  <2>1. run.commit \in Commits /\ run.recipe \in Recipes /\ run.task \in Steps
    BY <1>10 DEF Task, At
  <2>2. CASE Skip
    BY <1>10, <2>1, <2>2, TaskIs, SkipIs DEF At
  <2>3. CASE Go("origin")
    BY <1>10, <2>1, <2>3, TaskIs, GoIs DEF At
  <2>4. QED
    BY <1>10, <2>2, <2>3, TaskIs
<1>11. CASE Origin
  BY <1>11, GoIs DEF Origin, At, Writes
<1>12. CASE Provenance
  BY <1>12, GoIs DEF Provenance, At, Writes
<1>13. CASE NameProxy
  BY <1>13, GoIs DEF NameProxy, At, Name, Named
<1>14. CASE StartProxy
  BY <1>14, GoIs, DieIs DEF StartProxy, At
<1>15. CASE NameRun
  BY <1>15, GoIs DEF NameRun, At, Name, Named
<1>16. CASE StartRun
  BY <1>16, GoIs, DieIs DEF StartRun, At
<1>17. CASE AgentEnds
  BY <1>17, GoIs DEF AgentEnds, At
<1>18. CASE Verify
  BY <1>18, GoIs, DieIs DEF Verify, At
<1>19. CASE Tested
  BY <1>19, GoIs DEF Tested, At
<1>20. CASE Finish
  BY <1>20, GoIs DEF Finish, At, Removes, Cleared
<1>21. CASE Result
  BY <1>21, ResultIs DEF Result, At
<1>22. CASE Summary
  BY <1>22, SummaryIs DEF Summary, At
<1>23. CASE Exit
  BY <1>23, GoIs DEF Exit, At, Removes, Cleared
<1>24. CASE Exits
  BY <1>24 DEF Exits, At
<1>25. CASE Term
  BY <1>25, TermIs DEF Term, At
<1>26. CASE UNCHANGED vars
  BY <1>26 DEF vars, At
<1>27. QED
  BY <1>1, <1>2, <1>3, <1>4, <1>5, <1>6, <1>7, <1>8, <1>9, <1>10, <1>11, <1>12, <1>13, <1>14, <1>15, <1>16, <1>17, <1>18, <1>19, <1>20, <1>21, <1>22, <1>23, <1>24, <1>25, <1>26 DEF Next, Stage

LEMMA NextTask ==
  ASSUME IInv, [Next]_vars
  PROVE  TaskInv'
<1> USE DEF IInv, TypeInv, RecipeInv, TaskInv, Places, Before, Fresh, Graded, OfTask, dockerVars
<1>1. CASE Start
  BY <1>1, StartIs DEF Start, At
<1>2. CASE Fetch
  <2>1. At("fetch") /\ UNCHANGED << folder, image >>
    BY <1>2 DEF Fetch
  <2>2. QED
    BY <2>1, <1>2, FetchIs DEF At
<1>3. CASE Select
  BY <1>3, GoIs, DieIs DEF Select, At
<1>4. CASE Prepare
  BY <1>4, PrepareIs DEF Prepare, At
<1>5. CASE Analyze
  <2>1. At("analyze") /\ UNCHANGED << folder, image >>
    BY <1>5 DEF Analyze
  <2>2. QED
    BY <2>1, <1>5, AnalyzeIs DEF At
<1>6. CASE BuildBase
  BY <1>6, BuildBaseIs, GoIs, RetryIs DEF BuildBase, At
<1>7. CASE BuildFirst
  BY <1>7, BuildFirstIs, GoIs, RetryIs DEF BuildFirst, At
<1>8. CASE Keep
  BY <1>8, GoIs DEF Keep, At
<1>9. CASE Proxies
  <2>1. At("proxies") /\ UNCHANGED << folder, image >>
    BY <1>9 DEF Proxies
  <2>2. CASE Go("task")
    <3>1. run'.at = "task" /\ run'.task = 1
      BY <2>1, <2>2, GoIs DEF At
    <3>2. \A i \in Steps : ~(i < run'.task)
      BY <3>1, TaskListIsSequence
    <3>3. QED
      BY <3>1, <3>2 DEF At
  <2>3. CASE Die
    BY <2>1, <2>3, DieIs DEF At
  <2>4. QED
    BY <1>9, <2>2, <2>3 DEF Proxies
<1>10. CASE Task
  <2>1. At("task") /\ run.task \in Steps /\ UNCHANGED folder
    BY <1>10 DEF Task
  <2>2. CASE Skip
    BY <2>1, <2>2, SkipIs DEF At
  <2>3. CASE /\ Go("origin")
             /\ image'[TaskList[run.task]].commit = run.commit
             /\ image'[TaskList[run.task]].recipe = run.recipe
    BY <2>1, <2>3, GoIs DEF At
  <2>4. QED
    BY <1>10, <2>2, <2>3, TaskIs
<1>11. CASE Origin
  <2>1. At("origin") /\ Writes("origin", "provenance") /\ UNCHANGED image
    BY <1>11 DEF Origin, Writes
  <2>2. /\ run'.at = "provenance"
        /\ UNCHANGED << run.commit, run.recipe, run.task, run.failed >>
    BY <2>1, GoIs DEF Writes
  <2>3. \A i \in Steps : i # run.task => folder'[i] = folder[i]
    BY <2>1, WritesIs
  <2>4. QED
    BY <2>1, <2>2, <2>3, TaskListIsSequence DEF At
<1>12. CASE Provenance
  <2>1. At("provenance") /\ Writes("provenance", "proxy") /\ UNCHANGED image
    BY <1>12 DEF Provenance, Writes
  <2>2. /\ run'.at = "proxy"
        /\ UNCHANGED << run.commit, run.recipe, run.task, run.failed >>
    BY <2>1, GoIs DEF Writes
  <2>3. /\ \A i \in Steps : i # run.task => folder'[i] = folder[i]
        /\ folder'[run.task] = [ stage |-> "provenance", recipe |-> run.recipe ]
    BY <2>1, WritesIs DEF At
  <2>4. QED
    BY <2>1, <2>2, <2>3, TaskListIsSequence DEF At
<1>13. CASE NameProxy
  BY <1>13, GoIs DEF NameProxy, At, Name, Named
<1>14. CASE StartProxy
  BY <1>14, GoIs, DieIs DEF StartProxy, At
<1>15. CASE NameRun
  BY <1>15, GoIs DEF NameRun, At, Name, Named
<1>16. CASE StartRun
  BY <1>16, GoIs, DieIs DEF StartRun, At
<1>17. CASE AgentEnds
  BY <1>17, GoIs DEF AgentEnds, At
<1>18. CASE Verify
  BY <1>18, GoIs, DieIs DEF Verify, At
<1>19. CASE Tested
  BY <1>19, GoIs DEF Tested, At
<1>20. CASE Finish
  BY <1>20, GoIs DEF Finish, At, Removes, Cleared
<1>21. CASE Result
  <2>1. At("result") /\ run.task \in Steps /\ UNCHANGED image
    BY <1>21 DEF Result, At
  <2>2. run'.at = "task" /\ run'.task = run.task + 1 /\ run'.failed = run.failed
    BY <1>21, <2>1, ResultIs
  <2>3. /\ \A i \in Steps : i # run.task => folder'[i] = folder[i]
        /\ folder'[run.task].stage = "result"
    BY <1>21, <2>1, ResultFolder
  <2>4. ~run'.failed => \A i \in Steps : i < run'.task => folder'[i].stage = "result"
    BY <2>1, <2>2, <2>3, TaskListIsSequence DEF At
  <2>5. QED
    BY <2>2, <2>4 DEF At
<1>22. CASE Summary
  <2>1. At("task") /\ run.task \notin Steps /\ UNCHANGED folder
    BY <1>22 DEF Summary
  <2>2. \A i \in Steps : i < run.task
    BY <2>1, TaskListIsSequence DEF Run
  <2>3. run'.at = "exit" /\ (run'.code = 0 => ~run.failed)
    BY <1>22, SummaryIs
  <2>4. QED
    BY <2>1, <2>2, <2>3 DEF At
<1>23. CASE Exit
  BY <1>23, GoIs DEF Exit, At, Removes, Cleared
<1>24. CASE Exits
  BY <1>24 DEF Exits, At
<1>25. CASE Term
  BY <1>25, TermIs DEF Term, At
<1>26. CASE UNCHANGED vars
  BY <1>26 DEF vars, At
<1>27. QED
  BY <1>1, <1>2, <1>3, <1>4, <1>5, <1>6, <1>7, <1>8, <1>9, <1>10, <1>11, <1>12, <1>13, <1>14, <1>15, <1>16, <1>17, <1>18, <1>19, <1>20, <1>21, <1>22, <1>23, <1>24, <1>25, <1>26 DEF Next, Stage

LEMMA InitInvariant == Init => IInv
<1> SUFFICES ASSUME Init PROVE IInv
  OBVIOUS
<1> USE DEF Init, Idle
<1>1. TypeInv
  <2>1. run \in Run
    BY TaskListIsSequence DEF Run, Places
  <2>2. image \in [ Tags -> Image ]
    BY DEF Image, NoImage
  <2>3. folder \in [ Steps -> Entry ]
    BY DEF Entry
  <2>4. QED
    BY <2>1, <2>2, <2>3 DEF TypeInv
<1>2. ContainerInv
  BY DEF ContainerInv, At
<1>3. RecipeInv
  BY DEF RecipeInv, At, OfTask, Fresh, Graded, NoImage
<1>4. TaskInv
  BY DEF TaskInv, Before, OfTask, Fresh, Graded
<1>5. QED
  BY <1>1, <1>2, <1>3, <1>4 DEF IInv

LEMMA NextInvariant == IInv /\ [Next]_vars => IInv'
BY NextType, NextContainer, NextRecipe, NextTask DEF IInv

-----------------------------------------------------------------------------

(* The inductive invariant holds of every behaviour.                       *)
THEOREM PipelineInvariant == Spec => []IInv
BY InitInvariant, NextInvariant, PTL DEF Spec

(* What passed its check carries a recipe, an invocation has at most three *)
(* attempts at one, and the traps know every container there is.           *)
THEOREM TypesHold == Spec => []TypeOK
<1>1. IInv => TypeOK
  BY DEF IInv, TypeInv, ContainerInv, RecipeInv, Run, TypeOK
<1>2. QED
  BY <1>1, PipelineInvariant, PTL

(* A harness runs in the image of the commit and recipe in its run.json,   *)
(* however many invocations have moved the tags (build_overlay).           *)
THEOREM RecordHolds == Spec => []RunsWhatItRecords
<1>1. IInv => RunsWhatItRecords
  BY DEF IInv, TaskInv, Fresh, At, RunsWhatItRecords
<1>2. QED
  BY <1>1, PipelineInvariant, PTL

(* An invocation that is over has no container (finish_containers and the  *)
(* EXIT trap), wherever it died and whenever the SIGTERM came.             *)
THEOREM RemovalHolds == Spec => []NothingLeftRunning
<1>1. IInv => NothingLeftRunning
  BY DEF IInv, ContainerInv, At, NothingLeftRunning
<1>2. QED
  BY <1>1, PipelineInvariant, PTL

(* Exit status 0 means that every task of the invocation has its result.   *)
THEOREM StatusHolds == Spec => []ZeroMeansAll
<1>1. IInv => ZeroMeansAll
  BY DEF IInv, TaskInv, At, ZeroMeansAll
<1>2. QED
  BY <1>1, PipelineInvariant, PTL

(* prepare_recipe keeps only what was built and checked on the base and on *)
(* the first task, in this invocation.                                     *)
THEOREM StoredHolds == Spec => StoredRecipesPassed
<1>1. ASSUME IInv, [Next]_vars
      PROVE  [ \A c \in Commits : stored'[c] # stored[c] =>
                 \A t \in { "base", TaskList[1] } :
                   image[t] = [ commit |-> c, recipe |-> stored'[c], passed |-> TRUE ] ]_vars
  <2>1. CASE Keep
    <3>1. run.force => image["base"] = InHand /\ image[TaskList[1]] = InHand
      BY <1>1, <2>1 DEF IInv, RecipeInv, Keep, At
    <3>2. stored \in [ Commits -> Recipes \cup {None} ]
      BY <1>1 DEF IInv, TypeInv
    <3>3. ASSUME NEW c \in Commits, stored'[c] # stored[c]
          PROVE  run.force /\ c = run.commit /\ stored'[c] = run.recipe
      BY <2>1, <3>2, <3>3 DEF Keep
    <3>4. QED
      BY <3>1, <3>3 DEF InHand
  <2>2. CASE stored' = stored
    BY <2>2
  <2>3. QED
    BY <1>1, <2>1, <2>2 DEF Next, Stage, vars, Start, Fetch, Select, Prepare, Analyze, BuildBase, BuildFirst,
       Proxies, Task, Origin, Provenance, Writes, NameProxy, NameRun, Name, StartProxy, StartRun, AgentEnds,
       Verify, Tested, Finish, Result, Summary, Exit, Exits, Term
<1>2. QED
  BY <1>1, PipelineInvariant, PTL DEF Spec, StoredRecipesPassed

(* run.json is written only while the task has no container: the result    *)
(* half counts the calls of a proxy that is gone.                          *)
THEOREM ResultHolds == Spec => ResultAfterRemoval
<1>1. ASSUME IInv, [Next]_vars
      PROVE  [ folder' # folder /\ ~At("over") => containers = {} ]_vars
  <2>1. CASE Origin \/ Provenance \/ Result
    BY <1>1, <2>1 DEF IInv, ContainerInv, At, Origin, Provenance, Result
  <2>2. CASE Start
    BY <2>2 DEF Start
  <2>3. CASE folder' = folder
    BY <2>3
  <2>4. QED
    BY <1>1, <2>1, <2>2, <2>3 DEF Next, Stage, vars, Fetch, Select, Prepare, Analyze, BuildBase, BuildFirst, Keep,
       Proxies, Task, NameProxy, NameRun, Name, StartProxy, StartRun, AgentEnds,
       Verify, Tested, Finish, Summary, Exit, Exits, Term
<1>2. QED
  BY <1>1, PipelineInvariant, PTL DEF Spec, ResultAfterRemoval

(* An invocation is safe in every state and in every step (run.sh).        *)
THEOREM PipelineSafetyHolds == Spec => []PipelineSafety
BY TypesHold, RecordHolds, RemovalHolds, StatusHolds, PTL DEF PipelineSafety

(* What it stores was checked, and a result follows the removal of the     *)
(* containers that made it (recipe.sh, execute.sh).                        *)
THEOREM PipelineStepsHold == Spec => PipelineSteps
BY StoredHolds, ResultHolds DEF PipelineSteps

-----------------------------------------------------------------------------
(* RecipeAgent.                                                            *)

TargetSet == { Targets[i] : i \in DOMAIN Targets }
Filed   == [ build : Nat, target : { "base", "task" }, calls : BOOLEAN, ran : (Sessions \cup { "none" }) \X Nat ]
Session == [ at : { "loop", "model", "tools", "done", "over" }, turn : 0 .. MaxTurns, nudges : 0 .. MaxNudges,
             fallback : BOOLEAN, uses : Nat, cut : BOOLEAN, builds : Seq(SUBSET { "base", "task" }),
             trials : Seq(Filed), folders : Nat, result : Nat, code : { 0, 1, 3, 99 }, verdict : BOOLEAN ]

AgentTypes ==
  /\ session \in [ Sessions -> Session ]
  /\ tag \in [ { "base", "task" } -> (Sessions \cup { "none" }) \X Nat ]

(* What a session's place says of the reply in hand and of its result.     *)
Placed(r) ==
  /\ r.at \in { "loop", "model" } => r.uses = 0 /\ r.result = 0
  /\ r.at = "tools" => r.uses > 0 /\ r.result = 0
  /\ r.at = "done" => r.result # 0
  /\ r.at = "over" <=> r.code # 99
  /\ r.code = 0 => r.verdict /\ r.result # 0

(* A trial is filed under a build that has its target; what was submitted  *)
(* is a build that passed on every target and that a trial proved.         *)
ProvenIn(r, n) ==
  /\ \A i \in DOMAIN Targets : Targets[i] \in r.builds[n]
  /\ \E i \in DOMAIN r.trials : r.trials[i].build = n /\ r.trials[i].target = Required /\ r.trials[i].calls

Files(r) ==
  /\ \A n \in DOMAIN r.builds : r.builds[n] \subseteq TargetSet
  /\ \A i \in DOMAIN r.trials : r.trials[i].build \in DOMAIN r.builds /\ r.trials[i].target \in r.builds[r.trials[i].build]
  /\ r.result # 0 => r.result \in DOMAIN r.builds /\ ProvenIn(r, r.result)

(* The tags of the targets of the latest build are that build's, and so    *)
(* were those of every trial.                                              *)
TagsOf(x, r, tags) ==
  /\ Len(r.builds) > 0 => \A t \in r.builds[Len(r.builds)] : tags[t] = << x, Len(r.builds) >>
  /\ \A i \in DOMAIN r.trials : r.trials[i].ran = << x, r.trials[i].build >>

AgentInvariant ==
  /\ AgentTypes
  /\ \A x \in Sessions : Placed(session[x]) /\ Files(session[x])

OneSession == \A x, y \in Sessions : x = y
TagInv == \A x \in Sessions : TagsOf(x, session[x], tag)

-----------------------------------------------------------------------------
(* A session changes: the others do not.                                   *)
LEMMA SetKeeps ==
  ASSUME AgentInvariant, NEW x \in Sessions, NEW r \in Session, Set(x, r), Placed(r), Files(r),
         tag' \in [ { "base", "task" } -> (Sessions \cup { "none" }) \X Nat ]
  PROVE  AgentInvariant' /\ session'[x] = r
BY DEF AgentInvariant, AgentTypes, Set

LEMMA SetKeepsTags ==
  ASSUME AgentInvariant, OneSession, NEW x \in Sessions, NEW r \in Session, Set(x, r), TagsOf(x, r, tag')
  PROVE  TagInv'
BY DEF AgentInvariant, AgentTypes, Set, OneSession, TagInv

(* What does not touch the builds, the trials and the result.              *)
LEMMA SameFiles ==
  ASSUME NEW r \in Session, NEW q \in Session, NEW x, r.builds = q.builds, r.trials = q.trials,
         r.result = q.result, Files(q)
  PROVE  Files(r) /\ (tag' = tag /\ TagsOf(x, q, tag) => TagsOf(x, r, tag'))
BY DEF Files, ProvenIn, TagsOf

(* An answered call: one use less, and the place that follows from it.     *)
LEMMA AnsweredIs ==
  ASSUME NEW x \in Sessions, NEW r \in Session, r.at = "tools", r.uses > 0, r.code = 99, Answered(x, r)
  PROVE  \E q \in Session :
           /\ Set(x, q) /\ q.uses = r.uses - 1 /\ q.builds = r.builds /\ q.trials = r.trials /\ q.result = r.result
           /\ q.code = 99 /\ Placed(q)
<1> DEFINE q == [ r EXCEPT !.uses = @ - 1, !.at = IF r.result # 0 THEN "done" ELSE IF r.uses = 1 THEN "loop" ELSE "tools" ]
<1>1. Set(x, q)
  BY DEF Answered
<1>2. r.uses - 1 \in Nat /\ r.uses \in Nat
  BY DEF Session
<1>3. q \in Session /\ q.uses = r.uses - 1 /\ q.builds = r.builds /\ q.trials = r.trials /\ q.result = r.result /\ q.code = 99
      /\ q.at = IF r.result # 0 THEN "done" ELSE IF r.uses = 1 THEN "loop" ELSE "tools"
  BY <1>2 DEF Session
<1> HIDE DEF q
<1>4. Placed(q)
  BY <1>2, <1>3 DEF Placed
<1>5. QED
  BY <1>1, <1>3, <1>4

LEMMA StoppedIs ==
  ASSUME AgentInvariant, NEW x \in Sessions, NEW code \in { 0, 1, 3 }, Set(x, Stopped(x, code)), tag' = tag,
         code = 0 => session[x].result # 0
  PROVE  AgentInvariant' /\ (OneSession /\ TagInv => TagInv')
<1> DEFINE r == Stopped(x, code)
<1>1. session[x] \in Session /\ Placed(session[x]) /\ Files(session[x])
  BY DEF AgentInvariant, AgentTypes
<1>2. /\ r \in Session /\ r.at = "over" /\ r.code = code /\ r.verdict
      /\ r.builds = session[x].builds /\ r.trials = session[x].trials /\ r.result = session[x].result
  BY <1>1 DEF Stopped, Session
<1> HIDE DEF r
<1>3. Placed(r)
  BY <1>2 DEF Placed
<1>4. Files(r) /\ (TagsOf(x, session[x], tag) => TagsOf(x, r, tag'))
  BY <1>1, <1>2, SameFiles
<1>5. Set(x, r)
  BY DEF r
<1>6. AgentInvariant'
  BY <1>2, <1>3, <1>4, <1>5, SetKeeps DEF AgentInvariant, AgentTypes
<1>7. OneSession /\ TagInv => TagInv'
  BY <1>2, <1>4, <1>5, SetKeepsTags DEF TagInv
<1>8. QED
  BY <1>6, <1>7

(* The steps of the loop: the files stay as they are.                      *)
LEMMA LoopKeeps ==
  ASSUME AgentInvariant, NEW x \in Sessions, Turn(x) \/ Fails(x) \/ Refuses(x) \/ Idles(x) \/ Acts(x) \/ GiveUp(x) \/ Done(x)
  PROVE  AgentInvariant' /\ (OneSession /\ TagInv => TagInv')
<1>1. session[x] \in Session /\ Placed(session[x]) /\ Files(session[x]) /\ tag' = tag
  BY DEF AgentInvariant, AgentTypes, Turn, Fails, Refuses, Idles, Acts, GiveUp, Done
<1>2. CASE \E code \in { 1, 3 } : Set(x, Stopped(x, code))
  BY <1>1, <1>2, StoppedIs
<1>3. CASE SessionAt(x, "done") /\ Set(x, Stopped(x, 0))
  <2>1. session[x].result # 0
    BY <1>1, <1>3 DEF Placed, SessionAt
  <2>2. QED
    BY <1>1, <1>3, <2>1, StoppedIs
<1>4. ASSUME NEW r \in Session, Set(x, r), Placed(r), r.builds = session[x].builds, r.trials = session[x].trials,
             r.result = session[x].result
      PROVE  AgentInvariant' /\ (OneSession /\ TagInv => TagInv')
  <2>1. Files(r) /\ (TagsOf(x, session[x], tag) => TagsOf(x, r, tag'))
    BY <1>1, <1>4, SameFiles
  <2>2. AgentInvariant'
    BY <1>1, <1>4, <2>1, SetKeeps DEF AgentInvariant, AgentTypes
  <2>3. OneSession /\ TagInv => TagInv'
    BY <1>4, <2>1, SetKeepsTags DEF TagInv
  <2>4. QED
    BY <2>2, <2>3
<1>5. CASE Turn(x)
  <2>1. CASE session[x].turn < MaxTurns /\ SessionAt(x, "loop") /\ Set(x, [ session[x] EXCEPT !.at = "model", !.turn = Counted(x) ])
    <3> DEFINE r == [ session[x] EXCEPT !.at = "model", !.turn = Counted(x) ]
    <3>1. Counted(x) \in 0 .. MaxTurns
      BY <1>1, <2>1, RecipeAgentAssumption DEF Counted, Session
    <3>2. /\ r \in Session /\ r.at = "model" /\ r.uses = session[x].uses /\ r.code = session[x].code /\ r.result = session[x].result
          /\ r.builds = session[x].builds /\ r.trials = session[x].trials /\ r.verdict = session[x].verdict
      BY <1>1, <3>1 DEF Session
    <3>3. Set(x, r)
      BY <2>1
    <3> HIDE DEF r
    <3>4. Placed(r)
      BY <1>1, <2>1, <3>2 DEF Placed, SessionAt
    <3>5. QED
      BY <1>4, <3>2, <3>3, <3>4
  <2>2. QED
    BY <1>2, <1>5, <2>1 DEF Turn
<1>6. CASE Refuses(x)
  <2>1. CASE SessionAt(x, "model") /\ Set(x, [ session[x] EXCEPT !.at = "loop", !.fallback = TRUE ])
    <3> DEFINE r == [ session[x] EXCEPT !.at = "loop", !.fallback = TRUE ]
    <3>2. /\ r \in Session /\ r.at = "loop" /\ r.uses = session[x].uses /\ r.code = session[x].code /\ r.result = session[x].result
          /\ r.builds = session[x].builds /\ r.trials = session[x].trials /\ r.verdict = session[x].verdict
      BY <1>1 DEF Session
    <3>3. Set(x, r)
      BY <2>1
    <3> HIDE DEF r
    <3>4. Placed(r)
      BY <1>1, <2>1, <3>2 DEF Placed, SessionAt
    <3>5. QED
      BY <1>4, <3>2, <3>3, <3>4
  <2>2. QED
    BY <1>2, <1>6, <2>1 DEF Refuses
<1>7. CASE Idles(x)
  <2>1. CASE session[x].nudges # MaxNudges /\ SessionAt(x, "model") /\ Set(x, [ session[x] EXCEPT !.at = "loop", !.nudges = @ + 1 ])
    <3> DEFINE r == [ session[x] EXCEPT !.at = "loop", !.nudges = @ + 1 ]
    <3>1. session[x].nudges + 1 \in 0 .. MaxNudges
      BY <1>1, <2>1, RecipeAgentAssumption DEF Session
    <3>2. /\ r \in Session /\ r.at = "loop" /\ r.uses = session[x].uses /\ r.code = session[x].code /\ r.result = session[x].result
          /\ r.builds = session[x].builds /\ r.trials = session[x].trials /\ r.verdict = session[x].verdict
      BY <1>1, <3>1 DEF Session
    <3>3. Set(x, r)
      BY <2>1
    <3> HIDE DEF r
    <3>4. Placed(r)
      BY <1>1, <2>1, <3>2 DEF Placed, SessionAt
    <3>5. QED
      BY <1>4, <3>2, <3>3, <3>4
  <2>2. QED
    BY <1>2, <1>7, <2>1 DEF Idles
<1>8. CASE Acts(x)
  <2>1. PICK n \in 1 .. MaxUses, cut \in BOOLEAN : Set(x, [ session[x] EXCEPT !.at = "tools", !.uses = n, !.cut = cut ])
    BY <1>8 DEF Acts
  <2> DEFINE r == [ session[x] EXCEPT !.at = "tools", !.uses = n, !.cut = cut ]
  <2>2. n \in Nat /\ n > 0
    BY RecipeAgentAssumption
  <2>3. /\ r \in Session /\ r.at = "tools" /\ r.uses = n /\ r.code = session[x].code /\ r.result = session[x].result
        /\ r.builds = session[x].builds /\ r.trials = session[x].trials /\ r.verdict = session[x].verdict
    BY <1>1, <2>2 DEF Session
  <2>4. Set(x, r)
    BY <2>1
  <2> HIDE DEF r
  <2>5. Placed(r)
    BY <1>1, <1>8, <2>2, <2>3 DEF Placed, SessionAt, Acts
  <2>6. QED
    BY <1>4, <2>3, <2>4, <2>5
<1>9. QED
  BY <1>2, <1>3, <1>5, <1>6, <1>7, <1>8 DEF Fails, GiveUp, Done

(* The tools: what the answer is made of.                                  *)
LEMMA AnswerKeeps ==
  ASSUME AgentInvariant, NEW x \in Sessions, NEW r \in Session, Answered(x, r),
         r.at = "tools", r.uses > 0, r.code = 99, Files(r),
         tag' \in [ { "base", "task" } -> (Sessions \cup { "none" }) \X Nat ]
  PROVE  AgentInvariant' /\ (OneSession /\ TagsOf(x, r, tag') => TagInv')
<1>1. PICK q \in Session :
           /\ Set(x, q) /\ q.uses = r.uses - 1 /\ q.builds = r.builds /\ q.trials = r.trials /\ q.result = r.result
           /\ q.code = 99 /\ Placed(q)
  BY AnsweredIs
<1>2. Files(q) /\ (TagsOf(x, r, tag') => TagsOf(x, q, tag'))
  BY <1>1 DEF Files, ProvenIn, TagsOf
<1>3. QED
  BY <1>1, <1>2, SetKeeps, SetKeepsTags

LEMMA ToolIs ==
  ASSUME AgentInvariant, NEW x \in Sessions, SessionAt(x, "tools")
  PROVE  /\ session[x] \in Session /\ session[x].at = "tools" /\ session[x].uses > 0 /\ session[x].code = 99
         /\ session[x].result = 0 /\ Files(session[x])
BY DEF AgentInvariant, AgentTypes, Placed, SessionAt

(* What the tools edit of a session's record.                              *)
LEMMA EditsOver ==
  ASSUME NEW s \in Session, NEW r, r = [ s EXCEPT !.at = "over", !.code = 1 ]
  PROVE  r \in Session /\ r.at = "over" /\ r.code = 1 /\ r.result = s.result /\ r.builds = s.builds /\ r.trials = s.trials
BY DEF Session

LEMMA EditsFolders ==
  ASSUME NEW s \in Session, NEW r, r = [ s EXCEPT !.folders = @ + 1 ]
  PROVE  /\ r \in Session /\ r.at = s.at /\ r.uses = s.uses /\ r.code = s.code /\ r.result = s.result
         /\ r.builds = s.builds /\ r.trials = s.trials
<1>1. s.folders + 1 \in Nat
  BY DEF Session
<1>2. QED
  BY <1>1 DEF Session

LEMMA EditsResult ==
  ASSUME NEW s \in Session, NEW n \in Nat, NEW r, r = [ s EXCEPT !.result = n ]
  PROVE  /\ r \in Session /\ r.at = s.at /\ r.uses = s.uses /\ r.code = s.code /\ r.result = n
         /\ r.builds = s.builds /\ r.trials = s.trials
BY DEF Session

LEMMA ReadsKeeps ==
  ASSUME AgentInvariant, NEW x \in Sessions, Reads(x)
  PROVE  AgentInvariant' /\ (OneSession /\ TagInv => TagInv')
<1>1. SessionAt(x, "tools") /\ Answered(x, session[x]) /\ tag' = tag
  BY DEF Reads
<1>2. QED
  BY <1>1, ToolIs, AnswerKeeps DEF AgentInvariant, AgentTypes, TagInv

LEMMA SubmitKeeps ==
  ASSUME AgentInvariant, NEW x \in Sessions, Submit(x)
  PROVE  AgentInvariant' /\ (OneSession /\ TagInv => TagInv')
<1>1. PICK n \in DOMAIN session[x].builds :
        Answered(x, IF Proven(x, n) THEN [ session[x] EXCEPT !.result = n ] ELSE session[x])
  BY DEF Submit
<1>2. SessionAt(x, "tools") /\ tag' = tag
  BY DEF Submit
<1>3. CASE ~Proven(x, n)
  BY <1>1, <1>2, <1>3, ToolIs, AnswerKeeps DEF AgentInvariant, AgentTypes, TagInv
<1>4. CASE Proven(x, n)
  <2> DEFINE r == [ session[x] EXCEPT !.result = n ]
  <2>1. session[x].builds \in Seq(SUBSET { "base", "task" }) /\ n \in Nat
    BY <1>2, ToolIs DEF Session
  <2>2. /\ r \in Session /\ r.at = "tools" /\ r.uses = session[x].uses /\ r.code = 99 /\ r.result = n
        /\ r.builds = session[x].builds /\ r.trials = session[x].trials
    BY <1>2, <2>1, ToolIs, EditsResult
  <2>3. Answered(x, r)
    BY <1>1, <1>4
  <2> HIDE DEF r
  <2>4. ProvenIn(r, n)
    BY <1>4, <2>2 DEF Proven, Proofs, ProvenIn
  <2>5. Files(r)
    BY <1>2, <2>2, <2>4, ToolIs DEF Files
  <2>6. TagsOf(x, session[x], tag) => TagsOf(x, r, tag')
    BY <1>2, <2>2 DEF TagsOf
  <2>7. QED
    BY <1>2, <2>2, <2>3, <2>5, <2>6, ToolIs, AnswerKeeps DEF AgentInvariant, AgentTypes, TagInv
<1>5. QED
  BY <1>3, <1>4

LEMMA TargetsAre ==
  /\ Targets \in Seq({ "base", "task" }) /\ TargetSet \subseteq { "base", "task" }
  /\ Len(Targets) \in Nat /\ DOMAIN Targets = 1 .. Len(Targets)
<1>1. CASE HasTask
  BY <1>1 DEF Targets, TargetSet
<1>2. CASE ~HasTask
  BY <1>2 DEF Targets, TargetSet
<1>3. QED
  BY <1>1, <1>2

LEMMA BuildKeeps ==
  ASSUME AgentInvariant, NEW x \in Sessions, Build(x)
  PROVE  AgentInvariant' /\ (OneSession /\ TagInv => TagInv')
<1> DEFINE S == session[x]
           here == << x, Len(S.builds) + 1 >>
<1>0. SessionAt(x, "tools") /\ S \in Session /\ Files(S) /\ S.at = "tools" /\ S.uses > 0 /\ S.code = 99 /\ S.result = 0
  BY ToolIs DEF Build
<1>1. PICK n \in 0 .. Len(Targets), moved \in BOOLEAN :
        /\ Answered(x, [ S EXCEPT !.builds = Append(@, { Targets[i] : i \in 1 .. n }) ])
        /\ tag' = [ t \in DOMAIN tag |->
             IF \E i \in DOMAIN Targets : i <= n + (IF moved THEN 1 ELSE 0) /\ Targets[i] = t THEN here ELSE tag[t] ]
  BY DEF Build, Here
<1> DEFINE passed == { Targets[i] : i \in 1 .. n }
           r == [ S EXCEPT !.builds = Append(@, passed) ]
<1>2. passed \subseteq TargetSet /\ passed \in SUBSET { "base", "task" } /\ \A t \in passed : \E i \in DOMAIN Targets : i <= n /\ Targets[i] = t
  BY TargetsAre DEF TargetSet
<1>3. S.builds \in Seq(SUBSET { "base", "task" }) /\ S.trials \in Seq(Filed)
  BY <1>0 DEF Session
<1> HIDE DEF passed
<1>4. /\ Append(S.builds, passed) \in Seq(SUBSET { "base", "task" }) /\ Len(Append(S.builds, passed)) = Len(S.builds) + 1
      /\ DOMAIN Append(S.builds, passed) = DOMAIN S.builds \cup { Len(S.builds) + 1 }
      /\ Append(S.builds, passed)[Len(S.builds) + 1] = passed
      /\ \A m \in DOMAIN S.builds : Append(S.builds, passed)[m] = S.builds[m]
  BY <1>2, <1>3
<1>5. /\ r \in Session /\ r.at = "tools" /\ r.uses = S.uses /\ r.code = 99 /\ r.result = 0
      /\ r.builds = Append(S.builds, passed) /\ r.trials = S.trials
  BY <1>0, <1>4 DEF Session
<1>6. Answered(x, r)
  BY <1>1 DEF passed
<1> HIDE DEF r
<1>7. Files(r)
  <2>1. \A m \in DOMAIN r.builds : r.builds[m] \subseteq TargetSet
    <3>1. \A m \in DOMAIN S.builds : S.builds[m] \subseteq TargetSet
      BY <1>0 DEF Files
    <3>2. \A m \in DOMAIN Append(S.builds, passed) : Append(S.builds, passed)[m] \subseteq TargetSet
      BY <1>2, <1>4, <3>1
    <3>3. r.builds = Append(S.builds, passed)
      BY <1>5
    <3> HIDE DEF S
    <3>4. QED
      BY <3>2, <3>3
  <2>2. \A i \in DOMAIN r.trials : r.trials[i].build \in DOMAIN r.builds /\ r.trials[i].target \in r.builds[r.trials[i].build]
    <3>1. SUFFICES ASSUME NEW i \in DOMAIN S.trials
                   PROVE  S.trials[i].build \in DOMAIN r.builds /\ S.trials[i].target \in r.builds[S.trials[i].build]
      BY <1>5
    <3>2. S.trials[i].build \in DOMAIN S.builds /\ S.trials[i].target \in S.builds[S.trials[i].build]
      BY <1>0 DEF Files
    <3>3. QED
      BY <1>4, <1>5, <3>2
  <2>3. QED
    BY <1>5, <2>1, <2>2 DEF Files
<1>8. /\ tag' \in [ { "base", "task" } -> (Sessions \cup { "none" }) \X Nat ]
      /\ \A t \in passed : tag'[t] = here
  <2>1. Len(S.builds) + 1 \in Nat /\ here \in (Sessions \cup { "none" }) \X Nat
    BY <1>3
  <2>2. tag \in [ { "base", "task" } -> (Sessions \cup { "none" }) \X Nat ]
    BY DEF AgentInvariant, AgentTypes
  <2> HIDE DEF here
  <2>3. tag' \in [ { "base", "task" } -> (Sessions \cup { "none" }) \X Nat ]
    BY <1>1, <2>1, <2>2
  <2>4. \A t \in passed : t \in DOMAIN tag /\ \E i \in DOMAIN Targets : i <= n + (IF moved THEN 1 ELSE 0) /\ Targets[i] = t
    BY <1>2, <2>2, TargetsAre
  <2>5. QED
    BY <1>1, <2>3, <2>4
<1>9. TagInv => TagsOf(x, r, tag')
  BY <1>4, <1>5, <1>8 DEF TagInv, TagsOf
<1>10. QED
  BY <1>0, <1>5, <1>6, <1>7, <1>8, <1>9, AnswerKeeps

LEMMA RunHarnessKeeps ==
  ASSUME AgentInvariant, NEW x \in Sessions, RunHarness(x)
  PROVE  AgentInvariant' /\ (OneSession /\ TagInv => TagInv')
<1> DEFINE S == session[x]
<1>0. /\ SessionAt(x, "tools") /\ S \in Session /\ Files(S) /\ S.at = "tools" /\ S.uses > 0 /\ S.code = 99 /\ S.result = 0
      /\ tag' = tag /\ tag \in [ { "base", "task" } -> (Sessions \cup { "none" }) \X Nat ]
  BY ToolIs DEF RunHarness, AgentInvariant, AgentTypes
<1>1. S.builds \in Seq(SUBSET { "base", "task" }) /\ S.trials \in Seq(Filed) /\ S.folders \in Nat
  BY <1>0 DEF Session
<1>2. CASE Set(x, [ S EXCEPT !.at = "over", !.code = 1 ])
  <2> DEFINE r == [ S EXCEPT !.at = "over", !.code = 1 ]
  <2>1. /\ r \in Session /\ r.at = "over" /\ r.code = 1 /\ r.result = 0 /\ r.builds = S.builds /\ r.trials = S.trials
    <3>1. S \in Session /\ S.result = 0
      BY <1>0
    <3> HIDE DEF S
    <3>2. QED
      BY <3>1, EditsOver
  <2>2. Set(x, r)
    BY <1>2
  <2> HIDE DEF r
  <2>3. Placed(r) /\ Files(r) /\ (TagsOf(x, S, tag) => TagsOf(x, r, tag'))
    BY <1>0, <2>1, SameFiles DEF Placed
  <2>4. QED
    BY <1>0, <2>1, <2>2, <2>3, SetKeeps, SetKeepsTags DEF TagInv
<1>3. CASE Answered(x, [ S EXCEPT !.folders = @ + 1 ])
  <2> DEFINE r == [ S EXCEPT !.folders = @ + 1 ]
  <2>1. /\ r \in Session /\ r.at = "tools" /\ r.uses = S.uses /\ r.code = 99 /\ r.result = 0 /\ r.builds = S.builds /\ r.trials = S.trials
    BY <1>0, EditsFolders
  <2>2. Answered(x, r)
    BY <1>3
  <2> HIDE DEF r
  <2>3. Files(r) /\ (TagsOf(x, S, tag) => TagsOf(x, r, tag'))
    BY <1>0, <2>1, SameFiles
  <2>4. QED
    BY <1>0, <2>1, <2>2, <2>3, AnswerKeeps DEF TagInv
<1>4. ASSUME NEW i \in DOMAIN Targets, NEW calls \in BOOLEAN, Runnable(x, Targets[i]),
             Answered(x, [ S EXCEPT !.trials = Append(@, Trial(x, Targets[i], calls)), !.folders = @ + 1 ])
      PROVE  AgentInvariant' /\ (OneSession /\ TagInv => TagInv')
  <2> DEFINE n == Len(S.builds)
             t == Trial(x, Targets[i], calls)
             r == [ S EXCEPT !.trials = Append(@, t), !.folders = @ + 1 ]
  <2>1. n \in Nat /\ n \in DOMAIN S.builds /\ n > 0 /\ Targets[i] \in S.builds[n] /\ Targets[i] \in { "base", "task" }
    BY <1>1, <1>4, TargetsAre DEF Runnable
  <2>2. t \in Filed /\ t.build = n /\ t.target = Targets[i] /\ t.ran = tag[Targets[i]]
    BY <1>0, <2>1 DEF Trial, Filed
  <2> HIDE DEF t
  <2>3. /\ Append(S.trials, t) \in Seq(Filed) /\ DOMAIN Append(S.trials, t) = DOMAIN S.trials \cup { Len(S.trials) + 1 }
        /\ Append(S.trials, t)[Len(S.trials) + 1] = t
        /\ \A k \in DOMAIN S.trials : Append(S.trials, t)[k] = S.trials[k]
    BY <1>1, <2>2
  <2>4. /\ r \in Session /\ r.at = "tools" /\ r.uses = S.uses /\ r.code = 99 /\ r.result = 0 /\ r.builds = S.builds
        /\ r.trials = Append(S.trials, t)
    <3>1. S \in Session /\ S.result = 0 /\ S.at = "tools" /\ S.code = 99 /\ Append(S.trials, t) \in Seq(Filed)
      BY <1>0, <2>3
    <3> DEFINE ts == Append(S.trials, t)
    <3>2. r = [ S EXCEPT !.trials = ts, !.folders = @ + 1 ] /\ ts \in Seq(Filed)
      BY <3>1
    <3> HIDE DEF S, ts, r
    <3>3. /\ r \in Session /\ r.at = S.at /\ r.uses = S.uses /\ r.code = S.code /\ r.result = S.result
          /\ r.builds = S.builds /\ r.trials = ts
      <4>1. S.folders + 1 \in Nat
        BY <3>1 DEF Session
      <4>2. QED
        BY <3>1, <3>2, <4>1 DEF Session
    <3>4. QED
      BY <3>1, <3>3 DEF ts
  <2>5. Answered(x, r)
    BY <1>4 DEF t
  <2> HIDE DEF r
  <2>6. Files(r)
    <3>1. \A k \in DOMAIN r.trials : r.trials[k].build \in DOMAIN r.builds /\ r.trials[k].target \in r.builds[r.trials[k].build]
      <4>1. SUFFICES ASSUME NEW k \in DOMAIN S.trials
                     PROVE  S.trials[k].build \in DOMAIN S.builds /\ S.trials[k].target \in S.builds[S.trials[k].build]
        <5>1. r.builds = S.builds /\ r.trials = Append(S.trials, t)
          BY <2>4
        <5>2. t.build = n /\ t.target = Targets[i]
          BY <2>2
        <5>3. QED
          BY <2>1, <2>3, <5>1, <5>2
      <4>2. QED
        BY <1>0 DEF Files
    <3>2. QED
      BY <1>0, <2>4, <3>1 DEF Files
  <2>7. TagInv => TagsOf(x, r, tag')
    <3> SUFFICES ASSUME TagInv PROVE TagsOf(x, r, tag')
      OBVIOUS
    <3>1. t.ran = << x, n >>
      BY <2>1, <2>2 DEF TagInv, TagsOf
    <3>2. QED
      BY <1>0, <2>1, <2>2, <2>3, <2>4, <3>1 DEF TagInv, TagsOf
  <2>8. QED
    BY <1>0, <2>4, <2>5, <2>6, <2>7, AnswerKeeps
<1>5. PICK i \in DOMAIN Targets, calls \in BOOLEAN :
       /\ Runnable(x, Targets[i])
       /\ IF S.folders > Len(S.trials)
            THEN Set(x, [ S EXCEPT !.at = "over", !.code = 1 ])
            ELSE \/ Answered(x, [ S EXCEPT !.trials = Append(@, Trial(x, Targets[i], calls)), !.folders = @ + 1 ])
                 \/ Torn /\ Answered(x, [ S EXCEPT !.folders = @ + 1 ])
  BY DEF RunHarness
<1>6. QED
  BY <1>2, <1>3, <1>4, <1>5

-----------------------------------------------------------------------------
LEMMA InitAgent == AgentInit => AgentInvariant /\ TagInv
<1> SUFFICES ASSUME AgentInit PROVE AgentInvariant /\ TagInv
  OBVIOUS
<1>1. \A x \in Sessions : session[x] \in Session
  BY RecipeAgentAssumption DEF AgentInit, Session
<1>2. AgentTypes
  BY <1>1 DEF AgentInit, AgentTypes, Nothing
<1>3. \A x \in Sessions : session[x].at = "loop" /\ session[x].uses = 0 /\ session[x].result = 0 /\ session[x].code = 99
        /\ session[x].builds = << >> /\ session[x].trials = << >>
  BY DEF AgentInit
<1>4. QED
  BY <1>2, <1>3 DEF AgentInvariant, TagInv, TagsOf, Placed, Files

LEMMA NextAgent == AgentInvariant /\ [AgentNext]_agentVars => AgentInvariant' /\ (OneSession /\ TagInv => TagInv')
<1> SUFFICES ASSUME AgentInvariant, [AgentNext]_agentVars PROVE AgentInvariant' /\ (OneSession /\ TagInv => TagInv')
  OBVIOUS
<1>1. CASE UNCHANGED agentVars
  BY <1>1 DEF agentVars, AgentInvariant, AgentTypes, TagInv
<1>2. CASE AgentNext
  BY <1>2, LoopKeeps, ReadsKeeps, BuildKeeps, RunHarnessKeeps, SubmitKeeps DEF AgentNext, Step
<1>3. QED
  BY <1>1, <1>2

(* Each session's place, builds, trials and result, for any number of      *)
(* sessions that share the tags of a machine.                              *)
THEOREM AgentInvariantHolds == AgentSpec => []AgentInvariant
BY InitAgent, NextAgent, PTL DEF AgentSpec

(* The loop is bounded, a call is pending only while one may be answered,  *)
(* and a trial is filed under a build that has its target.                 *)
THEOREM AgentTypesHold == AgentSpec => []AgentTypeOK
<1>1. AgentInvariant => AgentTypeOK
  <2> SUFFICES ASSUME AgentInvariant, NEW x \in Sessions
               PROVE  /\ session[x].turn <= MaxTurns /\ session[x].nudges <= MaxNudges
                      /\ SessionAt(x, "tools") <=> session[x].uses > 0 /\ session[x].code = 99 /\ session[x].result = 0
                      /\ \A i \in DOMAIN session[x].trials :
                           LET t == session[x].trials[i] IN t.target \in session[x].builds[t.build]
    BY DEF AgentTypeOK
  <2>1. session[x] \in Session /\ Placed(session[x]) /\ Files(session[x])
    BY DEF AgentInvariant, AgentTypes
  <2>2. session[x].turn <= MaxTurns /\ session[x].nudges <= MaxNudges
    BY <2>1, RecipeAgentAssumption DEF Session
  <2>3. session[x].at \in { "loop", "model", "tools", "done", "over" } /\ session[x].uses \in Nat
    BY <2>1 DEF Session
  <2>4. SessionAt(x, "tools") <=> session[x].uses > 0 /\ session[x].code = 99 /\ session[x].result = 0
    BY <2>1, <2>3 DEF Placed, SessionAt
  <2>5. QED
    BY <2>1, <2>2, <2>4 DEF Files
<1>2. QED
  BY <1>1, AgentInvariantHolds, PTL

(* submit() and its gate: with one session on the machine, exit 0 is a     *)
(* build that passed on every target and from whose own image a harness    *)
(* made a call, and every trial ran the build it is filed under.           *)
THEOREM AgentSafetyHolds == ASSUME OneSession PROVE AgentSpec => []AgentSafety
<1>1. AgentInvariant /\ TagInv => ZeroIsProven /\ TrialsRunTheirBuild
  <2> SUFFICES ASSUME AgentInvariant, TagInv PROVE ZeroIsProven /\ TrialsRunTheirBuild
    OBVIOUS
  <2>1. TrialsRunTheirBuild
    BY DEF TrialsRunTheirBuild, TagInv, TagsOf
  <2>2. ASSUME NEW x \in Sessions, session[x].code = 0
        PROVE  LET n == session[x].result IN
               /\ session[x].verdict
               /\ session[x].builds[n] = { Targets[i] : i \in DOMAIN Targets }
               /\ \E i \in DOMAIN session[x].trials :
                    LET t == session[x].trials[i] IN t.calls /\ t.target = Required /\ t.ran = << x, n >>
    <3> DEFINE n == session[x].result
    <3>1. session[x].verdict /\ n # 0 /\ Files(session[x])
      BY <2>2 DEF AgentInvariant, Placed
    <3>2. n \in DOMAIN session[x].builds /\ ProvenIn(session[x], n)
      BY <3>1 DEF Files
    <3>3. session[x].builds[n] = { Targets[i] : i \in DOMAIN Targets }
      BY <3>1, <3>2 DEF Files, ProvenIn, TargetSet
    <3>4. \E i \in DOMAIN session[x].trials :
            session[x].trials[i].calls /\ session[x].trials[i].target = Required /\ session[x].trials[i].ran = << x, n >>
      BY <2>1, <3>2 DEF ProvenIn, TrialsRunTheirBuild
    <3>5. QED
      BY <3>1, <3>3, <3>4
  <2>3. QED
    BY <2>1, <2>2 DEF ZeroIsProven
<1>2. AgentInit => TagInv
  BY InitAgent
<1>3. AgentInvariant /\ TagInv /\ [AgentNext]_agentVars => TagInv'
  BY NextAgent
<1>4. AgentSpec => [](ZeroIsProven /\ TrialsRunTheirBuild)
  BY <1>1, <1>2, <1>3, AgentInvariantHolds, PTL DEF AgentSpec
<1>5. QED
  BY <1>4, AgentTypesHold, PTL DEF AgentSafety

=============================================================================
