---------------------------- MODULE RecipeAgent -----------------------------
(***************************************************************************)
(* lib/recipe_agent.py: sessions of the analyze stage as a tool loop, on   *)
(* one machine.  A model builds recipes, runs the harness from them, and   *)
(* submits one; the loop bounds it and the gate of submit checks it.  The  *)
(* model may do anything at any turn.                                      *)
(***************************************************************************)
EXTENDS Naturals, Sequences, FiniteSets

CONSTANTS
  Sessions,     (* run.sh processes whose harness has the same name         *)
  HasTask,      (* whether a benchmark task is given                        *)
  Compose,      (* it has Compose services, which a trial does not start    *)
  MaxTurns, MaxNudges, MaxUses,
  MaxBuilds,    (* bound of the model                                       *)
  Torn          (* a trial may leave a half-written line                    *)

ASSUME RecipeAgentAssumption ==
  HasTask \in BOOLEAN /\ Compose \in BOOLEAN /\ Torn \in BOOLEAN
  /\ MaxTurns \in Nat /\ MaxNudges \in Nat /\ MaxUses \in Nat

VARIABLES
  session,      (* session[x]: the loop's variables, builds and trials      *)
  tag           (* tag[t]: the build that hr-agent/<name>:<t> was built for *)

agentVars == << session, tag >>

Targets  == IF HasTask THEN << "base", "task" >> ELSE << "base" >>
Required == IF HasTask /\ ~Compose THEN "task" ELSE "base"
Nothing  == << "none", 0 >>

AgentInit ==
  /\ session = [ x \in Sessions |->
       [ at |-> "loop", turn |-> 0, nudges |-> 0, fallback |-> FALSE, uses |-> 0, cut |-> FALSE,
         builds |-> << >>, trials |-> << >>, folders |-> 0, result |-> 0, code |-> 99, verdict |-> FALSE ] ]
  /\ tag = [ t \in { "base", "task" } |-> Nothing ]

SessionAt(x, place) == session[x].at = place
Set(x, r)    == session' = [ session EXCEPT ![x] = r ]

(* stop(): verdict.json, then the exit code.                               *)
Stopped(x, code) == [ session[x] EXCEPT !.at = "over", !.code = code, !.verdict = TRUE ]

-----------------------------------------------------------------------------
(* The loop: budgets first, then the model.  A refused turn is a turn.     *)

Counted_Never(x) == session[x].turn
Counted(x)       == session[x].turn + 1

Turn(x) ==
  /\ SessionAt(x, "loop")
  /\ \/ session[x].turn < MaxTurns
        /\ Set(x, [ session[x] EXCEPT !.at = "model", !.turn = Counted(x) ])
     \/ session[x].turn = MaxTurns /\ Set(x, Stopped(x, 1))
     \/ session[x].turn < MaxTurns /\ Set(x, Stopped(x, 1))        (* spend or time *)
  /\ UNCHANGED tag

Fails(x) ==
  /\ SessionAt(x, "model")
  /\ Set(x, Stopped(x, 1))
  /\ UNCHANGED tag

Refuses(x) ==
  /\ SessionAt(x, "model")
  /\ Set(x, IF session[x].fallback THEN Stopped(x, 1)
            ELSE [ session[x] EXCEPT !.at = "loop", !.fallback = TRUE ])
  /\ UNCHANGED tag

Idles(x) ==
  /\ SessionAt(x, "model")
  /\ Set(x, IF session[x].nudges = MaxNudges THEN Stopped(x, 1)
            ELSE [ session[x] EXCEPT !.at = "loop", !.nudges = @ + 1 ])
  /\ UNCHANGED tag

(* A reply with calls; one cut at the output limit runs none of them.      *)
Acts(x) ==
  /\ SessionAt(x, "model")
  /\ \E n \in 1 .. MaxUses, cut \in BOOLEAN :
       Set(x, [ session[x] EXCEPT !.at = "tools", !.uses = n, !.cut = cut ])
  /\ UNCHANGED tag

(* The call is answered, and the next one or the next turn follows, unless *)
(* there is a result.                                                      *)
Answered(x, r) ==
  Set(x, [ r EXCEPT !.uses = @ - 1, !.at = IF r.result # 0 THEN "done" ELSE IF r.uses = 1 THEN "loop" ELSE "tools" ])

-----------------------------------------------------------------------------
(* Tools that change nothing, and calls that end in a ToolError.           *)
Reads(x) ==
  /\ SessionAt(x, "tools")
  /\ Answered(x, session[x])
  /\ UNCHANGED tag

(* build(): targets in their order until one fails.  docker build moves    *)
(* the tag, the check comes after it.                                      *)
Here(x) == << x, Len(session[x].builds) + 1 >>

Build(x) ==
  /\ SessionAt(x, "tools") /\ ~session[x].cut /\ Len(session[x].builds) < MaxBuilds
  /\ \E n \in 0 .. Len(Targets), moved \in BOOLEAN :
       LET built == n + (IF moved THEN 1 ELSE 0)
       IN /\ Answered(x, [ session[x] EXCEPT !.builds = Append(@, { Targets[i] : i \in 1 .. n }) ])
          /\ tag' = [ t \in DOMAIN tag |-> IF \E i \in DOMAIN Targets : i <= built /\ Targets[i] = t THEN Here(x) ELSE tag[t] ]

(* run_harness(): the latest build, if it has the target.  The folder is   *)
(* numbered by the trials that were summarised.                            *)
Runnable_AnyBuild(x, t) == \E n \in DOMAIN session[x].builds : t \in session[x].builds[n]
Runnable(x, t) ==
  LET n == Len(session[x].builds) IN n > 0 /\ t \in session[x].builds[n]

Trial(x, t, calls) == [ build |-> Len(session[x].builds), target |-> t, calls |-> calls, ran |-> tag[t] ]

RunHarness(x) ==
  /\ SessionAt(x, "tools") /\ ~session[x].cut
  /\ \E i \in DOMAIN Targets, calls \in BOOLEAN :
       /\ Runnable(x, Targets[i])
       /\ IF session[x].folders > Len(session[x].trials)
            THEN Set(x, [ session[x] EXCEPT !.at = "over", !.code = 1 ])   (* FileExistsError *)
            ELSE \/ Answered(x, [ session[x] EXCEPT !.trials = Append(@, Trial(x, Targets[i], calls)),
                                                    !.folders = @ + 1 ])
                 \/ Torn /\ Answered(x, [ session[x] EXCEPT !.folders = @ + 1 ])
  /\ UNCHANGED tag

(* submit(): the gate.                                                     *)
Proofs_OfAnyBuild(x, n) == { t \in DOMAIN session[x].trials : session[x].trials[t].target = Required /\ session[x].trials[t].calls }
Proofs(x, n) ==
  { t \in DOMAIN session[x].trials :
      /\ session[x].trials[t].build = n
      /\ session[x].trials[t].target = Required
      /\ session[x].trials[t].calls }

Proven(x, n) ==
  /\ \A i \in DOMAIN Targets : Targets[i] \in session[x].builds[n]
  /\ Proofs(x, n) # {}

Submit(x) ==
  /\ SessionAt(x, "tools") /\ ~session[x].cut
  /\ \E n \in DOMAIN session[x].builds :
       Answered(x, IF Proven(x, n) THEN [ session[x] EXCEPT !.result = n ] ELSE session[x])
  /\ UNCHANGED tag

GiveUp(x) ==
  /\ SessionAt(x, "tools") /\ ~session[x].cut
  /\ Set(x, Stopped(x, 3))
  /\ UNCHANGED tag

Done(x) ==
  /\ SessionAt(x, "done")
  /\ Set(x, Stopped(x, 0))
  /\ UNCHANGED tag

-----------------------------------------------------------------------------

Step(x) ==
  \/ Turn(x) \/ Fails(x) \/ Refuses(x) \/ Idles(x) \/ Acts(x)
  \/ Reads(x) \/ Build(x) \/ RunHarness(x) \/ Submit(x) \/ GiveUp(x) \/ Done(x)

AgentNext == \E x \in Sessions : Step(x)

AgentSpec     == AgentInit /\ [][AgentNext]_agentVars
AgentFairSpec == AgentSpec /\ \A x \in Sessions : WF_agentVars(Step(x))

-----------------------------------------------------------------------------

AgentTypeOK ==
  \A x \in Sessions :
    /\ session[x].turn <= MaxTurns /\ session[x].nudges <= MaxNudges
    /\ SessionAt(x, "tools") <=> session[x].uses > 0 /\ session[x].code = 99 /\ session[x].result = 0
    /\ \A i \in DOMAIN session[x].trials :
         LET t == session[x].trials[i] IN t.target \in session[x].builds[t.build]

(* Exit 0 is a build that passed on every target, and from whose image a   *)
(* harness made a call on the target that matters; it has a verdict.json.  *)
ZeroIsProven ==
  \A x \in Sessions : session[x].code = 0 =>
    LET n == session[x].result IN
    /\ session[x].verdict
    /\ session[x].builds[n] = { Targets[i] : i \in DOMAIN Targets }
    /\ \E i \in DOMAIN session[x].trials :
         LET t == session[x].trials[i] IN t.calls /\ t.target = Required /\ t.ran = << x, n >>

(* A trial runs the build it is filed under: "Run the harness from the     *)
(* latest build".                                                          *)
TrialsRunTheirBuild ==
  \A x \in Sessions : \A i \in DOMAIN session[x].trials :
    session[x].trials[i].ran = << x, session[x].trials[i].build >>

(* A session that asked the model ends, whatever the model does.           *)
SessionsEnd == \A x \in Sessions : ~SessionAt(x, "loop") ~> SessionAt(x, "over")

(* A session in every state: what it submits was proven by a trial of it.  *)
AgentSafety == AgentTypeOK /\ ZeroIsProven /\ TrialsRunTheirBuild

=============================================================================
