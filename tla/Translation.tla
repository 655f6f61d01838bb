---------------------------- MODULE Translation ----------------------------
(***************************************************************************)
(* proxy.py between an OpenAI-shaped harness and Bedrock's Converse API,   *)
(* and an Anthropic-shaped one and InvokeModel: the conversation a harness *)
(* sends grows by whatever messages it likes, and at every length the      *)
(* request must be one Bedrock accepts and still say what the harness      *)
(* said.  policy.enforce rewrites replies on their way back.               *)
(*                                                                         *)
(* A text is blank or not; a message is one text, and calls of tools or    *)
(* the result of one.  Numbers of tokens are scaled down.                  *)
(***************************************************************************)
EXTENDS Naturals, Sequences, SequencesExt, FiniteSets

CONSTANTS
  Tools,        (* names of tools                                           *)
  MaxMessages,  (* the longest conversation                                 *)
  MaxCalls,     (* the most calls in one message                            *)
  MaxTokens,    (* token counts run from 0 to MaxTokens                     *)
  MinBudget,    (* the least thinking budget: 1024                          *)
  Rules, PathRules  (* of policy.py                                         *)

ASSUME TranslationAssumption ==
  /\ MaxMessages \in Nat /\ MaxCalls \in Nat /\ MaxTokens \in Nat /\ MinBudget \in 1 .. MaxTokens
  /\ PathRules \subseteq Rules

VARIABLES
  history,      (* body["messages"]                                         *)
  asked,        (* the limits and settings of an Anthropic-shaped request   *)
  reply         (* the actions of the last reply, as the model meant them   *)

translationVars == << history, asked, reply >>

Texts    == { "blank", "said" }
Message  ==
  [ role : { "system", "developer", "user", "other" }, text : Texts, calls : { << >> } ]
    \cup [ role : { "assistant" }, text : Texts, calls : UNION { [ 1 .. n -> Tools ] : n \in 0 .. MaxCalls } ]
    \cup [ role : { "tool" }, text : Texts, calls : { << >> } ]

Use(t)    == [ use |-> t ]
Text(t)   == [ text |-> t ]
ToolResult(t) == [ result |-> t ]
IsUse(b)    == "use" \in DOMAIN b
IsText(b)   == "text" \in DOMAIN b
IsResult(b) == "result" \in DOMAIN b

-----------------------------------------------------------------------------
(* The comprehension of _push() over the blocks.                           *)
Without(S, seq) == FoldLeft(LAMBDA acc, x : IF x \in S THEN acc ELSE Append(acc, x), << >>, seq)

(* _push(): blank texts go, an empty message gets a placeholder, and a     *)
(* message of the role that spoke last joins that one.                     *)
Kept(blocks) == LET said == Without({ Text("blank") }, blocks)
                IN IF said = << >> THEN << Text("(empty)") >> ELSE said

Push_Always(msgs, role, blocks) == Append(msgs, [ role |-> role, content |-> Kept(blocks) ])

Push_Replaces(msgs, role, blocks) ==
  IF msgs # << >> /\ Last(msgs).role = role
    THEN Append(Front(msgs), [ role |-> role, content |-> Kept(blocks) ])
    ELSE Append(msgs, [ role |-> role, content |-> Kept(blocks) ])

Push(msgs, role, blocks) ==
  IF msgs # << >> /\ Last(msgs).role = role
    THEN Append(Front(msgs), [ role |-> role, content |-> Last(msgs).content \o Kept(blocks) ])
    ELSE Append(msgs, [ role |-> role, content |-> Kept(blocks) ])

(* What a message says, block by block; system and unknown roles are set   *)
(* aside.                                                                  *)
Blocks(m) ==
  IF m.role = "tool" THEN << ToolResult(IF m.text = "blank" THEN "(empty)" ELSE m.text) >>
  ELSE << Text(m.text) >> \o [ i \in DOMAIN m.calls |-> Use(m.calls[i]) ]

Speaker(m) == IF m.role = "assistant" THEN "assistant" ELSE "user"
Spoken(m)  == m.role \in { "user", "assistant", "tool" }

(* The loop over the messages.                                             *)
Turns(h) == FoldLeft(LAMBDA acc, m : IF Spoken(m) THEN Push(acc, Speaker(m), Blocks(m)) ELSE acc, << >>, h)

Messages(h) ==
  LET msgs == Turns(h)
  IN IF msgs # << >> /\ msgs[1].role # "user"
       THEN << [ role |-> "user", content |-> << Text("(start)") >> ] >> \o msgs
       ELSE msgs

(* The tools declared, and whether one must be called.                     *)
UsedIn(msgs) == { b.use : b \in { x \in UNION { Range(msgs[i].content) : i \in DOMAIN msgs } : IsUse(x) } }
Answers(msgs) == \E i \in DOMAIN msgs : \E b \in Range(msgs[i].content) : IsResult(b)

Declared_AsOffered(msgs, offered, choice) == IF choice = "none" THEN {} ELSE offered

Declared(msgs, offered, choice) ==
  IF offered # {} /\ choice # "none" THEN offered
  ELSE IF UsedIn(msgs) # {} THEN UsedIn(msgs)
  ELSE IF Answers(msgs) THEN { "tool" } ELSE {}

MustCall(msgs, offered, choice) ==
  choice = "required" /\ offered # {}

-----------------------------------------------------------------------------
(* inferenceConfig, fix_sampling, and the thinking budget of anthropic_call;*)
(* 0 stands for a field that is not sent.                                  *)
Least(a, b) == IF a < b THEN a ELSE b

Capped(wanted, cap) == IF cap # 0 THEN Least(wanted, cap) ELSE wanted

Budget(wanted, tokens)         ==
  LET b == Least(IF wanted = 0 THEN MinBudget ELSE wanted, IF tokens = 0 THEN 0 ELSE tokens - 1)
  IN IF b < MinBudget THEN 0 ELSE b

Sampling_Both(set, thinks) == set
Sampling(set, thinks)      ==
  IF thinks THEN {} ELSE IF "temperature" \in set THEN set \ { "top_p" } ELSE set

Sent ==
  LET tokens == Capped(asked.tokens, asked.cap)
      budget == IF asked.thinks THEN Budget(asked.budget, tokens) ELSE 0
  IN [ tokens |-> tokens, budget |-> budget, sampling |-> Sampling(asked.sampling, budget # 0) ]

Asked == [ tokens : 1 .. MaxTokens, cap : 0 .. MaxTokens, thinks : BOOLEAN, budget : 0 .. MaxTokens,
           sampling : SUBSET { "temperature", "top_p" } ]

-----------------------------------------------------------------------------
(* policy.py: a reply's strings, by the kind of their key, and the rules   *)
(* their text matches.                                                     *)
Slot == [ kind : { "cmd", "path", "other", "fence" }, edits : BOOLEAN, rules : SUBSET Rules ]

Hits_AnyPath(s) == IF s.kind = "other" THEN {} ELSE s.rules
Hits(s) ==
  CASE s.kind \in { "cmd", "fence" } -> s.rules
    [] s.kind = "path"               -> { r \in s.rules : r \in PathRules \/ (r = "test_edit" /\ s.edits) }
    [] OTHER                         -> {}

Refused(s) == [ s EXCEPT !.rules = {} ]

Enforced_CmdsOnly(r) == [ i \in DOMAIN r |-> IF r[i].kind = "cmd" /\ Hits(r[i]) # {} THEN Refused(r[i]) ELSE r[i] ]
Enforced(r)          == [ i \in DOMAIN r |-> IF Hits(r[i]) # {} THEN Refused(r[i]) ELSE r[i] ]

-----------------------------------------------------------------------------
(* The streams of openai_stream and anthropic_stream: a finished reply in  *)
(* pieces, each text and each call with its index.                         *)
Chunks_NoIndex(m) ==
  << [ text |-> m.text ] >> \o [ i \in DOMAIN m.calls |-> [ index |-> 0, call |-> m.calls[i] ] ] \o << [ finish |-> TRUE ] >>
Chunks(m) ==
  << [ text |-> m.text ] >> \o [ i \in DOMAIN m.calls |-> [ index |-> i - 1, call |-> m.calls[i] ] ] \o << [ finish |-> TRUE ] >>

(* What a client that follows the protocol puts together.                  *)
Rebuilt(chunks) ==
  FoldLeft(LAMBDA acc, c :
             IF "text" \in DOMAIN c THEN [ acc EXCEPT !.text = c.text ]
             ELSE IF "call" \in DOMAIN c /\ c.index = Len(acc.calls) THEN [ acc EXCEPT !.calls = Append(@, c.call) ]
             ELSE IF "call" \in DOMAIN c THEN [ acc EXCEPT !.calls[c.index + 1] = c.call ]
             ELSE [ acc EXCEPT !.done = TRUE ],
           [ text |-> "", calls |-> << >>, done |-> FALSE ], chunks)

-----------------------------------------------------------------------------

Unasked == [ tokens |-> MaxTokens, cap |-> 0, thinks |-> FALSE, budget |-> 0, sampling |-> {} ]

TranslationInit == history = << >> /\ asked = Unasked /\ reply = << >>

(* The three parts share nothing, so that each is taken alone.             *)
Say(m) == /\ Len(history) < MaxMessages /\ asked = Unasked /\ reply = << >>
          /\ history' = Append(history, m)
          /\ UNCHANGED << asked, reply >>

Asks(a) == /\ history = << >> /\ reply = << >>
           /\ asked' = a
           /\ UNCHANGED << history, reply >>

Answer(s) == /\ history = << >> /\ asked = Unasked /\ Len(reply) < 2
             /\ reply' = Append(reply, s)
             /\ UNCHANGED << history, asked >>

TranslationNext ==
  \/ \E m \in Message : Say(m)
  \/ \E a \in Asked : asked = Unasked /\ Asks(a)
  \/ \E s \in Slot : Answer(s)

TranslationSpec == TranslationInit /\ [][TranslationNext]_translationVars

-----------------------------------------------------------------------------

(* Converse takes turns that alternate from the user's, and no empty turn, *)
(* whatever a harness sends (_push).                                       *)
TurnsAlternate ==
  LET msgs == Messages(history) IN
  \A i \in DOMAIN msgs : /\ msgs[i].role = (IF i % 2 = 1 THEN "user" ELSE "assistant")
                         /\ msgs[i].content # << >>
                         /\ \A b \in Range(msgs[i].content) : ~(IsText(b) /\ b.text = "blank")

(* Nothing a harness said is lost, repeated or moved on its way.           *)
Said(blocks)   == Without({ Text(t) : t \in { "blank", "(empty)", "(start)" } }, blocks)
Contents(msgs) == FlattenSeq([ i \in DOMAIN msgs |-> msgs[i].content ])

NothingIsLost ==
  Said(Contents(Messages(history)))
    = Said(FlattenSeq([ i \in DOMAIN history |-> IF Spoken(history[i]) THEN Blocks(history[i]) ELSE << >> ]))

(* "Converse refuses toolUse/toolResult blocks without a toolConfig".      *)
ToolsAreDeclared ==
  \A offered \in SUBSET Tools, choice \in { "auto", "none", "required" } :
    LET msgs == Messages(history) IN
    /\ UsedIn(msgs) # {} \/ Answers(msgs) => Declared(msgs, offered, choice) # {}
    /\ MustCall(msgs, offered, choice) => Declared(msgs, offered, choice) = offered

(* Bedrock's limits hold together: the cap on the budget, and sampling     *)
(* with thinking.                                                          *)
LimitsHold ==
  /\ asked.cap # 0 => Sent.tokens <= asked.cap
  /\ Sent.budget # 0 => MinBudget <= Sent.budget /\ Sent.budget < Sent.tokens
  /\ Cardinality(Sent.sampling) <= 1 /\ (Sent.budget # 0 => Sent.sampling = {})

(* An enforced reply holds nothing that check() flags, and everything else *)
(* as the model wrote it.                                                  *)
EnforcedIsClean ==
  \A i \in DOMAIN reply : /\ Hits(Enforced(reply)[i]) = {}
                          /\ Hits(reply[i]) = {} => Enforced(reply)[i] = reply[i]

(* File contents are "never scanned"; a bare path answers to few rules.    *)
OnlyActionsAreFlagged ==
  \A i \in DOMAIN reply :
    Hits(reply[i]) # {} => /\ reply[i].kind # "other"
                           /\ reply[i].kind = "path" => Hits(reply[i]) \subseteq PathRules \cup { "test_edit" }

(* A streaming client ends up with the reply of the model.                 *)
StreamsAreWhole ==
  \A i \in DOMAIN history :
    LET m == history[i] IN
    m.role = "assistant" => Rebuilt(Chunks(m)) = [ text |-> m.text, calls |-> m.calls, done |-> TRUE ]

(* Every conversation and every reply: what goes to Bedrock is what it     *)
(* takes and what the harness said, and what comes back is whole and       *)
(* clean.                                                                  *)
TranslationSafety ==
  /\ TurnsAlternate /\ NothingIsLost /\ ToolsAreDeclared /\ LimitsHold
  /\ EnforcedIsClean /\ OnlyActionsAreFlagged /\ StreamsAreWhole

=============================================================================
