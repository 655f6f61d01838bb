----------------------------- MODULE ProxyProofs -----------------------------
(***************************************************************************)
(* Proofs about the recording proxy: Egress, for any connections, hosts,   *)
(* policy and mode, with any number of handler threads at once;            *)
(* ModelCalls, for any number of calls at once; and Translation, for       *)
(* conversations, replies and streams of any length, by inductions over    *)
(* their elements.                                                         *)
(***************************************************************************)
EXTENDS Egress, ModelCalls, Translation, FiniteSetTheorems, SequenceTheorems,
        WellFoundedInduction, TLAPS

Kinds == { "http", "https", "connect", "tls" }
Conn  == [ at : Places, kind : Kinds, n : Nat, phase : { "agent", "verify" } ]
Lines == [ n : Nat, conn : Conns, kind : Kinds ]
Body  == [ n : Nat, kind : { "req", "resp" }, conn : Conns ]

TypeInv ==
  /\ conn \in [ Conns -> Conn ] /\ phase \in { "agent", "verify" } /\ drawn \in Nat
  /\ lines \in Seq(Lines) /\ bodies \subseteq Body
  /\ reached \in [ hosts : SUBSET Conns, urls : SUBSET Conns ]

Drawn  == { "save", "log" }
After  == { "draw", "save", "log", "relay", "number", "over" }

(* A handler draws its number once, of the one counter.                    *)
NumberInv ==
  /\ \A c \in Conns : conn[c].n <= drawn
  /\ \A c, d \in Conns : conn[c].n = conn[d].n /\ conn[c].n > 0 => c = d
  /\ \A c \in Conns : conn[c].at \in Drawn => conn[c].n > 0
  /\ \A c \in Conns : conn[c].at \notin Drawn \cup { "over" } => conn[c].n = 0

(* It writes one line, at its end, and its bodies before.                  *)
LineInv ==
  /\ \A i \in DOMAIN lines :
       conn[lines[i].conn].at = "over" /\ lines[i].n > 0 /\ lines[i].n = conn[lines[i].conn].n
  /\ \A i, j \in DOMAIN lines : lines[i].conn = lines[j].conn => i = j
  /\ \A b \in bodies : b.n > 0 /\ b.n = conn[b.conn].n

(* Where a handler asks for a host, the policy has allowed it in the phase *)
(* of the decision, and the phase of a decision that was used stays.       *)
Allowed(c, sees) ==
  \/ Host[c] \in Self
  \/ /\ Host[c] \notin Blocked /\ ~(sees /\ c \in BlockedUrls)
     /\ conn[c].phase = "verify" \/ Permitted(Host[c])

PolicyInv ==
  /\ reached.urls \subseteq reached.hosts
  /\ \A c \in Conns : conn[c].at = "ask" => Allowed(c, TRUE)
  /\ \A c \in Conns : conn[c].at = "dial" => Allowed(c, FALSE)
  /\ \A c \in reached.hosts : conn[c].at \in After /\ Allowed(c, FALSE)
  /\ \A c \in reached.urls : Allowed(c, TRUE)

(* The numbers drawn are the handlers' that have one, and a handler that   *)
(* has one does not end without its line.                                  *)
Numbered == { c \in Conns : conn[c].n > 0 }
CountInv == IsFiniteSet(Numbered) /\ Cardinality(Numbered) = drawn

WrittenInv ==
  \A c \in Conns : conn[c].at = "over" /\ conn[c].n > 0 => \E i \in DOMAIN lines : lines[i].conn = c

IInv == TypeInv /\ NumberInv /\ LineInv /\ PolicyInv /\ CountInv /\ WrittenInv

-----------------------------------------------------------------------------
(* What a step does to its connection's handler.                           *)

Others(c) == \A d \in Conns : d # c => conn'[d] = conn[d]

LEMMA GoesIs ==
  ASSUME conn \in [ Conns -> Conn ], NEW c \in Conns, NEW place \in Places, Goes(c, place)
  PROVE  /\ conn' \in [ Conns -> Conn ] /\ Others(c) /\ conn'[c].at = place
         /\ UNCHANGED << conn[c].kind, conn[c].n, conn[c].phase >>
BY DEF Goes, Conn, Others

LEMMA LogsIs ==
  ASSUME conn \in [ Conns -> Conn ], NEW c \in Conns, NEW kind \in Kinds, Logs(c, kind)
  PROVE  /\ conn' \in [ Conns -> Conn ] /\ Others(c) /\ conn'[c].at = "number"
         /\ UNCHANGED << conn[c].n, conn[c].phase >>
<1> DEFINE q == conn[c]
           r == [ q EXCEPT !.at = "number", !.kind = kind ]
<1>1. conn' = [ conn EXCEPT ![c] = r ]
  BY Zenon DEF Logs
<1>2. q \in Conn
  OBVIOUS
<1>3. r \in Conn /\ r.at = "number" /\ r.n = q.n /\ r.phase = q.phase
  <2> HIDE DEF q
  <2> QED BY <1>2 DEF Conn, Places
<1> HIDE DEF r
<1>4. QED
  BY <1>1, <1>3 DEF Others

LEMMA NumbersIs ==
  ASSUME conn \in [ Conns -> Conn ], NEW c \in Conns, NEW place \in Places, NEW n \in Nat,
         conn' = [ conn EXCEPT ![c].n = n, ![c].at = place ]
  PROVE  /\ conn' \in [ Conns -> Conn ] /\ Others(c) /\ conn'[c].at = place /\ conn'[c].n = n
         /\ UNCHANGED << conn[c].kind, conn[c].phase >>
<1> DEFINE q == conn[c]
           r == [ q EXCEPT !.n = n, !.at = place ]
<1>1. conn' = [ conn EXCEPT ![c] = r ]
  BY Zenon
<1>2. q \in Conn
  OBVIOUS
<1>3. r \in Conn /\ r.at = place /\ r.n = n /\ r.kind = q.kind /\ r.phase = q.phase
  <2> HIDE DEF q
  <2> QED BY <1>2 DEF Conn
<1> HIDE DEF r
<1>4. QED
  BY <1>1, <1>3 DEF Others

LEMMA ForwardIs ==
  ASSUME conn \in [ Conns -> Conn ], phase \in { "agent", "verify" }, NEW c \in Conns, NEW kind \in Kinds,
         Forward(c, kind)
  PROVE  /\ conn' \in [ Conns -> Conn ] /\ Others(c)
         /\ conn'[c].at \in { "ask", "number" } /\ conn'[c].n = 0 /\ conn'[c].phase = phase
         /\ conn'[c].at = "ask" => Decide(c, TRUE)
<1> DEFINE r == [ at |-> IF Decide(c, TRUE) THEN "ask" ELSE "number", kind |-> kind, n |-> 0, phase |-> phase ]
<1>1. /\ r \in Conn /\ r.at \in { "ask", "number" } /\ r.n = 0 /\ r.phase = phase
      /\ r.at = "ask" => Decide(c, TRUE)
  BY DEF Conn, Places
<1>2. conn' = [ conn EXCEPT ![c] = r ]
  BY DEF Forward
<1> HIDE DEF r
<1>3. QED
  BY <1>1, <1>2 DEF Others

LEMMA ConnectIs ==
  ASSUME conn \in [ Conns -> Conn ], phase \in { "agent", "verify" }, NEW c \in Conns, Connect(c)
  PROVE  /\ conn' \in [ Conns -> Conn ] /\ Others(c)
         /\ conn'[c].at \in { "number", "shake", "dial" } /\ conn'[c].n = 0 /\ conn'[c].phase = phase
         /\ conn'[c].at = "dial" => Decide(c, FALSE)
<1> DEFINE place == IF ~Decide(c, FALSE) THEN "number"
                    ELSE IF Mode = "inspect" /\ Host[c] \notin Self THEN "shake" ELSE "dial"
           r == [ kind |-> "connect", n |-> 0, phase |-> phase, at |-> place ]
<1>1. place \in { "number", "shake", "dial" } /\ (place = "dial" => Decide(c, FALSE))
  OBVIOUS
<1>2. conn' = [ conn EXCEPT ![c] = r ]
  BY DEF Connect
<1>3. r \in Conn /\ r.at = place /\ r.n = 0 /\ r.phase = phase
  <2> HIDE DEF place
  <2> QED BY <1>1 DEF Conn, Places, Kinds
<1> HIDE DEF r, place
<1>4. QED
  BY <1>1, <1>2, <1>3 DEF Others

-----------------------------------------------------------------------------
(* The kinds of step that a handler takes.                                 *)

Keeps(c) == UNCHANGED << conn[c].n, conn[c].phase, drawn >>

Decides(c) ==
  /\ conn[c].at \in { "idle", "request" } /\ conn'[c].at \in { "ask", "number", "shake", "dial" }
  /\ conn'[c].n = 0 /\ conn'[c].phase = phase
  /\ conn'[c].at = "ask" => Decide(c, TRUE)
  /\ conn'[c].at = "dial" => Decide(c, FALSE)
  /\ UNCHANGED << phase, drawn, lines, bodies, reached >>

Numbers(c) ==
  /\ conn[c].at \in { "draw", "number" } /\ conn'[c].at \in { "save", "log" }
  /\ conn'[c].n = drawn + 1 /\ conn'[c].phase = conn[c].phase /\ drawn' = drawn + 1
  /\ UNCHANGED << phase, lines, bodies, reached >>

Reaches(c) ==
  /\ Keeps(c) /\ UNCHANGED << phase, lines, bodies >>
  /\ \/ /\ conn[c].at = "ask" /\ conn'[c].at = "draw"
        /\ reached' = [ hosts |-> reached.hosts \cup {c}, urls |-> reached.urls \cup {c} ]
     \/ /\ conn[c].at = "dial" /\ conn'[c].at = "relay"
        /\ reached'.hosts = reached.hosts \cup {c} /\ reached'.urls = reached.urls
        /\ reached' \in [ hosts : SUBSET Conns, urls : SUBSET Conns ]

Moves(c) ==
  /\ conn[c].at \notin { "idle", "request", "draw", "save", "number", "log", "over" }
  /\ conn'[c].at \in { "open", "load", "wrap", "request", "number", "over" }
  /\ conn[c].at = "relay" => conn'[c].at = "number"
  /\ Keeps(c) /\ UNCHANGED << phase, lines, bodies, reached >>

Saves(c) ==
  /\ Save(c) /\ conn[c].at = "save" /\ conn'[c].at = "log" /\ Keeps(c) /\ UNCHANGED << phase, lines, reached >>

Logged(c) ==
  /\ conn[c].at = "log" /\ conn'[c].at = "over" /\ lines' = Append(lines, Line(c))
  /\ Keeps(c) /\ UNCHANGED << phase, bodies, reached >>

HandlerStep(c) ==
  Plain(c) \/ Connect(c) \/ Handler(c)

LEMMA HandlerIs ==
  ASSUME TypeInv, NEW c \in Conns, HandlerStep(c)
  PROVE  /\ conn' \in [ Conns -> Conn ] /\ Others(c)
         /\ Decides(c) \/ Numbers(c) \/ Reaches(c) \/ Moves(c) \/ Saves(c) \/ Logged(c)
<1> USE DEF TypeInv
<1>0. /\ conn \in [ Conns -> Conn ] /\ phase \in { "agent", "verify" } /\ drawn \in Nat /\ drawn + 1 \in Nat
      /\ reached \in [ hosts : SUBSET Conns, urls : SUBSET Conns ]
  OBVIOUS
<1> HIDE DEF TypeInv
<1> USE DEF HandlerAt, Places, Kinds
<1>1. CASE Plain(c) \/ Request(c)
  BY <1>0, <1>1, ForwardIs DEF Plain, Request, Forward, Decides
<1>2. CASE Connect(c)
  BY <1>0, <1>2, ConnectIs DEF Connect, Decides
<1>3. CASE Ask(c)
  <2>1. CASE Goes(c, "draw") /\ reached' = [ hosts |-> reached.hosts \cup {c}, urls |-> reached.urls \cup {c} ]
    BY <1>0, <1>3, <2>1, GoesIs DEF Ask, Reaches, Keeps
  <2>2. CASE Logs(c, conn[c].kind) /\ UNCHANGED reached
    <3>1. conn[c].kind \in Kinds
      BY <1>0 DEF Conn
    <3>2. QED
      BY <1>0, <1>3, <2>2, <3>1, LogsIs DEF Ask, Moves, Keeps
  <2>3. QED
    BY <1>3, <2>1, <2>2 DEF Ask
<1>4. CASE Draw(c)
  <2> DEFINE place == IF Inspecting(c) THEN "save" ELSE "log"
             n == drawn + 1
  <2>1. /\ conn' = [ conn EXCEPT ![c].n = n, ![c].at = place ] /\ drawn' = n /\ conn[c].at = "draw"
        /\ UNCHANGED << phase, lines, bodies, reached >>
    BY <1>4 DEF Draw, Fresh
  <2>2. place \in { "save", "log" } /\ n \in Nat
    BY <1>0
  <2> HIDE DEF place, n
  <2>3. /\ conn' \in [ Conns -> Conn ] /\ Others(c) /\ conn'[c].at = place /\ conn'[c].n = n
        /\ UNCHANGED conn[c].phase
    BY <1>0, <2>1, <2>2, NumbersIs
  <2>4. QED
    BY <2>1, <2>2, <2>3 DEF Numbers, n
<1>5. CASE Number(c)
  <2> DEFINE place == "log"
             n == drawn + 1
  <2>1. /\ conn' = [ conn EXCEPT ![c].n = n, ![c].at = place ] /\ drawn' = n /\ conn[c].at = "number"
        /\ UNCHANGED << phase, lines, bodies, reached >>
    BY <1>5 DEF Number, Fresh
  <2>2. place = "log" /\ n \in Nat
    BY <1>0
  <2> HIDE DEF place, n
  <2>3. /\ conn' \in [ Conns -> Conn ] /\ Others(c) /\ conn'[c].at = place /\ conn'[c].n = n
        /\ UNCHANGED conn[c].phase
    BY <1>0, <2>1, <2>2, NumbersIs
  <2>4. QED
    BY <2>1, <2>2, <2>3 DEF Numbers, n
<1>6. CASE Save(c)
  BY <1>0, <1>6, GoesIs DEF Save, AfterBodies, Saves, Keeps
<1>7. CASE Log(c)
  BY <1>0, <1>7, GoesIs DEF Log, Logged, Keeps
<1>8. CASE Shake(c) \/ Fill(c)
  BY <1>0, <1>8, GoesIs DEF Shake, Fill, Moves, Keeps
<1>9. CASE Load(c)
  <2>1. CASE Goes(c, "wrap")
    BY <1>0, <1>9, <2>1, GoesIs DEF Load, Moves, Keeps
  <2>2. CASE Logs(c, "tls")
    BY <1>0, <1>9, <2>2, LogsIs DEF Load, Moves, Keeps
  <2>3. QED
    BY <1>9, <2>1, <2>2 DEF Load
<1>10. CASE Wrap(c)
  <2>1. CASE Goes(c, "request") \/ Goes(c, "over")
    BY <1>0, <1>10, <2>1, GoesIs DEF Wrap, Moves, Keeps
  <2>2. CASE Logs(c, "tls")
    BY <1>0, <1>10, <2>2, LogsIs DEF Wrap, Moves, Keeps
  <2>3. QED
    BY <1>10, <2>1, <2>2 DEF Wrap
<1>11. CASE Dial(c)
  <2>1. CASE Goes(c, "relay") /\ reached' = [ reached EXCEPT !.hosts = @ \cup {c} ]
    BY <1>0, <1>11, <2>1, GoesIs DEF Dial, Reaches, Keeps
  <2>2. CASE Logs(c, "connect") /\ UNCHANGED reached
    BY <1>0, <1>11, <2>2, LogsIs DEF Dial, Moves, Keeps
  <2>3. QED
    BY <1>11, <2>1, <2>2 DEF Dial
<1>12. CASE Relayed(c)
  BY <1>0, <1>12, LogsIs DEF Relayed, Moves, Keeps
<1>13. QED
  BY <1>1, <1>2, <1>3, <1>4, <1>5, <1>6, <1>7, <1>8, <1>9, <1>10, <1>11, <1>12 DEF Handler, HandlerStep

-----------------------------------------------------------------------------
(* Each of them keeps the invariant.                                       *)

LEMMA OfConns ==
  ASSUME TypeInv
  PROVE  (\A i \in DOMAIN lines : lines[i].conn \in Conns) /\ (\A b \in bodies : b.conn \in Conns)
<1>1. lines \in Seq(Lines) /\ bodies \subseteq Body
  BY DEF TypeInv
<1>2. \A i \in DOMAIN lines : lines[i] \in Lines
  BY <1>1
<1>3. QED
  BY <1>1, <1>2 DEF Lines, Body

LEMMA SavedBodies ==
  ASSUME TypeInv, NEW c \in Conns, Save(c), NEW b \in bodies'
  PROVE  b \in bodies \/ (b \in Body /\ b.n = conn[c].n /\ b.conn = c)
<1>1. PICK kinds \in SUBSET { "req", "resp" } :
        bodies' = bodies \cup { [ n |-> conn[c].n, kind |-> k, conn |-> c ] : k \in kinds }
  BY DEF Save
<1>2. conn[c].n \in Nat
  BY DEF TypeInv, Conn
<1>3. CASE b \notin bodies
  <2>1. PICK k \in kinds : b = [ n |-> conn[c].n, kind |-> k, conn |-> c ]
    BY <1>1, <1>3
  <2>2. QED
    BY <1>2, <2>1 DEF Body
<1>4. QED
  BY <1>3

LEMMA LoggedLines ==
  ASSUME TypeInv, NEW c \in Conns, Logged(c)
  PROVE  /\ lines' \in Seq(Lines) /\ DOMAIN lines' = DOMAIN lines \cup { Len(lines) + 1 }
         /\ Len(lines) + 1 \notin DOMAIN lines
         /\ \A i \in DOMAIN lines : lines'[i] = lines[i]
         /\ LET l == lines'[Len(lines) + 1] IN l.n = conn[c].n /\ l.conn = c
<1>1. Line(c) \in Lines /\ Line(c).n = conn[c].n /\ Line(c).conn = c
  BY DEF TypeInv, Conn, Line, Lines
<1>2. lines \in Seq(Lines) /\ lines' = Append(lines, Line(c))
  BY DEF TypeInv, Logged
<1>3. QED
  BY <1>1, <1>2

LEMMA HandlerType ==
  ASSUME TypeInv, NEW c \in Conns, HandlerStep(c)
  PROVE  TypeInv'
<1>1. conn' \in [ Conns -> Conn ]
  BY HandlerIs
<1>2. CASE Decides(c) \/ Numbers(c) \/ Moves(c)
  <2>1. UNCHANGED << phase, lines, bodies, reached >> /\ drawn' \in { drawn, drawn + 1 }
    BY <1>2 DEF Decides, Numbers, Moves, Keeps
  <2>2. QED
    BY <1>1, <2>1 DEF TypeInv
<1>3. CASE Reaches(c)
  BY <1>1, <1>3 DEF TypeInv, Reaches, Keeps
<1>4. CASE Saves(c)
  <2>1. bodies' \subseteq Body
    BY <1>4, SavedBodies DEF Saves, TypeInv
  <2>2. QED
    BY <1>1, <1>4, <2>1 DEF TypeInv, Saves, Keeps
<1>5. CASE Logged(c)
  BY <1>1, <1>5, LoggedLines DEF TypeInv, Logged, Keeps
<1>6. QED
  BY <1>2, <1>3, <1>4, <1>5, HandlerIs

LEMMA HandlerNumber ==
  ASSUME TypeInv, NumberInv, NEW c \in Conns, HandlerStep(c)
  PROVE  NumberInv'
<1>1. /\ Others(c) /\ conn \in [ Conns -> Conn ] /\ conn' \in [ Conns -> Conn ] /\ drawn \in Nat
      /\ \A d \in Conns : conn[d].n \in Nat /\ conn'[d].n \in Nat
  BY HandlerIs DEF TypeInv, Conn
<1> USE DEF NumberInv, Others, Drawn
<1>2. CASE Decides(c)
  BY <1>1, <1>2 DEF Decides
<1>3. CASE Numbers(c)
  <2>1. \A d \in Conns : d # c => conn'[d].n < conn'[c].n
    BY <1>1, <1>3 DEF Numbers
  <2>2. QED
    BY <1>1, <1>3, <2>1 DEF Numbers
<1>4. CASE /\ Keeps(c) /\ conn[c].at # "over"
           /\ conn'[c].at \in Drawn => conn[c].at \in Drawn
           /\ conn[c].at \in Drawn => conn'[c].at \in Drawn \cup { "over" }
  <2>1. \A d \in Conns : conn'[d].n = conn[d].n
    BY <1>1, <1>4 DEF Keeps
  <2>2. QED
    BY <1>1, <1>4, <2>1 DEF Keeps
<1>5. QED
  BY <1>2, <1>3, <1>4, HandlerIs DEF Reaches, Moves, Saves, Logged

LEMMA HandlerLine ==
  ASSUME TypeInv, NumberInv, LineInv, NEW c \in Conns, HandlerStep(c)
  PROVE  LineInv'
<1>1. Others(c) /\ conn \in [ Conns -> Conn ] /\ conn' \in [ Conns -> Conn ]
  BY HandlerIs DEF TypeInv
<1>2. (\A i \in DOMAIN lines : lines[i].conn \in Conns) /\ (\A b \in bodies : b.conn \in Conns)
  BY OfConns
<1>3. conn[c].at # "over"
  BY HandlerIs DEF Decides, Numbers, Reaches, Moves, Saves, Logged
<1>4. \A i \in DOMAIN lines : lines[i].conn # c /\ conn'[lines[i].conn] = conn[lines[i].conn]
  BY <1>1, <1>2, <1>3 DEF LineInv, Others
<1>5. CASE Decides(c) \/ Numbers(c)
  <2>1. conn[c].n = 0 /\ UNCHANGED << lines, bodies >>
    BY <1>5 DEF Decides, Numbers, NumberInv, Drawn
  <2>2. \A b \in bodies : conn'[b.conn] = conn[b.conn]
    BY <1>1, <1>2, <2>1 DEF LineInv, Others
  <2>3. QED
    BY <1>4, <2>1, <2>2 DEF LineInv
<1>6. CASE Reaches(c) \/ Moves(c) \/ Saves(c) \/ Logged(c)
  <2>1. \A b \in bodies : b.n > 0 /\ b.n = conn'[b.conn].n
    BY <1>1, <1>2, <1>6 DEF LineInv, Others, Reaches, Moves, Saves, Logged, Keeps
  <2>2. CASE Reaches(c) \/ Moves(c)
    BY <1>4, <2>1, <2>2 DEF LineInv, Reaches, Moves
  <2>3. CASE Saves(c)
    <3>1. conn[c].n > 0 /\ conn'[c].n = conn[c].n /\ lines' = lines
      BY <2>3 DEF Saves, Keeps, NumberInv, Drawn
    <3>2. \A b \in bodies' : b.n > 0 /\ b.n = conn'[b.conn].n
      BY <2>1, <2>3, <3>1, SavedBodies DEF Saves
    <3>3. QED
      BY <1>4, <3>1, <3>2 DEF LineInv
  <2>4. CASE Logged(c)
    <3>1. conn[c].n > 0 /\ conn'[c].n = conn[c].n /\ conn'[c].at = "over" /\ bodies' = bodies
      BY <2>4 DEF Logged, Keeps, NumberInv, Drawn
    <3>2. QED
      BY <1>4, <2>1, <2>4, <3>1, LoggedLines DEF LineInv
  <2>5. QED
    BY <1>6, <2>2, <2>3, <2>4
<1>7. QED
  BY <1>5, <1>6, HandlerIs

(* What the proxy was started with stays.                                  *)
LEMMA SetupStays ==
  ASSUME (\E c \in Conns : HandlerStep(c)) \/ VerifyBegins \/ Stop \/ UNCHANGED egressVars
  PROVE  Host' = Host /\ Mode' = Mode /\ \A h : Permitted(h)' <=> Permitted(h)
<1>1. setup' = setup
  <2>1. ASSUME NEW c \in Conns, HandlerStep(c) PROVE setup' = setup
    <3>1. CASE Plain(c) \/ Request(c) \/ Connect(c)
      BY <3>1 DEF Plain, Request, Connect, Forward
    <3>2. CASE Ask(c) \/ Draw(c) \/ Save(c) \/ Number(c) \/ Log(c)
      BY <3>2 DEF Ask, Draw, Save, Number, Log
    <3>3. CASE Shake(c) \/ Fill(c) \/ Load(c) \/ Wrap(c) \/ Dial(c) \/ Relayed(c)
      BY <3>3 DEF Shake, Fill, Load, Wrap, Dial, Relayed
    <3>4. QED
      BY <2>1, <3>1, <3>2, <3>3 DEF HandlerStep, Handler
  <2>2. CASE VerifyBegins \/ Stop \/ UNCHANGED egressVars
    BY <2>2 DEF VerifyBegins, Stop, egressVars
  <2>3. QED
    BY <2>1, <2>2
<1>2. QED
  BY <1>1 DEF Host, Mode, Permitted

LEMMA HandlerPolicy ==
  ASSUME TypeInv, PolicyInv, NEW c \in Conns, HandlerStep(c)
  PROVE  PolicyInv'
<1>0. Host' = Host /\ Mode' = Mode /\ \A h : Permitted(h)' <=> Permitted(h)
  BY SetupStays
<1>1. Others(c)
  BY HandlerIs
<1>2. /\ \A d \in Conns \ {c} : \A sees \in BOOLEAN : Allowed(d, sees)' <=> Allowed(d, sees)
      /\ conn'[c].phase = conn[c].phase => \A sees \in BOOLEAN : Allowed(c, sees)' <=> Allowed(c, sees)
  BY <1>0, <1>1 DEF Others, Allowed
<1>3. reached.hosts \subseteq Conns /\ reached.urls \subseteq Conns
  BY DEF TypeInv
<1> USE DEF PolicyInv, Others
<1>4. CASE Decides(c)
  <2>1. c \notin reached.hosts /\ reached' = reached
    BY <1>4 DEF Decides, After
  <2>2. /\ conn'[c].at = "ask" => Allowed(c, TRUE)'
        /\ conn'[c].at = "dial" => Allowed(c, FALSE)'
    BY <1>0, <1>4 DEF Decides, Decide, Allowed
  <2>3. QED
    BY <1>1, <1>2, <1>3, <1>4, <2>1, <2>2
<1>5. CASE Reaches(c)
  <2>1. /\ conn'[c].at \in { "draw", "relay" } /\ conn'[c].phase = conn[c].phase
        /\ reached'.hosts = reached.hosts \cup {c}
        /\ reached'.urls = reached.urls \/ (conn[c].at = "ask" /\ reached'.urls = reached.urls \cup {c})
    BY <1>5 DEF Reaches, Keeps
  <2>2. Allowed(c, TRUE) => Allowed(c, FALSE)
    BY DEF Allowed
  <2>3. Allowed(c, FALSE) /\ (conn[c].at = "ask" => Allowed(c, TRUE))
    BY <1>5, <2>2 DEF Reaches
  <2>4. QED
    BY <1>1, <1>2, <1>3, <2>1, <2>3 DEF After
<1>6. CASE Numbers(c) \/ Moves(c) \/ Saves(c) \/ Logged(c)
  <2>1. /\ conn'[c].phase = conn[c].phase /\ reached' = reached
        /\ conn'[c].at \notin { "ask", "dial" }
        /\ conn[c].at \in After => conn'[c].at \in After
    BY <1>6 DEF Numbers, Moves, Saves, Logged, Keeps, After
  <2>2. QED
    BY <1>1, <1>2, <1>3, <2>1
<1>7. QED
  BY <1>4, <1>5, <1>6, HandlerIs

LEMMA HandlerCount ==
  ASSUME TypeInv, NumberInv, CountInv, NEW c \in Conns, HandlerStep(c)
  PROVE  CountInv'
<1>1. /\ Others(c) /\ drawn \in Nat
      /\ \A d \in Conns : conn[d].n \in Nat /\ conn'[d].n \in Nat
  BY HandlerIs DEF TypeInv, Conn
<1>2. CASE Numbers(c)
  <2>1. c \notin Numbered
    BY <1>2 DEF Numbers, NumberInv, Drawn, Numbered
  <2>2. Numbered' = Numbered \cup {c}
    BY <1>1, <1>2 DEF Numbers, Numbered, Others
  <2>3. drawn' = drawn + 1
    BY <1>2 DEF Numbers
  <2>4. QED
    BY <2>1, <2>2, <2>3, FS_AddElement DEF CountInv
<1>3. CASE Decides(c) \/ Keeps(c)
  <2>1. conn'[c].n = conn[c].n /\ drawn' = drawn
    BY <1>3 DEF Decides, Keeps, NumberInv, Drawn
  <2>2. Numbered' = Numbered
    BY <1>1, <2>1 DEF Numbered, Others
  <2>3. QED
    BY <2>1, <2>2 DEF CountInv
<1>4. QED
  BY <1>2, <1>3, HandlerIs DEF Reaches, Moves, Saves, Logged

LEMMA HandlerWritten ==
  ASSUME TypeInv, NumberInv, WrittenInv, NEW c \in Conns, HandlerStep(c)
  PROVE  WrittenInv'
<1>1. Others(c)
  BY HandlerIs
<1>2. CASE Logged(c)
  <2>1. /\ DOMAIN lines' = DOMAIN lines \cup { Len(lines) + 1 } /\ lines'[Len(lines) + 1].conn = c
        /\ \A i \in DOMAIN lines : lines'[i] = lines[i]
    BY <1>2, LoggedLines
  <2>2. QED
    BY <1>1, <2>1 DEF WrittenInv, Others
<1>3. CASE Decides(c) \/ Numbers(c) \/ Reaches(c) \/ Moves(c) \/ Saves(c)
  <2>1. lines' = lines
    BY <1>3 DEF Decides, Numbers, Reaches, Moves, Saves
  <2>2. ~(conn'[c].at = "over" /\ conn'[c].n > 0)
    <3>1. CASE Moves(c)
      <4>1. conn[c].n = 0 /\ conn'[c].n = conn[c].n
        BY <3>1 DEF Moves, Keeps, NumberInv, Drawn
      <4>2. QED
        BY <4>1
    <3>2. CASE Decides(c) \/ Numbers(c) \/ Reaches(c) \/ Saves(c)
      BY <3>2 DEF Decides, Numbers, Reaches, Saves
    <3>3. QED
      BY <1>3, <3>1, <3>2
  <2>3. QED
    BY <1>1, <2>1, <2>2 DEF WrittenInv, Others
<1>4. QED
  BY <1>2, <1>3, HandlerIs

LEMMA InitInvariant == EgressInit => IInv
<1> SUFFICES ASSUME EgressInit PROVE IInv
  OBVIOUS
<1> USE DEF EgressInit
<1>1. TypeInv
  BY DEF TypeInv, Conn, Places, Kinds
<1>2. NumberInv
  BY DEF NumberInv, Drawn
<1>3. LineInv
  BY DEF LineInv
<1>4. PolicyInv
  BY DEF PolicyInv
<1>5. CountInv
  <2>1. Numbered = {}
    BY DEF Numbered
  <2>2. QED
    BY <2>1, FS_EmptySet DEF CountInv
<1>6. WrittenInv
  BY DEF WrittenInv
<1>7. QED
  BY <1>1, <1>2, <1>3, <1>4, <1>5, <1>6 DEF IInv

LEMMA NextInvariant == IInv /\ [EgressNext]_egressVars => IInv'
<1> SUFFICES ASSUME IInv, [EgressNext]_egressVars PROVE IInv'
  OBVIOUS
<1>1. CASE \E c \in Conns : Plain(c) \/ Connect(c) \/ Handler(c)
  <2>1. PICK c \in Conns : HandlerStep(c)
    BY <1>1 DEF HandlerStep
  <2>2. QED
    BY <2>1, HandlerType, HandlerNumber, HandlerLine, HandlerPolicy, HandlerCount, HandlerWritten DEF IInv
<1>2. CASE VerifyBegins \/ Stop \/ UNCHANGED egressVars
  <2>1. UNCHANGED << conn, drawn, lines, bodies, reached >> /\ phase' \in { "agent", "verify" }
    BY <1>2 DEF VerifyBegins, Stop, egressVars, IInv, TypeInv
  <2>2. TypeInv'
    BY <2>1 DEF IInv, TypeInv
  <2>3. NumberInv' /\ LineInv'
    BY <2>1 DEF IInv, NumberInv, LineInv
  <2>4. PolicyInv'
    <3>1. Host' = Host /\ Mode' = Mode /\ \A h : Permitted(h)' <=> Permitted(h)
      BY <1>2, SetupStays
    <3>2. QED
      BY <2>1, <3>1 DEF IInv, PolicyInv, Allowed
  <2>5. CountInv' /\ WrittenInv'
    BY <2>1 DEF IInv, CountInv, Numbered, WrittenInv
  <2>6. QED
    BY <2>2, <2>3, <2>4, <2>5 DEF IInv
<1>3. QED
  BY <1>1, <1>2 DEF EgressNext

-----------------------------------------------------------------------------

(* The inductive invariant holds of every behaviour.                       *)
THEOREM EgressInvariant == EgressSpec => []IInv
BY InitInvariant, NextInvariant, PTL DEF EgressSpec

(* alloc, elog and save_body: a number belongs to one line, and the files  *)
(* that carry it belong to that line's request, however many handlers      *)
(* interleave.                                                             *)
THEOREM NumberedHolds == EgressSpec => []NumberedOnce
<1>1. IInv => NumberedOnce
  <2> SUFFICES ASSUME IInv PROVE NumberedOnce
    OBVIOUS
  <2>1. (\A i \in DOMAIN lines : lines[i].conn \in Conns) /\ (\A b \in bodies : b.conn \in Conns)
    BY OfConns DEF IInv
  <2>2. QED
    BY <2>1 DEF IInv, NumberInv, LineInv, NumberedOnce
<1>2. QED
  BY <1>1, EgressInvariant, PTL

(* decide: a host is reached only as the mode allows or in the verify      *)
(* phase, and what BLOCK_URLS matches and the proxy sees is reached in     *)
(* neither.                                                                *)
THEOREM PolicyHoldsAlways == EgressSpec => []PolicyHolds
<1>1. IInv => PolicyHolds
  BY DEF IInv, TypeInv, PolicyInv, Allowed, PolicyHolds, Permitted
<1>2. QED
  BY <1>1, EgressInvariant, PTL

(* save_body before elog: the files of a request that has ended have its   *)
(* line beside them, with their number.                                    *)
THEOREM FilesHaveTheirLineHolds == EgressSpec => []FilesHaveTheirLine
<1>1. IInv => FilesHaveTheirLine
  <2> SUFFICES ASSUME IInv, NEW b \in bodies, conn[b.conn].at = "over"
               PROVE  \E i \in DOMAIN lines : lines[i].n = b.n /\ lines[i].conn = b.conn
    BY DEF FilesHaveTheirLine
  <2>1. b.conn \in Conns /\ b.n > 0 /\ b.n = conn[b.conn].n
    BY OfConns DEF IInv, LineInv
  <2>2. PICK i \in DOMAIN lines : lines[i].conn = b.conn
    BY <2>1 DEF IInv, WrittenInv
  <2>3. lines[i].n = b.n
    BY <2>1, <2>2 DEF IInv, LineInv
  <2>4. QED
    BY <2>2, <2>3
<1>2. QED
  BY <1>1, EgressInvariant, PTL

(* The numbers are 1 to _en, each drawn by one handler; what was seen of a *)
(* URL reached its host.                                                   *)
THEOREM EgressTypeCorrect == EgressSpec => []EgressTypeOK
<1>1. IInv => EgressTypeOK
  <2> SUFFICES ASSUME IInv PROVE EgressTypeOK
    OBVIOUS
  <2>1. /\ \A c \in Conns : conn[c].at \in Places /\ conn[c].n \in Nat
        /\ phase \in { "agent", "verify" } /\ drawn \in Nat
    BY DEF IInv, TypeInv, Conn
  <2>2. \A c \in Conns : conn[c].n \in 0 .. drawn
    BY <2>1 DEF IInv, NumberInv
  <2>3. Cardinality({ c \in Conns : conn[c].n > 0 }) = drawn
    BY DEF IInv, CountInv, Numbered
  <2>4. QED
    BY <2>1, <2>2, <2>3 DEF EgressTypeOK, IInv, PolicyInv
<1>2. QED
  BY <1>1, EgressInvariant, PTL

(* The egress side in every state: numbers, files and policy.              *)
THEOREM EgressSafetyHolds == EgressSpec => []EgressSafety
<1>1. EgressTypeOK /\ NumberedOnce /\ FilesHaveTheirLine /\ PolicyHolds => EgressSafety
  BY DEF EgressSafety
<1>2. QED
  BY <1>1, EgressTypeCorrect, NumberedHolds, FilesHaveTheirLineHolds, PolicyHoldsAlways, PTL

-----------------------------------------------------------------------------
(***************************************************************************)
(* ModelCalls: the handlers of model calls and calls.jsonl, and LIVE.      *)
(***************************************************************************)

CallPlaces == { "idle", "ask", "record", "writing", "send", "over" }
Call       == [ at : CallPlaces, tries : { n \in Nat : n < MaxTries }, error : BOOLEAN ]
CallLine   == [ call : Calls, n : Nat, error : BOOLEAN ]
Chunk      == [ from : Nat, upto : Nat, busy : BOOLEAN ]

(* The line being written counts in _n already, and half of it in the      *)
(* file.                                                                   *)
Unfinished == IF lock = Nobody THEN 0 ELSE 1

CallsTypeInv ==
  /\ call \in [ Calls -> Call ] /\ lock \in Calls \cup { Nobody }
  /\ count \in Nat /\ size \in Nat /\ callLines \in Seq(CallLine) /\ got \subseteq Calls
  /\ live \in [ offset : Nat, calls : Nat ] /\ reader \in [ Readers -> Chunk ]

(* record: the number, the file and the lock move together.                *)
FileInv ==
  /\ size = 2 * Len(callLines) + Unfinished
  /\ count = Len(callLines) + Unfinished
  /\ \A c \in Calls : call[c].at = "writing" <=> lock = c
  /\ \A i \in DOMAIN callLines : callLines[i].n = i

(* A handler that has a reply to send has written its line, with the       *)
(* outcome that it sends.                                                  *)
ReplyInv ==
  /\ \A c \in Calls : call[c].at = "send" => \E i \in LinesOf(c) : callLines[i].error = call[c].error
  /\ \A c \in got : call[c].at = "over" /\ \E i \in LinesOf(c) : callLines[i].error = call[c].error

RecordInv == CallsTypeInv /\ FileInv /\ ReplyInv

(* The offset stands at the end of a line; the chunk that a reader holds   *)
(* begins there and was in the file when it was read.                      *)
LiveInv ==
  /\ live.offset = 2 * live.calls /\ live.offset <= size
  /\ \A r \in Readers : reader[r].busy => reader[r].from = live.offset /\ reader[r].upto <= size

OneReader == \A r, q \in Readers : r = q

-----------------------------------------------------------------------------
(* What the updates do to the fields of call and to the file.              *)

LEMMA PutCallIs ==
  ASSUME CallsTypeInv, NEW c \in Calls, NEW place \in CallPlaces, NEW error \in BOOLEAN,
         PutCall(c, place, error)
  PROVE  /\ call' \in [ Calls -> Call ]
         /\ call'[c].at = place /\ call'[c].error = error
         /\ \A d \in Calls \ {c} : call'[d] = call[d]
<1>1. call \in [ Calls -> Call ] /\ call[c] \in Call
  BY DEF CallsTypeInv
<1>2. call' = [ call EXCEPT ![c] = [ @ EXCEPT !.at = place, !.error = error ] ]
  BY <1>1 DEF PutCall, Call
<1>3. [ call[c] EXCEPT !.at = place, !.error = error ] \in Call
  BY <1>1 DEF Call
<1>4. QED
  BY <1>1, <1>2, <1>3 DEF Call

LEMMA ReadLess ==
  ASSUME NEW from \in Nat, NEW upto \in Nat, NEW n \in Nat,
         NEW k, k = (IF upto > from THEN (upto - from) \div 2 ELSE 0),
         from <= n, upto <= n
  PROVE  k \in Nat /\ from + 2 * k <= n
<1>1. CASE upto > from
  <2> DEFINE m == upto - from
  <2>1. m \in Nat /\ k = m \div 2
    BY <1>1
  <2>2. m \div 2 \in Nat /\ 2 * (m \div 2) <= m
    <3> HIDE DEF m
    <3>1. QED
      BY <2>1
  <2>3. from + 2 * k <= from + m /\ from + m = upto
    BY <2>1, <2>2
  <2>4. QED
    BY <2>1, <2>2, <2>3
<1>2. CASE ~(upto > from)
  BY <1>2
<1>3. QED
  BY <1>1, <1>2

LEMMA AppendIs ==
  ASSUME CallsTypeInv, NEW l \in CallLine, callLines' = Append(callLines, l)
  PROVE  /\ callLines' \in Seq(CallLine) /\ Len(callLines') = Len(callLines) + 1
         /\ callLines'[Len(callLines) + 1] = l
         /\ \A i \in DOMAIN callLines : i \in DOMAIN callLines' /\ callLines'[i] = callLines[i]
         /\ DOMAIN callLines' = DOMAIN callLines \cup { Len(callLines) + 1 }
BY DEF CallsTypeInv

-----------------------------------------------------------------------------
(* One lemma for each action.                                              *)

(* Steps that leave the file alone.                                        *)
Handles(c, from, place, error) ==
  /\ call[c].at = from /\ PutCall(c, place, error)
  /\ from \notin { "writing", "over" } /\ place # "writing"
  /\ UNCHANGED << fileVars, liveVars >>

LEMMA HandlesRecord ==
  ASSUME RecordInv, NEW c \in Calls, NEW from \in CallPlaces, NEW place \in CallPlaces, NEW error \in BOOLEAN,
         Handles(c, from, place, error), place # "send",
         \/ got' = got
         \/ from = "send" /\ place = "over" /\ error = call[c].error /\ got' = got \cup {c}
  PROVE  RecordInv'
<1>1. /\ call' \in [ Calls -> Call ] /\ call'[c].at = place /\ call'[c].error = error
      /\ \A d \in Calls \ {c} : call'[d] = call[d]
  BY PutCallIs DEF RecordInv, Handles
<1>2. UNCHANGED << lock, count, callLines, size, live, reader >>
  BY DEF Handles, fileVars, liveVars
<1>3. c \notin got
  BY DEF RecordInv, ReplyInv, Handles
<1>4. CallsTypeInv'
  BY <1>1, <1>2 DEF RecordInv, CallsTypeInv
<1>5. FileInv'
  BY <1>1, <1>2 DEF RecordInv, FileInv, Unfinished, Handles
<1>6. \A d \in Calls : LinesOf(d)' = LinesOf(d)
  BY <1>2 DEF LinesOf
<1>7. ReplyInv'
  <2>1. ASSUME NEW d \in Calls, call'[d].at = "send"
        PROVE  \E i \in LinesOf(d)' : callLines'[i].error = call'[d].error
    BY <1>1, <1>2, <1>6, <2>1 DEF RecordInv, ReplyInv
  <2>2. ASSUME NEW d \in got'
        PROVE  call'[d].at = "over" /\ \E i \in LinesOf(d)' : callLines'[i].error = call'[d].error
    <3>1. CASE d = c
      BY <1>1, <1>2, <1>3, <1>6, <2>2, <3>1 DEF RecordInv, ReplyInv, Handles
    <3>2. CASE d # c
      <4>1. d \in got /\ d \in Calls
        BY <2>2, <3>2 DEF RecordInv, CallsTypeInv
      <4>2. QED
        BY <1>1, <1>2, <1>6, <3>2, <4>1 DEF RecordInv, ReplyInv
    <3>3. QED
      BY <3>1, <3>2
  <2>3. QED
    BY <2>1, <2>2 DEF ReplyInv
<1>8. QED
  BY <1>4, <1>5, <1>7 DEF RecordInv

LEMMA ThrottledAgain ==
  ASSUME RecordInv, NEW c \in Calls, call[c].at = "ask",
         call' = [ call EXCEPT ![c].tries = (@ + 1) % MaxTries ], UNCHANGED << fileVars, got, liveVars >>
  PROVE  RecordInv'
<1>1. call \in [ Calls -> Call ] /\ call[c] \in Call /\ call[c].tries \in Nat
  BY DEF RecordInv, CallsTypeInv, Call
<1> DEFINE n == (call[c].tries + 1) % MaxTries
<1>2. n \in Nat /\ n < MaxTries
  BY <1>1, ModelCallsAssumption
<1>3. call' = [ call EXCEPT ![c] = [ @ EXCEPT !.tries = n ] ]
  BY <1>1 DEF Call
<1> HIDE DEF n
<1>4. [ call[c] EXCEPT !.tries = n ] \in Call
  BY <1>1, <1>2 DEF Call
<1>5. /\ call' \in [ Calls -> Call ]
      /\ \A d \in Calls : call'[d].at = call[d].at /\ call'[d].error = call[d].error
  BY <1>1, <1>3, <1>4 DEF Call
<1>6. UNCHANGED << lock, count, callLines, size, got, live, reader >>
  BY DEF fileVars, liveVars
<1>7. CallsTypeInv' /\ FileInv'
  BY <1>5, <1>6 DEF RecordInv, CallsTypeInv, FileInv, Unfinished
<1>8. ReplyInv'
  <2>1. got \subseteq Calls /\ \A d \in Calls : LinesOf(d)' = LinesOf(d)
    BY <1>6 DEF LinesOf, RecordInv, CallsTypeInv
  <2>2. QED
    BY <1>5, <1>6, <2>1 DEF RecordInv, ReplyInv
<1>9. QED
  BY <1>7, <1>8 DEF RecordInv

LEMMA RecordRecord ==
  ASSUME RecordInv, NEW c \in Calls, Record(c)
  PROVE  RecordInv'
<1>1. call[c].error \in BOOLEAN /\ c # Nobody /\ lock = Nobody
  BY ModelCallsAssumption DEF RecordInv, CallsTypeInv, Call, Record, Enters
<1>2. /\ call' \in [ Calls -> Call ] /\ call'[c].at = "writing"
      /\ \A d \in Calls \ {c} : call'[d] = call[d]
  <2>1. PutCall(c, "writing", call[c].error) /\ "writing" \in CallPlaces
    BY DEF Record, CallPlaces
  <2>2. QED
    BY <1>1, <2>1, PutCallIs DEF RecordInv
<1>3. /\ lock' = c /\ count' = count + 1 /\ size' = size + 1
      /\ UNCHANGED << callLines, got, live, reader >>
  BY DEF Record, NextNumber, liveVars
<1>4. CallsTypeInv'
  BY <1>2, <1>3 DEF RecordInv, CallsTypeInv
<1>5. FileInv'
  <2>1. Unfinished = 0 /\ Unfinished' = 1
    BY <1>1, <1>3 DEF Unfinished
  <2>2. \A d \in Calls : call'[d].at = "writing" <=> lock' = d
    BY <1>1, <1>2, <1>3, ModelCallsAssumption DEF RecordInv, FileInv
  <2>3. QED
    BY <1>3, <2>1, <2>2 DEF RecordInv, CallsTypeInv, FileInv
<1>6. ReplyInv'
  <2>1. got \subseteq Calls \ {c}
    BY DEF RecordInv, CallsTypeInv, ReplyInv, Record
  <2>2. \A d \in Calls : LinesOf(d)' = LinesOf(d)
    BY <1>3 DEF LinesOf
  <2>3. QED
    BY <1>2, <1>3, <2>1, <2>2 DEF RecordInv, ReplyInv
<1>7. QED
  BY <1>4, <1>5, <1>6 DEF RecordInv

LEMMA RecordedRecord ==
  ASSUME RecordInv, NEW c \in Calls, Recorded(c)
  PROVE  RecordInv'
<1> DEFINE l == [ call |-> c, n |-> count, error |-> call[c].error ]
<1>1. l \in CallLine /\ call[c].error \in BOOLEAN /\ l.call = c /\ l.error = call[c].error /\ l.n = count
  BY DEF RecordInv, CallsTypeInv, Call, CallLine
<1>2. callLines' = Append(callLines, l) /\ lock' = Nobody /\ size' = size + 1
  BY DEF Recorded
<1>3. lock = c /\ c # Nobody /\ UNCHANGED << count, got, live, reader >>
  BY ModelCallsAssumption DEF Recorded, RecordInv, FileInv, liveVars
<1> HIDE DEF l
<1>4. /\ callLines' \in Seq(CallLine) /\ Len(callLines') = Len(callLines) + 1
      /\ callLines'[Len(callLines) + 1] = l
      /\ \A i \in DOMAIN callLines : i \in DOMAIN callLines' /\ callLines'[i] = callLines[i]
      /\ DOMAIN callLines' = DOMAIN callLines \cup { Len(callLines) + 1 }
  BY <1>1, <1>2, AppendIs DEF RecordInv
<1>5. /\ call' \in [ Calls -> Call ] /\ call'[c].at = "send" /\ call'[c].error = call[c].error
      /\ \A d \in Calls \ {c} : call'[d] = call[d]
  <2>1. PutCall(c, "send", call[c].error) /\ "send" \in CallPlaces
    BY DEF Recorded, CallPlaces
  <2>2. QED
    BY <1>1, <2>1, PutCallIs DEF RecordInv
<1>6. CallsTypeInv'
  BY <1>2, <1>3, <1>4, <1>5 DEF RecordInv, CallsTypeInv
<1>7. FileInv'
  <2>1. Unfinished = 1 /\ Unfinished' = 0 /\ Len(callLines) \in Nat
    BY <1>2, <1>3 DEF Unfinished, RecordInv, CallsTypeInv
  <2>2. \A d \in Calls : call'[d].at = "writing" <=> lock' = d
    BY <1>2, <1>3, <1>5, ModelCallsAssumption DEF RecordInv, FileInv
  <2>3. l.n = Len(callLines) + 1 /\ count = Len(callLines) + 1
    BY <1>1, <2>1 DEF RecordInv, FileInv
  <2>4. \A i \in DOMAIN callLines' : callLines'[i].n = i
    BY <1>4, <2>3 DEF RecordInv, FileInv
  <2>5. size' = 2 * Len(callLines') + Unfinished' /\ count' = Len(callLines') + Unfinished'
    BY <1>2, <1>3, <1>4, <2>1, <2>3 DEF RecordInv, CallsTypeInv, FileInv
  <2>6. QED
    BY <2>2, <2>4, <2>5 DEF FileInv
<1>8. ReplyInv'
  <2>1. got \subseteq Calls \ {c}
    BY DEF RecordInv, CallsTypeInv, ReplyInv, Recorded
  <2>2. ASSUME NEW d \in Calls, NEW i \in LinesOf(d)
        PROVE  i \in LinesOf(d)' /\ callLines'[i].error = callLines[i].error
    BY <1>4, <2>2 DEF LinesOf
  <2>3. Len(callLines) + 1 \in LinesOf(c)' /\ callLines'[Len(callLines) + 1].error = call'[c].error
    BY <1>1, <1>4, <1>5 DEF LinesOf
  <2>4. ASSUME NEW d \in Calls \ {c}, call[d].at = "send" \/ d \in got
        PROVE  \E i \in LinesOf(d)' : callLines'[i].error = call'[d].error
    <3>1. PICK i \in LinesOf(d) : callLines[i].error = call[d].error
      BY <2>4 DEF RecordInv, ReplyInv
    <3>2. QED
      BY <1>5, <2>2, <3>1
  <2>5. \A d \in Calls : call'[d].at = "send" => \E i \in LinesOf(d)' : callLines'[i].error = call'[d].error
    BY <1>5, <2>3, <2>4
  <2>6. \A d \in got' : call'[d].at = "over" /\ \E i \in LinesOf(d)' : callLines'[i].error = call'[d].error
    BY <1>3, <1>5, <2>1, <2>4 DEF RecordInv, ReplyInv
  <2>7. QED
    BY <2>5, <2>6 DEF ReplyInv
<1>9. QED
  BY <1>6, <1>7, <1>8 DEF RecordInv

LEMMA ReaderRecord ==
  ASSUME RecordInv, NEW r \in Readers, Read(r) \/ Count(r)
  PROVE  RecordInv'
<1>1. UNCHANGED << call, lock, count, callLines, size, got >>
  BY DEF Read, Count, fileVars
<1>2. live' \in [ offset : Nat, calls : Nat ] /\ reader' \in [ Readers -> Chunk ]
  <2>1. CASE Read(r)
    BY <2>1 DEF Read, RecordInv, CallsTypeInv, Chunk
  <2>2. CASE Count(r)
    <3>1. reader[r].from \in Nat /\ reader[r].upto \in Nat /\ live.offset \in Nat /\ live.calls \in Nat
      BY DEF RecordInv, CallsTypeInv, Chunk
    <3> DEFINE n == reader[r].from + reader[r].upto
    <3>2. Complete(r) \in Nat
      <4>1. n \in Nat /\ reader[r].from <= n /\ reader[r].upto <= n
        BY <3>1
      <4> HIDE DEF n
      <4>2. QED
        BY <3>1, <4>1, ReadLess DEF Complete
    <3>3. live' \in [ offset : Nat, calls : Nat ]
      BY <2>2, <3>1, <3>2 DEF Count
    <3>4. [ from |-> 0, upto |-> 0, busy |-> FALSE ] \in Chunk
      BY DEF Chunk
    <3>5. QED
      BY <2>2, <3>3, <3>4 DEF Count, RecordInv, CallsTypeInv
  <2>3. QED
    BY <2>1, <2>2
<1>3. CallsTypeInv' /\ FileInv'
  BY <1>1, <1>2 DEF RecordInv, CallsTypeInv, FileInv, Unfinished
<1>4. ReplyInv'
  BY <1>1 DEF RecordInv, ReplyInv, LinesOf
<1>5. QED
  BY <1>3, <1>4 DEF RecordInv

LEMMA NextRecord == RecordInv /\ [CallsNext]_callsVars => RecordInv'
<1> SUFFICES ASSUME RecordInv, [CallsNext]_callsVars PROVE RecordInv'
  OBVIOUS
<1>1. ASSUME NEW c \in Calls, Post(c) PROVE RecordInv'
  BY <1>1, HandlesRecord DEF Post, Handles, CallPlaces
<1>2. ASSUME NEW c \in Calls, Throttled(c) PROVE RecordInv'
  <2>1. CASE Again(c)
    BY <1>2, <2>1, ThrottledAgain DEF Throttled
  <2>2. CASE ~Again(c)
    <3>1. Handles(c, "ask", "record", TRUE) /\ got' = got
      BY <1>2, <2>2 DEF Throttled, Handles
    <3>2. QED
      BY <3>1, HandlesRecord DEF CallPlaces
  <2>3. QED
    BY <2>1, <2>2
<1>3. ASSUME NEW c \in Calls, Replied(c) PROVE RecordInv'
  <2>1. PICK error \in BOOLEAN : PutCall(c, "record", error)
    BY <1>3 DEF Replied, AfterReply
  <2>2. Handles(c, "ask", "record", error) /\ got' = got
    BY <1>3, <2>1 DEF Replied, Handles
  <2>3. QED
    BY <2>1, <2>2, HandlesRecord DEF CallPlaces
<1>4. ASSUME NEW c \in Calls, Send(c) PROVE RecordInv'
  <2>1. Handles(c, "send", "over", call[c].error) /\ got' = got \cup {c}
    BY <1>4 DEF Send, Handles
  <2>2. call[c].error \in BOOLEAN
    BY DEF RecordInv, CallsTypeInv, Call
  <2>3. QED
    BY <2>1, <2>2, HandlesRecord DEF CallPlaces
<1>5. ASSUME NEW c \in Calls, HangsUp(c) PROVE RecordInv'
  <2>1. PICK place \in { "over", "record" } : Handles(c, "send", place, TRUE) /\ got' = got
    BY <1>5 DEF HangsUp, Handles
  <2>2. QED
    BY <2>1, HandlesRecord DEF CallPlaces
<1>6. CASE UNCHANGED callsVars
  <2>1. UNCHANGED << call, lock, count, callLines, size, got, live, reader >>
    BY <1>6 DEF callsVars, fileVars, liveVars
  <2>2. QED
    BY <2>1 DEF RecordInv, CallsTypeInv, FileInv, Unfinished, ReplyInv, LinesOf
<1>7. QED
  BY <1>1, <1>2, <1>3, <1>4, <1>5, <1>6, RecordRecord, RecordedRecord, ReaderRecord DEF CallsNext, Thread

LEMMA InitRecord == CallsInit => RecordInv
<1> SUFFICES ASSUME CallsInit PROVE RecordInv
  OBVIOUS
<1>1. CallsTypeInv
  BY ModelCallsAssumption DEF CallsInit, CallsTypeInv, Call, CallPlaces, Chunk
<1>2. FileInv
  BY ModelCallsAssumption DEF CallsInit, FileInv, Unfinished
<1>3. ReplyInv
  BY DEF CallsInit, ReplyInv
<1>4. QED
  BY <1>1, <1>2, <1>3 DEF RecordInv

LEMMA NextLive ==
  ASSUME OneReader
  PROVE  RecordInv /\ LiveInv /\ [CallsNext]_callsVars => LiveInv'
<1> SUFFICES ASSUME RecordInv, LiveInv, [CallsNext]_callsVars PROVE LiveInv'
  OBVIOUS
<1>1. /\ live.offset \in Nat /\ live.calls \in Nat /\ size \in Nat
      /\ \A r \in Readers : reader[r] \in Chunk
  BY DEF RecordInv, CallsTypeInv
<1>2. CASE UNCHANGED << live, reader >> /\ size' \in { size, size + 1 }
  BY <1>1, <1>2 DEF LiveInv, Chunk
<1>3. ASSUME NEW r \in Readers, Read(r) PROVE LiveInv'
  <2>1. UNCHANGED << live, size >>
    BY <1>3 DEF Read, fileVars
  <2>2. reader'[r] = [ from |-> live.offset, upto |-> size, busy |-> TRUE ] /\ \A q \in Readers : q = r
    BY <1>3 DEF Read, RecordInv, CallsTypeInv, OneReader
  <2>3. QED
    BY <1>1, <2>1, <2>2 DEF LiveInv
<1>4. ASSUME NEW r \in Readers, Count(r) PROVE LiveInv'
  <2> DEFINE k == Complete(r)
  <2>1. size' = size /\ reader[r].busy
    BY <1>4 DEF Count, fileVars
  <2>2. ~reader'[r].busy /\ \A q \in Readers : q = r
    BY <1>4 DEF Count, RecordInv, CallsTypeInv, OneReader
  <2>3. live'.offset = live.offset + 2 * k /\ live'.calls = live.calls + k
    BY <1>4 DEF Count
  <2>4. k \in Nat /\ live.offset + 2 * k <= size
    <3>1. reader[r].from = live.offset /\ reader[r].upto <= size
            /\ reader[r].upto \in Nat /\ live.offset <= size
      BY <1>1, <2>1 DEF LiveInv, Chunk
    <3>2. k = (IF reader[r].upto > live.offset THEN (reader[r].upto - live.offset) \div 2 ELSE 0)
      BY <3>1 DEF Complete
    <3> HIDE DEF k
    <3>3. QED
      BY <1>1, <3>1, <3>2, ReadLess
  <2> HIDE DEF k
  <2>5. live'.offset = 2 * live'.calls /\ live'.offset <= size'
    BY <1>1, <2>1, <2>3, <2>4 DEF LiveInv
  <2>6. QED
    BY <2>2, <2>5 DEF LiveInv
<1>5. CASE UNCHANGED callsVars
  BY <1>2, <1>5 DEF callsVars, liveVars, fileVars
<1>6. ASSUME NEW c \in Calls, Thread(c) \/ Throttled(c) \/ HangsUp(c) PROVE LiveInv'
  <2>1. UNCHANGED << live, reader >> /\ size' \in { size, size + 1 }
    BY <1>6 DEF Thread, Post, Replied, Record, Recorded, Send, Throttled, HangsUp, liveVars, fileVars
  <2>2. QED
    BY <1>2, <2>1
<1>7. QED
  BY <1>3, <1>4, <1>5, <1>6 DEF CallsNext

-----------------------------------------------------------------------------

(* The inductive invariant of the recording, for any calls and readers.    *)
THEOREM RecordInvariantHolds == CallsSpec => []RecordInv
BY InitRecord, NextRecord, PTL DEF CallsSpec

(* record(): number and line are one critical section, so that lines are   *)
(* numbered as they stand and the file is at most half a line ahead of     *)
(* them, for any number of handlers and of pages that poll.                *)
THEOREM LinesHold == CallsSpec => [](CallsTypeOK /\ NumberedInOrder)
<1>1. RecordInv => CallsTypeOK /\ NumberedInOrder
  <2> SUFFICES ASSUME RecordInv PROVE CallsTypeOK /\ NumberedInOrder
    OBVIOUS
  <2>1. \A c \in Calls : call[c].at \in CallPlaces /\ call[c].tries < MaxTries
    BY DEF RecordInv, CallsTypeInv, Call
  <2>2. QED
    BY <2>1 DEF RecordInv, FileInv, Unfinished, CallsTypeOK, NumberedInOrder, CallPlaces
<1>2. QED
  BY <1>1, RecordInvariantHolds, PTL

(* do_POST: what the harness has received stands in calls.jsonl with the   *)
(* same outcome, though the client of another call hangs up and its line   *)
(* is written twice.                                                       *)
THEOREM RepliesHold == CallsSpec => []RepliesAreRecorded
<1>1. RecordInv => RepliesAreRecorded
  BY DEF RecordInv, ReplyInv, RepliesAreRecorded
<1>2. QED
  BY <1>1, RecordInvariantHolds, PTL

(* live(): the count is never ahead of the file and the offset never in    *)
(* the middle of a line, as long as one page of an evaluation polls.       *)
THEOREM LiveHolds == ASSUME OneReader PROVE CallsSpec => []LiveIsTrue
<1>1. CallsInit => LiveInv
  BY DEF CallsInit, LiveInv
<1>2. RecordInv /\ LiveInv => LiveIsTrue
  <2> SUFFICES ASSUME RecordInv, LiveInv PROVE LiveIsTrue
    OBVIOUS
  <2>1. Len(callLines) \in Nat /\ live.calls \in Nat /\ Unfinished \in { 0, 1 }
    BY DEF RecordInv, CallsTypeInv, Unfinished
  <2>2. size = 2 * Len(callLines) + Unfinished /\ 2 * live.calls <= size /\ live.offset = 2 * live.calls
    BY DEF RecordInv, FileInv, LiveInv
  <2>3. QED
    BY <2>1, <2>2 DEF LiveIsTrue
<1>3. QED
  BY <1>1, <1>2, NextLive, RecordInvariantHolds, PTL DEF CallsSpec

(* The recording in every state, for the harness and for one page.         *)
THEOREM CallsSafetyHolds == ASSUME OneReader PROVE CallsSpec => []CallsSafety
<1>1. CallsTypeOK /\ NumberedInOrder /\ RepliesAreRecorded /\ LiveIsTrue => CallsSafety
  BY DEF CallsSafety
<1>2. QED
  BY <1>1, LinesHold, RepliesHold, LiveHolds, PTL

-----------------------------------------------------------------------------
(***************************************************************************)
(* The folds of Translation: that the functions behind FoldLeft and        *)
(* FlattenSeq exist and go through their elements one by one, and what     *)
(* follows by induction. No operator is a parameter here: an induction is  *)
(* a set of numbers, or of sequences, that turns out to be all of them.    *)
(***************************************************************************)

(* Induction over numbers, by sets: a set of numbers that is not empty has *)
(* a least element, so that one which holds 0 and the next of each number  *)
(* it holds is Nat.                                                        *)
LEMMA LeastIn ==
  ASSUME NEW T \in SUBSET Nat, T # {}
  PROVE  \E x \in T : \A y \in T : x <= y
<1> DEFINE R == OpToRel(<, Nat)
<1>1. IsWellFoundedOn(R, Nat)
  BY NatLessThanWellFounded, Zenon
<1>2. PICK x \in T : \A y \in T : ~(<<y, x>> \in R)
  <2> HIDE DEF R
  <2> QED BY <1>1, WFMin
<1>3. \A y \in T : ~(y < x)
  BY <1>2 DEF OpToRel
<1>4. QED
  BY <1>3

LEMMA NatSet ==
  ASSUME NEW T \in SUBSET Nat, 0 \in T, \A n \in T : n + 1 \in T
  PROVE  T = Nat
<1> SUFFICES ASSUME Nat \ T # {} PROVE FALSE
  OBVIOUS
<1>1. PICK x \in Nat \ T : \A y \in Nat \ T : x <= y
  BY LeastIn
<1>2. x # 0 /\ x - 1 \in Nat
  OBVIOUS
<1>3. x - 1 \in T
  BY <1>1, <1>2
<1>4. QED
  BY <1>1, <1>2, <1>3

(* Two computations that start alike and go on alike end alike.            *)
LEMMA ChainsAgree ==
  ASSUME NEW n \in Nat, NEW c, NEW d, c[0] = d[0],
         \A k \in 1 .. n : c[k - 1] = d[k - 1] => c[k] = d[k]
  PROVE  c[n] = d[n]
<1> DEFINE K == { k \in Nat : k <= n => c[k] = d[k] }
<1>1. 0 \in K
  OBVIOUS
<1>2. ASSUME NEW k \in K PROVE k + 1 \in K
  OBVIOUS
<1> HIDE DEF K
<1>3. K = Nat
  <2>1. K \in SUBSET Nat
    BY DEF K
  <2>2. QED
    BY <1>1, <1>2, <2>1, NatSet
<1>4. QED
  BY <1>3 DEF K

(* Induction over sequences, by sets.                                      *)
LEMMA SeqSet ==
  ASSUME NEW B, NEW T \in SUBSET Seq(B), << >> \in T, \A s \in T, e \in B : Append(s, e) \in T
  PROVE  T = Seq(B)
<1> DEFINE K == { k \in Nat : \A s \in Seq(B) : Len(s) = k => s \in T }
<1>1. 0 \in K
  OBVIOUS
<1>2. ASSUME NEW k \in K PROVE k + 1 \in K
  <2> SUFFICES ASSUME NEW s \in Seq(B), Len(s) = k + 1 PROVE s \in T
    OBVIOUS
  <2>0. s # << >>
    OBVIOUS
  <2>1. PICK r \in Seq(B), e \in B : s = Append(r, e)
    BY <2>0, SequenceEmptyOrAppend
  <2>2. Len(r) = k
    BY <2>1, AppendProperties
  <2>3. QED
    BY <2>1, <2>2
<1> HIDE DEF K
<1>3. K = Nat
  <2>1. K \in SUBSET Nat
    BY DEF K
  <2>2. QED
    BY <1>1, <1>2, <2>1, NatSet
<1>4. QED
  BY <1>3, LenProperties DEF K

(* The folds of the community modules go down from the greatest index.     *)
LEMMA MaxIs ==
  ASSUME NEW k \in Nat, NEW T \in SUBSET (1 .. k), k \in T
  PROVE  Max(T) = k
<1>1. \A y \in T : k >= y
  OBVIOUS
<1>2. \A x \in T : (\A y \in T : x >= y) => x = k
  OBVIOUS
<1>3. QED
  BY <1>1, <1>2 DEF Max

LEMMA MaxIn ==
  ASSUME NEW n \in Nat, NEW T \in SUBSET (1 .. n), T # {}
  PROVE  Max(T) \in T
<1> DEFINE D == { n - x : x \in T }
<1>1. D \in SUBSET Nat /\ D # {}
  <2>1. \A x \in T : n - x \in Nat
    OBVIOUS
  <2>2. QED
    BY <2>1
<1>2. PICK d \in D : \A y \in D : d <= y
  <2> HIDE DEF D
  <2> QED BY <1>1, LeastIn
<1>3. PICK m \in T : d = n - m
  OBVIOUS
<1>4. \A y \in T : n - m <= n - y
  BY <1>2, <1>3
<1>5. \A y \in T : m >= y
  BY <1>4
<1>6. QED
  BY <1>5 DEF Max

(* f is the function by which a fold of n elements is defined: it exists   *)
(* for every step that stays in A.                                         *)
FoldsTo(f, n, base, step) ==
  \A T \in SUBSET (1 .. n) : f[T] = IF T = {} THEN base ELSE step[Max(T)][f[T \ { Max(T) }]]

LEMMA FoldExists ==
  ASSUME NEW n \in Nat, NEW A, NEW base \in A, NEW step \in [ 1 .. n -> [ A -> A ] ]
  PROVE  \E f \in [ SUBSET (1 .. n) -> A ] : FoldsTo(f, n, base, step)
<1> DEFINE Has(k) == \E f \in [ SUBSET (1 .. k) -> A ] : FoldsTo(f, k, base, step)
           K == { k \in Nat : k <= n => Has(k) }
<1>1. Has(0)
  <2> DEFINE f == [ T \in SUBSET (1 .. 0) |-> base ]
  <2>1. SUBSET (1 .. 0) = { {} }
    OBVIOUS
  <2>2. f \in [ SUBSET (1 .. 0) -> A ] /\ f[{}] = base
    BY <2>1
  <2>3. FoldsTo(f, 0, base, step)
    BY <2>1, <2>2 DEF FoldsTo
  <2>4. QED
    BY <2>2, <2>3
<1>2. ASSUME NEW k \in Nat, k + 1 <= n, Has(k) PROVE Has(k + 1)
  <2>1. PICK f \in [ SUBSET (1 .. k) -> A ] : FoldsTo(f, k, base, step)
    BY <1>2
  <2> DEFINE g == [ T \in SUBSET (1 .. (k + 1)) |-> IF k + 1 \in T THEN step[k + 1][f[T \ { k + 1 }]] ELSE f[T] ]
  <2>2. ASSUME NEW T \in SUBSET (1 .. (k + 1)) PROVE T \ { k + 1 } \in SUBSET (1 .. k)
    OBVIOUS
  <2>3. ASSUME NEW T \in SUBSET (1 .. (k + 1)), k + 1 \notin T PROVE T \in SUBSET (1 .. k)
    BY <2>3
  <2>4. ASSUME NEW T \in SUBSET (1 .. k) PROVE T \in SUBSET (1 .. (k + 1)) /\ k + 1 \notin T /\ g[T] = f[T]
    OBVIOUS
  <2>5. ASSUME NEW T \in SUBSET (1 .. (k + 1)), k + 1 \in T PROVE g[T] = step[k + 1][f[T \ { k + 1 }]] 
    BY <2>5
  <2>6. g \in [ SUBSET (1 .. (k + 1)) -> A ]
    <3> SUFFICES ASSUME NEW T \in SUBSET (1 .. (k + 1))
                 PROVE  (IF k + 1 \in T THEN step[k + 1][f[T \ { k + 1 }]] ELSE f[T]) \in A
      OBVIOUS
    <3>1. CASE k + 1 \in T
      <4>1. f[T \ { k + 1 }] \in A /\ k + 1 \in 1 .. n
        BY <1>2, <2>1, <2>2
      <4>2. QED
        BY <3>1, <4>1
    <3>2. CASE k + 1 \notin T
      BY <3>2, <2>3
    <3>3. QED
      BY <3>1, <3>2
  <2> HIDE DEF g
  <2>7. FoldsTo(g, k + 1, base, step)
    <3> SUFFICES ASSUME NEW T \in SUBSET (1 .. (k + 1))
                 PROVE  g[T] = IF T = {} THEN base ELSE step[Max(T)][g[T \ { Max(T) }]]
      BY DEF FoldsTo
    <3>1. CASE k + 1 \in T
      <4>1. Max(T) = k + 1
        BY <3>1, MaxIs
      <4>2. g[T \ { k + 1 }] = f[T \ { k + 1 }]
        BY <2>2, <2>4
      <4>3. QED
        BY <3>1, <4>1, <4>2, <2>5
    <3>2. CASE k + 1 \notin T
      <4>1. T \in SUBSET (1 .. k) /\ T \ { Max(T) } \in SUBSET (1 .. k)
        BY <3>2, <2>3
      <4>2. g[T] = f[T] /\ g[T \ { Max(T) }] = f[T \ { Max(T) }]
        BY <4>1, <2>4
      <4>3. f[T] = IF T = {} THEN base ELSE step[Max(T)][f[T \ { Max(T) }]]
        BY <4>1, <2>1 DEF FoldsTo
      <4>4. QED
        BY <4>2, <4>3
    <3>3. QED
      BY <3>1, <3>2
  <2>8. QED
    BY <2>6, <2>7
<1>3. K = Nat
  <2> HIDE DEF Has
  <2>1. K \in SUBSET Nat /\ 0 \in K /\ \A k \in K : k + 1 \in K
    BY <1>1, <1>2
  <2> HIDE DEF K
  <2>2. QED
    BY <2>1, NatSet
<1>4. Has(n)
  <2> HIDE DEF Has
  <2> QED BY <1>3
<1>5. QED
  BY <1>4

(* The indices up to k, without k, are those up to k - 1.                  *)
LEMMA UpTo ==
  ASSUME NEW k \in Nat \ {0}
  PROVE  1 .. k # {} /\ Max(1 .. k) = k /\ (1 .. k) \ { k } = 1 .. (k - 1)
<1>1. k \in 1 .. k /\ 1 .. k \in SUBSET (1 .. k)
  OBVIOUS
<1>2. Max(1 .. k) = k
  BY <1>1, MaxIs
<1>3. \A i : i \in (1 .. k) \ { k } <=> i \in 1 .. (k - 1)
  OBVIOUS
<1>4. (1 .. k) \ { k } = 1 .. (k - 1)
  BY <1>3
<1>5. 1 .. k # {}
  BY <1>1
<1>6. QED
  BY <1>2, <1>4, <1>5

(* Without(S, s) is computed element by element.                           *)
LEMMA WithoutChain ==
  ASSUME NEW B, NEW S, NEW s \in Seq(B)
  PROVE  \E c : /\ Without(S, s) = c[Len(s)]
                /\ c[0] = << >>
                /\ \A k \in 1 .. Len(s) : c[k] = IF s[k] \in S THEN c[k - 1] ELSE Append(c[k - 1], s[k])
<1> DEFINE n == Len(s)
           step == [ k \in 1 .. n |-> [ a \in Seq(B) |-> IF s[k] \in S THEN a ELSE Append(a, s[k]) ] ]
           Unfolded(g) == [ T \in SUBSET (DOMAIN s) |->
                          IF T = {} THEN << >>
                          ELSE LET x == Max(T)
                               IN IF s[x] \in S THEN g[T \ {x}] ELSE Append(g[T \ {x}], s[x]) ]
           iter == CHOOSE g : g = Unfolded(g)
           none == << >>
<1>0. n \in Nat /\ DOMAIN s = 1 .. n
  OBVIOUS
<1>1. Without(S, s) = iter[DOMAIN s]
  BY DEF Without, FoldLeft, MapThenFoldSet
<1>2. PICK f : f = Unfolded(f)
  <2>1. \A k \in 1 .. n, a \in Seq(B) : step[k][a] \in Seq(B)
          /\ step[k][a] = IF s[k] \in S THEN a ELSE Append(a, s[k])
    OBVIOUS
  <2>20. none \in Seq(B) /\ step \in [ 1 .. n -> [ Seq(B) -> Seq(B) ] ]
    OBVIOUS
  <2> HIDE DEF step, n, none
  <2>2. PICK f \in [ SUBSET (1 .. n) -> Seq(B) ] : FoldsTo(f, n, none, step)
    BY <2>20, <1>0, FoldExists
  <2>3. f = [ T \in SUBSET (1 .. n) |-> f[T] ]
    OBVIOUS
  <2>4. ASSUME NEW T \in SUBSET (1 .. n)
        PROVE  f[T] = IF T = {} THEN << >>
                      ELSE LET x == Max(T)
                           IN IF s[x] \in S THEN f[T \ {x}] ELSE Append(f[T \ {x}], s[x])
    <3>1. CASE T = {}
      BY <2>2, <3>1 DEF none, FoldsTo
    <3>2. CASE T # {}
      <4> DEFINE x == Max(T)
      <4>1. x \in 1 .. n
        BY <1>0, <3>2, MaxIn
      <4>2. T \ {x} \in SUBSET (1 .. n) /\ f[T] = step[x][f[T \ {x}]]
        BY <2>2, <3>2 DEF FoldsTo
      <4> HIDE DEF x
      <4>3. f[T \ {x}] \in Seq(B)
        BY <4>2
      <4>4. f[T] = IF s[x] \in S THEN f[T \ {x}] ELSE Append(f[T \ {x}], s[x])
        BY <4>1, <4>2, <4>3, <2>1
      <4>5. QED
        BY <3>2, <4>4 DEF x
    <3>3. QED
      BY <3>1, <3>2
  <2>5. QED
    BY <1>0, <2>3, <2>4
<1>3. iter = Unfolded(iter)
  BY <1>2
<1> DEFINE c == [ k \in 0 .. n |-> iter[1 .. k] ]
<1>4. ASSUME NEW T \in SUBSET (1 .. n)
      PROVE  iter[T] = IF T = {} THEN << >>
                       ELSE LET x == Max(T)
                            IN IF s[x] \in S THEN iter[T \ {x}] ELSE Append(iter[T \ {x}], s[x])
  <2> HIDE DEF iter
  <2> QED BY <1>0, <1>3
<1> HIDE DEF iter
<1>5. Without(S, s) = c[n]
  BY <1>0, <1>1
<1>6. c[0] = << >>
  <2>1. 1 .. 0 = {} /\ 0 \in 0 .. n
    BY <1>0
  <2>2. QED
    BY <2>1, <1>4
<1>7. ASSUME NEW k \in 1 .. n
      PROVE  c[k] = IF s[k] \in S THEN c[k - 1] ELSE Append(c[k - 1], s[k])
  <2>1. k \in Nat \ {0} /\ 1 .. k \in SUBSET (1 .. n)
    BY <1>0
  <2>20. 1 .. k # {} /\ Max(1 .. k) = k /\ (1 .. k) \ { k } = 1 .. (k - 1)
    BY <2>1, UpTo
  <2>2. c[k] = iter[1 .. k] /\ c[k - 1] = iter[1 .. (k - 1)]
    BY <1>0
  <2>3. QED
    BY <2>1, <2>20, <2>2, <1>4
<1>8. QED
  BY <1>5, <1>6, <1>7

(* Nothing is left out of nothing.                                         *)
LEMMA WithoutNone ==
  ASSUME NEW S
  PROVE  Without(S, << >>) = << >>
<1> DEFINE t == << >>
<1>1. t \in Seq({})
  OBVIOUS
<1>2. Len(t) = 0
  OBVIOUS
<1> HIDE DEF t
<1>3. PICK c : /\ Without(S, t) = c[Len(t)]
               /\ c[0] = << >>
               /\ \A k \in 1 .. Len(t) : c[k] = IF t[k] \in S THEN c[k - 1] ELSE Append(c[k - 1], t[k])
  BY <1>1, WithoutChain
<1>4. QED
  BY <1>2, <1>3 DEF t

(* What Without does with one more element.                                *)
LEMMA WithoutIs ==
  ASSUME NEW B, NEW S, NEW s \in Seq(B), NEW e \in B
  PROVE  Without(S, Append(s, e)) = IF e \in S THEN Without(S, s) ELSE Append(Without(S, s), e)
<1>2. PICK c : /\ Without(S, s) = c[Len(s)]
               /\ c[0] = << >>
               /\ \A k \in 1 .. Len(s) : c[k] = IF s[k] \in S THEN c[k - 1] ELSE Append(c[k - 1], s[k])
  BY WithoutChain
<1> DEFINE t == Append(s, e)
<1>3. t \in Seq(B) /\ Len(t) = Len(s) + 1 /\ t[Len(s) + 1] = e /\ \A k \in 1 .. Len(s) : t[k] = s[k]
  OBVIOUS
<1> HIDE DEF t
<1>4. PICK d : /\ Without(S, t) = d[Len(t)]
               /\ d[0] = << >>
               /\ \A k \in 1 .. Len(t) : d[k] = IF t[k] \in S THEN d[k - 1] ELSE Append(d[k - 1], t[k])
  BY <1>3, WithoutChain
<1>5. d[Len(s)] = c[Len(s)]
  <2>1. Len(s) \in Nat /\ d[0] = c[0]
    BY <1>2, <1>4
  <2>2. \A k \in 1 .. Len(s) : d[k - 1] = c[k - 1] => d[k] = c[k]
    BY <1>2, <1>3, <1>4
  <2>3. QED
    BY <2>1, <2>2, ChainsAgree
<1>6. Without(S, t) = IF e \in S THEN d[Len(s)] ELSE Append(d[Len(s)], e)
  BY <1>3, <1>4
<1>7. QED
  BY <1>2, <1>5, <1>6 DEF t

(* Joining is associative.                                                 *)
Joined(a, b, c) == (a \o b) \o c = a \o (b \o c)

LEMMA JoinedIs == \A B : \A a, b, c \in Seq(B) : Joined(a, b, c)
<1> SUFFICES ASSUME NEW B, NEW a \in Seq(B), NEW b \in Seq(B), NEW c \in Seq(B) PROVE Joined(a, b, c)
  OBVIOUS
<1>1. (a \o b) \o c = a \o (b \o c)
  BY ConcatAssociative
<1>2. QED
  BY <1>1 DEF Joined

(* Appending to the second part appends to the whole.                      *)
LEMMA ConcatAppend ==
  ASSUME NEW B, NEW s \in Seq(B), NEW t \in Seq(B), NEW e \in B
  PROVE  s \o t \in Seq(B) /\ s \o Append(t, e) = Append(s \o t, e)
<1>1. s \o t \in Seq(B) /\ << e >> \in Seq(B)
  BY ConcatProperties
<1>2. Append(t, e) = t \o << e >> /\ Append(s \o t, e) = (s \o t) \o << e >>
  BY <1>1, AppendIsConcat
<1>3. (s \o t) \o << e >> = s \o (t \o << e >>)
  BY <1>1, ConcatAssociative
<1>4. QED
  BY <1>1, <1>2, <1>3, Zenon

(* A computation of n steps in A, its values in a row.                     *)
ChainsTo(c, n, base, step) == c[0] = base /\ \A k \in 1 .. n : c[k] = step[k][c[k - 1]]

(* Such a computation exists.                                              *)
LEMMA ChainExists ==
  ASSUME NEW n \in Nat, NEW A, NEW base \in A, NEW step \in [ 1 .. n -> [ A -> A ] ]
  PROVE  \E c \in [ 0 .. n -> A ] : ChainsTo(c, n, base, step)
<1> DEFINE Has(m) == \E c \in [ 0 .. m -> A ] : ChainsTo(c, m, base, step)
           K == { m \in Nat : m <= n => Has(m) }
<1>1. Has(0)
  <2> DEFINE c == [ k \in 0 .. 0 |-> base ]
  <2>1. c \in [ 0 .. 0 -> A ] /\ c[0] = base
    OBVIOUS
  <2> HIDE DEF c
  <2>2. QED
    BY <2>1 DEF ChainsTo
<1>2. ASSUME NEW m \in Nat, m + 1 <= n, Has(m) PROVE Has(m + 1)
  <2>1. PICK c \in [ 0 .. m -> A ] : ChainsTo(c, m, base, step)
    BY <1>2
  <2> DEFINE d == [ k \in 0 .. (m + 1) |-> IF k = m + 1 THEN step[m + 1][c[m]] ELSE c[k] ]
  <2>2. step[m + 1][c[m]] \in A
    BY <1>2
  <2>3. d \in [ 0 .. (m + 1) -> A ]
    BY <2>2
  <2>4. d[0] = base
    BY <2>1 DEF ChainsTo
  <2>5. ASSUME NEW k \in 1 .. (m + 1) PROVE d[k] = step[k][d[k - 1]]
    <3>1. d[k - 1] = c[k - 1] /\ (k = m + 1 \/ k \in 1 .. m)
      OBVIOUS
    <3>2. CASE k = m + 1
      BY <3>1, <3>2
    <3>3. CASE k \in 1 .. m
      BY <3>1, <3>3, <2>1 DEF ChainsTo
    <3>4. QED
      BY <3>1, <3>2, <3>3
  <2> HIDE DEF d
  <2>6. QED
    BY <2>3, <2>4, <2>5 DEF ChainsTo
<1>3. K = Nat
  <2> HIDE DEF Has
  <2>1. K \in SUBSET Nat /\ 0 \in K /\ \A k \in K : k + 1 \in K
    BY <1>1, <1>2
  <2> HIDE DEF K
  <2>2. QED
    BY <2>1, NatSet
<1>4. Has(n)
  <2> HIDE DEF Has
  <2> QED BY <1>3
<1>5. QED
  BY <1>4

(* FlattenSeq goes through the lists from the first to the last.           *)
LEMMA FlattenChain ==
  ASSUME NEW B, NEW ss \in Seq(Seq(B))
  PROVE  \E c : /\ FlattenSeq(ss) = c[Len(ss)]
                /\ c[0] = << >>
                /\ \A k \in 1 .. Len(ss) : c[k] = c[k - 1] \o ss[k]
<1> DEFINE n == Len(ss)
           step == [ k \in 1 .. n |-> [ a \in Seq(B) |-> a \o ss[k] ] ]
           Unfolded(g) == [ i \in 1 .. n |-> IF i = 1 THEN ss[i] ELSE g[i - 1] \o ss[i] ]
           flatten == CHOOSE g : g = Unfolded(g)
           none == << >>
<1>0. n \in Nat /\ \A k \in 1 .. n : ss[k] \in Seq(B)
  OBVIOUS
<1>1. CASE n = 0
  <2> DEFINE c == [ k \in 0 .. 0 |-> << >> ]
  <2>1. ss = << >>
    BY <1>1
  <2>2. FlattenSeq(ss) = << >>
    BY <1>1, <2>1 DEF FlattenSeq
  <2>3. c[0] = << >> /\ 1 .. Len(ss) = {} /\ Len(ss) = 0
    BY <1>1
  <2> HIDE DEF c
  <2>4. QED
    BY <2>2, <2>3
<1>2. CASE n # 0
  <2>1. FlattenSeq(ss) = flatten[n]
    BY <1>2 DEF FlattenSeq
  <2>2. PICK f : f = Unfolded(f)
    <3>1. none \in Seq(B) /\ step \in [ 1 .. n -> [ Seq(B) -> Seq(B) ] ]
      BY <1>0
    <3>2. \A k \in 1 .. n, a \in Seq(B) : step[k][a] = a \o ss[k]
      OBVIOUS
    <3> HIDE DEF none, step, n
    <3>3. PICK c \in [ 0 .. n -> Seq(B) ] : ChainsTo(c, n, none, step)
      BY <3>1, <1>0, ChainExists
    <3> DEFINE g == [ k \in 1 .. n |-> c[k] ]
    <3>4. ASSUME NEW k \in 1 .. n PROVE c[k] = c[k - 1] \o ss[k]
      <4>1. k - 1 \in 0 .. n
        BY <1>0
      <4>2. QED
        BY <4>1, <3>2, <3>3 DEF ChainsTo
    <3>5. ASSUME NEW k \in 1 .. n PROVE g[k] = IF k = 1 THEN ss[k] ELSE g[k - 1] \o ss[k]
      <4>1. CASE k = 1
        <5>1. c[1] = c[0] \o ss[1] /\ c[0] = none
          <6>1. 1 \in 1 .. n /\ 1 - 1 = 0
            BY <1>0, <4>1
          <6>2. QED
            BY <6>1, <3>3, <3>4, Zenon DEF ChainsTo
        <5>2. none \o ss[1] = ss[1]
          BY <1>0, <4>1, ConcatEmptySeq DEF none
        <5>3. g[1] = c[1]
          BY <4>1
        <5>4. QED
          BY <4>1, <5>1, <5>2, <5>3, Zenon
      <4>2. CASE k # 1
        <5>1. k - 1 \in 1 .. n
          BY <1>0, <4>2
        <5>2. QED
          BY <4>2, <5>1, <3>4
      <4>3. QED
        BY <4>1, <4>2
    <3>6. g = Unfolded(g)
      BY <3>5
    <3>7. QED
      BY <3>6
  <2>3. flatten = Unfolded(flatten)
    BY <2>2
  <2>4. \A k \in 1 .. n : flatten[k] = IF k = 1 THEN ss[k] ELSE flatten[k - 1] \o ss[k]
    <3> HIDE DEF flatten
    <3> QED BY <2>3
  <2> HIDE DEF flatten
  <2> DEFINE c == [ k \in 0 .. n |-> IF k = 0 THEN << >> ELSE flatten[k] ]
  <2>5. FlattenSeq(ss) = c[n] /\ c[0] = << >>
    BY <1>0, <1>2, <2>1
  <2>6. ASSUME NEW k \in 1 .. n PROVE c[k] = c[k - 1] \o ss[k]
    <3>1. CASE k = 1
      <4>1. c[k] = ss[k] /\ c[k - 1] = none
        BY <1>0, <3>1, <2>4
      <4>2. none \o ss[k] = ss[k]
        BY <1>0, <3>1, ConcatEmptySeq DEF none
      <4> HIDE DEF c
      <4>3. QED
        BY <4>1, <4>2, Zenon
    <3>2. CASE k # 1
      <4>1. c[k] = flatten[k] /\ c[k - 1] = flatten[k - 1]
        BY <1>0, <3>2
      <4>2. flatten[k] = flatten[k - 1] \o ss[k]
        BY <3>2, <2>4, Zenon
      <4> HIDE DEF c
      <4>3. QED
        BY <4>1, <4>2, Zenon
    <3>3. QED
      BY <3>1, <3>2
  <2> HIDE DEF c
  <2>7. QED
    BY <2>5, <2>6
<1>3. QED
  BY <1>1, <1>2

(* One more list is joined at the end.                                     *)
LEMMA FlattenIs ==
  ASSUME NEW B, NEW ss \in Seq(Seq(B)), NEW x \in Seq(B)
  PROVE  /\ FlattenSeq(<< >>) = << >>
         /\ FlattenSeq(Append(ss, x)) = FlattenSeq(ss) \o x
<1>1. FlattenSeq(<< >>) = << >>
  BY DEF FlattenSeq
<1>2. PICK c : /\ FlattenSeq(ss) = c[Len(ss)]
               /\ c[0] = << >>
               /\ \A k \in 1 .. Len(ss) : c[k] = c[k - 1] \o ss[k]
  BY FlattenChain
<1> DEFINE t == Append(ss, x)
<1>3. t \in Seq(Seq(B)) /\ Len(t) = Len(ss) + 1 /\ t[Len(ss) + 1] = x /\ \A k \in 1 .. Len(ss) : t[k] = ss[k]
  OBVIOUS
<1> HIDE DEF t
<1>4. PICK d : /\ FlattenSeq(t) = d[Len(t)]
               /\ d[0] = << >>
               /\ \A k \in 1 .. Len(t) : d[k] = d[k - 1] \o t[k]
  BY <1>3, FlattenChain
<1>5. d[Len(ss)] = c[Len(ss)]
  <2>1. Len(ss) \in Nat /\ d[0] = c[0]
    BY <1>2, <1>4
  <2>2. ASSUME NEW k \in 1 .. Len(ss), d[k - 1] = c[k - 1] PROVE d[k] = c[k]
    <3>1. k \in 1 .. Len(t) /\ t[k] = ss[k]
      BY <1>3
    <3>2. d[k] = d[k - 1] \o t[k] /\ c[k] = c[k - 1] \o ss[k]
      BY <3>1, <1>2, <1>4, Zenon
    <3>3. QED
      BY <2>2, <3>1, <3>2, Zenon
  <2>3. QED
    BY <2>1, <2>2, ChainsAgree
<1>6. FlattenSeq(t) = d[Len(ss)] \o x
  <2>1. Len(t) \in 1 .. Len(t) /\ Len(t) - 1 = Len(ss) /\ t[Len(t)] = x
    BY <1>3
  <2>2. d[Len(t)] = d[Len(t) - 1] \o t[Len(t)]
    BY <2>1, <1>4, Zenon
  <2>3. QED
    BY <2>1, <2>2, <1>4, Zenon
<1>7. FlattenSeq(t) = FlattenSeq(ss) \o x
  BY <1>2, <1>5, <1>6, Zenon
<1>8. QED
  BY <1>1, <1>7, Zenon DEF t

(* What is left holds nothing of S.                                        *)
LEMMA WithoutType ==
  ASSUME NEW B, NEW S, NEW s \in Seq(B)
  PROVE  Without(S, s) \in Seq(B \ S)
<1> DEFINE K == { r \in Seq(B) : Without(S, r) \in Seq(B \ S) }
           none == << >>
<1>1. none \in K
  <2>1. none \in Seq(B) /\ none \in Seq(B \ S)
    OBVIOUS
  <2>2. CASE B = {}
    <3>1. Without(S, none) = none
      BY WithoutNone
    <3>2. QED
      BY <2>1, <3>1
  <2>3. QED
    BY <2>1, WithoutNone
<1>2. ASSUME NEW r \in K, NEW e \in B PROVE Append(r, e) \in K
  <2>1. Append(r, e) \in Seq(B)
    OBVIOUS
  <2>2. Without(S, Append(r, e)) = IF e \in S THEN Without(S, r) ELSE Append(Without(S, r), e)
    BY WithoutIs
  <2>3. CASE e \in S
    BY <2>1, <2>2, <2>3
  <2>4. CASE e \notin S
    <3>1. Append(Without(S, r), e) \in Seq(B \ S)
      BY <2>4, AppendProperties
    <3>2. QED
      BY <2>1, <2>2, <2>4, <3>1
  <2>5. QED
    BY <2>3, <2>4
<1>3. K = Seq(B)
  <2>1. K \in SUBSET Seq(B)
    OBVIOUS
  <2>2. << >> \in K
    BY <1>1
  <2> HIDE DEF K
  <2>3. QED
    BY <2>1, <2>2, <1>2, SeqSet
<1>4. QED
  BY <1>3

(* Leaving out goes through the parts of a whole.                          *)
LEMMA WithoutConcat ==
  ASSUME NEW B, NEW S, NEW s \in Seq(B), NEW t \in Seq(B)
  PROVE  Without(S, s \o t) = Without(S, s) \o Without(S, t)
<1> DEFINE K == { r \in Seq(B) : Without(S, s \o r) = Without(S, s) \o Without(S, r) }
           none == << >>
<1>0. Without(S, s) \in Seq(B)
  <2>1. Without(S, s) \in Seq(B \ S) /\ B \ S \subseteq B
    BY WithoutType
  <2>2. QED
    BY <2>1, SeqMonotonic
<1>1. none \in K
  <2>1. none \in Seq(B)
    OBVIOUS
  <2>2. s \o none = s /\ Without(S, s) \o none = Without(S, s)
    BY <1>0, ConcatEmptySeq
  <2>3. Without(S, none) = none
    BY WithoutNone
  <2> HIDE DEF none
  <2>4. Without(S, s \o none) = Without(S, s) \o Without(S, none)
    BY <2>2, <2>3, Zenon
  <2>5. QED
    BY <2>1, <2>4
<1>2. ASSUME NEW r \in K, NEW e \in B PROVE Append(r, e) \in K
  <2>0. r \in Seq(B) /\ Without(S, s \o r) = Without(S, s) \o Without(S, r)
    OBVIOUS
  <2>1. Append(r, e) \in Seq(B)
    BY <2>0
  <2>2. s \o r \in Seq(B) /\ s \o Append(r, e) = Append(s \o r, e)
    BY <2>0, ConcatAppend
  <2>3. Without(S, Append(r, e)) = IF e \in S THEN Without(S, r) ELSE Append(Without(S, r), e)
    BY <2>0, WithoutIs
  <2>4. Without(S, Append(s \o r, e)) = IF e \in S THEN Without(S, s \o r) ELSE Append(Without(S, s \o r), e)
    <3> DEFINE q == s \o r
    <3>1. q \in Seq(B)
      BY <2>2
    <3> HIDE DEF q
    <3>2. Without(S, Append(q, e)) = IF e \in S THEN Without(S, q) ELSE Append(Without(S, q), e)
      BY <3>1, WithoutIs
    <3>3. QED
      BY <3>2 DEF q
  <2>5. Without(S, r) \in Seq(B)
    <3>1. Without(S, r) \in Seq(B \ S) /\ B \ S \subseteq B
      BY <2>0, WithoutType
    <3>2. QED
      BY <3>1, SeqMonotonic
  <2>6. Without(S, s) \o Append(Without(S, r), e) = Append(Without(S, s) \o Without(S, r), e)
    BY <1>0, <2>5, ConcatAppend
  <2>7. CASE e \in S
    BY <2>0, <2>1, <2>2, <2>3, <2>4, <2>7, Zenon
  <2>8. CASE e \notin S
    <3>1. Without(S, s \o Append(r, e)) = Without(S, s) \o Without(S, Append(r, e))
      BY <2>0, <2>2, <2>3, <2>4, <2>6, <2>8, Zenon
    <3>2. QED
      BY <2>1, <3>1, Zenon
  <2>9. QED
    BY <2>7, <2>8
<1>3. K = Seq(B)
  <2>1. K \in SUBSET Seq(B)
    OBVIOUS
  <2>2. << >> \in K
    BY <1>1
  <2> HIDE DEF K
  <2>3. QED
    BY <2>1, <2>2, <1>2, SeqSet
<1>4. QED
  BY <1>3

(* To leave out some first changes nothing.                                *)
LEMMA WithoutTwice ==
  ASSUME NEW B, NEW S, NEW R, S \subseteq R, NEW s \in Seq(B)
  PROVE  Without(R, Without(S, s)) = Without(R, s)
<1> DEFINE K == { r \in Seq(B) : Without(R, Without(S, r)) = Without(R, r) }
           none == << >>
<1>1. none \in K
  <2>1. none \in Seq(B)
    OBVIOUS
  <2>2. Without(S, none) = none /\ Without(R, none) = none
    BY WithoutNone
  <2> HIDE DEF none
  <2>3. QED
    BY <2>1, <2>2, Zenon
<1>2. ASSUME NEW r \in K, NEW e \in B PROVE Append(r, e) \in K
  <2>0. r \in Seq(B) /\ Without(R, Without(S, r)) = Without(R, r)
    OBVIOUS
  <2>1. Append(r, e) \in Seq(B)
    BY <2>0
  <2>2. Without(S, Append(r, e)) = IF e \in S THEN Without(S, r) ELSE Append(Without(S, r), e)
    BY <2>0, WithoutIs
  <2>3. Without(R, Append(r, e)) = IF e \in R THEN Without(R, r) ELSE Append(Without(R, r), e)
    BY <2>0, WithoutIs
  <2>4. Without(S, r) \in Seq(B)
    <3>1. Without(S, r) \in Seq(B \ S) /\ B \ S \subseteq B
      BY <2>0, WithoutType
    <3>2. QED
      BY <3>1, SeqMonotonic
  <2>5. Without(R, Append(Without(S, r), e)) = IF e \in R THEN Without(R, Without(S, r)) ELSE Append(Without(R, Without(S, r)), e)
    BY <2>4, WithoutIs
  <2>6. CASE e \in S
    <3>1. e \in R
      BY <2>6
    <3>2. QED
      BY <2>0, <2>1, <2>2, <2>3, <2>6, <3>1, Zenon
  <2>7. CASE e \notin S
    <3>1. Without(R, Without(S, Append(r, e))) = Without(R, Append(r, e))
      BY <2>0, <2>2, <2>3, <2>5, <2>7, Zenon
    <3>2. QED
      BY <2>1, <3>1, Zenon
  <2>8. QED
    BY <2>6, <2>7
<1>3. K = Seq(B)
  <2>1. K \in SUBSET Seq(B)
    OBVIOUS
  <2>2. << >> \in K
    BY <1>1
  <2> HIDE DEF K
  <2>3. QED
    BY <2>1, <2>2, <1>2, SeqSet
<1>4. QED
  BY <1>3

(* A list in front of the others.                                          *)
LEMMA FlattenCons ==
  ASSUME NEW B, NEW x \in Seq(B), NEW ss \in Seq(Seq(B))
  PROVE  FlattenSeq(<< x >> \o ss) = x \o FlattenSeq(ss) /\ FlattenSeq(ss) \in Seq(B)
<1> DEFINE K == { r \in Seq(Seq(B)) : FlattenSeq(<< x >> \o r) = x \o FlattenSeq(r) /\ FlattenSeq(r) \in Seq(B) }
           none == << >>
           one == << x >>
<1>0. one \in Seq(Seq(B))
  OBVIOUS
<1>1. none \in K
  <2>1. none \in Seq(Seq(B)) /\ none \in Seq(B)
    OBVIOUS
  <2>2. FlattenSeq(none) = none /\ FlattenSeq(Append(none, x)) = FlattenSeq(none) \o x
    BY <2>1, FlattenIs
  <2>3. Append(none, x) = one /\ one \o none = one
    <3>1. Append(none, x) = one
      OBVIOUS
    <3>2. QED
      BY <3>1, <1>0, ConcatEmptySeq
  <2>4. none \o x = x /\ x \o none = x
    BY ConcatEmptySeq
  <2> HIDE DEF none, one
  <2>5. FlattenSeq(one \o none) = x \o FlattenSeq(none) /\ FlattenSeq(none) \in Seq(B)
    BY <2>1, <2>2, <2>3, <2>4, Zenon
  <2>6. QED
    BY <2>1, <2>5, Zenon DEF one
<1>2. ASSUME NEW r \in K, NEW e \in Seq(B) PROVE Append(r, e) \in K
  <2>0. r \in Seq(Seq(B)) /\ FlattenSeq(one \o r) = x \o FlattenSeq(r) /\ FlattenSeq(r) \in Seq(B)
    OBVIOUS
  <2> HIDE DEF one
  <2>1. Append(r, e) \in Seq(Seq(B))
    BY <2>0
  <2>2. one \o r \in Seq(Seq(B)) /\ one \o Append(r, e) = Append(one \o r, e)
    BY <1>0, <2>0, ConcatAppend
  <2>3. FlattenSeq(Append(r, e)) = FlattenSeq(r) \o e
    BY <2>0, FlattenIs
  <2>4. FlattenSeq(Append(one \o r, e)) = FlattenSeq(one \o r) \o e
    BY <2>2, FlattenIs
  <2>5. (x \o FlattenSeq(r)) \o e = x \o (FlattenSeq(r) \o e) /\ FlattenSeq(r) \o e \in Seq(B)
    <3> DEFINE f == FlattenSeq(r)
    <3>1. f \in Seq(B)
      BY <2>0
    <3> HIDE DEF f
    <3>2. Joined(x, f, e) /\ f \o e \in Seq(B)
      BY <3>1, JoinedIs, ConcatProperties
    <3>3. QED
      BY <3>2, Zenon DEF Joined, f
  <2>6. QED
    BY <2>0, <2>1, <2>2, <2>3, <2>4, <2>5, Zenon DEF one
<1>3. K = Seq(Seq(B))
  <2>1. K \in SUBSET Seq(Seq(B))
    OBVIOUS
  <2>2. << >> \in K
    BY <1>1
  <2> HIDE DEF K
  <2>3. QED
    BY <2>1, <2>2, <1>2, SeqSet
<1>4. QED
  BY <1>3

-----------------------------------------------------------------------------
(***************************************************************************)
(* Translation: what Converse is sent, what a client puts together of a    *)
(* stream, the limits, the tools declared and the reply enforced.          *)
(***************************************************************************)

(* Blocks, and turns: what messages are made of.                           *)
Wording == { "blank", "said", "(empty)", "(start)" }
Block   == { Use(t) : t \in Tools } \cup { Text(t) : t \in Wording } \cup { ToolResult(t) : t \in Wording }
Turn    == [ role : { "user", "assistant" }, content : Seq(Block) ]

Blank  == Text("blank")
Fillers == { Text(t) : t \in { "blank", "(empty)", "(start)" } }

(* What a message says are blocks (openai_to_converse).                    *)
LEMMA BlocksAre ==
  ASSUME NEW m \in Message
  PROVE  Blocks(m) \in Seq(Block) /\ Speaker(m) \in { "user", "assistant" }
<1>1. Speaker(m) \in { "user", "assistant" }
  BY DEF Speaker
<1>2. m.text \in { "blank", "said" } /\ \E n \in Nat : m.calls \in [ 1 .. n -> Tools ]
  <2>1. CASE m.role = "assistant"
    BY <2>1 DEF Message, Texts
  <2>2. CASE m.role # "assistant"
    <3>1. << >> \in [ 1 .. 0 -> Tools ]
      OBVIOUS
    <3>2. QED
      BY <2>2, <3>1 DEF Message, Texts
  <2>3. QED
    BY <2>1, <2>2
<1>3. CASE m.role = "tool"
  <2>1. ToolResult(IF m.text = "blank" THEN "(empty)" ELSE m.text) \in Block
    BY <1>2 DEF Block, Wording
  <2>2. Blocks(m) = << ToolResult(IF m.text = "blank" THEN "(empty)" ELSE m.text) >>
    BY <1>3 DEF Blocks
  <2> DEFINE b == ToolResult(IF m.text = "blank" THEN "(empty)" ELSE m.text)
  <2> HIDE DEF b
  <2>3. << b >> \in Seq(Block)
    BY <2>1 DEF b
  <2>4. QED
    BY <1>1, <2>2, <2>3 DEF b
<1>4. CASE m.role # "tool"
  <2> DEFINE calls == [ i \in DOMAIN m.calls |-> Use(m.calls[i]) ]
  <2>1. calls \in Seq(Block)
    <3>1. PICK n \in Nat : m.calls \in [ 1 .. n -> Tools ]
      BY <1>2
    <3>2. \A i \in 1 .. n : Use(m.calls[i]) \in Block
      BY <3>1 DEF Block
    <3>3. calls \in [ 1 .. n -> Block ]
      BY <3>1, <3>2
    <3> HIDE DEF calls
    <3>4. QED
      BY <3>3
  <2>2. Text(m.text) \in Block
    BY <1>2 DEF Block, Wording
  <2> DEFINE b == Text(m.text)
  <2>3. Blocks(m) = << b >> \o calls
    BY <1>4 DEF Blocks
  <2> HIDE DEF b, calls
  <2>4. << b >> \o calls \in Seq(Block)
    <3>1. << b >> \in Seq(Block)
      BY <2>2 DEF b
    <3>2. QED
      BY <2>1, <3>1, ConcatProperties
  <2>5. QED
    BY <1>1, <2>3, <2>4
<1>5. QED
  BY <1>3, <1>4

(* The placeholders are fillers, and none is blank.                        *)
LEMMA WordsAre ==
  /\ Blank \in Block /\ Text("(empty)") \in Block /\ Text("(start)") \in Block
  /\ Blank \in Fillers /\ Text("(empty)") \in Fillers /\ Text("(start)") \in Fillers
  /\ Text("(empty)") # Blank /\ Text("(start)") # Blank
BY DEF Block, Wording, Blank, Fillers, Text

(* What _push() keeps is not empty and has no blank text; all it adds is a *)
(* placeholder.                                                            *)
LEMMA KeptIs ==
  ASSUME NEW bl \in Seq(Block)
  PROVE  /\ Kept(bl) \in Seq(Block \ {Blank}) /\ Kept(bl) # << >>
         /\ Said(Kept(bl)) = Said(bl)
<1> DEFINE said == Without({ Blank }, bl)
           empty == Text("(empty)")
           none == << >>
<1>1. said \in Seq(Block \ { Blank })
  BY WithoutType
<1>2. Kept(bl) = IF said = none THEN << empty >> ELSE said
  BY DEF Kept, Blank
<1>3. \A s : Said(s) = Without(Fillers, s)
  BY DEF Said, Fillers
<1>4. Said(said) = Said(bl)
  <2>1. { Blank } \subseteq Fillers
    BY WordsAre
  <2>2. Without(Fillers, Without({ Blank }, bl)) = Without(Fillers, bl)
    BY <2>1, WithoutTwice
  <2>3. QED
    BY <1>3, <2>2
<1>5. << empty >> \in Seq(Block \ { Blank }) /\ << empty >> # << >>
  <2>1. empty \in Block \ { Blank }
    BY WordsAre
  <2> HIDE DEF empty
  <2>2. QED
    BY <2>1
<1>6. Said(<< empty >>) = none /\ Said(none) = none
  <2>1. none \in Seq(Block) /\ empty \in Block /\ empty \in Fillers
    BY WordsAre
  <2> HIDE DEF empty
  <2>2. Append(none, empty) = << empty >>
    OBVIOUS
  <2>3. Without(Fillers, none) = none
    BY WithoutNone
  <2> HIDE DEF none
  <2>4. Without(Fillers, Append(none, empty)) = Without(Fillers, none)
    BY <2>1, WithoutIs
  <2>5. QED
    BY <1>3, <2>2, <2>3, <2>4
<1> HIDE DEF said, none, empty
<1>7. CASE said = none
  <2>1. Kept(bl) = << empty >>
    BY <1>2, <1>7
  <2>2. Said(Kept(bl)) = Said(bl)
    BY <1>4, <1>6, <1>7, <2>1
  <2>3. QED
    BY <1>5, <2>1, <2>2
<1>8. CASE said # none
  BY <1>1, <1>2, <1>4, <1>8 DEF none
<1>9. QED
  BY <1>7, <1>8

Roles == { "user", "assistant" }

(* A conversation as Converse takes it, from whoever speaks first.         *)
Alternates(msgs) ==
  /\ msgs \in Seq(Turn)
  /\ \A i \in 1 .. Len(msgs) : msgs[i].content \in Seq(Block \ {Blank}) /\ msgs[i].content # << >>
  /\ \A i \in 1 .. Len(msgs) - 1 : msgs[i].role # msgs[i + 1].role

(* A sequence that is not empty, but for its last element.                 *)
LEMMA FrontLast ==
  ASSUME NEW B, NEW s \in Seq(B), s # << >>
  PROVE  \E r \in Seq(B), e \in B : /\ s = Append(r, e) /\ Front(s) = r /\ Last(s) = e
<1>1. PICK r \in Seq(B), e \in B : s = Append(r, e)
  BY SequenceEmptyOrAppend
<1>2. Len(s) = Len(r) + 1 /\ s[Len(s)] = e /\ Len(r) \in Nat
  BY <1>1, AppendProperties
<1>3. SubSeq(s, 1, Len(s) - 1) = r
  <2>1. s = r \o << e >> /\ << e >> \in Seq(B)
    BY <1>1, AppendIsConcat
  <2>2. CASE r = << >>
    BY <1>2, <2>2, SubSeqEmpty
  <2>3. CASE r # << >>
    <3>1. 1 \in 1 .. Len(r) /\ Len(r) \in 1 .. Len(r)
      BY <2>3, EmptySeq
    <3>2. SubSeq(r \o << e >>, 1, Len(r)) = SubSeq(r, 1, Len(r))
      BY <2>1, <3>1, SubSeqOfConcat1
    <3>3. SubSeq(r, 1, Len(r)) = r
      BY SubSeqFull
    <3>4. Len(s) - 1 = Len(r)
      BY <1>2
    <3>5. QED
      BY <2>1, <3>2, <3>3, <3>4, Zenon
  <2>4. QED
    BY <2>2, <2>3
<1>4. QED
  BY <1>1, <1>2, <1>3 DEF Front, Last

(* The contents of one turn more, at the end or at the beginning.          *)
LEMMA ContentsIs ==
  ASSUME NEW msgs \in Seq(Turn), NEW t \in Turn
  PROVE  /\ Contents(<< >>) = << >>
         /\ Contents(Append(msgs, t)) = Contents(msgs) \o t.content
         /\ Contents(<< t >> \o msgs) = t.content \o Contents(msgs)
         /\ Contents(msgs) \in Seq(Block)
<1> DEFINE lists(ms) == [ i \in DOMAIN ms |-> ms[i].content ]
<1>1. ASSUME NEW ms \in Seq(Turn) PROVE lists(ms) \in Seq(Seq(Block))
        /\ Contents(ms) = FlattenSeq(lists(ms)) /\ Len(lists(ms)) = Len(ms)
  <2>1. ASSUME NEW i \in 1 .. Len(ms) PROVE ms[i].content \in Seq(Block)
    <3>1. ms[i] \in Turn
      BY ElementOfSeq
    <3>2. QED
      BY <3>1 DEF Turn
  <2>2. lists(ms) \in [ 1 .. Len(ms) -> Seq(Block) ]
    BY <2>1
  <2>3. lists(ms) \in Seq(Seq(Block)) /\ Len(lists(ms)) = Len(ms)
    <3> DEFINE q == lists(ms)
    <3>1. q \in [ 1 .. Len(ms) -> Seq(Block) ] /\ Len(ms) \in Nat
      BY <2>2
    <3> HIDE DEF q
    <3>2. q \in Seq(Seq(Block)) /\ Len(q) = Len(ms)
      BY <3>1
    <3>3. QED
      BY <3>2 DEF q
  <2>4. QED
    BY <2>3 DEF Contents
<1>2. t.content \in Seq(Block)
  BY DEF Turn
<1>3. lists(Append(msgs, t)) = Append(lists(msgs), t.content)
  <2> DEFINE a == lists(Append(msgs, t))
             b == Append(lists(msgs), t.content)
  <2>1. Append(msgs, t) \in Seq(Turn) /\ Len(Append(msgs, t)) = Len(msgs) + 1
    BY AppendProperties
  <2>2. a \in Seq(Seq(Block)) /\ Len(a) = Len(msgs) + 1
    BY <1>1, <2>1
  <2>3. b \in Seq(Seq(Block)) /\ Len(b) = Len(msgs) + 1
    BY <1>1, <1>2, AppendProperties
  <2>4. ASSUME NEW i \in 1 .. Len(msgs) + 1 PROVE a[i] = b[i]
    <3>1. a[i] = Append(msgs, t)[i].content
      BY <2>1
    <3>2. CASE i = Len(msgs) + 1
      BY <3>1, <3>2, <1>1, <1>2, AppendProperties
    <3>3. CASE i \in 1 .. Len(msgs)
      <4>1. Append(msgs, t)[i] = msgs[i]
        BY <3>3, AppendProperties
      <4>2. b[i] = lists(msgs)[i]
        BY <3>3, <1>1, <1>2, AppendProperties
      <4>3. QED
        BY <3>1, <3>3, <4>1, <4>2
    <3>4. QED
      BY <3>2, <3>3
  <2> HIDE DEF a, b
  <2>5. a = b
    BY <2>2, <2>3, <2>4, SeqEqual
  <2>6. QED
    BY <2>5 DEF a, b
<1>4. lists(<< t >> \o msgs) = << t.content >> \o lists(msgs)
  <2> DEFINE u == << t >> \o msgs
             a == lists(u)
             one == << t.content >>
             b == one \o lists(msgs)
  <2>0. << t >> \in Seq(Turn) /\ Len(<< t >>) = 1 /\ one \in Seq(Seq(Block))
          /\ Len(one) = 1 /\ one[1] = t.content
    BY <1>2
  <2>1. u \in Seq(Turn) /\ Len(u) = Len(msgs) + 1
          /\ \A i \in 1 .. Len(msgs) + 1 : u[i] = IF i = 1 THEN t ELSE msgs[i - 1]
    BY <2>0
  <2>2. a \in Seq(Seq(Block)) /\ Len(a) = Len(msgs) + 1
    BY <1>1, <2>1
  <2>3. b \in Seq(Seq(Block)) /\ Len(b) = Len(msgs) + 1
          /\ \A i \in 1 .. Len(msgs) + 1 : b[i] = IF i = 1 THEN t.content ELSE lists(msgs)[i - 1]
    <3> DEFINE q == lists(msgs)
    <3>1. q \in Seq(Seq(Block)) /\ Len(q) = Len(msgs)
      BY <1>1
    <3> HIDE DEF q, one
    <3>2. one \o q \in Seq(Seq(Block)) /\ Len(one \o q) = Len(msgs) + 1
           /\ \A i \in 1 .. Len(msgs) + 1 : (one \o q)[i] = IF i = 1 THEN t.content ELSE q[i - 1]
      <4>1. /\ one \o q \in Seq(Seq(Block)) /\ Len(one \o q) = 1 + Len(msgs)
            /\ \A i \in 1 .. 1 + Len(msgs) : (one \o q)[i] = IF i <= 1 THEN one[i] ELSE q[i - 1]
        <5> DEFINE S == Seq(Block)
        <5>1. one \in Seq(S) /\ q \in Seq(S) /\ Len(one) = 1 /\ Len(q) = Len(msgs)
          BY <2>0, <3>1
        <5> HIDE DEF S
        <5>2. one \o q \in Seq(S) /\ Len(one \o q) = Len(one) + Len(q)
              /\ \A i \in 1 .. Len(one) + Len(q) : (one \o q)[i] = IF i <= Len(one) THEN one[i] ELSE q[i - Len(one)]
          BY <5>1, ConcatProperties
        <5>3. QED
          BY <5>1, <5>2 DEF S
      <4>2. QED
        BY <2>0, <4>1
    <3>3. QED
      BY <3>2 DEF q
  <2>4. ASSUME NEW i \in 1 .. Len(msgs) + 1 PROVE a[i] = b[i]
    <3>1. a[i] = u[i].content
      BY <2>1
    <3>2. i # 1 => lists(msgs)[i - 1] = msgs[i - 1].content
      OBVIOUS
    <3> HIDE DEF a, b, u
    <3>3. QED
      BY <2>1, <2>3, <3>1, <3>2
  <2> HIDE DEF a, b, u, one
  <2>5. a = b
    BY <2>2, <2>3, <2>4, SeqEqual
  <2>6. QED
    BY <2>5 DEF a, b, u, one
<1>5. Contents(<< >>) = << >>
  <2> DEFINE none == << >>
             l == lists(none)
  <2>1. l = << >>
    OBVIOUS
  <2>2. Contents(none) = FlattenSeq(l)
    BY DEF Contents
  <2>3. FlattenSeq(<< >>) = << >>
    BY DEF FlattenSeq
  <2>4. QED
    BY <2>1, <2>2, <2>3
<1>6. /\ Append(msgs, t) \in Seq(Turn) /\ << t >> \o msgs \in Seq(Turn)
  <2>1. << t >> \in Seq(Turn)
    OBVIOUS
  <2>2. QED
    BY <2>1, AppendProperties, ConcatProperties
<1> HIDE DEF lists
<1>7. lists(msgs) \in Seq(Seq(Block)) /\ Contents(msgs) = FlattenSeq(lists(msgs))
  BY <1>1
<1>8. Contents(Append(msgs, t)) = Contents(msgs) \o t.content
  <2>1. FlattenSeq(Append(lists(msgs), t.content)) = FlattenSeq(lists(msgs)) \o t.content
    BY <1>2, <1>7, FlattenIs
  <2>2. Contents(Append(msgs, t)) = FlattenSeq(lists(Append(msgs, t)))
    BY <1>1, <1>6
  <2>3. QED
    BY <1>3, <1>7, <2>1, <2>2, Zenon
<1>9. Contents(<< t >> \o msgs) = t.content \o Contents(msgs) /\ Contents(msgs) \in Seq(Block)
  <2>1. FlattenSeq(<< t.content >> \o lists(msgs)) = t.content \o FlattenSeq(lists(msgs))
          /\ FlattenSeq(lists(msgs)) \in Seq(Block)
    BY <1>2, <1>7, FlattenCons
  <2>2. Contents(<< t >> \o msgs) = FlattenSeq(lists(<< t >> \o msgs))
    BY <1>1, <1>6
  <2>3. QED
    BY <1>4, <1>7, <2>1, <2>2, Zenon
<1>10. QED
  BY <1>5, <1>8, <1>9, Zenon

(* _push(): proper turns stay proper, and what is kept of the blocks comes *)
(* to the end of what was said.                                            *)
LEMMA PushIs ==
  ASSUME NEW msgs, Alternates(msgs), NEW role \in Roles, NEW bl \in Seq(Block)
  PROVE  /\ Alternates(Push(msgs, role, bl))
         /\ Contents(Push(msgs, role, bl)) = Contents(msgs) \o Kept(bl)
<1> DEFINE kept == Kept(bl)
<1>0. kept \in Seq(Block \ {Blank}) /\ kept # << >> /\ kept \in Seq(Block) /\ msgs \in Seq(Turn)
  <2>1. Block \ {Blank} \subseteq Block
    OBVIOUS
  <2>2. QED
    BY <2>1, KeptIs, SeqMonotonic DEF Alternates
<1> HIDE DEF kept
<1>1. CASE msgs # << >> /\ Last(msgs).role = role
  <2>1. PICK r \in Seq(Turn), e \in Turn : msgs = Append(r, e) /\ Front(msgs) = r /\ Last(msgs) = e
    BY <1>0, <1>1, FrontLast
  <2> DEFINE f == [ role |-> role, content |-> e.content \o kept ]
  <2>2. Push(msgs, role, bl) = Append(r, f)
    BY <1>1, <2>1 DEF Push, kept
  <2>3. /\ Len(msgs) = Len(r) + 1 /\ msgs[Len(r) + 1] = e /\ Len(r) \in Nat
        /\ \A i \in 1 .. Len(r) : msgs[i] = r[i]
    BY <2>1, AppendProperties
  <2>4. e.content \in Seq(Block \ {Blank}) /\ e.content # << >> /\ e.content \in Seq(Block) /\ e.role = role
    <3>1. Len(r) + 1 \in 1 .. Len(msgs) /\ e = msgs[Len(r) + 1]
      BY <2>3
    <3>2. e.content \in Seq(Block \ {Blank}) /\ e.content # << >>
      BY <3>1 DEF Alternates
    <3>3. e.content \in Seq(Block)
      BY <2>1 DEF Turn
    <3>4. QED
      BY <1>1, <2>1, <3>2, <3>3
  <2>5. /\ e.content \o kept \in Seq(Block \ {Blank})
          /\ e.content \o kept # << >> /\ e.content \o kept \in Seq(Block)
    BY <1>0, <2>4, ConcatProperties, ConcatEqualIffEmpty
  <2>6. f \in Turn /\ f.role = e.role /\ f.content = e.content \o kept
    BY <2>4, <2>5 DEF Turn, Roles
  <2> HIDE DEF f
  <2>7. /\ Append(r, f) \in Seq(Turn) /\ Len(Append(r, f)) = Len(r) + 1 /\ Append(r, f)[Len(r) + 1] = f
        /\ \A i \in 1 .. Len(r) : Append(r, f)[i] = r[i]
    BY <2>6, AppendProperties
  <2>8. Alternates(Append(r, f))
    <3> DEFINE q == Append(r, f)
    <3>1. q \in Seq(Turn) /\ Len(q) = Len(msgs)
            /\ \A i \in 1 .. Len(msgs) : q[i] = IF i = Len(msgs) THEN f ELSE msgs[i]
      BY <2>3, <2>7
    <3> HIDE DEF q
    <3>2. \A i \in 1 .. Len(q) : q[i].content \in Seq(Block \ {Blank}) /\ q[i].content # << >>
      BY <3>1, <2>5, <2>6 DEF Alternates
    <3>3. \A i \in 1 .. Len(q) - 1 : q[i].role # q[i + 1].role
      <4>1. \A i \in 1 .. Len(q) : q[i].role = msgs[i].role
        BY <3>1, <2>3, <2>6
      <4>2. QED
        BY <3>1, <4>1 DEF Alternates
    <3>4. QED
      BY <3>1, <3>2, <3>3 DEF Alternates, q
  <2>9. Contents(Append(r, f)) = Contents(msgs) \o kept
    <3>1. /\ Contents(Append(r, f)) = Contents(r) \o f.content /\ Contents(msgs) = Contents(r) \o e.content
          /\ Contents(r) \in Seq(Block)
      BY <2>1, <2>6, ContentsIs
    <3>2. (Contents(r) \o e.content) \o kept = Contents(r) \o (e.content \o kept)
      <4>1. Contents(r) \in Seq(Block) /\ e.content \in Seq(Block) /\ kept \in Seq(Block)
        BY <1>0, <2>4, <3>1
      <4> DEFINE a == Contents(r)
                 b == e.content
      <4>2. a \in Seq(Block) /\ b \in Seq(Block) /\ kept \in Seq(Block)
        BY <4>1
      <4> HIDE DEF a, b
      <4>3. (a \o b) \o kept = a \o (b \o kept)
        <5>1. Joined(a, b, kept)
          BY <4>2, JoinedIs
        <5>2. QED
          BY <5>1, Zenon DEF Joined
      <4>4. QED
        BY <4>3 DEF a, b
    <3>3. QED
      BY <2>6, <3>1, <3>2, Zenon
  <2>10. QED
    BY <2>2, <2>8, <2>9 DEF kept
<1>2. CASE ~(msgs # << >> /\ Last(msgs).role = role)
  <2> DEFINE f == [ role |-> role, content |-> kept ]
             q == Append(msgs, f)
  <2>1. Push(msgs, role, bl) = q
    BY <1>2 DEF Push, kept
  <2>2. f \in Turn /\ f.role = role /\ f.content = kept
    BY <1>0 DEF Turn, Roles
  <2> HIDE DEF f
  <2>3. /\ q \in Seq(Turn) /\ Len(q) = Len(msgs) + 1 /\ q[Len(msgs) + 1] = f
        /\ \A i \in 1 .. Len(msgs) : q[i] = msgs[i]
    BY <1>0, <2>2, AppendProperties
  <2>4. Contents(q) = Contents(msgs) \o kept
    BY <1>0, <2>2, ContentsIs
  <2> HIDE DEF q
  <2>5. ASSUME NEW i \in 1 .. Len(q) PROVE q[i].content \in Seq(Block \ {Blank}) /\ q[i].content # << >>
    <3>1. CASE i = Len(msgs) + 1
      BY <1>0, <2>2, <2>3, <3>1
    <3>2. CASE i \in 1 .. Len(msgs)
      BY <2>3, <3>2 DEF Alternates
    <3>3. QED
      BY <1>0, <2>3, <3>1, <3>2
  <2>6. ASSUME NEW i \in 1 .. Len(q) - 1 PROVE q[i].role # q[i + 1].role
    <3>1. CASE i = Len(msgs)
      <4>1. msgs # << >> /\ Last(msgs) = msgs[i]
        BY <1>0, <3>1 DEF Last
      <4>2. msgs[i].role # role
        BY <1>2, <4>1
      <4>3. QED
        BY <3>1, <4>2, <2>2, <2>3, <1>0
    <3>2. CASE i \in 1 .. Len(msgs) - 1
      <4>1. q[i] = msgs[i] /\ q[i + 1] = msgs[i + 1]
        BY <1>0, <3>2, <2>3
      <4>2. QED
        BY <3>2, <4>1 DEF Alternates
    <3>3. QED
      BY <1>0, <2>3, <3>1, <3>2
  <2>7. QED
    BY <2>1, <2>3, <2>4, <2>5, <2>6 DEF Alternates, kept
<1>3. QED
  BY <1>1, <1>2

Proper == { q \in Seq(Turn) : Alternates(q) }

(* What openai_to_converse() does with the next message.                   *)
Taken(msgs, m) == IF Spoken(m) THEN Push(msgs, Speaker(m), Blocks(m)) ELSE msgs

(* The next message keeps the turns proper, and adds what it says.         *)
LEMMA TakenIs ==
  ASSUME NEW msgs \in Proper, NEW m \in Message
  PROVE  /\ Taken(msgs, m) \in Proper
         /\ Contents(Taken(msgs, m)) = IF Spoken(m) THEN Contents(msgs) \o Kept(Blocks(m)) ELSE Contents(msgs)
<1>1. Alternates(msgs) /\ Blocks(m) \in Seq(Block) /\ Speaker(m) \in Roles
  BY BlocksAre DEF Proper, Roles
<1> DEFINE p == Push(msgs, Speaker(m), Blocks(m))
<1>2. Alternates(p) /\ Contents(p) = Contents(msgs) \o Kept(Blocks(m))
  BY <1>1, PushIs
<1> HIDE DEF p
<1>3. p \in Proper
  BY <1>2 DEF Proper, Alternates
<1>4. Taken(msgs, m) = IF Spoken(m) THEN p ELSE msgs
  BY DEF Taken, p
<1>5. CASE Spoken(m)
  BY <1>2, <1>3, <1>4, <1>5
<1>6. CASE ~Spoken(m)
  BY <1>4, <1>6
<1>7. QED
  BY <1>5, <1>6

(* No turns are proper turns.                                              *)
LEMMA NoneProper == << >> \in Proper
BY DEF Proper, Alternates

(* Turns(h) takes the messages one by one.                                 *)
LEMMA TurnsChain ==
  ASSUME NEW h \in Seq(Message)
  PROVE  \E c : /\ Turns(h) = c[Len(h)]
                /\ c[0] = << >>
                /\ \A k \in 1 .. Len(h) : c[k] = Taken(c[k - 1], h[k])
<1> DEFINE n == Len(h)
           step == [ k \in 1 .. n |-> [ a \in Proper |-> Taken(a, h[k]) ] ]
           Unfolded(g) == [ T \in SUBSET (DOMAIN h) |->
                          IF T = {} THEN << >>
                          ELSE LET x == Max(T)
                               IN IF Spoken(h[x]) THEN Push(g[T \ {x}], Speaker(h[x]), Blocks(h[x])) ELSE g[T \ {x}] ]
           iter == CHOOSE g : g = Unfolded(g)
           none == << >>
<1>0. n \in Nat /\ DOMAIN h = 1 .. n /\ \A k \in 1 .. n : h[k] \in Message
  BY ElementOfSeq
<1>1. Turns(h) = iter[DOMAIN h]
  BY DEF Turns, FoldLeft, MapThenFoldSet
<1>2. PICK f : f = Unfolded(f)
  <2>1. \A k \in 1 .. n, a \in Proper : Taken(a, h[k]) \in Proper
    BY <1>0, TakenIs
  <2>2. none \in Proper /\ step \in [ 1 .. n -> [ Proper -> Proper ] ]
    BY <2>1, NoneProper
  <2>3. \A k \in 1 .. n, a \in Proper : step[k][a] = Taken(a, h[k])
    OBVIOUS
  <2> HIDE DEF step, n, none
  <2>4. PICK f \in [ SUBSET (1 .. n) -> Proper ] : FoldsTo(f, n, none, step)
    BY <2>2, <1>0, FoldExists
  <2>5. f = [ T \in SUBSET (1 .. n) |-> f[T] ]
    OBVIOUS
  <2>6. ASSUME NEW T \in SUBSET (1 .. n)
        PROVE  f[T] = IF T = {} THEN << >>
                      ELSE LET x == Max(T)
                           IN IF Spoken(h[x]) THEN Push(f[T \ {x}], Speaker(h[x]), Blocks(h[x])) ELSE f[T \ {x}]
    <3>1. CASE T = {}
      BY <2>4, <3>1 DEF none, FoldsTo
    <3>2. CASE T # {}
      <4> DEFINE x == Max(T)
      <4>1. x \in 1 .. n
        BY <1>0, <3>2, MaxIn
      <4>2. T \ {x} \in SUBSET (1 .. n) /\ f[T] = step[x][f[T \ {x}]]
        BY <2>4, <3>2 DEF FoldsTo
      <4> HIDE DEF x
      <4>3. f[T \ {x}] \in Proper
        BY <4>2
      <4>4. f[T] = Taken(f[T \ {x}], h[x])
        BY <4>1, <4>2, <4>3, <2>3
      <4>5. f[T] = IF Spoken(h[x]) THEN Push(f[T \ {x}], Speaker(h[x]), Blocks(h[x])) ELSE f[T \ {x}]
        BY <4>4 DEF Taken
      <4>6. QED
        BY <3>2, <4>5, Zenon DEF x
    <3>3. QED
      BY <3>1, <3>2
  <2>7. QED
    BY <1>0, <2>5, <2>6
<1>3. iter = Unfolded(iter)
  BY <1>2
<1> DEFINE c == [ k \in 0 .. n |-> iter[1 .. k] ]
<1>4. ASSUME NEW T \in SUBSET (1 .. n)
      PROVE  iter[T] = IF T = {} THEN << >> ELSE Taken(iter[T \ { Max(T) }], h[Max(T)])
  <2> HIDE DEF iter
  <2>1. iter[T] = IF T = {} THEN << >>
                  ELSE LET x == Max(T)
                       IN IF Spoken(h[x]) THEN Push(iter[T \ {x}], Speaker(h[x]), Blocks(h[x])) ELSE iter[T \ {x}]
    BY <1>0, <1>3
  <2>2. QED
    BY <2>1, Zenon DEF Taken
<1> HIDE DEF iter
<1>5. Turns(h) = c[n]
  BY <1>0, <1>1
<1>6. c[0] = << >>
  <2>1. 1 .. 0 = {} /\ 0 \in 0 .. n
    BY <1>0
  <2>2. QED
    BY <2>1, <1>4
<1>7. ASSUME NEW k \in 1 .. n
      PROVE  c[k] = Taken(c[k - 1], h[k])
  <2>1. k \in Nat \ {0} /\ 1 .. k \in SUBSET (1 .. n)
    BY <1>0
  <2>2. 1 .. k # {} /\ Max(1 .. k) = k /\ (1 .. k) \ { k } = 1 .. (k - 1)
    BY <2>1, UpTo
  <2>3. c[k] = iter[1 .. k] /\ c[k - 1] = iter[1 .. (k - 1)]
    BY <1>0
  <2>4. QED
    BY <2>1, <2>2, <2>3, <1>4
<1>8. QED
  BY <1>5, <1>6, <1>7

(* One more message is one more taken.                                     *)
LEMMA TurnsIs ==
  ASSUME NEW h \in Seq(Message), NEW m \in Message
  PROVE  Turns(Append(h, m)) = Taken(Turns(h), m)
<1>2. PICK c : /\ Turns(h) = c[Len(h)]
               /\ c[0] = << >>
               /\ \A k \in 1 .. Len(h) : c[k] = Taken(c[k - 1], h[k])
  BY TurnsChain
<1> DEFINE t == Append(h, m)
<1>3. t \in Seq(Message) /\ Len(t) = Len(h) + 1 /\ t[Len(h) + 1] = m /\ \A k \in 1 .. Len(h) : t[k] = h[k]
  BY AppendProperties
<1> HIDE DEF t
<1>4. PICK d : /\ Turns(t) = d[Len(t)]
               /\ d[0] = << >>
               /\ \A k \in 1 .. Len(t) : d[k] = Taken(d[k - 1], t[k])
  BY <1>3, TurnsChain
<1>5. d[Len(h)] = c[Len(h)]
  <2>1. Len(h) \in Nat /\ d[0] = c[0]
    BY <1>2, <1>4
  <2>2. \A k \in 1 .. Len(h) : d[k - 1] = c[k - 1] => d[k] = c[k]
    BY <1>2, <1>3, <1>4
  <2>3. QED
    BY <2>1, <2>2, ChainsAgree
<1>6. Turns(t) = Taken(d[Len(h)], m)
  <2>1. Len(t) \in 1 .. Len(t) /\ Len(t) - 1 = Len(h) /\ t[Len(t)] = m
    BY <1>3
  <2>2. QED
    BY <1>4, <2>1
<1>7. QED
  BY <1>2, <1>5, <1>6 DEF t

(* An empty conversation has no turns.                                     *)
LEMMA NoTurns == Turns(<< >>) = << >>
<1> DEFINE none == << >>
<1>1. none \in Seq(Message) /\ Len(none) = 0
  OBVIOUS
<1> HIDE DEF none
<1>2. PICK c : Turns(none) = c[Len(none)] /\ c[0] = << >>
  BY <1>1, TurnsChain
<1>3. QED
  BY <1>1, <1>2 DEF none

(* What the harness said, message by message.                              *)
Voice(m)  == IF Spoken(m) THEN Blocks(m) ELSE << >>
Voices(h) == [ i \in DOMAIN h |-> Voice(h[i]) ]

(* The voices of one message more.                                         *)
LEMMA VoicesAre ==
  ASSUME NEW h \in Seq(Message), NEW m \in Message
  PROVE  /\ Voices(h) \in Seq(Seq(Block)) /\ Voice(m) \in Seq(Block)
         /\ Voices(Append(h, m)) = Append(Voices(h), Voice(m))
         /\ Voices(<< >>) = << >>
<1>1. ASSUME NEW w \in Message PROVE Voice(w) \in Seq(Block)
  <2>1. << >> \in Seq(Block) /\ Blocks(w) \in Seq(Block)
    BY BlocksAre
  <2>2. QED
    BY <2>1 DEF Voice
<1>2. ASSUME NEW g \in Seq(Message) PROVE Voices(g) \in Seq(Seq(Block))
        /\ Len(Voices(g)) = Len(g) /\ \A i \in 1 .. Len(g) : Voices(g)[i] = Voice(g[i])
  <2> DEFINE q == Voices(g)
  <2>1. \A i \in 1 .. Len(g) : Voice(g[i]) \in Seq(Block)
    BY <1>1, ElementOfSeq
  <2>2. q \in [ 1 .. Len(g) -> Seq(Block) ] /\ Len(g) \in Nat /\ \A i \in 1 .. Len(g) : q[i] = Voice(g[i])
    BY <2>1 DEF Voices
  <2> HIDE DEF q
  <2>3. q \in Seq(Seq(Block)) /\ Len(q) = Len(g)
    BY <2>2
  <2>4. QED
    BY <2>2, <2>3 DEF q
<1>3. Voices(Append(h, m)) = Append(Voices(h), Voice(m))
  <2> DEFINE t == Append(h, m)
             a == Voices(t)
             p == Voices(h)
             v == Voice(m)
             b == Append(p, v)
  <2>1. t \in Seq(Message) /\ Len(t) = Len(h) + 1 /\ t[Len(h) + 1] = m /\ \A i \in 1 .. Len(h) : t[i] = h[i]
    BY AppendProperties
  <2> HIDE DEF t
  <2>2. a \in Seq(Seq(Block)) /\ Len(a) = Len(h) + 1 /\ \A i \in 1 .. Len(h) + 1 : a[i] = Voice(t[i])
    <3>1. Voices(t) \in Seq(Seq(Block)) /\ Len(Voices(t)) = Len(t)
            /\ \A i \in 1 .. Len(t) : Voices(t)[i] = Voice(t[i])
      BY <1>2, <2>1
    <3>2. QED
      BY <3>1, <2>1
  <2>3. p \in Seq(Seq(Block)) /\ Len(p) = Len(h)
          /\ (\A i \in 1 .. Len(h) : p[i] = Voice(h[i])) /\ v \in Seq(Block)
    BY <1>1, <1>2
  <2> HIDE DEF a, p, v
  <2>4. b \in Seq(Seq(Block)) /\ Len(b) = Len(h) + 1 /\ b[Len(h) + 1] = v /\ \A i \in 1 .. Len(h) : b[i] = p[i]
    BY <2>3, AppendProperties
  <2> HIDE DEF b
  <2>5. \A i \in 1 .. Len(h) + 1 : a[i] = b[i]
    <3>1. \A i \in 1 .. Len(h) : a[i] = b[i]
      BY <2>1, <2>2, <2>3, <2>4
    <3>2. a[Len(h) + 1] = b[Len(h) + 1]
      BY <2>1, <2>2, <2>3, <2>4 DEF v
    <3>3. QED
      BY <3>1, <3>2
  <2>6. a = b
    BY <2>2, <2>4, <2>5, SeqEqual
  <2>7. QED
    BY <2>6 DEF a, b, p, v, t
<1>4. Voices(<< >>) = << >>
  BY DEF Voices
<1>5. QED
  BY <1>1, <1>2, <1>3, <1>4

(* What was said in two parts is what was said in each.                    *)
LEMMA SaidIs ==
  ASSUME NEW a \in Seq(Block), NEW b \in Seq(Block)
  PROVE  /\ Said(a \o b) = Said(a) \o Said(b)
         /\ Said(a) \in Seq(Block)
         /\ Said(<< >>) = << >>
<1>1. \A s : Said(s) = Without(Fillers, s)
  BY DEF Said, Fillers
<1>2. Without(Fillers, a \o b) = Without(Fillers, a) \o Without(Fillers, b)
  BY WithoutConcat
<1>3. Without(Fillers, a) \in Seq(Block)
  <2>1. Without(Fillers, a) \in Seq(Block \ Fillers) /\ Block \ Fillers \subseteq Block
    BY WithoutType
  <2>2. QED
    BY <2>1, SeqMonotonic
<1>4. Without(Fillers, << >>) = << >>
  BY WithoutNone
<1>5. QED
  BY <1>1, <1>2, <1>3, <1>4, Zenon

(* The turns are proper, and say what the messages did.                    *)
Faithful(h) == Turns(h) \in Proper /\ Said(Contents(Turns(h))) = Said(FlattenSeq(Voices(h)))

(* Whatever messages a conversation is made of: by induction over them.    *)
LEMMA TurnsFaithful ==
  ASSUME NEW h \in Seq(Message)
  PROVE  Faithful(h)
<1> DEFINE K == { g \in Seq(Message) : Faithful(g) }
           none == << >>
<1>1. none \in K
  <2>1. none \in Seq(Message) /\ none \in Proper /\ Turns(none) = none
    BY NoTurns, NoneProper
  <2>2. Contents(none) = none
    <3> DEFINE l == [ i \in DOMAIN none |-> none[i].content ]
    <3>1. l = none
      OBVIOUS
    <3>2. Contents(none) = FlattenSeq(l)
      BY DEF Contents
    <3>3. FlattenSeq(none) = none
      BY DEF FlattenSeq
    <3> HIDE DEF l, none
    <3>4. QED
      BY <3>1, <3>2, <3>3
  <2>3. Voices(none) = none
    BY DEF Voices
  <2>4. FlattenSeq(none) = none
    BY DEF FlattenSeq
  <2> HIDE DEF none
  <2>5. Faithful(none)
    BY <2>1, <2>2, <2>3, <2>4 DEF Faithful
  <2>6. QED
    BY <2>1, <2>5
<1>2. ASSUME NEW g \in K, NEW m \in Message PROVE Append(g, m) \in K
  <2> DEFINE t == Append(g, m)
             p == Turns(g)
             v == Voices(g)
             w == Voice(m)
  <2>0. g \in Seq(Message) /\ p \in Proper /\ Said(Contents(p)) = Said(FlattenSeq(v))
    BY DEF Faithful
  <2>1. t \in Seq(Message) /\ Turns(t) = Taken(p, m)
    BY <2>0, TurnsIs
  <2>2. v \in Seq(Seq(Block)) /\ w \in Seq(Block) /\ Voices(t) = Append(v, w)
    BY <2>0, VoicesAre
  <2>3. w = IF Spoken(m) THEN Blocks(m) ELSE << >>
    BY DEF Voice
  <2> HIDE DEF t, p, v, w
  <2>4. FlattenSeq(Append(v, w)) = FlattenSeq(v) \o w
    BY <2>2, FlattenIs
  <2>5. FlattenSeq(v) \in Seq(Block)
    BY <2>2, FlattenCons
  <2>6. Said(FlattenSeq(Voices(t))) = Said(FlattenSeq(v)) \o Said(w) /\ Said(FlattenSeq(v)) \in Seq(Block)
    BY <2>2, <2>4, <2>5, SaidIs
  <2>7. Taken(p, m) \in Proper /\ Contents(Taken(p, m)) = IF Spoken(m) THEN Contents(p) \o Kept(Blocks(m)) ELSE Contents(p)
    BY <2>0, TakenIs
  <2>8. Contents(p) \in Seq(Block)
    <3>1. p \in Seq(Turn)
      BY <2>0 DEF Proper
    <3>2. PICK r : r = [ role |-> "user", content |-> << >> ]
      OBVIOUS
    <3>3. r \in Turn
      BY <3>2 DEF Turn
    <3>4. QED
      BY <3>1, <3>3, ContentsIs
  <2>9. Said(Contents(Taken(p, m))) = Said(Contents(p)) \o Said(w)
    <3>1. CASE Spoken(m)
      <4>1. Kept(Blocks(m)) \in Seq(Block \ {Blank}) /\ Said(Kept(Blocks(m))) = Said(Blocks(m))
        BY BlocksAre, KeptIs
      <4>2. Kept(Blocks(m)) \in Seq(Block)
        <5>1. Block \ {Blank} \subseteq Block
          OBVIOUS
        <5>2. QED
          BY <4>1, <5>1, SeqMonotonic
      <4>3. Said(Contents(p) \o Kept(Blocks(m))) = Said(Contents(p)) \o Said(Kept(Blocks(m)))
        BY <2>8, <4>2, SaidIs
      <4>4. w = Blocks(m) /\ Contents(Taken(p, m)) = Contents(p) \o Kept(Blocks(m))
        BY <2>3, <2>7, <3>1
      <4>5. QED
        BY <4>1, <4>3, <4>4, Zenon
    <3>2. CASE ~Spoken(m)
      <4> DEFINE nil == << >>
      <4>1. w = nil /\ Contents(Taken(p, m)) = Contents(p)
        BY <2>3, <2>7, <3>2
      <4>2. Said(nil) = nil /\ Said(Contents(p)) \in Seq(Block)
        BY <2>8, SaidIs
      <4>3. Said(Contents(p)) \o nil = Said(Contents(p))
        BY <4>2, ConcatEmptySeq
      <4> HIDE DEF nil
      <4>4. QED
        BY <4>1, <4>2, <4>3, Zenon
    <3>3. QED
      BY <3>1, <3>2
  <2>10. Faithful(t)
    BY <2>0, <2>1, <2>6, <2>7, <2>9, Zenon DEF Faithful
  <2>11. t \in K
    BY <2>1, <2>10
  <2>12. QED
    BY <2>11 DEF t
<1>3. K = Seq(Message)
  <2>1. K \in SUBSET Seq(Message)
    OBVIOUS
  <2>2. << >> \in K
    BY <1>1
  <2> HIDE DEF K
  <2>3. QED
    BY <2>1, <2>2, <1>2, SeqSet
<1>4. QED
  BY <1>3

(* Turns that alternate from the user's are the user's at the odd places.  *)
LEMMA OddTurns ==
  ASSUME NEW q, Alternates(q), q # << >> => q[1].role = "user"
  PROVE  \A i \in 1 .. Len(q) : q[i].role = (IF i % 2 = 1 THEN "user" ELSE "assistant")
<1> DEFINE who(i) == IF i % 2 = 1 THEN "user" ELSE "assistant"
           K == { k \in Nat : k + 1 <= Len(q) => q[k + 1].role = who(k + 1) }
<1>0. q \in Seq(Turn) /\ Len(q) \in Nat /\ \A i \in 1 .. Len(q) : q[i].role \in Roles
  <2>1. q \in Seq(Turn)
    BY DEF Alternates
  <2>2. ASSUME NEW i \in 1 .. Len(q) PROVE q[i].role \in Roles
    <3>1. q[i] \in Turn
      BY <2>1, ElementOfSeq
    <3>2. QED
      BY <3>1 DEF Turn, Roles
  <2>3. QED
    BY <2>1, <2>2
<1>1. 0 \in K
  <2>1. ASSUME 1 <= Len(q) PROVE q[1].role = "user"
    <3>1. q # << >>
      BY <1>0, <2>1
    <3>2. QED
      BY <3>1
  <2>2. QED
    BY <1>0, <2>1
<1>2. ASSUME NEW k \in K PROVE k + 1 \in K
  <2> SUFFICES ASSUME k + 2 <= Len(q) PROVE q[k + 2].role = who(k + 2)
    OBVIOUS
  <2>1. k + 1 \in 1 .. Len(q) - 1 /\ k + 1 \in 1 .. Len(q) /\ k + 2 \in 1 .. Len(q) /\ k \in Nat
    BY <1>0
  <2>2. q[k + 1].role = who(k + 1)
    BY <1>0, <2>1
  <2>3. q[k + 1].role # q[k + 2].role
    <3>1. \A i \in 1 .. Len(q) - 1 : q[i].role # q[i + 1].role
      BY DEF Alternates
    <3>2. q[k + 1].role # q[(k + 1) + 1].role /\ (k + 1) + 1 = k + 2
      BY <2>1, <3>1
    <3>3. QED
      BY <3>2
  <2>4. q[k + 2].role \in Roles /\ ((k + 1) % 2 = 1 <=> (k + 2) % 2 # 1)
    BY <1>0, <2>1
  <2>5. QED
    BY <2>2, <2>3, <2>4 DEF Roles
<1>3. K = Nat
  <2>1. K \in SUBSET Nat
    OBVIOUS
  <2> HIDE DEF K
  <2>2. QED
    BY <2>1, <1>1, <1>2, NatSet
<1>4. ASSUME NEW i \in 1 .. Len(q) PROVE q[i].role = who(i)
  <2> DEFINE k == i - 1
  <2>1. k \in Nat /\ k + 1 = i /\ i <= Len(q)
    BY <1>0
  <2>2. k \in K
    BY <1>3, <2>1, Zenon
  <2> HIDE DEF k
  <2>3. QED
    BY <2>1, <2>2
<1>5. QED
  BY <1>4

(* A block that is not the blank text is no blank text.                    *)
LEMMA TextsAre ==
  ASSUME NEW b \in Block \ { Blank }
  PROVE  ~(IsText(b) /\ b.text = "blank")
<1>1. CASE \E t \in Tools : b = Use(t)
  BY <1>1 DEF Use, IsText
<1>2. CASE \E t \in Wording : b = ToolResult(t)
  BY <1>2 DEF ToolResult, IsText
<1>3. CASE \E t \in Wording : b = Text(t)
  <2>1. PICK t \in Wording : b = Text(t)
    BY <1>3
  <2>2. b.text = t
    BY <2>1 DEF Text
  <2>3. t # "blank"
    BY <2>1 DEF Blank
  <2>4. QED
    BY <2>2, <2>3
<1>4. QED
  BY <1>1, <1>2, <1>3 DEF Block

(* The turn that openai_to_converse() may put first changes neither.       *)
LEMMA MessagesAre ==
  ASSUME NEW h \in Seq(Message)
  PROVE  LET q == Messages(h)
         IN /\ Alternates(q) /\ (q # << >> => q[1].role = "user")
            /\ Said(Contents(q)) = Said(FlattenSeq(Voices(h)))
<1> DEFINE p == Turns(h)
           s == [ role |-> "user", content |-> << Text("(start)") >> ]
           head == << s >>
           q == Messages(h)
<1>1. Alternates(p) /\ p \in Seq(Turn) /\ Said(Contents(p)) = Said(FlattenSeq(Voices(h)))
  BY TurnsFaithful DEF Faithful, Proper
<1>2. q = IF p # << >> /\ p[1].role # "user" THEN head \o p ELSE p
  BY DEF Messages
<1>3. CASE ~(p # << >> /\ p[1].role # "user")
  <2>1. q = p
    BY <1>2, <1>3
  <2> HIDE DEF p, q
  <2>2. QED
    BY <1>1, <1>3, <2>1 DEF q
<1>4. CASE p # << >> /\ p[1].role # "user"
  <2> DEFINE start == << Text("(start)") >>
             none == << >>
             f == head \o p
  <2>1. start \in Seq(Block) /\ start \in Seq(Block \ { Blank })
          /\ start # << >> /\ Said(start) = none /\ none \in Seq(Block)
    <3> DEFINE b == Text("(start)")
    <3>1. b \in Block /\ b \in Fillers /\ b # Blank /\ none \in Seq(Block)
      BY WordsAre
    <3> HIDE DEF b
    <3>2. << b >> \in Seq(Block) /\ << b >> \in Seq(Block \ { Blank })
            /\ << b >> # << >> /\ Append(none, b) = << b >>
      BY <3>1
    <3>3. \A x : Said(x) = Without(Fillers, x)
      BY DEF Said, Fillers
    <3>4. Without(Fillers, none) = none
      BY WithoutNone
    <3> HIDE DEF none
    <3>5. Without(Fillers, Append(none, b)) = Without(Fillers, none)
      BY <3>1, WithoutIs
    <3>6. Said(<< b >>) = none
      BY <3>2, <3>3, <3>4, <3>5, Zenon
    <3>7. QED
      BY <3>1, <3>2, <3>6 DEF b
  <2> HIDE DEF start
  <2>2. s \in Turn /\ s.role = "user" /\ s.content = start
    BY <2>1 DEF Turn, start
  <2> HIDE DEF s, p
  <2>3. Contents(f) = s.content \o Contents(p) /\ Contents(p) \in Seq(Block)
    BY <1>1, <2>2, ContentsIs
  <2>4. Said(Contents(f)) = Said(Contents(p))
    <3>1. Said(start \o Contents(p)) = Said(start) \o Said(Contents(p)) /\ Said(Contents(p)) \in Seq(Block)
      BY <2>1, <2>3, SaidIs
    <3>2. none \o Said(Contents(p)) = Said(Contents(p))
      BY <3>1, ConcatEmptySeq
    <3> HIDE DEF none
    <3>3. QED
      BY <2>1, <2>2, <2>3, <3>1, <3>2, Zenon
  <2>5. head \in Seq(Turn) /\ Len(head) = 1 /\ head[1] = s
    BY <2>2
  <2> HIDE DEF head
  <2>6. /\ f \in Seq(Turn) /\ Len(f) = Len(p) + 1
        /\ f[1] = s /\ \A i \in 1 .. Len(p) : f[i + 1] = p[i]
    <3>1. /\ f \in Seq(Turn) /\ Len(f) = Len(head) + Len(p)
          /\ \A i \in 1 .. Len(head) + Len(p) : f[i] = IF i <= Len(head) THEN head[i] ELSE p[i - Len(head)]
      BY <1>1, <2>5, ConcatProperties
    <3> HIDE DEF f
    <3>2. Len(p) \in Nat
      BY <1>1
    <3>3. \A i \in 1 .. Len(p) : i + 1 \in 1 .. 1 + Len(p) /\ (i + 1) - 1 = i /\ ~(i + 1 <= 1)
      BY <3>2
    <3>4. 1 \in 1 .. 1 + Len(p)
      BY <3>2
    <3>5. f[1] = s
      BY <2>5, <3>1, <3>4
    <3>6. \A i \in 1 .. Len(p) : f[i + 1] = p[i]
      BY <2>5, <3>1, <3>3
    <3>7. QED
      BY <2>5, <3>1, <3>2, <3>5, <3>6
  <2> HIDE DEF f
  <2>7. Alternates(f)
    <3>1. ASSUME NEW i \in 1 .. Len(f) PROVE f[i].content \in Seq(Block \ { Blank }) /\ f[i].content # << >>
      <4>1. CASE i = 1
        BY <2>1, <2>2, <2>6, <4>1
      <4>2. CASE i # 1
        <5> DEFINE j == i - 1
        <5>1. j \in 1 .. Len(p) /\ j + 1 = i
          BY <1>1, <2>6, <4>2
        <5> HIDE DEF j
        <5>2. f[i] = p[j]
          BY <2>6, <5>1
        <5>3. QED
          BY <1>1, <5>1, <5>2 DEF Alternates
      <4>3. QED
        BY <4>1, <4>2
    <3>2. ASSUME NEW i \in 1 .. Len(f) - 1 PROVE f[i].role # f[i + 1].role
      <4>0. i \in 1 .. Len(p)
        BY <1>1, <2>6
      <4>1. CASE i = 1
        BY <1>4, <2>2, <2>6, <4>0, <4>1
      <4>2. CASE i # 1
        <5> DEFINE j == i - 1
        <5>1. j \in 1 .. Len(p) - 1 /\ j \in 1 .. Len(p) /\ j + 1 = i
          BY <1>1, <4>0, <4>2
        <5> HIDE DEF j
        <5>2. f[i] = p[j]
          BY <2>6, <5>1
        <5>3. f[i + 1] = p[j + 1]
          BY <2>6, <4>0, <5>1
        <5>4. p[j].role # p[j + 1].role
          BY <1>1, <5>1 DEF Alternates
        <5>5. QED
          BY <5>2, <5>3, <5>4
      <4>3. QED
        BY <4>1, <4>2
    <3>3. QED
      BY <2>6, <3>1, <3>2 DEF Alternates
  <2>8. q = f
    BY <1>2, <1>4 DEF f
  <2>9. Alternates(q) /\ q[1].role = "user" /\ Said(Contents(q)) = Said(FlattenSeq(Voices(h)))
    <3> HIDE DEF q
    <3> QED BY <1>1, <2>2, <2>4, <2>6, <2>7, <2>8
  <2>10. QED
    BY <2>9 DEF q
<1>5. QED
  BY <1>3, <1>4

(* What Converse gets of a conversation, of any length.                    *)
LEMMA ConversationOf ==
  ASSUME history \in Seq(Message)
  PROVE  TurnsAlternate /\ NothingIsLost
<1> DEFINE q == Messages(history)
<1>1. /\ Alternates(q) /\ (q # << >> => q[1].role = "user")
      /\ Said(Contents(q)) = Said(FlattenSeq(Voices(history)))
  BY MessagesAre
<1> HIDE DEF q
<1>2. q \in Seq(Turn) /\ DOMAIN q = 1 .. Len(q)
  BY <1>1 DEF Alternates
<1>3. \A i \in 1 .. Len(q) : q[i].role = (IF i % 2 = 1 THEN "user" ELSE "assistant")
  BY <1>1, OddTurns
<1>4. ASSUME NEW i \in 1 .. Len(q), NEW b \in Range(q[i].content) PROVE ~(IsText(b) /\ b.text = "blank")
  <2>1. q[i].content \in Seq(Block \ { Blank })
    BY <1>1 DEF Alternates
  <2>2. b \in Block \ { Blank }
    BY <2>1 DEF Range
  <2>3. QED
    BY <2>2, TextsAre
<1>5. \A i \in 1 .. Len(q) : q[i].content # << >>
  BY <1>1 DEF Alternates
<1>6. TurnsAlternate
  BY <1>2, <1>3, <1>4, <1>5, Zenon DEF TurnsAlternate, q
<1>7. NothingIsLost
  BY <1>1 DEF NothingIsLost, Voices, Voice, q
<1>8. QED
  BY <1>6, <1>7

(* The pieces of a stream, and what a client holds between two of them.    *)
Piece == [ text : Texts ] \cup [ index : Nat, call : Tools ] \cup [ finish : { TRUE } ]
Client  == [ text : Texts \cup { "" }, calls : Seq(Tools), done : BOOLEAN ]

Hears(acc, c) ==
  IF "text" \in DOMAIN c THEN [ acc EXCEPT !.text = c.text ]
  ELSE IF "call" \in DOMAIN c /\ c.index = Len(acc.calls) THEN [ acc EXCEPT !.calls = Append(@, c.call) ]
  ELSE IF "call" \in DOMAIN c THEN [ acc EXCEPT !.calls[c.index + 1] = c.call ]
  ELSE [ acc EXCEPT !.done = TRUE ]

(* A client that takes a piece stays one.                                  *)
LEMMA HearsIs ==
  ASSUME NEW acc \in Client, NEW c \in Piece
  PROVE  Hears(acc, c) \in Client
<1>1. CASE c \in [ text : Texts ]
  BY <1>1 DEF Hears, Client
<1>2. CASE c \in [ index : Nat, call : Tools ]
  <2>1. "text" \notin DOMAIN c /\ "call" \in DOMAIN c /\ c.call \in Tools /\ c.index \in Nat
    BY <1>2
  <2>2. acc.calls \in Seq(Tools)
    BY DEF Client
  <2>3. CASE c.index = Len(acc.calls)
    <3>1. Append(acc.calls, c.call) \in Seq(Tools)
      BY <2>1, <2>2, AppendProperties
    <3>2. Hears(acc, c) = [ acc EXCEPT !.calls = Append(acc.calls, c.call) ]
      BY <2>1, <2>3 DEF Hears
    <3>3. QED
      BY <3>1, <3>2 DEF Client
  <2>4. CASE c.index # Len(acc.calls)
    <3> DEFINE s == [ acc.calls EXCEPT ![c.index + 1] = c.call ]
    <3>1. s \in [ 1 .. Len(acc.calls) -> Tools ] /\ Len(acc.calls) \in Nat
      <4>1. acc.calls \in [ 1 .. Len(acc.calls) -> Tools ] /\ Len(acc.calls) \in Nat
        BY <2>2
      <4> DEFINE q == acc.calls
                 l == Len(acc.calls)
      <4>2. q \in [ 1 .. l -> Tools ] /\ l \in Nat /\ c.call \in Tools
        BY <2>1, <4>1
      <4> HIDE DEF q, l
      <4>3. [ q EXCEPT ![c.index + 1] = c.call ] \in [ 1 .. l -> Tools ]
        BY <4>2
      <4>4. QED
        BY <4>1, <4>3 DEF q, l
    <3> HIDE DEF s
    <3>2. s \in Seq(Tools)
      BY <3>1
    <3>3. Hears(acc, c) = [ acc EXCEPT !.calls = s ]
      BY <2>1, <2>4 DEF Hears, Client, s
    <3>4. QED
      BY <3>2, <3>3 DEF Client
  <2>5. QED
    BY <2>3, <2>4
<1>3. CASE c \in [ finish : { TRUE } ]
  <2>1. "text" \notin DOMAIN c /\ "call" \notin DOMAIN c
    BY <1>3
  <2>2. QED
    BY <2>1 DEF Hears, Client
<1>4. QED
  BY <1>1, <1>2, <1>3 DEF Piece

Nothing == [ text |-> "", calls |-> << >>, done |-> FALSE ]

(* Rebuilt(h) takes the pieces one by one.                                 *)
LEMMA RebuiltChain ==
  ASSUME NEW h \in Seq(Piece)
  PROVE  \E c : /\ Rebuilt(h) = c[Len(h)]
                /\ c[0] = Nothing
                /\ \A k \in 1 .. Len(h) : c[k] = Hears(c[k - 1], h[k])
<1> DEFINE n == Len(h)
           step == [ k \in 1 .. n |-> [ a \in Client |-> Hears(a, h[k]) ] ]
           Unfolded(g) == [ T \in SUBSET (DOMAIN h) |->
                          IF T = {} THEN [ text |-> "", calls |-> << >>, done |-> FALSE ]
                          ELSE LET x == Max(T)
                               IN IF "text" \in DOMAIN h[x] THEN [ g[T \ {x}] EXCEPT !.text = h[x].text ]
                                  ELSE IF "call" \in DOMAIN h[x] /\ h[x].index = Len(g[T \ {x}].calls)
                                    THEN [ g[T \ {x}] EXCEPT !.calls = Append(@, h[x].call) ]
                                  ELSE IF "call" \in DOMAIN h[x] THEN [ g[T \ {x}] EXCEPT !.calls[h[x].index + 1] = h[x].call ]
                                  ELSE [ g[T \ {x}] EXCEPT !.done = TRUE ] ]
           iter == CHOOSE g : g = Unfolded(g)
<1>0. n \in Nat /\ DOMAIN h = 1 .. n /\ \A k \in 1 .. n : h[k] \in Piece
  BY ElementOfSeq
<1>1. Rebuilt(h) = iter[DOMAIN h]
  BY DEF Rebuilt, FoldLeft, MapThenFoldSet
<1>20. \A g : Unfolded(g) = [ T \in SUBSET (DOMAIN h) |-> IF T = {} THEN Nothing ELSE Hears(g[T \ { Max(T) }], h[Max(T)]) ]
  BY Zenon DEF Hears, Nothing
<1> HIDE DEF Unfolded
<1>2. PICK f : f = Unfolded(f)
  <2>1. \A k \in 1 .. n, a \in Client : Hears(a, h[k]) \in Client
    BY <1>0, HearsIs
  <2>2. Nothing \in Client /\ step \in [ 1 .. n -> [ Client -> Client ] ]
    <3>1. << >> \in Seq(Tools)
      OBVIOUS
    <3>2. Nothing \in Client
      BY <3>1 DEF Nothing, Client
    <3>3. step \in [ 1 .. n -> [ Client -> Client ] ]
      BY <2>1
    <3>4. QED
      BY <3>2, <3>3
  <2>3. \A k \in 1 .. n, a \in Client : step[k][a] = Hears(a, h[k])
    OBVIOUS
  <2> HIDE DEF step, n
  <2>4. PICK f \in [ SUBSET (1 .. n) -> Client ] : FoldsTo(f, n, Nothing, step)
    BY <2>2, <1>0, FoldExists
  <2>5. f = [ T \in SUBSET (1 .. n) |-> f[T] ]
    OBVIOUS
  <2>6. ASSUME NEW T \in SUBSET (1 .. n)
        PROVE  f[T] = IF T = {} THEN Nothing ELSE Hears(f[T \ { Max(T) }], h[Max(T)])
    <3>1. CASE T = {}
      BY <2>4, <3>1 DEF FoldsTo
    <3>2. CASE T # {}
      <4> DEFINE x == Max(T)
      <4>1. x \in 1 .. n
        BY <1>0, <3>2, MaxIn
      <4>2. T \ {x} \in SUBSET (1 .. n) /\ f[T] = step[x][f[T \ {x}]]
        BY <2>4, <3>2 DEF FoldsTo
      <4> HIDE DEF x
      <4>3. f[T \ {x}] \in Client
        BY <4>2
      <4>4. f[T] = Hears(f[T \ {x}], h[x])
        BY <4>1, <4>2, <4>3, <2>3
      <4>5. QED
        BY <3>2, <4>4, Zenon DEF x
    <3>3. QED
      BY <3>1, <3>2
  <2>7. f = Unfolded(f)
    BY <1>0, <1>20, <2>5, <2>6
  <2>8. QED
    BY <2>7
<1>3. iter = Unfolded(iter)
  BY <1>2
<1> DEFINE c == [ k \in 0 .. n |-> iter[1 .. k] ]
<1>4. ASSUME NEW T \in SUBSET (1 .. n)
      PROVE  iter[T] = IF T = {} THEN Nothing ELSE Hears(iter[T \ { Max(T) }], h[Max(T)])
  <2> HIDE DEF iter
  <2>1. QED
    BY <1>0, <1>3, <1>20
<1> HIDE DEF iter
<1>5. Rebuilt(h) = c[n]
  BY <1>0, <1>1
<1>6. c[0] = Nothing
  <2>1. 1 .. 0 = {} /\ 0 \in 0 .. n
    BY <1>0
  <2>2. QED
    BY <2>1, <1>4
<1>7. ASSUME NEW k \in 1 .. n
      PROVE  c[k] = Hears(c[k - 1], h[k])
  <2>1. k \in Nat \ {0} /\ 1 .. k \in SUBSET (1 .. n)
    BY <1>0
  <2>2. 1 .. k # {} /\ Max(1 .. k) = k /\ (1 .. k) \ { k } = 1 .. (k - 1)
    BY <2>1, UpTo
  <2>3. c[k] = iter[1 .. k] /\ c[k - 1] = iter[1 .. (k - 1)]
    BY <1>0
  <2>4. QED
    BY <2>1, <2>2, <2>3, <1>4
<1>8. QED
  BY <1>5, <1>6, <1>7

(* The pieces of a reply: its text, its calls with their indices, its end. *)
LEMMA ChunksAre ==
  ASSUME NEW m, m.text \in Texts, NEW n \in Nat, m.calls \in [ 1 .. n -> Tools ]
  PROVE  /\ Chunks(m) \in Seq(Piece) /\ Len(Chunks(m)) = n + 2
         /\ Chunks(m)[1] = [ text |-> m.text ]
         /\ \A i \in 1 .. n : Chunks(m)[i + 1] = [ index |-> i - 1, call |-> m.calls[i] ]
         /\ Chunks(m)[n + 2] = [ finish |-> TRUE ]
<1> DEFINE t == [ text |-> m.text ]
           e == [ finish |-> TRUE ]
           a == << t >>
           b == [ i \in DOMAIN m.calls |-> [ index |-> i - 1, call |-> m.calls[i] ] ]
           c == << e >>
<1>1. t \in Piece /\ e \in Piece
  BY DEF Piece
<1>2. b \in [ 1 .. n -> Piece ] /\ \A i \in 1 .. n : b[i] = [ index |-> i - 1, call |-> m.calls[i] ]
  <2>1. \A i \in 1 .. n : [ index |-> i - 1, call |-> m.calls[i] ] \in Piece
    <3>1. \A i \in 1 .. n : i - 1 \in Nat /\ m.calls[i] \in Tools
      OBVIOUS
    <3>2. QED
      BY <3>1 DEF Piece
  <2>2. QED
    BY <2>1
<1>3. Chunks(m) = a \o b \o c
  BY DEF Chunks
<1> HIDE DEF t, e, b
<1>4. /\ a \in Seq(Piece) /\ Len(a) = 1 /\ a[1] = t
      /\ c \in Seq(Piece) /\ Len(c) = 1 /\ c[1] = e
      /\ b \in Seq(Piece) /\ Len(b) = n
  BY <1>1, <1>2
<1> DEFINE ab == a \o b
           abc == ab \o c
<1> HIDE DEF a, c
<1>5. /\ ab \in Seq(Piece) /\ Len(ab) = n + 1
      /\ \A i \in 1 .. n + 1 : ab[i] = IF i <= 1 THEN a[i] ELSE b[i - 1]
  <2>1. /\ ab \in Seq(Piece) /\ Len(ab) = Len(a) + Len(b)
        /\ \A i \in 1 .. Len(a) + Len(b) : ab[i] = IF i <= Len(a) THEN a[i] ELSE b[i - Len(a)]
    BY <1>4, ConcatProperties
  <2> HIDE DEF ab
  <2>2. QED
    BY <1>4, <2>1
<1> HIDE DEF ab
<1>6. /\ abc \in Seq(Piece) /\ Len(abc) = n + 2
      /\ \A i \in 1 .. n + 2 : abc[i] = IF i <= n + 1 THEN ab[i] ELSE c[i - (n + 1)]
  <2>1. /\ abc \in Seq(Piece) /\ Len(abc) = Len(ab) + Len(c)
        /\ \A i \in 1 .. Len(ab) + Len(c) : abc[i] = IF i <= Len(ab) THEN ab[i] ELSE c[i - Len(ab)]
    BY <1>4, <1>5, ConcatProperties
  <2> HIDE DEF abc
  <2>2. QED
    BY <1>4, <1>5, <2>1
<1> HIDE DEF abc
<1>7. abc[1] = t
  BY <1>4, <1>5, <1>6
<1>8. ASSUME NEW i \in 1 .. n PROVE abc[i + 1] = b[i]
  <2> DEFINE j == i + 1
  <2>1. j \in 1 .. n + 1 /\ j \in 1 .. n + 2 /\ ~(j <= 1) /\ j <= n + 1 /\ j - 1 = i
    OBVIOUS
  <2> HIDE DEF j
  <2>2. abc[j] = ab[j] /\ ab[j] = b[j - 1]
    BY <1>5, <1>6, <2>1
  <2>3. QED
    BY <2>1, <2>2 DEF j
<1>9. abc[n + 2] = e
  <2>1. n + 2 \in 1 .. n + 2 /\ ~(n + 2 <= n + 1) /\ (n + 2) - (n + 1) = 1
    OBVIOUS
  <2>2. QED
    BY <1>4, <1>6, <2>1
<1>10. Chunks(m) = abc
  BY <1>3 DEF abc, ab
<1>11. QED
  <2>1. \A i \in 1 .. n : abc[i + 1] = [ index |-> i - 1, call |-> m.calls[i] ]
    BY <1>2, <1>8
  <2>2. abc[1] = [ text |-> m.text ] /\ abc[n + 2] = [ finish |-> TRUE ]
    BY <1>7, <1>9 DEF t, e
  <2>3. QED
    BY <1>6, <1>10, <2>1, <2>2, Zenon

(* After the text and j calls a client holds the text and j calls.         *)
LEMMA StreamOf ==
  ASSUME NEW m, m.text \in Texts, NEW n \in Nat, m.calls \in [ 1 .. n -> Tools ]
  PROVE  Rebuilt(Chunks(m)) = [ text |-> m.text, calls |-> m.calls, done |-> TRUE ]
<1> DEFINE h == Chunks(m)
           part(j) == [ text |-> m.text, calls |-> [ i \in 1 .. j |-> m.calls[i] ], done |-> FALSE ]
<1>1. /\ h \in Seq(Piece) /\ Len(h) = n + 2
      /\ h[1] = [ text |-> m.text ]
      /\ \A i \in 1 .. n : h[i + 1] = [ index |-> i - 1, call |-> m.calls[i] ]
      /\ h[n + 2] = [ finish |-> TRUE ]
  BY ChunksAre
<1> HIDE DEF h
<1>2. PICK c : /\ Rebuilt(h) = c[Len(h)]
               /\ c[0] = Nothing
               /\ \A k \in 1 .. Len(h) : c[k] = Hears(c[k - 1], h[k])
  BY <1>1, RebuiltChain
<1> DEFINE K == { j \in Nat : j <= n => c[j + 1] = part(j) }
<1>3. 0 \in K
  <2>1. 1 \in 1 .. Len(h) /\ 1 - 1 = 0
    BY <1>1
  <2>2. c[1] = Hears(Nothing, [ text |-> m.text ])
    BY <1>1, <1>2, <2>1
  <2>3. Hears(Nothing, [ text |-> m.text ]) = [ text |-> m.text, calls |-> << >>, done |-> FALSE ]
    BY DEF Hears, Nothing
  <2>4. [ i \in 1 .. 0 |-> m.calls[i] ] = << >>
    OBVIOUS
  <2>5. c[0 + 1] = part(0)
    BY <2>2, <2>3, <2>4
  <2>6. QED
    BY <2>5
<1>4. ASSUME NEW j \in K PROVE j + 1 \in K
  <2> SUFFICES ASSUME j + 1 <= n PROVE c[(j + 1) + 1] = part(j + 1)
    OBVIOUS
  <2> DEFINE s == [ i \in 1 .. j |-> m.calls[i] ]
             t == m.calls[j + 1]
             p == [ index |-> j, call |-> t ]
  <2>0. j \in Nat /\ j + 1 \in 1 .. n /\ j + 2 \in 1 .. Len(h)
          /\ (j + 2) - 1 = j + 1 /\ (j + 1) + 1 = j + 2 /\ (j + 1) - 1 = j
    BY <1>1
  <2>1. c[j + 1] = [ text |-> m.text, calls |-> s, done |-> FALSE ]
    BY <2>0
  <2>2. h[j + 2] = p
    <3>1. h[(j + 1) + 1] = [ index |-> (j + 1) - 1, call |-> t ]
      BY <1>1, <2>0
    <3>2. QED
      BY <3>1, <2>0
  <2>3. s \in Seq(Tools) /\ Len(s) = j /\ t \in Tools
    <3>1. s \in [ 1 .. j -> Tools ] /\ t \in Tools
      BY <2>0
    <3>2. DOMAIN s = 1 .. j /\ j \in Nat
      BY <2>0
    <3> HIDE DEF s, t
    <3>3. QED
      BY <3>1, <3>2
  <2>4. Append(s, t) = [ i \in 1 .. (j + 1) |-> m.calls[i] ]
    BY <2>0, <2>3
  <2> HIDE DEF s, t
  <2>5. Hears([ text |-> m.text, calls |-> s, done |-> FALSE ], p) = [ text |-> m.text, calls |-> Append(s, t), done |-> FALSE ]
    BY <2>3 DEF Hears
  <2>6. c[j + 2] = Hears(c[j + 1], p)
    BY <1>2, <2>0, <2>2
  <2>7. c[j + 2] = part(j + 1)
    BY <2>1, <2>4, <2>5, <2>6
  <2>8. QED
    BY <2>0, <2>7
<1>5. K = Nat
  <2>1. K \in SUBSET Nat
    OBVIOUS
  <2> HIDE DEF K
  <2>2. QED
    BY <2>1, <1>3, <1>4, NatSet
<1>6. c[n + 1] = part(n)
  <2> HIDE DEF part
  <2>1. n \in K
    BY <1>5, Zenon
  <2>2. QED
    BY <2>1
<1>7. [ i \in 1 .. n |-> m.calls[i] ] = m.calls
  OBVIOUS
<1>8. c[n + 2] = Hears(c[n + 1], [ finish |-> TRUE ])
  <2>1. n + 2 \in 1 .. Len(h) /\ (n + 2) - 1 = n + 1
    BY <1>1
  <2>2. QED
    BY <1>1, <1>2, <2>1
<1>9. Hears([ text |-> m.text, calls |-> m.calls, done |-> FALSE ], [ finish |-> TRUE ]) = [ text |-> m.text, calls |-> m.calls, done |-> TRUE ]
  BY DEF Hears
<1>10. Rebuilt(h) = c[n + 2]
  BY <1>1, <1>2
<1>11. QED
  BY <1>6, <1>7, <1>8, <1>9, <1>10 DEF h

(* Every reply of a conversation is streamed whole.                        *)
LEMMA StreamsOf ==
  ASSUME history \in Seq(Message)
  PROVE  StreamsAreWhole
<1> SUFFICES ASSUME NEW i \in DOMAIN history, history[i].role = "assistant"
             PROVE  Rebuilt(Chunks(history[i])) = [ text |-> history[i].text, calls |-> history[i].calls, done |-> TRUE ]
  BY DEF StreamsAreWhole
<1>1. history[i] \in Message
  BY ElementOfSeq
<1> DEFINE m == history[i]
<1>2. m \in Message /\ m.role = "assistant"
  BY <1>1
<1> HIDE DEF m
<1>3. m.text \in Texts /\ \E n \in Nat : m.calls \in [ 1 .. n -> Tools ]
  BY <1>2, TranslationAssumption DEF Message
<1>4. QED
  BY <1>3, StreamOf DEF m

-----------------------------------------------------------------------------
(* A conversation is of messages, what was asked of the shape that a       *)
(* harness sends, and the actions of a reply are slots.                    *)
TranslationInv == history \in Seq(Message) /\ asked \in Asked /\ reply \in Seq(Slot)

LEMMA TranslationKeeps ==
  /\ TranslationInit => TranslationInv
  /\ TranslationInv /\ [TranslationNext]_translationVars => TranslationInv'
<1>1. ASSUME TranslationInit PROVE TranslationInv
  BY <1>1, TranslationAssumption DEF TranslationInit, TranslationInv, Unasked, Asked
<1>2. ASSUME TranslationInv, [TranslationNext]_translationVars PROVE TranslationInv'
  <2>0. history \in Seq(Message) /\ asked \in Asked /\ reply \in Seq(Slot)
    BY <1>2 DEF TranslationInv
  <2>1. ASSUME NEW m \in Message, Say(m) PROVE TranslationInv'
    <3>1. Append(history, m) \in Seq(Message)
      BY <2>0, AppendProperties
    <3>2. QED
      BY <2>0, <2>1, <3>1 DEF Say, TranslationInv
  <2>2. ASSUME NEW a \in Asked, Asks(a) PROVE TranslationInv'
    BY <2>0, <2>2 DEF Asks, TranslationInv
  <2>3. ASSUME NEW s \in Slot, Answer(s) PROVE TranslationInv'
    <3>1. Append(reply, s) \in Seq(Slot)
      BY <2>0, AppendProperties
    <3>2. QED
      BY <2>0, <2>3, <3>1 DEF Answer, TranslationInv
  <2>4. CASE UNCHANGED translationVars
    BY <2>0, <2>4 DEF translationVars, TranslationInv
  <2>5. QED
    BY <1>2, <2>1, <2>2, <2>3, <2>4 DEF TranslationNext
<1>3. QED
  BY <1>1, <1>2

(* inferenceConfig and anthropic_call: the cap holds, the budget leaves    *)
(* room for the answer, and thinking goes without sampling.                *)
LEMMA LimitsOf ==
  ASSUME asked \in Asked
  PROVE  LimitsHold
<1> DEFINE tokens == Capped(asked.tokens, asked.cap)
           budget == IF asked.thinks THEN Budget(asked.budget, tokens) ELSE 0
           set    == Sampling(asked.sampling, budget # 0)
<1>1. /\ asked.tokens \in Nat \ {0} /\ asked.cap \in Nat /\ asked.budget \in Nat
      /\ asked.sampling \subseteq { "temperature", "top_p" } /\ MinBudget \in Nat \ {0}
  BY TranslationAssumption DEF Asked
<1>2. tokens \in Nat \ {0} /\ (asked.cap # 0 => tokens <= asked.cap)
  BY <1>1 DEF Capped, Least
<1> HIDE DEF tokens
<1>3. budget # 0 => MinBudget <= budget /\ budget < tokens
  BY <1>1, <1>2 DEF Budget, Least
<1> HIDE DEF budget
<1>4. set \subseteq { "temperature" } \/ set \subseteq { "top_p" }
  BY <1>1 DEF Sampling
<1>5. budget # 0 => set = {}
  BY DEF Sampling
<1> HIDE DEF set
<1>6. IsFiniteSet(set) /\ Cardinality(set) <= 1 /\ Cardinality(set) \in Nat
  <2>1. ASSUME NEW x, set \subseteq {x} PROVE IsFiniteSet(set)
          /\ Cardinality(set) <= 1 /\ Cardinality(set) \in Nat
    <3>1. IsFiniteSet({x}) /\ Cardinality({x}) = 1
      BY FS_Singleton
    <3>2. QED
      BY <2>1, <3>1, FS_Subset, FS_CardinalityType
  <2>2. QED
    BY <1>4, <2>1
<1>7. Sent.tokens = tokens /\ Sent.budget = budget /\ Sent.sampling = set
  BY DEF Sent, tokens, budget, set
<1>8. QED
  BY <1>2, <1>3, <1>5, <1>6, <1>7 DEF LimitsHold

(* check and enforce: what is refused is not flagged again.                *)
LEMMA NoRulesNoHits ==
  ASSUME NEW q, q.kind \in { "cmd", "path", "other", "fence" }, q.rules = {}
  PROVE  Hits(q) = {}
<1>1. CASE q.kind \in { "cmd", "fence" }
  BY <1>1 DEF Hits
<1>2. CASE q.kind = "path"
  BY <1>2 DEF Hits
<1>3. CASE q.kind = "other"
  BY <1>3 DEF Hits
<1>4. QED
  BY <1>1, <1>2, <1>3

LEMMA RefusedIsClean ==
  ASSUME NEW s \in Slot
  PROVE  Hits(Refused(s)) = {}
<1>1. /\ Refused(s).kind = s.kind /\ Refused(s).rules = {} /\ s.kind \in { "cmd", "path", "other", "fence" }
  BY DEF Refused, Slot
<1>2. QED
  BY <1>1, NoRulesNoHits

LEMMA CleanOf ==
  ASSUME reply \in Seq(Slot)
  PROVE  EnforcedIsClean /\ OnlyActionsAreFlagged
<1> SUFFICES ASSUME NEW i \in DOMAIN reply
             PROVE  /\ Hits(Enforced(reply)[i]) = {}
                    /\ Hits(reply[i]) = {} => Enforced(reply)[i] = reply[i]
                    /\ Hits(reply[i]) # {} => /\ reply[i].kind # "other"
                                              /\ reply[i].kind = "path" => Hits(reply[i]) \subseteq PathRules \cup { "test_edit" }
  BY DEF EnforcedIsClean, OnlyActionsAreFlagged
<1> DEFINE s == reply[i]
<1>1. s \in Slot
  OBVIOUS
<1>2. Enforced(reply)[i] = IF Hits(s) # {} THEN Refused(s) ELSE s
  BY DEF Enforced
<1> HIDE DEF s
<1>3. Hits(Refused(s)) = {}
  BY <1>1, RefusedIsClean
<1>4. s.kind = "other" => Hits(s) = {}
  BY DEF Hits
<1>5. s.kind = "path" => Hits(s) \subseteq PathRules \cup { "test_edit" }
  BY DEF Hits
<1>6. QED
  BY <1>2, <1>3, <1>4, <1>5 DEF s

(* toolConfig: declared whenever the messages hold a call or an answer.    *)
LEMMA ToolsOf == ToolsAreDeclared
<1> DEFINE msgs == Messages(history)
<1> SUFFICES ASSUME NEW offered \in SUBSET Tools, NEW choice \in { "auto", "none", "required" }
             PROVE  /\ UsedIn(msgs) # {} \/ Answers(msgs) => Declared(msgs, offered, choice) # {}
                    /\ MustCall(msgs, offered, choice) => Declared(msgs, offered, choice) = offered
  BY DEF ToolsAreDeclared
<1> HIDE DEF msgs
<1>1. CASE offered # {} /\ choice # "none"
  BY <1>1 DEF Declared, MustCall
<1>2. CASE ~(offered # {} /\ choice # "none")
  <2>1. ~MustCall(msgs, offered, choice)
    BY <1>2 DEF MustCall
  <2>2. CASE UsedIn(msgs) # {}
    BY <1>2, <2>1, <2>2 DEF Declared
  <2>3. CASE UsedIn(msgs) = {}
    BY <1>2, <2>1, <2>3 DEF Declared
  <2>4. QED
    BY <2>2, <2>3
<1>3. QED
  BY <1>1, <1>2

(* proxy.py and policy.py, for conversations, replies and streams of any   *)
(* length and any token count, tool and rule: the turns alternate and say  *)
(* what the harness said, the tools are declared, the limits hold, and     *)
(* what comes back is clean and whole.                                     *)
THEOREM TranslationSafetyHolds == TranslationSpec => []TranslationSafety
<1>1. TranslationInv => TranslationSafety
  BY ConversationOf, LimitsOf, CleanOf, ToolsOf, StreamsOf DEF TranslationInv, TranslationSafety
<1>2. QED
  BY <1>1, TranslationKeeps, PTL DEF TranslationSpec

==============================================================================
