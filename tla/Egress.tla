------------------------------- MODULE Egress -------------------------------
(***************************************************************************)
(* proxy.py, the egress side: the connections of a sandbox, each handled   *)
(* by a thread of its own, the policy that decides on them, the            *)
(* certificates minted for an intercepted host, and egress.jsonl with its  *)
(* bodies.  The environment is the client, the host it asks for, run.sh,   *)
(* which opens the verify phase, and the removal of the containers.        *)
(***************************************************************************)
EXTENDS Naturals, Sequences, FiniteSets

CONSTANTS
  Conns,        (* connections of the sandbox, each with one request        *)
  Hosts,        (* hosts that are asked for                                 *)
  Self,         (* SELF_HOSTS                                               *)
  Listed,       (* hosts of EGRESS=allow:...                                *)
  Blocked,      (* hosts that a pattern of BLOCK_URLS matches               *)
  BlockedUrls,  (* connections of which only the URL is matched             *)
  Setups,       (* modes, with the hosts that the connections go to         *)
  Stops         (* the containers may be removed under open connections     *)

ASSUME EgressAssumption ==
  /\ Setups \subseteq [ mode : { "record", "none", "allow", "inspect" }, host : [ Conns -> Hosts ] ]
  /\ BlockedUrls \subseteq Conns
  /\ Self \subseteq Hosts /\ Listed \subseteq Hosts /\ Blocked \subseteq Hosts
  /\ Stops \in BOOLEAN

VARIABLES
  conn,         (* conn[c]: where its handler is, what it will log, the     *)
                (* number it has drawn, and the phase of its last decision  *)
  phase,        (* PHASE                                                    *)
  drawn,        (* _en                                                      *)
  lines,        (* egress.jsonl                                             *)
  bodies,       (* files of egress/                                         *)
  cert,         (* cert[h]: its file under /tmp/hr-certs                    *)
  cached,       (* hosts in _ctx                                            *)
  reached,      (* connections that reached their host, and those whose URL *)
                (* the proxy could see                                      *)
  up,           (* the proxy runs                                           *)
  setup         (* the one of Setups that the proxy was started with        *)

egressVars == << conn, phase, drawn, lines, bodies, cert, cached, reached, up, setup >>

(* EGRESS, and where each connection goes.                                 *)
Mode == setup.mode
Host == setup.host

Places == { "idle", "shake", "open", "load", "wrap", "request", "ask", "draw", "save",
            "number", "log", "dial", "relay", "over" }

EgressInit ==
  /\ conn = [ c \in Conns |-> [ at |-> "idle", kind |-> "http", n |-> 0, phase |-> "agent" ] ]
  /\ phase = "agent"
  /\ drawn = 0
  /\ lines = << >>
  /\ bodies = {}
  /\ cert = [ h \in Hosts |-> "none" ]
  /\ cached = {}
  /\ reached = [ hosts |-> {}, urls |-> {} ]
  /\ up = TRUE
  /\ setup \in Setups

HandlerAt(c, place)   == up /\ conn[c].at = place
Goes(c, place) == conn' = [ conn EXCEPT ![c].at = place ]
Logs(c, kind)  == conn' = [ conn EXCEPT ![c].at = "number", ![c].kind = kind ]

(* decide(host, url): sees says whether the URL is known.                  *)
Permitted(h) == Mode # "none" /\ (Mode = "allow" => h \in Listed)

Decide_VerifyFirst(c, sees) ==
  \/ Host[c] \in Self
  \/ phase = "verify"
  \/ Host[c] \notin Blocked /\ ~(sees /\ c \in BlockedUrls) /\ Permitted(Host[c])

Decide(c, sees) ==
  \/ Host[c] \in Self
  \/ /\ Host[c] \notin Blocked /\ ~(sees /\ c \in BlockedUrls)
     /\ phase = "verify" \/ Permitted(Host[c])

-----------------------------------------------------------------------------
(* forward(): a plain request, and one inside an intercepted tunnel.       *)

Inspecting(c) == Mode = "inspect"

Forward(c, kind) ==
  /\ conn' = [ conn EXCEPT ![c] = [ at |-> IF Decide(c, TRUE) THEN "ask" ELSE "number", kind |-> kind, n |-> 0, phase |-> phase ] ]
  /\ UNCHANGED << phase, drawn, lines, bodies, cert, cached, reached, up, setup >>

Plain(c)   == HandlerAt(c, "idle") /\ Forward(c, "http")
Request(c) == HandlerAt(c, "request") /\ Forward(c, "https")

Ask(c) ==
  /\ HandlerAt(c, "ask")
  /\ \/ reached' = [ hosts |-> reached.hosts \cup {c}, urls |-> reached.urls \cup {c} ] /\ Goes(c, "draw")
     \/ UNCHANGED reached /\ Logs(c, conn[c].kind)
  /\ UNCHANGED << phase, drawn, lines, bodies, cert, cached, up, setup >>

(* alloc().                                                                *)
Fresh_ByLines == Len(lines) + 1
Fresh         == drawn + 1

Draw(c) ==
  /\ HandlerAt(c, "draw")
  /\ drawn' = Fresh
  /\ conn' = [ conn EXCEPT ![c].n = Fresh, ![c].at = IF Inspecting(c) THEN "save" ELSE "log" ]
  /\ UNCHANGED << phase, lines, bodies, cert, cached, reached, up, setup >>

AfterBodies_Raises(c) == "over"
AfterBodies(c)        == "log"

(* save_body(), of the request and of the response, either may be empty.   *)
Save(c) ==
  /\ HandlerAt(c, "save")
  /\ \E kinds \in SUBSET { "req", "resp" } :
       bodies' = bodies \cup { [ n |-> conn[c].n, kind |-> k, conn |-> c ] : k \in kinds }
  /\ Goes(c, AfterBodies(c))
  /\ UNCHANGED << phase, drawn, lines, cert, cached, reached, up, setup >>

-----------------------------------------------------------------------------
(* do_CONNECT.                                                             *)

Connect(c) ==
  /\ HandlerAt(c, "idle")
  /\ conn' = [ conn EXCEPT ![c] = [ kind |-> "connect", n |-> 0, phase |-> phase,
                 at |-> IF ~Decide(c, FALSE) THEN "number"
                        ELSE IF Mode = "inspect" /\ Host[c] \notin Self THEN "shake" ELSE "dial" ] ]
  /\ UNCHANGED << phase, drawn, lines, bodies, cert, cached, reached, up, setup >>

(* host_ctx(): the lock covers the look at _ctx and the entry, not the     *)
(* file, which is opened, truncated, and filled when it is closed.         *)
Shake(c) ==
  /\ HandlerAt(c, "shake")
  /\ IF Host[c] \in cached
       THEN Goes(c, "wrap") /\ UNCHANGED cert
       ELSE Goes(c, "open") /\ cert' = [ cert EXCEPT ![Host[c]] = "empty" ]
  /\ UNCHANGED << phase, drawn, lines, bodies, cached, reached, up, setup >>

Fill(c) ==
  /\ HandlerAt(c, "open")
  /\ cert' = [ cert EXCEPT ![Host[c]] = "whole" ]
  /\ Goes(c, "load")
  /\ UNCHANGED << phase, drawn, lines, bodies, cached, reached, up, setup >>

Load(c) ==
  /\ HandlerAt(c, "load")
  /\ IF cert[Host[c]] = "whole"
       THEN Goes(c, "wrap") /\ cached' = cached \cup { Host[c] }
       ELSE Logs(c, "tls") /\ UNCHANGED cached
  /\ UNCHANGED << phase, drawn, lines, bodies, cert, reached, up, setup >>

(* The client accepts the certificate, and may then close without a        *)
(* request, or refuses it.                                                 *)
Wrap(c) ==
  /\ HandlerAt(c, "wrap")
  /\ \/ Goes(c, "request")
     \/ Goes(c, "over")
     \/ Logs(c, "tls")
  /\ UNCHANGED << phase, drawn, lines, bodies, cert, cached, reached, up, setup >>

Dial(c) ==
  /\ HandlerAt(c, "dial")
  /\ \/ reached' = [ reached EXCEPT !.hosts = @ \cup {c} ] /\ Goes(c, "relay")
     \/ UNCHANGED reached /\ Logs(c, "connect")
  /\ UNCHANGED << phase, drawn, lines, bodies, cert, cached, up, setup >>

Relayed(c) ==
  /\ HandlerAt(c, "relay")
  /\ Logs(c, "connect")
  /\ UNCHANGED << phase, drawn, lines, bodies, cert, cached, reached, up, setup >>

-----------------------------------------------------------------------------
(* elog(): the number, unless forward drew one, then the line.             *)

Number(c) ==
  /\ HandlerAt(c, "number")
  /\ drawn' = Fresh
  /\ conn' = [ conn EXCEPT ![c].n = Fresh, ![c].at = "log" ]
  /\ UNCHANGED << phase, lines, bodies, cert, cached, reached, up, setup >>

Line_NumberedAgain(c) == [ n |-> drawn + 1, conn |-> c, kind |-> conn[c].kind ]
Line(c)               == [ n |-> conn[c].n, conn |-> c, kind |-> conn[c].kind ]

Log(c) ==
  /\ HandlerAt(c, "log")
  /\ lines' = Append(lines, Line(c))
  /\ Goes(c, "over")
  /\ UNCHANGED << phase, drawn, bodies, cert, cached, reached, up, setup >>

(* POST /_hr/phase, and finish_containers.                                 *)
VerifyBegins ==
  /\ up /\ phase = "agent" /\ phase' = "verify"
  /\ UNCHANGED << conn, drawn, lines, bodies, cert, cached, reached, up, setup >>

Stop ==
  /\ Stops /\ up /\ up' = FALSE
  /\ UNCHANGED << conn, phase, drawn, lines, bodies, cert, cached, reached, setup >>

Handler(c) ==
  \/ Request(c) \/ Ask(c) \/ Draw(c) \/ Save(c) \/ Number(c) \/ Log(c)
  \/ Shake(c) \/ Fill(c) \/ Load(c) \/ Wrap(c) \/ Dial(c) \/ Relayed(c)

EgressNext == (\E c \in Conns : Plain(c) \/ Connect(c) \/ Handler(c)) \/ VerifyBegins \/ Stop

EgressSpec == EgressInit /\ [][EgressNext]_egressVars

(* Threads run, hosts answer or time out, and tunnels are closed: after    *)
(* 600 idle seconds by the proxy itself.                                   *)
EgressFairSpec == EgressSpec /\ \A c \in Conns : WF_egressVars(Handler(c))

-----------------------------------------------------------------------------

EgressTypeOK ==
  /\ \A c \in Conns : conn[c].at \in Places /\ conn[c].n \in 0 .. drawn
  /\ phase \in { "agent", "verify" }
  /\ reached.urls \subseteq reached.hosts
  /\ Cardinality({ c \in Conns : conn[c].n > 0 }) = drawn

(* A number is one line's, and the files that carry it are of that line's  *)
(* request, whatever handlers run at the same time (alloc, elog,           *)
(* save_body).                                                             *)
NumberedOnce ==
  /\ \A i, j \in DOMAIN lines : lines[i].n = lines[j].n => i = j
  /\ \A b \in bodies : \A i \in DOMAIN lines : lines[i].n = b.n => lines[i].conn = b.conn

FilesHaveTheirLine ==
  \A b \in bodies : conn[b.conn].at = "over" => \E i \in DOMAIN lines : lines[i].n = b.n /\ lines[i].conn = b.conn

(* A host is reached only as the mode allows, or in the verify phase; what *)
(* BLOCK_URLS matches and the proxy can see is not reached in either.      *)
PolicyHolds ==
  \A c \in reached.hosts : Host[c] \notin Self =>
    /\ Host[c] \notin Blocked
    /\ c \in reached.urls => c \notin BlockedUrls
    /\ conn[c].phase = "agent" => Mode # "none" /\ (Mode = "allow" => Host[c] \in Listed)

(* What reached a host ends in a line, unless the containers are removed   *)
(* before that.                                                            *)
ReachedIsLogged ==
  \A c \in Conns : c \in reached.hosts ~> ~up \/ \E i \in DOMAIN lines : lines[i].conn = c

(* The egress side in every state: numbers, files and policy.              *)
EgressSafety == EgressTypeOK /\ NumberedOnce /\ FilesHaveTheirLine /\ PolicyHolds

=============================================================================
