----------------------------- MODULE ModelCalls -----------------------------
(***************************************************************************)
(* proxy.py, the model side: concurrent calls of a harness, their line in  *)
(* calls.jsonl, and the site's count of them (evals.live), read from the   *)
(* file while it grows.                                                    *)
(*                                                                         *)
(* The file is measured in halves of a line: a reader may come while half  *)
(* of the last line is on disk.                                            *)
(***************************************************************************)
EXTENDS Naturals, Sequences, FiniteSets

CONSTANTS
  Calls,        (* requests, each handled by a thread of its own            *)
  Readers,      (* threads of the site that may run live() at one time      *)
  Nobody,
  MaxTries,     (* attempts of with_retry and post_json                     *)
  Hangups       (* a client may close its connection before the answer      *)

ASSUME ModelCallsAssumption ==
  Nobody \notin Calls /\ MaxTries \in Nat \ {0} /\ Hangups \in BOOLEAN

VARIABLES
  call,         (* call[c]: where its handler is, attempts, and whether the *)
                (* record it will write is an error                         *)
  lock,         (* the call that holds _lock                                *)
  count,        (* _n                                                       *)
  callLines,    (* calls.jsonl: the call, its number, and the error         *)
  size,         (* of the file, in half lines                               *)
  got,          (* calls whose harness received a reply                     *)
  live,         (* LIVE: offset and number of calls, of one evaluation      *)
  reader        (* reader[r]: the end of the chunk it has read              *)

fileVars == << lock, count, callLines, size >>
liveVars == << live, reader >>
callsVars == << call, fileVars, got, liveVars >>

CallsInit ==
  /\ call = [ c \in Calls |-> [ at |-> "idle", tries |-> 0, error |-> FALSE ] ]
  /\ lock = Nobody
  /\ count = 0
  /\ callLines = << >>
  /\ size = 0
  /\ got = {}
  /\ live = [ offset |-> 0, calls |-> 0 ]
  /\ reader = [ r \in Readers |-> [ from |-> 0, upto |-> 0, busy |-> FALSE ] ]

PutCall(c, place, error) == call' = [ call EXCEPT ![c].at = place, ![c].error = error ]

-----------------------------------------------------------------------------
(* do_POST.                                                                *)

Post(c) ==
  /\ call[c].at = "idle"
  /\ PutCall(c, "ask", FALSE)
  /\ UNCHANGED << fileVars, got, liveVars >>

(* A throttled call is asked again, MaxTries times in all; other refusals, *)
(* a reply that cannot be converted or checked, and a route that does not  *)
(* fit end in the except branch.                                           *)
Again_Forever(c) == TRUE
Again(c)         == call[c].tries + 1 < MaxTries

Throttled(c) ==
  /\ call[c].at = "ask"
  /\ IF Again(c) THEN call' = [ call EXCEPT ![c].tries = (@ + 1) % MaxTries ]
                 ELSE PutCall(c, "record", TRUE)
  /\ UNCHANGED << fileVars, got, liveVars >>

AfterReply_Unrecorded(c) == "send"
AfterReply(c)            == "record"

Replied(c) ==
  /\ call[c].at = "ask"
  /\ \E error \in BOOLEAN : PutCall(c, AfterReply(c), error)
  /\ UNCHANGED << fileVars, got, liveVars >>

(* record(): number and line under one lock.                               *)
NextNumber_OfRequest(c) == 1 + Cardinality({ d \in Calls \ {c} : \E i \in DOMAIN callLines : callLines[i].call = d })
NextNumber(c)           == count + 1

Enters_Unlocked(c) == TRUE
Enters(c)          == lock = Nobody

Record(c) ==
  /\ call[c].at = "record" /\ Enters(c)
  /\ lock' = c
  /\ count' = NextNumber(c)
  /\ size' = size + 1
  /\ PutCall(c, "writing", call[c].error)
  /\ UNCHANGED << callLines, got, liveVars >>

Recorded(c) ==
  /\ call[c].at = "writing"
  /\ callLines' = Append(callLines, [ call |-> c, n |-> count, error |-> call[c].error ])
  /\ size' = size + 1
  /\ lock' = Nobody
  /\ PutCall(c, "send", call[c].error)
  /\ UNCHANGED << count, got, liveVars >>

Send(c) ==
  /\ call[c].at = "send"
  /\ got' = got \cup {c}
  /\ PutCall(c, "over", call[c].error)
  /\ UNCHANGED << fileVars, liveVars >>

(* The client is gone: sending a reply raises inside the try, and the      *)
(* except branch records the call; sending an error ends the handler.      *)
HangsUp(c) ==
  /\ Hangups
  /\ call[c].at = "send"
  /\ IF call[c].error THEN PutCall(c, "over", TRUE) ELSE PutCall(c, "record", TRUE)
  /\ UNCHANGED << fileVars, got, liveVars >>

-----------------------------------------------------------------------------
(* evals.live: st is shared by the threads of the site, without a lock.    *)

Read(r) ==
  /\ ~reader[r].busy
  /\ reader' = [ reader EXCEPT ![r] = [ from |-> live.offset, upto |-> size, busy |-> TRUE ] ]
  /\ UNCHANGED << call, fileVars, got, live >>

(* Complete lines only: the chunk up to its last newline.                  *)
Complete_All(r) == IF reader[r].upto > reader[r].from THEN (reader[r].upto - reader[r].from + 1) \div 2 ELSE 0
Complete(r)     == IF reader[r].upto > reader[r].from THEN (reader[r].upto - reader[r].from) \div 2 ELSE 0

Count(r) ==
  /\ reader[r].busy
  /\ live' = [ offset |-> live.offset + 2 * Complete(r), calls |-> live.calls + Complete(r) ]
  /\ reader' = [ reader EXCEPT ![r] = [ from |-> 0, upto |-> 0, busy |-> FALSE ] ]
  /\ UNCHANGED << call, fileVars, got >>

-----------------------------------------------------------------------------

Thread(c) == Post(c) \/ Replied(c) \/ Record(c) \/ Recorded(c) \/ Send(c)

CallsNext ==
  \/ \E c \in Calls : Thread(c) \/ Throttled(c) \/ HangsUp(c)
  \/ \E r \in Readers : Read(r) \/ Count(r)

CallsSpec == CallsInit /\ [][CallsNext]_callsVars

(* Models answer, if only to throttle; the page polls.                     *)
CallsFairSpec ==
  /\ CallsSpec
  /\ \A c \in Calls : /\ WF_callsVars(Throttled(c) \/ Replied(c))
                      /\ WF_callsVars(Recorded(c) \/ Send(c) \/ HangsUp(c)) /\ SF_callsVars(Record(c))
  /\ \A r \in Readers : WF_callsVars(Read(r)) /\ WF_callsVars(Count(r))

-----------------------------------------------------------------------------

LinesOf(c) == { i \in DOMAIN callLines : callLines[i].call = c }

(* The file never runs ahead of or behind its records by more than the     *)
(* line being written, and the lock is held just then.                     *)
CallsTypeOK ==
  /\ \A c \in Calls : call[c].at \in { "idle", "ask", "record", "writing", "send", "over" }
  /\ \A c \in Calls : call[c].tries < MaxTries
  /\ size = 2 * Len(callLines) + (IF lock = Nobody THEN 0 ELSE 1)
  /\ \A c \in Calls : call[c].at = "writing" <=> lock = c

(* Lines are numbered as they stand in the file, 1, 2, 3 and so on,        *)
(* whatever calls overlap (record).                                        *)
NumberedInOrder == \A i \in DOMAIN callLines : callLines[i].n = i

(* The harness sees no reply that the recording does not have yet, and the *)
(* recording says of it that it succeeded ("records every call").          *)
RepliesAreRecorded ==
  \A c \in got : \E i \in LinesOf(c) : callLines[i].error = call[c].error

(* The count never runs ahead of the file ("Model calls so far").          *)
LiveIsTrue == live.calls <= Len(callLines) /\ live.offset = 2 * live.calls

(* Every call is answered or recorded as an error, and is then counted.    *)
EveryCallEnds ==
  \A c \in Calls : call[c].at = "ask" ~> call[c].at = "over" /\ live.calls >= Cardinality(LinesOf(c))

(* The recording in every state, for the harness and for the reader.       *)
CallsSafety == CallsTypeOK /\ NumberedInOrder /\ RepliesAreRecorded /\ LiveIsTrue

=============================================================================
