------------------------------- MODULE Sessions -----------------------------
(***************************************************************************)
(* auth.py: sign-in sessions under concurrent requests.  A session holds a *)
(* GitHub token and the refresh token for the next, which GitHub rotates:  *)
(* only the last one works.  Sessions live in a dict saved to a file (one  *)
(* process), or as table rows (many).                                      *)
(***************************************************************************)
EXTENDS Naturals, FiniteSets

CONSTANTS
  Sids, Requests,
  Restarts,     (* the server may be restarted                              *)
  Lost,         (* a call may fail after it took effect, or a process die   *)
  MaxTokens     (* bound of the model: refreshes of one session             *)

ASSUME SessionsAssumption == {Restarts, Lost} \subseteq BOOLEAN /\ MaxTokens \in Nat

VARIABLES
  file,         (* BACKEND is not ddb: sessions.json; it is fixed           *)
  known,        (* keys of SESSIONS, or of the rows                         *)
  val,          (* val[s]: number of the token pair in that dict or row     *)
  disk,         (* disk[s]: the same in sessions.json, 0 for none           *)
  issued,       (* issued[s]: GitHub's last pair for that sign-in, 0: none  *)
  expired,      (* expired[s]: pairs up to this one are over 8 h old        *)
  out,          (* sessions whose logout was answered                       *)
  cut,          (* ghost: a pair was granted and lost before it was put     *)
  request       (* request[r]: place, session, its copy of the pair         *)

sessionsVars == << file, known, val, disk, issued, expired, out, cut, request >>

Idle == [ at |-> "idle", sid |-> 0, pair |-> 0 ]

SessionsInit ==
  /\ file \in BOOLEAN
  /\ known = {} /\ val = [ s \in Sids |-> 0 ] /\ disk = val /\ issued = val /\ expired = val
  /\ out = {} /\ cut = {} /\ request = [ r \in Requests |-> Idle ]

At(r, place) == request[r].at = place
Goes(r, place) == request' = [ request EXCEPT ![r].at = place ]

(* Handlers of one process share the session's dict; processes do not.     *)
Pair(r) == IF file THEN val[request[r].sid] ELSE request[r].pair

(* _load reads the file only into an empty dict.                           *)
Loaded == IF file /\ known = {} THEN { s \in Sids : disk[s] # 0 } ELSE known
Values == IF file /\ known = {} THEN [ s \in Sids |-> IF disk[s] # 0 THEN disk[s] ELSE val[s] ] ELSE val

(* _put and _drop: the whole dict is saved.                                *)
Saved_Added(keys, values) == IF file THEN [ s \in Sids |-> IF s \in keys THEN values[s] ELSE disk[s] ] ELSE disk
Saved(keys, values) == IF file THEN [ s \in Sids |-> IF s \in keys THEN values[s] ELSE 0 ] ELSE disk

Store(keys, values) == known' = keys /\ val' = values /\ disk' = Saved(keys, values)

(* /auth/callback: exchange the code, put a session under a new id.        *)
Login(s) ==
  /\ issued[s] = 0 /\ issued' = [ issued EXCEPT ![s] = 1 ]
  /\ Store(known \union {s}, [ val EXCEPT ![s] = 1 ])
  /\ UNCHANGED << expired, out, cut, request >>

(* session_of: the cookie's session, if it is known.                       *)
Enter(r, s) ==
  /\ At(r, "idle") /\ issued[s] # 0
  /\ known' = Loaded /\ val' = Values
  /\ request' = [ request EXCEPT ![r] =
       [ at |-> IF s \in Loaded THEN "fresh" ELSE "end", sid |-> s, pair |-> Values[s] ] ]
  /\ UNCHANGED << disk, issued, expired, out, cut >>

(* _fresh: the token if it is young enough, else a refresh.                *)
Fresh(r) ==
  /\ At(r, "fresh")
  /\ Goes(r, IF Pair(r) > expired[request[r].sid] THEN "end" ELSE "ask")
  /\ UNCHANGED << known, val, disk, issued, expired, out, cut >>

Refreshed_Access(r) == Pair(r)
Refreshed(r)        == issued[request[r].sid] + 1

Ask(r) ==
  /\ At(r, "ask")
  /\ LET s == request[r].sid IN
     \/ /\ Pair(r) = issued[s] /\ issued[s] < MaxTokens
        /\ issued' = [ issued EXCEPT ![s] = @ + 1 ]
        /\ \/ request' = [ request EXCEPT ![r].at = "put", ![r].pair = Refreshed(r) ] /\ UNCHANGED cut
           \/ Lost /\ Goes(r, "end") /\ cut' = cut \union {s}
     \/ Pair(r) # issued[s] /\ Goes(r, "end") /\ UNCHANGED << issued, cut >>      (* sign in again *)
  /\ UNCHANGED << known, val, disk, expired, out >>

Put(r) ==
  /\ At(r, "put")
  /\ LET s == request[r].sid IN Store(known \union {s}, [ val EXCEPT ![s] = request[r].pair ])
  /\ Goes(r, "end")
  /\ UNCHANGED << issued, expired, out, cut >>

End(r) ==
  /\ At(r, "end") /\ request' = [ request EXCEPT ![r] = Idle ]
  /\ UNCHANGED << known, val, disk, issued, expired, out, cut >>

(* /auth/logout; in the table the deletion is best effort.                 *)
Logout(s) ==
  /\ issued[s] # 0 /\ s \notin out /\ out' = out \union {s}
  /\ \/ Store(Loaded \ {s}, Values)
     \/ Lost /\ ~file /\ UNCHANGED << known, val, disk >>
  /\ UNCHANGED << issued, expired, cut, request >>

Expire(s) ==
  /\ \E n \in expired[s] + 1 .. issued[s] : expired' = [ expired EXCEPT ![s] = n ]
  /\ UNCHANGED << known, val, disk, issued, out, cut, request >>

ServerRestarts ==
  /\ Restarts /\ file
  /\ known' = {} /\ request' = [ r \in Requests |-> Idle ]
  /\ cut' = cut \union { request[r].sid : r \in { q \in Requests : At(q, "put") } }
  /\ UNCHANGED << val, disk, issued, expired, out >>

SessionsNext ==
  /\ \/ \E s \in Sids : Login(s) \/ Logout(s) \/ Expire(s)
     \/ \E r \in Requests : (\E s \in Sids : Enter(r, s)) \/ Fresh(r) \/ Ask(r) \/ Put(r) \/ End(r)
     \/ ServerRestarts
  /\ UNCHANGED file

SessionsSpec == SessionsInit /\ [][SessionsNext]_sessionsVars

-----------------------------------------------------------------------------

Refreshing(s) == \E r \in Requests : request[r].sid = s /\ At(r, "put")

(* The file is the dict, once there is one; one refresh at a time can have *)
(* been granted, so no older pair is waiting to be put over a newer one.   *)
SessionsTypeOK ==
  /\ \A s \in Sids : val[s] <= issued[s] /\ expired[s] <= issued[s]
  /\ file /\ known # {} => \A s \in Sids : disk[s] # 0 <=> s \in known
  /\ \A s \in Sids : Cardinality({ r \in Requests : request[r].sid = s /\ At(r, "put") }) <= 1

(* However many requests refresh at once, the session that is kept can be  *)
(* refreshed again: it holds GitHub's last pair, unless that was lost.      *)
StaysRenewable ==
  \A s \in known \ cut : ~Refreshing(s) => val[s] = issued[s]

(* Sessions in every state, in the file and in the table.                  *)
SessionsSafety == SessionsTypeOK /\ StaysRenewable

=============================================================================
