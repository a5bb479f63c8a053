----------------------------- MODULE OidcLogin -----------------------------
(***************************************************************************)
(* A login through a third party: the client's OidcSession and its task    *)
(* that polls (hbbs_http/account.rs), the states the API server caches     *)
(* (rustdesk-api: service/oauth.go, controller/api/ouath.go), and the      *)
(* browser, where the user authorises a state.                             *)
(*                                                                         *)
(* A state is the number of the call of account_auth it was made for.      *)
(***************************************************************************)
EXTENDS Integers, FiniteSets

CONSTANTS
  Caller,        \* threads of the user interface that start a login
  MaxAuth,       \* bound on logins started
  QueryTimeout,  \* the client's QUERY_TIMEOUT_SECS
  CacheTimeout,  \* how long the server keeps a state (5*60)
  MaxQuery,      \* bound on the queries of a state that find its user
  MaxCallback,   \* bound on the callbacks of a state served at a time
  Lossy          \* whether the client may give a query up while it is served

OidcLoginAssumption ==
  /\ MaxAuth \in Nat \ {0} /\ MaxQuery \in Nat
  /\ MaxCallback \in Nat /\ Lossy \in BOOLEAN
  /\ QueryTimeout \in Nat /\ CacheTimeout \in Nat

Auth == 1..MaxAuth
None == 0

VARIABLES
  keep_querying, running, code_url, auth_body, failed,  \* OIDC_SESSION
  caller,        \* a caller: idle, waiting, past wait_stop_querying
  last,          \* the last login begun
  task, left,    \* a task: its step; the time it has left to query
  cache,         \* server: states in OauthCache
  authorized,    \* server: cache items with a UserId
  timer,         \* server: a state's timer: 0 none, 1 fires, more to go
  served,        \* server: queries that have found the user, and work on
  answered,      \* server: queries answered with a token
  asking,        \* server: callbacks of a state that ask the third party
  storing,       \* server: callbacks of a state past its check
  tokens         \* history: access tokens made for a state

session == <<keep_querying, running, code_url, auth_body, failed>>
callbacks == <<asking, storing>>
client == <<session, caller, last, task, left>>
server == <<cache, authorized, timer, served, answered, asking, storing, tokens>>
vars == <<client, server>>

Step == {"none", "request", "loop", "query", "end"}

TypeOK ==
  /\ keep_querying \in BOOLEAN /\ running \in BOOLEAN
  /\ code_url \in {None} \cup Auth /\ auth_body \in {None} \cup Auth
  /\ failed \in {"", "error", "expired", "timeout"}
  /\ caller \in [Caller -> {"idle", "waiting", "begin"}] /\ last \in {None} \cup Auth
  /\ task \in [Auth -> Step] /\ left \in [Auth -> 0..QueryTimeout]
  /\ cache \subseteq Auth /\ authorized \subseteq Auth
  /\ timer \in [Auth -> 0..CacheTimeout + 1]
  /\ served \in [Auth -> Nat] /\ answered \in [Auth -> Nat] /\ tokens \in [Auth -> Nat]
  /\ asking \in [Auth -> 0..MaxCallback] /\ storing \in [Auth -> 0..MaxCallback]

Init ==
  /\ keep_querying = FALSE /\ running = FALSE
  /\ code_url = None /\ auth_body = None /\ failed = ""
  /\ caller = [c \in Caller |-> "idle"] /\ last = None
  /\ task = [a \in Auth |-> "none"] /\ left = [a \in Auth |-> 0]
  /\ cache = {} /\ authorized = {}
  /\ timer = [a \in Auth |-> 0]
  /\ served = [a \in Auth |-> 0] /\ answered = served /\ tokens = served
  /\ asking = served /\ storing = served

-----------------------------------------------------------------------------
\* account_auth cancels what is under way ...
account_auth(c) ==
  /\ caller[c] = "idle" /\ last + Cardinality({d \in Caller : caller[d] # "idle"}) < MaxAuth
  /\ keep_querying' = FALSE
  /\ caller' = [caller EXCEPT ![c] = "waiting"]
  /\ UNCHANGED <<running, code_url, auth_body, failed, last, task, left, server>>

\* ... waits until it has ended ...
wait_stop_querying(c) ==
  /\ caller[c] = "waiting" /\ ~running
  /\ caller' = [caller EXCEPT ![c] = "begin"]
  /\ UNCHANGED <<session, last, task, left, server>>

\* ... and begins anew: before_task, and a thread for auth_task.
before_task(c) ==
  /\ caller[c] = "begin"
  /\ caller' = [caller EXCEPT ![c] = "idle"]
  /\ keep_querying' = TRUE /\ running' = TRUE
  /\ code_url' = None /\ auth_body' = None /\ failed' = ""
  /\ last' = last + 1 /\ task' = [task EXCEPT ![last + 1] = "request"]
  /\ UNCHANGED <<left, server>>

auth_cancel ==
  /\ keep_querying' = FALSE
  /\ UNCHANGED <<running, code_url, auth_body, failed, caller, last, task, left, server>>

Goto(a, step) == task' = [task EXCEPT ![a] = step]

\* auth, and the server's OidcAuth: a state is cached and its timer set.
auth(a) ==
  /\ task[a] = "request"
  /\ cache' = cache \cup {a}
  /\ timer' = [timer EXCEPT ![a] = CacheTimeout + 1]
  /\ code_url' = a
  /\ left' = [left EXCEPT ![a] = QueryTimeout]
  /\ Goto(a, "loop")
  /\ UNCHANGED <<keep_querying, running, auth_body, failed, caller, last>>
  /\ UNCHANGED <<authorized, served, answered, callbacks, tokens>>

\* auth fails.
auth_error(a) ==
  /\ task[a] = "request"
  /\ failed' = "error" /\ Goto(a, "end")
  /\ UNCHANGED <<keep_querying, running, code_url, auth_body, caller, last, left, server>>

InTime(a) == left[a] > 0

\* A query: GetOauthCache.  A user not known yet is no error to the client.
query(a) ==
  /\ task[a] = "loop" /\ keep_querying /\ InTime(a)
  /\ IF a \notin cache
       THEN failed' = "expired" /\ Goto(a, "end") /\ UNCHANGED served
       ELSE /\ a \in authorized /\ served[a] + tokens[a] < MaxQuery
            /\ Goto(a, "query") /\ served' = [served EXCEPT ![a] = @ + 1]
            /\ UNCHANGED failed
  /\ UNCHANGED <<keep_querying, running, code_url, auth_body, caller, last, left>>
  /\ UNCHANGED <<cache, authorized, timer, answered, callbacks, tokens>>


\* The rest of OidcAuthQueryPre: the state is dropped, a token made.
Serve(a) ==
  /\ served[a] > 0
  /\ served' = [served EXCEPT ![a] = @ - 1] /\ answered' = [answered EXCEPT ![a] = @ + 1]
  /\ cache' = cache \ {a}
  /\ tokens' = [tokens EXCEPT ![a] = @ + 1]
  /\ UNCHANGED <<client, authorized, timer, callbacks>>

\* The answer arrives, whatever has been cancelled since.
Answer(a) ==
  /\ task[a] = "query" /\ answered[a] > 0
  /\ answered' = [answered EXCEPT ![a] = @ - 1]
  /\ auth_body' = a /\ Goto(a, "end")
  /\ UNCHANGED <<keep_querying, running, code_url, failed, caller, last, left>>
  /\ UNCHANGED <<cache, authorized, timer, served, callbacks, tokens>>

\* A query that fails is made again.
GiveUp(a) ==
  /\ Lossy /\ task[a] = "query"
  /\ Goto(a, "loop")
  /\ answered' = [answered EXCEPT ![a] = 0]
  /\ UNCHANGED <<session, caller, last, left>>
  /\ UNCHANGED <<cache, authorized, timer, served, callbacks, tokens>>

\* The loop ends.
Stop(a) ==
  /\ task[a] = "loop" /\ ~(keep_querying /\ InTime(a))
  /\ failed' = IF InTime(a) THEN failed ELSE "timeout"
  /\ Goto(a, "end")
  /\ UNCHANGED <<keep_querying, running, code_url, auth_body, caller, last, left, server>>

after_task(a) ==
  /\ task[a] = "end" /\ running' = FALSE /\ Goto(a, "none")
  /\ UNCHANGED <<keep_querying, code_url, auth_body, failed, caller, last, left, server>>

\* OauthCallback finds the item of a state, and asks the third party ...
Callback(a) ==
  /\ a \in cache /\ asking[a] + storing[a] < MaxCallback
  /\ asking' = [asking EXCEPT ![a] = @ + 1]
  /\ UNCHANGED <<client, cache, authorized, timer, served, answered, storing, tokens>>

\* ... which may fail; an item that has its user is refused ...
Authorize(a) ==
  /\ asking[a] > 0 /\ asking' = [asking EXCEPT ![a] = @ - 1]
  /\ \/ a \notin authorized /\ storing' = [storing EXCEPT ![a] = @ + 1]
     \/ UNCHANGED storing
  /\ UNCHANGED <<client, cache, authorized, timer, served, answered, tokens>>

\* ... else the user, who may be registered first, is put into it, and the item
\* into the cache without a timer, even if it was dropped since.
Store(a) ==
  /\ storing[a] > 0 /\ storing' = [storing EXCEPT ![a] = @ - 1]
  /\ authorized' = authorized \cup {a} /\ cache' = cache \cup {a}
  /\ UNCHANGED <<client, timer, served, answered, asking, tokens>>

\* The timer of a state fires, once.
Expire(a) ==
  /\ timer[a] = 1
  /\ timer' = [timer EXCEPT ![a] = 0]
  /\ cache' = cache \ {a}
  /\ UNCHANGED <<client, authorized, served, answered, callbacks, tokens>>

\* The client polls every second, far more often than anything times out.
Tick ==
  /\ left' = [a \in Auth |-> IF left[a] > 0 THEN left[a] - 1 ELSE 0]
  /\ timer' = [a \in Auth |-> IF timer[a] > 1 THEN timer[a] - 1 ELSE timer[a]]
  /\ UNCHANGED <<session, caller, last, task>>
  /\ UNCHANGED <<cache, authorized, served, answered, callbacks, tokens>>

Work(a) ==
  \/ auth(a) \/ auth_error(a) \/ query(a) \/ Serve(a) \/ Answer(a) \/ Stop(a)
  \/ after_task(a)

Next ==
  \/ \E c \in Caller : account_auth(c) \/ wait_stop_querying(c) \/ before_task(c)
  \/ auth_cancel
  \/ \E a \in Auth :
       Work(a) \/ GiveUp(a) \/ Callback(a) \/ Authorize(a) \/ Store(a) \/ Expire(a)
  \/ Tick

Spec == Init /\ [][Next]_vars

\* The client's thread runs, the server answers, time passes.
FairSpec == Spec /\ WF_vars(Tick) /\ \A a \in Auth : WF_vars(Work(a))

-----------------------------------------------------------------------------
\* What the session shows, once a login is begun, is of the last login begun: no
\* task of a former one writes its result over it (wait_stop_querying).
ShownIsLast ==
  /\ code_url \in {None, last} /\ auth_body \in {None, last}

\* A state that was answered with a token is dropped, for good (OauthCallback:
\* "OauthHasBeenSuccess").
AnsweredIsDropped == \A a \in Auth : tokens[a] > 0 => a \notin cache

\* The client is told that its state expired only when it was the answer with the
\* token that got lost: the server keeps states longer than the client asks
\* (QUERY_TIMEOUT_SECS, SetOauthCache).
ExpiredAfterToken == failed = "expired" => tokens[last] > 0

\* A task ends, authorised or not (query_timeout).
Ended == ~running
TaskEnds == []<>Ended
=============================================================================
