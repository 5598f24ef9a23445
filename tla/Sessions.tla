------------------------------- MODULE Sessions -------------------------------
(***************************************************************************)
(* Login, logout and Sudo-as (internal/auth/auth.go, service/sudo.go,      *)
(* httpapi/auth_handlers.go, sudo_handlers.go) in one browser with several *)
(* tabs.  A token is not stored by the server: what it says of its user is *)
(* what the rows said when it was made, and it lives in the browser's two  *)
(* cookies, sd_token and sd_return_token, until it expires.                *)
(*                                                                         *)
(* A request carries the cookies of the moment it is sent; the handler     *)
(* reads user, memberships and log in statements of their own; the answer  *)
(* sets cookies whatever they are by then.  Meanwhile other accounts'      *)
(* requests change roles and memberships.                                  *)
(***************************************************************************)
EXTENDS Naturals

CONSTANTS
  None, Keep,
  Users, Orgs, Roles,
  Tabs,           \* requests the browser has in flight
  InitialRole,    \* [Users -> Roles]
  InitialMember,  \* [Users -> SUBSET Orgs]
  TTL,            \* of a token, 12 hours in the code
  Latency,        \* the longest a handler takes from reading the user to issuing
  MaxTime,        \* bounds on time, ...
  MaxCalls,       \* ... requests sent ...
  MaxChanges      \* ... and changes of accounts and lost cookies

ASSUME SessionsAssumption ==
  /\ {"Customer", "SystemAdmin"} \subseteq Roles
  /\ None \notin Users \union Orgs \union Roles \union Nat
  /\ None # Keep
  /\ InitialRole \in [Users -> Roles] /\ InitialMember \in [Users -> SUBSET Orgs]
  /\ TTL \in Nat \ {0} /\ Latency \in Nat
  /\ MaxTime \in Nat /\ MaxCalls \in Nat /\ MaxChanges \in Nat

VARIABLES
  role,     \* users.role
  member,   \* org_memberships: [Users -> SUBSET Orgs]
  log,      \* the sudo events of event_logs
  jar,      \* the browser's cookies
  tab,      \* [Tabs -> the request in flight]
  ended,    \* for checking: [Users -> when its roles and memberships last ended]
  clock, calls, changes

accounts == <<role, member, ended>>
vars == <<role, member, log, jar, tab, ended, clock, calls, changes>>

(* Only Customers are scoped to an organization, and every Customer who    *)
(* logged in is.                                                           *)
Scoped(k) ==
  /\ k.org # None => k.role = "Customer"
  /\ k.role = "Customer" /\ k.by = None => k.org # None

(* Claims; `read' is when the user's row was, `issued' the iat claim.      *)
Token == {k \in [uid : Users, role : Roles, org : Orgs \union {None},
                 by : Users \union {None}, read : Nat, issued : Nat] : Scoped(k)}
Cookie == Token \union {None}

ASSUME TokenAssumption == None \notin Token /\ Keep \notin Token
Jar == [sd : Cookie, ret : Cookie]

ValidFaulty(k) == TRUE

(* ParseToken.                                                             *)
Valid(k) == clock < k.issued + TTL

(* A request: the cookies it came with, the user it asks for, what the     *)
(* handler has read of that user, the cookies of the answer.               *)
Request == [stage : {"idle", "sent", "loaded", "scoped", "answered"},
            op : {"none", "login", "start", "stop", "logout"},
            who : Users \union {None},
            sd : Cookie, ret : Cookie,
            role : Roles \union {None}, org : Orgs \union {None}, read : Nat,
            outSd : Cookie, outRet : Cookie \union {Keep}]
Idle == [stage |-> "idle", op |-> "none", who |-> None, sd |-> None, ret |-> None,
         role |-> None, org |-> None, read |-> 0, outSd |-> None, outRet |-> None]

Event == [event : {"sudo_started", "sudo_stopped"}, actor : Users, by : Users, at : Nat]

(* When a user last ceased to be something; None for never.               *)
Endings == [Roles \union Orgs -> Nat \union {None}]

Init ==
  /\ role = InitialRole /\ member = InitialMember
  /\ log = {}
  /\ jar = [sd |-> None, ret |-> None]
  /\ tab = [t \in Tabs |-> Idle]
  /\ ended = [u \in Users |-> [c \in Roles \union Orgs |-> None]]
  /\ clock = 0 /\ calls = 0 /\ changes = 0

-----------------------------------------------------------------------------
(* The browser sends a request: a login as a user whose password it has, a *)
(* sudo as a user of the list, the banner's way back.  Of its cookies, kept *)
(* here are the ones the handler looks at.                                 *)
Send(t) ==
  /\ tab[t].stage = "idle" /\ calls < MaxCalls
  /\ \E op \in {"login", "start", "stop", "logout"}, u \in Users \union {None} :
       /\ (u = None) <=> (op \in {"stop", "logout"})
       /\ tab' = [tab EXCEPT ![t] = [Idle EXCEPT !.stage = "sent", !.op = op, !.who = u,
              !.sd = IF op = "login" THEN None ELSE jar.sd,
              !.ret = IF op = "stop" THEN jar.ret ELSE None]]
  /\ calls' = calls + 1
  /\ UNCHANGED <<accounts, log, jar, clock, changes>>

(* RequireAuth: the cookie's token, if it is still good, is the caller.    *)
Authenticated(t) == tab[t].sd # None /\ Valid(tab[t].sd)

(* RequireCapability(CapSudo), and not into one's own account.             *)
MayStart(t) ==
  /\ Authenticated(t)
  /\ tab[t].sd.role = "SystemAdmin" /\ tab[t].who # tab[t].sd.uid

(* The user's row; staff have no organization to ask for.                 *)
LoadUser(t) ==
  /\ tab[t].stage = "sent"
  /\ tab[t].op = "login" \/ (tab[t].op = "start" /\ MayStart(t))
  /\ tab' = [tab EXCEPT
       ![t].stage = IF role[tab[t].who] = "Customer" THEN "loaded" ELSE "scoped",
       ![t].role = role[tab[t].who], ![t].read = clock]
  /\ UNCHANGED <<accounts, log, jar, clock, calls, changes>>

(* A login names one of the user's organizations.  A sudo takes the first  *)
(* of them, and none if there is none or the query fails.                  *)
LoadOrg(t) ==
  /\ tab[t].stage = "loaded"
  /\ \E o \in member[tab[t].who] \union {None} :
       /\ o = None => tab[t].op = "start"
       /\ tab' = [tab EXCEPT ![t].stage = "scoped", ![t].org = o]
  /\ UNCHANGED <<accounts, log, jar, clock, calls, changes>>

Answer(t, sd, ret) ==
  tab' = [tab EXCEPT ![t] = [Idle EXCEPT !.stage = "answered", !.op = tab[t].op,
                                         !.sd = tab[t].sd, !.outSd = sd, !.outRet = ret]]

Claims(t, by) ==
  [uid |-> tab[t].who, role |-> tab[t].role, org |-> tab[t].org, by |-> by,
   read |-> tab[t].read, issued |-> clock]

(* IssueToken: the return cookie, if any, stays.                          *)
IssueLogin(t) ==
  /\ tab[t].stage = "scoped" /\ tab[t].op = "login"
  /\ Answer(t, Claims(t, None), Keep)
  /\ UNCHANGED <<accounts, log, jar, clock, calls, changes>>

SudoEvent(event, k) == [event |-> event, actor |-> k.uid, by |-> k.by, at |-> clock]

(* A failed append is only logged.                                         *)
IssueSudoUnloggedFaulty(t) ==
  /\ tab[t].stage = "scoped" /\ tab[t].op = "start"
  /\ LET k == Claims(t, tab[t].sd.uid) IN
       /\ log' \in {log, log \union {SudoEvent("sudo_started", k)}}
       /\ Answer(t, k, tab[t].sd)
  /\ UNCHANGED <<accounts, jar, clock, calls, changes>>

(* A sudo from within a sudo carries on the first admin's name.            *)
IssueSudoNestedFaulty(t) ==
  /\ tab[t].stage = "scoped" /\ tab[t].op = "start"
  /\ LET k == Claims(t, IF tab[t].sd.by = None THEN tab[t].sd.uid ELSE tab[t].sd.by) IN
       /\ log' = log \union {SudoEvent("sudo_started", k)}
       /\ Answer(t, k, tab[t].sd)
  /\ UNCHANGED <<accounts, jar, clock, calls, changes>>

(* IssueSudoToken, the log, and the caller's token as the return cookie.   *)
IssueSudo(t) ==
  /\ tab[t].stage = "scoped" /\ tab[t].op = "start"
  /\ LET k == Claims(t, tab[t].sd.uid) IN
       /\ log' = log \union {SudoEvent("sudo_started", k)}
       /\ Answer(t, k, tab[t].sd)
  /\ UNCHANGED <<accounts, jar, clock, calls, changes>>

(* The end of the session is logged before the return cookie is looked at: *)
(* without one the answer is an error, and the session goes on.            *)
Stop(t) ==
  /\ tab[t].stage = "sent" /\ tab[t].op = "stop"
  /\ Authenticated(t) /\ tab[t].sd.by # None
  /\ log' = log \union {SudoEvent("sudo_stopped", tab[t].sd)}
  /\ \/ tab[t].ret # None /\ Answer(t, tab[t].ret, None)
     \/ tab[t].ret = None /\ tab' = [tab EXCEPT ![t] = Idle]
  /\ UNCHANGED <<accounts, jar, clock, calls, changes>>

Logout(t) ==
  /\ tab[t].stage = "sent" /\ tab[t].op = "logout" /\ Authenticated(t)
  /\ Answer(t, None, None)
  /\ UNCHANGED <<accounts, log, jar, clock, calls, changes>>

(* Set-Cookie.                                                            *)
Receive(t) ==
  /\ tab[t].stage = "answered"
  /\ jar' = [sd |-> tab[t].outSd, ret |-> IF tab[t].outRet = Keep THEN jar.ret ELSE tab[t].outRet]
  /\ tab' = [tab EXCEPT ![t] = Idle]
  /\ UNCHANGED <<accounts, log, clock, calls, changes>>

(* Every other way a request ends: refused, failed, or its answer lost.   *)
Fail(t) ==
  /\ tab[t].stage # "idle"
  /\ tab' = [tab EXCEPT ![t] = Idle]
  /\ UNCHANGED <<accounts, log, jar, clock, calls, changes>>

(* A cookie reaches its expiry date, or the user drops it.                *)
Forget ==
  /\ changes < MaxChanges /\ changes' = changes + 1
  /\ \/ jar.sd # None /\ jar' = [jar EXCEPT !.sd = None]
     \/ jar.ret # None /\ jar' = [jar EXCEPT !.ret = None]
  /\ UNCHANGED <<accounts, log, tab, clock, calls>>

-----------------------------------------------------------------------------
(* Other sessions: a SystemAdmin changes a role, or an organization's      *)
(* members.                                                               *)
ChangeRole(u) ==
  /\ changes < MaxChanges
  /\ \E r \in Roles \ {role[u]} : role' = [role EXCEPT ![u] = r]
  /\ ended' = [ended EXCEPT ![u][role[u]] = clock]
  /\ changes' = changes + 1
  /\ UNCHANGED <<member, log, jar, tab, clock, calls>>

AddMember(u, o) ==
  /\ changes < MaxChanges /\ o \notin member[u]
  /\ member' = [member EXCEPT ![u] = @ \union {o}]
  /\ changes' = changes + 1
  /\ UNCHANGED <<role, log, jar, tab, ended, clock, calls>>

RemoveMember(u, o) ==
  /\ changes < MaxChanges /\ o \in member[u]
  /\ member' = [member EXCEPT ![u] = @ \ {o}]
  /\ ended' = [ended EXCEPT ![u][o] = clock]
  /\ changes' = changes + 1
  /\ UNCHANGED <<role, log, jar, tab, clock, calls>>

(* Time passes, but no handler takes longer than Latency.                 *)
Tick ==
  /\ clock < MaxTime
  /\ \A t \in Tabs : tab[t].stage \in {"loaded", "scoped"} => clock < tab[t].read + Latency
  /\ clock' = clock + 1
  /\ UNCHANGED <<accounts, log, jar, tab, calls, changes>>

Next ==
  \/ \E t \in Tabs :
       \/ Send(t) \/ LoadUser(t) \/ LoadOrg(t) \/ IssueLogin(t) \/ IssueSudo(t)
       \/ Stop(t) \/ Logout(t) \/ Receive(t) \/ Fail(t)
  \/ \E u \in Users : ChangeRole(u) \/ \E o \in Orgs : AddMember(u, o) \/ RemoveMember(u, o)
  \/ Forget \/ Tick

Spec == Init /\ [][Next]_vars

-----------------------------------------------------------------------------
(* Types; in particular the tokens' scope (auth_handlers.go:33-48): staff  *)
(* see every organization, a Customer who logged in their own.             *)
TypeOK ==
  /\ role \in [Users -> Roles] /\ member \in [Users -> SUBSET Orgs]
  /\ log \subseteq Event
  /\ jar \in Jar
  /\ tab \in [Tabs -> Request]
  /\ ended \in [Users -> Endings]
  /\ clock \in Nat /\ calls \in Nat /\ changes \in Nat

(* Every token in the browser or on its way.                              *)
Tokens ==
  ({jar.sd, jar.ret} \union
   UNION {{tab[t].sd, tab[t].ret, tab[t].outSd, tab[t].outRet} : t \in Tabs}) \ {None, Keep}

(* The audit log explains every session under another's name: whoever      *)
(* holds a sudo token, however it came to the browser, its start is        *)
(* recorded, and an end is only recorded after a start (sudo.go:68-76).    *)
Started(uid, by, at) ==
  [event |-> "sudo_started", actor |-> uid, by |-> by, at |-> at] \in log

SudoLogged ==
  /\ \A k \in Tokens : k.by # None => Started(k.uid, k.by, k.issued)
  /\ \A e \in log : e.event = "sudo_stopped" =>
       \E at \in 0 .. e.at : Started(e.actor, e.by, at)

(* Whatever tabs do to the cookies meanwhile, a sudo that is ended gives   *)
(* the session back to the user its token and the log name as the one      *)
(* behind it (sudo_handlers.go:51-69).                                     *)
ReturnsToStarter ==
  \A t \in Tabs : tab[t].stage = "answered" /\ tab[t].op = "stop" =>
                    tab[t].outSd.uid = tab[t].sd.by

(* A token that is still accepted says nothing of its user that ceased to  *)
(* be so longer ago than a token's life and the time it took to make it    *)
(* (auth.go:103-118): the server asks nobody again.                        *)
Held(u, c) == role[u] = c \/ c \in member[u]

Fresh(u, c) == Held(u, c) \/ (ended[u][c] # None /\ clock < ended[u][c] + Latency + TTL)

ClaimsFresh ==
  \A k \in Tokens : Valid(k) =>
    Fresh(k.uid, k.role) /\ (k.org # None => Fresh(k.uid, k.org))
=============================================================================
