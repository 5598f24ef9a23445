---------------------------- MODULE SessionProofs ----------------------------
(***************************************************************************)
(* Sessions for any users, organizations, tabs, token life and latency.    *)
(*                                                                         *)
(* A token is made of rows read at one moment; whatever the accounts do    *)
(* later, its claims either still hold or were given up after that moment. *)
(* So the set of good tokens only grows, and cookies and requests, which   *)
(* merely pass tokens on, stay within it.                                  *)
(***************************************************************************)
EXTENDS Sessions, TLAPS

(* <<u, c, n>>: c held of u at time n or later.                            *)
Since ==
  {x \in Users \X (Roles \union Orgs) \X Nat :
     /\ x[3] <= clock
     /\ Held(x[1], x[2]) \/ (ended[x[1]][x[2]] # None /\ x[3] <= ended[x[1]][x[2]])}

(* Tokens that were made as they should be.                               *)
Good ==
  {k \in Token :
     /\ k.issued <= clock /\ k.issued <= k.read + Latency
     /\ k.by # None => Started(k.uid, k.by, k.issued)
     /\ <<k.uid, k.role, k.read>> \in Since
     /\ k.org # None => <<k.uid, k.org, k.read>> \in Since}

(* The return cookie is of the user behind the session.                   *)
Paired(sd, ret) ==
  sd # None /\ ret # None => (sd.by # None => ret.uid = sd.by)

(* What a handler has read, and what it answers.                           *)
ReadOK(t) ==
  tab[t].stage \in {"loaded", "scoped"} =>
    /\ tab[t].op \in {"login", "start"}
    /\ clock <= tab[t].read + Latency
    /\ <<tab[t].who, tab[t].role, tab[t].read>> \in Since
    /\ tab[t].org # None => <<tab[t].who, tab[t].org, tab[t].read>> \in Since
                             /\ tab[t].role = "Customer"
    /\ tab[t].stage = "loaded" => tab[t].role = "Customer"
    /\ tab[t].stage = "scoped" /\ tab[t].op = "login" /\ tab[t].role = "Customer"
         => tab[t].org # None
    /\ tab[t].op = "start" => tab[t].sd # None

AnswerOK(t) ==
  tab[t].stage = "answered" =>
    /\ tab[t].outRet = Keep => tab[t].outSd # None /\ tab[t].outSd.by = None
    /\ tab[t].outRet # Keep => Paired(tab[t].outSd, tab[t].outRet)
    /\ tab[t].op = "stop" => tab[t].outSd.uid = tab[t].sd.by

RequestOK(t) ==
  /\ tab[t].sd \in Good \union {None} /\ tab[t].ret \in Good \union {None}
  /\ tab[t].outSd \in Good \union {None} /\ tab[t].outRet \in Good \union {None, Keep}
  /\ tab[t].stage = "sent" => /\ tab[t].who = None => tab[t].op \in {"stop", "logout"}
                              /\ tab[t].org = None
                              /\ tab[t].op = "stop" => Paired(tab[t].sd, tab[t].ret)
  /\ ReadOK(t)
  /\ AnswerOK(t)

JarOK ==
  jar.sd \in Good \union {None} /\ jar.ret \in Good \union {None} /\ Paired(jar.sd, jar.ret)

StopsLogged ==
  \A e \in log : e.event = "sudo_stopped" =>
    \E at \in 0 .. e.at : Started(e.actor, e.by, at)

IInv == TypeOK /\ JarOK /\ StopsLogged /\ \A t \in Tabs : RequestOK(t)

-----------------------------------------------------------------------------
LEMMA IdleOK == Idle \in Request
  BY DEF Idle, Request, Cookie

LEMMA InitIInv == Init => IInv
<1> SUFFICES ASSUME Init PROVE IInv
  OBVIOUS
<1>1. TypeOK
  BY SessionsAssumption, IdleOK DEF Init, TypeOK, Jar, Cookie, Endings
<1>2. JarOK /\ StopsLogged
  BY DEF Init, JarOK, StopsLogged, Paired
<1>3. \A t \in Tabs : RequestOK(t)
  BY DEF Init, RequestOK, ReadOK, AnswerOK, Idle
<1>4. QED
  BY <1>1, <1>2, <1>3 DEF IInv

(* No claim is forgotten: it holds still, or its end is on record.        *)
LEMMA SinceGrows ==
  ASSUME TypeOK, clock' \in Nat, clock <= clock',
         \/ UNCHANGED accounts
         \/ \E u \in Users : ChangeRole(u) \/ \E o \in Orgs : AddMember(u, o) \/ RemoveMember(u, o)
  PROVE  Since \subseteq Since'
<1> SUFFICES ASSUME NEW u \in Users, NEW c \in Roles \union Orgs, NEW n \in Nat,
                    <<u, c, n>> \in Since
             PROVE  <<u, c, n>> \in Since'
  BY DEF Since
<1> DEFINE Past == Held(u, c) \/ (ended[u][c] # None /\ n <= ended[u][c])
<1>1. n <= clock /\ Past
  BY DEF Since
<1>2. n <= clock'
  BY <1>1 DEF TypeOK
<1>3. Past'
  <2>1. CASE UNCHANGED accounts
    BY <1>1, <2>1 DEF accounts, Held
  <2>2. ASSUME NEW v \in Users, ChangeRole(v) PROVE Past'
    <3>1. /\ member' = member /\ clock' = clock
          /\ \A w \in Users : w # v => role'[w] = role[w] /\ ended'[w] = ended[w]
          /\ \A d \in Roles \union Orgs :
               ended'[v][d] = IF d = role[v] THEN clock ELSE ended[v][d]
      BY <2>2 DEF ChangeRole, TypeOK, Endings
    <3>2. CASE u # v
      BY <1>1, <3>1, <3>2 DEF Held
    <3>3. CASE u = v /\ c = role[v]
      BY <1>1, <3>1, <3>3, SessionsAssumption DEF TypeOK
    <3>4. CASE u = v /\ c # role[v]
      BY <1>1, <3>1, <3>4 DEF Held
    <3>5. QED
      BY <3>2, <3>3, <3>4
  <2>3. ASSUME NEW v \in Users, NEW o \in Orgs, AddMember(v, o) PROVE Past'
    BY <1>1, <2>3 DEF AddMember, TypeOK, Held
  <2>4. ASSUME NEW v \in Users, NEW o \in Orgs, RemoveMember(v, o) PROVE Past'
    <3>1. /\ role' = role /\ clock' = clock
          /\ \A w \in Users : w # v => member'[w] = member[w] /\ ended'[w] = ended[w]
          /\ member'[v] = member[v] \ {o}
          /\ \A d \in Roles \union Orgs :
               ended'[v][d] = IF d = o THEN clock ELSE ended[v][d]
      BY <2>4 DEF RemoveMember, TypeOK, Endings
    <3>2. CASE u # v
      BY <1>1, <3>1, <3>2 DEF Held
    <3>3. CASE u = v /\ c = o
      BY <1>1, <3>1, <3>3, SessionsAssumption DEF TypeOK
    <3>4. CASE u = v /\ c # o
      BY <1>1, <3>1, <3>4 DEF Held
    <3>5. QED
      BY <3>2, <3>3, <3>4
  <2>5. QED
    BY <2>1, <2>2, <2>3, <2>4
<1>4. QED
  BY <1>2, <1>3 DEF Since

LEMMA GoodGrows ==
  ASSUME TypeOK, clock' \in Nat, clock <= clock', Since \subseteq Since', log \subseteq log'
  PROVE  Good \subseteq Good'
<1> SUFFICES ASSUME NEW k \in Good PROVE k \in Good'
  OBVIOUS
<1>1. k \in Token /\ k.issued \in Nat /\ k.issued <= clock'
  BY DEF Good, Token, TypeOK
<1>2. k.by # None => Started(k.uid, k.by, k.issued)'
  BY DEF Good, Started
<1>3. QED
  BY <1>1, <1>2 DEF Good

(* When nobody's request or cookies move, what is right about them stays.  *)
LEMMA BystandersOK ==
  ASSUME IInv, Good \subseteq Good', Since \subseteq Since', UNCHANGED <<tab, jar>>,
         \A t \in Tabs : tab[t].stage \in {"loaded", "scoped"} => clock' <= tab[t].read + Latency
  PROVE  JarOK' /\ \A t \in Tabs : RequestOK(t)'
<1>1. JarOK'
  BY DEF IInv, JarOK, Paired
<1>2. ASSUME NEW t \in Tabs PROVE RequestOK(t)'
  <2>1. RequestOK(t)
    BY DEF IInv
  <2>2. ReadOK(t)'
    BY <2>1 DEF RequestOK, ReadOK
  <2>3. AnswerOK(t)'
    BY <2>1 DEF RequestOK, AnswerOK, Paired
  <2>4. QED
    BY <2>1, <2>2, <2>3 DEF RequestOK, Paired
<1>3. QED
  BY <1>1, <1>2

LEMMA AccountsIInv ==
  ASSUME IInv, NEW u \in Users,
         ChangeRole(u) \/ \E o \in Orgs : AddMember(u, o) \/ RemoveMember(u, o)
  PROVE  IInv'
<1>0. TypeOK
  BY DEF IInv
<1>1. UNCHANGED <<log, jar, tab, clock, calls>>
  BY DEF ChangeRole, AddMember, RemoveMember
<1>2. TypeOK'
  <2>1. role' \in [Users -> Roles] /\ member' \in [Users -> SUBSET Orgs] /\ changes' \in Nat
    BY <1>0 DEF TypeOK, ChangeRole, AddMember, RemoveMember
  <2>2. ended' \in [Users -> Endings]
    <3>1. \A c \in Roles \union Orgs : [ended[u] EXCEPT ![c] = clock] \in Endings
      BY <1>0 DEF TypeOK, Endings
    <3>2. role[u] \in Roles
      BY <1>0 DEF TypeOK
    <3>3. \/ ended' = ended
          \/ \E c \in Roles \union Orgs : ended' = [ended EXCEPT ![u] = [ended[u] EXCEPT ![c] = clock]]
      BY <3>2 DEF ChangeRole, AddMember, RemoveMember
    <3>4. QED
      BY <1>0, <3>1, <3>3 DEF TypeOK
  <2>3. QED
    BY <1>0, <1>1, <2>1, <2>2 DEF TypeOK
<1>3. TypeOK /\ clock' \in Nat /\ clock <= clock'
  BY <1>0, <1>1 DEF TypeOK
<1>4. Since \subseteq Since'
  <2>1. \E v \in Users : ChangeRole(v) \/ \E o \in Orgs : AddMember(v, o) \/ RemoveMember(v, o)
    OBVIOUS
  <2>2. QED
    BY <1>3, <2>1, SinceGrows
<1>5. Good \subseteq Good'
  BY <1>1, <1>3, <1>4, GoodGrows
<1>6. \A t \in Tabs : tab[t].stage \in {"loaded", "scoped"} => clock' <= tab[t].read + Latency
  BY <1>1 DEF IInv, RequestOK, ReadOK
<1>7. JarOK' /\ \A t \in Tabs : RequestOK(t)'
  BY <1>1, <1>4, <1>5, <1>6, BystandersOK
<1>8. StopsLogged'
  BY <1>1 DEF IInv, StopsLogged, Started
<1>9. QED
  BY <1>2, <1>7, <1>8 DEF IInv

LEMMA TickIInv ==
  ASSUME IInv, Tick
  PROVE  IInv'
<1>0. TypeOK
  BY DEF IInv
<1>1. UNCHANGED <<role, member, ended, log, jar, tab, calls, changes>> /\ clock' = clock + 1
  BY DEF Tick, accounts
<1>2. TypeOK'
  BY <1>0, <1>1 DEF TypeOK
<1>3. TypeOK /\ clock' \in Nat /\ clock <= clock'
  BY <1>0, <1>1 DEF TypeOK
<1>4. Since \subseteq Since'
  BY <1>1, <1>3, SinceGrows DEF accounts
<1>5. Good \subseteq Good'
  BY <1>1, <1>3, <1>4, GoodGrows
<1>6. \A t \in Tabs : tab[t].stage \in {"loaded", "scoped"} => clock' <= tab[t].read + Latency
  <2>1. \A t \in Tabs : tab[t].read \in Nat
    BY DEF IInv, TypeOK, Request
  <2>2. QED
    BY <1>1, <2>1, SessionsAssumption DEF Tick, IInv, TypeOK
<1>7. JarOK' /\ \A t \in Tabs : RequestOK(t)'
  BY <1>1, <1>4, <1>5, <1>6, BystandersOK
<1>8. StopsLogged'
  BY <1>1 DEF IInv, StopsLogged, Started
<1>9. QED
  BY <1>2, <1>7, <1>8 DEF IInv

(* A step of one tab, the accounts and the clock at rest: the other tabs'  *)
(* requests need no second look.                                           *)
LEMMA OtherTabsOK ==
  ASSUME IInv, UNCHANGED <<role, member, ended, clock>>, log \subseteq log'
  PROVE  /\ Since \subseteq Since' /\ Good \subseteq Good'
         /\ \A t \in Tabs : tab'[t] = tab[t] => RequestOK(t)'
<1>0. TypeOK
  BY DEF IInv
<1>1. TypeOK /\ clock' \in Nat /\ clock <= clock'
  BY <1>0 DEF TypeOK
<1>2. Since \subseteq Since'
  BY <1>1, SinceGrows DEF accounts
<1>3. Good \subseteq Good'
  BY <1>1, <1>2, GoodGrows
<1>4. ASSUME NEW t \in Tabs, tab'[t] = tab[t] PROVE RequestOK(t)'
  <2>1. RequestOK(t)
    BY DEF IInv
  <2>2. ReadOK(t)'
    BY <1>2, <1>4, <2>1 DEF RequestOK, ReadOK
  <2>3. AnswerOK(t)'
    BY <1>4, <2>1 DEF RequestOK, AnswerOK, Paired
  <2>4. QED
    BY <1>3, <1>4, <2>1, <2>2, <2>3 DEF RequestOK, Paired
<1>5. QED
  BY <1>2, <1>3, <1>4

(* The step of tab t leads to a good state if its new request, the cookies *)
(* and the log are in order.                                               *)
LEMMA TabIInv ==
  ASSUME IInv, NEW t \in Tabs, UNCHANGED <<role, member, ended, clock>>, log \subseteq log',
         \A s \in Tabs : s # t => tab'[s] = tab[s],
         TypeOK', JarOK', StopsLogged', RequestOK(t)'
  PROVE  IInv'
<1>1. \A s \in Tabs : s # t => RequestOK(s)'
  BY OtherTabsOK
<1>2. QED
  BY <1>1 DEF IInv

LEMMA SendIInv ==
  ASSUME IInv, NEW t \in Tabs, Send(t)
  PROVE  IInv'
<1>0. TypeOK /\ JarOK
  BY DEF IInv
<1>1. PICK op \in {"login", "start", "stop", "logout"}, u \in Users \union {None},
           sd \in {None, jar.sd}, ret \in {None, jar.ret} :
        /\ (u = None) <=> (op \in {"stop", "logout"})
        /\ op = "stop" => sd = jar.sd /\ ret = jar.ret
        /\ tab' = [tab EXCEPT ![t] = [Idle EXCEPT !.stage = "sent", !.op = op, !.who = u,
                                                  !.sd = sd, !.ret = ret]]
  BY DEF Send
<1>2. /\ calls \in Nat /\ calls' = calls + 1
      /\ UNCHANGED <<role, member, ended, log, jar, clock, changes>>
  BY <1>0 DEF Send, accounts, TypeOK
<1> DEFINE r == [Idle EXCEPT !.stage = "sent", !.op = op, !.who = u, !.sd = sd, !.ret = ret]
<1>3. r \in Request
  <2>1. sd \in Cookie /\ ret \in Cookie
    BY <1>0 DEF TypeOK, Jar, Cookie
  <2>2. QED
    BY <2>1, IdleOK DEF Request
<1>4. tab'[t] = r /\ \A s \in Tabs : s # t => tab'[s] = tab[s]
  BY <1>0, <1>1 DEF TypeOK
<1>5. TypeOK'
  <2>1. tab' \in [Tabs -> Request]
    BY <1>0, <1>1, <1>3 DEF TypeOK
  <2>2. QED
    BY <1>0, <1>2, <2>1 DEF TypeOK
<1>6. Since \subseteq Since' /\ Good \subseteq Good'
  BY <1>2, OtherTabsOK
<1>7. JarOK' /\ StopsLogged'
  BY <1>0, <1>2, <1>6 DEF IInv, JarOK, Paired, StopsLogged, Started
<1>8. RequestOK(t)'
  <2>1. ReadOK(t)' /\ AnswerOK(t)'
    BY <1>4 DEF ReadOK, AnswerOK, Idle
  <2>2. QED
    <3>1. /\ r.sd = sd /\ r.ret = ret /\ r.who = u /\ r.op = op /\ r.org = None
          /\ r.outSd = None /\ r.outRet = None
      BY DEF Idle
    <3>2. sd \in Good' \union {None} /\ ret \in Good' \union {None}
      BY <1>0, <1>6 DEF JarOK
    <3>3. op = "stop" => Paired(sd, ret)
      BY <1>0, <1>1 DEF JarOK
    <3>4. QED
      BY <1>1, <1>4, <2>1, <3>1, <3>2, <3>3 DEF RequestOK, Paired
<1>9. QED
  BY <1>2, <1>4, <1>5, <1>7, <1>8, TabIInv

LEMMA LoadUserIInv ==
  ASSUME IInv, NEW t \in Tabs, LoadUser(t)
  PROVE  IInv'
<1>0. TypeOK /\ JarOK /\ RequestOK(t) /\ tab[t] \in Request
  BY DEF IInv, TypeOK
<1>1. /\ tab[t].stage = "sent" /\ tab[t].op \in {"login", "start"}
      /\ tab[t].op = "start" => tab[t].sd # None
      /\ UNCHANGED <<role, member, ended, log, jar, clock, calls, changes>>
  BY DEF LoadUser, MayStart, Authenticated, accounts
<1>2. tab[t].who \in Users /\ tab[t].org = None /\ role[tab[t].who] \in Roles
  BY <1>0, <1>1 DEF RequestOK, Request, TypeOK
<1> DEFINE r == [tab[t] EXCEPT
       !.stage = IF role[tab[t].who] = "Customer" THEN "loaded" ELSE "scoped",
       !.role = role[tab[t].who], !.read = clock]
<1>3. r \in Request
  BY <1>0, <1>2 DEF Request, TypeOK
<1>4. tab' = [tab EXCEPT ![t] = r]
  BY <1>0 DEF LoadUser, TypeOK, Request
<1>5. tab'[t] = r /\ \A s \in Tabs : s # t => tab'[s] = tab[s]
  BY <1>0, <1>4 DEF TypeOK
<1>6. TypeOK'
  <2>1. tab' \in [Tabs -> Request]
    BY <1>0, <1>3, <1>4 DEF TypeOK
  <2>2. QED
    BY <1>0, <1>1, <2>1 DEF TypeOK
<1>7. Since \subseteq Since' /\ Good \subseteq Good'
  BY <1>1, OtherTabsOK
<1>8. JarOK' /\ StopsLogged'
  BY <1>0, <1>1, <1>7 DEF IInv, JarOK, Paired, StopsLogged, Started
<1>9. RequestOK(t)'
  <2>1. /\ r.who = tab[t].who /\ r.op = tab[t].op /\ r.sd = tab[t].sd /\ r.ret = tab[t].ret
        /\ r.outSd = tab[t].outSd /\ r.outRet = tab[t].outRet /\ r.org = None
        /\ r.role = role[tab[t].who] /\ r.read = clock /\ r.stage \in {"loaded", "scoped"}
        /\ r.stage = "loaded" <=> r.role = "Customer"
    BY <1>0, <1>2 DEF Request
  <2>2. <<r.who, r.role, r.read>> \in Since'
    BY <1>0, <1>1, <1>2, <2>1 DEF Since, Held, TypeOK
  <2>3. clock' <= r.read + Latency
    BY <1>0, <1>1, <2>1, SessionsAssumption DEF TypeOK
  <2>4. ReadOK(t)'
    BY <1>1, <1>5, <2>1, <2>2, <2>3 DEF ReadOK
  <2>5. AnswerOK(t)'
    BY <1>5, <2>1 DEF AnswerOK
  <2>6. QED
    BY <1>0, <1>5, <1>7, <2>1, <2>4, <2>5 DEF RequestOK
<1>10. QED
  BY <1>1, <1>5, <1>6, <1>8, <1>9, TabIInv

LEMMA LoadOrgIInv ==
  ASSUME IInv, NEW t \in Tabs, LoadOrg(t)
  PROVE  IInv'
<1>0. TypeOK /\ JarOK /\ RequestOK(t) /\ tab[t] \in Request
  BY DEF IInv, TypeOK
<1>1. PICK o \in member[tab[t].who] \union {None} :
        /\ o = None => tab[t].op = "start"
        /\ tab' = [tab EXCEPT ![t].stage = "scoped", ![t].org = o]
  BY DEF LoadOrg
<1>2. /\ tab[t].stage = "loaded"
      /\ UNCHANGED <<role, member, ended, log, jar, clock, calls, changes>>
  BY DEF LoadOrg, accounts
<1>3. /\ tab[t].who \in Users /\ tab[t].role = "Customer" /\ tab[t].read \in Nat
      /\ tab[t].read <= clock
  BY <1>0, <1>2 DEF RequestOK, ReadOK, Since, Request
<1>4. o \in Orgs \union {None}
  BY <1>0, <1>3 DEF TypeOK
<1> DEFINE r == [tab[t] EXCEPT !.stage = "scoped", !.org = o]
<1>5. r \in Request
  BY <1>0, <1>4 DEF Request
<1>6. tab' = [tab EXCEPT ![t] = r]
  BY <1>0, <1>1 DEF TypeOK, Request
<1>7. tab'[t] = r /\ \A s \in Tabs : s # t => tab'[s] = tab[s]
  BY <1>0, <1>6 DEF TypeOK
<1>8. TypeOK'
  <2>1. tab' \in [Tabs -> Request]
    BY <1>0, <1>5, <1>6 DEF TypeOK
  <2>2. QED
    BY <1>0, <1>2, <2>1 DEF TypeOK
<1>9. Since \subseteq Since' /\ Good \subseteq Good'
  BY <1>2, OtherTabsOK
<1>10. JarOK' /\ StopsLogged'
  BY <1>0, <1>2, <1>9 DEF IInv, JarOK, Paired, StopsLogged, Started
<1>11. RequestOK(t)'
  <2>1. /\ r.who = tab[t].who /\ r.op = tab[t].op /\ r.sd = tab[t].sd /\ r.ret = tab[t].ret
        /\ r.outSd = tab[t].outSd /\ r.outRet = tab[t].outRet /\ r.org = o
        /\ r.role = tab[t].role /\ r.read = tab[t].read /\ r.stage = "scoped"
    BY <1>0 DEF Request
  <2>2. o # None => <<r.who, o, r.read>> \in Since
    BY <1>1, <1>3, <1>4, <2>1 DEF Since, Held
  <2>3. ReadOK(t)'
    BY <1>0, <1>1, <1>2, <1>3, <1>7, <1>9, <2>1, <2>2 DEF RequestOK, ReadOK
  <2>4. AnswerOK(t)'
    BY <1>7, <2>1 DEF AnswerOK
  <2>5. QED
    BY <1>0, <1>7, <1>9, <2>1, <2>3, <2>4 DEF RequestOK
<1>12. QED
  BY <1>2, <1>7, <1>8, <1>10, <1>11, TabIInv

(* An answer of good tokens, in order among themselves.                   *)
LEMMA AnswerIInv ==
  ASSUME IInv, NEW t \in Tabs, NEW sd, NEW ret, Answer(t, sd, ret),
         UNCHANGED <<role, member, ended, jar, clock, calls, changes>>,
         log \subseteq log', log' \subseteq Event, StopsLogged',
         sd \in Good' \union {None}, ret \in Good' \union {None, Keep},
         ret = Keep => sd # None /\ sd.by = None,
         ret # Keep => Paired(sd, ret),
         tab[t].op = "stop" => sd.uid = tab[t].sd.by
  PROVE  IInv'
<1>0. TypeOK /\ JarOK /\ RequestOK(t) /\ tab[t] \in Request
  BY DEF IInv, TypeOK
<1> DEFINE r == [Idle EXCEPT !.stage = "answered", !.op = tab[t].op,
                             !.sd = tab[t].sd, !.outSd = sd, !.outRet = ret]
<1>1. tab' = [tab EXCEPT ![t] = r]
  BY DEF Answer
<1>2. sd \in Cookie /\ ret \in Cookie \union {Keep}
  BY DEF Good, Cookie
<1>3. r \in Request
  BY <1>0, <1>2, IdleOK DEF Request
<1>4. tab'[t] = r /\ \A s \in Tabs : s # t => tab'[s] = tab[s]
  BY <1>0, <1>1 DEF TypeOK
<1>5. TypeOK'
  <2>1. tab' \in [Tabs -> Request]
    BY <1>0, <1>1, <1>3 DEF TypeOK
  <2>2. QED
    BY <1>0, <2>1 DEF TypeOK
<1>6. Since \subseteq Since' /\ Good \subseteq Good'
  BY OtherTabsOK
<1>7. JarOK'
  BY <1>0, <1>6 DEF JarOK, Paired
<1>8. RequestOK(t)'
  <2>1. /\ r.stage = "answered" /\ r.op = tab[t].op /\ r.sd = tab[t].sd /\ r.ret = None
        /\ r.outSd = sd /\ r.outRet = ret
    BY DEF Idle
  <2>2. ReadOK(t)'
    BY <1>4, <2>1 DEF ReadOK
  <2>3. AnswerOK(t)'
    BY <1>4, <2>1 DEF AnswerOK, Paired
  <2>4. QED
    BY <1>0, <1>4, <1>6, <2>1, <2>2, <2>3 DEF RequestOK
<1>9. QED
  BY <1>4, <1>5, <1>7, <1>8, TabIInv

(* A request that ends, whatever its answer.                              *)
LEMMA EndIInv ==
  ASSUME IInv, NEW t \in Tabs, tab' = [tab EXCEPT ![t] = Idle],
         UNCHANGED <<role, member, ended, clock, calls, changes>>,
         log \subseteq log', log' \subseteq Event, StopsLogged',
         jar' \in Jar, JarOK'
  PROVE  IInv'
<1>0. TypeOK
  BY DEF IInv
<1>1. tab'[t] = Idle /\ \A s \in Tabs : s # t => tab'[s] = tab[s]
  BY <1>0 DEF TypeOK
<1>2. TypeOK'
  <2>1. tab' \in [Tabs -> Request]
    BY <1>0, IdleOK DEF TypeOK
  <2>2. QED
    BY <1>0, <2>1 DEF TypeOK
<1>3. RequestOK(t)'
  BY <1>1 DEF RequestOK, ReadOK, AnswerOK, Idle
<1>4. QED
  BY <1>1, <1>2, <1>3, TabIInv

(* What a handler has read makes a good token.                            *)
LEMMA ClaimsGood ==
  ASSUME IInv, NEW t \in Tabs, tab[t].stage = "scoped", NEW by \in Users \union {None},
         by = None => tab[t].op = "login",
         NEW k, k = Claims(t, by), by # None => Started(k.uid, by, k.issued)',
         UNCHANGED <<role, member, ended, clock>>, log \subseteq log'
  PROVE  k \in Good'
<1>0. TypeOK /\ RequestOK(t) /\ ReadOK(t) /\ tab[t] \in Request /\ clock \in Nat
  BY DEF IInv, TypeOK, RequestOK
<1>1. /\ k.uid = tab[t].who /\ k.role = tab[t].role /\ k.org = tab[t].org /\ k.by = by
      /\ k.read = tab[t].read /\ k.issued = clock
  BY DEF Claims
<1>2. /\ <<k.uid, k.role, k.read>> \in Since /\ clock <= k.read + Latency
      /\ k.org # None => <<k.uid, k.org, k.read>> \in Since /\ k.role = "Customer"
      /\ k.role = "Customer" /\ by = None => k.org # None
  BY <1>0, <1>1 DEF ReadOK
<1>3. k.uid \in Users /\ k.role \in Roles /\ k.read \in Nat /\ k.org \in Orgs \union {None}
  <2>1. k.uid \in Users /\ k.read \in Nat /\ k.org \in Orgs \union {None}
    BY <1>0, <1>1, <1>2 DEF Since, Request
  <2>2. tab[t].role \in Roles \union {None}
    BY <1>0 DEF Request
  <2>3. tab[t].role \in Roles \union Orgs
    BY <1>1, <1>2 DEF Since
  <2>4. QED
    BY <1>1, <2>1, <2>2, <2>3, SessionsAssumption
<1>4. k \in Token
  BY <1>0, <1>1, <1>2, <1>3 DEF Token, Scoped, Claims
<1>5. Since \subseteq Since'
  BY OtherTabsOK
<1>6. k.by # None => Started(k.uid, k.by, k.issued)'
  BY <1>1
<1>7. k.issued <= clock' /\ k.issued <= k.read + Latency
  BY <1>0, <1>1, <1>2
<1>8. QED
  BY <1>2, <1>4, <1>5, <1>6, <1>7 DEF Good

LEMMA IssueLoginIInv ==
  ASSUME IInv, NEW t \in Tabs, IssueLogin(t)
  PROVE  IInv'
<1>1. PICK k : k = Claims(t, None)
  OBVIOUS
<1>2. /\ tab[t].stage = "scoped" /\ tab[t].op = "login" /\ Answer(t, k, Keep)
      /\ UNCHANGED <<role, member, ended, log, jar, clock, calls, changes>>
  BY <1>1 DEF IssueLogin, accounts
<1>3. k \in Good'
  BY <1>1, <1>2, ClaimsGood DEF Started
<1>4. k # None /\ k.by = None
  BY <1>1, <1>3, TokenAssumption DEF Good, Claims
<1>5. log' \subseteq Event /\ StopsLogged'
  <2>1. TypeOK /\ StopsLogged
    BY DEF IInv
  <2>2. QED
    BY <1>2, <2>1 DEF TypeOK, StopsLogged, Started
<1>6. QED
  BY <1>2, <1>3, <1>4, <1>5, AnswerIInv

LEMMA IssueSudoIInv ==
  ASSUME IInv, NEW t \in Tabs, IssueSudo(t)
  PROVE  IInv'
<1>0. TypeOK /\ RequestOK(t) /\ ReadOK(t) /\ tab[t] \in Request /\ clock \in Nat
  BY DEF IInv, TypeOK, RequestOK
<1>1. PICK sd, k : sd = tab[t].sd /\ k = Claims(t, sd.uid)
  OBVIOUS
<1>2. /\ tab[t].stage = "scoped" /\ tab[t].op = "start"
      /\ log' = log \union {SudoEvent("sudo_started", k)} /\ Answer(t, k, sd)
      /\ UNCHANGED <<role, member, ended, jar, clock, calls, changes>>
  BY <1>1 DEF IssueSudo, accounts
<1>3. sd \in Good /\ sd \in Token /\ sd.uid \in Users /\ sd # Keep
  BY <1>0, <1>1, <1>2, TokenAssumption DEF RequestOK, ReadOK, Good, Token
<1>4. sd.uid # None
  BY <1>3, SessionsAssumption
<1>5. k.uid = tab[t].who /\ k.by = sd.uid /\ k.issued = clock
  BY <1>1 DEF Claims
<1>6. tab[t].who \in Users
  BY <1>0, <1>2 DEF ReadOK, Since
<1>7. Started(k.uid, sd.uid, k.issued)'
  BY <1>2, <1>5 DEF Started, SudoEvent
<1>8. k \in Good'
  BY <1>1, <1>2, <1>3, <1>4, <1>7, ClaimsGood DEF Started
<1>9. SudoEvent("sudo_started", k) \in Event
  BY <1>0, <1>3, <1>5, <1>6 DEF SudoEvent, Event
<1>10. log' \subseteq Event /\ StopsLogged'
  <2>1. SudoEvent("sudo_started", k).event = "sudo_started"
    BY DEF SudoEvent
  <2>2. QED
    BY <1>0, <1>2, <1>9, <2>1 DEF IInv, TypeOK, StopsLogged, Started
<1>11. sd \in Good' \union {None, Keep} /\ Paired(k, sd)
  <2>1. Good \subseteq Good'
    BY <1>2, OtherTabsOK
  <2>2. QED
    BY <1>3, <1>5, <2>1 DEF Paired
<1>12. QED
  BY <1>2, <1>3, <1>8, <1>10, <1>11, AnswerIInv

LEMMA StopIInv ==
  ASSUME IInv, NEW t \in Tabs, Stop(t)
  PROVE  IInv'
<1>0. TypeOK /\ JarOK /\ RequestOK(t) /\ clock \in Nat
  BY DEF IInv, TypeOK
<1>1. PICK sd, ret : sd = tab[t].sd /\ ret = tab[t].ret
  OBVIOUS
<1>2. /\ tab[t].stage = "sent" /\ tab[t].op = "stop" /\ sd # None /\ sd.by # None
      /\ log' = log \union {SudoEvent("sudo_stopped", sd)}
      /\ UNCHANGED <<role, member, ended, jar, clock, calls, changes>>
  BY <1>1 DEF Stop, Authenticated, accounts
<1>3. sd \in Good /\ ret \in Good \union {None} /\ Paired(sd, ret)
  BY <1>0, <1>1, <1>2 DEF RequestOK
<1>4. /\ sd.uid \in Users /\ sd.by \in Users /\ sd.issued \in 0 .. clock
      /\ Started(sd.uid, sd.by, sd.issued)
  BY <1>0, <1>2, <1>3 DEF Good, Token
<1>5. SudoEvent("sudo_stopped", sd) \in Event
  BY <1>0, <1>4 DEF SudoEvent, Event
<1>6. log' \subseteq Event /\ StopsLogged'
  <2>1. log' \subseteq Event
    BY <1>0, <1>2, <1>5 DEF TypeOK
  <2>2. ASSUME NEW e \in log', e.event = "sudo_stopped"
        PROVE  \E at \in 0 .. e.at : Started(e.actor, e.by, at)'
    <3>1. CASE e \in log
      BY <1>2, <2>2, <3>1 DEF IInv, StopsLogged, Started
    <3>2. CASE e = SudoEvent("sudo_stopped", sd)
      <4>1. e.actor = sd.uid /\ e.by = sd.by /\ e.at = clock
        BY <3>2 DEF SudoEvent
      <4>2. Started(e.actor, e.by, sd.issued)'
        BY <1>2, <1>4, <4>1 DEF Started
      <4>3. QED
        BY <1>4, <4>1, <4>2
    <3>3. QED
      BY <1>2, <3>1, <3>2
  <2>3. QED
    BY <2>1, <2>2 DEF StopsLogged
<1>7. CASE ret # None /\ Answer(t, ret, None)
  <2>1. Good \subseteq Good'
    BY <1>2, OtherTabsOK
  <2>2. Paired(ret, None) /\ ret.uid = tab[t].sd.by
    BY <1>1, <1>2, <1>3, <1>7 DEF Paired
  <2>3. QED
    BY <1>2, <1>3, <1>6, <1>7, <2>1, <2>2, SessionsAssumption, AnswerIInv
<1>8. CASE tab' = [tab EXCEPT ![t] = Idle]
  <2>1. Good \subseteq Good'
    BY <1>2, OtherTabsOK
  <2>2. jar' \in Jar /\ JarOK'
    BY <1>0, <1>2, <2>1 DEF TypeOK, JarOK, Paired
  <2>3. QED
    BY <1>2, <1>6, <1>8, <2>2, EndIInv
<1>9. QED
  BY <1>1, <1>7, <1>8 DEF Stop

LEMMA LogoutIInv ==
  ASSUME IInv, NEW t \in Tabs, Logout(t)
  PROVE  IInv'
<1>1. /\ tab[t].op = "logout" /\ Answer(t, None, None)
      /\ UNCHANGED <<role, member, ended, log, jar, clock, calls, changes>>
  BY DEF Logout, accounts
<1>2. log' \subseteq Event /\ StopsLogged'
  <2>1. TypeOK /\ StopsLogged
    BY DEF IInv
  <2>2. QED
    BY <1>1, <2>1 DEF TypeOK, StopsLogged, Started
<1>3. Paired(None, None)
  BY DEF Paired
<1>4. QED
  BY <1>1, <1>2, <1>3, SessionsAssumption, AnswerIInv

LEMMA ReceiveIInv ==
  ASSUME IInv, NEW t \in Tabs, Receive(t)
  PROVE  IInv'
<1>0. TypeOK /\ JarOK /\ StopsLogged /\ RequestOK(t) /\ AnswerOK(t)
  BY DEF IInv, RequestOK
<1>1. /\ tab[t].stage = "answered" /\ tab' = [tab EXCEPT ![t] = Idle]
      /\ jar' = [sd |-> tab[t].outSd,
                 ret |-> IF tab[t].outRet = Keep THEN jar.ret ELSE tab[t].outRet]
      /\ UNCHANGED <<role, member, ended, log, clock, calls, changes>>
  BY DEF Receive, accounts
<1>2. Good \subseteq Good'
  BY <1>1, OtherTabsOK
<1>3. jar'.sd \in Good \union {None} /\ jar'.ret \in Good \union {None}
  BY <1>0, <1>1 DEF RequestOK, JarOK
<1>4. Paired(jar.sd, jar.ret)'
  BY <1>0, <1>1 DEF AnswerOK, Paired
<1>5. jar' \in Jar
  BY <1>1, <1>3 DEF Jar, Cookie, Good
<1>6. JarOK'
  BY <1>2, <1>3, <1>4 DEF JarOK
<1>7. log' \subseteq Event /\ StopsLogged'
  BY <1>0, <1>1 DEF TypeOK, StopsLogged, Started
<1>8. QED
  BY <1>1, <1>5, <1>6, <1>7, EndIInv

LEMMA FailIInv ==
  ASSUME IInv, NEW t \in Tabs, Fail(t)
  PROVE  IInv'
<1>0. TypeOK /\ JarOK /\ StopsLogged
  BY DEF IInv
<1>1. /\ tab' = [tab EXCEPT ![t] = Idle]
      /\ UNCHANGED <<role, member, ended, log, jar, clock, calls, changes>>
  BY DEF Fail, accounts
<1>2. Good \subseteq Good'
  BY <1>1, OtherTabsOK
<1>3. log' \subseteq Event /\ StopsLogged' /\ jar' \in Jar /\ JarOK'
  BY <1>0, <1>1, <1>2 DEF TypeOK, StopsLogged, Started, JarOK, Paired
<1>4. QED
  BY <1>1, <1>3, EndIInv

LEMMA ForgetIInv ==
  ASSUME IInv, Forget
  PROVE  IInv'
<1>0. TypeOK /\ JarOK /\ StopsLogged
  BY DEF IInv
<1>1. /\ UNCHANGED <<role, member, ended, log, tab, clock, calls>> /\ changes' = changes + 1
      /\ \/ jar' = [jar EXCEPT !.sd = None]
         \/ jar' = [jar EXCEPT !.ret = None]
  BY DEF Forget, accounts
<1>2. Good \subseteq Good' /\ \A t \in Tabs : RequestOK(t)'
  BY <1>1, OtherTabsOK
<1>3. jar' \in Jar
  BY <1>0, <1>1 DEF TypeOK, Jar, Cookie
<1>4. TypeOK'
  BY <1>0, <1>1, <1>3 DEF TypeOK
<1>5. /\ jar'.sd = jar.sd \/ jar'.sd = None
      /\ jar'.ret = jar.ret \/ jar'.ret = None
  BY <1>0, <1>1 DEF TypeOK, Jar
<1>6. JarOK' /\ StopsLogged'
  BY <1>0, <1>1, <1>2, <1>5 DEF JarOK, Paired, StopsLogged, Started
<1>7. QED
  BY <1>2, <1>4, <1>6 DEF IInv

LEMMA StepIInv == IInv /\ [Next]_vars => IInv'
<1> SUFFICES ASSUME IInv, [Next]_vars PROVE IInv'
  OBVIOUS
<1>1. ASSUME NEW t \in Tabs,
             \/ Send(t) \/ LoadUser(t) \/ LoadOrg(t) \/ IssueLogin(t) \/ IssueSudo(t)
             \/ Stop(t) \/ Logout(t) \/ Receive(t) \/ Fail(t)
      PROVE  IInv'
  BY <1>1, SendIInv, LoadUserIInv, LoadOrgIInv, IssueLoginIInv, IssueSudoIInv, StopIInv,
     LogoutIInv, ReceiveIInv, FailIInv
<1>2. ASSUME NEW u \in Users,
             ChangeRole(u) \/ \E o \in Orgs : AddMember(u, o) \/ RemoveMember(u, o)
      PROVE  IInv'
  BY <1>2, AccountsIInv
<1>3. CASE Forget
  BY <1>3, ForgetIInv
<1>4. CASE Tick
  BY <1>4, TickIInv
<1>5. CASE UNCHANGED vars
  <2>1. TypeOK /\ JarOK /\ StopsLogged
    BY DEF IInv
  <2>2. UNCHANGED <<role, member, log, jar, tab, ended, clock, calls, changes>>
    BY <1>5 DEF vars
  <2>3. Good \subseteq Good' /\ \A t \in Tabs : RequestOK(t)'
    BY <2>2, OtherTabsOK
  <2>4. QED
    BY <2>1, <2>2, <2>3 DEF IInv, TypeOK, JarOK, Paired, StopsLogged, Started
<1>6. QED
  BY <1>1, <1>2, <1>3, <1>4, <1>5 DEF Next

(* The invariant behind the theorems: tokens in the browser and on their   *)
(* way were made of what the rows said, and are in order among themselves. *)
THEOREM SessionsConsistent == Spec => []IInv
  BY InitIInv, StepIInv, PTL DEF Spec

-----------------------------------------------------------------------------
(* Every token in the cookies or in a request is a good one.              *)
LEMMA TokensGood == IInv => Tokens \subseteq Good
  BY DEF IInv, JarOK, RequestOK, Tokens

(* Accounts, log, cookies and requests are well typed, and tokens scoped   *)
(* by organization exactly where their role asks for it.                   *)
THEOREM SessionsTypeCorrect == Spec => []TypeOK
<1>1. IInv => TypeOK
  BY DEF IInv
<1>2. QED
  BY <1>1, SessionsConsistent, PTL

(* Whoever holds a sudo token, its start is in the log, and every recorded *)
(* end follows a start.                                                    *)
THEOREM EverySudoLogged == Spec => []SudoLogged
<1>1. IInv => SudoLogged
  BY TokensGood DEF IInv, SudoLogged, StopsLogged, Good
<1>2. QED
  BY <1>1, SessionsConsistent, PTL

(* A sudo that is ended gives the session back to who is named behind it. *)
THEOREM SudoReturns == Spec => []ReturnsToStarter
<1>1. IInv => ReturnsToStarter
  BY DEF IInv, RequestOK, AnswerOK, ReturnsToStarter
<1>2. QED
  BY <1>1, SessionsConsistent, PTL

(* A token that is still accepted claims nothing that ended longer ago     *)
(* than its life and the time it took to make.                             *)
THEOREM ClaimsStayFresh == Spec => []ClaimsFresh
<1>1. IInv => ClaimsFresh
  <2> SUFFICES ASSUME IInv, NEW k \in Tokens, Valid(k),
                      NEW c, c = k.role \/ (c = k.org /\ c # None)
               PROVE  Fresh(k.uid, c)
    BY DEF ClaimsFresh
  <2>1. TypeOK /\ k \in Good
    BY TokensGood DEF IInv
  <2>2. /\ k.issued \in Nat /\ k.read \in Nat /\ k.uid \in Users
        /\ k.issued <= k.read + Latency /\ clock < k.issued + TTL
        /\ <<k.uid, c, k.read>> \in Since
    BY <2>1 DEF Good, Token, Valid
  <2>3. CASE Held(k.uid, c)
    BY <2>3 DEF Fresh
  <2>4. CASE ended[k.uid][c] # None /\ k.read <= ended[k.uid][c]
    <3>1. c \in Roles \union Orgs
      BY <2>2 DEF Since
    <3>2. ended[k.uid] \in Endings
      BY <2>1, <2>2 DEF TypeOK
    <3>3. ended[k.uid][c] \in Nat
      BY <2>4, <3>1, <3>2 DEF Endings
    <3>4. clock < ended[k.uid][c] + Latency + TTL
      BY <2>1, <2>2, <2>4, <3>3, SessionsAssumption DEF TypeOK
    <3>5. QED
      BY <2>4, <3>4 DEF Fresh
  <2>5. QED
    BY <2>2, <2>3, <2>4 DEF Since
<1>2. QED
  BY <1>1, SessionsConsistent, PTL
=============================================================================
