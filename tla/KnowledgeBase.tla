---------------------------- MODULE KnowledgeBase ----------------------------
(***************************************************************************)
(* Knowledge base articles (internal/service/kb.go, internal/repo/kb.go):  *)
(* drafts proposed from resolved tickets, edited, approved and deleted by  *)
(* agents, and the services each article is linked to.                     *)
(*                                                                         *)
(* Edit and approval read the row, change the copy and save every column   *)
(* of it; gorm's Save inserts the row when it is gone.  An edit then       *)
(* brings the links in line with the form, one statement per link.         *)
(***************************************************************************)
EXTENDS Naturals, FiniteSets

CONSTANTS
  MaxArticles,  \* bound on proposals; ids are 1 .. MaxArticles
  Services,     \* the catalogue
  Requests,     \* concurrent requests
  MaxCalls,     \* bound on requests
  MaxLosses     \* bound on failed statements

ASSUME KnowledgeAssumption ==
  MaxArticles \in Nat /\ MaxCalls \in Nat /\ MaxLosses \in Nat

VARIABLES
  article,   \* kb_articles
  links,     \* kb_article_services
  proposed,  \* the highest id given out
  req,       \* [Requests -> what it is doing]
  calls,     \* requests so far
  lost       \* failures so far

vars == <<article, links, proposed, req, calls, lost>>

Articles == 1 .. MaxArticles

(* The text is told by the call that wrote it, the approval by its call.  *)
Statuses == {"absent", "draft", "published"}
Row == [status : Statuses, text : 0 .. MaxCalls, approval : 0 .. MaxCalls]
NoRow == [status |-> "absent", text |-> 0, approval |-> 0]
Draft == [status |-> "draft", text |-> 0, approval |-> 0]

(* A request: the row it read, the row it will save, the links it wants,   *)
(* those it has still to drop and to add, and whether it is the only one   *)
(* to have written this article's links since it read them.                *)
Stages == {"idle", "loaded", "saved", "linking"}
Request ==
  [ stage : Stages, op : {"propose", "update", "approve"}, id : 0 .. MaxArticles,
    read : Row, copy : Row, want : SUBSET Services,
    drop : SUBSET Services, add : SUBSET Services, alone : BOOLEAN ]
Idle ==
  [ stage |-> "idle", op |-> "update", id |-> 0, read |-> NoRow, copy |-> NoRow,
    want |-> {}, drop |-> {}, add |-> {}, alone |-> TRUE ]

LinkedTo(a) == {s \in Services : <<a, s>> \in links}

Init ==
  /\ article = [a \in Articles |-> NoRow]
  /\ links = {}
  /\ proposed = 0
  /\ req = [r \in Requests |-> Idle]
  /\ calls = 0
  /\ lost = 0

-----------------------------------------------------------------------------
(* Sets request r, and records for the others that a's links were written. *)
WriteLinks(r, a, ls, q) ==
  /\ links' = ls
  /\ req' = [s \in Requests |->
       IF s = r THEN q ELSE [req[s] EXCEPT !.alone = @ /\ req[s].id # a]]

(* ProposeFromTicket: the draft ...                                       *)
CreateDraft(r, ss) ==
  /\ req[r].stage = "idle" /\ proposed < MaxArticles
  /\ proposed' = proposed + 1
  /\ article' = [article EXCEPT ![proposed + 1] = Draft]
  /\ req' = [req EXCEPT ![r] = [Idle EXCEPT !.stage = "linking", !.op = "propose",
                                            !.id = proposed + 1, !.want = ss, !.add = ss]]
  /\ UNCHANGED <<links, calls, lost>>

(* Approve and Update: Get, the guard, and the changes to the copy.       *)
Load(r, q) ==
  /\ req[r].stage = "idle" /\ calls < MaxCalls
  /\ article[q.id].status # "absent"
  /\ calls' = calls + 1
  /\ req' = [req EXCEPT ![r] = q]
  /\ UNCHANGED <<article, links, proposed, lost>>

(* The guard on the status is gone: a published article is approved again. *)
LoadApproveFaulty(r, a) ==
  Load(r, [Idle EXCEPT !.stage = "loaded", !.op = "approve", !.id = a,
             !.read = article[a],
             !.copy = [article[a] EXCEPT !.status = "published", !.approval = calls + 1]])

LoadApprove(r, a) ==
  /\ article[a].status = "draft"
  /\ Load(r, [Idle EXCEPT !.stage = "loaded", !.op = "approve", !.id = a,
                !.read = article[a],
                !.copy = [article[a] EXCEPT !.status = "published", !.approval = calls + 1]])

(* An edit posts the whole article back, with the status a form may carry. *)
LoadUpdateFaulty(r, a, ss) ==
  Load(r, [Idle EXCEPT !.stage = "loaded", !.op = "update", !.id = a,
             !.read = article[a], !.want = ss,
             !.copy = [article[a] EXCEPT !.text = calls + 1, !.status = "published"]])

LoadUpdate(r, a, ss) ==
  Load(r, [Idle EXCEPT !.stage = "loaded", !.op = "update", !.id = a,
             !.read = article[a], !.want = ss,
             !.copy = [article[a] EXCEPT !.text = calls + 1]])

(* KBArticleRepo.Update: every column, and an INSERT if there is no row.  *)
Save(r) ==
  /\ req[r].stage = "loaded"
  /\ article' = [article EXCEPT ![req[r].id] = req[r].copy]
  /\ req' = [req EXCEPT ![r] =
       IF req[r].op = "approve" THEN Idle ELSE [req[r] EXCEPT !.stage = "saved"]]
  /\ UNCHANGED <<links, proposed, calls, lost>>

(* Links that are there are not looked up: nothing is ever unlinked.       *)
ReadLinksFaulty(r) ==
  /\ req[r].stage = "saved"
  /\ req' = [req EXCEPT ![r].stage = "linking", ![r].alone = TRUE, ![r].add = req[r].want]
  /\ UNCHANGED <<article, links, proposed, calls, lost>>

(* setServices: the links there are ...                                   *)
ReadLinks(r) ==
  /\ req[r].stage = "saved"
  /\ LET have == LinkedTo(req[r].id) IN
     req' = [req EXCEPT ![r].stage = "linking", ![r].alone = TRUE,
                        ![r].drop = have \ req[r].want, ![r].add = req[r].want \ have]
  /\ UNCHANGED <<article, links, proposed, calls, lost>>

(* ... those not wanted are deleted, then those missing inserted.         *)
UnlinkService(r) ==
  /\ req[r].stage = "linking"
  /\ \E s \in req[r].drop :
       WriteLinks(r, req[r].id, links \ {<<req[r].id, s>>}, [req[r] EXCEPT !.drop = @ \ {s}])
  /\ UNCHANGED <<article, proposed, calls, lost>>

LinkService(r) ==
  /\ req[r].stage = "linking" /\ req[r].drop = {}
  /\ \E s \in req[r].add :
       WriteLinks(r, req[r].id, links \union {<<req[r].id, s>>}, [req[r] EXCEPT !.add = @ \ {s}])
  /\ UNCHANGED <<article, proposed, calls, lost>>

Finish(r) ==
  /\ req[r].stage = "linking" /\ req[r].drop = {} /\ req[r].add = {}
  /\ req' = [req EXCEPT ![r] = Idle]
  /\ UNCHANGED <<article, links, proposed, calls, lost>>

(* Delete: the row; its links stay.                                       *)
Delete(a) ==
  /\ article[a].status # "absent"
  /\ article' = [article EXCEPT ![a] = NoRow]
  /\ UNCHANGED <<links, proposed, req, calls, lost>>

(* A statement fails, or the process dies: the rest is not done.          *)
Fail(r) ==
  /\ req[r].stage # "idle" /\ lost < MaxLosses
  /\ req' = [req EXCEPT ![r] = Idle]
  /\ lost' = lost + 1
  /\ UNCHANGED <<article, links, proposed, calls>>

Next ==
  \/ \E r \in Requests :
       \/ \E ss \in SUBSET Services : Cardinality(ss) <= 1 /\ CreateDraft(r, ss)
       \/ \E a \in Articles :
            LoadApprove(r, a) \/ \E ss \in SUBSET Services : LoadUpdate(r, a, ss)
       \/ Save(r) \/ ReadLinks(r) \/ UnlinkService(r) \/ LinkService(r) \/ Finish(r)
       \/ Fail(r)
  \/ \E a \in Articles : Delete(a)

Spec == Init /\ [][Next]_vars

-----------------------------------------------------------------------------
(* Every variable keeps its type; a row is absent, a draft or published.   *)
TypeOK ==
  /\ article \in [Articles -> Row]
  /\ links \subseteq Articles \X Services
  /\ proposed \in 0 .. MaxArticles
  /\ req \in [Requests -> Request]
  /\ calls \in 0 .. MaxCalls
  /\ lost \in 0 .. MaxLosses

CanView(agent, row) == row.status = "published" \/ agent

(* What a customer can see has been approved by somebody, and an approved  *)
(* article carries its approval for as long as it exists (kb.go:245-249),  *)
(* however edits, approvals and deletions overlap.                         *)
CustomersSeeApproved ==
  \A a \in Articles : article[a].status # "absent" =>
    (CanView(FALSE, article[a]) <=> article[a].approval # 0)

(* Saving a copy of a row that has changed since it was read.             *)
StaleSave(r, a) == Save(r) /\ req[r].id = a /\ article[a] # req[r].read

InOrder(a) ==
  LET old == article[a]
      new == article'[a] IN
  \/ a > proposed /\ new = Draft
  \/ old.status = "draft" /\ new.status = "published" /\ new.text = old.text
  \/ old.status # "absent" /\ new = [old EXCEPT !.text = new.text]
  \/ new = NoRow

(* A row comes as an unapproved draft under a new id, is published once,   *)
(* by an approval that leaves its text alone, keeps status and approval    *)
(* under edits, and never returns once deleted (kb.go:179-192, :225-243,   *)
(* repo/kb.go:15): whatever else happens to one is a stale save.           *)
RowMoves ==
  [][\A a \in Articles : article'[a] # article[a] =>
       InOrder(a) \/ \E r \in Requests : StaleSave(r, a)]_vars

(* An edit that completes leaves the article linked to exactly the         *)
(* services of its form (kb_handlers.go:104-106), unless another request   *)
(* wrote its links meanwhile.                                              *)
LinksAsSubmitted ==
  [][\A r \in Requests :
       Finish(r) /\ req[r].op = "update" /\ req[r].alone =>
         LinkedTo(req[r].id) = req[r].want]_vars
=============================================================================
