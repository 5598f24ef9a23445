--------------------------- MODULE KnowledgeProofs ---------------------------
(***************************************************************************)
(* The knowledge base for any number of articles, services and requests.   *)
(*                                                                         *)
(* A save writes a copy, so what must hold of the rows must hold of every  *)
(* copy that is about to be saved, and a copy must differ from the row it  *)
(* was made of as its operation allows.  The links are no part of the row: *)
(* an edit that is alone with them knows what they are at each write.      *)
(***************************************************************************)
EXTENDS KnowledgeBase, TLAPS

(* An article is published exactly when it carries an approval.           *)
Approved(row) ==
  row.status # "absent" => (row.status = "published" <=> row.approval # 0)

(* The copy a request is about to save.                                   *)
CopyOK(q) ==
  q.stage = "loaded" =>
    /\ q.id \in Articles /\ q.op \in {"approve", "update"}
    /\ Approved(q.copy)
    /\ q.op = "approve" =>
         /\ q.read.status = "draft" /\ q.copy.status = "published"
         /\ q.copy.text = q.read.text
    /\ q.op = "update" =>
         /\ q.read.status # "absent"
         /\ q.copy.status = q.read.status /\ q.copy.approval = q.read.approval

IInv ==
  /\ TypeOK
  /\ \A a \in Articles : Approved(article[a])
  /\ \A r \in Requests : CopyOK(req[r]) /\ (req[r].stage # "idle" => req[r].id \in Articles)

LEMMA RowsOK ==
  /\ NoRow \in Row /\ Draft \in Row /\ Approved(NoRow) /\ Approved(Draft)
  /\ Idle \in Request /\ CopyOK(Idle) /\ Idle.stage = "idle"
  BY KnowledgeAssumption
  DEF NoRow, Draft, Row, Statuses, Approved, Idle, Request, Stages, CopyOK

LEMMA InitIInv == Init => IInv
  BY KnowledgeAssumption, RowsOK DEF Init, IInv, TypeOK

(* What may be used of a request's record.                                *)
LEMMA RequestFacts ==
  ASSUME IInv, NEW r \in Requests
  PROVE  /\ req[r] \in Request /\ CopyOK(req[r])
         /\ req[r].copy \in Row /\ req[r].read \in Row
         /\ req[r].id \in 0 .. MaxArticles
         /\ req[r].stage # "idle" => req[r].id \in Articles
  BY DEF IInv, TypeOK, Request

(* Only request r moves, and what it becomes is a well-formed request.    *)
LEMMA OneRequest ==
  ASSUME IInv, NEW r \in Requests, NEW q \in Request,
         CopyOK(q), q.stage # "idle" => q.id \in Articles,
         req' = [req EXCEPT ![r] = q],
         \A a \in Articles : Approved(article'[a]),
         article' \in [Articles -> Row], links' \subseteq Articles \X Services,
         proposed' \in 0 .. MaxArticles, calls' \in 0 .. MaxCalls, lost' \in 0 .. MaxLosses
  PROVE  IInv'
<1>1. req' \in [Requests -> Request]
  BY DEF IInv, TypeOK
<1>2. ASSUME NEW s \in Requests
      PROVE  CopyOK(req'[s]) /\ (req'[s].stage # "idle" => req'[s].id \in Articles)
  BY DEF IInv, TypeOK
<1>3. TypeOK' /\ \A a \in Articles : Approved(article[a])'
  BY <1>1 DEF TypeOK, Approved
<1>4. \A s \in Requests : CopyOK(req[s])' /\ (req'[s].stage # "idle" => req'[s].id \in Articles)
  BY <1>2 DEF CopyOK, Approved, Articles
<1>5. QED
  BY <1>3, <1>4 DEF IInv, Articles

LEMMA CreateIInv ==
  ASSUME IInv, NEW r \in Requests, NEW ss \in SUBSET Services, CreateDraft(r, ss)
  PROVE  IInv'
<1> DEFINE a == proposed + 1
           q == [Idle EXCEPT !.stage = "linking", !.op = "propose",
                             !.id = a, !.want = ss, !.add = ss]
<1>1. a \in Articles /\ a \in 0 .. MaxArticles
  BY KnowledgeAssumption DEF CreateDraft, IInv, TypeOK, Articles
<1>2. q \in Request /\ CopyOK(q) /\ q.id = a
  BY <1>1, RowsOK DEF Request, CopyOK, Stages, Idle
<1>3. /\ article' = [article EXCEPT ![a] = Draft] /\ req' = [req EXCEPT ![r] = q]
      /\ proposed' = a /\ UNCHANGED <<links, calls, lost>>
  BY DEF CreateDraft
<1>4. article' \in [Articles -> Row] /\ \A b \in Articles : Approved(article'[b])
  BY <1>1, <1>3, RowsOK DEF IInv, TypeOK
<1>5. QED
  BY <1>1, <1>2, <1>3, <1>4, OneRequest DEF IInv, TypeOK

LEMMA LoadIInv ==
  ASSUME IInv, NEW r \in Requests, NEW q \in Request, CopyOK(q), q.id \in Articles,
         Load(r, q)
  PROVE  IInv'
<1>1. /\ calls' \in 0 .. MaxCalls /\ req' = [req EXCEPT ![r] = q]
      /\ UNCHANGED <<article, links, proposed, lost>>
  BY KnowledgeAssumption DEF Load, IInv, TypeOK
<1>2. QED
  BY <1>1, OneRequest DEF IInv, TypeOK

LEMMA LoadApproveIInv ==
  ASSUME IInv, NEW r \in Requests, NEW a \in Articles, LoadApprove(r, a)
  PROVE  IInv'
<1> DEFINE row == article[a]
           copy == [row EXCEPT !.status = "published", !.approval = calls + 1]
           q == [Idle EXCEPT !.stage = "loaded", !.op = "approve", !.id = a,
                             !.read = row, !.copy = copy]
<1>1. /\ row \in Row /\ row.status = "draft" /\ a \in 0 .. MaxArticles
      /\ calls \in Nat /\ calls + 1 \in 0 .. MaxCalls /\ Load(r, q)
  BY KnowledgeAssumption DEF LoadApprove, Load, IInv, TypeOK, Articles
<1>2. /\ copy \in Row /\ copy.status = "published" /\ copy.text = row.text
      /\ copy.approval = calls + 1
  BY <1>1 DEF Row, Statuses
<1>3. q \in Request
  BY <1>1, <1>2, RowsOK DEF Request, Stages
<1>4. CopyOK(q) /\ q.id = a
  <2>1. q.stage = "loaded" /\ q.op = "approve" /\ q.id = a /\ q.read = row /\ q.copy = copy
    BY DEF Idle
  <2>2. Approved(copy)
    BY <1>1, <1>2 DEF Approved
  <2> HIDE DEF q, copy, row
  <2>3. QED
    BY <1>1, <1>2, <2>1, <2>2 DEF CopyOK
<1>5. QED
  BY <1>1, <1>3, <1>4, LoadIInv

LEMMA LoadUpdateIInv ==
  ASSUME IInv, NEW r \in Requests, NEW a \in Articles, NEW ss \in SUBSET Services,
         LoadUpdate(r, a, ss)
  PROVE  IInv'
<1> DEFINE row == article[a]
           copy == [row EXCEPT !.text = calls + 1]
           q == [Idle EXCEPT !.stage = "loaded", !.op = "update", !.id = a,
                             !.read = row, !.want = ss, !.copy = copy]
<1>1. Load(r, q)
  BY DEF LoadUpdate
<1>2. q.id = a /\ q.stage = "loaded" /\ q.op = "update" /\ q.read = row /\ q.copy = copy
  BY DEF Idle
<1>3. /\ row \in Row /\ Approved(row) /\ row.status # "absent" /\ a \in 0 .. MaxArticles
      /\ calls + 1 \in 0 .. MaxCalls
  BY <1>1, <1>2, KnowledgeAssumption DEF Load, IInv, TypeOK, Articles
<1>4. copy \in Row /\ copy.status = row.status /\ copy.approval = row.approval
  BY <1>3 DEF Row
<1>5. q \in Request
  BY <1>3, <1>4, RowsOK DEF Request, Stages
<1>6. CopyOK(q)
  BY <1>2, <1>3, <1>4 DEF CopyOK, Approved
<1>7. QED
  BY <1>1, <1>2, <1>5, <1>6, LoadIInv

LEMMA SaveIInv ==
  ASSUME IInv, NEW r \in Requests, Save(r)
  PROVE  IInv'
<1> DEFINE q == IF req[r].op = "approve" THEN Idle ELSE [req[r] EXCEPT !.stage = "saved"]
<1>1. /\ req[r].id \in Articles /\ req[r].copy \in Row /\ Approved(req[r].copy)
  BY RequestFacts DEF Save, CopyOK
<1>2. q \in Request /\ CopyOK(q) /\ (q.stage # "idle" => q.id \in Articles)
  BY <1>1, RequestFacts, RowsOK DEF Request, Stages, CopyOK
<1>3. /\ article' = [article EXCEPT ![req[r].id] = req[r].copy]
      /\ req' = [req EXCEPT ![r] = q] /\ UNCHANGED <<links, proposed, calls, lost>>
  BY DEF Save
<1>4. article' \in [Articles -> Row] /\ \A b \in Articles : Approved(article'[b])
  BY <1>1, <1>3 DEF IInv, TypeOK
<1>5. QED
  BY <1>2, <1>3, <1>4, OneRequest DEF IInv, TypeOK

(* Links are written and nothing else about an article.                   *)
LEMMA LinkingIInv ==
  ASSUME IInv, NEW r \in Requests,
         ReadLinks(r) \/ UnlinkService(r) \/ LinkService(r) \/ Finish(r) \/ Fail(r)
  PROVE  IInv'
<1>1. CASE ReadLinks(r)
  <2> DEFINE have == LinkedTo(req[r].id)
             q == [req[r] EXCEPT !.stage = "linking", !.alone = TRUE,
                                 !.drop = have \ req[r].want, !.add = req[r].want \ have]
  <2>1. have \subseteq Services /\ req[r] \in Request
    BY RequestFacts DEF LinkedTo
  <2>2. q \in Request /\ q.stage = "linking" /\ q.id = req[r].id
    BY <2>1 DEF Request, Stages
  <2>3. req' = [req EXCEPT ![r] = q] /\ CopyOK(q) /\ q.id \in Articles
    BY <1>1, <2>2, RequestFacts DEF ReadLinks, CopyOK
  <2>4. QED
    BY <1>1, <2>2, <2>3, OneRequest DEF ReadLinks, IInv, TypeOK
<1>2. CASE UnlinkService(r) \/ LinkService(r)
  <2>1. PICK ls \in SUBSET (Articles \X Services), q \in Request :
          /\ WriteLinks(r, req[r].id, ls, q)
          /\ q.stage = "linking" /\ q.id = req[r].id
    <3>1. req[r] \in Request /\ req[r].stage = "linking" /\ req[r].id \in Articles
      BY <1>2, RequestFacts DEF UnlinkService, LinkService
    <3>2. CASE UnlinkService(r)
      <4>1. PICK s \in req[r].drop :
              WriteLinks(r, req[r].id, links \ {<<req[r].id, s>>},
                         [req[r] EXCEPT !.drop = @ \ {s}])
        BY <3>2 DEF UnlinkService
      <4> DEFINE q == [req[r] EXCEPT !.drop = @ \ {s}]
      <4>2. q \in Request /\ q.stage = "linking" /\ q.id = req[r].id
        BY <3>1 DEF Request
      <4>3. links \ {<<req[r].id, s>>} \in SUBSET (Articles \X Services)
        BY DEF IInv, TypeOK
      <4>4. QED
        BY <4>1, <4>2, <4>3
    <3>3. CASE LinkService(r)
      <4>1. PICK s \in req[r].add :
              WriteLinks(r, req[r].id, links \union {<<req[r].id, s>>},
                         [req[r] EXCEPT !.add = @ \ {s}])
        BY <3>3 DEF LinkService
      <4> DEFINE q == [req[r] EXCEPT !.add = @ \ {s}]
      <4>2. q \in Request /\ q.stage = "linking" /\ q.id = req[r].id
        BY <3>1 DEF Request
      <4>3. s \in Services
        BY <3>1 DEF Request
      <4>4. links \union {<<req[r].id, s>>} \in SUBSET (Articles \X Services)
        BY <3>1, <4>3 DEF IInv, TypeOK
      <4>5. QED
        BY <4>1, <4>2, <4>4
    <3>4. QED
      BY <1>2, <3>2, <3>3
  <2>2. ASSUME NEW s \in Requests
        PROVE  /\ req'[s] \in Request /\ CopyOK(req'[s])
               /\ req'[s].stage # "idle" => req'[s].id \in Articles
    <3>1. CASE s = r
      BY <1>2, <2>1, <3>1, RequestFacts
      DEF WriteLinks, UnlinkService, LinkService, CopyOK
    <3>2. CASE s # r
      <4> DEFINE e == [req[s] EXCEPT !.alone = @ /\ req[s].id # req[r].id]
      <4>1. req'[s] = e
        BY <2>1, <3>2 DEF WriteLinks
      <4>2. req[s] \in Request /\ (req[s].alone /\ req[s].id # req[r].id) \in BOOLEAN
        BY RequestFacts DEF Request
      <4>3. /\ e \in Request /\ e.stage = req[s].stage /\ e.id = req[s].id
            /\ e.op = req[s].op /\ e.read = req[s].read /\ e.copy = req[s].copy
        BY <4>2 DEF Request
      <4>4. QED
        BY <4>1, <4>3, RequestFacts DEF CopyOK
    <3>3. QED
      BY <3>1, <3>2
  <2>3. /\ links' \subseteq Articles \X Services
        /\ UNCHANGED <<article, proposed, calls, lost>>
    BY <1>2, <2>1 DEF WriteLinks, UnlinkService, LinkService
  <2>4. req' = [s \in Requests |-> req'[s]]
    BY <2>1 DEF WriteLinks
  <2>5. TypeOK'
    BY <2>2, <2>3, <2>4 DEF IInv, TypeOK
  <2>6. \A s \in Requests : CopyOK(req[s])' /\ (req'[s].stage # "idle" => req'[s].id \in Articles)
    BY <2>2 DEF CopyOK, Approved, Articles
  <2>7. QED
    BY <2>3, <2>5, <2>6 DEF IInv, Articles, Approved
<1>3. CASE Finish(r) \/ Fail(r)
  <2>1. lost' \in 0 .. MaxLosses
    <3>1. lost' = lost \/ (lost < MaxLosses /\ lost' = lost + 1)
      BY <1>3 DEF Finish, Fail
    <3>2. QED
      BY <3>1, KnowledgeAssumption DEF IInv, TypeOK
  <2>2. QED
    BY <1>3, <2>1, RowsOK, OneRequest DEF Finish, Fail, IInv, TypeOK
<1>4. QED
  BY <1>1, <1>2, <1>3

LEMMA DeleteIInv ==
  ASSUME IInv, (\E a \in Articles : Delete(a)) \/ UNCHANGED vars
  PROVE  IInv'
<1>1. /\ article' \in [Articles -> Row] /\ \A a \in Articles : Approved(article'[a])
      /\ UNCHANGED <<links, proposed, req, calls, lost>>
  BY RowsOK DEF Delete, vars, IInv, TypeOK
<1>2. QED
  BY <1>1 DEF IInv, TypeOK, CopyOK, Approved, Articles

LEMMA NextIInv == IInv /\ [Next]_vars => IInv'
  BY CreateIInv, LoadApproveIInv, LoadUpdateIInv, SaveIInv, LinkingIInv, DeleteIInv DEF Next

THEOREM KnowledgeConsistent == Spec => []IInv
<1>1. Init => IInv
  BY InitIInv
<1>2. IInv /\ [Next]_vars => IInv'
  BY NextIInv
<1>3. QED
  BY <1>1, <1>2, PTL DEF Spec

(* Whatever overlaps, a customer is shown an article only if somebody      *)
(* approved it.                                                            *)
THEOREM CustomersOnlySeeApproved == Spec => []CustomersSeeApproved
<1>1. IInv => CustomersSeeApproved
  BY DEF IInv, CustomersSeeApproved, CanView, Approved
<1>2. QED
  BY <1>1, KnowledgeConsistent, PTL

THEOREM KnowledgeTypeCorrect == Spec => []TypeOK
<1>1. IInv => TypeOK
  BY DEF IInv
<1>2. QED
  BY <1>1, KnowledgeConsistent, PTL

-----------------------------------------------------------------------------
(* RowMoves for one article.                                              *)
Move(a) == InOrder(a) \/ \E r \in Requests : StaleSave(r, a)

LEMMA SaveMoves ==
  ASSUME IInv, NEW r \in Requests, Save(r), NEW a \in Articles, article'[a] # article[a]
  PROVE  Move(a)
<1>1. /\ req[r].stage = "loaded" /\ req[r].id = a /\ article'[a] = req[r].copy
      /\ article[a] \in Row /\ req[r].copy \in Row
  BY RequestFacts DEF Save, IInv, TypeOK
<1>2. CASE article[a] # req[r].read
  BY <1>1, <1>2 DEF Move, StaleSave
<1>3. CASE article[a] = req[r].read
  <2>1. CopyOK(req[r])
    BY RequestFacts
  <2>2. CASE req[r].op = "approve"
    BY <1>1, <1>3, <2>1, <2>2 DEF CopyOK, Move, InOrder
  <2>3. CASE req[r].op = "update"
    <3>1. /\ article[a].status # "absent"
          /\ article'[a].status = article[a].status
          /\ article'[a].approval = article[a].approval
      BY <1>1, <1>3, <2>1, <2>3 DEF CopyOK
    <3>2. article'[a] = [article[a] EXCEPT !.text = article'[a].text]
      BY <1>1, <3>1 DEF Row
    <3>3. QED
      BY <3>1, <3>2 DEF Move, InOrder
  <2>4. QED
    BY <1>1, <2>1, <2>2, <2>3 DEF CopyOK
<1>4. QED
  BY <1>2, <1>3

LEMMA NextMoves ==
  ASSUME IInv, [Next]_vars, NEW a \in Articles, article'[a] # article[a]
  PROVE  Move(a)
<1>1. ASSUME NEW r \in Requests, NEW ss \in SUBSET Services, CreateDraft(r, ss)
      PROVE  Move(a)
  <2>1. a = proposed + 1 /\ article'[a] = Draft /\ proposed \in Nat
    BY <1>1 DEF CreateDraft, IInv, TypeOK
  <2>2. QED
    BY <2>1 DEF Move, InOrder
<1>2. ASSUME NEW b \in Articles, Delete(b) PROVE Move(a)
  BY <1>2 DEF Delete, Move, InOrder, IInv, TypeOK
<1>3. ASSUME NEW r \in Requests,
             \/ \E b \in Articles : LoadApprove(r, b)
             \/ \E b \in Articles, ss \in SUBSET Services : LoadUpdate(r, b, ss)
             \/ ReadLinks(r) \/ UnlinkService(r) \/ LinkService(r) \/ Finish(r) \/ Fail(r)
      PROVE  article' = article
  BY <1>3 DEF LoadApprove, LoadUpdate, Load, ReadLinks, UnlinkService, LinkService, Finish, Fail
<1>4. CASE UNCHANGED vars
  BY <1>4 DEF vars
<1>5. QED
  BY <1>1, <1>2, <1>3, <1>4, SaveMoves DEF Next

(* Only a stale save takes an article through anything but proposal,       *)
(* approval, edit and deletion.                                            *)
THEOREM ArticlesMoveInOrder == Spec => RowMoves
<1>1. IInv /\ [Next]_vars =>
        [\A a \in Articles : article'[a] # article[a] =>
           InOrder(a) \/ \E r \in Requests : StaleSave(r, a)]_vars
  BY NextMoves DEF Move
<1>2. QED
  BY <1>1, KnowledgeConsistent, PTL DEF Spec, RowMoves

-----------------------------------------------------------------------------
(* The links.  A request that is the only one to have written an article's  *)
(* links since it read them knows where they stand: those it wants and has  *)
(* not still to add, and those it has still to drop.                       *)
LinksOf(a, ls) == {s \in Services : <<a, s>> \in ls}
LinksOK(q, ls) ==
  q.stage = "linking" /\ q.op = "update" /\ q.alone =>
    /\ q.drop \intersect q.want = {} /\ q.add \subseteq q.want
    /\ LinksOf(q.id, ls) = (q.want \ q.add) \union q.drop

LInv == \A r \in Requests : LinksOK(req[r], links)

(* Links stay as they are, and one request moves.                         *)
LEMMA OneLinks ==
  ASSUME IInv, LInv, NEW r \in Requests, NEW q, LinksOK(q, links),
         req' = [req EXCEPT ![r] = q], links' = links
  PROVE  LInv'
<1>1. \A s \in Requests : LinksOK(req'[s], links')
  BY DEF LInv, IInv, TypeOK
<1>2. QED
  BY <1>1 DEF LInv

(* A link of article a is written: who was alone with it no longer is.    *)
LEMMA WriteLInv ==
  ASSUME IInv, LInv, NEW r \in Requests, NEW ls, NEW q, LinksOK(q, ls),
         WriteLinks(r, req[r].id, ls, q),
         \A a \in Articles : a # req[r].id => LinksOf(a, ls) = LinksOf(a, links),
         req[r].id \in Articles
  PROVE  LInv'
<1> DEFINE a == req[r].id
<1>1. links' = ls /\ req'[r] = q
  BY DEF WriteLinks
<1>2. ASSUME NEW s \in Requests, s # r PROVE LinksOK(req'[s], ls)
  <2> DEFINE p == req[s]
             e == [p EXCEPT !.alone = @ /\ p.id # a]
  <2>1. req'[s] = e
    BY <1>2 DEF WriteLinks
  <2>2. p \in Request /\ p.alone \in BOOLEAN
    BY RequestFacts DEF Request
  <2>3. /\ e.stage = p.stage /\ e.id = p.id /\ e.op = p.op /\ e.want = p.want
        /\ e.drop = p.drop /\ e.add = p.add /\ e.alone = (p.alone /\ p.id # a)
    BY <2>2 DEF Request
  <2>4. LinksOK(p, links)
    BY DEF LInv
  <2>5. p.stage = "linking" => p.id \in Articles
    BY RequestFacts
  <2> HIDE DEF e, p
  <2>6. LinksOK(e, ls)
    BY <2>3, <2>4, <2>5 DEF LinksOK
  <2>7. QED
    BY <2>1, <2>6
<1>3. \A s \in Requests : LinksOK(req'[s], ls)
  BY <1>1, <1>2
<1>4. QED
  BY <1>1, <1>3 DEF LInv

LEMMA UnlinkLInv ==
  ASSUME IInv, LInv, NEW r \in Requests, UnlinkService(r)
  PROVE  LInv'
<1>1. PICK s \in req[r].drop :
        WriteLinks(r, req[r].id, links \ {<<req[r].id, s>>}, [req[r] EXCEPT !.drop = @ \ {s}])
  BY DEF UnlinkService
<1> DEFINE p == req[r]
           q == [p EXCEPT !.drop = @ \ {s}]
           ls == links \ {<<p.id, s>>}
<1>2. p \in Request /\ p.stage = "linking" /\ p.id \in Articles /\ LinksOK(p, links)
  BY RequestFacts DEF UnlinkService, LInv
<1>3. /\ q.stage = p.stage /\ q.id = p.id /\ q.op = p.op /\ q.want = p.want
      /\ q.drop = p.drop \ {s} /\ q.add = p.add /\ q.alone = p.alone
  BY <1>2 DEF Request
<1>4. /\ LinksOf(p.id, ls) = LinksOf(p.id, links) \ {s}
      /\ \A a \in Articles : a # p.id => LinksOf(a, ls) = LinksOf(a, links)
  BY DEF LinksOf
<1>5. LinksOK(q, ls)
  BY <1>1, <1>2, <1>3, <1>4 DEF LinksOK
<1>6. QED
  BY <1>1, <1>2, <1>4, <1>5, WriteLInv

LEMMA LinkLInv ==
  ASSUME IInv, LInv, NEW r \in Requests, LinkService(r)
  PROVE  LInv'
<1>1. PICK s \in req[r].add :
        WriteLinks(r, req[r].id, links \union {<<req[r].id, s>>},
                   [req[r] EXCEPT !.add = @ \ {s}])
  BY DEF LinkService
<1> DEFINE p == req[r]
           q == [p EXCEPT !.add = @ \ {s}]
           ls == links \union {<<p.id, s>>}
<1>2. p \in Request /\ p.stage = "linking" /\ p.id \in Articles /\ LinksOK(p, links)
  BY RequestFacts DEF LinkService, LInv
<1>3. /\ q.stage = p.stage /\ q.id = p.id /\ q.op = p.op /\ q.want = p.want
      /\ q.drop = p.drop /\ q.add = p.add \ {s} /\ q.alone = p.alone
  BY <1>2 DEF Request
<1>4. s \in Services
  BY <1>1, <1>2 DEF Request
<1>5. /\ LinksOf(p.id, ls) = LinksOf(p.id, links) \union {s}
      /\ \A a \in Articles : a # p.id => LinksOf(a, ls) = LinksOf(a, links)
  BY <1>4 DEF LinksOf
<1>6. LinksOK(q, ls)
  BY <1>1, <1>2, <1>3, <1>5 DEF LinksOK
<1>7. QED
  BY <1>1, <1>2, <1>5, <1>6, WriteLInv

LEMMA ReadLInv ==
  ASSUME IInv, LInv, NEW r \in Requests, ReadLinks(r)
  PROVE  LInv'
<1> DEFINE p == req[r]
           have == LinkedTo(p.id)
           q == [p EXCEPT !.stage = "linking", !.alone = TRUE,
                          !.drop = have \ p.want, !.add = p.want \ have]
<1>1. p \in Request /\ req' = [req EXCEPT ![r] = q] /\ links' = links
  BY RequestFacts DEF ReadLinks
<1>2. /\ q.id = p.id /\ q.want = p.want
      /\ q.drop = have \ p.want /\ q.add = p.want \ have
  BY <1>1 DEF Request
<1>3. have = LinksOf(p.id, links)
  BY DEF LinkedTo, LinksOf
<1>4. LinksOK(q, links)
  BY <1>2, <1>3 DEF LinksOK
<1>5. QED
  BY <1>1, <1>4, OneLinks

LEMMA NextLInv == IInv /\ LInv /\ [Next]_vars => LInv'
<1> SUFFICES ASSUME IInv, LInv, [Next]_vars PROVE LInv'
  OBVIOUS
<1>1. ASSUME NEW r \in Requests, NEW ss \in SUBSET Services, CreateDraft(r, ss)
      PROVE  LInv'
  <2> DEFINE q == [Idle EXCEPT !.stage = "linking", !.op = "propose",
                               !.id = proposed + 1, !.want = ss, !.add = ss]
  <2>1. LinksOK(q, links)
    BY DEF LinksOK, Idle
  <2>2. QED
    BY <1>1, <2>1, OneLinks DEF CreateDraft
<1>2. ASSUME NEW r \in Requests, NEW q, Load(r, q), q.stage = "loaded"
      PROVE  LInv'
  BY <1>2, OneLinks DEF Load, LinksOK
<1>3. ASSUME NEW r \in Requests, NEW a \in Articles, LoadApprove(r, a)
      PROVE  LInv'
  BY <1>2, <1>3 DEF LoadApprove, Idle
<1>4. ASSUME NEW r \in Requests, NEW a \in Articles, NEW ss \in SUBSET Services,
             LoadUpdate(r, a, ss)
      PROVE  LInv'
  BY <1>2, <1>4 DEF LoadUpdate, Idle
<1>5. LinksOK(Idle, links)
  BY DEF LinksOK, Idle
<1>6. ASSUME NEW r \in Requests, Save(r) \/ Finish(r) \/ Fail(r)
      PROVE  LInv'
  <2>1. req' = [req EXCEPT ![r] = Idle] \/ req' = [req EXCEPT ![r] = [req[r] EXCEPT !.stage = "saved"]]
    BY <1>6 DEF Save, Finish, Fail
  <2>2. LinksOK([req[r] EXCEPT !.stage = "saved"], links)
    BY RequestFacts DEF LinksOK, Request
  <2>3. links' = links
    BY <1>6 DEF Save, Finish, Fail
  <2>4. QED
    BY <1>5, <2>1, <2>2, <2>3, OneLinks
<1>7. CASE (\E a \in Articles : Delete(a)) \/ UNCHANGED vars
  BY <1>7 DEF Delete, vars, LInv
<1>8. QED
  BY <1>1, <1>3, <1>4, <1>6, <1>7, UnlinkLInv, LinkLInv, ReadLInv DEF Next

(* An edit that was alone with an article's links leaves exactly those of   *)
(* its form, whatever else the requests around it do (kb.go, setServices). *)
THEOREM LinksAlwaysAsSubmitted == Spec => LinksAsSubmitted
<1>1. Init => LInv
  BY DEF Init, LInv, LinksOK, Idle
<1>2. IInv /\ LInv =>
        \A r \in Requests :
          Finish(r) /\ req[r].op = "update" /\ req[r].alone =>
            LinkedTo(req[r].id) = req[r].want
  BY DEF LInv, LinksOK, LinksOf, LinkedTo, Finish
<1>3. IInv /\ LInv /\ [Next]_vars =>
        [\A r \in Requests :
           Finish(r) /\ req[r].op = "update" /\ req[r].alone =>
             LinkedTo(req[r].id) = req[r].want]_vars
  BY <1>2
<1>4. QED
  BY <1>1, <1>3, NextLInv, KnowledgeConsistent, PTL DEF Spec, LinksAsSubmitted
=============================================================================
