----------------------------- MODULE PanelProofs -----------------------------
(***************************************************************************)
(* The summary panel for any fields, any number of requests and any        *)
(* pattern of failures.                                                    *)
(*                                                                         *)
(* What is inserted was merged earlier, so each invariant of the stored    *)
(* snapshots needs its counterpart for the snapshots requests still hold.  *)
(***************************************************************************)
EXTENDS SummaryPanel, TLAPS

Merged(r) == req[r].stage = "merged"

IInv ==
  /\ TypeOK
  /\ LocksMarkCorrections
  /\ \A r \in Requests : Merged(r) => Honest(req[r].out)

LEMMA EmptyOK == Empty \in Snapshot /\ Honest(Empty) /\ Idle \in Request
  BY DEF Empty, Snapshot, Honest, Absent, Text, Authors, Idle, Request, Stages, Ops

LEMMA ReplyOK ==
  ASSUME NEW n \in Nat, NEW reply \in Replies(n)
  PROVE  /\ reply \in [Fields -> Text]
         /\ \A f \in Fields : reply[f].by # "human"
  BY DEF Replies, Text, Authors, Absent

(* The panel is a snapshot of the table, or the empty one.                *)
LEMMA PanelOK ==
  ASSUME IInv
  PROVE  Panel \in Snapshot /\ Honest(Panel)
<1>1. CASE snapshots = <<>>
  BY <1>1, EmptyOK DEF Panel
<1>2. CASE snapshots # <<>>
  <2>1. snapshots \in Seq(Snapshot)
    BY DEF IInv, TypeOK
  <2>2. Len(snapshots) \in 1 .. Len(snapshots) /\ snapshots[Len(snapshots)] \in Snapshot
    BY <1>2, <2>1
  <2>3. Panel = snapshots[Len(snapshots)]
    BY <1>2 DEF Panel
  <2>4. QED
    BY <2>2, <2>3 DEF IInv, LocksMarkCorrections
<1>3. QED
  BY <1>1, <1>2

(* Every merge of an honest snapshot with a reply is honest.              *)
LEMMA MergeOK ==
  ASSUME NEW q \in Request, NEW base \in Snapshot, Honest(base),
         NEW reply \in Replies(q.from)
  PROVE  Merge(q, base, reply) \in Snapshot /\ Honest(Merge(q, base, reply))
<1> DEFINE m == Merge(q, base, reply)
<1>1. /\ reply \in [Fields -> Text]
      /\ \A f \in Fields : reply[f].by # "human"
      /\ q.from \in Nat /\ q.fields \subseteq Fields
  BY ReplyOK DEF Request
<1>2. CASE q.op = "regenerate"
  <2>1. m = MergeAll(base, reply, q.from)
    BY <1>2 DEF Merge
  <2>2. QED
    BY <1>1, <2>1 DEF MergeAll, Snapshot, Honest
<1>3. CASE q.op = "unlock"
  <2>1. m = MergeUnlocked(base, reply, q.fields)
    BY <1>3 DEF Merge
  <2>2. QED
    BY <1>1, <2>1 DEF MergeUnlocked, Snapshot, Honest
<1>4. CASE q.op = "edit"
  <2>1. m = MergeEdit(base, q.fields, q.from)
    BY <1>4 DEF Merge
  <2>2. [by |-> "human", from |-> q.from] \in Text
    BY <1>1 DEF Text, Authors
  <2>3. QED
    BY <1>1, <2>1, <2>2 DEF MergeEdit, Snapshot, Honest
<1>5. QED
  BY <1>2, <1>3, <1>4 DEF Request, Ops

-----------------------------------------------------------------------------
LEMMA InitIInv == Init => IInv
  BY PanelAssumption, EmptyOK
  DEF Init, IInv, TypeOK, LocksMarkCorrections, Merged, Idle

(* A step that stores nothing, and leaves no request with a new merge.    *)
LEMMA QuietIInv ==
  ASSUME IInv, TypeOK', snapshots' = snapshots,
         \A r \in Requests : Merged(r)' => req'[r] = req[r]
  PROVE  IInv'
  BY DEF IInv, LocksMarkCorrections, Merged

LEMMA StartIInv ==
  ASSUME IInv, NEW r \in Requests, NEW op \in Ops, NEW fs \in SUBSET Fields,
         NEW stage \in Stages \ {"merged"}, Start(r, op, fs, stage),
         notes' \in 0 .. MaxNotes, UNCHANGED <<snapshots, lost>>
  PROVE  IInv'
<1> DEFINE q == [stage |-> stage, op |-> op, fields |-> fs, from |-> calls + 1,
                  blind |-> FALSE, out |-> Empty]
<1>1. calls' = calls + 1 /\ calls + 1 \in 0 .. MaxCalls /\ req' = [req EXCEPT ![r] = q]
  BY PanelAssumption DEF Start, IInv, TypeOK
<1>2. q \in Request /\ q.stage = stage
  <2>1. calls + 1 \in Nat
    BY <1>1
  <2>2. QED
    BY <2>1, EmptyOK DEF Request
<1>3. TypeOK'
  BY <1>1, <1>2 DEF IInv, TypeOK
<1>4. \A s \in Requests : Merged(s)' => req'[s] = req[s]
  BY <1>1, <1>2 DEF IInv, TypeOK, Merged
<1>5. QED
  BY <1>3, <1>4, QuietIInv

LEMMA AskIInv ==
  ASSUME IInv, NEW r \in Requests, Ask(r)
  PROVE  IInv'
<1> DEFINE q == [req[r] EXCEPT !.stage = "asked", !.from = notes]
<1>1. TypeOK'
  <2>1. req[r] \in Request /\ notes \in Nat
    BY DEF IInv, TypeOK
  <2>2. q \in Request
    BY <2>1 DEF Request, Stages
  <2>3. req' = [req EXCEPT ![r] = q]
    BY DEF Ask
  <2>4. QED
    BY <2>2, <2>3 DEF Ask, IInv, TypeOK
<1>2. \A s \in Requests : Merged(s)' => req'[s] = req[s]
  BY DEF Ask, IInv, TypeOK, Merged, Request
<1>3. QED
  BY <1>1, <1>2, QuietIInv DEF Ask

LEMMA MergeIInv ==
  ASSUME IInv, NEW r \in Requests, NEW base \in {Panel, Empty}, NEW b \in BOOLEAN,
         NEW reply \in Replies(req[r].from),
         req' = [req EXCEPT ![r].stage = "merged", ![r].blind = b,
                            ![r].out = Merge(req[r], base, reply)],
         lost' \in 0 .. MaxLosses, UNCHANGED <<notes, snapshots, calls>>
  PROVE  IInv'
<1>1. base \in Snapshot /\ Honest(base) /\ req[r] \in Request
  BY PanelOK, EmptyOK DEF IInv, TypeOK
<1>2. Merge(req[r], base, reply) \in Snapshot /\ Honest(Merge(req[r], base, reply))
  BY <1>1, MergeOK
<1>3. req' \in [Requests -> Request] /\ req'[r].out = Merge(req[r], base, reply)
  BY <1>2 DEF IInv, TypeOK, Request, Stages
<1>4. \A s \in Requests \ {r} : req'[s] = req[s]
  BY DEF IInv, TypeOK
<1>5. QED
  BY <1>2, <1>3, <1>4 DEF IInv, TypeOK, LocksMarkCorrections, Merged

LEMMA ReadIInv ==
  ASSUME IInv, NEW r \in Requests, ReadLatest(r) \/ ReadLatestError(r)
  PROVE  IInv'
<1>1. req[r].blind \in BOOLEAN
  BY DEF IInv, TypeOK, Request
<1>2. CASE ReadLatest(r)
  <2>1. PICK reply \in Replies(req[r].from) :
          req' = [req EXCEPT ![r].stage = "merged", ![r].out = Merge(req[r], Panel, reply)]
    BY <1>2 DEF ReadLatest
  <2>2. req' = [req EXCEPT ![r].stage = "merged", ![r].blind = req[r].blind,
                           ![r].out = Merge(req[r], Panel, reply)]
    BY <2>1 DEF IInv, TypeOK, Request
  <2>3. QED
    BY <1>1, <1>2, <2>2, MergeIInv DEF ReadLatest, IInv, TypeOK
<1>3. CASE ReadLatestError(r)
  <2>1. PICK reply \in Replies(req[r].from) :
          req' = [req EXCEPT ![r].stage = "merged", ![r].blind = TRUE,
                             ![r].out = Merge(req[r], Empty, reply)]
    BY <1>3 DEF ReadLatestError
  <2>2. lost' \in 0 .. MaxLosses
    <3>1. lost < MaxLosses /\ lost' = lost + 1
      BY <1>3 DEF ReadLatestError
    <3>2. QED
      BY <3>1, PanelAssumption DEF IInv, TypeOK
  <2>3. QED
    BY <1>3, <2>1, <2>2, MergeIInv DEF ReadLatestError
<1>4. QED
  BY <1>2, <1>3

LEMMA PersistIInv ==
  ASSUME IInv, NEW r \in Requests, Persist(r)
  PROVE  IInv'
<1>1. req[r].out \in Snapshot /\ Honest(req[r].out)
  BY DEF Persist, IInv, TypeOK, Request, Merged
<1>2. snapshots \in Seq(Snapshot) /\ snapshots' = Append(snapshots, req[r].out)
  BY DEF Persist, IInv, TypeOK
<1>3. LocksMarkCorrections'
  <2>1. SUFFICES ASSUME NEW i \in 1 .. Len(snapshots') PROVE Honest(snapshots'[i])
    BY DEF LocksMarkCorrections, Honest
  <2>2. CASE i \in 1 .. Len(snapshots)
    <3>1. snapshots'[i] = snapshots[i]
      BY <1>2, <2>2
    <3>2. QED
      BY <2>2, <3>1 DEF IInv, LocksMarkCorrections
  <2>3. CASE i = Len(snapshots) + 1
    <3>1. snapshots'[i] = req[r].out
      BY <1>2, <2>3
    <3>2. QED
      BY <1>1, <3>1
  <2>4. QED
    BY <1>2, <2>2, <2>3
<1>4. req' = [req EXCEPT ![r] = Idle] /\ req' \in [Requests -> Request]
  BY EmptyOK DEF Persist, IInv, TypeOK
<1>5. \A s \in Requests : Merged(s)' => req'[s] = req[s]
  BY <1>4 DEF Merged, IInv, TypeOK, Idle
<1>6. TypeOK'
  BY <1>1, <1>2, <1>4 DEF Persist, IInv, TypeOK
<1>7. QED
  BY <1>3, <1>5, <1>6 DEF IInv, Merged

LEMMA DropIInv ==
  ASSUME IInv, (\E r \in Requests : Fail(r)) \/ Crash
  PROVE  IInv'
<1>1. \A s \in Requests : req'[s] \in {req[s], Idle}
  BY DEF Fail, Crash, IInv, TypeOK
<1>2. req' \in [Requests -> Request]
  BY EmptyOK DEF Fail, Crash, IInv, TypeOK
<1>3. lost' \in 0 .. MaxLosses /\ UNCHANGED <<notes, snapshots, calls>>
  BY PanelAssumption DEF Fail, Crash, IInv, TypeOK
<1>4. QED
  BY <1>1, <1>2, <1>3, QuietIInv DEF IInv, TypeOK, Merged, Idle

LEMMA NextIInv == IInv /\ [Next]_vars => IInv'
<1> SUFFICES ASSUME IInv, [Next]_vars PROVE IInv'
  OBVIOUS
<1>1. ASSUME NEW r \in Requests, AddNote(r) PROVE IInv'
  <2>1. notes' \in 0 .. MaxNotes
    BY <1>1, PanelAssumption DEF AddNote, IInv, TypeOK
  <2>2. QED
    BY <1>1, <2>1, StartIInv DEF AddNote, Ops, Stages
<1>2. ASSUME NEW r \in Requests, Regenerate(r) PROVE IInv'
  BY <1>2, StartIInv DEF Regenerate, Ops, Stages, IInv, TypeOK
<1>3. ASSUME NEW r \in Requests, NEW f \in Fields, RegenerateField(r, f) \/ EditField(r, f)
      PROVE  IInv'
  BY <1>3, StartIInv DEF RegenerateField, EditField, Ops, Stages, IInv, TypeOK
<1>4. CASE UNCHANGED vars
  BY <1>4, QuietIInv DEF vars, IInv, TypeOK
<1>5. QED
  BY <1>1, <1>2, <1>3, <1>4, AskIInv, ReadIInv, PersistIInv, DropIInv DEF Next, Proceed

THEOREM PanelConsistent == Spec => []IInv
<1>1. Init => IInv
  BY InitIInv
<1>2. IInv /\ [Next]_vars => IInv'
  BY NextIInv
<1>3. QED
  BY <1>1, <1>2, PTL DEF Spec

THEOREM PanelTypeCorrect == Spec => []TypeOK
<1>1. IInv => TypeOK
  BY DEF IInv
<1>2. QED
  BY <1>1, PanelConsistent, PTL

(* The set of locked fields of every stored snapshot is exactly the set of *)
(* fields that hold a correction, under every overlap and failure.         *)
THEOREM LocksAreCorrections == Spec => []LocksMarkCorrections
<1>1. IInv => LocksMarkCorrections
  BY DEF IInv
<1>2. QED
  BY <1>1, PanelConsistent, PTL

-----------------------------------------------------------------------------
(* With one window at a time, what a request holds still differs from the  *)
(* panel only where it was asked to.                                       *)
Fits(q) ==
  ~q.blind => \A f \in Fields :
    \/ Asked(q, f)
    \/ /\ q.out.fields[f] = Panel.fields[f]
       /\ f \in q.out.locked <=> f \in Panel.locked

WInv ==
  /\ IInv
  /\ \A r, s \in Requests : Merged(r) /\ Merged(s) => r = s
  /\ \A r \in Requests : Merged(r) => Fits(req[r])

LEMMA MergeFits ==
  ASSUME NEW q \in Request, NEW reply \in Replies(q.from),
         NEW m, m.op = q.op, m.fields = q.fields, m.out = Merge(q, Panel, reply)
  PROVE  Fits(m)
<1> SUFFICES ASSUME NEW f \in Fields, ~Asked(m, f)
             PROVE  /\ m.out.fields[f] = Panel.fields[f]
                    /\ f \in m.out.locked <=> f \in Panel.locked
  BY DEF Fits
<1>1. CASE q.op = "regenerate"
  <2>1. m.out = MergeAll(Panel, reply, q.from)
    BY <1>1 DEF Merge
  <2>2. f \in Panel.locked
    BY <1>1 DEF Asked
  <2>3. QED
    BY <2>1, <2>2 DEF MergeAll
<1>2. CASE q.op = "unlock"
  <2>1. m.out = MergeUnlocked(Panel, reply, q.fields)
    BY <1>2 DEF Merge
  <2>2. f \notin q.fields
    BY <1>2 DEF Asked
  <2>3. QED
    BY <2>1, <2>2 DEF MergeUnlocked
<1>3. CASE q.op = "edit"
  <2>1. m.out = MergeEdit(Panel, q.fields, q.from)
    BY <1>3 DEF Merge
  <2>2. f \notin q.fields
    BY <1>3 DEF Asked
  <2>3. QED
    BY <2>1, <2>2 DEF MergeEdit
<1>4. QED
  BY <1>1, <1>2, <1>3 DEF Request, Ops

(* A step that stores nothing, and leaves no request with a new merge.    *)
LEMMA QuietWInv ==
  ASSUME WInv, IInv', snapshots' = snapshots,
         \A r \in Requests : Merged(r)' => req'[r] = req[r]
  PROVE  WInv'
<1>1. Panel' = Panel
  BY DEF Panel
<1>2. ASSUME NEW r \in Requests, Merged(r)' PROVE Fits(req[r])' /\ Merged(r)
  BY <1>1, <1>2 DEF WInv, Merged, Fits, Asked
<1>3. QED
  BY <1>2 DEF WInv

LEMMA ReadWInv ==
  ASSUME Overlap = FALSE, WInv, IInv', NEW r \in Requests,
         ReadLatest(r) \/ ReadLatestError(r)
  PROVE  WInv'
<1>1. Panel' = Panel
  BY DEF ReadLatest, ReadLatestError, Panel
<1>2. \A s \in Requests \ {r} : ~Merged(s) /\ req'[s] = req[s]
  BY DEF ReadLatest, ReadLatestError, WindowFree, Merged, WInv, IInv, TypeOK
<1>3. req[r] \in Request /\ req'[r] \in Request /\ Panel \in Snapshot
  BY PanelOK DEF WInv, IInv, TypeOK
<1>4. Fits(req'[r])
  <2>1. CASE ReadLatest(r)
    <3>1. PICK reply \in Replies(req[r].from) :
            req' = [req EXCEPT ![r].stage = "merged", ![r].out = Merge(req[r], Panel, reply)]
      BY <2>1 DEF ReadLatest
    <3>2. /\ req'[r].op = req[r].op /\ req'[r].fields = req[r].fields
          /\ req'[r].out = Merge(req[r], Panel, reply)
      BY <1>3, <3>1 DEF Request, WInv, IInv, TypeOK
    <3>3. QED
      BY <1>3, <3>2, MergeFits
  <2>2. CASE ReadLatestError(r)
    <3>1. PICK reply \in Replies(req[r].from) :
            req' = [req EXCEPT ![r].stage = "merged", ![r].blind = TRUE,
                               ![r].out = Merge(req[r], Empty, reply)]
      BY <2>2 DEF ReadLatestError
    <3>2. req'[r].blind = TRUE
      BY <1>3, <3>1 DEF Request, WInv, IInv, TypeOK
    <3>3. QED
      BY <3>2 DEF Fits
  <2>3. QED
    BY <2>1, <2>2
<1>5. Fits(req[r])'
  BY <1>1, <1>4 DEF Fits, Asked
<1>6. QED
  BY <1>2, <1>5 DEF WInv, Merged

LEMMA PersistWInv ==
  ASSUME WInv, IInv', NEW r \in Requests, Persist(r)
  PROVE  WInv' /\ (~req[r].blind => \A f \in Fields : Asked(req[r], f) \/ Kept(f))
<1>1. Merged(r) /\ req' = [req EXCEPT ![r] = Idle] /\ req \in [Requests -> Request]
  BY DEF Persist, Merged, WInv, IInv, TypeOK
<1>2. \A s \in Requests : ~Merged(s)'
  BY <1>1 DEF WInv, Merged, Idle
<1>3. Panel' = req[r].out
  <2>1. snapshots \in Seq(Snapshot) /\ req[r].out \in Snapshot
    BY <1>1 DEF WInv, IInv, TypeOK, Request
  <2>2. snapshots' = Append(snapshots, req[r].out)
    BY DEF Persist
  <2>3. snapshots' # <<>> /\ snapshots'[Len(snapshots')] = req[r].out
    BY <2>1, <2>2
  <2>4. QED
    BY <2>3 DEF Panel
<1>4. Fits(req[r])
  BY <1>1 DEF WInv
<1>5. QED
  BY <1>2, <1>3, <1>4 DEF WInv, Fits, Kept

LEMMA NextWInv ==
  ASSUME Overlap = FALSE, WInv, [Next]_vars
  PROVE  WInv'
<1>1. IInv'
  BY NextIInv DEF WInv
<1>2. ASSUME NEW r \in Requests, NEW op, NEW fs, NEW stage \in Stages \ {"merged"},
             Start(r, op, fs, stage), snapshots' = snapshots
      PROVE  WInv'
  <2>1. \A s \in Requests : Merged(s)' => req'[s] = req[s]
    BY <1>2 DEF Start, Merged, WInv, IInv, TypeOK
  <2>2. QED
    BY <1>1, <1>2, <2>1, QuietWInv
<1>3. ASSUME NEW r \in Requests,
             AddNote(r) \/ Regenerate(r)
               \/ \E f \in Fields : RegenerateField(r, f) \/ EditField(r, f)
      PROVE  WInv'
  BY <1>2, <1>3 DEF AddNote, Regenerate, RegenerateField, EditField, Stages
<1>4. ASSUME NEW r \in Requests, Ask(r) PROVE WInv'
  <2>1. \A s \in Requests : Merged(s)' => req'[s] = req[s]
    BY <1>4 DEF Ask, Merged, WInv, IInv, TypeOK, Request
  <2>2. QED
    BY <1>1, <1>4, <2>1, QuietWInv DEF Ask
<1>5. ASSUME (\E r \in Requests : Fail(r)) \/ Crash PROVE WInv'
  <2>1. snapshots' = snapshots /\ \A s \in Requests : req'[s] \in {req[s], Idle}
    BY <1>5 DEF Fail, Crash, WInv, IInv, TypeOK
  <2>2. \A s \in Requests : Merged(s)' => req'[s] = req[s]
    BY <2>1 DEF Merged, Idle
  <2>3. QED
    BY <1>1, <2>1, <2>2, QuietWInv
<1>6. CASE UNCHANGED vars
  BY <1>1, <1>6, QuietWInv DEF vars
<1>7. QED
  BY <1>1, <1>3, <1>4, <1>5, <1>6, ReadWInv, PersistWInv DEF Next, Proceed

(* While no two requests are between the latest snapshot and the insert,   *)
(* an edit or a regenerated field leaves every other field as it was, and  *)
(* a regeneration every locked one, however slow the model is.             *)
THEOREM OthersKept ==
  ASSUME Overlap = FALSE
  PROVE  Spec => OnlyTheAskedChange
<1>1. Init => WInv
  <2>1. Init => \A r \in Requests : ~Merged(r)
    BY DEF Init, Merged, Idle
  <2>2. QED
    BY <2>1, InitIInv DEF WInv
<1>2. WInv /\ [Next]_vars => WInv'
  BY NextWInv
<1>3. WInv /\ WInv' =>
        [\A r \in Requests :
           Persist(r) /\ ~req[r].blind => \A f \in Fields : Asked(req[r], f) \/ Kept(f)]_vars
  BY PersistWInv DEF WInv
<1>4. QED
  BY <1>1, <1>2, <1>3, PTL DEF Spec, OnlyTheAskedChange
=============================================================================
