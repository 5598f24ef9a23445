----------------------------- MODULE SummaryPanel -----------------------------
(***************************************************************************)
(* The AI ticket intelligence panel of one ticket                          *)
(* (internal/service/aisummary.go, internal/repo/ai_snapshot.go): an       *)
(* append-only sequence of snapshots of which the last is shown, written   *)
(* by background regenerations (one per note), by requests to regenerate   *)
(* the panel or one field, and by engineers who correct a field, which     *)
(* locks it.                                                               *)
(*                                                                         *)
(* A request is three statements with a slow call in between: it reads the *)
(* notes and asks the model, reads the latest snapshot once the reply is   *)
(* there, and inserts the merge of the two.                                *)
(***************************************************************************)
EXTENDS Naturals, Sequences

CONSTANTS
  Fields,     \* summaryFieldOrder
  Requests,   \* handlers and background goroutines at any one time
  MaxNotes,   \* bound on notes
  MaxCalls,   \* bound on requests, those of notes included
  MaxLosses,  \* bound on failed statements and replies, and crashes
  Overlap     \* may a request read the latest snapshot between another's
              \* reading and its insert?

ASSUME PanelAssumption ==
  /\ MaxNotes \in Nat /\ MaxCalls \in Nat /\ MaxLosses \in Nat
  /\ Overlap \in BOOLEAN

VARIABLES
  notes,      \* how many notes the ticket has
  snapshots,  \* ticket_ai_snapshots, by id
  req,        \* [Requests -> what it is doing]
  calls,      \* requests so far
  lost        \* failures so far

vars == <<notes, snapshots, req, calls, lost>>

(* A text is told by its author and by what it was written from: a model   *)
(* answer by the length of the history it read, a correction by its call.  *)
Authors == {"nobody", "model", "human"}
Text == [by : Authors, from : Nat]
Absent == [by |-> "nobody", from |-> 0]

Snapshot == [fields : [Fields -> Text], locked : SUBSET Fields, history : Nat]
Empty == [fields |-> [f \in Fields |-> Absent], locked |-> {}, history |-> 0]

(* AISnapshotRepo.Latest, an empty base when there is none.               *)
Panel == IF snapshots = <<>> THEN Empty ELSE snapshots[Len(snapshots)]

Ops    == {"regenerate", "edit", "unlock"}
Stages == {"idle", "started", "asked", "merged"}
Request == [stage : Stages, op : Ops, fields : SUBSET Fields, from : Nat,
            blind : BOOLEAN, out : Snapshot]
Idle == [stage |-> "idle", op |-> "regenerate", fields |-> {}, from |-> 0,
         blind |-> FALSE, out |-> Empty]

Init ==
  /\ notes = 0
  /\ snapshots = <<>>
  /\ req = [r \in Requests |-> Idle]
  /\ calls = 0
  /\ lost = 0

-----------------------------------------------------------------------------
Start(r, op, fs, stage) ==
  /\ req[r].stage = "idle" /\ calls < MaxCalls
  /\ calls' = calls + 1
  /\ req' = [req EXCEPT ![r] =
       [stage |-> stage, op |-> op, fields |-> fs, from |-> calls + 1,
        blind |-> FALSE, out |-> Empty]]

(* The goroutine is left out: only the manual button regenerates.          *)
AddNoteFaulty(r) ==
  /\ notes < MaxNotes
  /\ notes' = notes + 1
  /\ UNCHANGED <<snapshots, req, calls, lost>>

(* NoteService.Add: the note, then a goroutine that regenerates the panel. *)
AddNote(r) ==
  /\ notes < MaxNotes
  /\ notes' = notes + 1
  /\ Start(r, "regenerate", {}, "started")
  /\ UNCHANGED <<snapshots, lost>>

(* handleAISummaryRegenerate, handleAISummaryRegenerateField.             *)
Regenerate(r) ==
  /\ Start(r, "regenerate", {}, "started")
  /\ UNCHANGED <<notes, snapshots, lost>>

RegenerateField(r, f) ==
  /\ Start(r, "unlock", {f}, "started")
  /\ UNCHANGED <<notes, snapshots, lost>>

(* handleAISummaryEditField: no model is asked.                           *)
EditField(r, f) ==
  /\ Start(r, "edit", {f}, "asked")
  /\ UNCHANGED <<notes, snapshots, lost>>

(* TicketRepo.Get, NoteRepo.ListByTicket, and the prompt is sent.         *)
Ask(r) ==
  /\ req[r].stage = "started"
  /\ req' = [req EXCEPT ![r].stage = "asked", ![r].from = notes]
  /\ UNCHANGED <<notes, snapshots, calls, lost>>

(* The model's reply may lack any of the keys.                            *)
Replies(n) ==
  {[f \in Fields |-> IF f \in D THEN [by |-> "model", from |-> n] ELSE Absent] :
     D \in SUBSET Fields}

(* The lock is dropped with the merge: locked is not carried over.         *)
MergeAllFaulty(base, reply, n) ==
  [ fields  |-> [f \in Fields |->
                   IF f \in base.locked THEN base.fields[f] ELSE reply[f]],
    locked  |-> {},
    history |-> n ]

(* What each operation makes of the latest snapshot and the reply.  A      *)
(* locked key is always present in its base (LocksMarkCorrections).       *)
MergeAll(base, reply, n) ==
  [ fields  |-> [f \in Fields |->
                   IF f \in base.locked THEN base.fields[f] ELSE reply[f]],
    locked  |-> base.locked,
    history |-> n ]

(* The whole fresh panel is taken, not the one field.                      *)
MergeUnlockedFaulty(base, reply, fs) ==
  [ fields  |-> [f \in Fields |-> IF f \in base.locked \ fs THEN base.fields[f]
                                                           ELSE reply[f]],
    locked  |-> base.locked \ fs,
    history |-> 0 ]

MergeUnlocked(base, reply, fs) ==
  [ fields  |-> [f \in Fields |-> IF f \in fs THEN reply[f] ELSE base.fields[f]],
    locked  |-> base.locked \ fs,
    history |-> 0 ]

MergeEdit(base, fs, call) ==
  [ fields  |-> [f \in Fields |-> IF f \in fs THEN [by |-> "human", from |-> call]
                                             ELSE base.fields[f]],
    locked  |-> base.locked \union fs,
    history |-> 0 ]

Merge(q, base, reply) ==
  CASE q.op = "regenerate" -> MergeAll(base, reply, q.from)
    [] q.op = "unlock"     -> MergeUnlocked(base, reply, q.fields)
    [] q.op = "edit"       -> MergeEdit(base, q.fields, q.from)

WindowFree(r) == Overlap \/ \A s \in Requests \ {r} : req[s].stage # "merged"

(* The reply is parsed, and snapshots.Latest gives the base ...           *)
ReadLatest(r) ==
  /\ req[r].stage = "asked" /\ WindowFree(r)
  /\ \E reply \in Replies(req[r].from) :
       req' = [req EXCEPT ![r].stage = "merged",
                          ![r].out = Merge(req[r], Panel, reply)]
  /\ UNCHANGED <<notes, snapshots, calls, lost>>

(* ... or fails, which is taken for a panel that was never generated.     *)
ReadLatestError(r) ==
  /\ req[r].stage = "asked" /\ WindowFree(r) /\ lost < MaxLosses
  /\ \E reply \in Replies(req[r].from) :
       req' = [req EXCEPT ![r].stage = "merged", ![r].blind = TRUE,
                          ![r].out = Merge(req[r], Empty, reply)]
  /\ lost' = lost + 1
  /\ UNCHANGED <<notes, snapshots, calls>>

(* persist: the new snapshot becomes the panel.                           *)
Persist(r) ==
  /\ req[r].stage = "merged"
  /\ snapshots' = Append(snapshots, req[r].out)
  /\ req' = [req EXCEPT ![r] = Idle]
  /\ UNCHANGED <<notes, calls, lost>>

(* The model, its JSON or a statement fails: nothing is written.          *)
Fail(r) ==
  /\ req[r].stage # "idle" /\ lost < MaxLosses
  /\ req' = [req EXCEPT ![r] = Idle]
  /\ lost' = lost + 1
  /\ UNCHANGED <<notes, snapshots, calls>>

(* The process dies; a regeneration is no job that would survive it.      *)
Crash ==
  /\ lost < MaxLosses
  /\ \E r \in Requests : req[r].stage # "idle"
  /\ req' = [r \in Requests |-> Idle]
  /\ lost' = lost + 1
  /\ UNCHANGED <<notes, snapshots, calls>>

Proceed(r) == Ask(r) \/ ReadLatest(r) \/ Persist(r)

Next ==
  \/ \E r \in Requests :
       \/ AddNote(r) \/ Regenerate(r)
       \/ \E f \in Fields : RegenerateField(r, f) \/ EditField(r, f)
       \/ Proceed(r)
       \/ ReadLatestError(r) \/ Fail(r)
  \/ Crash

Spec == Init /\ [][Next]_vars

FairSpec == Spec /\ \A r \in Requests : WF_vars(Proceed(r))

-----------------------------------------------------------------------------
(* Every variable keeps its type; only fields of the panel are locked.     *)
TypeOK ==
  /\ notes \in 0 .. MaxNotes
  /\ snapshots \in Seq(Snapshot)
  /\ req \in [Requests -> Request]
  /\ calls \in 0 .. MaxCalls
  /\ lost \in 0 .. MaxLosses

(* A field is locked exactly when its text is a human's, in every snapshot *)
(* ever stored: edited_fields tells corrections from model output          *)
(* (models.go:313-314), whatever overlaps or fails.                        *)
Honest(s) == \A f \in Fields : f \in s.locked <=> s.fields[f].by = "human"

LocksMarkCorrections ==
  \A i \in 1 .. Len(snapshots) : Honest(snapshots[i])

(* An insert changes no other fields than it was asked to: an edit or a    *)
(* regenerated field that field, a regeneration no locked one, unless its  *)
(* read of the latest snapshot failed.  Model calls overlap; the windows   *)
(* between reading the latest snapshot and inserting do not                *)
(* (aisummary.go:92-105, :115-123, :145-152).                              *)
Asked(q, f) ==
  IF q.op = "regenerate" THEN f \notin Panel.locked ELSE f \in q.fields

Kept(f) ==
  /\ Panel'.fields[f] = Panel.fields[f]
  /\ f \in Panel'.locked <=> f \in Panel.locked

OnlyTheAskedChange ==
  [][\A r \in Requests :
       Persist(r) /\ ~req[r].blind => \A f \in Fields : Asked(req[r], f) \/ Kept(f)]_vars

(* Every new note regenerates the panel from the full history              *)
(* (note.go:51-56): in the end a snapshot has read the note and all before *)
(* it, unless something failed.                                            *)
EveryNoteSummarised ==
  \A n \in 1 .. MaxNotes :
    notes >= n ~> \/ \E i \in 1 .. Len(snapshots) : snapshots[i].history >= n
                  \/ lost > 0

(* The doc's word (aisummary.go:74-77, DESIGN/08 section 8.9): a            *)
(* regeneration preserves locked fields, however requests overlap.         *)
RegenerationKeepsLocked ==
  [][\A r \in Requests :
       Persist(r) /\ req[r].op = "regenerate" /\ ~req[r].blind =>
         \A f \in Panel.locked : Kept(f)]_vars
=============================================================================
