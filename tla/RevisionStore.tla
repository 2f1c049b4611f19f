---------------------------- MODULE RevisionStore ----------------------------
(***************************************************************************)
(* The configuration history kept in SQLite by internal/store: the table   *)
(* `revisions` and the single row of `app_state` that points at the active *)
(* and at the draft revision.  The pool has one connection, so a           *)
(* transaction, or a statement outside one, is one atomic step.  A step    *)
(* that errors rolls back and changes nothing; the two operations that     *)
(* read the active revision back after they have committed can also fail   *)
(* with their change in place, which the callers model.                    *)
(*                                                                         *)
(* A bundle is abstracted to what SameInput and ResolvedLocalRulesCurrent  *)
(* tell apart: `input` stands for its config and rules, `current` says     *)
(* that its resolved rules contain every local rule of that input.         *)
(***************************************************************************)
EXTENDS Naturals, FiniteSets

CONSTANT
    Inputs              \* what an administrator can ask for (config and rules)

VARIABLES
    rows,               \* revisions: id -> [status, input, current]
    activeId,           \* app_state.active_revision_id
    draftId,            \* app_state.draft_revision_id
    nextId              \* sqlite_sequence of the AUTOINCREMENT key

storeVars == <<rows, activeId, draftId, nextId>>

Ids == Nat \ {0}

Statuses == {"draft", "active", "superseded", "failed"}

Row == [status : Statuses, input : Inputs, current : BOOLEAN]

(* The types of the columns, with the foreign keys of app_state.           *)
StoreTypeOK ==
    /\ DOMAIN rows \subseteq Ids /\ rows \in [DOMAIN rows -> Row]
    /\ activeId \in DOMAIN rows /\ draftId \in DOMAIN rows
    /\ nextId \in Ids

(* A database some `5gws install` has initialised: one revision, active,   *)
(* and both pointers on it.  Its resolved rules may be those of an older   *)
(* release that no longer match the local rules.                           *)
StoreInit ==
    /\ \E b \in Inputs, c \in BOOLEAN :
          rows = [r \in {1} |-> [status |-> "active", input |-> b, current |-> c]]
    /\ activeId = 1
    /\ draftId = 1
    /\ nextId = 2

(* Mutant: a new draft takes the place of the one before.                  *)
StoreSaveDraftReplacing(b, c) ==
    /\ rows' = [r \in (DOMAIN rows \ ({draftId} \ {activeId})) \cup {nextId} |->
                  IF r = nextId
                  THEN [status |-> "draft", input |-> b, current |-> c]
                  ELSE rows[r]]
    /\ draftId' = nextId
    /\ nextId' = nextId + 1
    /\ UNCHANGED activeId

(* insertRevision with status 'draft', then the draft pointer.             *)
StoreSaveDraft(b, c) ==
    /\ rows' = [r \in DOMAIN rows \cup {nextId} |->
                  IF r = nextId
                  THEN [status |-> "draft", input |-> b, current |-> c]
                  ELSE rows[r]]
    /\ draftId' = nextId
    /\ nextId' = nextId + 1
    /\ UNCHANGED activeId

(* Mutant: the statement that supersedes the other active rows is missing. *)
ActivatedStatusOnly(id, r) == IF r = id THEN "active" ELSE rows[r].status

(* The status of every row after Activate(id).                             *)
ActivatedStatus(id, r) ==
    IF r = id THEN "active"
    ELSE IF rows[r].status = "active" THEN "superseded" ELSE rows[r].status

(* The transaction of Activate: it rolls back when the row is gone.        *)
StoreActivate(id) ==
    /\ id \in DOMAIN rows
    /\ rows' = [r \in DOMAIN rows |->
                  [rows[r] EXCEPT !.status = ActivatedStatus(id, r)]]
    /\ activeId' = id
    /\ draftId' = id
    /\ UNCHANGED nextId

StoreResetDraftToActive ==
    /\ draftId' = activeId
    /\ UNCHANGED <<rows, activeId, nextId>>

(* Deletes every revision neither pointer refers to.                       *)
StorePruneRevisions ==
    /\ rows' = [r \in DOMAIN rows \cap {activeId, draftId} |-> rows[r]]
    /\ UNCHANGED <<activeId, draftId, nextId>>

StoreFail(id) ==
    /\ rows' = [r \in DOMAIN rows |->
                  IF r = id THEN [rows[r] EXCEPT !.status = "failed"] ELSE rows[r]]
    /\ UNCHANGED <<activeId, draftId, nextId>>

(* Bundle.SameInput against a stored revision.                             *)
SameInput(id, b) == rows[id].input = b

=============================================================================
