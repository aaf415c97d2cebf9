---------------------------- MODULE Idempotency ----------------------------
(* The idempotency ledger of backend/idempotency.py: the table              *)
(* idempotency_keys, UNIQUE(scope, key), as a function from keys to rows.   *)
(* A caller claims a key with begin_idempotent and, when it has done the    *)
(* work, stores the result with complete_idempotent.  A row is never        *)
(* deleted and an in-progress claim never expires: the source has no        *)
(* release, so a claim whose holder died stays in progress.                 *)
(*                                                                          *)
(* This module has no state of its own.  It says what each SQL statement    *)
(* does to one row; a module that holds a ledger decides when they run.     *)

\* "absent" stands for a key with no row in the table.
KeyStatuses == {"absent", "in_progress", "completed"}

\* A row, given the result_ref values that callers store.
KeyRow(refs) == [status : KeyStatuses, ref : refs]

\* A key with no row; noRef stands for a NULL result_ref.
Absent(noRef) == [status |-> "absent", ref |-> noRef]

(* The three outcomes of begin_idempotent.  The INSERT commits alone; when  *)
(* the UNIQUE constraint rejects it the status is read by a later SELECT.   *)
(* A row, once there, stays, so the INSERT would still be rejected at the   *)
(* time of the SELECT, and the pair is one atomic step at that time.        *)
BeginStateForgetful(row) ==   \* mutant: an open claim does not stop a second caller
    IF row.status = "completed" THEN "already_completed" ELSE "started"

BeginState(row) ==
    IF row.status = "absent" THEN "started"
    ELSE IF row.status = "completed" THEN "already_completed" ELSE "in_progress"

BegunNothing(row) == row   \* mutant: the INSERT is never committed

\* The row after begin_idempotent: the INSERT takes effect on an absent row only.
Begun(row) ==
    IF row.status = "absent" THEN [status |-> "in_progress", ref |-> row.ref] ELSE row

(* complete_idempotent reads the row before its transaction opens, returns  *)
(* when the row is completed, and otherwise writes without looking again.   *)
MustWrite(row) == row.status # "completed"

CompletedMistyped(ref) == [status |-> "done", ref |-> ref]   \* mutant: a status nobody reads

Completed(ref) == [status |-> "completed", ref |-> ref]
=============================================================================
