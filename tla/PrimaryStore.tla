---------------------------- MODULE PrimaryStore ----------------------------
(***************************************************************************)
(* The primary database as the derived indexes and the backups see it, and *)
(* the capture of an exact input snapshot (Store::derived_snapshot) by     *)
(* reads between which a writer may run.                                   *)
(***************************************************************************)
EXTENDS Naturals, Sequences, FiniteSets, Functions, Disk

CONSTANTS
    Quads,        \* the quads that writers add and remove
    None,         \* no snapshot, no contribution, no package
    Budgets       \* bounds on the writes, the snapshots, the packages and the
                  \* faults: failing calls, process exits and power losses

ASSUME PrimaryAssumption ==
    Budgets \subseteq [{"writes", "snapshots", "packages", "faults"} -> Nat]

VARIABLES
    primary,  \* the database: a cell of sequence, quads, governed commits
              \* and retention floor
    work,     \* the call at work in the thread that maintains the index and
              \* the backups: here, derived_snapshot
    snap,     \* the DerivedSnapshot that the caller holds, or None
    budget    \* what is left of one of the Budgets

primaryVars == <<primary, work, snap, budget>>

(* A governed commit and the changes its outbox records carry. *)
Commits == [added : SUBSET Quads, removed : SUBSET Quads]

(* BackupCheckpoint: the sequence number, the latest receipt and the       *)
(* retention floor.  The identities of the database and of the lineage     *)
(* never change here, not even in a copy.                                  *)
Checkpoint(p) == [sequence |-> p.sequence, receipt |-> Len(p.commits),
                  retained_after |-> p.floor]

Genesis == [sequence |-> 0, quads |-> {}, commits |-> <<>>, floor |-> 0]

NoWork == [at |-> "Idle"]

PrimaryInit ==
    /\ primary = Sure(Genesis)
    /\ work = NoWork
    /\ snap = None
    /\ budget \in Budgets

Spend(what) ==
    /\ budget[what] > 0
    /\ budget' = [budget EXCEPT ![what] = @ - 1]

Fault == Spend("faults")

-----------------------------------------------------------------------------
(* Writers.  An ungoverned commit, which may leave the quads as they are,  *)
(* goes to the write-ahead log without an fsync; a governed commit and a   *)
(* move of the retention floor are synced.                                 *)

Next_sequence == primary.now.sequence + 1

WriteUngoverned ==
    /\ Spend("writes")
    /\ \E q \in SUBSET Quads :
          primary' = Change(primary, [primary.now EXCEPT !.sequence = Next_sequence,
                                                         !.quads = q])
    /\ UNCHANGED <<work, snap>>

WriteGoverned ==
    /\ Spend("writes")
    /\ \E q \in SUBSET Quads \ {primary.now.quads} :
          LET effects == [added |-> q \ primary.now.quads,
                          removed |-> primary.now.quads \ q]
          IN primary' = Sure([primary.now EXCEPT !.sequence = Next_sequence, !.quads = q,
                                                 !.commits = Append(@, effects)])
    /\ UNCHANGED <<work, snap>>

ExpireOutbox ==
    /\ Spend("writes")
    /\ primary.now.floor < Len(primary.now.commits)
    /\ primary' = Sure([primary.now EXCEPT !.sequence = Next_sequence,
                                           !.floor = Len(primary.now.commits)])
    /\ UNCHANGED <<work, snap>>

-----------------------------------------------------------------------------
(* Store::derived_snapshot.  backup_checkpoint reads the sequence number   *)
(* and then, in a snapshot of its own, the receipts and the floor; between *)
(* two such readings the native snapshot is taken.  `took' remembers the   *)
(* checkpoint of the database at that moment, which the code never sees.   *)

CaptureBegin ==
    /\ \/ work = NoWork /\ Spend("snapshots")
       \/ work.at = "Retry" /\ UNCHANGED budget
    /\ work' = [at |-> "Before", before |-> primary.now.sequence,
                tries |-> IF work.at = "Retry" THEN work.tries ELSE 3]
    /\ snap' = None
    /\ UNCHANGED primary

CaptureHealth ==
    /\ work.at = "Before"
    /\ work' = [at |-> "Checked", tries |-> work.tries,
                   before |-> [Checkpoint(primary.now) EXCEPT !.sequence = work.before]]
    /\ UNCHANGED <<primary, snap, budget>>

CaptureReader ==
    /\ work.at = "Checked"
    /\ work' = [at |-> "Read", tries |-> work.tries, before |-> work.before,
                   quads |-> primary.now.quads, commits |-> primary.now.commits,
                   took |-> Checkpoint(primary.now)]
    /\ UNCHANGED <<primary, snap, budget>>

CaptureAgain ==
    /\ work.at = "Read"
    /\ work' = [at |-> "After", tries |-> work.tries, before |-> work.before,
                   quads |-> work.quads, commits |-> work.commits,
                   took |-> work.took, after |-> primary.now.sequence]
    /\ UNCHANGED <<primary, snap, budget>>

Captured == [checkpoint |-> work.before, quads |-> work.quads,
             commits |-> work.commits, took |-> work.took]

(* Mutant: the two checkpoints are not compared. *)
CaptureEndUnchecked ==
    /\ work.at = "After"
    /\ snap' = Captured
    /\ work' = NoWork
    /\ UNCHANGED <<primary, budget>>

CaptureEnd ==
    /\ work.at = "After"
    /\ LET after == [Checkpoint(primary.now) EXCEPT !.sequence = work.after]
       IN IF work.before = after
          THEN snap' = Captured /\ work' = NoWork
          ELSE /\ snap' = None
               /\ work' = IF work.tries = 1 THEN NoWork
                             ELSE [at |-> "Retry", tries |-> work.tries - 1]
    /\ UNCHANGED <<primary, budget>>

Capturing == work.at \in {"Before", "Checked", "Read", "After", "Retry"}

(* Cancellation, or a receipt that does not fit the governance state read  *)
(* before it.                                                              *)
CaptureFail ==
    /\ Capturing
    /\ Fault
    /\ work' = NoWork
    /\ UNCHANGED <<primary, snap>>

PrimaryNext ==
    \/ WriteUngoverned \/ WriteGoverned \/ ExpireOutbox
    \/ CaptureBegin \/ CaptureHealth \/ CaptureReader \/ CaptureAgain
    \/ CaptureEnd \/ CaptureFail

(* The snapshot and the call that takes it die with the process. *)
PrimaryExit == snap' = None /\ work' = NoWork

-----------------------------------------------------------------------------
(* derived_snapshot: the checkpoint that a snapshot carries is the one the *)
(* database had when the native snapshot was taken, whatever was committed *)
(* between the reads.                                                      *)
SnapshotIsExact == snap # None => snap.checkpoint = snap.took

=============================================================================
