--------------------------- MODULE PackagesProofs ---------------------------
(***************************************************************************)
(* Proofs about the primary database, the derived generations and the      *)
(* backup packages: snapshots are exact, pointers and receipts hold, and   *)
(* whatever reads as complete is whole, for any number of writes, faults,  *)
(* generations and power losses.                                           *)
(***************************************************************************)
EXTENDS Packages, TLAPS

IsCell(c, V) == c \in Cells(V) /\ c.now \in c.may

-----------------------------------------------------------------------------
(* The inductive invariant, a part per component with what its running     *)
(* call has found or done.                                                 *)

PrimaryInv == IsCell(primary, Databases)

(* A writer that comes between two reads moves the sequence on, so that    *)
(* equal sequences are readings of the same state.                         *)
CaptureAt(w, p) ==
    /\ w.at = "Before" => w.before \in Nat /\ w.before <= p.sequence
    /\ w.at \in {"Checked", "Read", "After"} =>
          w.before \in Checkpoints /\ w.before.sequence <= p.sequence
    /\ w.at = "Checked" =>
          (p.sequence = w.before.sequence => w.before = Checkpoint(p))
    /\ w.at \in {"Read", "After"} =>
          /\ w.took \in Checkpoints /\ w.quads \in SUBSET Quads
          /\ w.before.sequence <= w.took.sequence /\ w.took.sequence <= p.sequence
          /\ w.took.sequence = w.before.sequence => w.took = w.before
    /\ w.at = "After" => w.after \in Nat /\ w.took.sequence <= w.after

SnapOk(s) == /\ s.checkpoint = s.took /\ s.checkpoint \in Checkpoints
             /\ s.quads \in SUBSET Quads

CaptureInv == CaptureAt(work, primary.now) /\ (snap # None => SnapOk(snap))

BuildSteps == {"Write", "Pending", "Rename", "Finish"}
ActivateSteps == {"Point", "Publish", "Settle"}

(* What a generation was written from. *)
Typed(g) == g.input \in SUBSET Quads /\ g.source \in Checkpoints

(* A generation that is, or after a power loss may be, complete has its    *)
(* files, and they are the quads of its snapshot.                          *)
GenOk(g) ==
    /\ g = [mark |-> g.mark, whole |-> g.whole, payload |-> g.payload,
            source |-> g.source, input |-> g.input]
    /\ IsCell(g.mark, Marks) /\ IsCell(g.whole, BOOLEAN)
    /\ "Complete" \in g.mark.may => g.whole = Sure(TRUE) /\ g.payload = g.input /\ Typed(g)

BuildAt(w, g) ==
    /\ Typed(g)
    /\ w.at \in {"Write", "Pending"} => "Complete" \notin g.mark.may
    /\ w.at \in {"Pending", "Rename"} => g.payload = g.input
    /\ w.at = "Pending" => g.whole.now = TRUE
    /\ w.at = "Rename" => g.mark = Sure("Pending") /\ g.whole = Sure(TRUE)
    /\ w.at = "Finish" => g.mark.now = "Complete"

GensInv ==
    /\ gens \in Seq(Range(gens))
    /\ \A i \in DOMAIN gens : GenOk(gens[i])
    /\ work.at \in BuildSteps \cup ActivateSteps =>
          work = [at |-> work.at, gen |-> work.gen] /\ work.gen \in DOMAIN gens
    /\ work.at \in BuildSteps => BuildAt(work, gens[work.gen])

(* ACTIVE, whatever a power loss makes of it, names a generation that it   *)
(* was promised to and whose completion is sure unless it was adopted.     *)
PointerOk(r) ==
    /\ r.active \in 0..Len(gens) /\ r.active \in promised
    /\ r.active # 0 /\ r.active \notin adopted => gens[r.active].mark = Sure("Complete")

RootInv ==
    /\ IsCell(root, [active : Nat, pending : Nat])
    /\ \A r \in root.may : PointerOk(r)
    /\ work.at = "Settle" => root.now.active = work.gen

BackupSteps == {"BackupCheckpoint", "BackupCopy", "BackupPending", "BackupRename", "BackupFinish"}
RestoreSteps == {"RestoreCopy", "RestoreSource", "RestorePending", "RestoreRename", "RestoreFinish"}

(* The checkpoint was taken after the first observation, and has the       *)
(* contents of the contribution.                                           *)
Stored(p) ==
    /\ p.store \in Databases /\ p.start <= p.store.sequence
    /\ p.contribution # None => p.contribution.payload = p.store.quads

PackageOk(p) ==
    /\ p \in PackageRecords /\ p.mark.now \in p.mark.may /\ p.whole.now \in p.whole.may
    /\ p.contribution # None => p.contribution.payload = p.contribution.input
    /\ "Complete" \in p.mark.may =>
          p.whole = Sure(TRUE) /\ Stored(p) /\ p.end \in Nat /\ p.store.sequence <= p.end
    /\ p.done => p.mark = Sure("Complete")

BackupAt(w, p, sequence) ==
    /\ ~p.done
    /\ w.at \in {"BackupCheckpoint", "BackupCopy", "BackupPending"} => "Complete" \notin p.mark.may
    /\ w.at = "BackupCheckpoint" => p.start <= sequence
    /\ w.at # "BackupCheckpoint" => Stored(p)
    /\ w.at = "BackupCopy" => p.store.sequence <= sequence
    /\ w.at \notin {"BackupCheckpoint", "BackupCopy"} => p.end \in Nat /\ p.store.sequence <= p.end
    /\ w.at = "BackupPending" => p.whole.now = TRUE
    /\ w.at = "BackupRename" => p.mark = Sure("Pending") /\ p.whole = Sure(TRUE)
    /\ w.at = "BackupFinish" => p.mark.now = "Complete"

PackageInv ==
    /\ package # None => PackageOk(package)
    /\ work.at \in BackupSteps =>
          package # None /\ target = None /\ BackupAt(work, package, primary.now.sequence)

TargetMarks == {"Absent", "Empty", "Manifest", "Source", "Pending", "Complete"}

TargetOk(t) ==
    /\ t = [store |-> t.store, contribution |-> t.contribution, mark |-> t.mark,
            whole |-> t.whole, done |-> t.done, used |-> t.used]
    /\ IsCell(t.mark, TargetMarks) /\ IsCell(t.whole, BOOLEAN)
    /\ t.store \in Databases
    /\ "Complete" \in t.mark.may => t.whole = Sure(TRUE)
    /\ t.done => t.mark = Sure("Complete")

RestoreAt(w, t) ==
    /\ t.done = FALSE
    /\ w.at \in {"RestoreCopy", "RestoreSource"} => "Complete" \notin t.mark.may
    /\ w.at = "RestoreSource" => t.whole.now = TRUE
    /\ w.at \in {"RestorePending", "RestoreRename"} => t.whole = Sure(TRUE)
    /\ w.at = "RestorePending" => t.mark = Sure("Source")
    /\ w.at = "RestoreRename" => t.mark = Sure("Pending")
    /\ w.at = "RestoreFinish" => t.mark.now = "Complete"

TargetInv ==
    /\ target # None \/ work.at \in RestoreSteps =>
          TargetOk(target) /\ package # None /\ target.store = package.store
    /\ work.at \in RestoreSteps => RestoreAt(work, target)

PackagesInv ==
    PrimaryInv /\ CaptureInv /\ GensInv /\ RootInv /\ PackageInv /\ TargetInv


-----------------------------------------------------------------------------
(* Cells. *)

(* The fields of a cell. *)
LEMMA CellShape ==
    ASSUME NEW V, NEW c, IsCell(c, V)
    PROVE  c = [now |-> c.now, may |-> c.may] /\ c.now \in c.may /\ c.may \subseteq V
BY DEF IsCell, Cells

(* A value that is sure. *)
LEMMA SureCell ==
    ASSUME NEW V, NEW v \in V
    PROVE  IsCell(Sure(v), V) /\ Sure(v).now = v /\ Sure(v).may = {v}
BY DEF IsCell, Cells, Sure

(* A change leaves the old values possible. *)
LEMMA ChangeCell ==
    ASSUME NEW V, NEW c, IsCell(c, V), NEW v \in V
    PROVE  /\ IsCell(Change(c, v), V)
           /\ Change(c, v).now = v /\ Change(c, v).may = c.may \cup {v}
BY DEF IsCell, Cells, Change

(* A sync leaves the present value alone possible. *)
LEMMA SyncCell ==
    ASSUME NEW V, NEW c, IsCell(c, V)
    PROVE  /\ IsCell(Sync(c), V) /\ Sync(c) = Sure(c.now)
           /\ Sync(c).now = c.now /\ Sync(c).may = {c.now} /\ c.now \in c.may
BY DEF IsCell, Cells, Sync, Sure

(* A power loss leaves one of the possible values. *)
LEMMA SurvivorCell ==
    ASSUME NEW V, NEW c, IsCell(c, V), NEW d \in Survivors(c)
    PROVE  /\ IsCell(d, V) /\ d = Sure(d.now) /\ d.may = {d.now} /\ d.now \in c.may
           /\ \A v : c = Sure(v) => d = Sure(v)
<1>1. PICK v \in c.may : d = Sure(v)
  BY Zenon DEF Survivors
<1>2. v \in V
  BY CellShape
<1>3. IsCell(d, V) /\ d.now = v /\ d.may = {v}
  BY <1>1, <1>2, SureCell, Zenon
<1>4. \A u : c = Sure(u) => u = v
  BY DEF Sure
<1> QED BY <1>1, <1>3, <1>4, Zenon

-----------------------------------------------------------------------------
(* The primary database and its snapshots. *)

Writes == WriteUngoverned \/ WriteGoverned \/ ExpireOutbox

(* Databases are records. *)
LEMMA DatabaseShape ==
    ASSUME NEW p \in Databases
    PROVE  /\ p = [sequence |-> p.sequence, quads |-> p.quads, commits |-> p.commits,
                   floor |-> p.floor]
           /\ p.sequence \in Nat /\ p.quads \in SUBSET Quads
           /\ p.commits \in Seq(Commits) /\ p.floor \in Nat
           /\ Checkpoint(p) \in Checkpoints /\ Checkpoint(p).sequence = p.sequence
BY DEF Databases, Checkpoint, Checkpoints

(* A writer moves the sequence on by one. *)
LEMMA WriteMoves ==
    ASSUME PrimaryInv, Writes
    PROVE  PrimaryInv' /\ primary'.now.sequence = primary.now.sequence + 1
<1>1. PICK p \in Databases : p = primary.now
  BY CellShape, Zenon DEF PrimaryInv
<1>2. PICK c : c = primary
  OBVIOUS
<1>3. IsCell(c, Databases)
  BY <1>2, Zenon DEF PrimaryInv
<1>4. ASSUME NEW d \in Databases, primary' = Change(c, d) \/ primary' = Sure(d)
      PROVE  PrimaryInv' /\ primary'.now = d
  <2>1. IsCell(primary', Databases) /\ primary'.now = d
    BY <1>3, <1>4, ChangeCell, SureCell
  <2> QED BY <2>1, Zenon DEF PrimaryInv, IsCell, Cells, Databases, Commits
<1>5. CASE WriteUngoverned
  <2>1. PICK q \in SUBSET Quads :
           primary' = Change(c, [p EXCEPT !.sequence = p.sequence + 1, !.quads = q])
    BY <1>1, <1>2, <1>5, Zenon DEF WriteUngoverned, Next_sequence
  <2>2. PICK d : d = [p EXCEPT !.sequence = p.sequence + 1, !.quads = q]
    OBVIOUS
  <2>3. d \in Databases /\ d.sequence = p.sequence + 1
    <3>1. d = [sequence |-> p.sequence + 1, quads |-> q, commits |-> p.commits, floor |-> p.floor]
      BY <2>2, Zenon DEF Databases
    <3> QED BY <3>1, DatabaseShape DEF Databases
  <2> QED BY <1>1, <1>4, <2>1, <2>2, <2>3, Zenon
<1>6. CASE WriteGoverned
  <2>1. PICK q \in SUBSET Quads :
           primary' = Sure([p EXCEPT !.sequence = p.sequence + 1, !.quads = q,
                                     !.commits = Append(p.commits, [added |-> q \ p.quads,
                                                                    removed |-> p.quads \ q])])
    BY <1>1, <1>6, Zenon DEF WriteGoverned, Next_sequence
  <2>2. PICK e : e = [added |-> q \ p.quads, removed |-> p.quads \ q]
    BY Zenon
  <2>3. PICK s : s = Append(p.commits, e)
    BY Zenon
  <2>4. PICK d : d = [p EXCEPT !.sequence = p.sequence + 1, !.quads = q, !.commits = s]
    OBVIOUS
  <2>5. e \in Commits
    BY <2>2, DatabaseShape DEF Commits
  <2>6. s \in Seq(Commits)
    BY <2>3, <2>5, DatabaseShape
  <2>7. d \in Databases /\ d.sequence = p.sequence + 1
    <3>1. d = [sequence |-> p.sequence + 1, quads |-> q, commits |-> s, floor |-> p.floor]
      BY <2>4, Zenon DEF Databases
    <3> QED BY <2>6, <3>1, DatabaseShape DEF Databases
  <2> QED BY <1>1, <1>4, <2>1, <2>2, <2>3, <2>4, <2>7, Zenon
<1>7. CASE ExpireOutbox
  <2>1. PICK n : n = Len(p.commits)
    BY Zenon
  <2>2. PICK d : d = [p EXCEPT !.sequence = p.sequence + 1, !.floor = n]
    OBVIOUS
  <2>3. primary' = Sure(d)
    BY <1>1, <1>7, <2>1, <2>2, Zenon DEF ExpireOutbox, Next_sequence
  <2>4. n \in Nat
    BY <2>1, DatabaseShape
  <2>5. d \in Databases /\ d.sequence = p.sequence + 1
    <3>1. d = [sequence |-> p.sequence + 1, quads |-> p.quads, commits |-> p.commits, floor |-> n]
      BY <2>2, Zenon DEF Databases
    <3> QED BY <2>4, <3>1, DatabaseShape DEF Databases
  <2> QED BY <1>1, <1>4, <2>3, <2>5, Zenon
<1> QED BY <1>5, <1>6, <1>7 DEF Writes


-----------------------------------------------------------------------------
(* What a step leaves alone. *)

CaptureSteps == {"Before", "Checked", "Read", "After"}

(* A step of another call leaves the snapshot and its capture alone. *)
LEMMA CaptureFrame ==
    ASSUME CaptureInv, primary'.now = primary.now, snap' = snap \/ snap' = None,
           work' = work \/ work'.at \notin CaptureSteps
    PROVE  CaptureInv'
<1>1. CaptureAt(work', primary'.now)
  <2>1. CASE work' = work
    BY <2>1, Zenon DEF CaptureInv
  <2>2. CASE work'.at \notin CaptureSteps
    BY <2>2, SMTT(30) DEF CaptureAt, CaptureSteps
  <2> QED BY <2>1, <2>2
<1>2. snap' # None => SnapOk(snap')
  BY Zenon DEF CaptureInv
<1> QED BY <1>1, <1>2, Zenon DEF CaptureInv

(* A step that is not of a build or an activation leaves the generations. *)
LEMMA GensFrame ==
    ASSUME GensInv, UNCHANGED gens,
           work' = work \/ work'.at \notin BuildSteps \cup ActivateSteps
    PROVE  GensInv'
<1>1. /\ work'.at \in BuildSteps \cup ActivateSteps =>
            work' = [at |-> work'.at, gen |-> work'.gen] /\ work'.gen \in DOMAIN gens
      /\ work'.at \in BuildSteps => BuildAt(work', gens[work'.gen])
  <2>1. CASE work' = work
    BY <2>1, Zenon DEF GensInv
  <2>2. CASE work'.at \notin BuildSteps \cup ActivateSteps
    BY <2>2, Zenon
  <2> QED BY <2>1, <2>2
<1>2. gens \in Seq(Range(gens)) /\ \A i \in DOMAIN gens : GenOk(gens[i])
  BY DEF GensInv
<1> QED BY <1>1, <1>2, Zenon DEF GensInv

(* A step that is not of an activation leaves the pointer. *)
LEMMA RootFrame ==
    ASSUME RootInv, UNCHANGED <<root, gens, promised, adopted>>,
           work' = work \/ work'.at # "Settle"
    PROVE  RootInv'
<1>1. work'.at = "Settle" => root.now.active = work'.gen
  BY Zenon DEF RootInv
<1> QED BY <1>1, Zenon DEF RootInv, PointerOk

(* A step that is not of a backup leaves the package. *)
LEMMA PackageFrame ==
    ASSUME PackageInv, PrimaryInv, PrimaryInv', UNCHANGED package,
           \/ work'.at \notin BackupSteps
           \/ UNCHANGED <<work, target>> /\ primary.now.sequence <= primary'.now.sequence
    PROVE  PackageInv'
<1>1. PICK m, n \in Nat : m = primary.now.sequence /\ n = primary'.now.sequence
  <2>1. primary.now \in Databases /\ primary'.now \in Databases
    BY DEF PrimaryInv, IsCell, Cells
  <2> QED BY <2>1, DatabaseShape, Zenon
<1>2. work'.at \in BackupSteps => package # None /\ target' = None /\ BackupAt(work', package, n)
  <2>1. SUFFICES ASSUME work'.at \in BackupSteps
                 PROVE  package # None /\ target' = None /\ BackupAt(work', package, n)
    OBVIOUS
  <2>2. UNCHANGED <<work, target>> /\ m <= n
    BY <1>1, <2>1, Zenon
  <2>3. package # None /\ target' = None /\ BackupAt(work, package, m) /\ PackageOk(package)
    BY <1>1, <2>1, <2>2, Zenon DEF PackageInv
  <2>4. package.start \in Nat
    BY <2>3 DEF PackageOk, PackageRecords
  <2>5. Stored(package) => package.store.sequence \in Nat
    BY DatabaseShape, Zenon DEF Stored
  <2>6. /\ work.at = "BackupCheckpoint" => package.start <= n
        /\ work.at = "BackupCopy" => package.store.sequence <= n
    BY <1>1, <2>2, <2>3, <2>4, <2>5 DEF BackupAt
  <2>7. BackupAt(work, package, n)
    BY <2>3, <2>6, Zenon DEF BackupAt
  <2> QED BY <2>2, <2>3, <2>7, Zenon
<1>3. package # None => PackageOk(package)
  BY Zenon DEF PackageInv
<1> QED BY <1>1, <1>2, <1>3, Zenon DEF PackageInv

(* A step that is not of a restore leaves the target. *)
LEMMA TargetFrame ==
    ASSUME TargetInv, UNCHANGED <<package, target>>,
           work' = work \/ work'.at \notin RestoreSteps
    PROVE  TargetInv'
<1>1. /\ target # None \/ work'.at \in RestoreSteps =>
            TargetOk(target) /\ package # None /\ target.store = package.store
      /\ work'.at \in RestoreSteps => RestoreAt(work', target)
  BY Zenon DEF TargetInv
<1> QED BY <1>1, Zenon DEF TargetInv

(* A commit between two reads of a capture moves the sequence past what    *)
(* was read.                                                               *)
LEMMA WriteKeepsCapture ==
    ASSUME NEW w, NEW p \in Databases, NEW q \in Databases,
           CaptureAt(w, p), q.sequence = p.sequence + 1
    PROVE  CaptureAt(w, q)
<1>1. p.sequence \in Nat /\ q.sequence \in Nat
  BY DatabaseShape, Zenon
<1>2. w.before \in Checkpoints => w.before.sequence \in Nat
  BY DEF Checkpoints
<1>3. w.took \in Checkpoints => w.took.sequence \in Nat
  BY DEF Checkpoints
<1>4. w.at = "Before" => w.before \in Nat /\ w.before <= q.sequence
  BY <1>1 DEF CaptureAt
<1>5. w.at \in {"Checked", "Read", "After"} =>
         /\ w.before \in Checkpoints /\ w.before.sequence <= q.sequence
         /\ q.sequence # w.before.sequence
  BY <1>1, <1>2 DEF CaptureAt
<1>6. w.at \in {"Read", "After"} => w.took.sequence <= q.sequence
  BY <1>1, <1>3 DEF CaptureAt
<1> QED BY <1>4, <1>5, <1>6, Zenon DEF CaptureAt

(* Writers. *)
LEMMA WritesKeep ==
    ASSUME PackagesInv, Writes, UNCHANGED <<derivedVars, packageVars>>
    PROVE  PackagesInv'
<1>1. PrimaryInv' /\ primary'.now.sequence = primary.now.sequence + 1
  BY WriteMoves, Zenon DEF PackagesInv
<1>2. UNCHANGED <<work, snap, root, gens, promised, adopted, package, target>>
  BY Zenon DEF Writes, WriteUngoverned, WriteGoverned, ExpireOutbox, derivedVars, packageVars
<1>3. PICK p \in Databases : p = primary.now
  BY DEF PackagesInv, PrimaryInv, IsCell, Cells
<1>4. PICK q \in Databases : q = primary'.now
  BY <1>1 DEF PrimaryInv, IsCell, Cells
<1>5. CaptureInv'
  <2>1. CaptureAt(work, p)
    BY <1>3, Zenon DEF PackagesInv, CaptureInv
  <2>2. CaptureAt(work, q)
    BY <1>1, <1>3, <1>4, <2>1, WriteKeepsCapture, Zenon
  <2> QED BY <1>2, <1>4, <2>2, Zenon DEF PackagesInv, CaptureInv
<1>6. primary.now.sequence <= primary'.now.sequence
  BY <1>1, <1>3, DatabaseShape
<1>7. GensInv' /\ RootInv' /\ TargetInv'
  BY <1>2, GensFrame, RootFrame, TargetFrame, Zenon DEF PackagesInv
<1>8. PackageInv'
  BY <1>1, <1>2, <1>6, PackageFrame, Zenon DEF PackagesInv
<1> QED BY <1>1, <1>5, <1>7, <1>8, Zenon DEF PackagesInv

(* The work of a capture is not that of another call. *)
LEMMA CaptureElsewhere ==
    ASSUME PackagesInv, UNCHANGED <<primary, derivedVars, packageVars>>,
           work'.at \in CaptureSteps \cup {"Retry", "Idle"}, CaptureInv'
    PROVE  PackagesInv'
<1>1. UNCHANGED <<primary, root, gens, promised, adopted, package, target>>
  BY DEF derivedVars, packageVars
<1>2. /\ work'.at \notin BuildSteps \cup ActivateSteps /\ work'.at # "Settle"
      /\ work'.at \notin BackupSteps /\ work'.at \notin RestoreSteps
  BY DEF CaptureSteps, BuildSteps, ActivateSteps, BackupSteps, RestoreSteps
<1>3. PrimaryInv'
  BY <1>1, Zenon DEF PackagesInv, PrimaryInv
<1>4. GensInv' /\ RootInv' /\ TargetInv'
  BY <1>1, <1>2, GensFrame, RootFrame, TargetFrame, Zenon DEF PackagesInv
<1>5. PackageInv'
  BY <1>1, <1>2, <1>3, PackageFrame, Zenon DEF PackagesInv
<1> QED BY <1>3, <1>4, <1>5, Zenon DEF PackagesInv

(* derived_snapshot: what one reading adds to the others. *)
LEMMA CaptureKeeps ==
    ASSUME PackagesInv, UNCHANGED <<derivedVars, packageVars>>,
           CaptureBegin \/ CaptureHealth \/ CaptureReader \/ CaptureAgain \/ CaptureEnd
              \/ CaptureFail
    PROVE  PackagesInv'
<1>1. PICK p \in Databases : p = primary.now
  BY DEF PackagesInv, PrimaryInv, IsCell, Cells
<1>2. p.sequence \in Nat /\ Checkpoint(p) \in Checkpoints /\ Checkpoint(p).sequence = p.sequence
      /\ p.quads \in SUBSET Quads
  BY DatabaseShape, Zenon
<1>3. PICK w : w = work
  OBVIOUS
<1>4. CaptureAt(w, p) /\ (snap # None => SnapOk(snap))
  BY <1>1, <1>3, Zenon DEF PackagesInv, CaptureInv
<1>5. primary' = primary
  BY DEF CaptureBegin, CaptureHealth, CaptureReader, CaptureAgain, CaptureEnd, CaptureFail
<1>6. ASSUME NEW v, v = work', CaptureAt(v, p), v.at \in CaptureSteps \cup {"Retry", "Idle"},
             snap' # None => SnapOk(snap')
      PROVE  PackagesInv'
  <2>1. CaptureInv'
    BY <1>1, <1>5, <1>6, Zenon DEF CaptureInv
  <2> QED BY <1>5, <1>6, <2>1, CaptureElsewhere, Zenon
<1>8. CASE CaptureBegin
  <2>1. PICK n : work' = [at |-> "Before", before |-> p.sequence, tries |-> n]
    BY <1>1, <1>8, Zenon DEF CaptureBegin
  <2>2. PICK v : v = work'
    OBVIOUS
  <2>3. v.at = "Before" /\ v.before = p.sequence
    BY <2>1, <2>2
  <2>4. CaptureAt(v, p) /\ v.at \in CaptureSteps
    BY <1>2, <2>3 DEF CaptureAt, CaptureSteps
  <2>5. snap' = None
    BY <1>8 DEF CaptureBegin
  <2> QED BY <1>6, <2>2, <2>4, <2>5, Zenon
<1>9. CASE CaptureHealth
  <2>1. PICK b : b = [Checkpoint(p) EXCEPT !.sequence = w.before]
    BY Zenon
  <2>2. PICK v : v = work'
    OBVIOUS
  <2>3. v = [at |-> "Checked", tries |-> w.tries, before |-> b]
    BY <1>1, <1>3, <1>9, <2>1, <2>2, Zenon DEF CaptureHealth
  <2>4. v.at = "Checked" /\ v.before = b
    BY <2>3
  <2>5. w.before \in Nat /\ w.before <= p.sequence
    BY <1>3, <1>4, <1>9, Zenon DEF CaptureHealth, CaptureAt
  <2>6. b \in Checkpoints /\ b.sequence = w.before /\ (p.sequence = b.sequence => b = Checkpoint(p))
    BY <1>2, <2>1, <2>5 DEF Checkpoints, Checkpoint
  <2>7. CaptureAt(v, p) /\ v.at \in CaptureSteps
    BY <2>4, <2>5, <2>6 DEF CaptureAt, CaptureSteps
  <2>8. snap' = snap
    BY <1>9 DEF CaptureHealth
  <2> QED BY <1>4, <1>6, <2>2, <2>7, <2>8, Zenon
<1>10. CASE CaptureReader
  <2>1. PICK v : v = work'
    OBVIOUS
  <2>2. v = [at |-> "Read", tries |-> w.tries, before |-> w.before, quads |-> p.quads,
             commits |-> p.commits, took |-> Checkpoint(p)]
    BY <1>1, <1>3, <1>10, <2>1, Zenon DEF CaptureReader
  <2>3. v.at = "Read" /\ v.before = w.before /\ v.quads = p.quads /\ v.took = Checkpoint(p)
    BY <2>2
  <2>4. /\ w.before \in Checkpoints /\ w.before.sequence <= p.sequence
        /\ p.sequence = w.before.sequence => w.before = Checkpoint(p)
    BY <1>3, <1>4, <1>10 DEF CaptureReader, CaptureAt
  <2>5. CaptureAt(v, p) /\ v.at \in CaptureSteps
    BY <1>2, <2>3, <2>4 DEF CaptureAt, CaptureSteps
  <2>6. snap' = snap
    BY <1>10 DEF CaptureReader
  <2> QED BY <1>4, <1>6, <2>1, <2>5, <2>6, Zenon
<1>11. CASE CaptureAgain
  <2>1. PICK v : v = work'
    OBVIOUS
  <2>2. v = [at |-> "After", tries |-> w.tries, before |-> w.before, quads |-> w.quads,
             commits |-> w.commits, took |-> w.took, after |-> p.sequence]
    BY <1>1, <1>3, <1>11, <2>1, Zenon DEF CaptureAgain
  <2>3. v.at = "After" /\ v.before = w.before /\ v.quads = w.quads /\ v.took = w.took
        /\ v.after = p.sequence
    BY <2>2
  <2>4. w.at = "Read"
    BY <1>3, <1>11 DEF CaptureAgain
  <2>5. CaptureAt(v, p) /\ v.at \in CaptureSteps
    BY <1>2, <1>4, <2>3, <2>4 DEF CaptureAt, CaptureSteps
  <2>6. snap' = snap
    BY <1>11 DEF CaptureAgain
  <2> QED BY <1>4, <1>6, <2>1, <2>5, <2>6, Zenon
<1>12. CASE CaptureEnd
  <2>1. PICK v : v = work'
    OBVIOUS
  <2>2. v.at \in {"Retry", "Idle"}
    BY <1>12, <2>1 DEF CaptureEnd, NoWork
  <2>3. snap' # None => SnapOk(snap')
    <3>1. SUFFICES ASSUME snap' # None PROVE SnapOk(snap')
      OBVIOUS
    <3>2. /\ w.before = [Checkpoint(p) EXCEPT !.sequence = w.after]
          /\ snap' = [checkpoint |-> w.before, quads |-> w.quads, commits |-> w.commits,
                      took |-> w.took]
          /\ w.at = "After"
      BY <1>1, <1>3, <1>12, <3>1, Zenon DEF CaptureEnd, Captured
    <3>3. w.before.sequence = w.after
      BY <3>2 DEF Checkpoint
    <3>4. /\ w.before \in Checkpoints /\ w.took \in Checkpoints /\ w.quads \in SUBSET Quads
          /\ w.before.sequence <= w.took.sequence /\ w.took.sequence <= w.after
          /\ w.took.sequence = w.before.sequence => w.took = w.before
      BY <1>4, <3>2 DEF CaptureAt
    <3>5. w.before.sequence \in Nat /\ w.took.sequence \in Nat
      BY <3>4 DEF Checkpoints
    <3>6. w.took = w.before
      BY <3>3, <3>4, <3>5
    <3> QED BY <3>2, <3>4, <3>6 DEF SnapOk
  <2>4. CaptureAt(v, p) /\ v.at \in CaptureSteps \cup {"Retry", "Idle"}
    BY <2>2 DEF CaptureAt
  <2> QED BY <1>6, <2>1, <2>3, <2>4, Zenon
<1>13. CASE CaptureFail
  <2>1. work' = NoWork /\ snap' = snap
    BY <1>13 DEF CaptureFail
  <2>2. PICK v : v = work'
    OBVIOUS
  <2>3. v.at \in {"Retry", "Idle"}
    BY <2>1, <2>2 DEF NoWork
  <2>4. CaptureAt(v, p) /\ v.at \in CaptureSteps \cup {"Retry", "Idle"}
    BY <2>3 DEF CaptureAt
  <2> QED BY <1>4, <1>6, <2>1, <2>2, <2>4, Zenon
<1> QED BY <1>8, <1>9, <1>10, <1>11, <1>12, <1>13


-----------------------------------------------------------------------------
(* The generations. *)

(* A function on 1..n is a sequence. *)
LEMMA Sequence ==
    ASSUME NEW n \in Nat, NEW s, s = [i \in 1..n |-> s[i]]
    PROVE  s \in Seq(Range(s)) /\ Len(s) = n /\ DOMAIN s = 1..n
<1>1. DOMAIN s = 1..n
  BY Zenon
<1>2. \A i \in 1..n : s[i] \in Range(s)
  BY <1>1, Zenon DEF Range
<1>3. s \in [1..n -> Range(s)]
  BY <1>2, Zenon
<1> QED BY <1>1, <1>3

(* The generations are numbered from 1. *)
LEMMA GensShape ==
    ASSUME GensInv
    PROVE  /\ Len(gens) \in Nat /\ DOMAIN gens = 1..Len(gens)
           /\ gens = [i \in 1..Len(gens) |-> gens[i]]
<1>1. gens \in Seq(Range(gens))
  BY DEF GensInv
<1>2. PICK s, R : s = gens /\ R = Range(gens)
  OBVIOUS
<1>3. Len(s) \in Nat /\ DOMAIN s = 1..Len(s) /\ s = [i \in 1..Len(s) |-> s[i]]
  BY <1>1, <1>2
<1> QED BY <1>2, <1>3, Zenon

(* One generation changes. *)
LEMMA SetGen ==
    ASSUME GensInv, NEW i \in DOMAIN gens, NEW g, GenOk(g), gens' = [gens EXCEPT ![i] = g],
           NEW w, w = work',
           \/ w.at \notin BuildSteps \cup ActivateSteps
           \/ w.at \in BuildSteps /\ w = [at |-> w.at, gen |-> i] /\ BuildAt(w, g)
    PROVE  /\ GensInv' /\ gens'[i] = g
           /\ \A j \in DOMAIN gens : j # i => gens'[j] = gens[j]
           /\ Len(gens') = Len(gens)
<1>1. PICK s, n : s = gens' /\ n = Len(gens)
  BY Zenon
<1>2. n \in Nat /\ DOMAIN gens = 1..n /\ gens = [j \in 1..n |-> gens[j]]
  BY <1>1, GensShape, Zenon
<1>3. s = [j \in 1..n |-> s[j]] /\ s[i] = g /\ \A j \in 1..n : j # i => s[j] = gens[j]
  BY <1>1, <1>2, Zenon
<1>4. s \in Seq(Range(s)) /\ Len(s) = n /\ DOMAIN s = 1..n
  BY <1>2, <1>3, Sequence, Zenon
<1>5. \A j \in DOMAIN s : GenOk(s[j])
  BY <1>2, <1>3, <1>4, Zenon DEF GensInv
<1>6. /\ w.at \in BuildSteps \cup ActivateSteps =>
            w = [at |-> w.at, gen |-> w.gen] /\ w.gen \in DOMAIN s
      /\ w.at \in BuildSteps => BuildAt(w, s[w.gen])
  <2>1. CASE w.at \notin BuildSteps \cup ActivateSteps
    BY <2>1, Zenon
  <2>2. CASE w.at \in BuildSteps /\ w = [at |-> w.at, gen |-> i] /\ BuildAt(w, g)
    <3>1. w.gen = i
      BY <2>2
    <3> QED BY <1>2, <1>3, <1>4, <2>2, <3>1, Zenon
  <2> QED BY <2>1, <2>2
<1>7. GensInv'
  BY <1>1, <1>4, <1>5, <1>6, Zenon DEF GensInv
<1> QED BY <1>1, <1>2, <1>3, <1>4, <1>7, Zenon

(* One generation is added. *)
LEMMA AddGen ==
    ASSUME GensInv, NEW g, GenOk(g), gens' = Append(gens, g), BuildAt(work', g),
           work' = [at |-> "Write", gen |-> Len(gens) + 1]
    PROVE  /\ GensInv' /\ Len(gens') = Len(gens) + 1
           /\ \A j \in DOMAIN gens : gens'[j] = gens[j]
<1>1. PICK t, s, n, R : t = gens /\ s = gens' /\ n = Len(gens) /\ R = Range(gens)
  BY Zenon
<1>2. n \in Nat /\ DOMAIN t = 1..n /\ t \in Seq(R) /\ n = Len(t)
  BY <1>1, GensShape, Zenon DEF GensInv
<1>3. t \in Seq(R \cup {g}) /\ g \in R \cup {g} /\ s = Append(t, g)
  BY <1>1, <1>2
<1>4. /\ s = [j \in 1..(n + 1) |-> s[j]]
      /\ \A j \in 1..n : s[j] = t[j]
      /\ s[n + 1] = g
  <2>1. PICK S : S = R \cup {g}
    BY Zenon
  <2>2. t \in Seq(S) /\ g \in S
    BY <1>3, <2>1, Zenon
  <2>3. /\ s \in Seq(S) /\ Len(s) = n + 1
        /\ \A j \in 1..n : s[j] = t[j]
        /\ s[n + 1] = g
    <3>1. Len(t) \in Nat /\ Len(s) = Len(t) + 1 /\ s \in Seq(S)
      BY <1>3, <2>2
    <3>2. \A j \in 1..Len(t) : s[j] = t[j]
      BY <1>3, <2>2
    <3>3. s[Len(t) + 1] = g
      BY <1>3, <2>2
    <3> QED BY <1>2, <3>1, <3>2, <3>3, Zenon
  <2>4. s = [j \in 1..(n + 1) |-> s[j]]
    BY <2>3
  <2> QED BY <2>3, <2>4, Zenon
<1>5. PICK m : m = n + 1
  OBVIOUS
<1>6. m \in Nat /\ m \in 1..m /\ \A j \in 1..m : j \in 1..n \/ j = m
  BY <1>2, <1>5
<1>7. s = [j \in 1..m |-> s[j]]
  BY <1>4, <1>5, Zenon
<1>8. s \in Seq(Range(s)) /\ Len(s) = m /\ DOMAIN s = 1..m
  BY <1>6, <1>7, Sequence, Zenon
<1>9. \A j \in DOMAIN s : GenOk(s[j])
  BY <1>1, <1>2, <1>4, <1>5, <1>6, <1>8, Zenon DEF GensInv
<1>10. PICK w : w = work'
  OBVIOUS
<1>11. w.at = "Write" /\ w.gen = m /\ w = [at |-> w.at, gen |-> w.gen]
  BY <1>1, <1>5, <1>10
<1>12. w.gen \in DOMAIN s /\ BuildAt(w, s[w.gen])
  BY <1>4, <1>5, <1>6, <1>8, <1>10, <1>11, Zenon
<1>13. GensInv'
  BY <1>1, <1>8, <1>9, <1>10, <1>11, <1>12, Zenon DEF GensInv
<1> QED BY <1>1, <1>2, <1>4, <1>5, <1>8, <1>13, Zenon

(* The pointer rests on completions that stay. *)
LEMMA GensMove ==
    ASSUME GensInv, GensInv', RootInv, UNCHANGED <<root, promised, adopted>>,
           work'.at # "Settle", Len(gens) <= Len(gens'),
           \A i \in DOMAIN gens :
              gens[i].mark = Sure("Complete") => gens'[i].mark = Sure("Complete")
    PROVE  RootInv'
<1>1. PICK m \in Nat, n \in Nat : m = Len(gens) /\ n = Len(gens')
  <2>1. PICK s, R : s = gens' /\ R = Range(gens')
    OBVIOUS
  <2>2. s \in Seq(R)
    BY <2>1, Zenon DEF GensInv
  <2>3. Len(s) \in Nat
    BY <2>2
  <2> QED BY <2>1, <2>3, GensShape, Zenon
<1>2. \A r \in root.may : PointerOk(r)'
  <2>1. SUFFICES ASSUME NEW r \in root.may PROVE PointerOk(r)'
    OBVIOUS
  <2>2. /\ r.active \in 0..m /\ r.active \in promised
        /\ r.active # 0 /\ r.active \notin adopted => gens[r.active].mark = Sure("Complete")
    BY <1>1, Zenon DEF RootInv, PointerOk
  <2>3. r.active \in 0..n /\ (r.active # 0 => r.active \in 1..m)
    BY <1>1, <2>2
  <2>4. DOMAIN gens = 1..m
    BY <1>1, GensShape, Zenon
  <2> QED BY <1>1, <2>2, <2>3, <2>4, Zenon DEF PointerOk
<1> QED BY <1>2, Zenon DEF RootInv

(* The calls on the index leave the database, its snapshot, the package    *)
(* and the target alone.                                                   *)
LEMMA DerivedElsewhere ==
    ASSUME PackagesInv, UNCHANGED <<primary, snap, packageVars>>,
           work'.at \in BuildSteps \cup ActivateSteps \cup {"Idle"}, GensInv', RootInv'
    PROVE  PackagesInv'
<1>1. UNCHANGED <<primary, snap, package, target>>
  BY DEF packageVars
<1>2. /\ work'.at \notin CaptureSteps /\ work'.at \notin BackupSteps
      /\ work'.at \notin RestoreSteps
  BY DEF CaptureSteps, BuildSteps, ActivateSteps, BackupSteps, RestoreSteps
<1>3. PrimaryInv' /\ CaptureInv'
  BY <1>1, <1>2, CaptureFrame, Zenon DEF PackagesInv, PrimaryInv
<1>4. PackageInv' /\ TargetInv'
  BY <1>1, <1>2, <1>3, PackageFrame, TargetFrame, Zenon DEF PackagesInv
<1> QED BY <1>3, <1>4, Zenon DEF PackagesInv


(* A directory that was just made. *)
LEMMA FreshMark ==
    /\ IsCell(Fresh, Marks) /\ IsCell(Sure(FALSE), BOOLEAN)
    /\ Fresh.now = "Empty" /\ Fresh.may = {"Absent", "Empty"} /\ "Complete" \notin Fresh.may
<1>1. IsCell(Sure("Absent"), Marks) /\ Sure("Absent").may = {"Absent"}
  BY SureCell DEF Marks
<1>2. IsCell(Fresh, Marks) /\ Fresh.now = "Empty" /\ Fresh.may = {"Absent"} \cup {"Empty"}
  BY <1>1, ChangeCell DEF Fresh, Marks
<1>3. IsCell(Sure(FALSE), BOOLEAN)
  BY SureCell, Zenon
<1> QED BY <1>2, <1>3, Zenon

(* rebuild, catch_up, import_restored: a new generation is not complete. *)
LEMMA BuildStartKeeps ==
    ASSUME PackagesInv, snap # None, NEW payload, BuildStart(payload),
           UNCHANGED <<primary, snap, packageVars, root, promised, adopted>>
    PROVE  PackagesInv'
<1>1. PICK g : g = Generation(snap, payload)
  OBVIOUS
<1>2. g = [mark |-> Fresh, whole |-> Sure(FALSE), payload |-> payload,
           source |-> snap.checkpoint, input |-> snap.quads]
  BY <1>1, Zenon DEF Generation, Fresh
<1>3. /\ g.mark = Fresh /\ g.whole = Sure(FALSE) /\ g.payload = payload
      /\ g.source = snap.checkpoint /\ g.input = snap.quads
  BY <1>2
<1>4. Typed(g)
  BY <1>3, Zenon DEF Typed, PackagesInv, CaptureInv, SnapOk
<1>5. GenOk(g)
  BY <1>2, <1>3, FreshMark, Zenon DEF GenOk
<1>6. BuildAt(work', g)
  <2>1. PICK w : w = work'
    OBVIOUS
  <2>2. w.at = "Write"
    BY <2>1 DEF BuildStart
  <2>3. BuildAt(w, g)
    BY <1>3, <1>4, <2>2, FreshMark DEF BuildAt
  <2> QED BY <2>1, <2>3, Zenon
<1>7. gens' = Append(gens, g) /\ work' = [at |-> "Write", gen |-> Len(gens) + 1]
  BY <1>1 DEF BuildStart
<1>8. /\ GensInv' /\ Len(gens') = Len(gens) + 1
      /\ \A j \in DOMAIN gens : gens'[j] = gens[j]
  BY <1>5, <1>6, <1>7, AddGen, Zenon DEF PackagesInv
<1>9. work'.at = "Write"
  BY <1>7
<1>10. Len(gens) <= Len(gens')
  <2>1. Len(gens) \in Nat
    BY GensShape, Zenon DEF PackagesInv
  <2> QED BY <1>8, <2>1
<1>11. RootInv'
  BY <1>8, <1>9, <1>10, GensMove, Zenon DEF PackagesInv
<1>12. work'.at \in BuildSteps
  BY <1>9 DEF BuildSteps
<1> QED BY <1>8, <1>11, <1>12, DerivedElsewhere, Zenon

(* A step of a build changes its generation, which is not sure to be       *)
(* complete before.                                                        *)
LEMMA BuildStepKeeps ==
    ASSUME PackagesInv, work.at \in BuildSteps, NEW g, GenOk(g), SetThis(g),
           This.mark = Sure("Complete") => g.mark = Sure("Complete"),
           NEW w, w = work',
           \/ w = NoWork
           \/ w.at \in BuildSteps /\ w = [at |-> w.at, gen |-> work.gen] /\ BuildAt(w, g),
           UNCHANGED <<primary, snap, packageVars, root, promised, adopted>>
    PROVE  PackagesInv'
<1>1. PICK i : i = work.gen
  OBVIOUS
<1>2. i \in DOMAIN gens /\ gens' = [gens EXCEPT ![i] = g] /\ This = gens[i]
  BY <1>1, Zenon DEF PackagesInv, GensInv, SetThis, This
<1>3. w = NoWork => w.at = "Idle" /\ w.at \notin BuildSteps \cup ActivateSteps
  BY DEF NoWork, BuildSteps, ActivateSteps
<1>4. /\ GensInv' /\ gens'[i] = g /\ Len(gens') = Len(gens)
      /\ \A j \in DOMAIN gens : j # i => gens'[j] = gens[j]
  BY <1>1, <1>2, <1>3, SetGen, Zenon DEF PackagesInv
<1>5. \A j \in DOMAIN gens :
         gens[j].mark = Sure("Complete") => gens'[j].mark = Sure("Complete")
  BY <1>2, <1>4, Zenon
<1>6. w.at \in BuildSteps \cup {"Idle"} /\ work'.at # "Settle"
  BY <1>3 DEF BuildSteps
<1>7. Len(gens) <= Len(gens')
  <2>1. Len(gens) \in Nat
    BY GensShape, Zenon DEF PackagesInv
  <2> QED BY <1>4, <2>1
<1>8. RootInv'
  BY <1>4, <1>5, <1>6, <1>7, GensMove, Zenon DEF PackagesInv
<1> QED BY <1>4, <1>6, <1>8, DerivedElsewhere, Zenon

(* What a build knows of its generation. *)
LEMMA BuildKnows ==
    ASSUME PackagesInv, work.at \in BuildSteps, NEW g, g = This, NEW w, w = work
    PROVE  /\ GenOk(g) /\ BuildAt(w, g) /\ w = [at |-> w.at, gen |-> w.gen]
           /\ "Complete" \in g.mark.may \/ g.mark # Sure("Complete")
<1>1. GenOk(g) /\ BuildAt(w, g) /\ w = [at |-> w.at, gen |-> w.gen]
  BY Zenon DEF PackagesInv, GensInv, This
<1>2. Sure("Complete").may = {"Complete"}
  BY DEF Sure
<1> QED BY <1>1, <1>2

(* A directory that is given up. *)
LEMMA AbandonedOk == GenOk(Abandoned)
<1>1. Abandoned = [mark |-> Fresh, whole |-> Sure(FALSE), payload |-> None, source |-> None,
                   input |-> None]
  BY Zenon DEF Abandoned, Fresh
<1>2. PICK g : g = Abandoned
  OBVIOUS
<1>3. g.mark = Fresh /\ g.whole = Sure(FALSE) /\ g.payload = None /\ g.source = None
      /\ g.input = None
  BY <1>1, <1>2
<1>4. GenOk(g)
  BY <1>1, <1>2, <1>3, FreshMark, Zenon DEF GenOk
<1> QED BY <1>2, <1>4


(* The steps of DerivedIndex::build. *)
LEMMA BuildKeeps ==
    ASSUME PackagesInv, UNCHANGED <<primary, snap, packageVars>>,
           BuildWrite \/ BuildPending \/ BuildRename \/ BuildFinish \/ BuildFail
    PROVE  PackagesInv'
<1>1. PICK w, g, v : w = work /\ g = This /\ v = work'
  OBVIOUS
<1>2. work.at \in BuildSteps
  BY DEF BuildWrite, BuildPending, BuildRename, BuildFinish, BuildFail, BuildSteps
<1>3. /\ GenOk(g) /\ BuildAt(w, g) /\ w = [at |-> w.at, gen |-> w.gen]
      /\ "Complete" \in g.mark.may \/ g.mark # Sure("Complete")
  BY <1>1, <1>2, BuildKnows, Zenon
<1>4. UNCHANGED <<primary, snap, packageVars, root, promised, adopted>>
  BY DEF BuildWrite, BuildPending, BuildRename, BuildFinish, BuildFail
<1>5. /\ g = [mark |-> g.mark, whole |-> g.whole, payload |-> g.payload,
              source |-> g.source, input |-> g.input]
      /\ IsCell(g.mark, Marks) /\ IsCell(g.whole, BOOLEAN)
      /\ "Complete" \in g.mark.may => g.whole = Sure(TRUE) /\ g.payload = g.input /\ Typed(g)
  BY <1>3, Zenon DEF GenOk
<1>6. ASSUME NEW m, NEW x, NEW h,
             h = [mark |-> m, whole |-> x, payload |-> g.payload, source |-> g.source,
                  input |-> g.input]
      PROVE  /\ h.mark = m /\ h.whole = x /\ h.payload = g.payload
             /\ Typed(h) <=> Typed(g) /\ h.input = g.input
             /\ h = [mark |-> h.mark, whole |-> h.whole, payload |-> h.payload,
                     source |-> h.source, input |-> h.input]
  BY <1>6 DEF Typed
<1>a. ASSUME NEW m, NEW x
      PROVE  [g EXCEPT !.mark = m, !.whole = x]
                = [mark |-> m, whole |-> x, payload |-> g.payload, source |-> g.source,
                   input |-> g.input]
  <2>1. g = [mark |-> g.mark, whole |-> g.whole, payload |-> g.payload,
             source |-> g.source, input |-> g.input]
    BY <1>5, Zenon
  <2>2. PICK a, b, c, d, e : a = g.mark /\ b = g.whole /\ c = g.payload /\ d = g.source
                             /\ e = g.input
    OBVIOUS
  <2>3. g = [mark |-> a, whole |-> b, payload |-> c, source |-> d, input |-> e]
    BY <2>1, <2>2, Zenon
  <2>4. [g EXCEPT !.mark = m, !.whole = x]
           = [mark |-> m, whole |-> x, payload |-> c, source |-> d, input |-> e]
    <3>1. PICK k : k = [g EXCEPT !.mark = m]
      BY Zenon
    <3>2. k = [mark |-> m, whole |-> b, payload |-> c, source |-> d, input |-> e]
      BY <2>3, <3>1
    <3>3. [k EXCEPT !.whole = x]
             = [mark |-> m, whole |-> x, payload |-> c, source |-> d, input |-> e]
      BY <3>2
    <3> QED BY <3>1, <3>3, Zenon
  <2> QED BY <2>2, <2>4, Zenon
<1>b. TRUE \in BOOLEAN /\ {"Pending", "Complete"} \subseteq Marks
  BY DEF Marks
<1>7. ASSUME NEW a, v = [w EXCEPT !.at = a]
      PROVE  v.at = a /\ v = [at |-> a, gen |-> work.gen]
  BY <1>1, <1>3, <1>7
<1>8. CASE BuildWrite
  <2>1. CASE g.payload = g.input
    <3>1. SetThis([g EXCEPT !.mark = Sync(g.mark), !.whole = Change(g.whole, TRUE)])
          /\ v = [w EXCEPT !.at = "Pending"]
      BY <1>1, <1>8, <2>1 DEF BuildWrite
    <3>2. PICK m, x, h : /\ m = Sync(g.mark) /\ x = Change(g.whole, TRUE)
                         /\ h = [mark |-> m, whole |-> x, payload |-> g.payload,
                                 source |-> g.source, input |-> g.input]
      BY Zenon
    <3>3. SetThis(h)
      BY <1>a, <3>1, <3>2, Zenon
    <3>4. IsCell(m, Marks) /\ m.may = {g.mark.now} /\ g.mark.now \in g.mark.may
      BY <1>5, <3>2, SyncCell, Zenon
    <3>5. IsCell(x, BOOLEAN) /\ x.now = TRUE
      BY <1>5, <1>b, <3>2, ChangeCell, Zenon
    <3>6. w.at = "Write"
      BY <1>1, <1>8 DEF BuildWrite
    <3>7. Typed(g) /\ "Complete" \notin g.mark.may
      BY <1>3, <3>6 DEF BuildAt
    <3>8. "Complete" \notin m.may
      BY <3>4, <3>7
    <3>9. /\ h.mark = m /\ h.whole = x /\ h.payload = h.input /\ Typed(h)
          /\ h = [mark |-> h.mark, whole |-> h.whole, payload |-> h.payload,
                  source |-> h.source, input |-> h.input]
      BY <1>6, <2>1, <3>2, <3>7, Zenon
    <3>10. GenOk(h)
      BY <3>4, <3>5, <3>8, <3>9, Zenon DEF GenOk
    <3>11. v.at = "Pending" /\ v = [at |-> "Pending", gen |-> work.gen]
      BY <1>7, <3>1, Zenon
    <3>12. BuildAt(v, h) /\ v.at \in BuildSteps
      BY <3>5, <3>8, <3>9, <3>11 DEF BuildAt, BuildSteps
    <3>13. This.mark # Sure("Complete")
      BY <1>1, <1>3, <3>7, Zenon
    <3> QED BY <1>1, <1>2, <1>4, <3>3, <3>10, <3>11, <3>12, <3>13, BuildStepKeeps, Zenon
  <2>2. CASE g.payload # g.input
    <3>1. SetThis(Abandoned) /\ v = NoWork
      BY <1>1, <1>8, <2>2 DEF BuildWrite
    <3>2. w.at = "Write"
      BY <1>1, <1>8 DEF BuildWrite
    <3>3. This.mark # Sure("Complete")
      BY <1>1, <1>3, <3>2 DEF BuildAt
    <3> QED BY <1>1, <1>2, <1>4, <3>1, <3>3, AbandonedOk, BuildStepKeeps, Zenon
  <2> QED BY <2>1, <2>2
<1>9. CASE BuildPending
  <2>1. SetThis([g EXCEPT !.mark = Sure("Pending"), !.whole = Sync(g.whole)])
        /\ v = [w EXCEPT !.at = "Rename"]
    BY <1>1, <1>9 DEF BuildPending
  <2>2. PICK m, x, h : /\ m = Sure("Pending") /\ x = Sync(g.whole)
                       /\ h = [mark |-> m, whole |-> x, payload |-> g.payload,
                               source |-> g.source, input |-> g.input]
    BY Zenon
  <2>3. SetThis(h)
    BY <1>a, <2>1, <2>2, Zenon
  <2>4. w.at = "Pending"
    BY <1>1, <1>9 DEF BuildPending
  <2>5. Typed(g) /\ "Complete" \notin g.mark.may /\ g.payload = g.input /\ g.whole.now = TRUE
    BY <1>3, <2>4 DEF BuildAt
  <2>6. IsCell(m, Marks) /\ m.may = {"Pending"} /\ "Complete" \notin m.may
    <3>1. "Pending" \in Marks
      BY <1>b
    <3>2. IsCell(m, Marks) /\ m.may = {"Pending"}
      BY <2>2, <3>1, SureCell, Zenon
    <3> QED BY <3>2
  <2>7. IsCell(x, BOOLEAN) /\ x = Sure(TRUE)
    BY <1>5, <2>2, <2>5, SyncCell, Zenon
  <2>8. /\ h.mark = m /\ h.whole = x /\ h.payload = h.input /\ Typed(h)
        /\ h = [mark |-> h.mark, whole |-> h.whole, payload |-> h.payload,
                source |-> h.source, input |-> h.input]
    BY <1>6, <2>2, <2>5, Zenon
  <2>9. GenOk(h)
    BY <2>6, <2>7, <2>8, Zenon DEF GenOk
  <2>10. v.at = "Rename" /\ v = [at |-> "Rename", gen |-> work.gen]
    BY <1>7, <2>1, Zenon
  <2>11. BuildAt(v, h) /\ v.at \in BuildSteps
    BY <2>2, <2>7, <2>8, <2>10 DEF BuildAt, BuildSteps
  <2>12. This.mark # Sure("Complete")
    BY <1>1, <1>3, <2>5, Zenon
  <2> QED BY <1>1, <1>2, <1>4, <2>3, <2>9, <2>10, <2>11, <2>12, BuildStepKeeps, Zenon
<1>10. CASE BuildRename
  <2>1. SetThis([g EXCEPT !.mark = Change(g.mark, "Complete")]) /\ v = [w EXCEPT !.at = "Finish"]
    BY <1>1, <1>10 DEF BuildRename
  <2>2. PICK m, h : /\ m = Change(g.mark, "Complete")
                    /\ h = [mark |-> m, whole |-> g.whole, payload |-> g.payload,
                            source |-> g.source, input |-> g.input]
    BY Zenon
  <2>3. SetThis(h)
    BY <1>5, <2>1, <2>2
  <2>4. w.at = "Rename"
    BY <1>1, <1>10 DEF BuildRename
  <2>5. Typed(g) /\ g.payload = g.input /\ g.mark = Sure("Pending") /\ g.whole = Sure(TRUE)
    BY <1>3, <2>4, Zenon DEF BuildAt
  <2>6. IsCell(m, Marks) /\ m.now = "Complete"
    BY <1>5, <2>2, ChangeCell DEF Marks
  <2>7. /\ h.mark = m /\ h.whole = g.whole /\ h.payload = h.input /\ Typed(h)
        /\ h = [mark |-> h.mark, whole |-> h.whole, payload |-> h.payload,
                source |-> h.source, input |-> h.input]
    BY <1>6, <2>2, <2>5, Zenon
  <2>8. GenOk(h)
    BY <1>5, <2>5, <2>6, <2>7, Zenon DEF GenOk
  <2>9. v.at = "Finish" /\ v = [at |-> "Finish", gen |-> work.gen]
    BY <1>7, <2>1, Zenon
  <2>10. BuildAt(v, h) /\ v.at \in BuildSteps
    BY <2>6, <2>7, <2>9 DEF BuildAt, BuildSteps
  <2>11. This.mark # Sure("Complete")
    BY <1>1, <2>5 DEF Sure
  <2> QED BY <1>1, <1>2, <1>4, <2>3, <2>8, <2>9, <2>10, <2>11, BuildStepKeeps, Zenon
<1>11. CASE BuildFinish
  <2>1. SetThis([g EXCEPT !.mark = Sync(g.mark)]) /\ v = NoWork
    BY <1>1, <1>11 DEF BuildFinish
  <2>2. PICK m, h : /\ m = Sync(g.mark)
                    /\ h = [mark |-> m, whole |-> g.whole, payload |-> g.payload,
                            source |-> g.source, input |-> g.input]
    BY Zenon
  <2>3. SetThis(h)
    BY <1>5, <2>1, <2>2
  <2>4. w.at = "Finish"
    BY <1>1, <1>11 DEF BuildFinish
  <2>5. g.mark.now = "Complete"
    BY <1>3, <2>4 DEF BuildAt
  <2>6. IsCell(m, Marks) /\ m = Sure("Complete") /\ "Complete" \in g.mark.may
    BY <1>5, <2>2, <2>5, SyncCell, Zenon
  <2>7. /\ h.mark = m /\ h.whole = g.whole /\ h.payload = h.input /\ Typed(h)
        /\ h = [mark |-> h.mark, whole |-> h.whole, payload |-> h.payload,
                source |-> h.source, input |-> h.input]
    BY <1>5, <1>6, <2>2, <2>6, Zenon
  <2>8. GenOk(h)
    BY <1>5, <2>6, <2>7, Zenon DEF GenOk
  <2> QED BY <1>1, <1>2, <1>4, <2>1, <2>3, <2>6, <2>7, <2>8, BuildStepKeeps, Zenon
<1>12. CASE BuildFail
  <2>1. v = NoWork
    BY <1>1, <1>12 DEF BuildFail
  <2>2. CASE work.at \in {"Write", "Pending", "Rename"} /\ SetThis(Abandoned)
    <3>1. This.mark # Sure("Complete")
      <4>1. CASE w.at = "Rename"
        BY <1>1, <1>3, <4>1 DEF BuildAt, Sure
      <4>2. CASE w.at \in {"Write", "Pending"}
        BY <1>1, <1>3, <4>2 DEF BuildAt
      <4> QED BY <1>1, <2>2, <4>1, <4>2
    <3> QED BY <1>1, <1>2, <1>4, <2>1, <2>2, <3>1, AbandonedOk, BuildStepKeeps, Zenon
  <2>3. CASE UNCHANGED gens
    <3>1. v.at = "Idle" /\ v.at \notin BuildSteps \cup ActivateSteps /\ v.at # "Settle"
      BY <2>1 DEF NoWork, BuildSteps, ActivateSteps
    <3>2. GensInv' /\ RootInv'
      BY <1>1, <1>4, <2>3, <3>1, GensFrame, RootFrame, Zenon DEF PackagesInv
    <3> QED BY <1>1, <3>1, <3>2, DerivedElsewhere, Zenon
  <2> QED BY <1>12, <2>2, <2>3, Zenon DEF BuildFail
<1> QED BY <1>8, <1>9, <1>10, <1>11, <1>12


-----------------------------------------------------------------------------
(* The pointer. *)

Pointers == [active : Nat, pending : Nat]

(* A pointer file that is made or removed leaves ACTIVE. *)
LEMMA PendingKeeps ==
    ASSUME RootInv, NEW n \in Nat, NEW r, r = [root.now EXCEPT !.pending = n],
           root' = Sure(r) \/ root' = Change(root, r) \/ root' = root,
           UNCHANGED <<gens, promised, adopted>>, work'.at # "Settle"
    PROVE  RootInv'
<1>1. PICK c : c = root
  OBVIOUS
<1>2. IsCell(c, Pointers) /\ c.now \in c.may /\ c.may \subseteq Pointers
      /\ \A q \in c.may : PointerOk(q)
  BY <1>1, CellShape, Zenon DEF RootInv, Pointers
<1>3. r \in Pointers /\ r.active = c.now.active
  <2>1. PICK q \in Pointers : q = c.now
    BY <1>2, Zenon
  <2>2. r = [q EXCEPT !.pending = n]
    BY <1>1, <2>1, Zenon
  <2>3. r = [active |-> q.active, pending |-> n]
    BY <2>2 DEF Pointers
  <2> QED BY <2>1, <2>3 DEF Pointers
<1>4. PointerOk(r)
  BY <1>2, <1>3, Zenon DEF PointerOk
<1>5. /\ IsCell(Sure(r), Pointers) /\ Sure(r).may = {r}
      /\ IsCell(Change(c, r), Pointers) /\ Change(c, r).may = c.may \cup {r}
  <2>1. IsCell(Sure(r), Pointers) /\ Sure(r).may = {r}
    BY <1>3, SureCell, Zenon
  <2>2. IsCell(Change(c, r), Pointers) /\ Change(c, r).may = c.may \cup {r}
    BY <1>2, <1>3, ChangeCell
  <2> QED BY <2>1, <2>2, Zenon
<1>6. IsCell(root', Pointers) /\ \A q \in root'.may : PointerOk(q)
  BY <1>1, <1>2, <1>4, <1>5, Zenon
<1>7. \A q \in root'.may : PointerOk(q)'
  BY <1>6, Zenon DEF PointerOk
<1> QED BY <1>6, <1>7, Zenon DEF RootInv, Pointers

(* The steps of DerivedIndex::activate and DerivedIndex::open. *)
LEMMA ActivateKeeps ==
    ASSUME PackagesInv, UNCHANGED <<primary, snap, packageVars>>,
           ActivateStart \/ ActivatePending \/ ActivateRename \/ ActivateSync \/ ActivateFail
              \/ Open
    PROVE  PackagesInv'
<1>1. PICK w, v, c, n : w = work /\ v = work' /\ c = root /\ n = Len(gens)
  BY Zenon
<1>2. n \in Nat /\ DOMAIN gens = 1..n /\ UNCHANGED gens
  <2>1. n \in Nat /\ DOMAIN gens = 1..n
    BY <1>1, GensShape, Zenon DEF PackagesInv
  <2>2. UNCHANGED gens
    BY DEF ActivateStart, ActivatePending, ActivateRename, ActivateSync, ActivateFail, Open
  <2> QED BY <2>1, <2>2
<1>3. w.at \in ActivateSteps => w = [at |-> w.at, gen |-> w.gen] /\ w.gen \in 1..n
  BY <1>1, <1>2, Zenon DEF PackagesInv, GensInv
<1>4. /\ IsCell(c, Pointers) /\ c.now \in c.may /\ c.may \subseteq Pointers
      /\ \A q \in c.may : PointerOk(q)
      /\ w.at = "Settle" => c.now.active = w.gen
  BY <1>1, CellShape, Zenon DEF PackagesInv, RootInv, Pointers
<1>5. ASSUME RootInv',
             \/ v.at = "Idle"
             \/ v.at \in ActivateSteps /\ v = [at |-> v.at, gen |-> v.gen] /\ v.gen \in 1..n
      PROVE  PackagesInv'
  <2>1. v.at \notin BuildSteps /\ v.at \in ActivateSteps \cup {"Idle"}
    BY <1>5 DEF BuildSteps, ActivateSteps
  <2>2. v.at \in BuildSteps \cup ActivateSteps =>
           v = [at |-> v.at, gen |-> v.gen] /\ v.gen \in DOMAIN gens
    BY <1>2, <1>5, <2>1 DEF ActivateSteps
  <2>3. GensInv'
    BY <1>1, <1>2, <2>1, <2>2, Zenon DEF PackagesInv, GensInv
  <2> QED BY <1>1, <1>5, <2>1, <2>3, DerivedElsewhere, Zenon
<1>6. v = NoWork => v.at = "Idle" /\ v.at # "Settle"
  BY DEF NoWork
<1>7. ASSUME NEW a \in ActivateSteps, w.at \in ActivateSteps, v = [w EXCEPT !.at = a]
      PROVE  /\ v.at = a /\ v.gen = w.gen
             /\ v.at \in ActivateSteps /\ v = [at |-> v.at, gen |-> v.gen] /\ v.gen \in 1..n
  <2>1. v = [at |-> a, gen |-> w.gen]
    BY <1>3, <1>7
  <2> QED BY <1>3, <1>7, <2>1, Zenon
<1>8. {"Point", "Publish", "Settle"} = ActivateSteps /\ "Point" # "Settle" /\ "Publish" # "Settle"
  BY DEF ActivateSteps
<1>9. CASE ActivateStart
  <2>1. PICK i \in 1..n : v = [at |-> "Point", gen |-> i]
    BY <1>1, <1>2, <1>9, Zenon DEF ActivateStart
  <2>2. v.at = "Point" /\ v.at \in ActivateSteps /\ v = [at |-> v.at, gen |-> v.gen]
        /\ v.gen \in 1..n
    BY <2>1 DEF ActivateSteps
  <2>3. RootInv'
    BY <1>1, <1>2, <1>8, <1>9, <2>2, RootFrame, Zenon DEF PackagesInv, ActivateStart
  <2> QED BY <1>5, <2>2, <2>3, Zenon
<1>10. CASE ActivatePending
  <2>1. w.at = "Point" /\ UNCHANGED <<promised, adopted>>
    BY <1>1, <1>10 DEF ActivatePending
  <2>2. w.at \in ActivateSteps /\ w.gen \in Nat
    BY <1>2, <1>3, <2>1 DEF ActivateSteps
  <2>3. CASE root.now.pending = 0
    <3>1. PICK r : r = [root.now EXCEPT !.pending = w.gen]
      BY Zenon
    <3>2. root' = Sure(r) /\ v = [w EXCEPT !.at = "Publish"]
      BY <1>1, <1>10, <2>3, <3>1 DEF ActivatePending
    <3>3. /\ v.at = "Publish" /\ v.at \in ActivateSteps /\ v = [at |-> v.at, gen |-> v.gen]
          /\ v.gen \in 1..n
      BY <1>7, <1>8, <2>2, <3>2, Zenon
    <3>4. RootInv'
      BY <1>1, <1>2, <1>8, <2>1, <2>2, <3>1, <3>2, <3>3, PendingKeeps, Zenon DEF PackagesInv
    <3> QED BY <1>5, <3>3, <3>4, Zenon
  <2>4. CASE root.now.pending # 0
    <3>1. v = NoWork /\ UNCHANGED root
      BY <1>1, <1>10, <2>4 DEF ActivatePending
    <3>2. RootInv'
      BY <1>1, <1>2, <1>6, <2>1, <3>1, RootFrame, Zenon DEF PackagesInv
    <3> QED BY <1>5, <1>6, <3>1, <3>2, Zenon
  <2> QED BY <2>3, <2>4
<1>11. CASE ActivateRename
  <2>1. PICK r : r = [active |-> w.gen, pending |-> 0]
    BY Zenon
  <2>2. /\ w.at = "Publish" /\ root' = Change(c, r) /\ v = [w EXCEPT !.at = "Settle"]
        /\ promised' = promised \union {w.gen}
        /\ adopted' = IF gens[w.gen].mark = Sure("Complete") THEN adopted
                      ELSE adopted \union {w.gen}
    BY <1>1, <1>11, <2>1, Zenon DEF ActivateRename, IsSure, This
  <2>3. w.at \in ActivateSteps
    BY <2>2 DEF ActivateSteps
  <2>4. w.gen \in 1..n /\ w.gen \in 0..n /\ w.gen \in Nat
    BY <1>2, <1>3, <2>3
  <2>5. r \in Pointers /\ r.active = w.gen
    BY <2>1, <2>4 DEF Pointers
  <2>6. IsCell(root', Pointers) /\ root'.now = r /\ root'.may = c.may \cup {r}
    <3>1. PICK d : d = Change(c, r)
      OBVIOUS
    <3>2. IsCell(d, Pointers) /\ d.now = r /\ d.may = c.may \cup {r}
      BY <1>4, <2>5, <3>1, ChangeCell
    <3> QED BY <2>2, <3>1, <3>2, Zenon
  <2>7. \A q \in root'.may : PointerOk(q)'
    <3>1. ASSUME NEW q \in c.may PROVE PointerOk(q)'
      <4>1. PointerOk(q)
        BY <1>4, <3>1, Zenon
      <4>2. q.active \in promised' /\ (q.active \notin adopted' => q.active \notin adopted)
        BY <2>2, <4>1 DEF PointerOk
      <4> QED BY <1>2, <4>1, <4>2, Zenon DEF PointerOk
    <3>2. PointerOk(r)'
      <4>1. r.active \in promised'
        BY <2>2, <2>5
      <4>2. r.active \notin adopted' => gens[r.active].mark = Sure("Complete")
        BY <2>2, <2>5, Zenon
      <4> QED BY <1>1, <1>2, <2>4, <2>5, <4>1, <4>2, Zenon DEF PointerOk
    <3> QED BY <2>6, <3>1, <3>2, Zenon
  <2>8. /\ v.at = "Settle" /\ v.gen = w.gen /\ v.at \in ActivateSteps
        /\ v = [at |-> v.at, gen |-> v.gen] /\ v.gen \in 1..n
    BY <1>7, <1>8, <2>2, <2>3, Zenon
  <2>9. RootInv'
    BY <1>1, <2>5, <2>6, <2>7, <2>8, Zenon DEF RootInv, Pointers
  <2> QED BY <1>5, <2>8, <2>9, Zenon
<1>12. CASE ActivateSync
  <2>1. /\ w.at = "Settle" /\ root' = Sync(c) /\ v = NoWork
        /\ promised' = {w.gen} /\ UNCHANGED adopted
    BY <1>1, <1>12, Zenon DEF ActivateSync
  <2>2. IsCell(root', Pointers) /\ root'.may = {c.now}
    BY <1>4, <2>1, SyncCell, Zenon
  <2>3. c.now.active = w.gen /\ PointerOk(c.now)
    BY <1>4, <2>1, Zenon
  <2>4. PointerOk(c.now)'
    BY <1>2, <2>1, <2>3, Zenon DEF PointerOk
  <2>5. \A q \in root'.may : PointerOk(q)'
    BY <2>2, <2>4, Zenon
  <2>6. RootInv'
    BY <1>1, <1>6, <2>1, <2>2, <2>5, Zenon DEF RootInv, Pointers
  <2> QED BY <1>5, <1>6, <2>1, <2>6, Zenon
<1>13. CASE ActivateFail
  <2>1. v = NoWork /\ UNCHANGED <<promised, adopted>>
    BY <1>1, <1>13 DEF ActivateFail
  <2>2. CASE UNCHANGED root
    <3>1. RootInv'
      BY <1>1, <1>2, <1>6, <2>1, <2>2, RootFrame, Zenon DEF PackagesInv
    <3> QED BY <1>5, <1>6, <2>1, <3>1, Zenon
  <2>3. CASE work.at = "Point" /\ root' = Change(root, [root.now EXCEPT !.pending = work.gen])
    <3>1. PICK r : r = [root.now EXCEPT !.pending = w.gen]
      BY Zenon
    <3>2. w.gen \in Nat
      BY <1>1, <1>2, <1>3, <2>3 DEF ActivateSteps
    <3>3. RootInv'
      BY <1>1, <1>2, <1>6, <2>1, <2>3, <3>1, <3>2, PendingKeeps, Zenon DEF PackagesInv
    <3> QED BY <1>5, <1>6, <2>1, <3>3, Zenon
  <2> QED BY <1>13, <2>2, <2>3, Zenon DEF ActivateFail
<1>14. CASE Open
  <2>1. PICK r : r = [root.now EXCEPT !.pending = 0]
    BY Zenon
  <2>2. /\ root' = Sure(r) \/ root' = Change(root, r) \/ root' = root
        /\ v = NoWork /\ UNCHANGED <<promised, adopted>>
    BY <1>1, <1>14, <2>1, Zenon DEF Open
  <2>3. 0 \in Nat
    OBVIOUS
  <2>4. RootInv'
    BY <1>1, <1>2, <1>6, <2>1, <2>2, <2>3, PendingKeeps, Zenon DEF PackagesInv
  <2> QED BY <1>5, <1>6, <2>2, <2>4, Zenon
<1> QED BY <1>9, <1>10, <1>11, <1>12, <1>13, <1>14


-----------------------------------------------------------------------------
(* Backup packages. *)

(* Packages are records. *)
LEMMA PackageShape ==
    ASSUME NEW p \in PackageRecords
    PROVE  /\ p = [store |-> p.store, contribution |-> p.contribution, mark |-> p.mark,
                   whole |-> p.whole, done |-> p.done, start |-> p.start, end |-> p.end]
           /\ p.mark \in Cells(Marks) /\ p.whole \in Cells(BOOLEAN) /\ p.done \in BOOLEAN
           /\ p.store \in Databases \cup {None} /\ p.contribution \in Contributions \cup {None}
           /\ p.start \in Nat /\ p.end \in Nat \cup {None} /\ p # None
BY PackagesAssumption DEF PackageRecords

(* What a package is made of. *)
Parts(s, c, m, x, d, b, e) ==
    /\ s \in Databases \cup {None} /\ c \in Contributions \cup {None}
    /\ IsCell(m, Marks) /\ IsCell(x, BOOLEAN) /\ d \in BOOLEAN
    /\ b \in Nat /\ e \in Nat \cup {None}

Package(s, c, m, x, d, b, e) ==
    [store |-> s, contribution |-> c, mark |-> m, whole |-> x, done |-> d, start |-> b,
     end |-> e]

HasParts(p, s, c, m, x, d, b, e) ==
    /\ p \in PackageRecords /\ p.mark.now \in p.mark.may /\ p.whole.now \in p.whole.may
    /\ p.store = s /\ p.contribution = c /\ p.mark = m /\ p.whole = x /\ p.done = d
    /\ p.start = b /\ p.end = e

(* A package has the parts it is made of. *)
LEMMA PackageOf ==
    ASSUME NEW s, NEW c, NEW m, NEW x, NEW d, NEW b, NEW e, Parts(s, c, m, x, d, b, e)
    PROVE  HasParts(Package(s, c, m, x, d, b, e), s, c, m, x, d, b, e)
<1>1. PICK p : p = Package(s, c, m, x, d, b, e)
  OBVIOUS
<1>2. /\ p.store = s /\ p.contribution = c /\ p.mark = m /\ p.whole = x /\ p.done = d
      /\ p.start = b /\ p.end = e
  BY <1>1 DEF Package
<1>3. m \in Cells(Marks) /\ m.now \in m.may /\ x \in Cells(BOOLEAN) /\ x.now \in x.may
  BY Zenon DEF IsCell, Parts
<1>4. p \in PackageRecords
  BY <1>1, <1>3 DEF PackageRecords, Parts, Package
<1>5. HasParts(p, s, c, m, x, d, b, e)
  BY <1>2, <1>3, <1>4, Zenon DEF HasParts
<1> QED BY <1>1, <1>5, Zenon

(* A step of a backup leaves the database, the index and the target, of    *)
(* which there is none yet.                                                *)
LEMMA BackupElsewhere ==
    ASSUME PackagesInv, UNCHANGED <<primary, snap, derivedVars, target>>, target = None,
           NEW p, p = package', p # None, PackageOk(p), NEW v, v = work',
           \/ v.at = "Idle"
           \/ v.at \in BackupSteps /\ BackupAt(v, p, primary.now.sequence)
    PROVE  PackagesInv'
<1>1. UNCHANGED <<primary, snap, root, gens, promised, adopted, target>>
  BY DEF derivedVars
<1>2. /\ v.at \notin CaptureSteps /\ v.at \notin RestoreSteps
      /\ v.at \notin BuildSteps \cup ActivateSteps /\ v.at # "Settle"
      /\ "Idle" \notin BackupSteps
  BY DEF CaptureSteps, BuildSteps, ActivateSteps, BackupSteps, RestoreSteps
<1>3. PrimaryInv' /\ CaptureInv'
  BY <1>1, <1>2, CaptureFrame, Zenon DEF PackagesInv, PrimaryInv
<1>4. GensInv' /\ RootInv'
  BY <1>1, <1>2, GensFrame, RootFrame, Zenon DEF PackagesInv
<1>5. v.at \in BackupSteps => BackupAt(v, p, primary.now.sequence)
  BY <1>2, Zenon
<1>6. PackageInv'
  BY <1>1, <1>5, Zenon DEF PackageInv
<1>7. TargetInv'
  BY <1>1, <1>2, Zenon DEF TargetInv
<1> QED BY <1>3, <1>4, <1>6, <1>7, Zenon DEF PackagesInv

(* Store::backup_with_receipt begins. *)
LEMMA BackupStartKeeps ==
    ASSUME PackagesInv, UNCHANGED <<primary, snap, derivedVars, target>>, BackupStart
    PROVE  PackagesInv'
<1>1. PICK n, v, p : n = primary.now.sequence /\ v = work' /\ p = package'
  OBVIOUS
<1>2. n \in Nat
  <2>1. primary.now \in Databases
    BY DEF PackagesInv, PrimaryInv, IsCell, Cells
  <2> QED BY <1>1, <2>1, DatabaseShape, Zenon
<1>3. target = None
  BY Zenon DEF PackagesInv, TargetInv, BackupStart
<1>4. PICK c \in {None} \union {Contribution(g) : g \in {h \in Range(gens) : Opens(h)}} :
         p = [store |-> None, contribution |-> c, mark |-> Fresh, whole |-> Sure(FALSE),
              done |-> FALSE, start |-> n, end |-> None]
  BY <1>1, Zenon DEF BackupStart
<1>5. c \in Contributions \cup {None} /\ (c # None => c.payload = c.input)
  <2>1. SUFFICES ASSUME c # None PROVE c \in Contributions /\ c.payload = c.input
    BY Zenon
  <2>2. PICK g \in Range(gens) : Opens(g) /\ c = Contribution(g)
    BY <2>1, Zenon
  <2>3. GenOk(g)
    BY <2>2, Zenon DEF PackagesInv, GensInv, Range
  <2>4. g.mark.now = "Complete" /\ g.mark.now \in g.mark.may
    BY <2>2, <2>3, CellShape, Zenon DEF GenOk, Opens
  <2>5. g.payload = g.input /\ g.input \in SUBSET Quads /\ g.source \in Checkpoints
    BY <2>3, <2>4, Zenon DEF GenOk, Typed
  <2>6. c = [payload |-> g.payload, source |-> g.source, input |-> g.input]
    BY <2>2, Zenon DEF Contribution
  <2> QED BY <2>5, <2>6 DEF Contributions
<1>6. /\ p \in PackageRecords /\ p.mark.now \in p.mark.may /\ p.whole.now \in p.whole.may
      /\ p.contribution = c /\ p.mark = Fresh /\ p.done = FALSE /\ p.start = n
  <2>1. p = Package(None, c, Fresh, Sure(FALSE), FALSE, n, None)
    BY <1>4, Zenon DEF Package
  <2>2. FALSE \in BOOLEAN /\ None \in Databases \cup {None} /\ None \in Nat \cup {None}
    OBVIOUS
  <2>3. Parts(None, c, Fresh, Sure(FALSE), FALSE, n, None)
    BY <1>2, <1>5, <2>2, FreshMark, Zenon DEF Parts
  <2>4. HasParts(p, None, c, Fresh, Sure(FALSE), FALSE, n, None)
    BY <2>1, <2>3, PackageOf, Zenon
  <2> QED BY <2>4, Zenon DEF HasParts
<1>7. p # None
  BY <1>6, PackageShape, Zenon
<1>8. PackageOk(p)
  BY <1>5, <1>6, FreshMark, Zenon DEF PackageOk
<1>9. v.at = "BackupCheckpoint"
  BY <1>1 DEF BackupStart, GoTo
<1>10. BackupAt(v, p, n) /\ v.at \in BackupSteps
  <2>1. n <= n
    BY <1>2
  <2> QED BY <1>6, <1>9, <2>1, FreshMark DEF BackupAt, BackupSteps
<1> QED BY <1>1, <1>3, <1>7, <1>8, <1>10, BackupElsewhere, Zenon


(* A package before its receipt is returned. *)
InMaking(p) ==
    \E s, c, m, x, d, b, e :
       /\ p = Package(s, c, m, x, d, b, e) /\ Parts(s, c, m, x, d, b, e)
       /\ HasParts(p, s, c, m, x, d, b, e) /\ d = FALSE

(* A step of a backup has a package to work on, and its parts. *)
LEMMA BackupHas ==
    ASSUME PackagesInv, work.at \in BackupSteps, NEW p, p = package, NEW n,
           n = primary.now.sequence
    PROVE  /\ p # None /\ target = None /\ BackupAt(work, p, n) /\ PackageOk(p) /\ n \in Nat
           /\ primary.now \in Databases /\ InMaking(p)
<1>1. p # None /\ target = None /\ BackupAt(work, p, n) /\ PackageOk(p)
  BY Zenon DEF PackagesInv, PackageInv
<1>2. primary.now \in Databases
  BY DEF PackagesInv, PrimaryInv, IsCell, Cells
<1>3. n \in Nat
  BY <1>2, DatabaseShape, Zenon
<1>4. PICK s, c, m, x, d, b, e :
         /\ s = p.store /\ c = p.contribution /\ m = p.mark /\ x = p.whole /\ d = p.done
         /\ b = p.start /\ e = p.end
  OBVIOUS
<1>5. p \in PackageRecords /\ m.now \in m.may /\ x.now \in x.may
  BY <1>1, <1>4, Zenon DEF PackageOk
<1>6. p = Package(s, c, m, x, d, b, e)
  BY <1>4, <1>5, PackageShape DEF Package
<1>7. Parts(s, c, m, x, d, b, e)
  BY <1>4, <1>5, PackageShape DEF Parts, IsCell
<1>8. HasParts(p, s, c, m, x, d, b, e)
  BY <1>6, <1>7, PackageOf, Zenon
<1>9. d = FALSE
  BY <1>1, <1>4, <1>5, PackageShape DEF BackupAt
<1>10. InMaking(p)
  BY <1>6, <1>7, <1>8, <1>9, Zenon DEF InMaking
<1> QED BY <1>1, <1>2, <1>3, <1>10, Zenon

(* Store::backup_with_receipt: the checkpoint is taken. *)
LEMMA BackupCheckpointKeeps ==
    ASSUME PackagesInv, UNCHANGED <<primary, snap, derivedVars, target>>, BackupCheckpoint
    PROVE  PackagesInv'
<1>1. PICK p, q, n, v : p = package /\ q = package' /\ n = primary.now.sequence /\ v = work'
  OBVIOUS
<1>2. work.at = "BackupCheckpoint" /\ work.at \in BackupSteps
  BY DEF BackupCheckpoint, BackupSteps
<1>3. /\ p # None /\ target = None /\ BackupAt(work, p, n) /\ PackageOk(p) /\ n \in Nat
      /\ primary.now \in Databases
  BY <1>1, <1>2, BackupHas, Zenon
<1>4. PICK s, c, m, x, d, b, e :
         /\ p = Package(s, c, m, x, d, b, e) /\ Parts(s, c, m, x, d, b, e)
         /\ HasParts(p, s, c, m, x, d, b, e) /\ d = FALSE
  <2>1. InMaking(p)
    BY <1>1, <1>2, BackupHas, Zenon
  <2> QED BY <2>1, Zenon DEF InMaking
<1>5. CASE q = p /\ v = NoWork
  <2>1. v.at = "Idle"
    BY <1>5 DEF NoWork
  <2> QED BY <1>1, <1>3, <1>5, <2>1, BackupElsewhere, Zenon
<1>6. CASE /\ c = None \/ check_snapshot(c, [checkpoint |-> Checkpoint(primary.now),
                                             quads |-> primary.now.quads])
           /\ q = [p EXCEPT !.store = primary.now] /\ v = [at |-> "BackupCopy"]
  <2>1. PICK r \in Databases : r = primary.now
    BY <1>3, Zenon
  <2>2. q = Package(r, c, m, x, d, b, e)
    BY <1>4, <1>6, <2>1 DEF Package
  <2>3. Parts(r, c, m, x, d, b, e)
    BY <1>4, Zenon DEF Parts
  <2>4. HasParts(q, r, c, m, x, d, b, e)
    BY <2>2, <2>3, PackageOf, Zenon
  <2>5. "Complete" \notin m.may /\ b <= n /\ (c # None => c.payload = c.input)
    BY <1>2, <1>3, <1>4, Zenon DEF BackupAt, HasParts, PackageOk
  <2>6. c # None => c.payload = r.quads
    BY <1>6, <2>1, <2>5 DEF check_snapshot
  <2>7. q # None /\ PackageOk(q)
    <3>1. q \in PackageRecords
      BY <2>4, Zenon DEF HasParts
    <3>2. q # None
      BY <3>1, PackagesAssumption, Zenon
    <3> QED BY <1>4, <2>4, <2>5, <3>2, Zenon DEF HasParts, PackageOk
  <2>8. Stored(q) /\ q.store.sequence <= n
    <3>1. r.sequence <= n /\ b <= r.sequence
      BY <1>1, <1>3, <2>1, <2>5
    <3> QED BY <2>4, <2>6, <3>1, Zenon DEF HasParts, Stored
  <2>9. ~q.done /\ "Complete" \notin q.mark.may
    BY <1>4, <2>4, <2>5, Zenon DEF HasParts
  <2>10. v.at = "BackupCopy"
    BY <1>6
  <2>11. v.at \in BackupSteps /\ BackupAt(v, q, n)
    BY <2>8, <2>9, <2>10 DEF BackupAt, BackupSteps
  <2> QED BY <1>1, <1>3, <2>7, <2>11, BackupElsewhere, Zenon
<1>7. p.contribution = c
  BY <1>4, Zenon DEF HasParts
<1> QED BY <1>1, <1>5, <1>6, <1>7, Zenon DEF BackupCheckpoint, GoTo


(* Store::backup_with_receipt: the files, the manifest and its rename. *)
LEMMA BackupStepKeeps ==
    ASSUME PackagesInv, UNCHANGED <<primary, snap, derivedVars, target>>,
           BackupCopy \/ BackupPending \/ BackupRename \/ BackupFinish \/ BackupFail
    PROVE  PackagesInv'
<1>1. PICK p, q, n, v : p = package /\ q = package' /\ n = primary.now.sequence /\ v = work'
  OBVIOUS
<1>2. work.at \in BackupSteps
  BY DEF BackupCopy, BackupPending, BackupRename, BackupFinish, BackupFail, BackupSteps
<1>3. /\ p # None /\ target = None /\ BackupAt(work, p, n) /\ PackageOk(p) /\ n \in Nat
  BY <1>1, <1>2, BackupHas, Zenon
<1>4. PICK s, c, m, x, d, b, e :
         /\ p = Package(s, c, m, x, d, b, e) /\ Parts(s, c, m, x, d, b, e)
         /\ HasParts(p, s, c, m, x, d, b, e) /\ d = FALSE
  <2>1. InMaking(p)
    BY <1>1, <1>2, BackupHas, Zenon
  <2> QED BY <2>1, Zenon DEF InMaking
<1>5. /\ IsCell(m, Marks) /\ IsCell(x, BOOLEAN) /\ (c # None => c.payload = c.input)
      /\ TRUE \in BOOLEAN /\ d \in BOOLEAN
  BY <1>3, <1>4, Zenon DEF Parts, HasParts, PackageOk
<1>6. ASSUME NEW k, NEW y, NEW f, NEW g, q = Package(s, c, k, y, f, b, g),
             IsCell(k, Marks), IsCell(y, BOOLEAN), f \in BOOLEAN, g \in Nat,
             "Complete" \in k.may => y = Sure(TRUE) /\ Stored(p) /\ s.sequence <= g,
             f => k = Sure("Complete"),
             \/ v.at = "Idle"
             \/ v.at \in BackupSteps /\ (HasParts(q, s, c, k, y, f, b, g) => BackupAt(v, q, n))
      PROVE  PackagesInv'
  <2>1. Parts(s, c, k, y, f, b, g)
    BY <1>4, <1>6, Zenon DEF Parts
  <2>2. HasParts(q, s, c, k, y, f, b, g)
    BY <1>6, <2>1, PackageOf, Zenon
  <2>3. q \in PackageRecords
    BY <2>2, Zenon DEF HasParts
  <2>4. q # None
    BY <2>3, PackagesAssumption, Zenon
  <2>5. Stored(p) => Stored(q)
    BY <1>4, <2>2, Zenon DEF HasParts, Stored
  <2>6. PackageOk(q)
    BY <1>5, <1>6, <2>2, <2>5, Zenon DEF HasParts, PackageOk
  <2> QED BY <1>1, <1>3, <1>6, <2>2, <2>4, <2>6, BackupElsewhere, Zenon
<1>7. ASSUME NEW k, NEW y, NEW f, NEW g, HasParts(q, s, c, k, y, f, b, g), Stored(p)
      PROVE  Stored(q) /\ q.mark = k /\ q.whole = y /\ q.done = f /\ q.end = g /\ q.store = s
  BY <1>4, <1>7, Zenon DEF HasParts, Stored
<1>8. Stored(p) => s.sequence \in Nat
  BY <1>4, DatabaseShape, Zenon DEF Stored, HasParts
<1>9. CASE BackupCopy
  <2>1. /\ work.at = "BackupCopy" /\ v.at = "BackupPending" /\ v.at \in BackupSteps
    BY <1>1, <1>9 DEF BackupCopy, GoTo, BackupSteps
  <2>2. Stored(p) /\ s.sequence <= n /\ "Complete" \notin m.may
    BY <1>3, <1>4, <2>1 DEF BackupAt, HasParts
  <2>3. PICK y : y = Change(x, TRUE)
    BY Zenon
  <2>4. IsCell(y, BOOLEAN) /\ y.now = TRUE
    BY <1>5, <2>3, ChangeCell, Zenon
  <2>5. q = Package(s, c, m, y, d, b, n)
    <3>1. q = [p EXCEPT !.whole = Change(p.whole, TRUE), !.end = n]
      BY <1>1, <1>9, Zenon DEF BackupCopy
    <3>2. p.whole = x
      BY <1>4, Zenon DEF HasParts
    <3> QED BY <1>4, <2>3, <3>1, <3>2, Zenon DEF Package
  <2>6. HasParts(q, s, c, m, y, d, b, n) => BackupAt(v, q, n)
    <3>1. SUFFICES ASSUME HasParts(q, s, c, m, y, d, b, n) PROVE BackupAt(v, q, n)
      OBVIOUS
    <3>2. /\ Stored(q) /\ q.mark = m /\ q.whole = y /\ q.done = d /\ q.end = n /\ q.store = s
      BY <1>7, <2>2, <3>1, Zenon
    <3> QED BY <1>3, <1>4, <2>1, <2>2, <2>4, <3>2 DEF BackupAt
  <2> QED BY <1>3, <1>4, <1>5, <1>6, <2>1, <2>2, <2>4, <2>5, <2>6, Zenon
<1>10. CASE BackupPending
  <2>1. /\ work.at = "BackupPending" /\ v.at = "BackupRename" /\ v.at \in BackupSteps
    BY <1>1, <1>10 DEF BackupPending, GoTo, BackupSteps
  <2>2. Stored(p) /\ e \in Nat /\ s.sequence <= e /\ x.now = TRUE
    BY <1>3, <1>4, <2>1 DEF BackupAt, HasParts
  <2>3. PICK k, y : k = Sure("Pending") /\ y = Sync(x)
    OBVIOUS
  <2>4. IsCell(k, Marks) /\ k.may = {"Pending"}
    BY <2>3, SureCell, Zenon DEF Marks
  <2>5. IsCell(y, BOOLEAN) /\ y = Sure(TRUE)
    BY <1>5, <2>2, <2>3, SyncCell, Zenon
  <2>6. q = Package(s, c, k, y, d, b, e)
    <3>1. q = [p EXCEPT !.mark = k, !.whole = Sync(p.whole)]
      BY <1>1, <1>10, <2>3, Zenon DEF BackupPending
    <3>2. p.whole = x
      BY <1>4, Zenon DEF HasParts
    <3> QED BY <1>4, <2>3, <3>1, <3>2, Zenon DEF Package
  <2>7. "Complete" \notin k.may
    BY <2>4
  <2>8. HasParts(q, s, c, k, y, d, b, e) => BackupAt(v, q, n)
    <3>1. SUFFICES ASSUME HasParts(q, s, c, k, y, d, b, e) PROVE BackupAt(v, q, n)
      OBVIOUS
    <3>2. /\ Stored(q) /\ q.mark = k /\ q.whole = y /\ q.done = d /\ q.end = e /\ q.store = s
      BY <1>7, <2>2, <3>1, Zenon
    <3> QED BY <1>4, <2>1, <2>2, <2>3, <2>5, <3>2 DEF BackupAt
  <2> QED BY <1>4, <1>5, <1>6, <2>1, <2>2, <2>4, <2>5, <2>6, <2>7, <2>8, Zenon
<1>11. CASE BackupRename
  <2>1. /\ work.at = "BackupRename" /\ v.at = "BackupFinish" /\ v.at \in BackupSteps
    BY <1>1, <1>11 DEF BackupRename, GoTo, BackupSteps
  <2>2. Stored(p) /\ e \in Nat /\ s.sequence <= e /\ x = Sure(TRUE)
    BY <1>3, <1>4, <2>1 DEF BackupAt, HasParts
  <2>3. PICK k : k = Change(m, "Complete")
    OBVIOUS
  <2>4. IsCell(k, Marks) /\ k.now = "Complete"
    BY <1>5, <2>3, ChangeCell DEF Marks
  <2>5. q = Package(s, c, k, x, d, b, e)
    <3>1. q = [p EXCEPT !.mark = Change(p.mark, "Complete")]
      BY <1>1, <1>11, Zenon DEF BackupRename
    <3>2. p.mark = m
      BY <1>4, Zenon DEF HasParts
    <3> QED BY <1>4, <2>3, <3>1, <3>2 DEF Package
  <2>6. HasParts(q, s, c, k, x, d, b, e) => BackupAt(v, q, n)
    <3>1. SUFFICES ASSUME HasParts(q, s, c, k, x, d, b, e) PROVE BackupAt(v, q, n)
      OBVIOUS
    <3>2. /\ Stored(q) /\ q.mark = k /\ q.whole = x /\ q.done = d /\ q.end = e /\ q.store = s
      BY <1>7, <2>2, <3>1, Zenon
    <3> QED BY <1>4, <2>1, <2>2, <2>4, <3>2 DEF BackupAt
  <2> QED BY <1>4, <1>5, <1>6, <2>1, <2>2, <2>4, <2>5, <2>6, Zenon
<1>12. CASE BackupFinish
  <2>1. work.at = "BackupFinish" /\ v.at = "Idle"
    BY <1>1, <1>12 DEF BackupFinish, NoWork
  <2>2. Stored(p) /\ e \in Nat /\ s.sequence <= e /\ m.now = "Complete"
    BY <1>3, <1>4, <2>1 DEF BackupAt, HasParts
  <2>3. m.now \in m.may /\ p.mark = m /\ p.whole = x
    BY <1>4, <1>5, CellShape, Zenon DEF HasParts
  <2>4. x = Sure(TRUE)
    BY <1>3, <2>2, <2>3, Zenon DEF PackageOk
  <2>5. PICK k : k = Sync(m)
    OBVIOUS
  <2>6. IsCell(k, Marks) /\ k = Sure("Complete")
    BY <1>5, <2>2, <2>5, SyncCell
  <2>7. q = Package(s, c, k, x, TRUE, b, e)
    <3>1. q = [p EXCEPT !.mark = Sync(p.mark), !.done = TRUE]
      BY <1>1, <1>12, Zenon DEF BackupFinish
    <3> QED BY <1>4, <2>3, <2>5, <3>1, Zenon DEF Package
  <2> QED BY <1>5, <1>6, <2>1, <2>2, <2>4, <2>6, <2>7, Zenon
<1>13. CASE BackupFail
  <2>1. q = p /\ v.at = "Idle"
    BY <1>1, <1>13 DEF BackupFail, NoWork
  <2> QED BY <1>1, <1>3, <2>1, BackupElsewhere, Zenon
<1> QED BY <1>9, <1>10, <1>11, <1>12, <1>13



-----------------------------------------------------------------------------
(* Restore targets. *)

Target(s, c, m, x, d, u) ==
    [store |-> s, contribution |-> c, mark |-> m, whole |-> x, done |-> d, used |-> u]

HasFields(t, s, c, m, x, d, u) ==
    /\ t = [store |-> t.store, contribution |-> t.contribution, mark |-> t.mark,
            whole |-> t.whole, done |-> t.done, used |-> t.used]
    /\ t.store = s /\ t.contribution = c /\ t.mark = m /\ t.whole = x /\ t.done = d
    /\ t.used = u

(* A target has the fields it is made of. *)
LEMMA TargetOf ==
    ASSUME NEW s, NEW c, NEW m, NEW x, NEW d, NEW u
    PROVE  HasFields(Target(s, c, m, x, d, u), s, c, m, x, d, u)
BY DEF Target, HasFields

(* A step of a restore leaves the database, the index and the package. *)
LEMMA RestoreElsewhere ==
    ASSUME PackagesInv, UNCHANGED <<primary, snap, derivedVars, package>>, package # None,
           NEW t, t = target', TargetOk(t), t.store = package.store, NEW v, v = work',
           v.at = "Idle" \/ (v.at \in RestoreSteps /\ RestoreAt(v, t))
    PROVE  PackagesInv'
<1>1. UNCHANGED <<primary, snap, root, gens, promised, adopted, package>>
  BY DEF derivedVars
<1>2. /\ v.at \notin CaptureSteps /\ v.at \notin BackupSteps
      /\ v.at \notin BuildSteps \cup ActivateSteps /\ v.at # "Settle"
      /\ "Idle" \notin RestoreSteps
  BY DEF CaptureSteps, BuildSteps, ActivateSteps, BackupSteps, RestoreSteps
<1>3. PrimaryInv' /\ CaptureInv'
  BY <1>1, <1>2, CaptureFrame, Zenon DEF PackagesInv, PrimaryInv
<1>4. GensInv' /\ RootInv'
  BY <1>1, <1>2, GensFrame, RootFrame, Zenon DEF PackagesInv
<1>5. PackageInv'
  BY <1>1, <1>2, <1>3, PackageFrame, Zenon DEF PackagesInv
<1>6. v.at \in RestoreSteps => RestoreAt(v, t)
  BY <1>2, Zenon
<1>7. TargetInv'
  BY <1>1, <1>6, Zenon DEF TargetInv
<1> QED BY <1>3, <1>4, <1>5, <1>7, Zenon DEF PackagesInv

(* Store::restore_backup begins, from a package that verifies. *)
LEMMA RestoreStartKeeps ==
    ASSUME PackagesInv, UNCHANGED <<primary, snap, derivedVars, package>>, RestoreStart
    PROVE  PackagesInv'
<1>1. PICK p, t, v : p = package /\ t = target' /\ v = work'
  OBVIOUS
<1>2. p # None /\ p.mark.now = "Complete" /\ PackageOk(p)
  BY <1>1, Zenon DEF PackagesInv, PackageInv, RestoreStart, Verifies
<1>3. p.store \in Databases
  BY <1>2, Zenon DEF PackageOk, Stored
<1>4. t = Target(p.store, p.contribution, Fresh, Sure(FALSE), FALSE, FALSE)
  BY <1>1, Zenon DEF RestoreStart, Target
<1>5. HasFields(t, p.store, p.contribution, Fresh, Sure(FALSE), FALSE, FALSE)
  BY <1>4, TargetOf, Zenon
<1>6. IsCell(Fresh, TargetMarks)
  BY FreshMark DEF IsCell, Cells, Marks, TargetMarks
<1>7. TargetOk(t)
  BY <1>3, <1>5, <1>6, FreshMark, Zenon DEF TargetOk, HasFields
<1>8. v.at = "RestoreCopy"
  BY <1>1 DEF RestoreStart, GoTo
<1>9. t.done = FALSE /\ "Complete" \notin t.mark.may /\ t.store = p.store
  BY <1>5, FreshMark, Zenon DEF HasFields
<1>10. v.at \in RestoreSteps /\ RestoreAt(v, t)
  BY <1>8, <1>9 DEF RestoreSteps, RestoreAt
<1> QED BY <1>1, <1>2, <1>7, <1>9, <1>10, RestoreElsewhere, Zenon

(* Store::restore_backup: the files, the records and their renames. *)
LEMMA RestoreStepKeeps ==
    ASSUME PackagesInv, UNCHANGED <<primary, snap, derivedVars, package>>,
           RestoreCopy \/ RestoreSource \/ RestorePending \/ RestoreRename \/ RestoreFinish
              \/ RestoreFail
    PROVE  PackagesInv'
<1>1. PICK o, t, v : o = target /\ t = target' /\ v = work'
  OBVIOUS
<1>2. work.at \in RestoreSteps
  BY DEF RestoreCopy, RestoreSource, RestorePending, RestoreRename, RestoreFinish, RestoreFail,
         RestoreSteps
<1>3. TargetOk(o) /\ package # None /\ o.store = package.store /\ RestoreAt(work, o)
  BY <1>1, <1>2, Zenon DEF PackagesInv, TargetInv
<1>4. PICK s, c, m, x, d, u :
         /\ s = o.store /\ c = o.contribution /\ m = o.mark /\ x = o.whole /\ d = o.done
         /\ u = o.used
  OBVIOUS
<1>5. o = Target(s, c, m, x, d, u)
  BY <1>3, <1>4, Zenon DEF TargetOk, Target
<1>6. /\ IsCell(m, TargetMarks) /\ IsCell(x, BOOLEAN) /\ s \in Databases /\ d = FALSE
      /\ TRUE \in BOOLEAN /\ s = package.store
  BY <1>3, <1>4, Zenon DEF TargetOk, RestoreAt
<1>7. ASSUME NEW k, NEW y, NEW f, t = Target(s, c, k, y, f, u),
             IsCell(k, TargetMarks), IsCell(y, BOOLEAN),
             "Complete" \in k.may => y = Sure(TRUE), f => k = Sure("Complete"),
             \/ v.at = "Idle"
             \/ /\ v.at \in RestoreSteps
                /\ t.mark = k /\ t.whole = y /\ t.done = f => RestoreAt(v, t)
      PROVE  PackagesInv'
  <2>1. HasFields(t, s, c, k, y, f, u)
    BY <1>7, TargetOf, Zenon
  <2>2. TargetOk(t)
    BY <1>6, <1>7, <2>1, Zenon DEF TargetOk, HasFields
  <2>3. t.mark = k /\ t.whole = y /\ t.done = f /\ t.store = package.store
    BY <1>6, <2>1, Zenon DEF HasFields
  <2> QED BY <1>1, <1>3, <1>7, <2>2, <2>3, RestoreElsewhere, Zenon
<1>8. CASE RestoreCopy
  <2>1. work.at = "RestoreCopy" /\ v.at = "RestoreSource" /\ v.at \in RestoreSteps
    BY <1>1, <1>8 DEF RestoreCopy, GoTo, RestoreSteps
  <2>2. "Complete" \notin m.may
    BY <1>3, <1>4, <2>1 DEF RestoreAt
  <2>3. PICK k, y : k = Change(m, "Manifest") /\ y = Change(x, TRUE)
    BY Zenon
  <2>4. IsCell(k, TargetMarks) /\ k.may = m.may \cup {"Manifest"}
    BY <1>6, <2>3, ChangeCell DEF TargetMarks
  <2>5. IsCell(y, BOOLEAN) /\ y.now = TRUE
    BY <1>6, <2>3, ChangeCell, Zenon
  <2>6. "Complete" \notin k.may
    BY <2>2, <2>4
  <2>7. t = Target(s, c, k, y, d, u)
    <3>1. t = [o EXCEPT !.whole = Change(o.whole, TRUE), !.mark = Change(o.mark, "Manifest")]
      BY <1>1, <1>8, Zenon DEF RestoreCopy
    <3> QED BY <1>4, <1>5, <2>3, <3>1, Zenon DEF Target
  <2>8. t.mark = k /\ t.whole = y /\ t.done = d => RestoreAt(v, t)
    BY <1>6, <2>1, <2>5, <2>6 DEF RestoreAt
  <2> QED BY <1>6, <1>7, <2>1, <2>4, <2>5, <2>6, <2>7, <2>8, Zenon
<1>9. CASE RestoreSource
  <2>1. work.at = "RestoreSource" /\ v.at = "RestorePending" /\ v.at \in RestoreSteps
    BY <1>1, <1>9 DEF RestoreSource, GoTo, RestoreSteps
  <2>2. x.now = TRUE
    BY <1>3, <1>4, <2>1 DEF RestoreAt
  <2>3. PICK k, y : k = Sure("Source") /\ y = Sync(x)
    OBVIOUS
  <2>4. IsCell(k, TargetMarks)
    BY <2>3, SureCell DEF TargetMarks
  <2>5. IsCell(y, BOOLEAN) /\ y = Sure(TRUE)
    BY <1>6, <2>2, <2>3, SyncCell, Zenon
  <2>6. t = Target(s, c, k, y, d, u)
    <3>1. t = [o EXCEPT !.mark = k, !.whole = Sync(o.whole)]
      BY <1>1, <1>9, <2>3, Zenon DEF RestoreSource
    <3> QED BY <1>4, <1>5, <2>3, <3>1, Zenon DEF Target
  <2>7. t.mark = k /\ t.whole = y /\ t.done = d => RestoreAt(v, t)
    BY <1>6, <2>1, <2>3, <2>5 DEF RestoreAt
  <2> QED BY <1>6, <1>7, <2>1, <2>4, <2>5, <2>6, <2>7, Zenon
<1>10. CASE RestorePending
  <2>1. work.at = "RestorePending" /\ v.at = "RestoreRename" /\ v.at \in RestoreSteps
    BY <1>1, <1>10 DEF RestorePending, GoTo, RestoreSteps
  <2>2. x = Sure(TRUE)
    BY <1>3, <1>4, <2>1, Zenon DEF RestoreAt
  <2>3. PICK k : k = Sure("Pending")
    OBVIOUS
  <2>4. IsCell(k, TargetMarks)
    BY <2>3, SureCell DEF TargetMarks
  <2>5. t = Target(s, c, k, x, d, u)
    <3>1. t = [o EXCEPT !.mark = k]
      BY <1>1, <1>10, <2>3, Zenon DEF RestorePending
    <3> QED BY <1>5, <3>1 DEF Target
  <2>6. t.mark = k /\ t.whole = x /\ t.done = d => RestoreAt(v, t)
    BY <1>6, <2>1, <2>2, <2>3 DEF RestoreAt
  <2> QED BY <1>6, <1>7, <2>1, <2>2, <2>4, <2>5, <2>6, Zenon
<1>11. CASE RestoreRename
  <2>1. work.at = "RestoreRename" /\ v.at = "RestoreFinish" /\ v.at \in RestoreSteps
    BY <1>1, <1>11 DEF RestoreRename, GoTo, RestoreSteps
  <2>2. x = Sure(TRUE)
    BY <1>3, <1>4, <2>1, Zenon DEF RestoreAt
  <2>3. PICK k : k = Change(m, "Complete")
    OBVIOUS
  <2>4. IsCell(k, TargetMarks) /\ k.now = "Complete"
    BY <1>6, <2>3, ChangeCell DEF TargetMarks
  <2>5. t = Target(s, c, k, x, d, u)
    <3>1. t = [o EXCEPT !.mark = Change(o.mark, "Complete")]
      BY <1>1, <1>11, Zenon DEF RestoreRename
    <3> QED BY <1>4, <1>5, <2>3, <3>1 DEF Target
  <2>6. t.mark = k /\ t.whole = x /\ t.done = d => RestoreAt(v, t)
    BY <1>6, <2>1, <2>2, <2>4 DEF RestoreAt
  <2> QED BY <1>6, <1>7, <2>1, <2>2, <2>4, <2>5, <2>6, Zenon
<1>12. CASE RestoreFinish
  <2>1. work.at = "RestoreFinish" /\ v.at = "Idle"
    BY <1>1, <1>12 DEF RestoreFinish, NoWork
  <2>2. m.now = "Complete"
    BY <1>3, <1>4, <2>1 DEF RestoreAt
  <2>3. m.now \in m.may
    BY <1>6, CellShape, Zenon
  <2>4. x = Sure(TRUE)
    BY <1>3, <1>4, <2>2, <2>3, Zenon DEF TargetOk
  <2>5. PICK k : k = Sync(m)
    OBVIOUS
  <2>6. IsCell(k, TargetMarks) /\ k = Sure("Complete")
    BY <1>6, <2>2, <2>5, SyncCell
  <2>7. t = Target(s, c, k, x, TRUE, u)
    <3>1. t = [o EXCEPT !.mark = Sync(o.mark), !.done = TRUE]
      BY <1>1, <1>12, Zenon DEF RestoreFinish
    <3> QED BY <1>4, <1>5, <2>5, <3>1, Zenon DEF Target
  <2> QED BY <1>6, <1>7, <2>1, <2>4, <2>6, <2>7, Zenon
<1>13. CASE RestoreFail
  <2>1. t = o /\ v.at = "Idle"
    BY <1>1, <1>13 DEF RestoreFail, NoWork
  <2> QED BY <1>1, <1>3, <2>1, RestoreElsewhere, Zenon
<1> QED BY <1>8, <1>9, <1>10, <1>11, <1>12, <1>13



-----------------------------------------------------------------------------
(* The restored database in the place of the primary, and restarts. *)

(* No call is at work. *)
LEMMA Idle ==
    ASSUME NEW w, w = NoWork
    PROVE  /\ w.at = "Idle" /\ w.at \notin CaptureSteps /\ w.at \notin BackupSteps
           /\ w.at \notin RestoreSteps /\ w.at \notin BuildSteps \cup ActivateSteps
           /\ w.at \notin BuildSteps /\ w.at # "Settle" /\ \A p : CaptureAt(w, p)
<1>1. w.at = "Idle"
  BY DEF NoWork
<1>2. \A p : CaptureAt(w, p)
  BY <1>1 DEF CaptureAt
<1> QED BY <1>1, <1>2
        DEF CaptureSteps, BackupSteps, RestoreSteps, BuildSteps, ActivateSteps

(* Store::open of the restored database. *)
LEMMA UseRestoredKeeps ==
    ASSUME PackagesInv, UseRestored, UNCHANGED <<work, derivedVars, package, budget>>
    PROVE  PackagesInv'
<1>1. PICK o, t, v : o = target /\ t = target' /\ v = work'
  OBVIOUS
<1>2. UNCHANGED <<work, root, gens, promised, adopted, package>> /\ v = NoWork
  BY <1>1 DEF derivedVars, UseRestored
<1>3. o # None /\ TargetOk(o) /\ package # None /\ o.store = package.store
  BY <1>1, Zenon DEF UseRestored, Restored, PackagesInv, TargetInv
<1>4. primary' = Sure(o.store) /\ o.store \in Databases
  BY <1>1, <1>3, Zenon DEF UseRestored, TargetOk
<1>5. PrimaryInv'
  <2>1. PICK c : c = primary'
    OBVIOUS
  <2>2. IsCell(c, Databases)
    BY <1>4, <2>1, SureCell, Zenon
  <2> QED BY <2>1, <2>2, Zenon DEF PrimaryInv, IsCell, Cells, Databases, Commits
<1>6. CaptureInv'
  BY <1>1, <1>2, Idle, Zenon DEF CaptureInv, UseRestored
<1>7. GensInv' /\ RootInv'
  BY <1>2, GensFrame, RootFrame, Zenon DEF PackagesInv
<1>8. PackageInv'
  BY <1>1, <1>2, <1>5, Idle, PackageFrame, Zenon DEF PackagesInv
<1>9. TargetOk(t) /\ t.store = o.store
  <2>1. PICK s, c, m, x, d, u :
           /\ s = o.store /\ c = o.contribution /\ m = o.mark /\ x = o.whole /\ d = o.done
           /\ u = o.used
    OBVIOUS
  <2>2. o = Target(s, c, m, x, d, u)
    BY <1>3, <2>1, Zenon DEF TargetOk, Target
  <2>3. t = [o EXCEPT !.used = TRUE]
    BY <1>1, Zenon DEF UseRestored
  <2>4. t = Target(s, c, m, x, d, TRUE)
    BY <2>2, <2>3, Zenon DEF Target
  <2>5. HasFields(t, s, c, m, x, d, TRUE)
    BY <2>4, TargetOf, Zenon
  <2> QED BY <1>3, <2>1, <2>5, Zenon DEF TargetOk, HasFields
<1>10. TargetInv'
  BY <1>1, <1>2, <1>3, <1>9, Idle, Zenon DEF TargetInv
<1> QED BY <1>5, <1>6, <1>7, <1>8, <1>10, Zenon DEF PackagesInv

(* The process ends. *)
LEMMA ExitKeeps ==
    ASSUME PackagesInv, Exit
    PROVE  PackagesInv'
<1>1. /\ UNCHANGED <<primary, root, gens, package, target, promised, adopted>>
      /\ snap' = None /\ work' = NoWork
  BY DEF Exit, PrimaryExit, DerivedExit
<1>2. PrimaryInv'
  BY <1>1, Zenon DEF PackagesInv, PrimaryInv
<1>3. CaptureInv'
  BY <1>1, Idle, Zenon DEF CaptureInv
<1>4. GensInv' /\ RootInv'
  BY <1>1, Idle, GensFrame, RootFrame, Zenon DEF PackagesInv
<1>5. PackageInv' /\ TargetInv'
  BY <1>1, <1>2, Idle, PackageFrame, TargetFrame, Zenon DEF PackagesInv
<1> QED BY <1>2, <1>3, <1>4, <1>5, Zenon DEF PackagesInv

(* What a power loss leaves of a mark and of the files. *)
LEMMA LostCells ==
    ASSUME NEW V, NEW m, IsCell(m, V), NEW x, IsCell(x, BOOLEAN),
           "Complete" \in m.may => x = Sure(TRUE),
           NEW k \in Survivors(m), NEW y \in Survivors(x)
    PROVE  /\ IsCell(k, V) /\ IsCell(y, BOOLEAN)
           /\ "Complete" \in k.may => "Complete" \in m.may /\ y = Sure(TRUE)
           /\ m = Sure("Complete") => k = Sure("Complete")
<1>1. /\ IsCell(k, V) /\ k.may = {k.now} /\ k.now \in m.may
      /\ \A v : m = Sure(v) => k = Sure(v)
  BY SurvivorCell
<1>2. IsCell(y, BOOLEAN) /\ \A v : x = Sure(v) => y = Sure(v)
  BY SurvivorCell, Zenon
<1>3. "Complete" \in k.may => "Complete" \in m.may
  BY <1>1
<1> QED BY <1>1, <1>2, <1>3, Zenon

(* A generation after a power loss. *)
LEMMA LostGen ==
    ASSUME NEW g, GenOk(g), NEW h \in Lost(g)
    PROVE  GenOk(h) /\ (g.mark = Sure("Complete") => h.mark = Sure("Complete"))
<1>1. PICK m \in Survivors(g.mark), x \in Survivors(g.whole) : h = Left(g, m, x)
  BY SMT DEF Lost
<1>2. PICK a, b, p, s, i :
         a = g.mark /\ b = g.whole /\ p = g.payload /\ s = g.source /\ i = g.input
  OBVIOUS
<1>3. g = [mark |-> a, whole |-> b, payload |-> p, source |-> s, input |-> i]
  BY <1>2, Zenon DEF GenOk
<1>4. h = [mark |-> m, whole |-> x, payload |-> p, source |-> s, input |-> i]
  BY <1>1, <1>3, Zenon DEF Left
<1>5. h.mark = m /\ h.whole = x /\ h.payload = p /\ h.source = s /\ h.input = i
  BY <1>4
<1>6. IsCell(g.mark, Marks) /\ IsCell(g.whole, BOOLEAN)
  BY Zenon DEF GenOk
<1>7. "Complete" \in g.mark.may => g.whole = Sure(TRUE)
  BY Zenon DEF GenOk
<1>8. /\ IsCell(m, Marks) /\ IsCell(x, BOOLEAN)
      /\ "Complete" \in m.may => "Complete" \in g.mark.may /\ x = Sure(TRUE)
      /\ g.mark = Sure("Complete") => m = Sure("Complete")
  BY <1>6, <1>7, LostCells, Zenon
<1>9. "Complete" \in m.may => h.payload = h.input /\ Typed(h)
  BY <1>2, <1>5, <1>8, Zenon DEF GenOk, Typed
<1> QED BY <1>4, <1>5, <1>8, <1>9, Zenon DEF GenOk

(* The generations after a power loss. *)
LEMMA LossKeepsGens ==
    ASSUME GensInv, DerivedLoss, work' = NoWork
    PROVE  /\ GensInv' /\ Len(gens') = Len(gens)
           /\ \A i \in DOMAIN gens :
                 gens[i].mark = Sure("Complete") => gens'[i].mark = Sure("Complete")
<1>1. PICK s, n : s = gens' /\ n = Len(gens)
  BY Zenon
<1>2. n \in Nat /\ DOMAIN gens = 1..n
  BY <1>1, GensShape, Zenon
<1>3. PICK R : s \in [DOMAIN gens -> R] /\ \A i \in DOMAIN gens : s[i] \in Lost(gens[i])
  BY <1>1, Zenon DEF DerivedLoss
<1>4. s = [i \in 1..n |-> s[i]]
  BY <1>2, <1>3
<1>5. s \in Seq(Range(s)) /\ Len(s) = n /\ DOMAIN s = 1..n
  BY <1>2, <1>4, Sequence, Zenon
<1>6. \A i \in DOMAIN gens :
         GenOk(s[i]) /\ (gens[i].mark = Sure("Complete") => s[i].mark = Sure("Complete"))
  BY <1>3, LostGen, Zenon DEF GensInv
<1>7. PICK w : w = work'
  OBVIOUS
<1>8. w.at \notin BuildSteps \cup ActivateSteps /\ w.at \notin BuildSteps
  BY <1>7, Idle, Zenon
<1>9. GensInv'
  BY <1>1, <1>2, <1>5, <1>6, <1>7, <1>8, Zenon DEF GensInv
<1> QED BY <1>1, <1>5, <1>6, <1>9, Zenon


(* A package after a power loss. *)
LEMMA LostPackageOk ==
    ASSUME NEW p, PackageOk(p), NEW q \in Lost(p)
    PROVE  q # None /\ PackageOk(q) /\ q.store = p.store
<1>1. PICK k \in Survivors(p.mark), y \in Survivors(p.whole) : q = Left(p, k, y)
  BY SMT DEF Lost
<1>2. PICK s, c, m, x, d, b, e :
         /\ s = p.store /\ c = p.contribution /\ m = p.mark /\ x = p.whole /\ d = p.done
         /\ b = p.start /\ e = p.end
  OBVIOUS
<1>3. p \in PackageRecords /\ m.now \in m.may /\ x.now \in x.may
  BY <1>2, Zenon DEF PackageOk
<1>4. p = Package(s, c, m, x, d, b, e)
  BY <1>2, <1>3, PackageShape DEF Package
<1>5. Parts(s, c, m, x, d, b, e)
  BY <1>2, <1>3, PackageShape DEF Parts, IsCell
<1>6. IsCell(m, Marks) /\ IsCell(x, BOOLEAN) /\ ("Complete" \in m.may => x = Sure(TRUE))
  BY <1>2, <1>5, Zenon DEF Parts, PackageOk
<1>7. k \in Survivors(m) /\ y \in Survivors(x)
  BY <1>2, Zenon
<1>8. /\ IsCell(k, Marks) /\ IsCell(y, BOOLEAN)
      /\ "Complete" \in k.may => "Complete" \in m.may /\ y = Sure(TRUE)
      /\ m = Sure("Complete") => k = Sure("Complete")
  BY <1>6, <1>7, LostCells, Zenon
<1>9. q = Package(s, c, k, y, d, b, e)
  BY <1>1, <1>4, Zenon DEF Left, Package
<1>10. Parts(s, c, k, y, d, b, e)
  BY <1>5, <1>8, Zenon DEF Parts
<1>11. HasParts(q, s, c, k, y, d, b, e)
  BY <1>9, <1>10, PackageOf, Zenon
<1>12. q \in PackageRecords
  BY <1>11, Zenon DEF HasParts
<1>13. q # None
  BY <1>12, PackagesAssumption, Zenon
<1>14. Stored(p) => Stored(q)
  BY <1>2, <1>11, Zenon DEF Stored, HasParts
<1>15. PackageOk(q)
  BY <1>2, <1>8, <1>11, <1>14, Zenon DEF PackageOk, HasParts
<1> QED BY <1>2, <1>11, <1>13, <1>15, Zenon DEF HasParts

(* A target after a power loss. *)
LEMMA LostTargetOk ==
    ASSUME NEW t, TargetOk(t), NEW h \in Lost(t)
    PROVE  TargetOk(h) /\ h.store = t.store
<1>1. PICK k \in Survivors(t.mark), y \in Survivors(t.whole) : h = Left(t, k, y)
  BY SMT DEF Lost
<1>2. PICK s, c, m, x, d, u :
         /\ s = t.store /\ c = t.contribution /\ m = t.mark /\ x = t.whole /\ d = t.done
         /\ u = t.used
  OBVIOUS
<1>3. t = Target(s, c, m, x, d, u)
  BY <1>2, Zenon DEF TargetOk, Target
<1>4. /\ IsCell(m, TargetMarks) /\ IsCell(x, BOOLEAN)
      /\ "Complete" \in m.may => x = Sure(TRUE)
      /\ k \in Survivors(m) /\ y \in Survivors(x)
  BY <1>2, Zenon DEF TargetOk
<1>5. /\ IsCell(k, TargetMarks) /\ IsCell(y, BOOLEAN)
      /\ "Complete" \in k.may => "Complete" \in m.may /\ y = Sure(TRUE)
      /\ m = Sure("Complete") => k = Sure("Complete")
  BY <1>4, LostCells, Zenon
<1>6. h = Target(s, c, k, y, d, u)
  BY <1>1, <1>3, Zenon DEF Left, Target
<1>7. HasFields(h, s, c, k, y, d, u)
  BY <1>6, TargetOf, Zenon
<1> QED BY <1>2, <1>5, <1>7, Zenon DEF TargetOk, HasFields

(* The power fails. *)
LEMMA PowerLossKeeps ==
    ASSUME PackagesInv, PowerLoss
    PROVE  PackagesInv'
<1>1. /\ snap' = None /\ work' = NoWork /\ UNCHANGED <<promised, adopted>>
      /\ primary' \in Survivors(primary) /\ root' \in Survivors(root) /\ DerivedLoss
      /\ package' \in LostPackage(package) /\ target' \in LostPackage(target)
  BY DEF PowerLoss, PrimaryExit, DerivedExit, DerivedLoss
<1>2. PrimaryInv'
  <2>1. PICK c, d : c = primary /\ d = primary'
    OBVIOUS
  <2>2. IsCell(c, Databases) /\ d \in Survivors(c)
    BY <1>1, <2>1, Zenon DEF PackagesInv, PrimaryInv
  <2>3. IsCell(d, Databases)
    BY <2>2, SurvivorCell, Zenon
  <2> QED BY <2>1, <2>3, Zenon DEF PrimaryInv, IsCell, Cells, Databases, Commits
<1>3. CaptureInv'
  BY <1>1, Idle, Zenon DEF CaptureInv
<1>4. /\ GensInv' /\ Len(gens') = Len(gens)
      /\ \A i \in DOMAIN gens :
            gens[i].mark = Sure("Complete") => gens'[i].mark = Sure("Complete")
  BY <1>1, LossKeepsGens, Zenon DEF PackagesInv
<1>5. RootInv'
  <2>1. PICK c, d, V : c = root /\ d = root' /\ V = [active : Nat, pending : Nat]
    BY Zenon
  <2>2. IsCell(c, V) /\ d \in Survivors(c)
    BY <1>1, <2>1, Zenon DEF PackagesInv, RootInv
  <2>3. IsCell(d, V) /\ d.may = {d.now} /\ d.now \in c.may
    BY <2>2, SurvivorCell, Zenon
  <2>4. \A r \in root.may : PointerOk(r)'
    <3>1. SUFFICES ASSUME NEW r \in root.may PROVE PointerOk(r)'
      OBVIOUS
    <3>2. PICK n \in Nat : n = Len(gens) /\ DOMAIN gens = 1..n
      BY GensShape, Zenon DEF PackagesInv
    <3>3. /\ r.active \in 0..n /\ r.active \in promised
          /\ r.active # 0 /\ r.active \notin adopted => gens[r.active].mark = Sure("Complete")
      BY <3>2, Zenon DEF PackagesInv, RootInv, PointerOk
    <3>4. r.active # 0 => r.active \in 1..n
      BY <3>2, <3>3
    <3> QED BY <1>1, <1>4, <3>2, <3>3, <3>4, Zenon DEF PointerOk
  <2>5. \A r \in root'.may : PointerOk(r)'
    BY <2>1, <2>3, <2>4, Zenon
  <2>6. work'.at # "Settle"
    BY <1>1, Idle, Zenon
  <2> QED BY <2>1, <2>3, <2>5, <2>6, Zenon DEF RootInv
<1>6. PICK p, q, o, t, w : p = package /\ q = package' /\ o = target /\ t = target' /\ w = work'
  OBVIOUS
<1>7. (p = None => q = None) /\ (p # None => q # None /\ PackageOk(q) /\ q.store = p.store)
  BY <1>1, <1>6, LostPackageOk, Zenon DEF LostPackage, PackagesInv, PackageInv
<1>8. PackageInv'
  BY <1>1, <1>6, <1>7, Idle, Zenon DEF PackageInv
<1>9. /\ o = None => t = None
      /\ o # None => TargetOk(t) /\ t.store = o.store /\ p # None /\ o.store = p.store
  BY <1>1, <1>6, LostTargetOk, Zenon DEF LostPackage, PackagesInv, TargetInv
<1>10. w.at \notin RestoreSteps
  BY <1>1, <1>6, Idle, Zenon
<1>11. TargetInv'
  BY <1>6, <1>7, <1>9, <1>10, Zenon DEF TargetInv
<1> QED BY <1>2, <1>3, <1>4, <1>5, <1>8, <1>11, Zenon DEF PackagesInv

-----------------------------------------------------------------------------
(* The theorems. *)

(* The invariant holds when the stores are made. *)
LEMMA PackagesInit == Init => PackagesInv
<1> SUFFICES ASSUME Init PROVE PackagesInv
  OBVIOUS
<1>1. /\ primary = Sure(Genesis) /\ work = NoWork /\ snap = None
      /\ root = Sure([active |-> 0, pending |-> 0]) /\ gens = <<>>
      /\ promised = {0} /\ adopted = {} /\ package = None /\ target = None
  BY DEF Init, PrimaryInit, DerivedInit
<1>2. PrimaryInv
  <2>1. Genesis \in Databases
    BY DEF Genesis, Databases
  <2> QED BY <1>1, <2>1, SureCell, Zenon DEF PrimaryInv
<1>3. CaptureInv
  BY <1>1, Idle, Zenon DEF CaptureInv
<1>4. GensInv
  <2>1. gens \in Seq(Range(gens)) /\ DOMAIN gens = {}
    BY <1>1
  <2> QED BY <1>1, <2>1, Idle, Zenon DEF GensInv
<1>5. RootInv
  <2>1. PICK r : r = [active |-> 0, pending |-> 0]
    BY Zenon
  <2>2. r \in [active : Nat, pending : Nat] /\ r.active = 0
    BY <2>1
  <2>3. IsCell(root, [active : Nat, pending : Nat]) /\ root.may = {r}
    BY <1>1, <2>1, <2>2, SureCell, Zenon
  <2>4. PointerOk(r)
    BY <1>1, <2>2 DEF PointerOk
  <2> QED BY <1>1, <2>3, <2>4, Idle, Zenon DEF RootInv
<1>6. PackageInv /\ TargetInv
  BY <1>1, Idle, Zenon DEF PackageInv, TargetInv
<1> QED BY <1>2, <1>3, <1>4, <1>5, <1>6, Zenon DEF PackagesInv


(* The starts of a build. *)
LEMMA StartsKeep ==
    ASSUME PackagesInv, UNCHANGED <<primary, snap, packageVars>>,
           Rebuild \/ CatchUp \/ ImportRestored
    PROVE  PackagesInv'
<1>1. snap # None /\ UNCHANGED <<root, promised, adopted>>
  BY DEF Rebuild, CatchUp, ImportRestored, Ready
<1>2. PICK payload : BuildStart(payload)
  BY Zenon DEF Rebuild, CatchUp, ImportRestored
<1>3. UNCHANGED <<primary, snap, packageVars, root, promised, adopted>>
  BY <1>1
<1> QED BY <1>1, <1>2, <1>3, BuildStartKeeps, Zenon

(* A step that changes nothing. *)
LEMMA StutterKeeps ==
    ASSUME PackagesInv, UNCHANGED vars
    PROVE  PackagesInv'
<1>1. UNCHANGED <<primary, work, snap, root, gens, promised, adopted, package, target>>
  BY DEF vars, primaryVars, derivedVars, packageVars
<1>2. PrimaryInv' /\ CaptureInv'
  BY <1>1, CaptureFrame, Zenon DEF PackagesInv, PrimaryInv
<1>3. GensInv' /\ RootInv' /\ TargetInv'
  BY <1>1, GensFrame, RootFrame, TargetFrame, Zenon DEF PackagesInv
<1>4. PackageInv'
  BY <1>1, Zenon DEF PackagesInv, PackageInv
<1> QED BY <1>2, <1>3, <1>4, Zenon DEF PackagesInv

(* Every step keeps the invariant. *)
LEMMA PackagesNext == PackagesInv /\ [Next]_vars => PackagesInv'
<1> SUFFICES ASSUME PackagesInv, [Next]_vars PROVE PackagesInv'
  OBVIOUS
<1>1. CASE PrimaryNext /\ UNCHANGED <<derivedVars, packageVars>>
  BY <1>1, WritesKeep, CaptureKeeps, Zenon DEF PrimaryNext, Writes
<1>2. CASE (DerivedNext \/ ImportRestored) /\ UNCHANGED <<primary, snap, packageVars>>
  BY <1>2, StartsKeep, BuildKeeps, ActivateKeeps, Zenon DEF DerivedNext
<1>3. CASE Backup /\ UNCHANGED <<primary, snap, derivedVars, target>>
  BY <1>3, BackupStartKeeps, BackupCheckpointKeeps, BackupStepKeeps, Zenon
     DEF Backup, BackupStep
<1>4. CASE Restore /\ UNCHANGED <<primary, snap, derivedVars, package>>
  BY <1>4, RestoreStartKeeps, RestoreStepKeeps, Zenon DEF Restore, RestoreStep
<1>5. CASE UseRestored /\ UNCHANGED <<work, derivedVars, package, budget>>
  BY <1>5, UseRestoredKeeps, Zenon
<1>6. CASE Exit
  BY <1>6, ExitKeeps, Zenon
<1>7. CASE PowerLoss
  BY <1>7, PowerLossKeeps, Zenon
<1>8. CASE UNCHANGED vars
  BY <1>8, StutterKeeps, Zenon
<1> QED BY <1>1, <1>2, <1>3, <1>4, <1>5, <1>6, <1>7, <1>8, Zenon DEF Next

(* In every state of every behaviour. *)
LEMMA Invariant == Spec => []PackagesInv
BY PackagesInit, PackagesNext, PTL DEF Spec

(* Store::derived_snapshot: the checkpoint of a snapshot is that of the    *)
(* moment at which it was taken, for any number of writers between the     *)
(* readings.                                                               *)
THEOREM SnapshotsAreExact == Spec => []SnapshotIsExact
<1>1. PackagesInv => SnapshotIsExact
  BY Zenon DEF PackagesInv, CaptureInv, SnapOk, SnapshotIsExact
<1> QED BY <1>1, Invariant, PTL

(* DerivedIndex::strict: the generation it answers with holds the quads of *)
(* the caller's snapshot.                                                  *)
THEOREM StrictAnswersAreExact == Spec => []StrictIsExact
<1>1. PackagesInv => StrictIsExact
  <2>1. SUFFICES ASSUME PackagesInv, Strict PROVE gens[Active].payload = snap.quads
    BY Zenon DEF StrictIsExact
  <2>2. PICK g : g = gens[Active]
    OBVIOUS
  <2>3. /\ Active # 0 /\ g.mark.now = "Complete"
        /\ g.input = snap.quads
    BY <2>1, <2>2, Zenon DEF Strict, ActiveOpens, Opens, check_snapshot
  <2>4. PICK n \in Nat : n = Len(gens) /\ DOMAIN gens = 1..n
    BY <2>1, GensShape, Zenon DEF PackagesInv
  <2>5. root.now \in root.may
    BY <2>1, Zenon DEF PackagesInv, RootInv, IsCell
  <2>6. Active \in 0..n
    BY <2>1, <2>4, <2>5, Zenon DEF PackagesInv, RootInv, PointerOk, Active
  <2>7. Active \in DOMAIN gens
    BY <2>3, <2>4, <2>6
  <2>8. GenOk(g)
    BY <2>1, <2>2, <2>7, Zenon DEF PackagesInv, GensInv
  <2>9. "Complete" \in g.mark.may
    BY <2>3, <2>8, Zenon DEF GenOk, IsCell
  <2>10. g.payload = g.input
    BY <2>8, <2>9, Zenon DEF GenOk
  <2> QED BY <2>2, <2>3, <2>10, Zenon
<1> QED BY <1>1, Invariant, PTL

(* DerivedIndex::activate: ACTIVE is what callers were told, whatever a    *)
(* power loss makes of it.                                                 *)
THEOREM PointersAreAsPromised == Spec => []PointerAsPromised
<1>1. PackagesInv => PointerAsPromised
  BY Zenon DEF PackagesInv, RootInv, PointerOk, PointerAsPromised
<1> QED BY <1>1, Invariant, PTL

(* DerivedIndex::active: what ACTIVE may name after a power loss opens. *)
THEOREM PointersOpen == Spec => []PointerOpens
<1>1. PackagesInv => PointerOpens
  <2>1. SUFFICES ASSUME PackagesInv, NEW r \in root.may
                 PROVE  /\ r.active # 0 /\ r.active \notin adopted =>
                              IsSure(gens[r.active].mark, "Complete")
                        /\ r.active # 0 /\ gens[r.active].mark.now = "Complete" =>
                              IsSure(gens[r.active].whole, TRUE)
    BY Zenon DEF PointerOpens
  <2>2. PICK g : g = gens[r.active]
    OBVIOUS
  <2>3. PICK n \in Nat : n = Len(gens) /\ DOMAIN gens = 1..n
    BY <2>1, GensShape, Zenon DEF PackagesInv
  <2>4. PointerOk(r)
    BY <2>1, Zenon DEF PackagesInv, RootInv
  <2>5. r.active \in 0..n
    BY <2>3, <2>4, Zenon DEF PointerOk
  <2>6. r.active # 0 => r.active \in DOMAIN gens
    BY <2>3, <2>5
  <2>7. r.active # 0 => GenOk(g)
    BY <2>1, <2>2, <2>6, Zenon DEF PackagesInv, GensInv
  <2>8. r.active # 0 /\ g.mark.now = "Complete" => g.whole = Sure(TRUE)
    BY <2>7, Zenon DEF GenOk, IsCell
  <2> QED BY <2>2, <2>4, <2>8, Zenon DEF PointerOk, IsSure
<1> QED BY <1>1, Invariant, PTL

(* Store::backup_with_receipt, Store::restore_backup: what reads as        *)
(* complete is whole, consistent and final.                                *)
THEOREM CompletePackagesAreWhole == Spec => []PackagesAreWhole
<1>1. PackagesInv => PackagesAreWhole
  <2>1. SUFFICES ASSUME PackagesInv PROVE PackagesAreWhole
    OBVIOUS
  <2>2. package # None => PackageOk(package)
    BY <2>1, Zenon DEF PackagesInv, PackageInv
  <2>3. target # None => TargetOk(target) /\ target.store = package.store
    BY <2>1, Zenon DEF PackagesInv, TargetInv
  <2> QED BY <2>2, <2>3, Zenon DEF PackagesAreWhole, PackageOk, Stored, TargetOk, IsSure
<1> QED BY <1>1, Invariant, PTL
=============================================================================
