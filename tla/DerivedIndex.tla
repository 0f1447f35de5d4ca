---------------------------- MODULE DerivedIndex ----------------------------
(***************************************************************************)
(* Immutable generations of a derived index and their activation           *)
(* (derived_generation.rs, ADR-0024): one index root with the ACTIVE       *)
(* pointer, generation directories that are completed by a rename, and the *)
(* handle that owns the LOCK.  Every fsync and rename is a step of its     *)
(* own, so that a process may end and the power may fail between any two.  *)
(***************************************************************************)
EXTENDS PrimaryStore

CONSTANT max_generations  \* DerivedGenerationLimits::max_generations

ASSUME DerivedAssumption == max_generations \in Nat \ {0}

VARIABLES
    root,      \* index root, a cell: the ACTIVE pointer and ACTIVE.pending
    gens,      \* the generation directories in the order of their making
    handle,    \* a DerivedIndex is open and holds the lock
    promised,  \* history: what ACTIVE may be after all that callers were told
    adopted    \* history: generations activated while their completion was
               \* not synced

derivedVars == <<root, gens, handle, promised, adopted>>

(* generation.pending and generation.complete in a generation's directory, *)
(* which may itself be lost before generations/ is synced.                 *)
Marks == {"Absent", "Empty", "Pending", "Complete"}

(* A directory when it has been made: `mark' and `whole' (the payload      *)
(* files are all there) are cells, the rest is what the provider writes    *)
(* and what the manifest says of the snapshot it was written from.         *)
Generation(s, payload) ==
    [mark |-> Change(Sure("Absent"), "Empty"), whole |-> Sure(FALSE),
     payload |-> payload, source |-> s.checkpoint, input |-> s.quads]

DerivedInit ==
    /\ root = Sure([active |-> 0, pending |-> 0])
    /\ gens = <<>>
    /\ handle = TRUE
    /\ promised = {0}
    /\ adopted = {}

-----------------------------------------------------------------------------
(* DerivedGeneration::open: the manifest is complete and the inventory is  *)
(* exactly the one it lists.                                               *)
Opens(g) == g.mark.now = "Complete" /\ g.whole.now

(* Mutant: equal checkpoints are taken for equal contents. *)
check_snapshot_by_checkpoint(g, s) == g.source = s.checkpoint

(* DerivedGeneration::check_snapshot: the full checkpoint and the hash of  *)
(* a scan of the snapshot.                                                 *)
check_snapshot(g, s) == g.source = s.checkpoint /\ g.input = s.quads

same_lineage(g, s) == g.source.sequence <= s.checkpoint.sequence

(* DerivedIndex::active, 0 being Unavailable. *)
Active == root.now.active
ActiveOpens == Active # 0 /\ Opens(gens[Active])

(* DerivedIndex::strict answers with the active generation. *)
Strict == ActiveOpens /\ check_snapshot(gens[Active], snap)

(* DerivedSnapshot::delta: the commits after the applied receipt, refused  *)
(* below the retention floor.                                              *)
DeltaExists(g, s) ==
    /\ g.source.receipt >= s.checkpoint.retained_after
    /\ g.source.receipt <= s.checkpoint.receipt

(* DerivedProvider::apply over the whole commits of the delta. *)
Applied(g, s) ==
    LET after[i \in g.source.receipt..Len(s.commits)] ==
           IF i = g.source.receipt THEN g.payload
           ELSE (after[i - 1] \ s.commits[i].removed) \union s.commits[i].added
    IN after[Len(s.commits)]

-----------------------------------------------------------------------------
(* DerivedIndex::build, called by rebuild, catch_up and import_restored    *)
(* with what the provider will write: a scan of the snapshot, the active   *)
(* generation with the delta applied, or a restored contribution.          *)

Ready == handle /\ work = NoWork /\ snap # None

(* A directory without a manifest is never opened: only that it may be     *)
(* there still counts, against the limit.                                  *)
Abandoned == [mark |-> Change(Sure("Absent"), "Empty"), whole |-> Sure(FALSE),
              payload |-> None, source |-> None, input |-> None]

Listed == {i \in DOMAIN gens : gens[i].mark.now # "Absent"}

BuildStart(payload) ==
    /\ Cardinality(Listed) < max_generations
    /\ gens' = Append(gens, Generation(snap, payload))
    /\ work' = [at |-> "Write", gen |-> Len(gens) + 1]

Rebuild ==
    /\ Ready
    /\ BuildStart(snap.quads)
    /\ UNCHANGED <<root, handle, promised, adopted, budget>>

CatchUp ==
    /\ Ready
    /\ ActiveOpens
    /\ same_lineage(gens[Active], snap)
    /\ BuildStart(IF DeltaExists(gens[Active], snap) THEN Applied(gens[Active], snap)
                  ELSE None)
    /\ UNCHANGED <<root, handle, promised, adopted, budget>>

This == gens[work.gen]
SetThis(g) == gens' = [gens EXCEPT ![work.gen] = g]

(* generations/ is synced, the provider writes its files, each of them     *)
(* synced, and reconciles them with the snapshot.  Without a delta, and    *)
(* with files that do not reconcile, the call fails.                       *)
BuildWrite ==
    /\ work.at = "Write"
    /\ IF This.payload = This.input
       THEN /\ SetThis([This EXCEPT !.mark = Sync(@), !.whole = Change(@, TRUE)])
            /\ work' = [work EXCEPT !.at = "Pending"]
       ELSE SetThis(Abandoned) /\ work' = NoWork
    /\ UNCHANGED <<root, handle, promised, adopted, budget>>

(* Mutant: the directory is not synced before the rename. *)
BuildPendingUnsynced ==
    /\ work.at = "Pending"
    /\ SetThis([This EXCEPT !.mark = Change(@, "Pending")])
    /\ work' = [work EXCEPT !.at = "Rename"]
    /\ UNCHANGED <<root, handle, promised, adopted, budget>>

(* generation.pending is written, and with it the directory is synced. *)
BuildPending ==
    /\ work.at = "Pending"
    /\ SetThis([This EXCEPT !.mark = Sure("Pending"), !.whole = Sync(@)])
    /\ work' = [work EXCEPT !.at = "Rename"]
    /\ UNCHANGED <<root, handle, promised, adopted, budget>>

BuildRename ==
    /\ work.at = "Rename"
    /\ SetThis([This EXCEPT !.mark = Change(@, "Complete")])
    /\ work' = [work EXCEPT !.at = "Finish"]
    /\ UNCHANGED <<root, handle, promised, adopted, budget>>

BuildFinish ==
    /\ work.at = "Finish"
    /\ SetThis([This EXCEPT !.mark = Sync(@)])
    /\ work' = NoWork
    /\ UNCHANGED <<root, handle, promised, adopted, budget>>

(* A call that is refused before its directory is made changes nothing.    *)
(* Any later step may fail.  A failing last sync leaves a complete         *)
(* directory whose completion may be lost.                                 *)
BuildFail ==
    /\ \/ work.at \in {"Write", "Pending", "Rename"} /\ SetThis(Abandoned)
       \/ work.at = "Finish" /\ UNCHANGED gens
    /\ Fault
    /\ work' = NoWork
    /\ UNCHANGED <<root, handle, promised, adopted>>

-----------------------------------------------------------------------------
(* DerivedIndex::activate, of any generation that opens: one that a build  *)
(* returned or one found in the directory.                                 *)

ActivateStart ==
    /\ Ready
    /\ \E i \in DOMAIN gens :
          /\ Opens(gens[i])
          /\ check_snapshot(gens[i], snap)
          /\ gens[i].payload = snap.quads
          /\ work' = [at |-> "Point", gen |-> i]
    /\ UNCHANGED <<root, gens, handle, promised, adopted, budget>>

(* ACTIVE.pending is made anew, which an earlier one forbids, and synced.  *)
ActivatePending ==
    /\ work.at = "Point"
    /\ IF root.now.pending = 0
       THEN /\ root' = Sure([root.now EXCEPT !.pending = work.gen])
            /\ work' = [work EXCEPT !.at = "Publish"]
       ELSE work' = NoWork /\ UNCHANGED root
    /\ UNCHANGED <<gens, handle, promised, adopted, budget>>

(* From the rename on the activation counts as indeterminate. *)
ActivateRename ==
    /\ work.at = "Publish"
    /\ root' = Change(root, [active |-> work.gen, pending |-> 0])
    /\ work' = [work EXCEPT !.at = "Settle"]
    /\ promised' = promised \union {work.gen}
    /\ adopted' = IF IsSure(This.mark, "Complete") THEN adopted
                  ELSE adopted \union {work.gen}
    /\ UNCHANGED <<gens, handle, budget>>

(* Mutant: success is reported without the last sync. *)
ActivateSyncSkipped ==
    /\ work.at = "Settle"
    /\ promised' = {work.gen}
    /\ work' = NoWork
    /\ UNCHANGED <<root, gens, handle, adopted, budget>>

ActivateSync ==
    /\ work.at = "Settle"
    /\ root' = Sync(root)
    /\ promised' = {work.gen}
    /\ work' = NoWork
    /\ UNCHANGED <<gens, handle, adopted, budget>>

(* The pointer is written and its sync fails, the call is cancelled before *)
(* the rename, or the last sync fails, which is ActivationIndeterminate.   *)
ActivateFail ==
    /\ \/ /\ work.at = "Point" /\ root.now.pending = 0
          /\ root' = Change(root, [root.now EXCEPT !.pending = work.gen])
       \/ work.at \in {"Publish", "Settle"} /\ UNCHANGED root
    /\ Fault
    /\ work' = NoWork
    /\ UNCHANGED <<gens, handle, promised, adopted>>

-----------------------------------------------------------------------------
(* DerivedIndex::open, after the handle before it was dropped.  An         *)
(* unpublished pointer is scratch; only its removal makes open sync the    *)
(* root.                                                                   *)
Open ==
    /\ work = NoWork
    /\ LET new == [root.now EXCEPT !.pending = 0]
       IN IF root.now.pending = 0
          THEN root' = root /\ handle' = TRUE /\ UNCHANGED budget
          ELSE \/ root' = Sure(new) /\ handle' = TRUE /\ UNCHANGED budget
               \/ root' = Change(root, new) /\ handle' = FALSE /\ Fault
    /\ UNCHANGED <<gens, work, promised, adopted>>

DerivedNext ==
    \/ Rebuild \/ CatchUp \/ BuildWrite \/ BuildPending \/ BuildRename
    \/ BuildFinish \/ BuildFail
    \/ ActivateStart \/ ActivatePending \/ ActivateRename \/ ActivateSync
    \/ ActivateFail \/ Open

(* The lock is released and the call at work ends with the process. *)
DerivedExit ==
    /\ handle' = FALSE
    /\ UNCHANGED <<promised, adopted>>

(* The directories that a power loss may leave of one. *)
Left(g, m, w) == [g EXCEPT !.mark = m, !.whole = w]
Lost(g) == {Left(g, m, w) : m \in Survivors(g.mark), w \in Survivors(g.whole)}

DerivedLoss ==
    /\ root' \in Survivors(root)
    /\ gens' \in {g \in [DOMAIN gens -> UNION {Lost(gens[i]) : i \in DOMAIN gens}] :
                     \A i \in DOMAIN gens : g[i] \in Lost(gens[i])}

-----------------------------------------------------------------------------
(* DerivedIndex::strict: a generation that passes the freshness check      *)
(* holds exactly the quads of the caller's snapshot, although ungoverned   *)
(* writes bypass the outbox and a database that lost its last writes, or   *)
(* was restored, may reach an old sequence number with other contents.     *)
StrictIsExact == snap # None /\ Strict => gens[Active].payload = snap.quads

(* activate: whatever a power loss makes of the root, ACTIVE is the        *)
(* generation that the last successful activation named, or one that a     *)
(* caller was told may have become active; a failed activation leaves it.  *)
PointerAsPromised == \A r \in root.may : r.active \in promised

(* active: the generation that ACTIVE may name after a power loss opens,   *)
(* its completion having been synced before the pointer.  A generation     *)
(* that was found complete and activated although the build that wrote it  *)
(* was cut off before its last sync is the exception.                      *)
PointerOpens ==
    \A r \in root.may :
       /\ r.active # 0 /\ r.active \notin adopted =>
             IsSure(gens[r.active].mark, "Complete")
       /\ r.active # 0 /\ gens[r.active].mark.now = "Complete" =>
             IsSure(gens[r.active].whole, TRUE)

=============================================================================
