------------------------- MODULE RetentionProofs -------------------------
(***************************************************************************)
(* What retention keeps true of one library path, for any rows, reports,      *)
(* grabs and crashes: available means intact, a half-deleted tree is on        *)
(* record, no delete during a placement, no delete of another row's tree.      *)
(*                                                                         *)
(* Inv has two halves.  The registries count exactly who holds the path, and     *)
(* that alone keeps deletes and placements apart (Registered).  And, as long    *)
(* as no clash happened, at most one row names the tree without a marker, and    *)
(* then the tree is whole: Loose, and what each phase of the sweep, the         *)
(* correction and the import knows about it.                                 *)
(***************************************************************************)
EXTENDS Retention, TLAPS

(* The statuses, and the shape of the actors. *)
Statuses == {"absent", "pre_grab", "downloading", "import_blocked", "completed", "available",
             "evicted", "cancelled", "failed"}
Trees == {"intact", "partial", "gone"}
RowType == [status : Statuses, path : BOOLEAN, mark : BOOLEAN, regrab : BOOLEAN]
ItemType == [row : Rows, seen : Statuses, mark : BOOLEAN]
Recovering == {"stat", "decide", "rboundary", "rdelete", "rfinal"}
Claimed == {"claimed", "boundary1", "boundary2", "delete", "final", "restore"}
SweepType == [pc : {"idle", "resume", "evict", "watch"} \cup Recovering \cup Claimed,
              todo : SUBSET ItemType, at : ItemType, held : {0, 1, 2}, proactive : BOOLEAN]
Published == {"torrent", "purge", "delete", "record"}
FixType == [pc : {"idle", "claim", "publish"} \cup Published, row : Rows, path : BOOLEAN, out : Trees]
ImportType == [pc : {"idle", "place", "finalize"}, row : Rows]

TypeOK ==
  /\ kind \in {"movie", "tv"}
  /\ row \in [Rows -> RowType] /\ kept \in BOOLEAN /\ cover \in BOOLEAN
  /\ xfer \in [Rows -> {"none", "transfer", "import"}]
  /\ disk \in Trees
  /\ purges \in Nat /\ placing \in {0, 1} /\ lease \in {"none", "held", "revoked"}
  /\ sweep \in SweepType /\ fix \in FixType /\ import \in ImportType
  /\ workers \subseteq {"sweep", "fix"} /\ clash \in BOOLEAN
  /\ reports \in Nat /\ grabs \in Nat /\ crashes \in Nat

(* The registrations an actor holds on the path, by the step it has reached. *)
SweepHolds(s) ==
  IF s.pc \in {"stat", "decide", "boundary1", "boundary2", "delete", "final"} THEN 1
  ELSE IF s.pc \in {"rboundary", "rdelete"} THEN 2
  ELSE IF s.pc = "rfinal" THEN s.held ELSE 0
FixHolds(f) ==
  IF f.pc \in {"publish", "torrent", "record"} /\ f.path THEN 1
  ELSE IF f.pc \in {"purge", "delete"} THEN 2 ELSE 0

(* The counts are exact; a thread belongs to a caller that waits for it; a delete that was     *)
(* admitted finds no placement, and a recovery and a correction exclude each other.         *)
Registered ==
  /\ purges = SweepHolds(sweep) + FixHolds(fix)
  /\ sweep.pc = "rfinal" => sweep.held # 0
  /\ placing = IF import.pc = "idle" THEN 0 ELSE 1
  /\ "sweep" \in workers <=> sweep.pc \in {"rdelete", "delete"}
  /\ "fix" \in workers <=> fix.pc = "delete"
  /\ fix.pc \in {"purge", "delete"} => fix.path
  /\ sweep.pc \in {"rboundary", "rdelete", "boundary1", "boundary2", "delete", "final"} => placing = 0
  /\ fix.pc \in {"purge", "delete"} => placing = 0
  /\ sweep.pc \in Recovering => FixHolds(fix) = 0

(* A row that names the tree and carries no marker. *)
Loose(r) == row[r].path /\ ~row[r].mark

(* The rows: one loose row at most, whose tree is whole; a row in the library is loose; what a    *)
(* delete ate into has a marker.                                                    *)
RowsFit ==
  /\ \A r, q \in Rows : Loose(r) /\ Loose(q) => r = q
  /\ \A r \in Rows : Loose(r) => disk = "intact"
  /\ \A r \in Rows : row[r].status \in REPORTABLE => Loose(r)
  /\ \A r \in Rows : row[r].status = "absent" => ~row[r].path
  /\ disk = "partial" => \E r \in Rows : _partial_delete_still_armed(r)

(* The import: the tree it placed was nobody's. *)
ImportFits ==
  import.pc = "finalize" => disk = "intact" /\ \A r \in Rows : ~Loose(r)

(* The items of a recovery pass: one per row, and an unmarked one is still loose. *)
ItemFits(i) ==
  ~i.mark => Loose(i.row) /\ row[i.row].status \notin REPORTABLE
Resuming == sweep.pc \in Recovering \cup {"resume"}
ItemsFit ==
  /\ Resuming =>
       /\ \A i, j \in sweep.todo : i.row = j.row => i = j
       /\ \A i \in sweep.todo : ItemFits(i)
  /\ sweep.pc \in Recovering => \A i \in sweep.todo : i.row # sweep.at.row
  /\ sweep.pc \in {"stat", "decide"} => ItemFits(sweep.at)
  /\ sweep.pc \in {"rboundary", "rdelete"} => sweep.at.mark
  /\ sweep.pc = "rdelete" => _partial_delete_still_armed(sweep.at.row) /\ \A r \in Rows : ~Loose(r)
  /\ sweep.pc = "rfinal" => disk # "partial"

(* An eviction between its claim and its verdict. *)
ClaimFits ==
  sweep.pc \in Claimed =>
    LET r == sweep.at.row
    IN  /\ row[r].path /\ row[r].status \notin REPORTABLE
        /\ \A q \in Rows \ {r} : ~Loose(q)
        /\ fix.pc \notin Published
        /\ sweep.pc \in {"claimed", "boundary1"} => ~row[r].mark
        /\ sweep.pc \in {"boundary2", "delete", "final"} => row[r].mark
        /\ sweep.pc \in {"boundary2", "restore"} => disk = "intact"
        /\ sweep.pc = "restore" => import.pc # "finalize"
        /\ sweep.pc = "final" => disk = "gone"

(* A correction from its commit to its record. *)
FixFits ==
  /\ fix.pc # "idle" => fix.path
  /\ fix.pc \in {"claim", "publish"} => fix.out = "intact"
  /\ fix.pc \in Published =>
       /\ _partial_delete_still_armed(fix.row)
       /\ \A r \in Rows : ~Loose(r)
       /\ import.pc # "finalize"
       /\ fix.pc \in {"torrent", "purge"} => disk = "intact" /\ fix.out = "intact"
       /\ fix.pc = "record" => fix.out = disk /\ (disk # "intact" => placing = 0)

TreeFits == RowsFit /\ ImportFits /\ ItemsFit /\ ClaimFits /\ FixFits
Inv == TypeOK /\ Registered /\ (~clash => TreeFits)

----------------------------------------------------------------------------
(* What the statements do to a row and to the sweep. *)
PCs == {"idle", "resume", "evict", "watch"} \cup Recovering \cup Claimed

LEMMA RowSet ==
  ASSUME TypeOK, NEW r \in Rows, NEW rec \in RowType, row' = [row EXCEPT ![r] = rec]
  PROVE  row' \in [Rows -> RowType] /\ row'[r] = rec /\ \A q \in Rows \ {r} : row'[q] = row[q]
BY DEF TypeOK

LEMMA MarkSet ==
  ASSUME TypeOK, NEW r \in Rows, NEW b \in BOOLEAN, row' = [row EXCEPT ![r].mark = b]
  PROVE  /\ row' \in [Rows -> RowType] /\ \A q \in Rows \ {r} : row'[q] = row[q]
         /\ row'[r].path = row[r].path /\ row'[r].mark = b /\ row'[r].status = row[r].status
<1> DEFINE rec == [row[r] EXCEPT !.mark = b]
<1>1. /\ rec \in RowType /\ rec.path = row[r].path /\ rec.mark = b
      /\ rec.status = row[r].status
  BY DEF TypeOK, RowType
<1>2. row' = [row EXCEPT ![r] = rec]
  OBVIOUS
<1> HIDE DEF rec
<1> QED BY <1>1, <1>2, RowSet

LEMMA StatusSet ==
  ASSUME TypeOK, NEW r \in Rows, NEW s \in Statuses, row' = [row EXCEPT ![r].status = s]
  PROVE  /\ row' \in [Rows -> RowType] /\ \A q \in Rows \ {r} : row'[q] = row[q]
         /\ row'[r].path = row[r].path /\ row'[r].mark = row[r].mark /\ row'[r].status = s
<1> DEFINE rec == [row[r] EXCEPT !.status = s]
<1>1. /\ rec \in RowType /\ rec.path = row[r].path /\ rec.mark = row[r].mark
      /\ rec.status = s
  BY DEF TypeOK, RowType
<1>2. row' = [row EXCEPT ![r] = rec]
  OBVIOUS
<1> HIDE DEF rec
<1> QED BY <1>1, <1>2, RowSet

LEMMA ToSets ==
  ASSUME TypeOK, NEW pc \in PCs, To(pc)
  PROVE  /\ sweep' \in SweepType /\ sweep'.pc = pc
         /\ sweep'.todo = sweep.todo /\ sweep'.at = sweep.at /\ sweep'.held = sweep.held
BY DEF TypeOK, To, SweepType, PCs

LEMMA NoItemType == NoItem \in ItemType
BY RowsAssumption DEF NoItem, ItemType, Statuses

LEMMA NextItemSets ==
  ASSUME TypeOK, NEW pc \in PCs, NextItem(pc)
  PROVE  /\ sweep' \in SweepType /\ sweep'.pc = pc
         /\ sweep'.todo = sweep.todo /\ sweep'.at = NoItem /\ sweep'.held = 0
BY NoItemType DEF TypeOK, NextItem, SweepType, PCs

LEMMA ToFinalSets ==
  ASSUME TypeOK, NEW n \in {1, 2}, ToFinal(n)
  PROVE  /\ sweep' \in SweepType /\ sweep'.pc = "rfinal"
         /\ sweep'.todo = sweep.todo /\ sweep'.at = sweep.at /\ sweep'.held = n
BY DEF TypeOK, ToFinal, SweepType, Recovering

LEMMA IdleTypes ==
  /\ IdleSweep \in SweepType /\ IdleSweep.pc = "idle" /\ IdleSweep.todo = {}
  /\ IdleFix \in FixType /\ IdleFix.pc = "idle"
  /\ IdleImport \in ImportType /\ IdleImport.pc = "idle"
<1>1. IdleSweep \in SweepType /\ IdleSweep.pc = "idle" /\ IdleSweep.todo = {}
  BY NoItemType DEF IdleSweep, SweepType
<1>2. IdleFix \in FixType /\ IdleFix.pc = "idle"
  BY RowsAssumption DEF IdleFix, FixType, Trees
<1>3. IdleImport \in ImportType /\ IdleImport.pc = "idle"
  BY RowsAssumption DEF IdleImport, ImportType
<1> QED BY <1>1, <1>2, <1>3

(* The registrations each actor holds are few, and an actor never lets go of more than it has. *)
LEMMA HoldsFew ==
  ASSUME TypeOK
  PROVE  SweepHolds(sweep) \in {0, 1, 2} /\ FixHolds(fix) \in {0, 1, 2}
BY DEF TypeOK, SweepType, SweepHolds, FixHolds

LEMMA LetsGo ==
  ASSUME TypeOK, Registered, NEW n \in {0, 1, 2}, Unregister(n),
         n <= SweepHolds(sweep) \/ n <= FixHolds(fix)
  PROVE  purges' = purges - n /\ purges' \in Nat
<1> DEFINE a == SweepHolds(sweep)
           b == FixHolds(fix)
<1>1. a \in {0, 1, 2} /\ b \in {0, 1, 2} /\ purges = a + b
  BY HoldsFew DEF Registered
<1>2. n <= a \/ n <= b
  OBVIOUS
<1> HIDE DEF a, b
<1> QED BY <1>1, <1>2 DEF Unregister

(* A row that a step leaves where it was: same breadcrumb, same marker, not newly in the library. *)
Same(q) ==
  /\ row'[q].path = row[q].path /\ (row[q].path => row'[q].mark = row[q].mark)
  /\ row'[q].status \in REPORTABLE => row[q].status \in REPORTABLE
  /\ row'[q].status = "absent" => row[q].status = "absent"
Quiet == \A q \in Rows : Same(q)
Elsewhere(r) == \A q \in Rows \ {r} : Same(q)

LEMMA QuietRows ==
  ASSUME RowsFit, Quiet, disk' = disk
  PROVE  RowsFit' /\ \A r \in Rows : Loose(r)' = Loose(r)
<1>1. \A r \in Rows : Loose(r)' = Loose(r)
  BY DEF Quiet, Same, Loose
<1>2. \A r \in Rows : _partial_delete_still_armed(r) => _partial_delete_still_armed(r)'
  BY DEF Quiet, Same, _partial_delete_still_armed
<1>3. \A r, q \in Rows : Loose(r)' /\ Loose(q)' => r = q
  BY <1>1 DEF RowsFit
<1>4. \A r \in Rows : Loose(r)' => disk' = "intact"
  BY <1>1 DEF RowsFit
<1>5. \A r \in Rows : row'[r].status \in REPORTABLE => Loose(r)'
  BY <1>1 DEF RowsFit, Quiet, Same
<1>6. \A r \in Rows : row'[r].status = "absent" => ~row'[r].path
  BY DEF RowsFit, Quiet, Same
<1>7. disk' = "partial" => \E r \in Rows : _partial_delete_still_armed(r)'
  BY <1>2 DEF RowsFit
<1> QED BY <1>1, <1>3, <1>4, <1>5, <1>6, <1>7 DEF RowsFit

----------------------------------------------------------------------------
(* What a step that leaves the rows where they were keeps of the actors it does not move. *)

LEMMA QuietImport ==
  ASSUME RowsFit, ImportFits, Quiet, disk' = disk,
         import'.pc = "finalize" => import.pc = "finalize"
  PROVE  ImportFits'
BY QuietRows DEF ImportFits

LEMMA QuietItems ==
  ASSUME TypeOK, RowsFit, ItemsFit, Quiet, disk' = disk, sweep' = sweep
  PROVE  ItemsFit'
<1>0. /\ sweep.at.row \in Rows /\ \A i \in sweep.todo : i.row \in Rows
  BY DEF TypeOK, SweepType, ItemType
<1>1. \A r \in Rows : Loose(r)' = Loose(r)
  BY QuietRows
<1>2. ASSUME NEW i, i.row \in Rows, ItemFits(i) PROVE ItemFits(i)'
  BY <1>1, <1>2 DEF ItemFits, Quiet, Same
<1>3. /\ Resuming' = Resuming
      /\ Resuming => \A i, j \in sweep.todo : i.row = j.row => i = j
      /\ sweep.pc \in Recovering => \A i \in sweep.todo : i.row # sweep.at.row
      /\ sweep.pc \in {"rboundary", "rdelete"} => sweep.at.mark
      /\ sweep.pc = "rfinal" => disk # "partial"
  BY DEF ItemsFit, Resuming
<1>4. Resuming => \A i \in sweep.todo : ItemFits(i)'
  BY <1>0, <1>2 DEF ItemsFit
<1>5. sweep.pc \in {"stat", "decide"} => ItemFits(sweep.at)'
  <2> DEFINE i == sweep.at
  <2>1. sweep.pc \in {"stat", "decide"} => ItemFits(i)
    BY DEF ItemsFit
  <2> QED BY <1>0, <1>1, <2>1 DEF ItemFits, Quiet, Same
<1>6. sweep.pc = "rdelete" => _partial_delete_still_armed(sweep.at.row)' /\ \A r \in Rows : ~Loose(r)'
  BY <1>0, <1>1 DEF ItemsFit, _partial_delete_still_armed, Quiet, Same
<1> QED BY <1>3, <1>4, <1>5, <1>6 DEF ItemsFit

LEMMA QuietClaim ==
  ASSUME TypeOK, RowsFit, ClaimFits, Quiet, disk' = disk, sweep' = sweep,
         fix'.pc \in Published => fix.pc \in Published,
         import'.pc = "finalize" => import.pc = "finalize"
  PROVE  ClaimFits'
<1>0. sweep.at.row \in Rows
  BY DEF TypeOK, SweepType, ItemType
<1>1. \A r \in Rows : Loose(r)' = Loose(r)
  BY QuietRows
<1> QED BY <1>0, <1>1 DEF ClaimFits, Quiet, Same

LEMMA QuietFix ==
  ASSUME TypeOK, RowsFit, FixFits, Quiet, disk' = disk, fix' = fix, placing' \in {placing, 0},
         import'.pc = "finalize" => import.pc = "finalize"
  PROVE  FixFits'
<1>0. fix.row \in Rows
  BY DEF TypeOK, FixType
<1>1. \A r \in Rows : Loose(r)' = Loose(r)
  BY QuietRows
<1> QED BY <1>0, <1>1 DEF FixFits, Quiet, Same, _partial_delete_still_armed

(* The rows' lives go on beside the actors. *)
LEMMA LivesKeep ==
  ASSUME TypeOK, TreeFits, Quiet, UNCHANGED <<disk, sweep, fix>>, placing' \in {placing, 0},
         import'.pc = "finalize" => import.pc = "finalize"
  PROVE  TreeFits'
BY QuietRows, QuietImport, QuietItems, QuietClaim, QuietFix DEF TreeFits

(* A step of the sweep that leaves the rows where they were answers for the sweep alone. *)
LEMMA SweepKeeps ==
  ASSUME TypeOK, TreeFits, Quiet, UNCHANGED <<disk, fix, import, placing>>, ItemsFit', ClaimFits'
  PROVE  TreeFits'
BY QuietRows, QuietImport, QuietFix DEF TreeFits

LEMMA SameRows ==
  ASSUME row' = row PROVE Quiet
BY DEF Quiet, Same

(* The same for the items that are left, when the sweep takes the next one or none. *)
LEMMA ItemsLeft ==
  ASSUME TypeOK, RowsFit, ItemsFit, Quiet, disk' = disk, Resuming,
         sweep'.pc = "resume", sweep'.todo \subseteq sweep.todo
  PROVE  ItemsFit' /\ ClaimFits'
<1>0. \A i \in sweep.todo : i.row \in Rows
  BY DEF TypeOK, SweepType, ItemType
<1>1. \A r \in Rows : Loose(r)' = Loose(r)
  BY QuietRows
<1>2. \A i \in sweep'.todo : ItemFits(i)'
  BY <1>0, <1>1 DEF ItemsFit, ItemFits, Quiet, Same
<1>3. \A i, j \in sweep'.todo : i.row = j.row => i = j
  BY DEF ItemsFit
<1>4. sweep'.pc \notin Recovering \cup Claimed
  BY DEF Recovering, Claimed
<1> QED BY <1>2, <1>3, <1>4 DEF ItemsFit, ClaimFits, Recovering

----------------------------------------------------------------------------
(* The recovery pass. *)

LEMMA ItemsSnapshot ==
  ASSUME TypeOK, NEW c \in BOOLEAN
  PROVE  /\ Items(c) \subseteq ItemType
         /\ \A i, j \in Items(c) : i.row = j.row => i = j
         /\ \A i \in Items(c) : ItemFits(i)
<1>1. \A i \in Items(c) : /\ i.row \in Rows /\ Recoverable(i.row, c)
                          /\ i = [row |-> i.row, seen |-> row[i.row].status, mark |-> row[i.row].mark]
  BY DEF Items
<1>2. \A r \in Rows : Recoverable(r, c) => row[r].path /\ row[r].status \notin REPORTABLE
  BY DEF Recoverable, REARMED_OR_BLOCKED, REARMED_RECOVERY, PRE_GRAB, MARKER_OWNED_ADVANCED, REPORTABLE
<1>3. Items(c) \subseteq ItemType
  BY DEF Items, TypeOK, RowType, ItemType
<1>4. \A i, j \in Items(c) : i.row = j.row => i = j
  BY <1>1
<1>5. ASSUME NEW i \in Items(c) PROVE ItemFits(i)
  <2>1. i.mark = row[i.row].mark
    BY <1>1
  <2> QED BY <1>1, <1>2, <2>1 DEF ItemFits, Loose
<1> QED BY <1>3, <1>4, <1>5

(* A sweep begins with the rows as they are. *)
LEMMA SnapshotKeeps ==
  ASSUME TypeOK, TreeFits, row' = row, UNCHANGED <<disk, fix, import, placing>>,
         NEW c \in BOOLEAN, sweep'.pc = "resume", sweep'.todo = Items(c)
  PROVE  TreeFits'
<1>1. \A r \in Rows : Loose(r)' = Loose(r)
  BY DEF Loose
<1>2. \A i \in Items(c) : i.row \in Rows /\ ItemFits(i)
  BY ItemsSnapshot DEF ItemType
<1>3. \A i \in sweep'.todo : ItemFits(i)'
  BY <1>1, <1>2 DEF ItemFits
<1>4. \A i, j \in sweep'.todo : i.row = j.row => i = j
  BY ItemsSnapshot
<1>5. ItemsFit' /\ ClaimFits'
  BY <1>3, <1>4 DEF ItemsFit, ClaimFits, Recovering, Claimed
<1> QED BY <1>5, SweepKeeps, SameRows

LEMMA BeginKeeps ==
  ASSUME Inv, run_eviction_sweep \/ run_correction_recovery_sweep
  PROVE  Inv'
<1>1. PICK c \in BOOLEAN, p \in BOOLEAN :
        /\ sweep' = [pc |-> "resume", todo |-> Items(c), at |-> NoItem, held |-> 0, proactive |-> p]
        /\ sweep.pc = "idle" /\ lease' \in {"none", "held", lease}
        /\ UNCHANGED <<db, disk, purges, placing, fix, import, workers, bounds>>
  <2>1. CASE run_eviction_sweep
    BY <2>1 DEF run_eviction_sweep
  <2>2. CASE run_correction_recovery_sweep
    BY <2>2 DEF run_correction_recovery_sweep, registry
  <2> QED BY <2>1, <2>2
<1>2. sweep' \in SweepType /\ sweep'.pc = "resume" /\ sweep'.todo = Items(c)
  BY <1>1, ItemsSnapshot, NoItemType DEF SweepType, Inv
<1>3. TypeOK'
  BY <1>1, <1>2 DEF Inv, TypeOK, db, bounds
<1>4. Registered'
  BY <1>1, <1>2 DEF Inv, Registered, SweepHolds, FixHolds, Recovering
<1>5. ~clash' => TreeFits'
  BY <1>1, <1>2, SnapshotKeeps DEF Inv, db, bounds
<1> QED BY <1>3, <1>4, <1>5 DEF Inv

LEMMA ResumeKeeps ==
  ASSUME Inv, _resume_one
  PROVE  Inv'
<1>0. /\ sweep.pc = "resume" /\ UNCHANGED <<db, disk, placing, lease, fix, import, workers, bounds>>
      /\ sweep \in SweepType /\ Resuming
  BY DEF _resume_one, Inv, TypeOK, Resuming
<1>1. PICK i \in sweep.todo :
        \/ purges > 0 /\ sweep' = [sweep EXCEPT !.todo = sweep.todo \ {i}] /\ UNCHANGED purges
        \/ /\ begin_purge
           /\ sweep' = [sweep EXCEPT !.todo = sweep.todo \ {i}, !.at = i, !.pc = "stat"]
  BY DEF _resume_one
<1>2. CASE purges > 0 /\ sweep' = [sweep EXCEPT !.todo = sweep.todo \ {i}] /\ UNCHANGED purges
  <2>1. sweep' \in SweepType /\ sweep'.pc = "resume" /\ sweep'.todo \subseteq sweep.todo
    BY <1>0, <1>2 DEF SweepType
  <2>2. TypeOK'
    BY <1>0, <1>2, <2>1 DEF Inv, TypeOK, db, bounds
  <2>3. Registered'
    BY <1>0, <1>2, <2>1 DEF Inv, Registered, SweepHolds, FixHolds, Recovering
  <2>4. ~clash' => TreeFits'
    BY <1>0, <2>1, ItemsLeft, SweepKeeps, SameRows DEF Inv, TreeFits, db, bounds
  <2> QED BY <2>2, <2>3, <2>4 DEF Inv
<1>3. CASE begin_purge /\ sweep' = [sweep EXCEPT !.todo = sweep.todo \ {i}, !.at = i, !.pc = "stat"]
  <2>0. i \in ItemType
    BY <1>0 DEF SweepType
  <2>1. sweep' \in SweepType /\ sweep'.pc = "stat" /\ sweep'.todo = sweep.todo \ {i} /\ sweep'.at = i
    BY <1>0, <1>3, <2>0 DEF SweepType, Recovering
  <2>2. TypeOK'
    BY <1>0, <1>3, <2>1 DEF Inv, TypeOK, db, bounds, begin_purge
  <2>3. Registered'
    <3>1. purges = 0 /\ purges' = 1 /\ SweepHolds(sweep) = 0 /\ FixHolds(fix) = 0
      BY <1>0, <1>3, HoldsFew DEF Inv, Registered, SweepHolds, begin_purge
    <3>2. SweepHolds(sweep') = 1 /\ FixHolds(fix)' = FixHolds(fix)
      BY <1>0, <2>1 DEF SweepHolds, FixHolds
    <3> QED BY <1>0, <2>1, <3>1, <3>2 DEF Inv, Registered, SweepHolds, Recovering
  <2>4. ASSUME ~clash' PROVE TreeFits'
    <3>0. ~clash /\ TreeFits /\ row' = row
      BY <1>0, <2>4 DEF Inv, db, bounds
    <3>1. \A r \in Rows : Loose(r)' = Loose(r)
      BY <3>0 DEF Loose
    <3>2. \A j \in sweep.todo : ItemFits(j)' /\ (j.row = i.row => j = i)
      BY <1>0, <3>0, <3>1 DEF TreeFits, ItemsFit, ItemFits, SweepType, ItemType
    <3>3. ItemsFit'
      BY <1>0, <2>1, <3>0, <3>2 DEF TreeFits, ItemsFit, ItemFits, Recovering
    <3>4. ClaimFits'
      BY <2>1 DEF ClaimFits, Claimed
    <3> QED BY <1>0, <3>0, <3>3, <3>4, SweepKeeps, SameRows DEF Inv
  <2> QED BY <2>2, <2>3, <2>4 DEF Inv
<1> QED BY <1>1, <1>2, <1>3

(* The sweep is done with an item: it lets go of the path and goes on. *)
LEMMA LetsGoRegistered ==
  ASSUME TypeOK, Registered, NEW n \in {0, 1, 2}, n = SweepHolds(sweep), Unregister(n),
         sweep'.pc \in {"resume", "evict", "restore"}, UNCHANGED <<fix, import, placing>>,
         workers' = workers \ {"sweep"}
  PROVE  Registered' /\ purges' \in Nat
<1>1. purges' = purges - n /\ purges' \in Nat
  BY HoldsFew, LetsGo
<1>2. SweepHolds(sweep') = 0 /\ FixHolds(fix)' = FixHolds(fix) /\ FixHolds(fix) \in {0, 1, 2}
  BY HoldsFew DEF SweepHolds, FixHolds
<1>3. purges' = SweepHolds(sweep') + FixHolds(fix')
  BY <1>1, <1>2 DEF Registered, FixHolds
<1>4. sweep'.pc \notin Recovering \cup {"rboundary", "rdelete", "boundary1", "boundary2", "delete", "final"}
  BY DEF Recovering
<1> QED BY <1>1, <1>3, <1>4 DEF Registered, Recovering

LEMMA ItemsPassed ==
  ASSUME TypeOK, ItemsFit, NEW r \in Rows, Elsewhere(r), Resuming,
         sweep'.pc = "resume", sweep'.todo = sweep.todo, \A i \in sweep.todo : i.row # r
  PROVE  ItemsFit' /\ ClaimFits'
<1>0. \A i \in sweep.todo : i.row \in Rows \ {r}
  BY DEF TypeOK, SweepType, ItemType
<1>1. \A q \in Rows \ {r} : Loose(q)' = Loose(q)
  BY DEF Elsewhere, Same, Loose
<1>2. \A i \in sweep'.todo : ItemFits(i)'
  BY <1>0, <1>1 DEF ItemsFit, ItemFits, Elsewhere, Same
<1>3. \A i, j \in sweep'.todo : i.row = j.row => i = j
  BY DEF ItemsFit
<1>4. sweep'.pc \notin Recovering \cup Claimed
  BY DEF Recovering, Claimed
<1> QED BY <1>2, <1>3, <1>4 DEF ItemsFit, ClaimFits, Recovering

(* A row lets go of the tree. *)
LEMMA RowGone ==
  ASSUME TypeOK, TreeFits, NEW r \in Rows, Elsewhere(r), ~row'[r].path,
         row'[r].status \notin REPORTABLE,
         disk = "partial" => \E q \in Rows \ {r} : _partial_delete_still_armed(q),
         disk' = disk
  PROVE  RowsFit' /\ \A q \in Rows : Loose(q)' => Loose(q)
<1>1. \A q \in Rows \ {r} : /\ Loose(q)' = Loose(q)
                            /\ _partial_delete_still_armed(q) => _partial_delete_still_armed(q)'
  BY DEF Elsewhere, Same, Loose, _partial_delete_still_armed
<1>2. ~Loose(r)'
  BY DEF Loose
<1>3. \A q \in Rows : Loose(q)' => Loose(q)
  BY <1>1, <1>2
<1>4. /\ \A p, q \in Rows : Loose(p)' /\ Loose(q)' => p = q
      /\ \A q \in Rows : Loose(q)' => disk' = "intact"
  BY <1>3 DEF TreeFits, RowsFit
<1>5. /\ \A q \in Rows : row'[q].status \in REPORTABLE => Loose(q)'
      /\ \A q \in Rows : row'[q].status = "absent" => ~row'[q].path
  BY <1>1 DEF TreeFits, RowsFit, Elsewhere, Same
<1>6. disk' = "partial" => \E q \in Rows : _partial_delete_still_armed(q)'
  BY <1>1
<1> QED BY <1>3, <1>4, <1>5, <1>6 DEF RowsFit

LEMMA RowLetsGo ==
  ASSUME TypeOK, TreeFits, NEW r \in Rows, Elsewhere(r), ~row'[r].path,
         row'[r].status \notin REPORTABLE, fix.pc \notin Published,
         disk = "partial" => \E q \in Rows \ {r} : _partial_delete_still_armed(q),
         UNCHANGED <<disk, fix, import>>
  PROVE  RowsFit' /\ ImportFits' /\ FixFits'
<1>1. RowsFit' /\ \A q \in Rows : Loose(q)' => Loose(q)
  BY RowGone
<1>2. ImportFits' /\ FixFits'
  BY <1>1 DEF TreeFits, ImportFits, FixFits
<1> QED BY <1>1, <1>2

(* A row that alone names a whole tree is loose again, or still. *)
LEMMA RowLoosened ==
  ASSUME TypeOK, TreeFits, NEW r \in Rows, Elsewhere(r), row'[r].path, ~row'[r].mark,
         row'[r].status # "absent", \A q \in Rows \ {r} : ~Loose(q), disk' = "intact"
  PROVE  RowsFit'
<1>1. \A q \in Rows \ {r} : ~Loose(q)'
  BY DEF Elsewhere, Same, Loose
<1>2. Loose(r)'
  BY DEF Loose
<1>3. /\ \A q \in Rows : row'[q].status \in REPORTABLE => Loose(q)'
      /\ \A q \in Rows : row'[q].status = "absent" => ~row'[q].path
  BY <1>2 DEF TreeFits, RowsFit, Elsewhere, Same
<1> QED BY <1>1, <1>3 DEF RowsFit

LEMMA Loosened ==
  ASSUME TypeOK, TreeFits, NEW r \in Rows, Elsewhere(r), row'[r].path, ~row'[r].mark,
         row'[r].status # "absent", \A q \in Rows \ {r} : ~Loose(q),
         disk = "intact", import.pc # "finalize", fix.pc \notin Published,
         UNCHANGED <<disk, fix, import>>
  PROVE  RowsFit' /\ ImportFits' /\ FixFits'
<1>1. RowsFit'
  BY RowLoosened
<1>2. ImportFits' /\ FixFits'
  BY DEF TreeFits, ImportFits, FixFits
<1> QED BY <1>1, <1>2

(* A loose row stays loose, whatever its status becomes. *)
LEMMA LooseStays ==
  ASSUME TypeOK, TreeFits, NEW r \in Rows, Elsewhere(r), Loose(r), row'[r].path, ~row'[r].mark,
         row'[r].status # "absent", UNCHANGED <<disk, fix, import>>
  PROVE  RowsFit' /\ ImportFits' /\ FixFits'
<1>1. /\ disk = "intact" /\ import.pc # "finalize" /\ fix.pc \notin Published
      /\ \A q \in Rows \ {r} : ~Loose(q)
  BY DEF TreeFits, RowsFit, ImportFits, FixFits
<1> QED BY <1>1, Loosened

LEMMA Restores ==
  ASSUME TypeOK, NEW r \in Rows, row' = _restore_after_failed_delete(r)
  PROVE  /\ row' \in [Rows -> RowType] /\ Elsewhere(r)
         /\ row'[r].path = row[r].path /\ ~row'[r].mark
         /\ row'[r].status \in {row[r].status, "available"}
<1> DEFINE rec == [row[r] EXCEPT !.mark = FALSE]
           back == [rec EXCEPT !.status = "available"]
           disarmed == [row EXCEPT ![r] = rec]
           restored == [row EXCEPT ![r] = back]
<1>1. /\ rec \in RowType /\ rec.path = row[r].path /\ ~rec.mark /\ rec.status = row[r].status
      /\ back \in RowType /\ back.path = row[r].path /\ ~back.mark /\ back.status = "available"
  BY DEF TypeOK, RowType, Statuses
<1>2. [row EXCEPT ![r].mark = FALSE] = disarmed /\ [disarmed EXCEPT ![r].status = "available"] = restored
  BY DEF TypeOK
<1> HIDE DEF rec, back
<1>3. /\ disarmed \in [Rows -> RowType] /\ restored \in [Rows -> RowType]
      /\ disarmed[r] = rec /\ restored[r] = back
      /\ \A q \in Rows \ {r} : disarmed[q] = row[q] /\ restored[q] = row[q]
  BY <1>1 DEF TypeOK
<1>4. \/ row' = CancelRegrabs(restored, r) \/ row' = restored \/ row' = disarmed
  <2> HIDE DEF disarmed, restored
  <2>1. CASE row[r].status = "evicted"
    BY <1>2, <2>1 DEF _restore_after_failed_delete, PRE_GRAB
  <2>2. CASE kind = "tv" /\ row[r].status \in PRE_GRAB
    BY <1>2, <2>2 DEF _restore_after_failed_delete, PRE_GRAB
  <2>3. CASE row[r].status # "evicted" /\ ~(kind = "tv" /\ row[r].status \in PRE_GRAB)
    BY <1>2, <2>3 DEF _restore_after_failed_delete
  <2> QED BY <2>1, <2>2, <2>3
<1> HIDE DEF disarmed, restored
<1>5. CASE row' = disarmed
  BY <1>1, <1>3, <1>5 DEF Elsewhere, Same
<1>6. CASE row' = restored
  BY <1>1, <1>3, <1>6 DEF Elsewhere, Same
<1>7. CASE row' = CancelRegrabs(restored, r)
  <2>1. ASSUME NEW q \in Rows
        PROVE  /\ row'[q] \in RowType /\ row'[q].path = restored[q].path /\ row'[q].mark = restored[q].mark
               /\ row'[q].status \in {restored[q].status, "cancelled"} /\ (q = r => row'[q] = restored[q])
    BY <1>3, <1>7, <2>1 DEF CancelRegrabs, RowType, Statuses
  <2>2. row' = [q \in Rows |-> row'[q]]
    BY <1>7 DEF CancelRegrabs
  <2>3. row' \in [Rows -> RowType]
    BY <2>1, <2>2
  <2>4. Elsewhere(r)
    BY <1>3, <2>1 DEF Elsewhere, Same, REPORTABLE
  <2> QED BY <1>1, <1>3, <2>1, <2>3, <2>4
<1> QED BY <1>4, <1>5, <1>6, <1>7

LEMMA SkipKeeps ==
  ASSUME Inv, sweep.pc \in Recovering, NEW n \in {0, 1, 2}, n = SweepHolds(sweep), Unregister(n),
         NextItem("resume"), UNCHANGED <<db, disk, placing, lease, fix, import, bounds>>,
         workers' = workers \ {"sweep"}
  PROVE  Inv'
<1>1. sweep' \in SweepType /\ sweep'.pc = "resume" /\ sweep'.todo = sweep.todo
  BY NextItemSets DEF Inv, PCs
<1>2. Registered' /\ purges' \in Nat
  BY <1>1, LetsGoRegistered DEF Inv
<1>3. TypeOK'
  BY <1>1, <1>2 DEF Inv, TypeOK, db, bounds
<1>4. ~clash' => TreeFits'
  BY <1>1, ItemsLeft, SweepKeeps, SameRows DEF Inv, TreeFits, db, bounds, Resuming
<1> QED BY <1>2, <1>3, <1>4 DEF Inv

LEMMA NobodyWalks ==
  ASSUME Inv, sweep.pc \notin {"rdelete", "delete"}
  PROVE  workers \ {"sweep"} = workers
BY DEF Inv, Registered, TypeOK

LEMMA StatKeeps ==
  ASSUME Inv, StatItem
  PROVE  Inv'
<1>0. /\ sweep.pc = "stat" /\ SweepHolds(sweep) = 1 /\ sweep.pc \in Recovering
      /\ UNCHANGED <<kind, kept, xfer, cover, disk, placing, lease, fix, import, workers, bounds>>
  BY DEF StatItem, SweepHolds, Recovering
<1>1. CASE SkipItem
  <2>1. workers' = workers \ {"sweep"}
    BY <1>0, NobodyWalks
  <2> QED BY <1>0, <1>1, <2>1, SkipKeeps DEF SkipItem, db
<1>2. CASE disk = "gone" /\ ToFinal(1) /\ UNCHANGED <<row, purges>>
  <2>1. /\ sweep' \in SweepType /\ sweep'.pc = "rfinal" /\ sweep'.todo = sweep.todo
        /\ sweep'.at = sweep.at /\ sweep'.held = 1
    BY <1>2, ToFinalSets DEF Inv
  <2>2. TypeOK'
    BY <1>0, <1>2, <2>1 DEF Inv, TypeOK, bounds
  <2>3. Registered'
    <3>1. SweepHolds(sweep') = 1 /\ FixHolds(fix)' = FixHolds(fix)
      BY <1>0, <2>1 DEF SweepHolds, FixHolds
    <3> QED BY <1>0, <1>2, <2>1, <3>1 DEF Inv, Registered, SweepHolds, Recovering
  <2>4. ASSUME ~clash' PROVE TreeFits'
    <3>0. TreeFits /\ Quiet
      BY <1>0, <1>2, <2>4, SameRows DEF Inv, bounds
    <3>1. ItemsFit'
      <4>1. \A i \in sweep.todo : ItemFits(i)'
        BY <1>0, <1>2, <3>0 DEF TreeFits, ItemsFit, ItemFits, Loose, Resuming
      <4> QED BY <1>0, <1>2, <2>1, <3>0, <4>1 DEF TreeFits, ItemsFit, Resuming, Recovering
    <3>2. ClaimFits'
      BY <2>1 DEF ClaimFits, Claimed
    <3> QED BY <1>0, <3>0, <3>1, <3>2, SweepKeeps DEF Inv
  <2> QED BY <2>2, <2>3, <2>4 DEF Inv
<1>3. CASE To("decide") /\ UNCHANGED <<row, purges>>
  <2>1. /\ sweep' \in SweepType /\ sweep'.pc = "decide" /\ sweep'.todo = sweep.todo
        /\ sweep'.at = sweep.at
    BY <1>3, ToSets DEF Inv, PCs, Recovering
  <2>2. TypeOK'
    BY <1>0, <1>3, <2>1 DEF Inv, TypeOK, bounds
  <2>3. Registered'
    <3>1. SweepHolds(sweep') = 1 /\ FixHolds(fix)' = FixHolds(fix)
      BY <1>0, <2>1 DEF SweepHolds, FixHolds
    <3> QED BY <1>0, <1>3, <2>1, <3>1 DEF Inv, Registered, SweepHolds, Recovering
  <2>4. ASSUME ~clash' PROVE TreeFits'
    <3>0. TreeFits /\ Quiet
      BY <1>0, <1>3, <2>4, SameRows DEF Inv, bounds
    <3>1. ItemsFit'
      <4>1. \A i \in sweep.todo \cup {sweep.at} : ItemFits(i)'
        BY <1>0, <1>3, <3>0 DEF TreeFits, ItemsFit, ItemFits, Loose, Resuming
      <4>2. ItemFits(sweep.at)'
        BY <1>0, <1>3, <2>1, <3>0 DEF TreeFits, ItemsFit, ItemFits, Loose
      <4> QED BY <1>0, <1>3, <2>1, <3>0, <4>1, <4>2 DEF TreeFits, ItemsFit, Resuming, Recovering
    <3>2. ClaimFits'
      BY <2>1 DEF ClaimFits, Claimed
    <3> QED BY <1>0, <3>0, <3>1, <3>2, SweepKeeps DEF Inv
  <2> QED BY <2>2, <2>3, <2>4 DEF Inv
<1> QED BY <1>1, <1>2, <1>3 DEF StatItem

(* Of the row at hand, while a recovery holds the path: no correction has published. *)
LEMMA RecoveryAlone ==
  ASSUME Inv, ~clash, sweep.pc \in Recovering
  PROVE  fix.pc \notin Published /\ \A i \in sweep.todo : i.row # sweep.at.row
BY DEF Inv, Registered, FixHolds, TreeFits, FixFits, ItemsFit, Published

LEMMA ReleaseKeeps ==
  ASSUME Inv, sweep.pc = "decide", ReleaseStale(sweep.at),
         UNCHANGED <<kind, kept, xfer, cover, disk, placing, lease, fix, import, workers, bounds>>
  PROVE  Inv'
<1> DEFINE r == sweep.at.row
           statuses == IF kind = "tv" /\ sweep.at.seen # "evicted" THEN REARMED_OR_BLOCKED
                       ELSE STALE_BREADCRUMB_CLEAR
<1>0. r \in Rows /\ SweepHolds(sweep) = 1 /\ sweep.pc \in Recovering
  BY DEF Inv, TypeOK, SweepType, ItemType, SweepHolds, Recovering
<1>1. /\ sweep' \in SweepType /\ sweep'.pc = "resume" /\ sweep'.todo = sweep.todo
  BY NextItemSets DEF Inv, PCs, ReleaseStale
<1>2. workers' = workers \ {"sweep"}
  BY NobodyWalks
<1>3. Registered' /\ purges' \in Nat
  BY <1>0, <1>1, <1>2, LetsGoRegistered DEF Inv, ReleaseStale
<1> DEFINE rec == [row[r] EXCEPT !.path = FALSE, !.mark = FALSE]
<1>4. /\ row' = [row EXCEPT ![r] = rec] /\ row[r].path /\ row[r].status \in statuses
      \/ row' = row
  BY <1>0 DEF ReleaseStale, clear_library_path_if_set, Cleared, Inv, TypeOK
<1>5. rec \in RowType /\ ~rec.path /\ rec.status = row[r].status
  BY <1>0, ZenonT(60) DEF Inv, TypeOK, RowType
<1>6. \A s \in statuses : s \notin REPORTABLE
  BY DEF STALE_BREADCRUMB_CLEAR, REARMED_OR_BLOCKED, REARMED_RECOVERY, PRE_GRAB,
         MARKER_OWNED_ADVANCED, REPORTABLE
<1>7. _path_claimed_by_another_row(r)
  BY DEF ReleaseStale
<1> HIDE DEF rec, statuses
<1>8. CASE row' = row
  <2>1. TypeOK'
    BY <1>1, <1>3, <1>8 DEF Inv, TypeOK, bounds
  <2>2. ~clash' => TreeFits'
    BY <1>0, <1>1, <1>8, ItemsLeft, SweepKeeps, SameRows DEF Inv, TreeFits, bounds, Resuming
  <2> QED BY <1>3, <2>1, <2>2 DEF Inv
<1>9. CASE row' = [row EXCEPT ![r] = rec] /\ row[r].path /\ row[r].status \in statuses
  <2>1. row' \in [Rows -> RowType] /\ row'[r] = rec /\ \A q \in Rows \ {r} : row'[q] = row[q]
    BY <1>0, <1>5, <1>9, RowSet DEF Inv
  <2>2. TypeOK'
    BY <1>1, <1>3, <2>1 DEF Inv, TypeOK, bounds
  <2>3. ASSUME ~clash' PROVE TreeFits'
    <3>0. ~clash /\ TreeFits /\ TypeOK
      BY <2>3 DEF Inv, bounds
    <3>1. Elsewhere(r)
      BY <2>1 DEF Elsewhere, Same
    <3>2. disk = "partial" => \E q \in Rows \ {r} : _partial_delete_still_armed(q)
      BY <1>7, <3>0 DEF _path_claimed_by_another_row, TreeFits, RowsFit, Loose,
         _partial_delete_still_armed
    <3>3. fix.pc \notin Published /\ \A i \in sweep.todo : i.row # r
      BY <1>0, <3>0, RecoveryAlone
    <3>4. ~row'[r].path /\ row'[r].status \notin REPORTABLE
      BY <1>5, <1>6, <1>9, <2>1
    <3> HIDE DEF r
    <3>5. RowsFit' /\ ImportFits' /\ FixFits'
      BY <1>0, <3>0, <3>1, <3>2, <3>3, <3>4, RowLetsGo
    <3>6. ItemsFit' /\ ClaimFits'
      BY <1>0, <1>1, <3>0, <3>1, <3>3, ItemsPassed DEF TreeFits, Resuming
    <3> QED BY <3>5, <3>6 DEF TreeFits
  <2> QED BY <1>3, <2>2, <2>3 DEF Inv
<1> QED BY <1>4, <1>8, <1>9

LEMMA UnstartedKeeps ==
  ASSUME Inv, sweep.pc = "decide", RestoreUnstarted(sweep.at),
         UNCHANGED <<kind, kept, xfer, cover, disk, placing, lease, fix, import, workers, bounds>>
  PROVE  Inv'
<1> DEFINE r == sweep.at.row
<1>0. r \in Rows /\ SweepHolds(sweep) = 1 /\ sweep.pc \in Recovering
  BY DEF Inv, TypeOK, SweepType, ItemType, SweepHolds, Recovering
<1>1. /\ sweep' \in SweepType /\ sweep'.pc = "resume" /\ sweep'.todo = sweep.todo
  BY NextItemSets DEF Inv, PCs, RestoreUnstarted
<1>2. workers' = workers \ {"sweep"}
  BY NobodyWalks
<1>3. Registered' /\ purges' \in Nat
  BY <1>0, <1>1, <1>2, LetsGoRegistered DEF Inv, RestoreUnstarted
<1>4. \/ row' = _restore_after_failed_delete(r)
      \/ row' = [row EXCEPT ![r].status = "available"]
      \/ row' = row
  BY DEF RestoreUnstarted
<1>5. /\ row' \in [Rows -> RowType] /\ Elsewhere(r) /\ row'[r].path = row[r].path
      /\ ~row'[r].mark \/ row'[r].mark = row[r].mark
      /\ row'[r].status \in {row[r].status, "available"}
  <2>1. CASE row' = _restore_after_failed_delete(r)
    BY <1>0, <2>1, Restores DEF Inv
  <2>2. CASE row' = [row EXCEPT ![r].status = "available"]
    BY <1>0, <2>2, StatusSet DEF Inv, Statuses, Elsewhere, Same
  <2>3. CASE row' = row
    BY <1>0, <2>3 DEF Inv, TypeOK, Elsewhere, Same
  <2> QED BY <1>4, <2>1, <2>2, <2>3
<1>6. TypeOK'
  BY <1>1, <1>3, <1>5 DEF Inv, TypeOK, bounds
<1>7. ASSUME ~clash' PROVE TreeFits'
  <2>0. ~clash /\ TreeFits /\ TypeOK
    BY <1>7 DEF Inv, bounds
  <2>1. Loose(r) /\ row[r].status # "absent"
    BY <1>0, <2>0 DEF TreeFits, ItemsFit, ItemFits, RestoreUnstarted, RowsFit, Loose
  <2>2. row'[r].path /\ ~row'[r].mark /\ row'[r].status # "absent"
    BY <1>5, <2>1 DEF Loose
  <2>3. \A i \in sweep.todo : i.row # r
    BY <1>0, <2>0, RecoveryAlone
  <2> HIDE DEF r
  <2>4. RowsFit' /\ ImportFits' /\ FixFits'
    BY <1>0, <1>5, <2>0, <2>1, <2>2, LooseStays
  <2>5. ItemsFit' /\ ClaimFits'
    BY <1>0, <1>1, <1>5, <2>0, <2>3, ItemsPassed DEF TreeFits, Resuming
  <2> QED BY <2>4, <2>5 DEF TreeFits
<1> QED BY <1>3, <1>6, <1>7 DEF Inv

LEMMA RetryKeeps ==
  ASSUME Inv, sweep.pc = "decide", RetryDelete(sweep.at),
         UNCHANGED <<kind, kept, xfer, cover, disk, placing, lease, fix, import, workers, bounds>>
  PROVE  Inv'
<1>0. /\ SweepHolds(sweep) = 1 /\ sweep.pc \in Recovering /\ UNCHANGED db
      /\ workers' = workers \ {"sweep"}
  BY NobodyWalks DEF SweepHolds, Recovering, RetryDelete, db
<1>1. CASE Unregister(1) /\ NextItem("resume")
  BY <1>0, <1>1, SkipKeeps
<1>2. CASE placing = 0 /\ Register /\ To("rboundary")
  <2>1. /\ sweep' \in SweepType /\ sweep'.pc = "rboundary" /\ sweep'.todo = sweep.todo
        /\ sweep'.at = sweep.at
    BY <1>2, ToSets DEF Inv, PCs, Recovering
  <2>2. TypeOK'
    BY <1>0, <1>2, <2>1 DEF Inv, TypeOK, bounds, Register, db
  <2>3. Registered'
    <3>1. SweepHolds(sweep') = 2 /\ FixHolds(fix)' = FixHolds(fix) /\ FixHolds(fix) = 0
      BY <1>0, <2>1 DEF SweepHolds, FixHolds, Inv, Registered
    <3>2. purges' = SweepHolds(sweep') + FixHolds(fix)'
      BY <1>0, <1>2, <3>1 DEF Inv, Registered, Register
    <3> QED BY <1>0, <1>2, <2>1, <3>1, <3>2 DEF Inv, Registered, SweepHolds, Recovering
  <2>4. ASSUME ~clash' PROVE TreeFits'
    <3>0. TreeFits /\ Quiet /\ row' = row
      BY <1>0, <2>4, SameRows DEF Inv, bounds, db
    <3>1. ItemsFit'
      <4>1. \A i \in sweep.todo : ItemFits(i)'
        BY <1>0, <3>0 DEF TreeFits, ItemsFit, ItemFits, Loose, Resuming
      <4>2. sweep.at.mark
        BY DEF RetryDelete
      <4> QED BY <1>0, <2>1, <3>0, <4>1, <4>2 DEF TreeFits, ItemsFit, Resuming, Recovering
    <3>2. ClaimFits'
      BY <2>1 DEF ClaimFits, Claimed
    <3> QED BY <3>0, <3>1, <3>2, SweepKeeps DEF Inv
  <2> QED BY <2>2, <2>3, <2>4 DEF Inv
<1>3. placing \in {0, 1}
  BY DEF Inv, TypeOK
<1> QED BY <1>1, <1>2, <1>3 DEF RetryDelete

LEMMA DecideKeeps ==
  ASSUME Inv, DecideItem
  PROVE  Inv'
BY ReleaseKeeps, UnstartedKeeps, RetryKeeps DEF DecideItem

LEMMA BoundaryKeeps ==
  ASSUME Inv, _recovery_delete_boundary
  PROVE  Inv'
<1>0. /\ sweep.pc = "rboundary" /\ SweepHolds(sweep) = 2 /\ sweep.pc \in Recovering
      /\ UNCHANGED <<db, disk, placing, lease, fix, import, reports, grabs, crashes>>
      /\ sweep.at.row \in Rows
  BY DEF _recovery_delete_boundary, SweepHolds, Recovering, Inv, TypeOK, SweepType, ItemType
<1>1. CASE Unregister(2) /\ NextItem("resume") /\ UNCHANGED <<workers, clash>>
  <2>1. workers' = workers \ {"sweep"}
    BY <1>0, <1>1, NobodyWalks
  <2> QED BY <1>0, <1>1, <2>1, SkipKeeps DEF bounds
<1>2. CASE /\ RecoveryStillSafe(sweep.at)
           /\ workers' = workers \cup {"sweep"} /\ To("rdelete") /\ UNCHANGED purges
           /\ clash' = (clash \/ RestorableTwin(sweep.at.row))
  <2>1. /\ sweep' \in SweepType /\ sweep'.pc = "rdelete" /\ sweep'.todo = sweep.todo
        /\ sweep'.at = sweep.at
    BY <1>2, ToSets DEF Inv, PCs, Recovering
  <2>2. TypeOK'
    BY <1>0, <1>2, <2>1 DEF Inv, TypeOK, db
  <2>3. Registered'
    <3>1. SweepHolds(sweep') = 2 /\ FixHolds(fix)' = FixHolds(fix)
      BY <1>0, <2>1 DEF SweepHolds, FixHolds
    <3> QED BY <1>0, <1>2, <2>1, <3>1 DEF Inv, Registered, SweepHolds, Recovering
  <2>4. ASSUME ~clash' PROVE TreeFits'
    <3>0. TreeFits /\ Quiet /\ row' = row /\ ~RestorableTwin(sweep.at.row)
      BY <1>0, <1>2, <2>4, SameRows DEF Inv, db
    <3>1. ItemsFit'
      <4>1. \A i \in sweep.todo : ItemFits(i)'
        BY <1>0, <3>0 DEF TreeFits, ItemsFit, ItemFits, Loose, Resuming
      <4>2. _partial_delete_still_armed(sweep.at.row) /\ ~_path_claimed_by_another_row(sweep.at.row)
        BY <1>2 DEF RecoveryStillSafe
      <4>3. \A q \in Rows : ~Loose(q)
        BY <3>0, <4>2 DEF TreeFits, RowsFit, Loose, _path_claimed_by_another_row, RestorableTwin,
           _partial_delete_still_armed
      <4>4. _partial_delete_still_armed(sweep.at.row)' /\ \A q \in Rows : ~Loose(q)'
        BY <2>1, <3>0, <4>2, <4>3 DEF _partial_delete_still_armed, Loose
      <4> QED BY <1>0, <2>1, <3>0, <4>1, <4>4 DEF TreeFits, ItemsFit, Resuming, Recovering
    <3>2. ClaimFits'
      BY <2>1 DEF ClaimFits, Claimed
    <3> QED BY <1>0, <3>0, <3>1, <3>2, SweepKeeps DEF Inv
  <2> QED BY <2>2, <2>3, <2>4 DEF Inv
<1> QED BY <1>1, <1>2 DEF _recovery_delete_boundary

LEMMA RetrySettlesKeeps ==
  ASSUME Inv, RetrySettles
  PROVE  Inv'
<1>0. /\ sweep.pc = "rdelete" /\ SweepHolds(sweep) = 2 /\ sweep.pc \in Recovering
      /\ UNCHANGED <<db, disk, placing, lease, fix, import, bounds>>
      /\ workers' = workers \ {"sweep"}
  BY DEF RetrySettles, SweepHolds, Recovering
<1>1. CASE Unregister(2) /\ NextItem("resume")
  BY <1>0, <1>1, SkipKeeps
<1>2. CASE disk = "gone" /\ ToFinal(2) /\ UNCHANGED purges
  <2>1. /\ sweep' \in SweepType /\ sweep'.pc = "rfinal" /\ sweep'.todo = sweep.todo
        /\ sweep'.at = sweep.at /\ sweep'.held = 2
    BY <1>2, ToFinalSets DEF Inv
  <2>2. TypeOK'
    BY <1>0, <1>2, <2>1 DEF Inv, TypeOK, bounds, db
  <2>3. Registered'
    <3>1. SweepHolds(sweep') = 2 /\ FixHolds(fix)' = FixHolds(fix)
      BY <1>0, <2>1 DEF SweepHolds, FixHolds
    <3> QED BY <1>0, <1>2, <2>1, <3>1 DEF Inv, Registered, SweepHolds, Recovering
  <2>4. ASSUME ~clash' PROVE TreeFits'
    <3>0. TreeFits /\ Quiet /\ row' = row
      BY <1>0, <2>4, SameRows DEF Inv, bounds, db
    <3>1. ItemsFit'
      <4>1. \A i \in sweep.todo : ItemFits(i)'
        BY <1>0, <3>0 DEF TreeFits, ItemsFit, ItemFits, Loose, Resuming
      <4> QED BY <1>0, <1>2, <2>1, <3>0, <4>1 DEF TreeFits, ItemsFit, Resuming, Recovering
    <3>2. ClaimFits'
      BY <2>1 DEF ClaimFits, Claimed
    <3> QED BY <1>0, <3>0, <3>1, <3>2, SweepKeeps DEF Inv
  <2> QED BY <2>2, <2>3, <2>4 DEF Inv
<1> QED BY <1>1, <1>2 DEF RetrySettles

(* A finished delete: the breadcrumb goes with the marker, unless the row is in the library. *)
LEMMA Finalizes ==
  ASSUME TypeOK, NEW r \in Rows, NEW abandoned, row[r].path, row[r].status \notin REPORTABLE \cup {"absent"},
         row' = [row EXCEPT ![r] = Finalized(r, abandoned)]
  PROVE  /\ row' \in [Rows -> RowType] /\ Elsewhere(r)
         /\ ~row'[r].path /\ row'[r].status \notin REPORTABLE
<1> DEFINE a == [row[r] EXCEPT !.path = FALSE, !.mark = FALSE]
           c == [a EXCEPT !.mark = FALSE]
           d == [c EXCEPT !.status = "evicted"]
<1>1. row[r].status \in STALE_BREADCRUMB_CLEAR
  BY DEF TypeOK, RowType, Statuses, STALE_BREADCRUMB_CLEAR, REARMED_OR_BLOCKED, REARMED_RECOVERY,
     PRE_GRAB, MARKER_OWNED_ADVANCED, REPORTABLE
<1>2. clear_library_path_if_set(r, STALE_BREADCRUMB_CLEAR) = a
  BY <1>1 DEF clear_library_path_if_set, Cleared
<1>3. /\ c \in RowType /\ ~c.path /\ c.status = row[r].status
      /\ d \in RowType /\ ~d.path /\ d.status = "evicted"
  BY DEF TypeOK, RowType, Statuses
<1>4. Finalized(r, abandoned) \in {c, d}
  BY <1>2 DEF Finalized
<1> HIDE DEF a, c, d
<1>5. Finalized(r, abandoned) \in RowType
  BY <1>3, <1>4
<1>6. /\ row' \in [Rows -> RowType] /\ row'[r] = Finalized(r, abandoned)
      /\ \A q \in Rows \ {r} : row'[q] = row[q]
  BY <1>5, RowSet
<1> QED BY <1>3, <1>4, <1>6 DEF Elsewhere, Same, REPORTABLE

LEMMA RecoveryFinalKeeps ==
  ASSUME Inv, RecoveryFinalizes
  PROVE  Inv'
<1> DEFINE r == sweep.at.row
<1>0. /\ r \in Rows /\ sweep.pc = "rfinal" /\ SweepHolds(sweep) = sweep.held /\ sweep.pc \in Recovering
      /\ sweep.held \in {0, 1, 2} /\ Unregister(sweep.held) /\ NextItem("resume")
      /\ UNCHANGED <<kind, kept, xfer, cover, disk, placing, lease, fix, import, workers, bounds>>
  BY DEF Inv, TypeOK, SweepType, ItemType, SweepHolds, Recovering, RecoveryFinalizes
<1>1. workers' = workers \ {"sweep"}
  BY <1>0, NobodyWalks
<1>2. CASE row' = row
  BY <1>0, <1>1, <1>2, SkipKeeps DEF db
<1>3. ASSUME NEW abandoned, row[r].path, row[r].status \in STALE_BREADCRUMB_CLEAR,
             row' = [row EXCEPT ![r] = Finalized(r, abandoned)]
      PROVE  Inv'
  <2>1. row[r].status \notin REPORTABLE \cup {"absent"}
    BY <1>3 DEF STALE_BREADCRUMB_CLEAR, REARMED_OR_BLOCKED, REARMED_RECOVERY, PRE_GRAB,
       MARKER_OWNED_ADVANCED, REPORTABLE
  <2>2. /\ row' \in [Rows -> RowType] /\ Elsewhere(r) /\ ~row'[r].path /\ row'[r].status \notin REPORTABLE
    BY <1>0, <1>3, <2>1, Finalizes DEF Inv
  <2>3. sweep' \in SweepType /\ sweep'.pc = "resume" /\ sweep'.todo = sweep.todo
    BY <1>0, NextItemSets DEF Inv, PCs
  <2>4. Registered' /\ purges' \in Nat
    BY <1>0, <1>1, <2>3, LetsGoRegistered DEF Inv
  <2>5. TypeOK'
    BY <1>0, <2>2, <2>3, <2>4 DEF Inv, TypeOK, bounds
  <2>6. ASSUME ~clash' PROVE TreeFits'
    <3>0. ~clash /\ TreeFits /\ TypeOK
      BY <1>0, <2>6 DEF Inv, bounds
    <3>1. disk # "partial"
      BY <1>0, <3>0 DEF TreeFits, ItemsFit
    <3>2. fix.pc \notin Published /\ \A i \in sweep.todo : i.row # r
      BY <1>0, <3>0, RecoveryAlone
    <3> HIDE DEF r
    <3>3. RowsFit' /\ ImportFits' /\ FixFits'
      BY <1>0, <2>2, <3>0, <3>1, <3>2, RowLetsGo
    <3>4. ItemsFit' /\ ClaimFits'
      BY <1>0, <2>2, <2>3, <3>0, <3>2, ItemsPassed DEF TreeFits, Resuming
    <3> QED BY <3>3, <3>4 DEF TreeFits
  <2> QED BY <2>4, <2>5, <2>6 DEF Inv
<1> QED BY <1>2, <1>3 DEF RecoveryFinalizes

----------------------------------------------------------------------------
(* The evictions. *)

(* The one loose row is marked: no row is loose. *)
LEMMA RowMarked ==
  ASSUME TypeOK, TreeFits, NEW r \in Rows, Elsewhere(r), row'[r].path, row'[r].mark,
         row'[r].status \notin REPORTABLE \cup {"absent"}, \A q \in Rows \ {r} : ~Loose(q), disk' = disk
  PROVE  RowsFit' /\ \A q \in Rows : ~Loose(q)'
<1>1. \A q \in Rows : ~Loose(q)'
  BY DEF Elsewhere, Same, Loose
<1>2. /\ \A q \in Rows : row'[q].status \in REPORTABLE => Loose(q)'
      /\ \A q \in Rows : row'[q].status = "absent" => ~row'[q].path
  BY DEF TreeFits, RowsFit, Elsewhere, Same, Loose
<1>3. _partial_delete_still_armed(r)'
  BY DEF _partial_delete_still_armed
<1>4. RowsFit'
  BY <1>1, <1>2, <1>3 DEF RowsFit
<1> QED BY <1>1, <1>4

LEMMA PastRecovery ==
  ASSUME sweep'.pc \in {"idle", "evict", "watch"} \cup Claimed
  PROVE  ItemsFit' /\ (sweep'.pc \notin Claimed => ClaimFits')
BY DEF ItemsFit, ClaimFits, Resuming, Recovering, Claimed

(* Between two claims the sweep holds nothing and knows nothing. *)
LEMMA RoamingKeeps ==
  ASSUME Inv, sweep.pc \in {"resume", "evict", "watch"}, sweep' \in SweepType,
         sweep'.pc \in {"idle", "evict", "watch"}, lease' \in {"none", lease},
         UNCHANGED <<db, disk, purges, placing, fix, import, workers, bounds>>
  PROVE  Inv'
<1>1. TypeOK'
  BY DEF Inv, TypeOK, db, bounds
<1>2. SweepHolds(sweep) = 0 /\ SweepHolds(sweep') = 0 /\ FixHolds(fix)' = FixHolds(fix)
  BY DEF SweepHolds, FixHolds
<1>3. Registered'
  BY <1>2 DEF Inv, Registered, SweepHolds, Recovering
<1>4. sweep'.pc \notin Claimed
  BY DEF Claimed
<1>5. ~clash' => TreeFits'
  BY <1>4, PastRecovery, SweepKeeps, SameRows DEF Inv, db, bounds
<1> QED BY <1>1, <1>3, <1>5 DEF Inv

LEMMA RoamKeeps ==
  ASSUME Inv, StandDown \/ AssembleCandidates \/ SweepDone \/ _evict_one
  PROVE  Inv'
<1>0. sweep \in SweepType
  BY DEF Inv, TypeOK
<1>1. CASE StandDown \/ SweepDone
  BY <1>1, RoamingKeeps, IdleTypes DEF StandDown, SweepDone, SweepEnds
<1>2. CASE AssembleCandidates
  <2>0. \A r \in Rows : [row |-> r, seen |-> "available", mark |-> FALSE] \in ItemType
    BY DEF ItemType, Statuses
  <2>1. _candidates \subseteq ItemType
    BY <2>0 DEF _candidates
  <2>2. sweep' \in SweepType /\ sweep'.pc = "evict"
    BY <1>0, <1>2, <2>1 DEF AssembleCandidates, SweepType
  <2> QED BY <1>2, <2>2, RoamingKeeps DEF AssembleCandidates, registry
<1>3. CASE _evict_one
  <2>1. PICK i \in sweep.todo :
          \/ sweep' = [sweep EXCEPT !.todo = sweep.todo \ {i}, !.at = i, !.pc = "watch"]
          \/ sweep' = [sweep EXCEPT !.todo = sweep.todo \ {i}]
    BY <1>3 DEF _evict_one
  <2>2. i \in ItemType /\ sweep.pc = "evict"
    BY <1>0, <1>3 DEF SweepType, _evict_one
  <2>3. sweep' \in SweepType /\ sweep'.pc \in {"evict", "watch"}
    BY <1>0, <2>1, <2>2 DEF SweepType
  <2> QED BY <1>3, <2>2, <2>3, RoamingKeeps DEF _evict_one, registry
<1> QED BY <1>1, <1>2, <1>3

LEMMA ClaimKeeps ==
  ASSUME Inv, ClaimCandidate
  PROVE  Inv'
<1> DEFINE r == sweep.at.row
<1>0. /\ sweep.pc = "watch" /\ r \in Rows
      /\ UNCHANGED <<kind, kept, xfer, cover, disk, registry, fix, import, workers, bounds>>
  BY DEF ClaimCandidate, Inv, TypeOK, SweepType, ItemType
<1>1. CASE NextItem("evict") /\ UNCHANGED row
  <2>1. sweep' \in SweepType /\ sweep'.pc = "evict"
    BY <1>1, NextItemSets DEF Inv, PCs
  <2> QED BY <1>0, <1>1, <2>1, RoamingKeeps DEF registry, db
<1>2. CASE /\ row[r].status = "available" /\ row' = [row EXCEPT ![r].status = "evicted"] /\ To("claimed")
  <2>1. /\ row' \in [Rows -> RowType] /\ \A q \in Rows \ {r} : row'[q] = row[q]
        /\ row'[r].path = row[r].path /\ row'[r].mark = row[r].mark /\ row'[r].status = "evicted"
    BY <1>0, <1>2, StatusSet DEF Inv, Statuses
  <2>2. sweep' \in SweepType /\ sweep'.pc = "claimed" /\ sweep'.at = sweep.at
    BY <1>2, ToSets DEF Inv, PCs, Claimed
  <2>3. TypeOK'
    BY <1>0, <2>1, <2>2 DEF Inv, TypeOK, registry, bounds
  <2>4. Registered'
    <3>1. SweepHolds(sweep) = 0 /\ SweepHolds(sweep') = 0 /\ FixHolds(fix)' = FixHolds(fix)
      BY <1>0, <2>2 DEF SweepHolds, FixHolds
    <3> QED BY <1>0, <2>2, <3>1 DEF Inv, Registered, SweepHolds, Recovering, registry
  <2>5. ASSUME ~clash' PROVE TreeFits'
    <3>0. TreeFits /\ TypeOK
      BY <1>0, <2>5 DEF Inv, bounds
    <3>1. Quiet
      BY <1>0, <2>1 DEF Quiet, Same, REPORTABLE
    <3>2. Loose(r) /\ (\A q \in Rows \ {r} : ~Loose(q)) /\ fix.pc \notin Published
      BY <1>0, <1>2, <3>0 DEF TreeFits, RowsFit, FixFits, REPORTABLE
    <3>3. \A q \in Rows : Loose(q)' = Loose(q)
      BY <1>0, <3>0, <3>1, QuietRows DEF TreeFits
    <3>4. ClaimFits'
      BY <1>0, <2>1, <2>2, <3>2, <3>3 DEF ClaimFits, Loose, REPORTABLE
    <3>5. ItemsFit'
      BY <2>2, PastRecovery DEF Claimed
    <3> QED BY <1>0, <3>0, <3>1, <3>4, <3>5, SweepKeeps DEF registry
  <2> QED BY <2>3, <2>4, <2>5 DEF Inv
<1> QED BY <1>1, <1>2 DEF ClaimCandidate

(* The claim ends: the sweep lets go and turns to the next candidate. *)
LEMMA VerdictKeeps ==
  ASSUME Inv, NEW n \in {0, 1, 2}, n = SweepHolds(sweep), Unregister(n), NextItem("evict"),
         row' \in [Rows -> RowType], workers' = workers \ {"sweep"},
         ~clash => RowsFit' /\ ImportFits' /\ FixFits',
         UNCHANGED <<kind, kept, xfer, cover, disk, placing, lease, fix, import, bounds>>
  PROVE  Inv'
<1>1. sweep' \in SweepType /\ sweep'.pc = "evict"
  BY NextItemSets DEF Inv, PCs
<1>2. Registered' /\ purges' \in Nat
  BY <1>1, LetsGoRegistered DEF Inv
<1>3. TypeOK'
  BY <1>1, <1>2 DEF Inv, TypeOK, bounds
<1>4. ItemsFit' /\ ClaimFits'
  BY <1>1, PastRecovery DEF Claimed
<1>5. ~clash' => TreeFits'
  BY <1>4 DEF TreeFits, bounds
<1> QED BY <1>2, <1>3, <1>5 DEF Inv

LEMMA NothingHeld ==
  ASSUME Inv, UNCHANGED purges
  PROVE  Unregister(0)
BY DEF Inv, TypeOK, Unregister

LEMMA CheckKeeps ==
  ASSUME Inv, CheckClaimed
  PROVE  Inv'
<1> DEFINE r == sweep.at.row
<1>0. /\ sweep.pc = "claimed" /\ r \in Rows /\ SweepHolds(sweep) = 0 /\ workers' = workers \ {"sweep"}
      /\ UNCHANGED <<kind, kept, xfer, cover, disk, placing, lease, fix, import, workers, bounds>>
  BY NobodyWalks DEF CheckClaimed, Inv, TypeOK, SweepType, ItemType, SweepHolds
<1>1. ~clash => /\ TreeFits /\ Loose(r) /\ (\A q \in Rows \ {r} : ~Loose(q)) /\ fix.pc \notin Published
                /\ disk = "intact" /\ import.pc # "finalize" /\ row[r].status # "absent"
  BY <1>0 DEF Inv, TreeFits, ClaimFits, RowsFit, ImportFits, Claimed, Loose
<1>2. ASSUME /\ row' \in [Rows -> RowType] /\ Elsewhere(r) /\ row'[r].path = row[r].path /\ ~row'[r].mark
             /\ row'[r].status \in {row[r].status, "available"}
             /\ NextItem("evict") /\ UNCHANGED purges
      PROVE  Inv'
  <2>1. ~clash => row'[r].path /\ row'[r].status # "absent"
    BY <1>1, <1>2 DEF Loose
  <2> HIDE DEF r
  <2>2. ~clash => RowsFit' /\ ImportFits' /\ FixFits'
    BY <1>0, <1>1, <1>2, <2>1, Loosened DEF Inv
  <2> QED BY <1>0, <1>2, <2>2, VerdictKeeps, NothingHeld
<1>3. CASE row' = _restore_after_failed_delete(r) /\ NextItem("evict") /\ UNCHANGED purges
  BY <1>0, <1>2, <1>3, Restores DEF Inv
<1>4. CASE row' = [row EXCEPT ![r].mark = FALSE] /\ NextItem("evict") /\ UNCHANGED purges
  <2>1. /\ row' \in [Rows -> RowType] /\ \A q \in Rows \ {r} : row'[q] = row[q]
        /\ row'[r].path = row[r].path /\ row'[r].mark = FALSE /\ row'[r].status = row[r].status
    BY <1>0, <1>4, MarkSet DEF Inv
  <2> QED BY <1>2, <1>4, <2>1 DEF Elsewhere, Same
<1>5. CASE placing = 0 /\ Register /\ To("boundary1") /\ UNCHANGED row
  <2>1. sweep' \in SweepType /\ sweep'.pc = "boundary1" /\ sweep'.at = sweep.at
    BY <1>5, ToSets DEF Inv, PCs, Claimed
  <2>2. TypeOK'
    BY <1>0, <1>5, <2>1 DEF Inv, TypeOK, bounds, Register
  <2>3. Registered'
    <3>1. SweepHolds(sweep') = 1 /\ FixHolds(fix)' = FixHolds(fix) /\ FixHolds(fix) \in {0, 1, 2}
      BY <1>0, <2>1, HoldsFew DEF SweepHolds, FixHolds, Inv
    <3>2. purges' = SweepHolds(sweep') + FixHolds(fix)'
      BY <1>0, <1>5, <3>1 DEF Inv, Registered, Register
    <3> QED BY <1>0, <1>5, <2>1, <3>2 DEF Inv, Registered, SweepHolds, Recovering
  <2>4. ASSUME ~clash' PROVE TreeFits'
    <3>0. ~clash /\ TreeFits /\ TypeOK
      BY <1>0, <2>4 DEF Inv, bounds
    <3>1. ClaimFits'
      BY <1>0, <1>5, <2>1, <3>0 DEF TreeFits, ClaimFits, Claimed, Loose
    <3>2. ItemsFit'
      BY <2>1, PastRecovery DEF Claimed
    <3> QED BY <1>0, <1>5, <3>0, <3>1, <3>2, SweepKeeps, SameRows
  <2> QED BY <2>2, <2>3, <2>4 DEF Inv
<1> QED BY <1>3, <1>4, <1>5 DEF CheckClaimed

(* Of an eviction past its check: it holds the path alone, and no import has it. *)
LEMMA ClaimKnows ==
  ASSUME Inv, ~clash, sweep.pc \in Claimed \ {"claimed"}
  PROVE  /\ sweep.at.row \in Rows /\ row[sweep.at.row].path /\ fix.pc \notin Published
         /\ row[sweep.at.row].status \notin REPORTABLE \cup {"absent"}
         /\ \A q \in Rows \ {sweep.at.row} : ~Loose(q)
         /\ import.pc # "finalize"
         /\ sweep.pc \in {"boundary1", "boundary2", "restore"} => disk = "intact"
<1> DEFINE r == sweep.at.row
<1>1. r \in Rows
  BY DEF Inv, TypeOK, SweepType, ItemType
<1>2. /\ row[r].path /\ fix.pc \notin Published /\ row[r].status \notin REPORTABLE
      /\ \A q \in Rows \ {r} : ~Loose(q)
      /\ sweep.pc = "restore" => import.pc # "finalize"
      /\ sweep.pc \in {"boundary2", "restore"} => disk = "intact"
      /\ sweep.pc = "boundary1" => Loose(r)
  BY <1>1 DEF Inv, TreeFits, ClaimFits, Claimed, Loose
<1>3. row[r].status # "absent" /\ (sweep.pc = "boundary1" => disk = "intact")
  BY <1>1, <1>2 DEF Inv, TreeFits, RowsFit
<1>4. sweep.pc # "restore" => import.pc = "idle"
  <2>1. sweep.pc # "restore" => placing = 0
    BY DEF Inv, Registered, Claimed
  <2> QED BY <2>1 DEF Inv, Registered
<1> QED BY <1>1, <1>2, <1>3, <1>4

(* A refused delete lets go of the path, and the row waits for its restore. *)
LEMMA RefusalKeeps ==
  ASSUME Inv, sweep.pc \in {"boundary1", "boundary2", "delete"}, Unregister(1), To("restore"),
         workers' = workers \ {"sweep"}, disk = "intact" \/ sweep.pc # "delete",
         UNCHANGED <<db, disk, placing, lease, fix, import, bounds>>
  PROVE  Inv'
<1>0. SweepHolds(sweep) = 1
  BY DEF SweepHolds
<1>1. sweep' \in SweepType /\ sweep'.pc = "restore" /\ sweep'.at = sweep.at
  BY ToSets DEF Inv, PCs, Claimed
<1>2. Registered' /\ purges' \in Nat
  BY <1>0, <1>1, LetsGoRegistered DEF Inv
<1>3. TypeOK'
  BY <1>1, <1>2 DEF Inv, TypeOK, bounds, db
<1>4. ASSUME ~clash' PROVE TreeFits'
  <2>0. ~clash /\ TreeFits /\ TypeOK /\ row' = row
    BY <1>4 DEF Inv, bounds, db
  <2>1. /\ sweep.at.row \in Rows /\ row[sweep.at.row].path /\ fix.pc \notin Published
        /\ row[sweep.at.row].status \notin REPORTABLE
        /\ \A q \in Rows \ {sweep.at.row} : ~Loose(q)
        /\ import.pc # "finalize"
        /\ disk = "intact"
    BY <2>0, ClaimKnows DEF Claimed
  <2>2. ClaimFits'
    BY <1>1, <2>0, <2>1 DEF ClaimFits, Loose
  <2>3. ItemsFit'
    BY <1>1, PastRecovery DEF Claimed
  <2> QED BY <2>0, <2>2, <2>3, SweepKeeps, SameRows
<1> QED BY <1>2, <1>3, <1>4 DEF Inv

LEMMA MarkKeeps ==
  ASSUME Inv, _mark_delete_started
  PROVE  Inv'
<1> DEFINE r == sweep.at.row
<1>0. /\ sweep.pc = "boundary1" /\ r \in Rows /\ SweepHolds(sweep) = 1 /\ workers' = workers \ {"sweep"}
      /\ UNCHANGED <<kind, kept, xfer, cover, disk, placing, lease, fix, import, workers, bounds>>
  BY NobodyWalks DEF _mark_delete_started, Inv, TypeOK, SweepType, ItemType, SweepHolds
<1>1. CASE Unregister(1) /\ To("restore") /\ UNCHANGED row
  BY <1>0, <1>1, RefusalKeeps DEF db
<1>2. CASE row' = [row EXCEPT ![r].mark = TRUE] /\ To("boundary2") /\ UNCHANGED purges
  <2>1. /\ row' \in [Rows -> RowType] /\ \A q \in Rows \ {r} : row'[q] = row[q]
        /\ row'[r].path = row[r].path /\ row'[r].mark /\ row'[r].status = row[r].status
    BY <1>0, <1>2, MarkSet DEF Inv
  <2>2. sweep' \in SweepType /\ sweep'.pc = "boundary2" /\ sweep'.at = sweep.at
    BY <1>2, ToSets DEF Inv, PCs, Claimed
  <2>3. TypeOK'
    BY <1>0, <1>2, <2>1, <2>2 DEF Inv, TypeOK, bounds
  <2>4. Registered'
    <3>1. SweepHolds(sweep') = 1 /\ FixHolds(fix)' = FixHolds(fix)
      BY <1>0, <2>2 DEF SweepHolds, FixHolds
    <3> QED BY <1>0, <1>2, <2>2, <3>1 DEF Inv, Registered, SweepHolds, Recovering
  <2>5. ASSUME ~clash' PROVE TreeFits'
    <3>0. ~clash /\ TreeFits /\ TypeOK
      BY <1>0, <2>5 DEF Inv, bounds
    <3>1. /\ row[r].path /\ fix.pc \notin Published
          /\ row[r].status \notin REPORTABLE \cup {"absent"}
          /\ \A q \in Rows \ {r} : ~Loose(q)
          /\ import.pc # "finalize" /\ disk = "intact"
      BY <1>0, <3>0, ClaimKnows DEF Claimed
    <3>2. Elsewhere(r)
      BY <2>1 DEF Elsewhere, Same
    <3>3. sweep'.at.row = r
      BY <2>2
    <3> HIDE DEF r
    <3>4. RowsFit' /\ \A q \in Rows : ~Loose(q)'
      BY <1>0, <2>1, <3>0, <3>1, <3>2, RowMarked
    <3>5. ImportFits' /\ FixFits'
      BY <1>0, <3>0, <3>1 DEF TreeFits, ImportFits, FixFits
    <3>6. ClaimFits'
      BY <1>0, <2>1, <2>2, <3>1, <3>3, <3>4 DEF ClaimFits
    <3>7. ItemsFit'
      BY <2>2, PastRecovery DEF Claimed
    <3> QED BY <3>4, <3>5, <3>6, <3>7 DEF TreeFits
  <2> QED BY <2>3, <2>4, <2>5 DEF Inv
<1> QED BY <1>1, <1>2 DEF _mark_delete_started

LEMMA StartKeeps ==
  ASSUME Inv, StartDelete
  PROVE  Inv'
<1> DEFINE r == sweep.at.row
<1>0. /\ sweep.pc = "boundary2" /\ r \in Rows /\ SweepHolds(sweep) = 1 /\ workers = workers \ {"sweep"}
      /\ UNCHANGED <<kind, kept, xfer, cover, disk, placing, lease, fix, import, bounds>>
  BY NobodyWalks DEF StartDelete, Inv, TypeOK, SweepType, ItemType, SweepHolds
<1>1. CASE Unregister(1) /\ To("restore") /\ UNCHANGED <<row, workers>>
  BY <1>0, <1>1, RefusalKeeps DEF db
<1>2. CASE /\ row' = [row EXCEPT ![r].mark = FALSE] /\ Unregister(1) /\ NextItem("evict")
           /\ UNCHANGED workers
  <2>1. /\ row' \in [Rows -> RowType] /\ \A q \in Rows \ {r} : row'[q] = row[q]
        /\ row'[r].path = row[r].path /\ row'[r].mark = FALSE /\ row'[r].status = row[r].status
    BY <1>0, <1>2, MarkSet DEF Inv
  <2>2. Elsewhere(r)
    BY <2>1 DEF Elsewhere, Same
  <2>3. ~clash => /\ row[r].path /\ fix.pc \notin Published
                  /\ row[r].status # "absent"
                  /\ \A q \in Rows \ {r} : ~Loose(q)
                  /\ import.pc # "finalize" /\ disk = "intact"
    BY <1>0, ClaimKnows DEF Claimed
  <2>4. ~clash => TreeFits
    BY DEF Inv
  <2> HIDE DEF r
  <2>5. ~clash => RowsFit' /\ ImportFits' /\ FixFits'
    BY <1>0, <2>1, <2>2, <2>3, <2>4, Loosened DEF Inv
  <2> QED BY <1>0, <1>2, <2>1, <2>5, VerdictKeeps
<1>3. CASE workers' = workers \cup {"sweep"} /\ To("delete") /\ UNCHANGED <<row, purges>>
  <2>1. sweep' \in SweepType /\ sweep'.pc = "delete" /\ sweep'.at = sweep.at
    BY <1>3, ToSets DEF Inv, PCs, Claimed
  <2>2. TypeOK'
    BY <1>0, <1>3, <2>1 DEF Inv, TypeOK, bounds
  <2>3. Registered'
    <3>1. SweepHolds(sweep') = 1 /\ FixHolds(fix)' = FixHolds(fix)
      BY <1>0, <2>1 DEF SweepHolds, FixHolds
    <3> QED BY <1>0, <1>3, <2>1, <3>1 DEF Inv, Registered, SweepHolds, Recovering
  <2>4. ASSUME ~clash' PROVE TreeFits'
    <3>0. ~clash /\ TreeFits /\ TypeOK
      BY <1>0, <2>4 DEF Inv, bounds
    <3>1. ClaimFits'
      BY <1>0, <1>3, <2>1, <3>0 DEF TreeFits, ClaimFits, Claimed, Loose
    <3>2. ItemsFit'
      BY <2>1, PastRecovery DEF Claimed
    <3> QED BY <1>0, <1>3, <3>0, <3>1, <3>2, SweepKeeps, SameRows
  <2> QED BY <2>2, <2>3, <2>4 DEF Inv
<1> QED BY <1>1, <1>2, <1>3 DEF StartDelete

LEMMA SettlesKeep ==
  ASSUME Inv, DeleteSettles
  PROVE  Inv'
<1>0. /\ sweep.pc = "delete" /\ SweepHolds(sweep) = 1 /\ workers' = workers \ {"sweep"}
      /\ UNCHANGED <<db, disk, placing, lease, fix, import, bounds>>
  BY DEF DeleteSettles, SweepHolds
<1>1. CASE disk = "gone" /\ To("final") /\ UNCHANGED purges
  <2>1. sweep' \in SweepType /\ sweep'.pc = "final" /\ sweep'.at = sweep.at
    BY <1>1, ToSets DEF Inv, PCs, Claimed
  <2>2. TypeOK'
    BY <1>0, <1>1, <2>1 DEF Inv, TypeOK, bounds, db
  <2>3. Registered'
    <3>1. SweepHolds(sweep') = 1 /\ FixHolds(fix)' = FixHolds(fix)
      BY <1>0, <2>1 DEF SweepHolds, FixHolds
    <3> QED BY <1>0, <1>1, <2>1, <3>1 DEF Inv, Registered, SweepHolds, Recovering
  <2>4. ASSUME ~clash' PROVE TreeFits'
    <3>0. ~clash /\ TreeFits /\ TypeOK /\ row' = row
      BY <1>0, <2>4 DEF Inv, bounds, db
    <3>1. ClaimFits'
      BY <1>0, <1>1, <2>1, <3>0 DEF TreeFits, ClaimFits, Claimed, Loose
    <3>2. ItemsFit'
      BY <2>1, PastRecovery DEF Claimed
    <3> QED BY <1>0, <3>0, <3>1, <3>2, SweepKeeps, SameRows
  <2> QED BY <2>2, <2>3, <2>4 DEF Inv
<1>2. CASE Unregister(1) /\ NextItem("evict")
  <2>1. row' \in [Rows -> RowType] /\ row' = row
    BY <1>0 DEF Inv, TypeOK, db
  <2>2. ~clash => RowsFit' /\ ImportFits' /\ FixFits'
    BY <1>0, <2>1, SameRows, QuietRows, QuietImport, QuietFix DEF Inv, TreeFits
  <2> QED BY <1>0, <1>2, <2>1, <2>2, VerdictKeeps DEF db
<1>3. CASE disk = "intact" /\ Unregister(1) /\ To("restore")
  BY <1>0, <1>3, RefusalKeeps
<1> QED BY <1>1, <1>2, <1>3 DEF DeleteSettles

LEMMA RestoreKeeps ==
  ASSUME Inv, RestoreClaim
  PROVE  Inv'
<1> DEFINE r == sweep.at.row
<1>0. /\ sweep.pc = "restore" /\ r \in Rows /\ SweepHolds(sweep) = 0 /\ workers' = workers \ {"sweep"}
      /\ row' = _restore_after_failed_delete(r) /\ NextItem("evict")
      /\ UNCHANGED <<kind, kept, xfer, cover, disk, purges, placing, lease, fix, import, workers, bounds>>
  BY NobodyWalks DEF RestoreClaim, Inv, TypeOK, SweepType, ItemType, SweepHolds, registry
<1>1. /\ row' \in [Rows -> RowType] /\ Elsewhere(r) /\ row'[r].path = row[r].path /\ ~row'[r].mark
      /\ row'[r].status \in {row[r].status, "available"}
  BY <1>0, Restores DEF Inv
<1>2. ~clash => /\ row[r].path /\ fix.pc \notin Published
                /\ row[r].status # "absent"
                /\ \A q \in Rows \ {r} : ~Loose(q)
                /\ import.pc # "finalize" /\ disk = "intact" /\ TreeFits
  BY <1>0, ClaimKnows DEF Claimed, Inv
<1>3. ~clash => row'[r].path /\ row'[r].status # "absent"
  BY <1>1, <1>2
<1> HIDE DEF r
<1>4. ~clash => RowsFit' /\ ImportFits' /\ FixFits'
  BY <1>0, <1>1, <1>2, <1>3, Loosened DEF Inv
<1> QED BY <1>0, <1>1, <1>4, VerdictKeeps, NothingHeld

LEMMA ClearedRow ==
  ASSUME TypeOK, NEW r \in Rows
  PROVE  /\ Cleared(r) \in RowType /\ row[r] \in RowType
         /\ ~Cleared(r).path /\ Cleared(r).status = row[r].status
BY ZenonT(60) DEF TypeOK, RowType, Cleared

LEMMA EvictionFinalKeeps ==
  ASSUME Inv, EvictionFinalizes
  PROVE  Inv'
<1> DEFINE r == sweep.at.row
           abandoned == IF kind = "tv" THEN {"cancelled"} ELSE {}
<1>0. /\ sweep.pc = "final" /\ r \in Rows /\ SweepHolds(sweep) = 1 /\ workers' = workers \ {"sweep"}
      /\ row' = [row EXCEPT ![r] = Finalized(r, abandoned)] /\ Unregister(1) /\ NextItem("evict")
      /\ UNCHANGED <<kind, kept, xfer, cover, disk, placing, lease, fix, import, workers, bounds>>
  BY NobodyWalks DEF EvictionFinalizes, Inv, TypeOK, SweepType, ItemType, SweepHolds
<1> HIDE DEF abandoned
<1>1. row' \in [Rows -> RowType]
  <2> DEFINE c == clear_library_path_if_set(r, STALE_BREADCRUMB_CLEAR)
             d == [c EXCEPT !.mark = FALSE]
             e == [d EXCEPT !.status = "evicted"]
  <2>0. Cleared(r) \in RowType /\ row[r] \in RowType
    BY <1>0, ClearedRow DEF Inv
  <2>1. c \in RowType
    BY <2>0 DEF clear_library_path_if_set
  <2> HIDE DEF c
  <2>2. d \in RowType /\ e \in RowType
    BY <2>1 DEF RowType, Statuses
  <2>3. Finalized(r, abandoned) \in {d, e}
    BY DEF Finalized, c
  <2> HIDE DEF d, e
  <2>4. Finalized(r, abandoned) \in RowType
    BY <2>2, <2>3
  <2> QED BY <1>0, <2>4, RowSet DEF Inv
<1>2. ASSUME ~clash PROVE RowsFit' /\ ImportFits' /\ FixFits'
  <2>1. /\ row[r].path /\ fix.pc \notin Published
        /\ row[r].status \notin REPORTABLE \cup {"absent"} /\ TreeFits /\ TypeOK
    BY <1>0, <1>2, ClaimKnows DEF Claimed, Inv
  <2>2. disk = "gone"
    BY <1>0, <2>1 DEF TreeFits, ClaimFits, Claimed
  <2> HIDE DEF r
  <2>3. Elsewhere(r) /\ ~row'[r].path /\ row'[r].status \notin REPORTABLE
    BY <1>0, <2>1, Finalizes
  <2> QED BY <1>0, <2>1, <2>2, <2>3, RowLetsGo
<1> QED BY <1>0, <1>1, <1>2, VerdictKeeps

----------------------------------------------------------------------------
(* The correction. *)

(* A step of the correction that leaves the rows alone answers for the correction alone. *)
LEMMA FixKeeps ==
  ASSUME TypeOK, TreeFits, row' = row, UNCHANGED <<disk, sweep, import>>, FixFits',
         fix'.pc \in Published => fix.pc \in Published
  PROVE  TreeFits'
BY SameRows, QuietRows, QuietImport, QuietItems, QuietClaim DEF TreeFits

LEMMA IdleFixFits ==
  ASSUME fix' = IdleFix PROVE FixFits'
BY IdleTypes DEF FixFits, Published

LEMMA ReportKeeps ==
  ASSUME Inv, NEW r \in Rows, report_issue(r)
  PROVE  Inv'
<1>0. /\ row[r].status \in REPORTABLE /\ fix.pc = "idle" /\ reports' = reports + 1
      /\ UNCHANGED <<db, disk, registry, sweep, import, workers, clash, grabs, crashes>>
      /\ fix' = [IdleFix EXCEPT !.pc = "claim", !.row = r, !.path = row[r].path]
  BY DEF report_issue
<1>1. /\ fix' \in FixType /\ fix'.pc = "claim" /\ fix'.row = r /\ fix'.path = row[r].path
      /\ fix'.out = "intact"
  <2>1. row[r].path \in BOOLEAN
    BY DEF Inv, TypeOK, RowType
  <2> QED BY <1>0, <2>1 DEF IdleFix, FixType, Trees
<1>2. TypeOK'
  BY <1>0, <1>1 DEF Inv, TypeOK, db, registry
<1>3. Registered'
  <2>1. FixHolds(fix) = 0 /\ FixHolds(fix') = 0 /\ SweepHolds(sweep)' = SweepHolds(sweep)
    BY <1>0, <1>1 DEF FixHolds, SweepHolds
  <2> QED BY <1>0, <1>1, <2>1 DEF Inv, Registered, FixHolds, registry
<1>4. ASSUME ~clash' PROVE TreeFits'
  <2>0. TreeFits /\ TypeOK /\ row' = row
    BY <1>0, <1>4 DEF Inv, db
  <2>1. row[r].path
    BY <1>0, <2>0 DEF TreeFits, RowsFit, Loose
  <2>2. FixFits' /\ fix'.pc \notin Published
    BY <1>1, <2>1 DEF FixFits, Published
  <2> QED BY <1>0, <2>0, <2>2, FixKeeps
<1> QED BY <1>2, <1>3, <1>4 DEF Inv

(* The correction gives up or is done: it lets go of the path if it holds it. *)
LEMMA FixEnds ==
  ASSUME Inv, fix.pc \in {"publish", "record"}, EndClaim, fix' = IdleFix, UNCHANGED <<sweep, import, placing, workers>>
  PROVE  Registered' /\ purges' \in Nat
<1>1. fix'.pc = "idle" /\ FixHolds(fix') = 0 /\ SweepHolds(sweep)' = SweepHolds(sweep)
  BY IdleTypes DEF FixHolds, SweepHolds
<1>2. purges' = SweepHolds(sweep) /\ purges' \in Nat
  <2>1. CASE fix.path
    <3>1. FixHolds(fix) = 1 /\ Unregister(1)
      BY <2>1 DEF FixHolds, EndClaim
    <3>2. purges' = purges - 1 /\ purges' \in Nat
      BY <3>1, LetsGo DEF Inv
    <3> QED BY <3>1, <3>2, HoldsFew DEF Inv, Registered
  <2>2. CASE ~fix.path
    BY <2>2, HoldsFew DEF FixHolds, EndClaim, Inv, Registered, TypeOK
  <2> QED BY <2>1, <2>2
<1>3. FixHolds(fix)' = 0
  BY <1>1 DEF FixHolds
<1>4. purges' = SweepHolds(sweep)' + FixHolds(fix)'
  BY <1>1, <1>2, <1>3, HoldsFew DEF Inv
<1> QED BY <1>1, <1>2, <1>3, <1>4 DEF Inv, Registered

LEMMA ClaimPathKeeps ==
  ASSUME Inv, ClaimPath
  PROVE  Inv'
<1>0. /\ fix.pc = "claim" /\ FixHolds(fix) = 0 /\ fix \in FixType
      /\ UNCHANGED <<db, disk, placing, sweep, import, workers, bounds>>
      /\ SweepHolds(sweep)' = SweepHolds(sweep) /\ SweepHolds(sweep) \in {0, 1, 2}
  BY HoldsFew DEF ClaimPath, FixHolds, Inv, TypeOK, SweepHolds
<1>1. CASE fix' = IdleFix /\ UNCHANGED <<purges, lease>>
  <2>1. fix' \in FixType /\ fix'.pc = "idle" /\ FixHolds(fix') = 0 /\ FixHolds(fix)' = 0
    BY <1>1, IdleTypes DEF FixHolds
  <2>2. TypeOK'
    BY <1>0, <1>1, <2>1 DEF Inv, TypeOK, db, bounds
  <2>3. Registered'
    BY <1>0, <1>1, <2>1 DEF Inv, Registered
  <2>4. ~clash' => TreeFits'
    BY <1>0, <1>1, <2>1, IdleFixFits, FixKeeps DEF Inv, db, bounds, Published
  <2> QED BY <2>2, <2>3, <2>4 DEF Inv
<1>2. CASE /\ fix.path /\ begin_purge /\ lease' = IF lease = "held" THEN "revoked" ELSE lease
           /\ fix' = [fix EXCEPT !.pc = "publish"]
  <2>1. fix' \in FixType /\ fix'.pc = "publish" /\ fix'.path /\ fix'.out = fix.out
    BY <1>0, <1>2 DEF FixType
  <2>2. TypeOK'
    BY <1>0, <1>2, <2>1 DEF Inv, TypeOK, db, bounds, begin_purge
  <2>3. Registered'
    <3>1. SweepHolds(sweep) = 0 /\ purges' = 1 /\ FixHolds(fix)' = 1
      BY <1>0, <1>2, <2>1 DEF Inv, Registered, begin_purge, FixHolds
    <3>2. sweep.pc \notin Recovering
      BY <3>1 DEF SweepHolds, Recovering, Inv, Registered
    <3> QED BY <1>0, <1>2, <2>1, <3>1, <3>2 DEF Inv, Registered
  <2>4. ASSUME ~clash' PROVE TreeFits'
    <3>0. TreeFits /\ TypeOK /\ row' = row
      BY <1>0, <2>4 DEF Inv, db, bounds
    <3>1. FixFits' /\ fix'.pc \notin Published
      BY <1>0, <2>1, <3>0 DEF TreeFits, FixFits, Published
    <3> QED BY <1>0, <3>0, <3>1, FixKeeps
  <2> QED BY <2>2, <2>3, <2>4 DEF Inv
<1>3. CASE ~fix.path /\ fix' = [fix EXCEPT !.pc = "publish"] /\ UNCHANGED <<purges, lease>>
  <2>1. fix' \in FixType /\ fix'.pc = "publish" /\ ~fix'.path /\ fix'.out = fix.out
    BY <1>0, <1>3 DEF FixType
  <2>2. TypeOK'
    BY <1>0, <1>3, <2>1 DEF Inv, TypeOK, db, bounds
  <2>3. Registered'
    <3>1. FixHolds(fix)' = 0
      BY <2>1 DEF FixHolds
    <3> QED BY <1>0, <1>3, <2>1, <3>1 DEF Inv, Registered
  <2>4. ~clash' => FALSE
    BY <1>0, <1>3 DEF Inv, TreeFits, FixFits, bounds
  <2> QED BY <2>2, <2>3, <2>4 DEF Inv
<1> QED BY <1>1, <1>2, <1>3 DEF ClaimPath

(* The items of a pass between two rows, when a correction or an import moves a row. *)
LEMMA ItemsApart ==
  ASSUME TypeOK, ItemsFit, UNCHANGED sweep, sweep.pc \notin Recovering, NEW r \in Rows, Elsewhere(r),
         \A i \in sweep.todo : Resuming /\ i.row = r => i.mark
  PROVE  ItemsFit'
<1>0. \A i \in sweep.todo : i.row \in Rows
  BY DEF TypeOK, SweepType, ItemType
<1>1. \A q \in Rows \ {r} : Loose(q)' = Loose(q)
  BY DEF Elsewhere, Same, Loose
<1>2. Resuming => \A i \in sweep.todo : ItemFits(i)'
  BY <1>0, <1>1 DEF ItemsFit, ItemFits, Elsewhere, Same
<1> QED BY <1>2 DEF ItemsFit, Resuming, Recovering

LEMMA PublishKeeps ==
  ASSUME Inv, PublishSearching
  PROVE  Inv'
<1> DEFINE r == fix.row
<1>0. /\ fix.pc = "publish" /\ fix \in FixType /\ r \in Rows
      /\ UNCHANGED <<kind, kept, xfer, cover, disk, placing, lease, sweep, import, workers,
                     reports, grabs, crashes>>
  BY DEF PublishSearching, Inv, TypeOK, FixType
<1>1. CASE EndClaim /\ fix' = IdleFix /\ UNCHANGED <<row, clash>>
  <2>1. Registered' /\ purges' \in Nat
    BY <1>0, <1>1, FixEnds
  <2>2. TypeOK'
    BY <1>0, <1>1, <2>1, IdleTypes DEF Inv, TypeOK
  <2>3. ~clash' => TreeFits'
    BY <1>0, <1>1, IdleFixFits, IdleTypes, FixKeeps DEF Inv, Published
  <2> QED BY <2>1, <2>2, <2>3 DEF Inv
<1>2. CASE /\ row' = [row EXCEPT ![fix.row].status = "pre_grab", ![fix.row].regrab = FALSE,
                                 ![fix.row].mark = fix.path]
           /\ clash' = (clash \/ row[fix.row].status \notin REPORTABLE)
           /\ fix' = [fix EXCEPT !.pc = "torrent"] /\ UNCHANGED purges
  <2> DEFINE rec == [row[r] EXCEPT !.status = "pre_grab", !.regrab = FALSE, !.mark = fix.path]
  <2>1. /\ rec \in RowType /\ rec.path = row[r].path /\ rec.mark = fix.path /\ rec.status = "pre_grab"
    BY <1>0, ZenonT(60) DEF Inv, TypeOK, RowType, Statuses, FixType
  <2>2. row' = [row EXCEPT ![r] = rec]
    BY <1>0, <1>2 DEF Inv, TypeOK
  <2> HIDE DEF rec
  <2>3. row' \in [Rows -> RowType] /\ row'[r] = rec /\ \A q \in Rows \ {r} : row'[q] = row[q]
    BY <1>0, <2>1, <2>2, RowSet DEF Inv
  <2>4. fix' \in FixType /\ fix'.pc = "torrent" /\ fix'.path = fix.path /\ fix'.out = fix.out /\ fix'.row = r
    BY <1>0, <1>2 DEF FixType, Published
  <2>5. TypeOK'
    BY <1>0, <1>2, <2>3, <2>4 DEF Inv, TypeOK
  <2>6. Registered'
    <3>1. FixHolds(fix)' = FixHolds(fix) /\ SweepHolds(sweep)' = SweepHolds(sweep)
      BY <1>0, <2>4 DEF FixHolds, SweepHolds
    <3> QED BY <1>0, <1>2, <2>4, <3>1 DEF Inv, Registered
  <2>7. ASSUME ~clash' PROVE TreeFits'
    <3>0. ~clash /\ TreeFits /\ TypeOK /\ row[r].status \in REPORTABLE
      BY <1>2, <2>7 DEF Inv
    <3>1. /\ Loose(r) /\ disk = "intact" /\ import.pc # "finalize" /\ fix.path /\ fix.out = "intact"
          /\ \A q \in Rows \ {r} : ~Loose(q)
      BY <1>0, <3>0 DEF TreeFits, RowsFit, ImportFits, FixFits
    <3>2. sweep.pc \notin Recovering
      BY <1>0, <3>1 DEF Inv, Registered, FixHolds
    <3>3. sweep.pc \notin Claimed
      <4> DEFINE a == sweep.at.row
      <4>1. a \in Rows
        BY <3>0 DEF TypeOK, SweepType, ItemType
      <4>2. sweep.pc \in Claimed => row[a].status \notin REPORTABLE /\ \A q \in Rows \ {a} : ~Loose(q)
        BY <3>0 DEF TreeFits, ClaimFits
      <4> QED BY <1>0, <3>0, <3>1, <4>1, <4>2
    <3>4. Elsewhere(r)
      BY <2>3 DEF Elsewhere, Same
    <3>5. row'[r].path /\ row'[r].mark /\ row'[r].status \notin REPORTABLE \cup {"absent"}
      BY <2>1, <2>3, <3>1 DEF Loose, REPORTABLE
    <3>6. \A i \in sweep.todo : Resuming /\ i.row = r => i.mark
      BY <3>0 DEF TreeFits, ItemsFit, ItemFits
    <3> HIDE DEF r
    <3>7. RowsFit' /\ \A q \in Rows : ~Loose(q)'
      BY <1>0, <3>0, <3>1, <3>4, <3>5, RowMarked
    <3>8. ItemsFit'
      BY <1>0, <3>0, <3>2, <3>4, <3>6, ItemsApart DEF TreeFits
    <3>9. ImportFits' /\ ClaimFits'
      BY <1>0, <3>1, <3>3 DEF ImportFits, ClaimFits
    <3>10. FixFits'
      BY <1>0, <2>4, <3>1, <3>5, <3>7 DEF FixFits, _partial_delete_still_armed, Published
    <3> QED BY <3>7, <3>8, <3>9, <3>10 DEF TreeFits
  <2> QED BY <2>5, <2>6, <2>7 DEF Inv
<1> QED BY <1>1, <1>2 DEF PublishSearching

(* A step of a published correction, up to its record. *)
LEMMA PurgingKeeps ==
  ASSUME Inv, fix.pc \in Published, fix' \in FixType, fix'.pc \in Published,
         fix'.row = fix.row, fix'.path = fix.path, purges' \in Nat, workers' \subseteq {"sweep", "fix"},
         Registered',
         fix'.pc = "purge" => fix'.out = fix.out /\ fix.pc = "torrent",
         fix'.pc = "record" => /\ fix'.out = IF fix.pc = "delete" THEN disk ELSE fix.out
                               /\ fix.pc \in {"torrent", "purge", "delete"},
         fix'.pc # "torrent",
         UNCHANGED <<db, disk, placing, lease, sweep, import, bounds>>
  PROVE  Inv'
<1>1. TypeOK'
  BY DEF Inv, TypeOK, db, bounds
<1>2. ASSUME ~clash' PROVE TreeFits'
  <2>0. TreeFits /\ TypeOK /\ row' = row /\ disk \in Trees
    BY <1>2 DEF Inv, db, bounds, TypeOK
  <2>1. /\ fix.path /\ _partial_delete_still_armed(fix.row) /\ (\A r \in Rows : ~Loose(r))
        /\ import.pc # "finalize"
        /\ fix.pc \in {"torrent", "purge"} => disk = "intact" /\ fix.out = "intact"
    BY <2>0 DEF TreeFits, FixFits, Published
  <2>2. fix.pc = "delete" => placing = 0
    BY DEF Inv, Registered
  <2>3. _partial_delete_still_armed(fix.row)' /\ \A r \in Rows : ~Loose(r)'
    BY <2>0, <2>1 DEF _partial_delete_still_armed, Loose
  <2>4. fix'.pc = "record" => fix'.out = disk /\ (disk # "intact" => placing = 0)
    BY <2>1, <2>2
  <2>5. FixFits'
    BY <2>1, <2>3, <2>4 DEF FixFits, Published
  <2> QED BY <2>0, <2>5, FixKeeps
<1> QED BY <1>1, <1>2 DEF Inv

LEMMA PurgeKeeps ==
  ASSUME Inv, RemoveCulprit \/ PurgeStarts \/ PurgeSettles
  PROVE  Inv'
<1>0. /\ fix \in FixType /\ fix.row \in Rows /\ fix.path \in BOOLEAN /\ fix.out \in Trees
      /\ UNCHANGED <<db, disk, placing, lease, sweep, import, bounds>>
      /\ purges = SweepHolds(sweep) + FixHolds(fix) /\ purges \in Nat /\ workers \subseteq {"sweep", "fix"}
      /\ SweepHolds(sweep) \in {0, 1, 2} /\ SweepHolds(sweep)' = SweepHolds(sweep) /\ disk \in Trees
  BY HoldsFew DEF RemoveCulprit, PurgeStarts, PurgeSettles, Inv, TypeOK, FixType, Registered, SweepHolds
<1> DEFINE at(pc) == [fix EXCEPT !.pc = pc]
<1>1. \A pc \in Published : /\ at(pc) \in FixType /\ at(pc).pc = pc /\ at(pc).row = fix.row
                            /\ at(pc).path = fix.path /\ at(pc).out = fix.out
  BY <1>0 DEF FixType
<1> HIDE DEF at
<1>2. CASE RemoveCulprit
  <2>1. CASE fix.path /\ placing = 0 /\ Register /\ fix' = at("purge") /\ fix.pc = "torrent" /\ workers' = workers
    <3>1. /\ fix' \in FixType /\ fix'.pc = "purge" /\ fix'.row = fix.row /\ fix'.path = fix.path
          /\ fix'.out = fix.out
      BY <1>1, <2>1 DEF Published
    <3>2. FixHolds(fix) = 1 /\ FixHolds(fix)' = 2 /\ purges' = purges + 1
      BY <2>1, <3>1 DEF FixHolds, Register
    <3>3. purges' = SweepHolds(sweep)' + FixHolds(fix)' /\ purges' \in Nat
      BY <1>0, <3>2
    <3>4. Registered'
      BY <1>0, <2>1, <3>1, <3>2, <3>3 DEF Inv, Registered
    <3> QED BY <1>0, <2>1, <3>1, <3>3, <3>4, PurgingKeeps DEF Published
  <2>2. CASE (~fix.path \/ placing > 0) /\ fix' = at("record") /\ UNCHANGED <<purges, workers>> /\ fix.pc = "torrent"
    <3>1. /\ fix' \in FixType /\ fix'.pc = "record" /\ fix'.row = fix.row /\ fix'.path = fix.path
          /\ fix'.out = fix.out
      BY <1>1, <2>2 DEF Published
    <3>2. FixHolds(fix)' = FixHolds(fix)
      BY <2>2, <3>1 DEF FixHolds
    <3>3. Registered'
      BY <1>0, <2>2, <3>1, <3>2 DEF Inv, Registered
    <3> QED BY <1>0, <2>2, <3>1, <3>3, PurgingKeeps DEF Published
  <2> QED BY <1>2, <2>1, <2>2 DEF RemoveCulprit, at
<1>3. CASE PurgeStarts
  <2>0. fix.pc = "purge" /\ FixHolds(fix) = 2
    BY <1>3 DEF PurgeStarts, FixHolds
  <2>1. CASE Unregister(1) /\ fix' = at("record") /\ UNCHANGED workers
    <3>1. /\ fix' \in FixType /\ fix'.pc = "record" /\ fix'.row = fix.row /\ fix'.path = fix.path
          /\ fix'.out = fix.out
      BY <1>1, <2>1 DEF Published
    <3>2. fix.path
      BY <2>0 DEF Inv, Registered
    <3>3. FixHolds(fix)' = 1 /\ purges' = purges - 1 /\ purges' \in Nat
      <4>1. FixHolds(fix)' = 1
        BY <3>1, <3>2 DEF FixHolds
      <4>2. 1 <= FixHolds(fix) /\ 1 \in {0, 1, 2}
        BY <2>0
      <4> QED BY <2>1, <4>1, <4>2, LetsGo DEF Inv
    <3>4. purges' = SweepHolds(sweep)' + FixHolds(fix)'
      BY <1>0, <2>0, <3>3
    <3>5. Registered'
      BY <1>0, <2>0, <2>1, <3>1, <3>3, <3>4 DEF Inv, Registered
    <3> QED BY <1>0, <2>0, <2>1, <3>1, <3>3, <3>5, PurgingKeeps DEF Published
  <2>2. CASE workers' = workers \cup {"fix"} /\ fix' = at("delete") /\ UNCHANGED purges
    <3>1. /\ fix' \in FixType /\ fix'.pc = "delete" /\ fix'.row = fix.row /\ fix'.path = fix.path
      BY <1>1, <2>2 DEF Published
    <3>2. FixHolds(fix)' = 2
      BY <3>1 DEF FixHolds
    <3>3. Registered'
      BY <1>0, <2>0, <2>2, <3>1, <3>2 DEF Inv, Registered
    <3> QED BY <1>0, <2>0, <2>2, <3>1, <3>3, PurgingKeeps DEF Published
  <2> QED BY <1>3, <2>1, <2>2 DEF PurgeStarts, at
<1>4. CASE PurgeSettles
  <2>0. /\ fix.pc = "delete" /\ FixHolds(fix) = 2 /\ workers' = workers \ {"fix"} /\ Unregister(1)
        /\ fix' = [fix EXCEPT !.pc = "record", !.out = disk]
    BY <1>4 DEF PurgeSettles, FixHolds
  <2>1. /\ fix' \in FixType /\ fix'.pc = "record" /\ fix'.row = fix.row /\ fix'.path = fix.path
        /\ fix'.out = disk
    BY <1>0, <2>0 DEF FixType, Published
  <2>2. fix.path
    BY <2>0 DEF Inv, Registered
  <2>3. FixHolds(fix)' = 1 /\ purges' = purges - 1 /\ purges' \in Nat
    <3>1. FixHolds(fix)' = 1
      BY <2>1, <2>2 DEF FixHolds
    <3>2. 1 <= FixHolds(fix) /\ 1 \in {0, 1, 2}
      BY <2>0
    <3> QED BY <2>0, <3>1, <3>2, LetsGo DEF Inv
  <2>4. purges' = SweepHolds(sweep)' + FixHolds(fix)'
    BY <1>0, <2>0, <2>3
  <2>5. Registered'
    BY <1>0, <2>0, <2>1, <2>3, <2>4 DEF Inv, Registered
  <2> QED BY <1>0, <2>0, <2>1, <2>3, <2>5, PurgingKeeps DEF Published
<1> QED BY <1>2, <1>3, <1>4

LEMMA RecordKeeps ==
  ASSUME Inv, RecordCorrection
  PROVE  Inv'
<1> DEFINE r == fix.row
<1>0. /\ fix.pc = "record" /\ r \in Rows /\ EndClaim /\ fix' = IdleFix /\ fix.out \in Trees
      /\ UNCHANGED <<kind, kept, xfer, cover, disk, placing, lease, sweep, import, workers, bounds>>
  BY DEF RecordCorrection, Inv, TypeOK, FixType
<1>1. Registered' /\ purges' \in Nat
  BY <1>0, FixEnds
<1>2. \/ row' = row
      \/ fix.path /\ fix.out = "gone" /\ row' = [row EXCEPT ![r] = Cleared(r)]
      \/ fix.path /\ fix.out = "intact" /\ row' = [row EXCEPT ![r].mark = FALSE]
  BY <1>0 DEF RecordCorrection, Trees
<1>3. ~clash => /\ TreeFits /\ TypeOK /\ sweep.pc \notin Recovering \cup Claimed
                /\ row[r].path /\ row[r].mark /\ (\A q \in Rows : ~Loose(q))
                /\ import.pc # "finalize" /\ fix.out = disk
                /\ row[r].status \notin REPORTABLE \cup {"absent"}
                /\ \A i \in sweep.todo : Resuming /\ i.row = r => i.mark
  <2>1. ~clash => /\ TreeFits /\ TypeOK /\ row[r].path /\ row[r].mark /\ (\A q \in Rows : ~Loose(q))
                  /\ import.pc # "finalize" /\ fix.out = disk /\ fix.path
    BY <1>0 DEF Inv, TreeFits, FixFits, Published, _partial_delete_still_armed
  <2>2. ~clash => sweep.pc \notin Recovering /\ sweep.pc \notin Claimed
    BY <1>0, <2>1 DEF Inv, Registered, FixHolds, TreeFits, ClaimFits, Published
  <2>3. ~clash => /\ row[r].status \notin REPORTABLE \cup {"absent"}
                  /\ \A i \in sweep.todo : Resuming /\ i.row = r => i.mark
    BY <1>0, <2>1 DEF TreeFits, RowsFit, ItemsFit, ItemFits
  <2> QED BY <2>1, <2>2, <2>3
<1>4. FixFits'
  BY <1>0, IdleFixFits
<1>5. ASSUME row' \in [Rows -> RowType], Elsewhere(r), ~clash => RowsFit'
      PROVE  Inv'
  <2>1. TypeOK'
    BY <1>0, <1>1, <1>5, IdleTypes DEF Inv, TypeOK, bounds
  <2>2. ASSUME ~clash' PROVE TreeFits'
    <3>0. ~clash
      BY <1>0, <2>2 DEF bounds
    <3> HIDE DEF r
    <3>1. ItemsFit'
      BY <1>0, <1>3, <1>5, <3>0, ItemsApart DEF TreeFits
    <3>2. ImportFits' /\ ClaimFits'
      BY <1>0, <1>3, <3>0 DEF ImportFits, ClaimFits
    <3> QED BY <1>4, <1>5, <3>0, <3>1, <3>2 DEF TreeFits
  <2> QED BY <1>1, <2>1, <2>2 DEF Inv
<1>6. CASE row' = row
  <2>1. ~clash => RowsFit'
    BY <1>0, <1>3, <1>6, SameRows, QuietRows DEF TreeFits
  <2> QED BY <1>5, <1>6, <2>1 DEF Inv, TypeOK, Elsewhere, Same
<1>7. CASE fix.out = "gone" /\ row' = [row EXCEPT ![r] = Cleared(r)]
  <2>1. /\ Cleared(r) \in RowType /\ ~Cleared(r).path /\ Cleared(r).status = row[r].status
    BY <1>0, ClearedRow DEF Inv
  <2>2. row' \in [Rows -> RowType] /\ row'[r] = Cleared(r) /\ \A q \in Rows \ {r} : row'[q] = row[q]
    BY <1>0, <1>7, <2>1, RowSet DEF Inv
  <2>3. Elsewhere(r)
    BY <2>2 DEF Elsewhere, Same
  <2>4. ~clash => ~row'[r].path /\ row'[r].status \notin REPORTABLE /\ disk = "gone"
    BY <1>3, <1>7, <2>1, <2>2
  <2>5. disk' = disk
    BY <1>0
  <2>6. ~clash => RowsFit'
    <3> HIDE DEF r
    <3> QED BY <1>0, <1>3, <2>3, <2>4, <2>5, RowGone
  <2> QED BY <1>5, <2>2, <2>3, <2>6
<1>8. CASE fix.out = "intact" /\ row' = [row EXCEPT ![r].mark = FALSE]
  <2>1. /\ row' \in [Rows -> RowType] /\ \A q \in Rows \ {r} : row'[q] = row[q]
        /\ row'[r].path = row[r].path /\ row'[r].mark = FALSE /\ row'[r].status = row[r].status
    BY <1>0, <1>8, MarkSet DEF Inv
  <2>2. Elsewhere(r)
    BY <2>1 DEF Elsewhere, Same
  <2>3. ~clash => row'[r].path /\ ~row'[r].mark /\ row'[r].status # "absent" /\ disk' = "intact"
    BY <1>0, <1>3, <1>8, <2>1
  <2>4. ~clash => RowsFit'
    <3> HIDE DEF r
    <3> QED BY <1>0, <1>3, <2>2, <2>3, RowLoosened
  <2> QED BY <1>5, <2>1, <2>2, <2>4
<1> QED BY <1>2, <1>6, <1>7, <1>8

----------------------------------------------------------------------------
(* The delete thread, the lives of the rows, and a crash. *)

LEMMA WorkerKeeps ==
  ASSUME Inv, WorkerDeletes
  PROVE  Inv'
<1>0. /\ workers # {} /\ disk' \in {"partial", "gone"}
      /\ UNCHANGED <<db, registry, sweep, fix, import, workers, bounds>>
      /\ "sweep" \in workers \/ "fix" \in workers
  BY DEF WorkerDeletes, Inv, TypeOK
<1>1. TypeOK'
  BY <1>0 DEF Inv, TypeOK, Trees, db, registry, bounds
<1>2. Registered'
  BY <1>0 DEF Inv, Registered, SweepHolds, FixHolds, registry
<1>3. ASSUME ~clash' PROVE TreeFits'
  <2>0. ~clash /\ TreeFits /\ row' = row /\ sweep.at.row \in Rows /\ fix.row \in Rows
    BY <1>0, <1>3 DEF Inv, TypeOK, SweepType, ItemType, FixType, db, bounds
  <2>1. import.pc = "idle" /\ sweep.pc \notin {"stat", "decide", "rfinal", "boundary2", "restore", "final"}
    BY <1>0, <2>0 DEF Inv, Registered, TreeFits, ClaimFits, Claimed, Published, FixHolds, Recovering
  <2>2. fix.pc \notin Published \ {"delete"} /\ (fix.pc = "delete" => sweep.pc \notin Claimed)
    BY <1>0, <2>0 DEF Inv, Registered, TreeFits, ClaimFits, FixFits, Claimed, Published, FixHolds, Recovering
  <2>3. (\A r \in Rows : ~Loose(r)) /\ \E r \in Rows : _partial_delete_still_armed(r)
    <3>1. CASE sweep.pc = "rdelete"
      BY <2>0, <3>1 DEF TreeFits, ItemsFit
    <3>2. CASE sweep.pc = "delete"
      BY <2>0, <3>2 DEF TreeFits, ClaimFits, Claimed, Loose, _partial_delete_still_armed
    <3>3. CASE fix.pc = "delete"
      BY <2>0, <3>3 DEF TreeFits, FixFits, Published
    <3> QED BY <1>0, <3>1, <3>2, <3>3 DEF Inv, Registered
  <2>4. RowsFit'
    <3>1. (\A r \in Rows : ~Loose(r)') /\ \E r \in Rows : _partial_delete_still_armed(r)'
      BY <2>0, <2>3 DEF Loose, _partial_delete_still_armed
    <3>2. \A r \in Rows : row[r].status \notin REPORTABLE /\ (row[r].status = "absent" => ~row[r].path)
      BY <2>0, <2>3 DEF TreeFits, RowsFit
    <3> QED BY <2>0, <3>1, <3>2 DEF RowsFit
  <2>5. ImportFits'
    BY <1>0, <2>1 DEF ImportFits
  <2>6. ItemsFit'
    <3>1. Resuming => \A i \in sweep.todo : ItemFits(i)'
      BY <1>0, <2>0 DEF TreeFits, ItemsFit, ItemFits, Loose
    <3>2. sweep.pc = "rdelete" => _partial_delete_still_armed(sweep.at.row)' /\ \A r \in Rows : ~Loose(r)'
      BY <1>0, <2>0 DEF TreeFits, ItemsFit, Loose, _partial_delete_still_armed
    <3> QED BY <1>0, <2>0, <2>1, <3>1, <3>2 DEF TreeFits, ItemsFit, Resuming
  <2>7. ClaimFits'
    BY <1>0, <2>0, <2>1, <2>2 DEF TreeFits, ClaimFits, Loose
  <2>8. FixFits'
    <3>1. fix.pc = "delete" => _partial_delete_still_armed(fix.row)' /\ \A r \in Rows : ~Loose(r)'
      BY <1>0, <2>0 DEF TreeFits, FixFits, Published, Loose, _partial_delete_still_armed
    <3> QED BY <1>0, <2>0, <2>1, <2>2, <3>1 DEF TreeFits, FixFits, Published
  <2> QED BY <2>4, <2>5, <2>6, <2>7, <2>8 DEF TreeFits
<1> QED BY <1>1, <1>2, <1>3 DEF Inv

(* The lives of the rows beside the actors; an import may end in them, but not begin. *)
LEMMA LifeKeeps ==
  ASSUME Inv, row' \in [Rows -> RowType], ~clash => Quiet, kept' \in BOOLEAN, cover' \in BOOLEAN,
         xfer' \in [Rows -> {"none", "transfer", "import"}], grabs' \in Nat,
         (import' = import /\ placing' = placing) \/ (import' = IdleImport /\ placing' = 0),
         UNCHANGED <<kind, disk, purges, lease, sweep, fix, workers, clash, reports, crashes>>
  PROVE  Inv'
<1>0. /\ import' \in ImportType /\ (import'.pc = "finalize" => import.pc = "finalize")
      /\ placing' \in {placing, 0} /\ placing' \in {0, 1}
  BY IdleTypes DEF Inv, TypeOK
<1>1. TypeOK'
  BY <1>0 DEF Inv, TypeOK
<1>2. placing' = IF import'.pc = "idle" THEN 0 ELSE 1
  BY IdleTypes DEF Inv, Registered
<1>3. SweepHolds(sweep)' = SweepHolds(sweep) /\ FixHolds(fix)' = FixHolds(fix)
  BY DEF SweepHolds, FixHolds
<1>4. Registered'
  BY <1>0, <1>2, <1>3 DEF Inv, Registered
<1>5. ~clash' => TreeFits'
  BY <1>0, LivesKeep DEF Inv
<1> QED BY <1>1, <1>4, <1>5 DEF Inv

(* A status that is not in the library may replace another. *)
LEMMA QuietStatus ==
  ASSUME TypeOK, NEW r \in Rows, NEW s \in Statuses \ {"absent"}, row' = [row EXCEPT ![r].status = s],
         s \in REPORTABLE => row[r].status \in REPORTABLE
  PROVE  row' \in [Rows -> RowType] /\ Quiet
<1>1. /\ row' \in [Rows -> RowType] /\ \A q \in Rows \ {r} : row'[q] = row[q]
      /\ row'[r].path = row[r].path /\ row'[r].mark = row[r].mark /\ row'[r].status = s
  BY StatusSet
<1> QED BY <1>1 DEF Quiet, Same

LEMMA RegrabSet ==
  ASSUME TypeOK, NEW r \in Rows, NEW s \in {"pre_grab", "downloading"}, NEW b \in BOOLEAN,
         row' = [row EXCEPT ![r].status = s, ![r].regrab = b]
  PROVE  row' \in [Rows -> RowType] /\ Quiet
<1> DEFINE rec == [row[r] EXCEPT !.status = s, !.regrab = b]
<1>1. rec \in RowType /\ rec.path = row[r].path /\ rec.mark = row[r].mark /\ rec.status = s
  BY DEF TypeOK, RowType, Statuses
<1>2. row' = [row EXCEPT ![r] = rec]
  BY DEF TypeOK
<1> HIDE DEF rec
<1>3. row' \in [Rows -> RowType] /\ row'[r] = rec /\ \A q \in Rows \ {r} : row'[q] = row[q]
  BY <1>1, <1>2, RowSet
<1> QED BY <1>1, <1>3 DEF Quiet, Same, REPORTABLE

LEMMA ReRequestKeeps ==
  ASSUME Inv, ReRequest
  PROVE  Inv'
<1>0. /\ UNCHANGED <<kind, kept, xfer, cover, disk, registry, sweep, fix, import, workers, bounds>>
  BY DEF ReRequest
<1>1. row' \in [Rows -> RowType] /\ (~clash => Quiet)
  <2>1. ASSUME NEW q \in Rows, row[q].status = "absent",
               row' = [row EXCEPT ![q] = [NoRow EXCEPT !.status = "pre_grab", !.regrab = TRUE]]
        PROVE  row' \in [Rows -> RowType] /\ (~clash => Quiet)
    <3> DEFINE rec == [NoRow EXCEPT !.status = "pre_grab", !.regrab = TRUE]
    <3>1. rec \in RowType /\ ~rec.path /\ rec.status = "pre_grab"
      BY DEF NoRow, RowType, Statuses
    <3> HIDE DEF rec
    <3>2. row' \in [Rows -> RowType] /\ row'[q] = rec /\ \A p \in Rows \ {q} : row'[p] = row[p]
      BY <2>1, <3>1, RowSet DEF Inv, rec
    <3>3. ~clash => ~row[q].path /\ row[q].path \in BOOLEAN
      BY <2>1 DEF Inv, TreeFits, RowsFit, TypeOK, RowType
    <3>4. rec.path = FALSE
      BY <3>1 DEF RowType
    <3> QED BY <3>1, <3>2, <3>3, <3>4 DEF Quiet, Same, REPORTABLE
  <2>2. ASSUME NEW r \in Rows, row' = [row EXCEPT ![r].status = "pre_grab", ![r].regrab = TRUE]
        PROVE  row' \in [Rows -> RowType] /\ (~clash => Quiet)
    BY <2>2, RegrabSet DEF Inv
  <2> QED BY <2>1, <2>2 DEF ReRequest
<1> QED BY <1>0, <1>1, LifeKeeps DEF registry, bounds, Inv, TypeOK

LEMMA StatusesKeep ==
  ASSUME Inv, NEW r \in Rows, Grab(r) \/ TransferSettles(r) \/ CancelRequest(r) \/ mark_available(r)
  PROVE  Inv'
<1>0. TypeOK
  BY DEF Inv
<1>1. CASE Grab(r)
  <2>1. row' \in [Rows -> RowType] /\ Quiet
    BY <1>0, <1>1, RegrabSet DEF Grab
  <2>2. xfer' \in [Rows -> {"none", "transfer", "import"}] /\ grabs' \in Nat
    BY <1>0, <1>1 DEF Grab, TypeOK
  <2> QED BY <1>0, <1>1, <2>1, <2>2, LifeKeeps DEF Grab, registry, TypeOK
<1>2. CASE TransferSettles(r)
  <2>1. row' \in [Rows -> RowType] /\ Quiet
    <3>1. row' = row \/ \E s \in {"pre_grab", "failed"} : row' = [row EXCEPT ![r].status = s]
      BY <1>2 DEF TransferSettles
    <3> QED BY <1>0, <3>1, QuietStatus, SameRows DEF TypeOK, Statuses, REPORTABLE
  <2>2. xfer' \in [Rows -> {"none", "transfer", "import"}]
    BY <1>0, <1>2 DEF TransferSettles, TypeOK
  <2> QED BY <1>0, <1>2, <2>1, <2>2, LifeKeeps DEF TransferSettles, registry, bounds, TypeOK
<1>3. CASE CancelRequest(r)
  <2>1. row' \in [Rows -> RowType] /\ Quiet
    BY <1>0, <1>3, QuietStatus DEF CancelRequest, Statuses, REPORTABLE
  <2>2. xfer' \in [Rows -> {"none", "transfer", "import"}]
    BY <1>0, <1>3 DEF CancelRequest, TypeOK
  <2> QED BY <1>0, <1>3, <2>1, <2>2, LifeKeeps DEF CancelRequest, registry, bounds, TypeOK
<1>4. CASE mark_available(r)
  <2>1. row' \in [Rows -> RowType] /\ Quiet
    BY <1>0, <1>4, QuietStatus DEF mark_available, Statuses, REPORTABLE
  <2> QED BY <1>0, <1>4, <2>1, LifeKeeps DEF mark_available, registry, bounds, TypeOK
<1> QED BY <1>1, <1>2, <1>3, <1>4

LEMMA IntentKeeps ==
  ASSUME Inv, set_keep_forever \/ CoverageMoves
  PROVE  Inv'
<1>0. TypeOK
  BY DEF Inv
<1>1. CASE set_keep_forever
  BY <1>0, <1>1, SameRows, LifeKeeps DEF set_keep_forever, registry, bounds, TypeOK
<1>2. CASE CoverageMoves
  BY <1>0, <1>2, SameRows, LifeKeeps DEF CoverageMoves, registry, bounds, TypeOK
<1> QED BY <1>1, <1>2

LEMMA PlacementBegins ==
  ASSUME Inv, NEW r \in Rows, begin_placement(r)
  PROVE  Inv'
<1>0. /\ purges = 0 /\ placing' = 1 /\ import' = [pc |-> "place", row |-> r] /\ import.pc = "idle"
      /\ UNCHANGED <<db, disk, purges, lease, sweep, fix, workers, bounds>>
  BY DEF begin_placement
<1>1. import' \in ImportType /\ import'.pc = "place"
  BY <1>0 DEF ImportType
<1>2. TypeOK'
  BY <1>0, <1>1 DEF Inv, TypeOK, db, bounds
<1>3. SweepHolds(sweep) = 0 /\ FixHolds(fix) = 0
  BY <1>0, HoldsFew DEF Inv, Registered
<1>4. SweepHolds(sweep)' = 0 /\ FixHolds(fix)' = 0
  BY <1>0, <1>3 DEF SweepHolds, FixHolds
<1>5. /\ sweep.pc \notin {"rboundary", "rdelete", "boundary1", "boundary2", "delete", "final"}
      /\ fix.pc \notin {"purge", "delete"}
  BY <1>3 DEF SweepHolds, FixHolds
<1>6. Registered'
  BY <1>0, <1>1, <1>3, <1>4, <1>5 DEF Inv, Registered
<1>7. ASSUME ~clash' PROVE TreeFits'
  <2>0. TreeFits /\ TypeOK /\ row' = row
    BY <1>0, <1>7 DEF Inv, db, bounds
  <2>1. fix.pc \notin Published
    BY <1>3, <2>0 DEF FixHolds, TreeFits, FixFits, Published
  <2>2. FixFits'
    BY <1>0, <2>0, <2>1 DEF TreeFits, FixFits
  <2> QED BY <1>0, <1>1, <2>0, <2>2, SameRows, QuietRows, QuietImport, QuietItems, QuietClaim DEF TreeFits
<1> QED BY <1>2, <1>6, <1>7 DEF Inv

LEMMA PlaceKeeps ==
  ASSUME Inv, PlaceFiles
  PROVE  Inv'
<1>0. /\ import.pc = "place" /\ import \in ImportType /\ import.row \in Rows /\ placing = 1
      /\ UNCHANGED <<kind, kept, xfer, cover, purges, lease, sweep, fix, workers, bounds>>
  BY DEF PlaceFiles, Inv, TypeOK, ImportType, Registered
<1>1. CASE /\ row' = [row EXCEPT ![import.row].status = "import_blocked"]
           /\ placing' = 0 /\ import' = IdleImport /\ UNCHANGED disk
  <2>1. row' \in [Rows -> RowType] /\ Quiet
    BY <1>0, <1>1, QuietStatus DEF Inv, Statuses, REPORTABLE
  <2> QED BY <1>0, <1>1, <2>1, LifeKeeps DEF bounds, Inv, TypeOK
<1>2. CASE /\ disk = "gone" /\ disk' = "intact" /\ import' = [import EXCEPT !.pc = "finalize"]
           /\ UNCHANGED <<row, placing>>
  <2>1. import' \in ImportType /\ import'.pc = "finalize"
    BY <1>0, <1>2 DEF ImportType
  <2>2. TypeOK'
    BY <1>0, <1>2, <2>1 DEF Inv, TypeOK, Trees, bounds
  <2>3. SweepHolds(sweep)' = SweepHolds(sweep) /\ FixHolds(fix)' = FixHolds(fix)
    BY <1>0 DEF SweepHolds, FixHolds
  <2>4. Registered'
    BY <1>0, <1>2, <2>1, <2>3 DEF Inv, Registered
  <2>5. ASSUME ~clash' PROVE TreeFits'
    <3>0. TreeFits
      BY <1>0, <2>5 DEF Inv, bounds
    <3>1. \A r \in Rows : ~Loose(r) /\ ~Loose(r)'
      BY <1>2, <3>0 DEF TreeFits, RowsFit, Loose
    <3>2. fix.pc \notin Published
      BY <1>0, <1>2, <3>0 DEF Inv, Registered, TreeFits, FixFits, Published
    <3>3. sweep.pc \notin Claimed \cup {"rdelete"}
      <4>1. sweep.pc \notin {"boundary1", "boundary2", "delete", "final", "rdelete"}
        BY <1>0 DEF Inv, Registered
      <4>2. sweep.pc # "restore"
        BY <1>2, <3>0 DEF TreeFits, ClaimFits, Claimed
      <4>3. sweep.pc # "claimed"
        BY <3>0, <3>1 DEF TreeFits, ClaimFits, Claimed, Loose, Inv, TypeOK, SweepType, ItemType
      <4> QED BY <4>1, <4>2, <4>3 DEF Claimed
    <3>4. RowsFit'
      <4>1. \A r \in Rows : row[r].status \notin REPORTABLE /\ (row[r].status = "absent" => ~row[r].path)
        BY <3>0, <3>1 DEF TreeFits, RowsFit
      <4> QED BY <1>2, <3>1, <4>1 DEF RowsFit
    <3>5. ImportFits' /\ ClaimFits' /\ FixFits'
      BY <1>0, <1>2, <3>0, <3>1, <3>2, <3>3 DEF TreeFits, ImportFits, ClaimFits, FixFits
    <3>6. ItemsFit'
      <4>1. \A i : ItemFits(i)' <=> ItemFits(i)
        BY <1>2 DEF ItemFits, Loose
      <4>2. ItemFits(sweep.at)' <=> ItemFits(sweep.at)
        BY <1>0, <1>2 DEF ItemFits, Loose
      <4> QED BY <1>0, <1>2, <3>0, <3>3, <4>1, <4>2 DEF TreeFits, ItemsFit, Resuming
    <3> QED BY <3>4, <3>5, <3>6 DEF TreeFits
  <2> QED BY <2>2, <2>4, <2>5 DEF Inv
<1> QED BY <1>1, <1>2 DEF PlaceFiles

LEMMA ImportedKeeps ==
  ASSUME Inv, FinalizeImport
  PROVE  Inv'
<1> DEFINE r == import.row
           rec == [row[r] EXCEPT !.status = "completed", !.path = TRUE, !.mark = FALSE, !.regrab = FALSE]
<1>0. /\ import.pc = "finalize" /\ r \in Rows /\ placing = 1 /\ placing' = 0 /\ import' = IdleImport
      /\ UNCHANGED <<kind, kept, cover, disk, purges, lease, sweep, fix, workers, bounds>>
      /\ xfer' = [xfer EXCEPT ![r] = "none"]
  BY DEF FinalizeImport, Inv, TypeOK, ImportType, Registered
<1>1. rec \in RowType /\ rec.path /\ ~rec.mark /\ rec.status = "completed"
  BY <1>0, ZenonT(60) DEF Inv, TypeOK, RowType, Statuses
<1>2. row' = [row EXCEPT ![r] = rec]
  BY DEF FinalizeImport, Inv, TypeOK
<1> HIDE DEF rec
<1>3. row' \in [Rows -> RowType] /\ row'[r] = rec /\ \A q \in Rows \ {r} : row'[q] = row[q]
  BY <1>0, <1>1, <1>2, RowSet DEF Inv
<1>4. TypeOK'
  BY <1>0, <1>3, IdleTypes DEF Inv, TypeOK, bounds
<1>5. Registered'
  <2>1. SweepHolds(sweep)' = SweepHolds(sweep) /\ FixHolds(fix)' = FixHolds(fix)
    BY <1>0 DEF SweepHolds, FixHolds
  <2> QED BY <1>0, <2>1, IdleTypes DEF Inv, Registered
<1>6. ASSUME ~clash' PROVE TreeFits'
  <2>0. TreeFits /\ TypeOK
    BY <1>0, <1>6 DEF Inv, bounds
  <2>1. disk = "intact" /\ \A q \in Rows : ~Loose(q)
    BY <1>0, <2>0 DEF TreeFits, ImportFits
  <2>2. fix.pc \notin Published
    BY <1>0, <2>0 DEF TreeFits, FixFits
  <2>3. sweep.pc \notin Claimed \cup {"rboundary", "rdelete"}
    <3>1. sweep.pc \notin {"boundary1", "boundary2", "delete", "final", "rboundary", "rdelete"}
      BY <1>0 DEF Inv, Registered
    <3>2. sweep.pc # "restore"
      BY <1>0, <2>0 DEF TreeFits, ClaimFits, Claimed
    <3>3. sweep.pc # "claimed"
      BY <2>0, <2>1 DEF TreeFits, ClaimFits, Claimed, Loose, TypeOK, SweepType, ItemType
    <3> QED BY <3>1, <3>2, <3>3 DEF Claimed
  <2>4. Elsewhere(r) /\ row'[r].path /\ ~row'[r].mark /\ row'[r].status # "absent"
    BY <1>1, <1>3 DEF Elsewhere, Same
  <2>5. ItemsFit'
    <3>0. sweep.at.row \in Rows /\ \A i \in sweep.todo : i.row \in Rows
      BY <2>0 DEF TypeOK, SweepType, ItemType
    <3>1. Resuming => \A i \in sweep.todo : i.mark
      BY <2>0, <2>1, <3>0 DEF TreeFits, ItemsFit, ItemFits
    <3>2. sweep.pc \in {"stat", "decide"} => sweep.at.mark
      BY <2>0, <2>1, <3>0 DEF TreeFits, ItemsFit, ItemFits
    <3>3. Resuming => \A i \in sweep.todo : ItemFits(i)'
      BY <3>1 DEF ItemFits
    <3>4. sweep.pc \in {"stat", "decide"} => ItemFits(sweep.at)'
      BY <1>0, <3>2 DEF ItemFits
    <3> QED BY <1>0, <2>0, <2>3, <3>3, <3>4 DEF TreeFits, ItemsFit, Resuming
  <2>6. ImportFits' /\ ClaimFits' /\ FixFits'
    BY <1>0, <2>0, <2>2, <2>3, IdleTypes DEF TreeFits, ImportFits, ClaimFits, FixFits
  <2> HIDE DEF r
  <2>7. RowsFit'
    BY <1>0, <2>0, <2>1, <2>4, RowLoosened
  <2> QED BY <2>5, <2>6, <2>7 DEF TreeFits
<1> QED BY <1>4, <1>5, <1>6 DEF Inv

LEMMA CrashKeeps ==
  ASSUME Inv, Crash
  PROVE  Inv'
<1>0. /\ sweep' = IdleSweep /\ fix' = IdleFix /\ import' = IdleImport /\ workers' = {}
      /\ purges' = 0 /\ placing' = 0 /\ lease' = "none" /\ crashes' = crashes + 1
      /\ UNCHANGED <<db, disk, clash, reports, grabs>>
  BY DEF Crash
<1>1. sweep'.pc = "idle" /\ fix'.pc = "idle" /\ import'.pc = "idle"
  BY <1>0, IdleTypes
<1>2. TypeOK'
  BY <1>0, IdleTypes DEF Inv, TypeOK, db
<1>3. Registered'
  BY <1>0, <1>1 DEF Registered, SweepHolds, FixHolds, Recovering
<1>4. ASSUME ~clash' PROVE TreeFits'
  <2>1. RowsFit'
    BY <1>0, <1>4, SameRows, QuietRows DEF Inv, TreeFits, db
  <2>2. ImportFits' /\ ItemsFit' /\ ClaimFits' /\ FixFits'
    BY <1>1 DEF ImportFits, ItemsFit, ClaimFits, FixFits, Resuming, Recovering, Claimed, Published
  <2> QED BY <2>1, <2>2 DEF TreeFits
<1> QED BY <1>2, <1>3, <1>4 DEF Inv

----------------------------------------------------------------------------
(* The invariant, and what follows from it. *)

LEMMA InitFits == Init => Inv
<1> SUFFICES ASSUME Init PROVE Inv
  OBVIOUS
<1> DEFINE here == [NoRow EXCEPT !.status = "available", !.path = TRUE]
<1>1. /\ here \in RowType /\ here.status = "available" /\ here.path /\ ~here.mark
      /\ NoRow \in RowType /\ NoRow.status = "absent" /\ ~NoRow.path
  BY DEF NoRow, RowType, Statuses
<1>2. row = [r \in Rows |-> IF r = First THEN here ELSE NoRow]
  BY DEF Init
<1> HIDE DEF here
<1>3. /\ row \in [Rows -> RowType] /\ First \in Rows /\ row[First] = here
      /\ \A r \in Rows \ {First} : row[r] = NoRow
  BY <1>1, <1>2, RowsAssumption
<1>4. /\ sweep = IdleSweep /\ fix = IdleFix /\ import = IdleImport /\ disk = "intact" /\ workers = {}
      /\ purges = 0 /\ placing = 0
  BY DEF Init
<1>5. sweep.pc = "idle" /\ fix.pc = "idle" /\ import.pc = "idle"
  BY <1>4, IdleTypes
<1>6. TypeOK
  <2>1. /\ kind \in Kinds /\ xfer = [r \in Rows |-> "none"] /\ kept = FALSE /\ cover = FALSE
        /\ lease = "none" /\ clash = FALSE /\ reports = 0 /\ grabs = 0 /\ crashes = 0
    BY DEF Init
  <2>2. kind \in {"movie", "tv"} /\ xfer \in [Rows -> {"none", "transfer", "import"}]
    BY <2>1, KindsAssumption
  <2>3. sweep \in SweepType /\ fix \in FixType /\ import \in ImportType
    BY <1>4, IdleTypes
  <2> QED BY <1>3, <1>4, <2>1, <2>2, <2>3 DEF TypeOK, Trees
<1>7. Registered
  BY <1>4, <1>5 DEF Registered, SweepHolds, FixHolds, Recovering
<1>8. RowsFit
  <2>1. Loose(First) /\ \A r \in Rows \ {First} : ~Loose(r) /\ row[r].status = "absent"
    BY <1>1, <1>3 DEF Loose
  <2> QED BY <1>1, <1>3, <1>4, <2>1 DEF RowsFit, REPORTABLE
<1>9. ImportFits /\ ItemsFit /\ ClaimFits /\ FixFits
  BY <1>5 DEF ImportFits, ItemsFit, ClaimFits, FixFits, Resuming, Recovering, Claimed, Published
<1> QED BY <1>6, <1>7, <1>8, <1>9 DEF Inv, TreeFits

LEMMA StutterKeeps ==
  ASSUME Inv, UNCHANGED vars
  PROVE  Inv'
BY DEF Inv, vars, TypeOK, Registered, SweepHolds, FixHolds, TreeFits, RowsFit, ImportFits, ItemsFit,
   ItemFits, Resuming, ClaimFits, FixFits, Loose, _partial_delete_still_armed

LEMMA NextKeeps ==
  ASSUME Inv, [Next]_vars
  PROVE  Inv'
<1>1. CASE Sweep
  BY <1>1, BeginKeeps, ResumeKeeps, StatKeeps, DecideKeeps, BoundaryKeeps, RetrySettlesKeeps,
     RecoveryFinalKeeps, RoamKeeps, ClaimKeeps, CheckKeeps, MarkKeeps, StartKeeps, SettlesKeep,
     RestoreKeeps, EvictionFinalKeeps DEF Sweep
<1>2. CASE Correction
  BY <1>2, ReportKeeps, ClaimPathKeeps, PublishKeeps, PurgeKeeps, RecordKeeps DEF Correction
<1>3. CASE Lifecycle
  BY <1>3, ReRequestKeeps, StatusesKeep, PlacementBegins, PlaceKeeps, ImportedKeeps, IntentKeeps
     DEF Lifecycle
<1> QED BY <1>1, <1>2, <1>3, WorkerKeeps, CrashKeeps, StutterKeeps DEF Next

(* What every state of the sweep, the corrections and the imports satisfies: the registry counts     *)
(* are exact, and unless a restorable twin or a late report got in the way, the rows and the phases *)
(* of the actors say the truth about the tree.                                                *)
THEOREM RetentionInvariant == Spec => []Inv
BY InitFits, NextKeeps, PTL DEF Spec

(* What the rows say of the tree is true for any number of rows, reports, grabs and crashes:      *)
(* available is intact, a half-deleted tree is on record, and no thread deletes where an import     *)
(* places.                                                                        *)
THEOREM TreeAlwaysAccounted == Spec => []TreeIsAccounted
<1>1. ASSUME Inv PROVE TreeIsAccounted
  <2>1. AvailableIsIntact
    BY <1>1 DEF AvailableIsIntact, Inv, TreeFits, RowsFit, REPORTABLE, Loose
  <2>2. PartialIsMarked
    BY <1>1 DEF PartialIsMarked, Inv, TreeFits, RowsFit
  <2>3. PlacementIsExclusive
    BY <1>1 DEF PlacementIsExclusive, Inv, TypeOK, Registered
  <2> QED BY <2>1, <2>2, <2>3 DEF TreeIsAccounted
<1> QED BY <1>1, RetentionInvariant, PTL

(* A sweep's thread starts only where no other row has the tree in the library. *)
THEOREM OwnerIsSpared == Spec => DeleteSparesOwner
<1> DEFINE Spared == (~clash /\ "sweep" \in workers' \ workers)
                       => \A r \in Rows \ {sweep.at.row} : row[r].path => row[r].status \notin REPORTABLE
<1>1. ASSUME Inv, [Next]_vars PROVE Spared
  <2>1. CASE _recovery_delete_boundary
    BY <2>1 DEF _recovery_delete_boundary, RecoveryStillSafe, _path_claimed_by_another_row, REPORTABLE
  <2>2. CASE StartDelete
    <3>1. ~clash => \A q \in Rows \ {sweep.at.row} : row[q].status \notin REPORTABLE
      BY <1>1, <2>2, ClaimKnows DEF StartDelete, Claimed, Inv, TreeFits, RowsFit
    <3> QED BY <3>1
  <2>3. CASE "sweep" \notin workers' \ workers
    BY <2>3
  <2>4. "sweep" \in workers' \ workers => _recovery_delete_boundary \/ StartDelete
    <3>1. CASE Sweep
      BY <3>1 DEF Sweep, run_eviction_sweep, run_correction_recovery_sweep, _resume_one, StatItem, DecideItem,
         RetrySettles, RecoveryFinalizes, StandDown, AssembleCandidates, SweepDone, _evict_one,
         ClaimCandidate, CheckClaimed, _mark_delete_started, DeleteSettles, RestoreClaim, EvictionFinalizes
    <3>2. CASE Correction
      <4>1. CASE PurgeStarts
        <5>1. workers' = workers \/ workers' = workers \cup {"fix"}
          BY <4>1 DEF PurgeStarts
        <5> QED BY <5>1
      <4>2. CASE PurgeSettles
        <5>1. workers' = workers \ {"fix"}
          BY <4>2 DEF PurgeSettles
        <5> QED BY <5>1
      <4>3. CASE (\E r \in Rows : report_issue(r)) \/ ClaimPath \/ PublishSearching \/ RemoveCulprit
                  \/ RecordCorrection
        <5>1. UNCHANGED workers
          BY <4>3 DEF report_issue, ClaimPath, PublishSearching, RemoveCulprit, RecordCorrection
        <5> QED BY <5>1
      <4> QED BY <3>2, <4>1, <4>2, <4>3 DEF Correction
    <3>3. CASE Lifecycle \/ WorkerDeletes \/ Crash
      BY <3>3 DEF Lifecycle, ReRequest, Grab, TransferSettles, CancelRequest, begin_placement,
         mark_available, PlaceFiles, FinalizeImport, set_keep_forever, CoverageMoves, WorkerDeletes, Crash
    <3>4. CASE UNCHANGED vars
      BY <3>4 DEF vars
    <3> QED BY <1>1, <3>1, <3>2, <3>3, <3>4 DEF Next
  <2> QED BY <2>1, <2>2, <2>3, <2>4
<1>2. Inv /\ [Next]_vars => [Spared]_vars
  BY <1>1
<1> QED BY <1>2, RetentionInvariant, PTL DEF Spec, DeleteSparesOwner
=============================================================================
