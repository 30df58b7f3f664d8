------------------------- MODULE PrefixSync_proofs -------------------------
(***************************************************************************)
(* Theorems of PrefixSync for any address width, files, overrides and      *)
(* number of goroutines: types, that no half-written file is served, that  *)
(* the process at rest serves the files on disk, and what overrides do to  *)
(* the attribution of every address.                                       *)
(*                                                                         *)
(* IInv is the inductive invariant.  What is true of the served database   *)
(* was decided when a task read the files, several steps before it         *)
(* installs them; so IInv says what each task carries at each of its       *)
(* steps, and how that relates to the files as they are now.               *)
(***************************************************************************)
EXTENDS PrefixSync, PrefixRanges_proofs

\* The steps of a task between loading the active file and installing it.
Reading == {"apply", "scan", "install"}

\* A task is a download.
Downloads(h) == job[h].pc # "idle" /\ job[h].sync

\* The flag of syncStatus stands for one download, and there is no second; who edits
\* the overrides is none.
SyncInv ==
    /\ syncing \in BOOLEAN
    /\ syncing <=> \E h \in Handlers : Downloads(h)
    /\ \A g, h \in Handlers : Downloads(g) /\ Downloads(h) => g = h
    /\ \A h \in Handlers : job[h].pc \in {"truncate", "write"} => ~job[h].sync

\* The entries a task has loaded are some entries, the overrides it is to apply are
\* entries too, and their file exists between the two halves of a write.
DataInv ==
    \A h \in Handlers :
        /\ job[h].pc \in Reading =>
              job[h].data # {} /\ job[h].data \subseteq Entry
        /\ job[h].pc = "install" => job[h].ovs \subseteq Entry
        /\ job[h].pc = "write" => overrides \subseteq Line

FilesInv ==
    /\ active = NoFile \/ active \subseteq Line
    /\ overrides = NoFile \/ overrides \subseteq Line
    /\ served = NoDB \/ (served # {} /\ served \subseteq Entry)
    /\ job \in [Handlers -> Job]
    /\ torn \in BOOLEAN /\ lagging \in BOOLEAN

TypeInv == FilesInv /\ SyncInv /\ DataInv

\* A content some download or upload may have, and a text a user may have saved.
Sent(lines) == \E raw \in Raws, format \in Formats : lines = Normalize(raw, format)
SentEntries(db) == \E raw \in Raws, format \in Formats : db = Load(Normalize(raw, format))
Saved(ovs) == ovs \in OverrideTexts \cup {{}}

\* What a task carries is whole at each of its steps, but for overrides that were
\* rewritten while it read them.
CarriesWhole(h) ==
    /\ job[h].pc = "rename" => Sent(job[h].data)
    /\ job[h].pc \in {"truncate", "write"} => job[h].data \in OverrideTexts
    /\ job[h].pc \in Reading => SentEntries(job[h].data)
    /\ job[h].pc = "install" => job[h].mixed \/ Saved(job[h].ovs)

WholeTasks == ~torn => \A h \in Handlers : CarriesWhole(h)

WholeFiles ==
    ~torn => /\ active = NoFile \/ Sent(active)
             /\ overrides = NoFile \/ Saved(overrides)

WholeOrigin ==
    ~torn /\ served # NoDB =>
        /\ origin.main = Explicit \/ SentEntries(origin.main)
        /\ origin.mixed \/ Saved(origin.ovs)

WholeInv == WholeTasks /\ WholeFiles /\ WholeOrigin

\* A task that is not behind carries what the files hold.
CurrentInv ==
    \A h \in Handlers : job[h].pc \in Reading /\ ~job[h].behind =>
        /\ active # NoFile /\ job[h].data = Load(active)
        /\ job[h].pc = "install" /\ ~job[h].mixed => job[h].ovs = Lines(overrides)

\* A task between its change of a file and the end of its Reload.
Reloads(h) == job[h].pc \in {"write", "load"} \cup Reading
FromDisk == ApplyOverrides(Load(active), Lines(overrides))

FreshInv ==
    ~lagging /\ Readable(active) /\ Applicable(overrides) =>
        served = FromDisk \/ \E h \in Handlers : Reloads(h)

IInv == TypeInv /\ WholeInv /\ CurrentInv /\ FreshInv

USE DEF Reading

-----------------------------------------------------------------------------
(* Files, lines and entries *)

\* Nothing but lines come out of normalize, and nothing but entries out of Load.
LEMMA NormalizeType ==
    ASSUME NEW raw \in Raws, NEW format
    PROVE  Normalize(raw, format) \subseteq Line
<1>1. raw \subseteq Raw
      BY RawAssumption
<1>2. Space \in Int /\ Space > 1
      BY SpaceAssumption, SpaceType
<1>3. \A r \in raw : r.form = "tsv" => FromTsv(r) \in Line
      BY <1>1 DEF Raw, FromTsv, Line
<1>4. \A r \in raw : r.form = "rir" => FromRir(r) \in Line
  <2> SUFFICES ASSUME NEW r \in raw, r.form = "rir"
               PROVE  FromRir(r) \in Line
      OBVIOUS
  <2>1. /\ r.start \in Addrs /\ r.count \in Addrs
        /\ r.country \in Countries \cup {Unknown}
        BY <1>1 DEF Raw
  <2>2. (r.start + r.count - 1) % Space \in Addrs
        BY <2>1, <1>2 DEF Addrs
  <2> QED
      BY <2>1, <2>2 DEF FromRir, Line
<1> QED
    BY <1>3, <1>4 DEF Normalize

LEMMA LoadType ==
    ASSUME NEW lines, lines \subseteq Line
    PROVE  Load(lines) \subseteq Entry
BY DEF Load, Entry

\* Overrides that Reload applies are entries.
LEMMA ApplicableType ==
    ASSUME overrides = NoFile \/ overrides \subseteq Line, Applicable(overrides)
    PROVE  Lines(overrides) \subseteq Entry
BY DEF Applicable, ValidateOverrides, Lines, Entry

LEMMA LinesType ==
    ASSUME NEW file, file = NoFile \/ file \subseteq Line
    PROVE  Lines(file) \subseteq Line
BY DEF Lines

LEMMA ReadableType ==
    ASSUME active = NoFile \/ active \subseteq Line, Readable(active)
    PROVE  active \subseteq Line /\ Load(active) # {} /\ Load(active) \subseteq Entry
BY LoadType DEF Readable

LEMMA ApplyType ==
    ASSUME NEW db, NEW ovs, db # {}, db \subseteq Entry, ovs \subseteq Entry
    PROVE  ApplyOverrides(db, ovs) # {} /\ ApplyOverrides(db, ovs) \subseteq Entry
<1>1. CASE ovs = {}
      BY <1>1 DEF ApplyOverrides
<1>2. CASE ovs # {}
      BY <1>2 DEF ApplyOverrides
<1> QED
    BY <1>1, <1>2

-----------------------------------------------------------------------------
(* What the actions do to the tasks *)

Row(pc, sync, data, ovs, behind, mixed) ==
    [pc |-> pc, sync |-> sync, data |-> data, ovs |-> ovs, behind |-> behind,
     mixed |-> mixed]

\* What becomes of a task when a file is changed that tasks at readers have read, and
\* that those that scan it may be mixing with more lines.
Passed(t, readers, mixing, more) ==
    IF t.pc \in readers THEN [t EXCEPT !.behind = TRUE]
    ELSE IF mixing /\ t.pc = "scan" THEN [t EXCEPT !.ovs = @ \cup more, !.mixed = TRUE]
    ELSE t

\* h becomes j, and the others see a file change.
SetsTo(h, j, readers, mixing, more) ==
    job' = [g \in Handlers |->
               IF g = h THEN j ELSE Passed(job[g], readers, mixing, more)]

Sets(h, j, readers) ==
    \E mixing \in BOOLEAN, more \in SUBSET Line : SetsTo(h, j, readers, mixing, more)

\* A task in flight has all its fields.
LEMMA JobShape ==
    ASSUME NEW j \in Job
    PROVE  /\ j = NoJob <=> j.pc = "idle"
           /\ j.pc \in PCs
           /\ j # NoJob => /\ j.sync \in BOOLEAN /\ j.data \subseteq Line
                           /\ j.ovs \subseteq Line /\ j.behind \in BOOLEAN
                           /\ j.mixed \in BOOLEAN
                           /\ j = Row(j.pc, j.sync, j.data, j.ovs, j.behind, j.mixed)
<1>1. CASE j = NoJob
      BY <1>1 DEF NoJob, PCs
<1>2. CASE j # NoJob
  <2>1. j \in [pc: PCs \ {"idle"}, sync: BOOLEAN, data: SUBSET Line,
               ovs: SUBSET Line, behind: BOOLEAN, mixed: BOOLEAN]
        BY <1>2 DEF Job
  <2> QED
      BY <2>1 DEF PCs, NoJob, Row
<1> QED
    BY <1>1, <1>2

LEMMA RowType ==
    ASSUME NEW pc \in PCs \ {"idle"}, NEW sync \in BOOLEAN, NEW data \in SUBSET Line,
           NEW ovs \in SUBSET Line, NEW behind \in BOOLEAN, NEW mixed \in BOOLEAN
    PROVE  Row(pc, sync, data, ovs, behind, mixed) \in Job
BY DEF Row, Job

\* What holds of a task t that another one's step made u.
Kept(t, u, readers) ==
    /\ u.pc = t.pc
    /\ u.sync = t.sync
    /\ u.data = t.data
    /\ t.pc # "scan" => u.ovs = t.ovs /\ u.mixed = t.mixed
    /\ t.pc \in Reading => (~u.behind => ~t.behind /\ t.pc \notin readers)

\* Besides h no task changes but for falling behind or mixing what it reads.
Others(h, readers) == \A g \in Handlers \ {h} : Kept(job[g], job'[g], readers)

LEMMA BehindRow ==
    ASSUME NEW j, j = Row(j.pc, j.sync, j.data, j.ovs, j.behind, j.mixed), NEW b
    PROVE  [j EXCEPT !.behind = b] = Row(j.pc, j.sync, j.data, j.ovs, b, j.mixed)
BY DEF Row

LEMMA MixedRow ==
    ASSUME NEW j, j = Row(j.pc, j.sync, j.data, j.ovs, j.behind, j.mixed), NEW ovs, NEW m
    PROVE  [j EXCEPT !.ovs = ovs, !.mixed = m]
               = Row(j.pc, j.sync, j.data, ovs, j.behind, m)
<1> DEFINE one == [j EXCEPT !.ovs = ovs]
<1>1. [j EXCEPT !.ovs = ovs, !.mixed = m] = [one EXCEPT !.mixed = m]
      OBVIOUS
<1>2. one = Row(j.pc, j.sync, j.data, ovs, j.behind, j.mixed)
      BY DEF Row
<1> HIDE DEF one
<1>3. [one EXCEPT !.mixed = m] = Row(j.pc, j.sync, j.data, ovs, j.behind, m)
      BY <1>2 DEF Row
<1> QED
    BY <1>1, <1>3

LEMMA PassedMeans ==
    ASSUME NEW t \in Job, NEW readers \in SUBSET Reading, NEW mixing \in BOOLEAN,
           NEW more \in SUBSET Line
    PROVE  /\ Passed(t, readers, mixing, more) \in Job
           /\ Kept(t, Passed(t, readers, mixing, more), readers)
<1> DEFINE u == Passed(t, readers, mixing, more)
<1>1. CASE t.pc \in readers
  <2>0. t.pc \in {"apply", "scan", "install"}
        BY <1>1
  <2>1. t # NoJob
        BY <2>0 DEF NoJob
  <2>2. t = Row(t.pc, t.sync, t.data, t.ovs, t.behind, t.mixed)
        BY <2>1, JobShape
  <2>3. [t EXCEPT !.behind = TRUE] = Row(t.pc, t.sync, t.data, t.ovs, TRUE, t.mixed)
        BY <2>2, BehindRow
  <2>4. u = Row(t.pc, t.sync, t.data, t.ovs, TRUE, t.mixed)
        BY <1>1, <2>3 DEF Passed
  <2>5. t.pc \in PCs \ {"idle"}
        BY <2>0 DEF PCs
  <2>6. u \in Job
    <3>1. /\ t.sync \in BOOLEAN /\ t.data \in SUBSET Line /\ t.ovs \in SUBSET Line
          /\ t.mixed \in BOOLEAN
          BY <2>1, JobShape
    <3>2. Row(t.pc, t.sync, t.data, t.ovs, TRUE, t.mixed) \in Job
          BY <2>5, <3>1, RowType
    <3> QED
        BY <2>4, <3>2
  <2> HIDE DEF u
  <2>7. Kept(t, u, readers)
        BY <2>4 DEF Kept, Row
  <2> QED
      BY <2>6, <2>7 DEF u
<1>2. CASE t.pc \notin readers /\ mixing /\ t.pc = "scan"
  <2>1. t # NoJob
        BY <1>2 DEF NoJob
  <2>2. t = Row(t.pc, t.sync, t.data, t.ovs, t.behind, t.mixed)
        BY <2>1, JobShape
  <2>3. [t EXCEPT !.ovs = @ \cup more, !.mixed = TRUE]
            = Row(t.pc, t.sync, t.data, t.ovs \cup more, t.behind, TRUE)
        BY <2>2, MixedRow
  <2>6. u = Row(t.pc, t.sync, t.data, t.ovs \cup more, t.behind, TRUE)
        BY <1>2, <2>3 DEF Passed
  <2> HIDE DEF u
  <2>7. t.pc \in PCs \ {"idle"} /\ t.ovs \cup more \in SUBSET Line
        BY <1>2, <2>1, JobShape DEF PCs
  <2>8. u \in Job
    <3>1. t.sync \in BOOLEAN /\ t.data \in SUBSET Line /\ t.behind \in BOOLEAN
          BY <2>1, JobShape
    <3> QED
        BY <2>6, <2>7, <3>1, RowType
  <2>9. Kept(t, u, readers)
        BY <2>6, <1>2 DEF Kept, Row
  <2> QED
      BY <2>8, <2>9 DEF u
<1>3. CASE t.pc \notin readers /\ ~(mixing /\ t.pc = "scan")
      BY <1>3 DEF Passed, Kept
<1> QED
    BY <1>1, <1>2, <1>3

LEMMA SetsMeans ==
    ASSUME job \in [Handlers -> Job], NEW h \in Handlers, NEW j \in Job,
           NEW readers \in SUBSET Reading, Sets(h, j, readers)
    PROVE  /\ job' \in [Handlers -> Job]
           /\ job'[h] = j
           /\ Others(h, readers)
<1>1. PICK mixing \in BOOLEAN, more \in SUBSET Line : SetsTo(h, j, readers, mixing, more)
      BY DEF Sets
<1>2. /\ job'[h] = j
      /\ \A g \in Handlers \ {h} : job'[g] = Passed(job[g], readers, mixing, more)
      /\ job' = [g \in Handlers |-> job'[g]]
      BY <1>1 DEF SetsTo
<1>3. \A g \in Handlers \ {h} : job'[g] \in Job /\ Kept(job[g], job'[g], readers)
      BY <1>2, PassedMeans
<1>4. job' \in [Handlers -> Job]
      BY <1>2, <1>3
<1> QED
    BY <1>2, <1>3, <1>4 DEF Others, Kept

-----------------------------------------------------------------------------
(* The actions in three forms: a task begins, goes on or ends *)

Begins(h, pc, sync, data) ==
    /\ job[h].pc = "idle"
    /\ Row(pc, sync, data, {}, FALSE, FALSE) \in Job
    /\ Sets(h, Row(pc, sync, data, {}, FALSE, FALSE), {})

GoesOn(h, pc, data, ovs, behind, mixed, readers) ==
    /\ Row(pc, job[h].sync, data, ovs, behind, mixed) \in Job
    /\ Sets(h, Row(pc, job[h].sync, data, ovs, behind, mixed), readers)
    /\ syncing' = syncing

Ends(h, readers) ==
    /\ NoJob \in Job
    /\ Sets(h, NoJob, readers)
    /\ syncing' = (syncing /\ ~job[h].sync)

LEMMA PutMeans ==
    ASSUME job \in [Handlers -> Job], NEW h \in Handlers, NEW j,
           job' = [job EXCEPT ![h] = j]
    PROVE  Sets(h, j, {})
<1>1. SetsTo(h, j, {}, FALSE, {})
      BY DEF SetsTo, Passed
<1>2. FALSE \in BOOLEAN /\ {} \in SUBSET Line
      OBVIOUS
<1> QED
    BY <1>1, <1>2 DEF Sets

\* The active file is replaced: nobody mixes anything.
LEMMA ReplacedMeans ==
    ASSUME NEW h \in Handlers, NEW j, Replaced(h, j)
    PROVE  Sets(h, j, Reading) /\ syncing' = syncing
<1>1. SetsTo(h, j, Reading, FALSE, {})
      BY DEF Replaced, SetsTo, Passed, Reading
<1>2. FALSE \in BOOLEAN /\ {} \in SUBSET Line
      OBVIOUS
<1>3. Sets(h, j, Reading)
      BY <1>1, <1>2 DEF Sets
<1> QED
    BY <1>3 DEF Replaced

\* The overrides are rewritten under those who scan them.
LEMMA RewrittenMeans ==
    ASSUME NEW h \in Handlers, NEW j, Rewritten(h, j),
           overrides = NoFile \/ overrides \subseteq Line, overrides' \subseteq Line
    PROVE  Sets(h, j, {"install"}) /\ syncing' = syncing
<1> DEFINE more == Lines(overrides) \cup Lines(overrides')
<1>1. more \in SUBSET Line
      BY LinesType
<1>2. job' = [g \in Handlers |->
                 IF g = h THEN j
                 ELSE IF job[g].pc = "install" THEN [job[g] EXCEPT !.behind = TRUE]
                 ELSE IF job[g].pc = "scan"
                 THEN [job[g] EXCEPT !.ovs = @ \cup more, !.mixed = TRUE]
                 ELSE job[g]]
      BY DEF Rewritten
<1> HIDE DEF more
<1>3. SetsTo(h, j, {"install"}, TRUE, more)
      BY <1>2 DEF SetsTo, Passed
<1>4. Sets(h, j, {"install"})
      BY <1>1, <1>3 DEF Sets
<1> QED
    BY <1>4 DEF Rewritten

LEMMA FinishMeans ==
    ASSUME job \in [Handlers -> Job], NEW h \in Handlers, Finish(h)
    PROVE  Ends(h, {})
BY PutMeans DEF Finish, Ends, Job

\* The fields of a task in flight.
LEMMA TaskShape ==
    ASSUME job \in [Handlers -> Job], NEW h \in Handlers, job[h].pc # "idle"
    PROVE  /\ job[h].sync \in BOOLEAN /\ job[h].data \subseteq Line
           /\ job[h].ovs \subseteq Line /\ job[h].behind \in BOOLEAN
           /\ job[h].mixed \in BOOLEAN
           /\ job[h] = Row(job[h].pc, job[h].sync, job[h].data, job[h].ovs, job[h].behind, job[h].mixed)
BY JobShape

\* The rows the next steps of a task make of it.
LEMMA RenameMeans ==
    ASSUME job \in [Handlers -> Job], NEW h \in Handlers, job[h].pc # "idle", NEW npc, NEW ndata,
           job' = [job EXCEPT ![h].pc = npc, ![h].data = ndata]
    PROVE  Sets(h, Row(npc, job[h].sync, ndata, job[h].ovs, job[h].behind, job[h].mixed), {})
<1> DEFINE j == job[h]
           new == [j EXCEPT !.pc = npc, !.data = ndata]
           one == [j EXCEPT !.pc = npc]
<1>1. j = Row(j.pc, j.sync, j.data, j.ovs, j.behind, j.mixed)
      BY TaskShape
<1>2. job' = [job EXCEPT ![h] = new]
      OBVIOUS
<1> HIDE DEF j
<1>3. one = Row(npc, j.sync, j.data, j.ovs, j.behind, j.mixed)
      BY <1>1 DEF Row
<1>4. new = [one EXCEPT !.data = ndata]
      OBVIOUS
<1> HIDE DEF one, new
<1>6. new = Row(npc, j.sync, ndata, j.ovs, j.behind, j.mixed)
      BY <1>3, <1>4 DEF Row
<1>7. Sets(h, new, {})
      BY <1>2, PutMeans
<1> QED
    BY <1>6, <1>7 DEF j

LEMMA InstallMeans ==
    ASSUME job \in [Handlers -> Job], NEW h \in Handlers, job[h].pc # "idle", NEW npc, NEW novs,
           job' = [job EXCEPT ![h].pc = npc, ![h].ovs = novs]
    PROVE  Sets(h, Row(npc, job[h].sync, job[h].data, novs, job[h].behind, job[h].mixed), {})
<1> DEFINE j == job[h]
           new == [j EXCEPT !.pc = npc, !.ovs = novs]
           one == [j EXCEPT !.pc = npc]
<1>1. j = Row(j.pc, j.sync, j.data, j.ovs, j.behind, j.mixed)
      BY TaskShape
<1>2. job' = [job EXCEPT ![h] = new]
      OBVIOUS
<1> HIDE DEF j
<1>3. one = Row(npc, j.sync, j.data, j.ovs, j.behind, j.mixed)
      BY <1>1 DEF Row
<1>4. new = [one EXCEPT !.ovs = novs]
      OBVIOUS
<1> HIDE DEF one, new
<1>6. new = Row(npc, j.sync, j.data, novs, j.behind, j.mixed)
      BY <1>3, <1>4 DEF Row
<1>7. Sets(h, new, {})
      BY <1>2, PutMeans
<1> QED
    BY <1>6, <1>7 DEF j

LEMMA ApplyMeans ==
    ASSUME job \in [Handlers -> Job], NEW h \in Handlers, job[h].pc # "idle", NEW npc, NEW ndata,
           job' = [job EXCEPT ![h].pc = npc, ![h].data = ndata, ![h].behind = FALSE]
    PROVE  Sets(h, Row(npc, job[h].sync, ndata, job[h].ovs, FALSE, job[h].mixed), {})
<1> DEFINE j == job[h]
           new == [j EXCEPT !.pc = npc, !.data = ndata, !.behind = FALSE]
           one == [j EXCEPT !.pc = npc]
           two == [one EXCEPT !.data = ndata]
<1>1. j = Row(j.pc, j.sync, j.data, j.ovs, j.behind, j.mixed)
      BY TaskShape
<1>2. job' = [job EXCEPT ![h] = new]
      OBVIOUS
<1> HIDE DEF j
<1>3. one = Row(npc, j.sync, j.data, j.ovs, j.behind, j.mixed)
      BY <1>1 DEF Row
<1>4. new = [two EXCEPT !.behind = FALSE]
      OBVIOUS
<1> HIDE DEF one, new
<1>5. two = Row(npc, j.sync, ndata, j.ovs, j.behind, j.mixed)
      BY <1>3 DEF Row
<1> HIDE DEF two
<1>6. new = Row(npc, j.sync, ndata, j.ovs, FALSE, j.mixed)
      BY <1>5, <1>4 DEF Row
<1>7. Sets(h, new, {})
      BY <1>2, PutMeans
<1> QED
    BY <1>6, <1>7 DEF j

LEMMA BeginMeans ==
    ASSUME FilesInv, NEW h \in Handlers, NEW pc, NEW sync, NEW data,
           Row(pc, sync, data, {}, FALSE, FALSE) \in Job,
           job[h] = NoJob, job' = [job EXCEPT ![h] = JobAt(pc, sync, data)]
    PROVE  Begins(h, pc, sync, data)
<1>1. job' = [job EXCEPT ![h] = Row(pc, sync, data, {}, FALSE, FALSE)]
      BY DEF JobAt, Row
<1>2. Sets(h, Row(pc, sync, data, {}, FALSE, FALSE), {})
      BY <1>1, PutMeans DEF FilesInv
<1>3. job[h].pc = "idle"
      BY DEF NoJob
<1> QED
    BY <1>2, <1>3 DEF Begins

LEMMA SyncFromStep ==
    ASSUME FilesInv, NEW h \in Handlers, SyncFrom(h)
    PROVE  Begins(h, "fetch", TRUE, {})
<1>1. Row("fetch", TRUE, {}, {}, FALSE, FALSE) \in Job
      BY RowType DEF PCs
<1> QED
    BY <1>1, BeginMeans DEF SyncFrom

LEMMA ImportUploadStep ==
    ASSUME FilesInv, NEW h \in Handlers, ImportUpload(h)
    PROVE  Begins(h, "fetch", FALSE, {})
<1>1. Row("fetch", FALSE, {}, {}, FALSE, FALSE) \in Job
      BY RowType DEF PCs
<1> QED
    BY <1>1, BeginMeans DEF ImportUpload

LEMMA SaveOverrideStep ==
    ASSUME FilesInv, NEW h \in Handlers, NEW text \in OverrideTexts, SaveOverride(h, text)
    PROVE  Begins(h, "truncate", FALSE, text)
<1>1. text \subseteq Line
      BY TextAssumption
<1>2. Row("truncate", FALSE, text, {}, FALSE, FALSE) \in Job
      BY <1>1, RowType DEF PCs
<1> QED
    BY <1>2, BeginMeans DEF SaveOverride

\* What is kept of a file's lines, and whether it is all of them.
LEMMA FetchStep ==
    ASSUME FilesInv, NEW h \in Handlers, NEW raw \in Raws, NEW format \in Formats,
           Fetch(h, raw, format)
    PROVE  \/ Ends(h, {}) /\ torn' = torn
           \/ \E lines \in SUBSET Line :
                 /\ GoesOn(h, "rename", lines, job[h].ovs, job[h].behind, job[h].mixed, {})
                 /\ \/ torn' = torn /\ lines = Normalize(raw, format)
                    \/ torn' /\ torn' \in BOOLEAN
<1> DEFINE row(lines) == Row("rename", job[h].sync, lines, job[h].ovs, job[h].behind, job[h].mixed)
<1>1. /\ job \in [Handlers -> Job] /\ job[h].pc = "fetch"
      BY DEF FilesInv, Fetch
<1>2. Normalize(raw, format) \subseteq Line
      BY NormalizeType
<1>3. ASSUME NEW lines \in SUBSET Line,
             job' = [job EXCEPT ![h].pc = "rename", ![h].data = lines],
             syncing' = syncing
      PROVE  GoesOn(h, "rename", lines, job[h].ovs, job[h].behind, job[h].mixed, {})
  <2>1. row(lines) \in Job
        BY <1>1, TaskShape, RowType DEF PCs
  <2>2. Sets(h, row(lines), {})
        BY <1>1, <1>3, RenameMeans
  <2> QED
      BY <2>1, <2>2, <1>3 DEF GoesOn
<1> HIDE DEF row
<1>4. CASE Finish(h) /\ UNCHANGED torn
      BY <1>4, <1>1, FinishMeans
<1>5. CASE /\ job' = [job EXCEPT ![h].pc = "rename", ![h].data = Normalize(raw, format)]
           /\ UNCHANGED <<syncing, torn>>
      BY <1>5, <1>2, <1>3
<1>6. ASSUME torn' = TRUE, UNCHANGED syncing,
             NEW part \in SUBSET Normalize(raw, format),
             job' = [job EXCEPT ![h].pc = "rename", ![h].data = part]
      PROVE  \E lines \in SUBSET Line :
                 /\ GoesOn(h, "rename", lines, job[h].ovs, job[h].behind, job[h].mixed, {})
                 /\ torn' /\ torn' \in BOOLEAN
  <2>1. part \in SUBSET Line
        BY <1>2
  <2>2. GoesOn(h, "rename", part, job[h].ovs, job[h].behind, job[h].mixed, {})
        BY <2>1, <1>3, <1>6
  <2>3. torn' /\ torn' \in BOOLEAN
        BY <1>6
  <2> QED
      BY <2>1, <2>2, <2>3
<1>7. \/ Finish(h) /\ UNCHANGED torn
      \/ /\ job' = [job EXCEPT ![h].pc = "rename", ![h].data = Normalize(raw, format)]
         /\ UNCHANGED <<syncing, torn>>
      \/ /\ torn' = TRUE /\ UNCHANGED syncing
         /\ \E part \in SUBSET Normalize(raw, format) :
               job' = [job EXCEPT ![h].pc = "rename", ![h].data = part]
      BY Zenon DEF Fetch
<1> QED
    BY <1>4, <1>5, <1>6, <1>7

LEMMA RenameStep ==
    ASSUME FilesInv, NEW h \in Handlers, Rename(h)
    PROVE  \/ /\ active' = job[h].data
              /\ GoesOn(h, "load", {}, {}, FALSE, FALSE, Reading)
           \/ Ends(h, {}) /\ active' = active
<1>1. /\ job \in [Handlers -> Job] /\ job[h].pc = "rename"
      BY DEF FilesInv, Rename
<1>2. CASE /\ active' = job[h].data
           /\ Replaced(h, JobAt("load", job[h].sync, {}))
  <2>1. Row("load", job[h].sync, {}, {}, FALSE, FALSE) \in Job
        BY <1>1, TaskShape, RowType DEF PCs
  <2>2. /\ Sets(h, Row("load", job[h].sync, {}, {}, FALSE, FALSE), Reading)
        /\ syncing' = syncing
        BY <1>2, ReplacedMeans DEF JobAt, Row
  <2> QED
      BY <1>2, <2>1, <2>2 DEF GoesOn
<1>3. CASE Finish(h) /\ UNCHANGED active
      BY <1>1, <1>3, FinishMeans
<1> QED
    BY <1>2, <1>3 DEF Rename

LEMMA TruncateStep ==
    ASSUME FilesInv, NEW h \in Handlers, Truncate(h)
    PROVE  \/ /\ overrides' = {}
              /\ GoesOn(h, "write", job[h].data, job[h].ovs, job[h].behind, job[h].mixed, {"install"})
           \/ Ends(h, {}) /\ overrides' = overrides
<1> DEFINE j == job[h]
           new == [j EXCEPT !.pc = "write"]
<1>1. /\ job \in [Handlers -> Job] /\ job[h].pc = "truncate"
      BY DEF FilesInv, Truncate
<1>2. CASE overrides' = {} /\ Rewritten(h, [job[h] EXCEPT !.pc = "write"])
  <2>1. Row("write", job[h].sync, job[h].data, job[h].ovs, job[h].behind, job[h].mixed) \in Job
        BY <1>1, TaskShape, RowType DEF PCs
  <2>2. j = Row(j.pc, j.sync, j.data, j.ovs, j.behind, j.mixed)
        BY <1>1, TaskShape
  <2>3. Sets(h, new, {"install"}) /\ syncing' = syncing
    <3>1. overrides' \subseteq Line
          BY <1>2
    <3>2. Rewritten(h, new)
          BY <1>2
    <3> HIDE DEF new
    <3> QED
        BY <3>1, <3>2, RewrittenMeans DEF FilesInv
  <2> HIDE DEF j
  <2>4. new = Row("write", j.sync, j.data, j.ovs, j.behind, j.mixed)
        BY <2>2 DEF Row
  <2> HIDE DEF new
  <2> QED
      BY <1>2, <2>1, <2>3, <2>4 DEF GoesOn, j
<1>3. CASE Finish(h) /\ UNCHANGED overrides
      BY <1>1, <1>3, FinishMeans
<1> QED
    BY <1>2, <1>3 DEF Truncate

\* A write leaves its text, or a torn file.
LEMMA WriteStep ==
    ASSUME TypeInv, NEW h \in Handlers, Write(h)
    PROVE  \/ /\ overrides = {} /\ overrides' = job[h].data
              /\ torn' = torn /\ lagging' = lagging
              /\ GoesOn(h, "load", {}, {}, FALSE, FALSE, {"install"})
           \/ /\ torn' /\ torn' \in BOOLEAN /\ overrides' \subseteq Line
              /\ lagging' = lagging
              /\ GoesOn(h, "load", {}, {}, FALSE, FALSE, {"install"})
           \/ /\ torn' /\ torn' \in BOOLEAN /\ overrides' \subseteq Line
              /\ lagging' /\ lagging' \in BOOLEAN
              /\ Ends(h, {"install"})
<1>1. /\ job \in [Handlers -> Job] /\ job[h].pc = "write"
      /\ overrides \subseteq Line /\ ~job[h].sync /\ syncing \in BOOLEAN
      BY DEF TypeInv, FilesInv, DataInv, SyncInv, Write
<1>2. job[h].data \subseteq Line
      BY <1>1, TaskShape
<1>3. Row("load", job[h].sync, {}, {}, FALSE, FALSE) \in Job
      BY <1>1, TaskShape, RowType DEF PCs
<1>4. ASSUME Rewritten(h, JobAt("load", job[h].sync, {})), overrides' \subseteq Line
      PROVE  GoesOn(h, "load", {}, {}, FALSE, FALSE, {"install"})
  <2>1. /\ Sets(h, JobAt("load", job[h].sync, {}), {"install"})
        /\ syncing' = syncing
        BY <1>1, <1>4, RewrittenMeans
  <2> QED
      BY <1>3, <2>1 DEF GoesOn, JobAt, Row
<1>5. CASE /\ overrides = {} /\ overrides' = job[h].data
           /\ Rewritten(h, JobAt("load", job[h].sync, {}))
           /\ UNCHANGED <<torn, lagging>>
      BY <1>2, <1>4, <1>5
<1>6. CASE /\ torn' = TRUE
           /\ \E tail \in SUBSET (overrides \cup Mangled) :
                 overrides' = job[h].data \cup tail
           /\ Rewritten(h, JobAt("load", job[h].sync, {}))
           /\ UNCHANGED lagging
  <2>1. overrides' \subseteq Line
        BY <1>1, <1>2, <1>6, TextAssumption
  <2>2. torn' /\ torn' \in BOOLEAN
        BY <1>6
  <2> QED
      BY <1>4, <1>6, <2>1, <2>2
<1>7. CASE /\ torn' = TRUE /\ lagging' = TRUE
           /\ \E part \in SUBSET (job[h].data \cup Mangled) : overrides' = part
           /\ Rewritten(h, NoJob)
  <2>1. overrides' \subseteq Line
        BY <1>2, <1>7, TextAssumption
  <2>2. torn' /\ torn' \in BOOLEAN /\ lagging' /\ lagging' \in BOOLEAN
        BY <1>7
  <2>3. Sets(h, NoJob, {"install"}) /\ syncing' = syncing
        BY <1>1, <1>7, <2>1, RewrittenMeans
  <2>4. syncing = (syncing /\ ~job[h].sync)
        BY <1>1
  <2>5. Ends(h, {"install"})
        BY <2>3, <2>4 DEF Ends, Job
  <2> QED
      BY <2>1, <2>2, <2>5
<1>8. \/ /\ overrides = {} /\ overrides' = job[h].data
         /\ Rewritten(h, JobAt("load", job[h].sync, {}))
         /\ UNCHANGED <<torn, lagging>>
      \/ /\ torn' = TRUE
         /\ \E tail \in SUBSET (overrides \cup Mangled) :
               overrides' = job[h].data \cup tail
         /\ Rewritten(h, JobAt("load", job[h].sync, {}))
         /\ UNCHANGED lagging
      \/ /\ torn' = TRUE /\ lagging' = TRUE
         /\ \E part \in SUBSET (job[h].data \cup Mangled) : overrides' = part
         /\ Rewritten(h, NoJob)
      BY Zenon DEF Write
<1> QED
    BY <1>5, <1>6, <1>7, <1>8

LEMMA GiveUpStep ==
    ASSUME FilesInv, NEW h \in Handlers, GiveUp(h)
    PROVE  Ends(h, {}) /\ lagging' /\ lagging' \in BOOLEAN
<1>1. Ends(h, {})
      BY FinishMeans DEF FilesInv, GiveUp
<1>2. lagging' = TRUE
      BY DEF GiveUp
<1>3. lagging' /\ lagging' \in BOOLEAN
      BY <1>2
<1> QED
    BY <1>1, <1>3

LEMMA ReloadLoadStep ==
    ASSUME FilesInv, NEW h \in Handlers, ReloadLoad(h)
    PROVE  \/ /\ Readable(active) /\ lagging' = lagging
              /\ GoesOn(h, "apply", Load(active), job[h].ovs, FALSE, job[h].mixed, {})
           \/ Ends(h, {}) /\ lagging' /\ lagging' \in BOOLEAN
<1>1. /\ job \in [Handlers -> Job] /\ job[h].pc = "load"
      BY DEF FilesInv, ReloadLoad
<1>2. CASE /\ Readable(active)
           /\ job' = [job EXCEPT ![h].pc = "apply", ![h].data = Load(active),
                                 ![h].behind = FALSE]
           /\ UNCHANGED <<syncing, lagging>>
  <2>1. Load(active) \in SUBSET Line
        BY <1>2, ReadableType DEF FilesInv, Entry
  <2>2. Row("apply", job[h].sync, Load(active), job[h].ovs, FALSE, job[h].mixed) \in Job
        BY <1>1, <2>1, TaskShape, RowType DEF PCs
  <2>3. Sets(h, Row("apply", job[h].sync, Load(active), job[h].ovs, FALSE, job[h].mixed), {})
        BY <1>1, <1>2, ApplyMeans
  <2> QED
      BY <1>2, <2>2, <2>3 DEF GoesOn
<1>3. CASE GiveUp(h)
      BY <1>3, GiveUpStep
<1> QED
    BY <1>2, <1>3 DEF ReloadLoad

LEMMA OpenOverridesStep ==
    ASSUME FilesInv, NEW h \in Handlers, OpenOverrides(h)
    PROVE  \/ /\ lagging' = lagging
              /\ \E pc \in {"install", "scan"} :
                    /\ GoesOn(h, pc, job[h].data, {}, job[h].behind, job[h].mixed, {})
                    /\ pc = "install" => overrides = NoFile
           \/ Ends(h, {}) /\ lagging' /\ lagging' \in BOOLEAN
<1>1. /\ job \in [Handlers -> Job] /\ job[h].pc = "apply"
      BY DEF FilesInv, OpenOverrides
<1>2. CASE /\ job' = [job EXCEPT ![h].pc = IF overrides = NoFile THEN "install" ELSE "scan",
                                 ![h].ovs = {}]
           /\ UNCHANGED <<syncing, lagging>>
  <2>1. PICK pc \in {"install", "scan"} :
            /\ pc = IF overrides = NoFile THEN "install" ELSE "scan"
            /\ job' = [job EXCEPT ![h].pc = pc, ![h].ovs = {}]
        BY <1>2
  <2>2. Row(pc, job[h].sync, job[h].data, {}, job[h].behind, job[h].mixed) \in Job
        BY <1>1, TaskShape, RowType DEF PCs
  <2>3. Sets(h, Row(pc, job[h].sync, job[h].data, {}, job[h].behind, job[h].mixed), {})
        BY <1>1, <2>1, InstallMeans
  <2>4. GoesOn(h, pc, job[h].data, {}, job[h].behind, job[h].mixed, {})
        BY <1>2, <2>2, <2>3 DEF GoesOn
  <2> QED
      BY <1>2, <2>1, <2>4
<1>3. CASE GiveUp(h)
      BY <1>3, GiveUpStep
<1> QED
    BY <1>2, <1>3 DEF OpenOverrides

\* What was scanned are entries, and the lines of the file if nobody rewrote it.
LEMMA ScannedMeans ==
    ASSUME FilesInv, NEW h \in Handlers, job[h].pc = "scan", NEW ovs \in Scanned(h),
           ValidateOverrides(ovs)
    PROVE  ovs \in SUBSET Entry /\ (job[h].mixed \/ ovs = Lines(overrides))
<1>1. job[h].ovs \subseteq Line
      BY TaskShape DEF FilesInv
<1>2. ovs \subseteq Line
      BY <1>1, LinesType, TextAssumption DEF FilesInv, Scanned
<1> QED
    BY <1>2 DEF ValidateOverrides, Entry, Scanned

LEMMA ReloadApplyStep ==
    ASSUME FilesInv, NEW h \in Handlers, ReloadApply(h)
    PROVE  \/ /\ lagging' = lagging
              /\ \E ovs \in SUBSET Entry :
                    /\ GoesOn(h, "install", job[h].data, ovs, job[h].behind, job[h].mixed, {})
                    /\ job[h].mixed \/ ovs = Lines(overrides)
           \/ Ends(h, {}) /\ lagging' /\ lagging' \in BOOLEAN
<1>1. /\ job \in [Handlers -> Job] /\ job[h].pc = "scan"
      BY DEF FilesInv, ReloadApply
<1>2. ASSUME NEW ovs \in Scanned(h), ValidateOverrides(ovs),
             job' = [job EXCEPT ![h].pc = "install", ![h].ovs = ovs],
             UNCHANGED <<syncing, lagging>>
      PROVE  /\ lagging' = lagging
             /\ \E lines \in SUBSET Entry :
                   /\ GoesOn(h, "install", job[h].data, lines, job[h].behind,
                             job[h].mixed, {})
                   /\ job[h].mixed \/ lines = Lines(overrides)
  <2>1. ovs \in SUBSET Entry /\ (job[h].mixed \/ ovs = Lines(overrides))
        BY <1>1, <1>2, ScannedMeans
  <2>2. Row("install", job[h].sync, job[h].data, ovs, job[h].behind, job[h].mixed) \in Job
    <3>1. ovs \in SUBSET Line
          BY <2>1 DEF Entry
    <3> QED
        BY <1>1, <3>1, TaskShape, RowType DEF PCs
  <2>3. Sets(h, Row("install", job[h].sync, job[h].data, ovs,
                    job[h].behind, job[h].mixed), {})
        BY <1>1, <1>2, InstallMeans
  <2>4. GoesOn(h, "install", job[h].data, ovs, job[h].behind, job[h].mixed, {})
        BY <1>2, <2>2, <2>3 DEF GoesOn
  <2> QED
      BY <1>2, <2>1, <2>4
<1>3. CASE GiveUp(h)
      BY <1>3, GiveUpStep
<1> QED
    BY <1>2, <1>3 DEF ReloadApply

LEMMA SetGlobalStep ==
    ASSUME FilesInv, NEW h \in Handlers, SetGlobal(h)
    PROVE  Ends(h, {})
BY FinishMeans DEF FilesInv, SetGlobal

\* The forms, read field by field.
Fields(h, pc, sync, data, ovs, behind, mixed) ==
    /\ job'[h].pc = pc /\ job'[h].data = data /\ job'[h].ovs = ovs
    /\ job'[h].sync = sync /\ job'[h].behind = behind /\ job'[h].mixed = mixed

LEMMA BeginsMeans ==
    ASSUME job \in [Handlers -> Job], NEW h \in Handlers, NEW pc, NEW sync, NEW data,
           Begins(h, pc, sync, data)
    PROVE  /\ job' \in [Handlers -> Job] /\ Others(h, {})
           /\ Fields(h, pc, sync, data, {}, FALSE, FALSE)
<1> DEFINE row == Row(pc, sync, data, {}, FALSE, FALSE)
<1>1. row \in Job /\ Sets(h, row, {})
      BY DEF Begins
<1> HIDE DEF row
<1>2. /\ job' \in [Handlers -> Job] /\ Others(h, {}) /\ job'[h] = row
      BY <1>1, SetsMeans
<1> QED
    BY <1>2 DEF Fields, row, Row

LEMMA GoesOnMeans ==
    ASSUME job \in [Handlers -> Job], NEW h \in Handlers, NEW pc, NEW data, NEW ovs,
           NEW behind, NEW mixed, NEW readers \in SUBSET Reading,
           GoesOn(h, pc, data, ovs, behind, mixed, readers)
    PROVE  /\ job' \in [Handlers -> Job] /\ Others(h, readers)
           /\ Fields(h, pc, job[h].sync, data, ovs, behind, mixed)
<1>1. /\ job' \in [Handlers -> Job] /\ Others(h, readers)
      /\ job'[h] = Row(pc, job[h].sync, data, ovs, behind, mixed)
      BY SetsMeans DEF GoesOn
<1> QED
    BY <1>1 DEF Fields, Row

LEMMA EndsMeans ==
    ASSUME job \in [Handlers -> Job], NEW h \in Handlers,
           NEW readers \in SUBSET Reading, Ends(h, readers)
    PROVE  /\ job' \in [Handlers -> Job] /\ Others(h, readers)
           /\ job'[h].pc = "idle"
<1>1. /\ job' \in [Handlers -> Job] /\ Others(h, readers) /\ job'[h] = NoJob
      BY SetsMeans DEF Ends
<1> QED
    BY <1>1 DEF NoJob

-----------------------------------------------------------------------------
(* The flag and the downloads *)

LEMMA SyncBegins ==
    ASSUME job \in [Handlers -> Job], SyncInv, NEW h \in Handlers,
           NEW pc \in {"fetch", "truncate"}, NEW sync \in BOOLEAN, NEW data,
           Begins(h, pc, sync, data), sync => pc = "fetch" /\ ~syncing,
           syncing' = (syncing \/ sync)
    PROVE  SyncInv'
<1>1. Others(h, {}) /\ job'[h].pc = pc /\ job'[h].sync = sync
      BY BeginsMeans DEF Fields
<1>2. ~Downloads(h) /\ (Downloads(h)' <=> sync)
      BY <1>1 DEF Begins, Downloads
<1>3. \A g \in Handlers \ {h} : Downloads(g)' <=> Downloads(g)
      BY <1>1 DEF Others, Kept, Downloads
<1>4. syncing' \in BOOLEAN /\ (syncing' <=> \E g \in Handlers : Downloads(g)')
      BY <1>2, <1>3 DEF SyncInv
<1>5. \A f, g \in Handlers : Downloads(f)' /\ Downloads(g)' => f = g
      BY <1>2, <1>3 DEF SyncInv
<1>6. \A g \in Handlers : job'[g].pc \in {"truncate", "write"} => ~job'[g].sync
      BY <1>1 DEF SyncInv, Others, Kept
<1> QED
    BY <1>4, <1>5, <1>6 DEF SyncInv

LEMMA SyncGoesOn ==
    ASSUME job \in [Handlers -> Job], SyncInv, NEW h \in Handlers,
           NEW pc, NEW data, NEW ovs, NEW behind, NEW mixed,
           NEW readers \in SUBSET Reading,
           GoesOn(h, pc, data, ovs, behind, mixed, readers),
           job[h].pc # "idle", pc # "idle",
           pc \in {"truncate", "write"} => job[h].pc \in {"truncate", "write"}
    PROVE  SyncInv'
<1>1. Others(h, readers) /\ job'[h].pc = pc /\ job'[h].sync = job[h].sync
      BY GoesOnMeans DEF Fields
<1>2. \A g \in Handlers : Downloads(g)' <=> Downloads(g)
      BY <1>1 DEF Others, Kept, Downloads
<1>3. \A g \in Handlers : job'[g].pc \in {"truncate", "write"} => ~job'[g].sync
      BY <1>1 DEF SyncInv, Others, Kept
<1>4. syncing' = syncing
      BY DEF GoesOn
<1> QED
    BY <1>2, <1>3, <1>4 DEF SyncInv

LEMMA SyncEnding ==
    ASSUME job \in [Handlers -> Job], SyncInv, NEW h \in Handlers,
           NEW readers \in SUBSET Reading, Ends(h, readers),
           job[h].pc # "idle"
    PROVE  SyncInv'
<1>1. Others(h, readers) /\ job'[h].pc = "idle"
      BY EndsMeans
<1>2. ~Downloads(h)' /\ (Downloads(h) <=> job[h].sync)
      BY <1>1 DEF Downloads
<1>3. \A g \in Handlers \ {h} : Downloads(g)' <=> Downloads(g)
      BY <1>1 DEF Others, Kept, Downloads
<1>4. syncing' = (syncing /\ ~job[h].sync)
      BY DEF Ends
<1>5. syncing' \in BOOLEAN /\ (syncing' <=> \E g \in Handlers : Downloads(g)')
  <2>1. syncing' \in BOOLEAN
        BY <1>4
  <2>2. CASE Downloads(h)
        BY <2>2, <1>2, <1>3, <1>4 DEF SyncInv
  <2>3. CASE ~Downloads(h)
        BY <2>3, <1>2, <1>3, <1>4 DEF SyncInv
  <2> QED
      BY <2>1, <2>2, <2>3
<1>6. \A f, g \in Handlers : Downloads(f)' /\ Downloads(g)' => f = g
      BY <1>2, <1>3 DEF SyncInv
<1>7. \A g \in Handlers : job'[g].pc \in {"truncate", "write"} => ~job'[g].sync
      BY <1>1 DEF SyncInv, Others, Kept
<1> QED
    BY <1>5, <1>6, <1>7 DEF SyncInv

LEMMA SyncStep ==
    ASSUME TypeInv, [Next]_vars
    PROVE  SyncInv'
<1> USE DEF TypeInv, FilesInv
<1>1. ASSUME NEW h \in Handlers, NEW raw \in Raws, NEW format \in Formats,
             Fetch(h, raw, format)
      PROVE  SyncInv'
  <2>1. \/ Ends(h, {})
        \/ \E lines : GoesOn(h, "rename", lines, job[h].ovs, job[h].behind,
                             job[h].mixed, {})
        BY <1>1, FetchStep
  <2>2. {} \in SUBSET Reading /\ job[h].pc = "fetch"
        BY <1>1 DEF Fetch
  <2> QED
      BY <2>1, <2>2, SyncGoesOn, SyncEnding
<1>2. ASSUME NEW h \in Handlers, Rename(h)
      PROVE  SyncInv'
      BY <1>2, RenameStep, SyncGoesOn, SyncEnding DEF Rename
<1>3. ASSUME NEW h \in Handlers, Truncate(h)
      PROVE  SyncInv'
      BY <1>3, TruncateStep, SyncGoesOn, SyncEnding DEF Truncate
<1>4. ASSUME NEW h \in Handlers, Write(h)
      PROVE  SyncInv'
      BY <1>4, WriteStep, SyncGoesOn, SyncEnding DEF Write
<1>5. ASSUME NEW h \in Handlers, ReloadLoad(h)
      PROVE  SyncInv'
  <2>1. \/ \E data : GoesOn(h, "apply", data, job[h].ovs, FALSE, job[h].mixed, {})
        \/ Ends(h, {})
        BY <1>5, ReloadLoadStep
  <2>2. {} \in SUBSET Reading
        OBVIOUS
  <2> QED
      BY <1>5, <2>1, <2>2, SyncGoesOn, SyncEnding DEF ReloadLoad
<1>6. ASSUME NEW h \in Handlers, ReloadApply(h)
      PROVE  SyncInv'
  <2>1. \/ \E ovs : GoesOn(h, "install", job[h].data, ovs, job[h].behind, job[h].mixed, {})
        \/ Ends(h, {})
        BY <1>6, ReloadApplyStep
  <2>2. {} \in SUBSET Reading
        OBVIOUS
  <2> QED
      BY <1>6, <2>1, <2>2, SyncGoesOn, SyncEnding DEF ReloadApply
<1>13. ASSUME NEW h \in Handlers, OpenOverrides(h)
       PROVE  SyncInv'
  <2>1. \/ \E pc \in {"install", "scan"} :
              GoesOn(h, pc, job[h].data, {}, job[h].behind, job[h].mixed, {})
        \/ Ends(h, {})
        BY <1>13, OpenOverridesStep
  <2>2. {} \in SUBSET Reading
        OBVIOUS
  <2> QED
      BY <1>13, <2>1, <2>2, SyncGoesOn, SyncEnding DEF OpenOverrides
<1>7. ASSUME NEW h \in Handlers, SetGlobal(h)
      PROVE  SyncInv'
      BY <1>7, SetGlobalStep, SyncEnding DEF SetGlobal
<1>8. ASSUME NEW h \in Handlers, SyncFrom(h)
      PROVE  SyncInv'
      BY <1>8, SyncFromStep, SyncBegins DEF SyncFrom
<1>9. ASSUME NEW h \in Handlers, ImportUpload(h)
      PROVE  SyncInv'
      BY <1>9, ImportUploadStep, SyncBegins DEF ImportUpload, SyncInv
<1>10. ASSUME NEW h \in Handlers, NEW text \in OverrideTexts, SaveOverride(h, text)
       PROVE  SyncInv'
       BY <1>10, SaveOverrideStep, SyncBegins DEF SaveOverride, SyncInv
<1>11. CASE Restart
       BY <1>11 DEF Restart, SyncInv, Downloads, NoJob
<1>12. CASE UNCHANGED vars
       BY <1>12 DEF vars, SyncInv, Downloads
<1> QED
    BY <1>1, <1>2, <1>3, <1>4, <1>5, <1>6, <1>7, <1>8, <1>9, <1>10, <1>11, <1>12,
       <1>13 DEF Next, Step

-----------------------------------------------------------------------------
(* Types *)

LEMMA InstallType ==
    ASSUME FilesInv, DataInv, NEW h \in Handlers, job[h].pc = "install"
    PROVE  LET db == ApplyOverrides(job[h].data, job[h].ovs) IN
           db # {} /\ db \subseteq Entry
<1>1. job[h].ovs \subseteq Entry
      BY DEF DataInv
<1>2. job[h].data # {} /\ job[h].data \subseteq Entry
      BY DEF DataInv
<1> QED
    BY <1>1, <1>2, ApplyType

\* What a start installs: the files, or what it finds first.
FirstFile == IF Explicit # NoFile THEN Explicit ELSE Load(Lines(active))

LEMMA FirstType ==
    ASSUME FilesInv
    PROVE  FirstFile \subseteq Entry
<1>1. Lines(active) \subseteq Line
      BY LinesType DEF FilesInv
<1>2. Load(Lines(active)) \subseteq Entry
      BY <1>1, LoadType
<1> QED
    BY <1>2, ExplicitAssumption DEF FirstFile

LEMMA RestartMeans ==
    ASSUME Restart
    PROVE  \/ /\ Readable(active) /\ Applicable(overrides) /\ ~lagging'
              /\ served' = ApplyOverrides(Load(active), Lines(overrides))
              /\ origin'.main = Load(active) /\ origin'.ovs = Lines(overrides)
              /\ lagging' \in BOOLEAN
           \/ /\ served' = IF FirstFile = {} THEN NoDB ELSE FirstFile
              /\ origin'.main = FirstFile /\ origin'.ovs = {}
              /\ Readable(active) /\ Applicable(overrides) => lagging'
              /\ lagging' \in BOOLEAN
<1> DEFINE first == IF Explicit # NoFile THEN Explicit ELSE Load(Lines(active))
<1>1. CASE /\ Readable(active) /\ Applicable(overrides)
           /\ served' = ApplyOverrides(Load(active), Lines(overrides))
           /\ origin' = [main |-> Load(active), ovs |-> Lines(overrides), mixed |-> FALSE]
           /\ lagging' = FALSE
  <2>1. origin'.main = Load(active) /\ origin'.ovs = Lines(overrides)
        BY <1>1
  <2>2. ~lagging' /\ lagging' \in BOOLEAN
        BY <1>1
  <2> QED
      BY <1>1, <2>1, <2>2
<1>2. CASE /\ served' = IF first = {} THEN NoDB ELSE first
           /\ origin' = [main |-> first, ovs |-> {}, mixed |-> FALSE]
           /\ lagging' = (Readable(active) /\ Applicable(overrides))
  <2>1. first = FirstFile
        BY DEF FirstFile
  <2> HIDE DEF first
  <2>2. origin'.main = FirstFile /\ origin'.ovs = {}
        BY <1>2, <2>1
  <2>3. (Readable(active) /\ Applicable(overrides) => lagging') /\ lagging' \in BOOLEAN
        BY <1>2
  <2> QED
      BY <1>2, <2>1, <2>2, <2>3
<1> QED
    BY <1>1, <1>2 DEF Restart, LoadPrefixDB

LEMMA RestartType ==
    ASSUME FilesInv, Restart
    PROVE  /\ job' \in [Handlers -> Job] /\ \A h \in Handlers : job'[h] = NoJob
           /\ served' = NoDB \/ (served' # {} /\ served' \subseteq Entry)
           /\ lagging' \in BOOLEAN
<1>1. /\ job' \in [Handlers -> Job] /\ \A h \in Handlers : job'[h] = NoJob
      BY DEF Restart, Job
<1>2. CASE /\ Readable(active) /\ Applicable(overrides)
           /\ served' = ApplyOverrides(Load(active), Lines(overrides))
           /\ lagging' \in BOOLEAN
  <2>1. /\ Load(active) # {} /\ Load(active) \subseteq Entry
        /\ Lines(overrides) \subseteq Entry
        BY <1>2, ReadableType, ApplicableType DEF FilesInv
  <2> QED
      BY <1>1, <1>2, <2>1, ApplyType
<1>3. CASE /\ served' = IF FirstFile = {} THEN NoDB ELSE FirstFile
           /\ lagging' \in BOOLEAN
      BY <1>1, <1>3, FirstType
<1> QED
    BY <1>2, <1>3, RestartMeans

LEMMA FilesStep ==
    ASSUME TypeInv, [Next]_vars
    PROVE  FilesInv'
<1> USE DEF TypeInv, FilesInv
<1>1. ASSUME NEW h \in Handlers, NEW raw \in Raws, NEW format \in Formats,
             Fetch(h, raw, format)
      PROVE  FilesInv'
  <2>1. /\ \/ Ends(h, {})
           \/ \E lines \in SUBSET Line :
                 GoesOn(h, "rename", lines, job[h].ovs, job[h].behind, job[h].mixed, {})
        /\ torn' \in BOOLEAN
        BY <1>1, FetchStep
  <2>2. job' \in [Handlers -> Job]
        BY <2>1, GoesOnMeans, EndsMeans
  <2> QED
      BY <1>1, <2>1, <2>2 DEF Fetch
<1>2. ASSUME NEW h \in Handlers, Rename(h)
      PROVE  FilesInv'
  <2>1. job[h].data \subseteq Line
        BY <1>2, TaskShape DEF Rename
  <2> QED
      BY <1>2, <2>1, RenameStep, GoesOnMeans, EndsMeans DEF Rename
<1>3. ASSUME NEW h \in Handlers, Truncate(h)
      PROVE  FilesInv'
      BY <1>3, TruncateStep, GoesOnMeans, EndsMeans DEF Truncate
<1>4. ASSUME NEW h \in Handlers, Write(h)
      PROVE  FilesInv'
  <2>1. job[h].data \subseteq Line
        BY <1>4, TaskShape DEF Write
  <2> QED
      BY <1>4, <2>1, WriteStep, GoesOnMeans, EndsMeans DEF Write
<1>5. ASSUME NEW h \in Handlers, ReloadLoad(h)
      PROVE  FilesInv'
  <2>1. /\ \/ \E data : GoesOn(h, "apply", data, job[h].ovs, FALSE, job[h].mixed, {})
           \/ Ends(h, {})
        /\ lagging' \in BOOLEAN
        BY <1>5, ReloadLoadStep
  <2>2. ASSUME NEW data, GoesOn(h, "apply", data, job[h].ovs, FALSE, job[h].mixed, {})
        PROVE  job' \in [Handlers -> Job]
    <3>1. {} \in SUBSET Reading
          OBVIOUS
    <3> QED
        BY <2>2, <3>1, GoesOnMeans
  <2>3. job' \in [Handlers -> Job]
        BY <2>1, <2>2, EndsMeans
  <2> QED
      BY <1>5, <2>1, <2>3 DEF ReloadLoad
<1>6. ASSUME NEW h \in Handlers, ReloadApply(h)
      PROVE  FilesInv'
  <2>1. /\ \/ \E ovs : GoesOn(h, "install", job[h].data, ovs, job[h].behind, job[h].mixed, {})
           \/ Ends(h, {})
        /\ lagging' \in BOOLEAN
        BY <1>6, ReloadApplyStep
  <2>2. {} \in SUBSET Reading
        OBVIOUS
  <2>3. job' \in [Handlers -> Job]
        BY <2>1, <2>2, GoesOnMeans, EndsMeans
  <2> QED
      BY <1>6, <2>1, <2>3 DEF ReloadApply
<1>13. ASSUME NEW h \in Handlers, OpenOverrides(h)
       PROVE  FilesInv'
  <2>1. /\ \/ \E pc \in {"install", "scan"} :
                 GoesOn(h, pc, job[h].data, {}, job[h].behind, job[h].mixed, {})
           \/ Ends(h, {})
        /\ lagging' \in BOOLEAN
        BY <1>13, OpenOverridesStep
  <2>2. {} \in SUBSET Reading
        OBVIOUS
  <2>3. job' \in [Handlers -> Job]
        BY <2>1, <2>2, GoesOnMeans, EndsMeans
  <2> QED
      BY <1>13, <2>1, <2>3 DEF OpenOverrides
<1>7. ASSUME NEW h \in Handlers, SetGlobal(h)
      PROVE  FilesInv'
  <2>1. job' \in [Handlers -> Job]
        BY <1>7, SetGlobalStep, EndsMeans
  <2>2. served' # {} /\ served' \subseteq Entry
        BY <1>7, InstallType DEF SetGlobal
  <2>3. job[h].behind \in BOOLEAN /\ job[h].mixed \in BOOLEAN
        BY <1>7, TaskShape DEF SetGlobal
  <2> QED
      BY <1>7, <2>1, <2>2, <2>3 DEF SetGlobal
<1>8. ASSUME NEW h \in Handlers, SyncFrom(h)
      PROVE  FilesInv'
      BY <1>8, SyncFromStep, BeginsMeans DEF SyncFrom
<1>9. ASSUME NEW h \in Handlers, ImportUpload(h)
      PROVE  FilesInv'
      BY <1>9, ImportUploadStep, BeginsMeans DEF ImportUpload
<1>10. ASSUME NEW h \in Handlers, NEW text \in OverrideTexts, SaveOverride(h, text)
       PROVE  FilesInv'
       BY <1>10, SaveOverrideStep, BeginsMeans DEF SaveOverride
<1>11. CASE Restart
       BY <1>11, RestartType DEF Restart
<1>12. CASE UNCHANGED vars
       BY <1>12 DEF vars
<1> QED
    BY <1>1, <1>2, <1>3, <1>4, <1>5, <1>6, <1>7, <1>8, <1>9, <1>10, <1>11, <1>12,
       <1>13 DEF Next, Step

-----------------------------------------------------------------------------
(* What the actions leave to the tasks, for the invariants that follow *)

Carries(h, pc, data, ovs) ==
    job'[h].pc = pc /\ job'[h].data = data /\ job'[h].ovs = ovs

Leaves(h, readers) == Others(h, readers) /\ job'[h].pc = "idle"

LEMMA NoReaders == {} \in SUBSET Reading
OBVIOUS

LEMMA LeavesMeans ==
    ASSUME FilesInv, NEW h \in Handlers,
           NEW readers \in SUBSET Reading, Ends(h, readers)
    PROVE  Leaves(h, readers)
BY EndsMeans DEF FilesInv, Leaves

LEMMA CarriesMeans ==
    ASSUME FilesInv, NEW h \in Handlers, NEW pc, NEW data, NEW ovs, NEW behind, NEW mixed,
           NEW readers \in SUBSET Reading,
           GoesOn(h, pc, data, ovs, behind, mixed, readers)
    PROVE  /\ Others(h, readers) /\ Carries(h, pc, data, ovs)
           /\ job'[h].behind = behind /\ job'[h].mixed = mixed
BY GoesOnMeans DEF FilesInv, Fields, Carries

LEMMA FetchEffect ==
    ASSUME FilesInv, NEW h \in Handlers, NEW raw \in Raws, NEW format \in Formats,
           Fetch(h, raw, format)
    PROVE  \/ Leaves(h, {}) /\ torn' = torn
           \/ \E lines \in SUBSET Line :
                 /\ Others(h, {}) /\ Carries(h, "rename", lines, job[h].ovs)
                 /\ \/ torn' = torn /\ lines = Normalize(raw, format)
                    \/ torn'
BY FetchStep, NoReaders, LeavesMeans, CarriesMeans

LEMMA RenameEffect ==
    ASSUME FilesInv, NEW h \in Handlers, Rename(h)
    PROVE  \/ /\ active' = job[h].data /\ Others(h, Reading)
              /\ Carries(h, "load", {}, {})
           \/ Leaves(h, {}) /\ active' = active
BY RenameStep, NoReaders, LeavesMeans, CarriesMeans

LEMMA TruncateEffect ==
    ASSUME FilesInv, NEW h \in Handlers, Truncate(h)
    PROVE  \/ /\ overrides' = {} /\ Others(h, {"install"})
              /\ Carries(h, "write", job[h].data, job[h].ovs)
           \/ Leaves(h, {}) /\ overrides' = overrides
BY TruncateStep, NoReaders, LeavesMeans, CarriesMeans

LEMMA WriteEffect ==
    ASSUME TypeInv, NEW h \in Handlers, Write(h)
    PROVE  /\ Others(h, {"install"})
           /\ \/ overrides = {} /\ overrides' = job[h].data /\ torn' = torn
              \/ overrides' \subseteq Line /\ torn'
           /\ \/ Carries(h, "load", {}, {}) /\ lagging' = lagging
              \/ job'[h].pc = "idle" /\ lagging'
<1>1. FilesInv
      BY DEF TypeInv
<1>2. ASSUME GoesOn(h, "load", {}, {}, FALSE, FALSE, {"install"})
      PROVE  Others(h, {"install"}) /\ Carries(h, "load", {}, {})
      BY <1>1, <1>2, CarriesMeans
<1>3. ASSUME Ends(h, {"install"})
      PROVE  Others(h, {"install"}) /\ job'[h].pc = "idle"
      BY <1>1, <1>3, LeavesMeans DEF Leaves
<1> QED
    BY WriteStep, <1>2, <1>3

LEMMA ReloadLoadEffect ==
    ASSUME FilesInv, NEW h \in Handlers, ReloadLoad(h)
    PROVE  \/ /\ Readable(active) /\ lagging' = lagging /\ Others(h, {})
              /\ Carries(h, "apply", Load(active), job[h].ovs)
           \/ Leaves(h, {}) /\ lagging'
<1>1. ASSUME NEW data, NEW behind, NEW mixed,
             GoesOn(h, "apply", data, job[h].ovs, behind, mixed, {})
      PROVE  Others(h, {}) /\ Carries(h, "apply", data, job[h].ovs)
      BY <1>1, NoReaders, CarriesMeans
<1> QED
    BY <1>1, ReloadLoadStep, NoReaders, LeavesMeans

LEMMA OpenOverridesEffect ==
    ASSUME FilesInv, NEW h \in Handlers, OpenOverrides(h)
    PROVE  \/ /\ lagging' = lagging /\ Others(h, {})
              /\ \/ Carries(h, "scan", job[h].data, {})
                 \/ Carries(h, "install", job[h].data, {}) /\ overrides = NoFile
              /\ job'[h].behind = job[h].behind
           \/ Leaves(h, {}) /\ lagging'
<1>1. ASSUME NEW pc, GoesOn(h, pc, job[h].data, {}, job[h].behind, job[h].mixed, {})
      PROVE  /\ Others(h, {}) /\ Carries(h, pc, job[h].data, {})
             /\ job'[h].behind = job[h].behind
      BY <1>1, NoReaders, CarriesMeans
<1> QED
    BY <1>1, OpenOverridesStep, NoReaders, LeavesMeans

LEMMA ReloadApplyEffect ==
    ASSUME FilesInv, NEW h \in Handlers, ReloadApply(h)
    PROVE  \/ /\ lagging' = lagging /\ Others(h, {})
              /\ \E ovs \in SUBSET Entry :
                    /\ Carries(h, "install", job[h].data, ovs)
                    /\ job'[h].mixed \/ ovs = Lines(overrides)
              /\ job'[h].behind = job[h].behind
           \/ Leaves(h, {}) /\ lagging'
<1>1. ASSUME NEW ovs,
             GoesOn(h, "install", job[h].data, ovs, job[h].behind, job[h].mixed, {})
      PROVE  /\ Others(h, {}) /\ Carries(h, "install", job[h].data, ovs)
             /\ job'[h].behind = job[h].behind /\ job'[h].mixed = job[h].mixed
      BY <1>1, NoReaders, CarriesMeans
<1> QED
    BY <1>1, ReloadApplyStep, NoReaders, LeavesMeans

LEMMA SetGlobalEffect ==
    ASSUME FilesInv, NEW h \in Handlers, SetGlobal(h)
    PROVE  Leaves(h, {})
BY SetGlobalStep, NoReaders, LeavesMeans

LEMMA SyncFromEffect ==
    ASSUME FilesInv, NEW h \in Handlers, SyncFrom(h)
    PROVE  Others(h, {}) /\ job'[h].pc = "fetch" /\ job[h].pc = "idle"
BY SyncFromStep, BeginsMeans DEF FilesInv, Begins, Fields

LEMMA ImportUploadEffect ==
    ASSUME FilesInv, NEW h \in Handlers, ImportUpload(h)
    PROVE  Others(h, {}) /\ job'[h].pc = "fetch" /\ job[h].pc = "idle"
BY ImportUploadStep, BeginsMeans DEF FilesInv, Begins, Fields

LEMMA SaveOverrideEffect ==
    ASSUME FilesInv, NEW h \in Handlers, NEW text \in OverrideTexts, SaveOverride(h, text)
    PROVE  Others(h, {}) /\ Carries(h, "truncate", text, {}) /\ job[h].pc = "idle"
<1>1. Begins(h, "truncate", FALSE, text) /\ job \in [Handlers -> Job]
      BY SaveOverrideStep DEF FilesInv
<1>2. Others(h, {}) /\ Fields(h, "truncate", FALSE, text, {}, FALSE, FALSE)
      BY <1>1, BeginsMeans
<1>3. job[h].pc = "idle"
      BY <1>1 DEF Begins
<1> QED
    BY <1>2, <1>3 DEF Fields, Carries

LEMMA DataStep ==
    ASSUME TypeInv, [Next]_vars
    PROVE  DataInv'
<1> USE DEF TypeInv
<1>1. ASSUME NEW h \in Handlers, NEW raw \in Raws, NEW format \in Formats,
             Fetch(h, raw, format)
      PROVE  DataInv'
  <2>1. Others(h, {}) /\ job'[h].pc \in {"rename", "idle"}
        BY <1>1, FetchEffect DEF Carries, Leaves
  <2>2. UNCHANGED <<active, overrides>>
        BY <1>1 DEF Fetch
  <2> QED
      BY <2>1, <2>2 DEF DataInv, Others, Kept
<1>2. ASSUME NEW h \in Handlers, Rename(h)
      PROVE  DataInv'
      BY <1>2, RenameEffect DEF Rename, DataInv, Others, Kept, Carries, Leaves
<1>3. ASSUME NEW h \in Handlers, Truncate(h)
      PROVE  DataInv'
      BY <1>3, TruncateEffect DEF Truncate, DataInv, Others, Kept, Carries, Leaves
<1>4. ASSUME NEW h \in Handlers, Write(h)
      PROVE  DataInv'
  <2>1. Others(h, {"install"}) /\ job'[h].pc \in {"load", "idle"}
        BY <1>4, WriteEffect DEF Carries
  <2>2. overrides' \subseteq Line
    <3>1. job[h].data \subseteq Line
          BY <1>4, TaskShape DEF Write, FilesInv
    <3> QED
        BY <1>4, <3>1, WriteEffect
  <2> QED
      BY <2>1, <2>2 DEF DataInv, Others, Kept
<1>5. ASSUME NEW h \in Handlers, ReloadLoad(h)
      PROVE  DataInv'
  <2>1. CASE Leaves(h, {})
        BY <1>5, <2>1 DEF ReloadLoad, DataInv, Others, Kept, Leaves
  <2>2. CASE /\ Readable(active) /\ Others(h, {})
             /\ Carries(h, "apply", Load(active), job[h].ovs)
    <3>1. Load(active) # {} /\ Load(active) \subseteq Entry
          BY <2>2, ReadableType DEF FilesInv
    <3> QED
        BY <1>5, <2>2, <3>1 DEF ReloadLoad, DataInv, Others, Kept, Carries
  <2> QED
      BY <1>5, <2>1, <2>2, ReloadLoadEffect
<1>6. ASSUME NEW h \in Handlers, ReloadApply(h)
      PROVE  DataInv'
  <2>1. UNCHANGED <<active, overrides>> /\ job[h].pc = "scan"
        BY <1>6 DEF ReloadApply
  <2>2. CASE Leaves(h, {})
        BY <2>1, <2>2 DEF DataInv, Others, Kept, Leaves
  <2>3. ASSUME NEW ovs \in SUBSET Entry, Others(h, {}),
               Carries(h, "install", job[h].data, ovs)
        PROVE  DataInv'
        BY <2>1, <2>3 DEF DataInv, Others, Kept, Carries
  <2> QED
      BY <1>6, <2>2, <2>3, ReloadApplyEffect
<1>13. ASSUME NEW h \in Handlers, OpenOverrides(h)
       PROVE  DataInv'
       BY <1>13, OpenOverridesEffect
       DEF OpenOverrides, DataInv, Others, Kept, Carries, Leaves
<1>7. ASSUME NEW h \in Handlers, SetGlobal(h)
      PROVE  DataInv'
      BY <1>7, SetGlobalEffect DEF SetGlobal, DataInv, Others, Kept, Leaves
<1>8. ASSUME NEW h \in Handlers, SyncFrom(h)
      PROVE  DataInv'
  <2>1. Others(h, {}) /\ job'[h].pc = "fetch"
        BY <1>8, SyncFromEffect
  <2>2. overrides' = overrides
        BY <1>8 DEF SyncFrom
  <2> QED
      BY <2>1, <2>2 DEF DataInv, Others, Kept
<1>9. ASSUME NEW h \in Handlers, ImportUpload(h)
      PROVE  DataInv'
  <2>1. Others(h, {}) /\ job'[h].pc = "fetch"
        BY <1>9, ImportUploadEffect
  <2>2. overrides' = overrides
        BY <1>9 DEF ImportUpload
  <2> QED
      BY <2>1, <2>2 DEF DataInv, Others, Kept
<1>10. ASSUME NEW h \in Handlers, NEW text \in OverrideTexts, SaveOverride(h, text)
      PROVE  DataInv'
  <2>1. Others(h, {}) /\ job'[h].pc = "truncate"
        BY <1>10, SaveOverrideEffect DEF Carries
  <2> QED
      BY <1>10, <2>1 DEF SaveOverride, DataInv, Others, Kept
<1>11. CASE Restart
       BY <1>11, RestartType DEF Restart, DataInv, NoJob
<1>12. CASE UNCHANGED vars
       BY <1>12 DEF vars, DataInv
<1> QED
    BY <1>1, <1>2, <1>3, <1>4, <1>5, <1>6, <1>7, <1>8, <1>9, <1>10, <1>11, <1>12,
       <1>13 DEF Next, Step

-----------------------------------------------------------------------------
(* Whole files *)

LEMMA WholeTasksStep ==
    ASSUME TypeInv, WholeInv, [Next]_vars
    PROVE  WholeTasks'
<1> USE DEF TypeInv
<1>1. ASSUME NEW h \in Handlers, NEW raw \in Raws, NEW format \in Formats,
             Fetch(h, raw, format)
      PROVE  WholeTasks'
  <2>1. Sent(Normalize(raw, format))
        BY DEF Sent
  <2>2. CASE Leaves(h, {}) /\ torn' = torn
        BY <1>1, <2>2 DEF Fetch, WholeInv, WholeTasks, CarriesWhole, Others, Kept, Leaves
  <2>3. ASSUME NEW lines, Others(h, {}), Carries(h, "rename", lines, job[h].ovs),
               (torn' = torn /\ lines = Normalize(raw, format)) \/ torn'
        PROVE  WholeTasks'
        BY <2>1, <2>3 DEF WholeInv, WholeTasks, CarriesWhole, Others, Kept, Carries
  <2> QED
      BY <1>1, <2>2, <2>3, FetchEffect
<1>2. ASSUME NEW h \in Handlers, Rename(h)
      PROVE  WholeTasks'
      BY <1>2, RenameEffect
      DEF Rename, WholeInv, WholeTasks, WholeFiles, CarriesWhole, Others, Kept, Carries, Leaves
<1>3. ASSUME NEW h \in Handlers, Truncate(h)
      PROVE  WholeTasks'
      BY <1>3, TruncateEffect
      DEF Truncate, WholeInv, WholeTasks, WholeFiles, CarriesWhole, Others, Kept, Carries, Leaves
<1>4. ASSUME NEW h \in Handlers, Write(h)
      PROVE  WholeTasks'
      BY <1>4, WriteEffect
      DEF Write, WholeInv, WholeTasks, WholeFiles, CarriesWhole, Others, Kept, Carries
<1>5. ASSUME NEW h \in Handlers, ReloadLoad(h)
      PROVE  WholeTasks'
  <2>1. CASE Leaves(h, {})
        BY <1>5, <2>1 DEF ReloadLoad, WholeInv, WholeTasks, CarriesWhole, Others, Kept, Leaves
  <2>2. CASE /\ Readable(active) /\ Others(h, {})
             /\ Carries(h, "apply", Load(active), job[h].ovs)
    <3>1. ~torn => SentEntries(Load(active))
          BY <2>2 DEF WholeInv, WholeFiles, Readable, Sent, SentEntries
    <3> QED
        BY <1>5, <2>2, <3>1
        DEF ReloadLoad, WholeInv, WholeTasks, CarriesWhole, Others, Kept, Carries
  <2> QED
      BY <1>5, <2>1, <2>2, ReloadLoadEffect
<1>6. ASSUME NEW h \in Handlers, ReloadApply(h)
      PROVE  WholeTasks'
  <2>1. CASE Leaves(h, {})
        BY <1>6, <2>1 DEF ReloadApply, WholeInv, WholeTasks, CarriesWhole, Others, Kept, Leaves
  <2>2. ASSUME NEW ovs, Others(h, {}), Carries(h, "install", job[h].data, ovs),
               job'[h].mixed \/ ovs = Lines(overrides)
        PROVE  WholeTasks'
    <3>1. ~torn => Saved(Lines(overrides))
          BY DEF WholeInv, WholeFiles, Lines, Saved
    <3> QED
        BY <1>6, <2>2, <3>1
        DEF ReloadApply, WholeInv, WholeTasks, CarriesWhole, Others, Kept, Carries
  <2> QED
      BY <1>6, <2>1, <2>2, ReloadApplyEffect
<1>13. ASSUME NEW h \in Handlers, OpenOverrides(h)
       PROVE  WholeTasks'
  <2>1. Saved({})
        BY DEF Saved
  <2> QED
      BY <1>13, <2>1, OpenOverridesEffect
      DEF OpenOverrides, WholeInv, WholeTasks, CarriesWhole, Others, Kept, Carries, Leaves
<1>7. ASSUME NEW h \in Handlers, SetGlobal(h)
      PROVE  WholeTasks'
      BY <1>7, SetGlobalEffect
      DEF SetGlobal, WholeInv, WholeTasks, WholeFiles, CarriesWhole, Others, Kept, Leaves
<1>8. ASSUME NEW h \in Handlers, SyncFrom(h)
      PROVE  WholeTasks'
  <2>1. Others(h, {}) /\ job'[h].pc = "fetch"
        BY <1>8, SyncFromEffect
  <2>2. torn' = torn
        BY <1>8 DEF SyncFrom
  <2> QED
      BY <2>1, <2>2 DEF WholeInv, WholeTasks, CarriesWhole, Others, Kept
<1>9. ASSUME NEW h \in Handlers, ImportUpload(h)
      PROVE  WholeTasks'
  <2>1. Others(h, {}) /\ job'[h].pc = "fetch"
        BY <1>9, ImportUploadEffect
  <2>2. torn' = torn
        BY <1>9 DEF ImportUpload
  <2> QED
      BY <2>1, <2>2 DEF WholeInv, WholeTasks, CarriesWhole, Others, Kept
<1>10. ASSUME NEW h \in Handlers, NEW text \in OverrideTexts, SaveOverride(h, text)
      PROVE  WholeTasks'
  <2>1. Others(h, {}) /\ job'[h].pc = "truncate" /\ job'[h].data = text
        BY <1>10, SaveOverrideEffect DEF Carries
  <2> QED
      BY <1>10, <2>1 DEF SaveOverride, WholeInv, WholeTasks, CarriesWhole, Others, Kept
<1>11. CASE Restart
       BY <1>11, RestartType
       DEF Restart, WholeInv, WholeTasks, WholeFiles, CarriesWhole, NoJob
<1>12. CASE UNCHANGED vars
       BY <1>12 DEF vars, WholeInv, WholeTasks, WholeFiles, CarriesWhole
<1> QED
    BY <1>1, <1>2, <1>3, <1>4, <1>5, <1>6, <1>7, <1>8, <1>9, <1>10, <1>11, <1>12,
       <1>13 DEF Next, Step

LEMMA WholeFilesStep ==
    ASSUME TypeInv, WholeInv, [Next]_vars
    PROVE  WholeFiles'
<1> USE DEF TypeInv
<1> USE DEF WholeInv, WholeTasks, WholeFiles, CarriesWhole, Saved, Others, Kept, Carries
<1>1. ASSUME NEW h \in Handlers, NEW raw \in Raws, NEW format \in Formats,
             Fetch(h, raw, format)
      PROVE  WholeFiles'
      BY <1>1, FetchEffect DEF Fetch, Leaves
<1>2. ASSUME NEW h \in Handlers, Rename(h)
      PROVE  WholeFiles'
      BY <1>2, RenameEffect DEF Rename, Leaves
<1>3. ASSUME NEW h \in Handlers, Truncate(h)
      PROVE  WholeFiles'
      BY <1>3, TruncateEffect DEF Truncate, Leaves
<1>4. ASSUME NEW h \in Handlers, Write(h)
      PROVE  WholeFiles'
      BY <1>4, WriteEffect DEF Write
<1>5. ASSUME NEW h \in Handlers, ReloadLoad(h)
      PROVE  WholeFiles'
      BY <1>5, ReloadLoadEffect DEF ReloadLoad, Leaves
<1>6. ASSUME NEW h \in Handlers, ReloadApply(h)
      PROVE  WholeFiles'
      BY <1>6, ReloadApplyEffect DEF ReloadApply, Leaves
<1>13. ASSUME NEW h \in Handlers, OpenOverrides(h)
       PROVE  WholeFiles'
       BY <1>13, OpenOverridesEffect DEF OpenOverrides, Leaves
<1>7. ASSUME NEW h \in Handlers, SetGlobal(h)
      PROVE  WholeFiles'
      BY <1>7, SetGlobalEffect DEF SetGlobal, Leaves
<1>8. ASSUME NEW h \in Handlers, SyncFrom(h)
      PROVE  WholeFiles'
      BY <1>8, SyncFromEffect DEF SyncFrom
<1>9. ASSUME NEW h \in Handlers, ImportUpload(h)
      PROVE  WholeFiles'
      BY <1>9, ImportUploadEffect DEF ImportUpload
<1>10. ASSUME NEW h \in Handlers, NEW text \in OverrideTexts, SaveOverride(h, text)
      PROVE  WholeFiles'
      BY <1>10, SaveOverrideEffect DEF SaveOverride
<1>11. CASE Restart
       BY <1>11, RestartType DEF Restart, NoJob
<1>12. CASE UNCHANGED vars
       BY <1>12 DEF vars
<1> QED
    BY <1>1, <1>2, <1>3, <1>4, <1>5, <1>6, <1>7, <1>8, <1>9, <1>10, <1>11, <1>12,
       <1>13 DEF Next, Step

LEMMA WholeOriginStep ==
    ASSUME TypeInv, WholeInv, [Next]_vars
    PROVE  WholeOrigin'
<1> USE DEF TypeInv
<1> USE DEF WholeInv, WholeTasks, WholeFiles, WholeOrigin, CarriesWhole, Others, Kept,
            Carries
<1>1. ASSUME NEW h \in Handlers, NEW raw \in Raws, NEW format \in Formats,
             Fetch(h, raw, format)
      PROVE  WholeOrigin'
      BY <1>1, FetchEffect DEF Fetch, Leaves
<1>2. ASSUME NEW h \in Handlers, Rename(h)
      PROVE  WholeOrigin'
      BY <1>2, RenameEffect DEF Rename, Leaves
<1>3. ASSUME NEW h \in Handlers, Truncate(h)
      PROVE  WholeOrigin'
      BY <1>3, TruncateEffect DEF Truncate, Leaves
<1>4. ASSUME NEW h \in Handlers, Write(h)
      PROVE  WholeOrigin'
      BY <1>4, WriteEffect DEF Write
<1>5. ASSUME NEW h \in Handlers, ReloadLoad(h)
      PROVE  WholeOrigin'
      BY <1>5, ReloadLoadEffect DEF ReloadLoad, Leaves
<1>6. ASSUME NEW h \in Handlers, ReloadApply(h)
      PROVE  WholeOrigin'
      BY <1>6, ReloadApplyEffect DEF ReloadApply, Leaves
<1>13. ASSUME NEW h \in Handlers, OpenOverrides(h)
       PROVE  WholeOrigin'
       BY <1>13, OpenOverridesEffect DEF OpenOverrides, Leaves
<1>7. ASSUME NEW h \in Handlers, SetGlobal(h)
      PROVE  WholeOrigin'
      BY <1>7, SetGlobalEffect DEF SetGlobal, Leaves
<1>8. ASSUME NEW h \in Handlers, SyncFrom(h)
      PROVE  WholeOrigin'
      BY <1>8, SyncFromEffect DEF SyncFrom
<1>9. ASSUME NEW h \in Handlers, ImportUpload(h)
      PROVE  WholeOrigin'
      BY <1>9, ImportUploadEffect DEF ImportUpload
<1>10. ASSUME NEW h \in Handlers, NEW text \in OverrideTexts, SaveOverride(h, text)
      PROVE  WholeOrigin'
      BY <1>10, SaveOverrideEffect DEF SaveOverride
<1>11. CASE Restart
  <2>1. UNCHANGED <<active, overrides, torn>>
        BY <1>11 DEF Restart
  <2>2. Saved({})
        BY DEF Saved
  <2>3. active # NoFile /\ ~torn => SentEntries(Load(active))
        BY DEF WholeInv, WholeFiles, Sent, SentEntries
  <2>4. CASE /\ Readable(active)
             /\ origin'.main = Load(active) /\ origin'.ovs = Lines(overrides)
    <3>1. ~torn => Saved(Lines(overrides))
          BY DEF WholeInv, WholeFiles, Lines, Saved
    <3> QED
        BY <2>1, <2>3, <2>4, <3>1 DEF WholeOrigin, Readable
  <2>5. CASE /\ served' = IF FirstFile = {} THEN NoDB ELSE FirstFile
             /\ origin'.main = FirstFile /\ origin'.ovs = {}
    <3>1. \/ FirstFile = Explicit \/ FirstFile = {}
          \/ active # NoFile /\ FirstFile = Load(active)
          BY DEF FirstFile, Lines, Load
    <3> QED
        BY <2>1, <2>2, <2>3, <2>5, <3>1 DEF WholeOrigin
  <2> QED
      BY <1>11, <2>4, <2>5, RestartMeans
<1>12. CASE UNCHANGED vars
       BY <1>12 DEF vars
<1> QED
    BY <1>1, <1>2, <1>3, <1>4, <1>5, <1>6, <1>7, <1>8, <1>9, <1>10, <1>11, <1>12,
       <1>13 DEF Next, Step

-----------------------------------------------------------------------------
(* Fresh files *)

LEMMA CurrentStep ==
    ASSUME TypeInv, CurrentInv, [Next]_vars
    PROVE  CurrentInv'
<1> USE DEF TypeInv
<1>1. ASSUME NEW h \in Handlers, NEW raw \in Raws, NEW format \in Formats,
             Fetch(h, raw, format)
      PROVE  CurrentInv'
  <2>1. Others(h, {}) /\ job'[h].pc \in {"rename", "idle"}
        BY <1>1, FetchEffect DEF Carries, Leaves
  <2>2. UNCHANGED <<active, overrides>>
        BY <1>1 DEF Fetch
  <2> QED
      BY <2>1, <2>2 DEF CurrentInv, Others, Kept
<1>2. ASSUME NEW h \in Handlers, Rename(h)
      PROVE  CurrentInv'
      BY <1>2, RenameEffect DEF Rename, CurrentInv, Others, Kept, Carries, Leaves
<1>3. ASSUME NEW h \in Handlers, Truncate(h)
      PROVE  CurrentInv'
      BY <1>3, TruncateEffect DEF Truncate, CurrentInv, Others, Kept, Carries, Leaves
<1>4. ASSUME NEW h \in Handlers, Write(h)
      PROVE  CurrentInv'
  <2>1. Others(h, {"install"}) /\ job'[h].pc \in {"load", "idle"}
        BY <1>4, WriteEffect DEF Carries
  <2>2. active' = active
        BY <1>4 DEF Write
  <2> QED
      BY <2>1, <2>2 DEF CurrentInv, Others, Kept
<1>5. ASSUME NEW h \in Handlers, ReloadLoad(h)
      PROVE  CurrentInv'
  <2>1. CASE Leaves(h, {})
        BY <1>5, <2>1 DEF ReloadLoad, CurrentInv, Others, Kept, Leaves
  <2>2. CASE /\ Readable(active) /\ Others(h, {})
             /\ Carries(h, "apply", Load(active), job[h].ovs)
        BY <1>5, <2>2 DEF ReloadLoad, CurrentInv, Readable, Others, Kept, Carries
  <2> QED
      BY <1>5, <2>1, <2>2, ReloadLoadEffect
<1>6. ASSUME NEW h \in Handlers, ReloadApply(h)
      PROVE  CurrentInv'
      BY <1>6, ReloadApplyEffect DEF ReloadApply, CurrentInv, Others, Kept, Carries, Leaves
<1>13. ASSUME NEW h \in Handlers, OpenOverrides(h)
       PROVE  CurrentInv'
       BY <1>13, OpenOverridesEffect
       DEF OpenOverrides, CurrentInv, Lines, Others, Kept, Carries, Leaves
<1>7. ASSUME NEW h \in Handlers, SetGlobal(h)
      PROVE  CurrentInv'
      BY <1>7, SetGlobalEffect DEF SetGlobal, CurrentInv, Others, Kept, Leaves
<1>8. ASSUME NEW h \in Handlers, SyncFrom(h)
      PROVE  CurrentInv'
  <2>1. Others(h, {}) /\ job'[h].pc = "fetch"
        BY <1>8, SyncFromEffect
  <2> QED
      BY <1>8, <2>1 DEF SyncFrom, CurrentInv, Others, Kept
<1>9. ASSUME NEW h \in Handlers, ImportUpload(h)
      PROVE  CurrentInv'
  <2>1. Others(h, {}) /\ job'[h].pc = "fetch"
        BY <1>9, ImportUploadEffect
  <2> QED
      BY <1>9, <2>1 DEF ImportUpload, CurrentInv, Others, Kept
<1>10. ASSUME NEW h \in Handlers, NEW text \in OverrideTexts, SaveOverride(h, text)
      PROVE  CurrentInv'
  <2>1. Others(h, {}) /\ job'[h].pc = "truncate"
        BY <1>10, SaveOverrideEffect DEF Carries
  <2> QED
      BY <1>10, <2>1 DEF SaveOverride, CurrentInv, Others, Kept
<1>11. CASE Restart
       BY <1>11, RestartType DEF Restart, CurrentInv, NoJob
<1>12. CASE UNCHANGED vars
       BY <1>12 DEF vars, CurrentInv
<1> QED
    BY <1>1, <1>2, <1>3, <1>4, <1>5, <1>6, <1>7, <1>8, <1>9, <1>10, <1>11, <1>12,
       <1>13 DEF Next, Step

LEMMA FreshStep ==
    ASSUME TypeInv, CurrentInv, FreshInv, [Next]_vars
    PROVE  FreshInv'
<1> USE DEF TypeInv
<1>1. ASSUME NEW h \in Handlers, NEW raw \in Raws, NEW format \in Formats,
             Fetch(h, raw, format)
      PROVE  FreshInv'
      BY <1>1, FetchEffect DEF Fetch, FreshInv, FromDisk, Reloads, Others, Kept, Carries, Leaves
<1>2. ASSUME NEW h \in Handlers, Rename(h)
      PROVE  FreshInv'
      BY <1>2, RenameEffect DEF Rename, FreshInv, FromDisk, Reloads, Others, Kept, Carries, Leaves
<1>3. ASSUME NEW h \in Handlers, Truncate(h)
      PROVE  FreshInv'
      BY <1>3, TruncateEffect
      DEF Truncate, FreshInv, FromDisk, Reloads, Others, Kept, Carries, Leaves
<1>4. ASSUME NEW h \in Handlers, Write(h)
      PROVE  FreshInv'
      BY <1>4, WriteEffect DEF Write, FreshInv, FromDisk, Reloads, Others, Kept, Carries
<1>5. ASSUME NEW h \in Handlers, ReloadLoad(h)
      PROVE  FreshInv'
      BY <1>5, ReloadLoadEffect
      DEF ReloadLoad, FreshInv, FromDisk, Reloads, Others, Kept, Carries, Leaves
<1>6. ASSUME NEW h \in Handlers, ReloadApply(h)
      PROVE  FreshInv'
      BY <1>6, ReloadApplyEffect
      DEF ReloadApply, FreshInv, FromDisk, Reloads, Others, Kept, Carries, Leaves
<1>13. ASSUME NEW h \in Handlers, OpenOverrides(h)
       PROVE  FreshInv'
       BY <1>13, OpenOverridesEffect
       DEF OpenOverrides, FreshInv, FromDisk, Reloads, Others, Kept, Carries, Leaves
<1>7. ASSUME NEW h \in Handlers, SetGlobal(h)
      PROVE  FreshInv'
  <2>1. /\ job[h].pc = "install" /\ UNCHANGED <<active, overrides>>
        /\ lagging' = (job[h].behind \/ job[h].mixed)
        /\ served' = ApplyOverrides(job[h].data, job[h].ovs)
        BY <1>7 DEF SetGlobal
  <2>2. CASE ~job[h].behind /\ ~job[h].mixed
    <3>1. job[h].data = Load(active) /\ job[h].ovs = Lines(overrides)
          BY <2>1, <2>2 DEF CurrentInv
    <3> QED
        BY <2>1, <3>1 DEF FreshInv, FromDisk
  <2>3. CASE job[h].behind \/ job[h].mixed
        BY <2>1, <2>3 DEF FreshInv
  <2> QED
      BY <2>2, <2>3
<1>8. ASSUME NEW h \in Handlers, SyncFrom(h)
      PROVE  FreshInv'
      BY <1>8, SyncFromEffect DEF SyncFrom, FreshInv, FromDisk, Reloads, Others, Kept
<1>9. ASSUME NEW h \in Handlers, ImportUpload(h)
      PROVE  FreshInv'
      BY <1>9, ImportUploadEffect DEF ImportUpload, FreshInv, FromDisk, Reloads, Others, Kept
<1>10. ASSUME NEW h \in Handlers, NEW text \in OverrideTexts, SaveOverride(h, text)
      PROVE  FreshInv'
  <2>1. Others(h, {}) /\ job'[h].pc = "truncate" /\ job[h].pc = "idle"
        BY <1>10, SaveOverrideEffect DEF Carries
  <2> QED
      BY <1>10, <2>1 DEF SaveOverride, FreshInv, FromDisk, Reloads, Others, Kept
<1>11. CASE Restart
  <2>1. UNCHANGED <<active, overrides>>
        BY <1>11 DEF Restart
  <2> QED
      BY <1>11, <2>1, RestartMeans DEF FreshInv, FromDisk
<1>12. CASE UNCHANGED vars
       BY <1>12 DEF vars, FreshInv, FromDisk, Reloads
<1> QED
    BY <1>1, <1>2, <1>3, <1>4, <1>5, <1>6, <1>7, <1>8, <1>9, <1>10, <1>11, <1>12,
       <1>13 DEF Next, Step

-----------------------------------------------------------------------------
(* The inductive invariant *)

LEMMA InitInv == Init => IInv
<1> SUFFICES ASSUME Init
             PROVE  IInv
    OBVIOUS
<1>1. /\ active = NoFile /\ overrides = NoFile
      /\ served = IF Explicit = NoFile THEN NoDB ELSE Explicit
      /\ origin.main = IF Explicit = NoFile THEN {} ELSE Explicit
      /\ origin.ovs = {}
      /\ syncing = FALSE /\ torn = FALSE /\ lagging = FALSE
      BY DEF Init
<1>2. /\ job \in [Handlers -> Job]
      /\ \A h \in Handlers : job[h].pc = "idle"
      BY DEF Init, Job, NoJob
<1>3. FilesInv
  <2>1. served = NoDB \/ (served # {} /\ served \subseteq Entry)
        BY <1>1, ExplicitAssumption
  <2> QED
      BY <1>1, <1>2, <2>1 DEF FilesInv
<1>4. SyncInv
      BY <1>1, <1>2 DEF SyncInv, Downloads
<1>5. DataInv
      BY <1>2 DEF DataInv
<1>6. WholeInv
      BY <1>1, <1>2 DEF WholeInv, WholeTasks, WholeFiles, WholeOrigin, CarriesWhole, Saved
<1>7. CurrentInv
      BY <1>2 DEF CurrentInv
<1>8. FreshInv
      BY <1>1 DEF FreshInv, Readable
<1> QED
    BY <1>3, <1>4, <1>5, <1>6, <1>7, <1>8 DEF IInv, TypeInv

LEMMA StepInv == IInv /\ [Next]_vars => IInv'
<1> SUFFICES ASSUME IInv, [Next]_vars
             PROVE  IInv'
    OBVIOUS
<1>1. TypeInv /\ WholeInv /\ CurrentInv /\ FreshInv
      BY DEF IInv
<1>2. TypeInv'
      BY <1>1, FilesStep, SyncStep, DataStep DEF TypeInv
<1>3. WholeInv'
      BY <1>1, WholeTasksStep, WholeFilesStep, WholeOriginStep DEF WholeInv
<1>4. CurrentInv' /\ FreshInv'
      BY <1>1, CurrentStep, FreshStep
<1> QED
    BY <1>2, <1>3, <1>4 DEF IInv

\* Every state, whatever tasks overlap and wherever a restart falls, satisfies the
\* inductive invariant.
THEOREM Invariance == Spec => []IInv
<1>1. IInv /\ [Next]_vars => IInv'
      BY StepInv
<1> QED
    BY <1>1, InitInv, PTL DEF Spec

-----------------------------------------------------------------------------
(* The theorems *)

\* The files hold lines, the served database entries, at least one, and the flag of
\* a running download is set exactly while a download runs, whatever ends it.
THEOREM TypeCorrect == Spec => []TypeOK
<1>1. IInv => TypeOK
  <2> SUFFICES ASSUME IInv
               PROVE  TypeOK
      OBVIOUS
  <2>1. FilesInv /\ SyncInv
        BY DEF IInv, TypeInv
  <2>2. \A h \in Handlers : Downloads(h) <=> job[h] # NoJob /\ job[h].sync
        BY <2>1, JobShape DEF Downloads, FilesInv
  <2>3. syncing = (\E h \in Handlers : job[h] # NoJob /\ job[h].sync)
        BY <2>1, <2>2 DEF SyncInv
  <2> QED
      BY <2>1, <2>3 DEF TypeOK, FilesInv
<1> QED
    BY <1>1, Invariance, PTL

\* Unless a write went wrong, what is served is some file as it was sent, with all of
\* a text of overrides or none, for any number of overlapping uploads, downloads and
\* edits and a restart at any point; but for overrides that an edit rewrote while the
\* task that installed them was reading the file.
THEOREM WholeHolds == Spec => []ServedIsWhole
<1>1. IInv => ServedIsWhole
      BY DEF IInv, WholeInv, WholeOrigin, ServedIsWhole, SentEntries, Saved
<1> QED
    BY <1>1, Invariance, PTL

\* At rest the process serves what the files hold, unless the last task says it could
\* not.
THEOREM FilesHold == Spec => []FilesAreServed
<1>1. IInv => FilesAreServed
  <2> SUFFICES ASSUME IInv, AtRest, ~lagging, Readable(active), Applicable(overrides)
               PROVE  served = FromDisk
      BY DEF FilesAreServed, FromDisk
  <2>1. \A h \in Handlers : ~Reloads(h)
        BY DEF AtRest, Reloads, NoJob
  <2> QED
      BY <2>1 DEF IInv, FreshInv
<1> QED
    BY <1>1, Invariance, PTL

-----------------------------------------------------------------------------
(* What overrides do to attribution *)

\* Two entries overlap exactly when they share an address: the later start.
LEMMA OverlapMeans ==
    ASSUME NEW e \in Entry, NEW o \in Entry
    PROVE  Overlap(e, o) <=> Span(e) \cap Span(o) # {}
<1>1. /\ e.start \in Int /\ e.end \in Int /\ e.start <= e.end
      /\ o.start \in Int /\ o.end \in Int /\ o.start <= o.end
  <2>1. Space \in Int
        BY SpaceAssumption, SpaceType
  <2> QED
      BY <2>1 DEF Entry, Line, Addrs
<1>2. ASSUME Overlap(e, o)
      PROVE  Span(e) \cap Span(o) # {}
  <2> DEFINE a == IF e.start <= o.start THEN o.start ELSE e.start
  <2>1. a \in Span(e) /\ a \in Span(o)
        BY <1>1, <1>2 DEF Overlap, Span
  <2> QED
      BY <2>1
<1>3. ASSUME NEW a \in Span(e) \cap Span(o)
      PROVE  Overlap(e, o)
      BY <1>1, <1>3 DEF Overlap, Span
<1> QED
    BY <1>2, <1>3

\* The entries that stay are those without an address inside an override.
LEMMA KeptMeans ==
    ASSUME NEW db, db \subseteq Entry, NEW ovs, ovs \subseteq Entry
    PROVE  ApplyOverrides(db, ovs) = {e \in db : Span(e) \cap Covered(ovs) = {}} \cup ovs
<1>1. \A e \in db : (\E o \in ovs : Overlap(e, o)) <=> Span(e) \cap Covered(ovs) # {}
      BY OverlapMeans DEF Covered
<1> QED
    BY <1>1 DEF ApplyOverrides

LEMMA Attribution ==
    ASSUME NEW db, db \subseteq Entry, NEW ovs, ovs \subseteq Entry, NEW a
    PROVE  LET over == Covered(ovs)
               kept == {e \in db : Span(e) \cap over = {}}
           IN {e \in ApplyOverrides(db, ovs) : a \in Span(e)} =
                  {e \in IF a \in over THEN ovs ELSE kept : a \in Span(e)}
<1> DEFINE over == Covered(ovs)
           kept == {e \in db : Span(e) \cap over = {}}
<1>1. ApplyOverrides(db, ovs) = kept \cup ovs
      BY KeptMeans
<1>2. \A e \in kept : a \in Span(e) => a \notin over
      OBVIOUS
<1>3. \A e \in ovs : a \in Span(e) => a \in over
      BY DEF Covered
<1> HIDE DEF over, kept
<1>4. {e \in kept \cup ovs : a \in Span(e)} =
          {e \in IF a \in over THEN ovs ELSE kept : a \in Span(e)}
      BY <1>2, <1>3
<1> QED
    BY <1>1, <1>4 DEF over, kept

\* What a step that installs a database installs.
LEMMA InstalledMeans ==
    ASSUME TypeInv, [Next]_vars, <<served, origin>>' # <<served, origin>>, served' # NoDB
    PROVE  /\ origin'.main \subseteq Entry /\ origin'.ovs \subseteq Entry
           /\ served' = ApplyOverrides(origin'.main, origin'.ovs)
<1>1. ASSUME NEW h \in Handlers, SetGlobal(h)
      PROVE  /\ origin'.main \subseteq Entry /\ origin'.ovs \subseteq Entry
             /\ served' = ApplyOverrides(origin'.main, origin'.ovs)
  <2>1. job[h].pc = "install"
        BY <1>1 DEF SetGlobal
  <2>2. job[h].data \subseteq Entry /\ job[h].ovs \subseteq Entry
        BY <2>1 DEF TypeInv, DataInv
  <2> QED
      BY <1>1, <2>2 DEF SetGlobal
<1>2. ASSUME Restart
      PROVE  /\ origin'.main \subseteq Entry /\ origin'.ovs \subseteq Entry
             /\ served' = ApplyOverrides(origin'.main, origin'.ovs)
  <2>1. CASE /\ Readable(active) /\ Applicable(overrides)
             /\ served' = ApplyOverrides(Load(active), Lines(overrides))
             /\ origin'.main = Load(active) /\ origin'.ovs = Lines(overrides)
    <3>1. Load(active) \subseteq Entry /\ Lines(overrides) \subseteq Entry
          BY <2>1, ReadableType, ApplicableType DEF TypeInv, FilesInv
    <3> QED
        BY <2>1, <3>1
  <2>2. CASE /\ served' = IF FirstFile = {} THEN NoDB ELSE FirstFile
             /\ origin'.main = FirstFile /\ origin'.ovs = {}
    <3>1. FirstFile \subseteq Entry
          BY FirstType DEF TypeInv
    <3>2. ApplyOverrides(FirstFile, {}) = FirstFile
          BY DEF ApplyOverrides
    <3>3. served' = FirstFile
          BY <2>2
    <3> QED
        BY <2>2, <3>1, <3>2, <3>3
  <2> QED
      BY <1>2, <2>1, <2>2, RestartMeans
<1>3. \/ Restart \/ \E h \in Handlers : SetGlobal(h)
      BY DEF Next, Step, Fetch, Rename, Truncate, Write, ReloadLoad, OpenOverrides,
             ReloadApply, SyncFrom, ImportUpload, SaveOverride, vars
<1> QED
    BY <1>1, <1>2, <1>3

\* Whatever is installed, an address inside an override is attributed by overrides
\* alone, and any other one keeps its attribution or loses it with its entry: for any
\* width, database and overrides that files can hold.
THEOREM OverridesHold == Spec => OverridesRule
<1>1. ASSUME IInv, [Next]_vars
      PROVE  [served' # NoDB =>
                 LET over == Covered(origin'.ovs)
                     kept == {e \in origin'.main : Span(e) \cap over = {}}
                 IN \A a \in Addrs :
                       {e \in served' : a \in Span(e)} =
                           {e \in IF a \in over THEN origin'.ovs ELSE kept :
                                a \in Span(e)}]_<<served, origin>>
  <2> SUFFICES ASSUME <<served, origin>>' # <<served, origin>>, served' # NoDB,
                      NEW a \in Addrs
               PROVE  LET over == Covered(origin'.ovs)
                          kept == {e \in origin'.main : Span(e) \cap over = {}}
                      IN {e \in served' : a \in Span(e)} =
                             {e \in IF a \in over THEN origin'.ovs ELSE kept :
                                  a \in Span(e)}
      OBVIOUS
  <2>1. /\ origin'.main \subseteq Entry /\ origin'.ovs \subseteq Entry
        /\ served' = ApplyOverrides(origin'.main, origin'.ovs)
        BY <1>1, InstalledMeans DEF IInv
  <2> QED
      BY <2>1, Attribution
<1> QED
    BY <1>1, Invariance, PTL DEF Spec, OverridesRule

\* Whatever database is installed, what resolve gives for any selector is the smallest
\* set of blocks that covers the addresses asked for, and no other address.
THEOREM ResolveHolds == Spec => ResolveIsExact
<1>1. ASSUME IInv, [Next]_vars
      PROVE  [\A db \in {served'} \ {NoDB, served} : \A sel \in Selectors :
                 IsSmallestCover(Resolve(db, sel), Covered(Candidates(db, sel)))]_served
  <2>1. IInv'
        BY <1>1, StepInv
  <2>2. served' # NoDB => served' \subseteq Entry
        BY <2>1 DEF IInv, TypeInv, FilesInv
  <2>3. ASSUME NEW db \in {served'} \ {NoDB, served}, NEW sel \in Selectors
        PROVE  IsSmallestCover(Resolve(db, sel), Covered(Candidates(db, sel)))
    <3>1. db \subseteq Entry
          BY <2>2, <2>3
    <3> QED
        BY <3>1, ResolveCovers
  <2> QED
      BY <2>3
<1> QED
    BY <1>1, Invariance, PTL DEF Spec, ResolveIsExact
=============================================================================
