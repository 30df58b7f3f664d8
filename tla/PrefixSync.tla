----------------------------- MODULE PrefixSync -----------------------------
(***************************************************************************)
(* How the prefix database gets into the process (internal/prefixdb/sync.go,*)
(* internal/web/prefixdb.go, loadPrefixDB in cmd/xdpban/main.go): a file   *)
(* is downloaded or uploaded, normalised next to the active file and       *)
(* renamed over it; the overrides are edited in place; each change ends in *)
(* a Reload, which reads both files, the overrides in several reads, and   *)
(* installs the result.                                                    *)
(*                                                                         *)
(* Only downloads exclude each other.  Uploads, saved overrides and one    *)
(* download run concurrently, and a job is one of them in flight.  Files   *)
(* survive a restart, the installed database and the jobs do not.          *)
(***************************************************************************)
EXTENDS PrefixRanges

CONSTANTS
    Raws,           \* contents a download or an upload may have
    Formats,        \* formats a source or a user may declare
    OverrideTexts,  \* lines of overrides a user may save
    Mangled,        \* what a line cut short, or joined of two halves, is taken for
    Explicit,       \* entries of the file XDPBAN_PREFIX_DB names, or NoFile
    Handlers,       \* goroutines
    NoFile, NoDB

\* A line that parseOverrideLine refuses, of whatever kind.
BadLine == [start |-> 1, end |-> 0, asn |-> 0, country |-> Unknown]
ValidateOverrides(text) == \A l \in text : l.start <= l.end

\* Contents before normalize: an address count of a RIR line is a 32-bit number.
Raw == [form: {"tsv"}, start: Addrs, end: Addrs, asn: ASNs \cup {0},
        country: Countries \cup {Unknown}]
       \cup [form: {"rir"}, start: Addrs, count: Addrs, country: Countries \cup {Unknown}]

\* BadLine needs two addresses.
ASSUME SpaceAssumption == Space > 1
ASSUME RawAssumption == \A raw \in Raws : raw \subseteq Raw
ASSUME TextAssumption == OverrideTexts \subseteq SUBSET Line /\ Mangled \subseteq Line
\* A file that cannot be loaded, or without an entry, is none.
ASSUME ExplicitAssumption == Explicit = NoFile \/ (Explicit # {} /\ Explicit \subseteq Entry)

VARIABLES
    active,     \* lines of ActivePath(), or NoFile
    overrides,  \* lines of OverridePath(), or NoFile
    served,     \* prefixdb.Global(): the entries, or NoDB
    origin,     \* history: the file lines and override lines served was made of, and
                \*   whether these were rewritten while they were read
    syncing,    \* syncStatus.InProgress
    job,        \* tasks in flight, lost in a crash
    torn,       \* history: a write to a file failed half-way or was overlapped
    lagging     \* history: the last task to end installed what had been read before
                \*   or while another task changed the files, or ended without
                \*   installing; or the start could not read them

vars == <<active, overrides, served, origin, syncing, job, torn, lagging>>

-----------------------------------------------------------------------------
PCs == {"idle", "fetch", "rename", "truncate", "write", "load", "apply", "scan",
        "install"}
NoJob == [pc |-> "idle"]

\* sync: whether it is a download; data: what the task is about to write, then the
\* entries it has loaded; ovs: the override lines it has read, or may have.  behind
\* (history): a file was changed since it read it; mixed (history): the overrides were
\* rewritten while it read them.
Job == {NoJob} \cup
       [pc: PCs \ {"idle"}, sync: BOOLEAN, data: SUBSET Line,
        ovs: SUBSET Line, behind: BOOLEAN, mixed: BOOLEAN]

TypeOK ==
    /\ active = NoFile \/ active \subseteq Line
    /\ overrides = NoFile \/ overrides \subseteq Line
    /\ served = NoDB \/ (served # {} /\ served \subseteq Entry)
    /\ syncing = (\E h \in Handlers : job[h] # NoJob /\ job[h].sync)
    /\ job \in [Handlers -> Job]
    /\ torn \in BOOLEAN /\ lagging \in BOOLEAN

Readable(lines) == lines # NoFile /\ Load(lines) # {}
Lines(file) == IF file = NoFile THEN {} ELSE file
Applicable(ovs) == ValidateOverrides(Lines(ovs))

Init ==
    /\ active = NoFile /\ overrides = NoFile
    /\ served = IF Explicit = NoFile THEN NoDB ELSE Explicit
    /\ origin = [main |-> IF Explicit = NoFile THEN {} ELSE Explicit, ovs |-> {},
                  mixed |-> FALSE]
    /\ syncing = FALSE
    /\ job = [h \in Handlers |-> NoJob]
    /\ torn = FALSE /\ lagging = FALSE

JobAt(pc, sync, data) ==
    [pc |-> pc, sync |-> sync, data |-> data, ovs |-> {}, behind |-> FALSE, mixed |-> FALSE]

\* A task ends; a download gives InProgress back on every path (finish).
Finish(h) ==
    /\ job' = [job EXCEPT ![h] = NoJob]
    /\ syncing' = (syncing /\ ~job[h].sync)

\* h goes on as next after replacing the active file, which readers have loaded.
Replaced(h, next) ==
    /\ job' = [g \in Handlers |->
           IF g = h THEN next
           ELSE IF job[g].pc \in {"apply", "scan", "install"} THEN [job[g] EXCEPT !.behind = TRUE]
           ELSE job[g]]
    /\ UNCHANGED syncing

\* h goes on as next after changing the overrides in place: who has read them falls
\* behind, and who is reading them goes on in what the file has become.
Rewritten(h, next) ==
    /\ job' = [g \in Handlers |->
           IF g = h THEN next
           ELSE IF job[g].pc = "install" THEN [job[g] EXCEPT !.behind = TRUE]
           ELSE IF job[g].pc = "scan"
           THEN [job[g] EXCEPT !.ovs = @ \cup (Lines(overrides) \cup Lines(overrides')),
                               !.mixed = TRUE]
           ELSE job[g]]
    /\ UNCHANGED syncing

\* A task that has changed a file ends without installing anything.
GiveUp(h) == Finish(h) /\ lagging' = TRUE

-----------------------------------------------------------------------------
(* SyncFrom and ImportUpload *)

\* A second download is refused under the same lock.
SyncFrom(h) ==
    /\ job[h] = NoJob /\ ~syncing
    /\ syncing' = TRUE
    /\ job' = [job EXCEPT ![h] = JobAt("fetch", TRUE, {})]
    /\ UNCHANGED <<active, overrides, served, origin, torn, lagging>>

ImportUpload(h) ==
    /\ job[h] = NoJob
    /\ job' = [job EXCEPT ![h] = JobAt("fetch", FALSE, {})]
    /\ UNCHANGED <<active, overrides, served, origin, syncing, torn, lagging>>

\* Mutant: an early return that does not go through finish.
FetchForgets(h, raw, format) ==
    /\ job[h].pc = "fetch"
    /\ \/ /\ Normalize(raw, format) # {}
          /\ job' = [job EXCEPT ![h].pc = "rename", ![h].data = Normalize(raw, format)]
       \/ /\ Normalize(raw, format) = {}
          /\ job' = [job EXCEPT ![h] = NoJob]
    /\ UNCHANGED <<active, overrides, served, origin, syncing, torn, lagging>>

\* The transfer into a private temporary file and normalize into another one.  The
\* error of the final flush is not looked at: the second file may lack lines.  Any
\* other failure, and a text without a single line to keep, ends the task.
\* Bound, here and in Write: once a file is torn no further write fails half-way.
Fetch(h, raw, format) ==
    /\ job[h].pc = "fetch"
    /\ LET lines == Normalize(raw, format) IN
       \/ /\ lines # {}
          /\ job' = [job EXCEPT ![h].pc = "rename", ![h].data = lines]
          /\ UNCHANGED <<syncing, torn>>
       \/ Finish(h) /\ UNCHANGED torn
       \/ /\ lines # {} /\ ~torn /\ torn' = TRUE
          /\ \E part \in SUBSET lines \ {lines} :
                job' = [job EXCEPT ![h].pc = "rename", ![h].data = part]
          /\ UNCHANGED syncing
    /\ UNCHANGED <<active, overrides, served, origin, lagging>>

\* Mutant: the lines are written into the active file one after the other.
RenameInPieces(h) ==
    /\ job[h].pc = "rename"
    /\ \E part \in SUBSET job[h].data : active' = part
    /\ Replaced(h, IF active' = job[h].data THEN JobAt("load", job[h].sync, {}) ELSE job[h])
    /\ UNCHANGED <<overrides, served, origin, torn, lagging>>

Rename(h) ==
    /\ job[h].pc = "rename"
    /\ \/ active' = job[h].data /\ Replaced(h, JobAt("load", job[h].sync, {}))
       \/ Finish(h) /\ UNCHANGED active
    /\ UNCHANGED <<overrides, served, origin, torn, lagging>>

-----------------------------------------------------------------------------
(* prefixDBSaveOverride *)

\* ValidateOverrides refuses a text with a bad line before anything is touched.
SaveOverride(h, text) ==
    /\ job[h] = NoJob
    /\ ValidateOverrides(text)
    /\ job' = [job EXCEPT ![h] = JobAt("truncate", FALSE, text)]
    /\ UNCHANGED <<active, overrides, served, origin, syncing, torn, lagging>>

\* os.WriteFile empties the file when it opens it ...
Truncate(h) ==
    /\ job[h].pc = "truncate"
    /\ \/ overrides' = {} /\ Rewritten(h, [job[h] EXCEPT !.pc = "write"])
       \/ Finish(h) /\ UNCHANGED overrides
    /\ UNCHANGED <<active, served, origin, torn, lagging>>

\* ... and writes from its start.  A write that fails leaves some of the lines, the
\* last one cut; two tasks that write the file at once leave the longer one's tail
\* behind the other's text.
Write(h) ==
    /\ job[h].pc = "write"
    /\ \/ /\ overrides = {}
          /\ overrides' = job[h].data
          /\ Rewritten(h, JobAt("load", job[h].sync, {})) /\ UNCHANGED <<torn, lagging>>
       \/ /\ overrides # {} /\ torn' = TRUE
          /\ \E tail \in SUBSET (overrides \cup Mangled) : overrides' = job[h].data \cup tail
          /\ Rewritten(h, JobAt("load", job[h].sync, {})) /\ UNCHANGED lagging
       \/ /\ ~torn /\ torn' = TRUE
          /\ \E part \in SUBSET (job[h].data \cup Mangled) : overrides' = part
          /\ Rewritten(h, NoJob) /\ lagging' = TRUE
    /\ UNCHANGED <<active, served, origin>>

-----------------------------------------------------------------------------
(* Reload *)

ReloadLoad(h) ==
    /\ job[h].pc = "load"
    /\ \/ /\ Readable(active)
          /\ job' = [job EXCEPT ![h].pc = "apply", ![h].data = Load(active),
                                ![h].behind = FALSE]
          /\ UNCHANGED <<syncing, lagging>>
       \/ ~Readable(active) /\ GiveUp(h)
       \/ GiveUp(h)
    /\ UNCHANGED <<active, overrides, served, origin, torn>>

\* applyOverrides opens the file, and none is the same as one without a line; any other
\* error keeps the loaded file from being installed, here and in what follows.
OpenOverrides(h) ==
    /\ job[h].pc = "apply"
    /\ \/ /\ job' = [job EXCEPT ![h].pc = IF overrides = NoFile THEN "install" ELSE "scan",
                                ![h].ovs = {}]
          /\ UNCHANGED <<syncing, lagging>>
       \/ GiveUp(h)
    /\ UNCHANGED <<active, overrides, served, origin, torn>>

\* It is scanned in several reads: of a file that was rewritten meanwhile, any lines of
\* either text, and lines joined of both, may have been read.
Scanned(h) == IF job[h].mixed THEN SUBSET (job[h].ovs \cup Mangled) ELSE {Lines(overrides)}

ReloadApply(h) ==
    /\ job[h].pc = "scan"
    /\ \/ /\ \E ovs \in Scanned(h) :
                /\ ValidateOverrides(ovs)
                /\ job' = [job EXCEPT ![h].pc = "install", ![h].ovs = ovs]
          /\ UNCHANGED <<syncing, lagging>>
       \/ GiveUp(h)
    /\ UNCHANGED <<active, overrides, served, origin, torn>>

\* Mutant: the overrides are read and not applied.
SetGlobalMain(h) ==
    /\ job[h].pc = "install"
    /\ served' = job[h].data
    /\ origin' = [main |-> job[h].data, ovs |-> job[h].ovs, mixed |-> job[h].mixed]
    /\ lagging' = (job[h].behind \/ job[h].mixed)
    /\ Finish(h)
    /\ UNCHANGED <<active, overrides, torn>>

SetGlobal(h) ==
    /\ job[h].pc = "install"
    /\ served' = ApplyOverrides(job[h].data, job[h].ovs)
    /\ origin' = [main |-> job[h].data, ovs |-> job[h].ovs, mixed |-> job[h].mixed]
    /\ lagging' = (job[h].behind \/ job[h].mixed)
    /\ Finish(h)
    /\ UNCHANGED <<active, overrides, torn>>

-----------------------------------------------------------------------------
\* loadPrefixDB: the explicit file or else the active one is installed, and then
\* Reload replaces it, whichever it was, by the active file with the overrides, unless
\* one of its reads fails.  No other task runs yet.  Bound: the first read succeeds.
LoadPrefixDB ==
    LET first == IF Explicit # NoFile THEN Explicit ELSE Load(Lines(active))
    IN \/ /\ Readable(active) /\ Applicable(overrides)
          /\ served' = ApplyOverrides(Load(active), Lines(overrides))
          /\ origin' = [main |-> Load(active), ovs |-> Lines(overrides), mixed |-> FALSE]
          /\ lagging' = FALSE
       \/ /\ served' = IF first = {} THEN NoDB ELSE first
          /\ origin' = [main |-> first, ovs |-> {}, mixed |-> FALSE]
          /\ lagging' = (Readable(active) /\ Applicable(overrides))

Restart ==
    /\ job' = [h \in Handlers |-> NoJob]
    /\ syncing' = FALSE
    /\ LoadPrefixDB
    /\ UNCHANGED <<active, overrides, torn>>

Step(h) ==
    \/ \E raw \in Raws, format \in Formats : Fetch(h, raw, format)
    \/ Rename(h) \/ Truncate(h) \/ Write(h)
    \/ ReloadLoad(h) \/ OpenOverrides(h) \/ ReloadApply(h) \/ SetGlobal(h)

Next ==
    \/ \E h \in Handlers :
          \/ Step(h) \/ SyncFrom(h) \/ ImportUpload(h)
          \/ \E text \in OverrideTexts : SaveOverride(h, text)
    \/ Restart

Spec == Init /\ [][Next]_vars

\* The HTTP client gives up after ten minutes, and goroutines are scheduled.
FairSpec == Spec /\ \A h \in Handlers : WF_vars(Step(h))

-----------------------------------------------------------------------------
(* Properties *)

AtRest == \A h \in Handlers : job[h] = NoJob

\* Unless a write went wrong, the process serves a file as it was sent, and with it all
\* of some text of overrides or none, unless this was rewritten in the middle of
\* being read: nobody reads a half-written database, whatever tasks overlap and
\* wherever a restart cuts them short, and a mix of overrides lasts only until the
\* next Reload that nobody writes into.
ServedIsWhole ==
    served # NoDB /\ ~torn =>
        /\ \/ origin.main = Explicit
           \/ \E raw \in Raws, format \in Formats : origin.main = Load(Normalize(raw, format))
        /\ origin.mixed \/ origin.ovs \in OverrideTexts \cup {{}}

\* When nothing is under way, the process serves the files on disk, unless the last
\* task installed what it had read before or while another one changed them, or failed
\* after changing them: also after a restart, unless that could not read them, and
\* whichever files came first.
FilesAreServed ==
    AtRest /\ ~lagging /\ Readable(active) /\ Applicable(overrides) =>
        served = ApplyOverrides(Load(active), Lines(overrides))

\* A download that was started ends, so that the next one is not refused for ever.
SyncEnds == syncing ~> ~syncing

\* Whatever database is installed, a country, an AS or both expand to exactly the
\* addresses of the matching entries, in disjoint blocks and as few as possible: no
\* two halves of a block are listed where the block would do.
ResolveIsExact ==
    [][\A db \in {served'} \ {NoDB, served} : \A sel \in Selectors :
          IsSmallestCover(Resolve(db, sel), Covered(Candidates(db, sel)))]_served

\* An address inside an override is attributed by overrides alone; any other address
\* keeps its attribution or, if its entry touches an override, loses it.
OverridesRule ==
    [][served' # NoDB =>
          LET over == Covered(origin'.ovs)
              kept == {e \in origin'.main : Span(e) \cap over = {}}
          IN \A a \in Addrs :
                {e \in served' : a \in Span(e)} =
                    {e \in IF a \in over THEN origin'.ovs ELSE kept : a \in Span(e)}
    ]_<<served, origin>>
=============================================================================
