----------------------------- MODULE StoredFiles -----------------------------
(***************************************************************************)
(* storage-service: the files of one user, their versions, their content on *)
(* the disk, and the quota of the user. Nothing here is transactional: each  *)
(* request reads rows, checks them, writes the content and then saves the    *)
(* rows one by one, each save writing what it read with its changes.         *)
(*                                                                         *)
(* Sizes are small numbers for bytes; the limits of one file's size, its     *)
(* type and its extension refuse a request before it reads anything and are  *)
(* left out. Content written to the disk has a number of its own.            *)
(***************************************************************************)
EXTENDS Integers, FiniteSets

CONSTANTS
    Requests,      \* slots for the requests that run at a time
    Files,         \* the identifiers a row may get
    Sizes,         \* of what is uploaded
    RoleMax,       \* QUOTA_BY_ROLE of the user
    DefaultMax,    \* of a row that was made without knowing the role
    MaxFiles,      \* maxFiles
    MaxWrites,     \* bound on the uploads
    MaxRestarts,   \* bound on the restarts
    None           \* no row

VARIABLES
    quota,         \* the row of storage_quotas
    file,          \* [file |-> its row]
    versions,      \* file_versions
    disk,          \* the content that is there
    listed,        \* [file |-> what the cleanup has listed of it, and its next step]
    call,          \* what runs in each slot
    created,       \* auth.user.created has been handled
    writes,        \* how many uploads wrote their content
    restarts,
    disturbed,     \* history: requests overlapped, one was cut off, or a file was
                   \* deleted again
    swept          \* history: files that were listed while a new version was under way

vars == <<quota, file, versions, disk, listed, call, created, writes, restarts, disturbed,
          swept>>

Idle == [op |-> "none"]
Quota == [max : {RoleMax, DefaultMax}, used : Int, files : Int]
Row == [status : {"active", "deleted"}, size : Sizes, version : Nat \ {0},
        content : 1..MaxWrites]
Version == [file : Files, number : Nat \ {0}, size : Sizes, content : 1..MaxWrites]
Listed == [step : {"unlink", "forget", "remove"}, content : 1..MaxWrites]

StorageAssumption ==
    /\ IsFiniteSet(Files) /\ Sizes \subseteq Nat \ {0}
    /\ RoleMax \in Nat /\ DefaultMax \in Nat /\ MaxFiles \in Nat
    /\ MaxWrites \in Nat /\ MaxRestarts \in Nat
    /\ None \notin Files /\ None \notin Row /\ None \notin Quota
    /\ None \notin Listed

TypeOK ==
    /\ quota # None => quota \in Quota
    /\ DOMAIN file = Files
    /\ \A f \in Files : file[f] # None => file[f] \in Row
    /\ versions \subseteq Version
    /\ \A v, w \in versions : (v.file = w.file /\ v.number = w.number) => v = w
    /\ disk \subseteq 1..MaxWrites /\ listed \in [Files -> Listed \cup {None}]
    /\ DOMAIN call = Requests
    /\ created \in BOOLEAN /\ disturbed \in BOOLEAN /\ swept \subseteq Files
    /\ writes \in 0..MaxWrites /\ restarts \in 0..MaxRestarts

Init ==
    /\ quota = None /\ file = [f \in Files |-> None]
    /\ versions = {} /\ disk = {} /\ listed = [f \in Files |-> None] /\ swept = {}
    /\ call = [r \in Requests |-> Idle]
    /\ created = FALSE /\ writes = 0 /\ restarts = 0 /\ disturbed = FALSE

NewQuota(max) == [max |-> max, used |-> 0, files |-> 0]

Goes(r, c) == call' = [call EXCEPT ![r] = c]
Overlap(r) == \E other \in Requests \ {r} : call[other] # Idle
Starts(r) == call[r] = Idle /\ disturbed' = (disturbed \/ Overlap(r))
At(r, op, step) == call[r].op = op /\ call[r].step = step
To(c, step) == [c EXCEPT !.step = step]

Nonneg(n) == IF n < 0 THEN 0 ELSE n
\* An identifier that nothing mentions.
Fresh(f) ==
    /\ file[f] = None /\ listed[f] = None
    /\ \A v \in versions : v.file # f
    /\ \A r \in Requests : call[r] # Idle => call[r].file # f

(***************************************************************************)
(* getOrCreateQuota: the row, or a new one with the default maximum. Two    *)
(* that find none insert both, and the key lets one of them do so.           *)
(***************************************************************************)
ReadQuota(r, c, next) ==
    IF quota # None
    THEN Goes(r, [To(c, next) EXCEPT !.quota = quota])
    ELSE Goes(r, [To(c, "make") EXCEPT !.next = next])

MakeQuota(r) ==
    /\ call[r] # Idle /\ call[r].step = "make"
    /\ IF quota = None
       THEN /\ quota' = NewQuota(DefaultMax)
            /\ Goes(r, [To(call[r], call[r].next) EXCEPT !.quota = quota'])
       ELSE Goes(r, Idle) /\ UNCHANGED quota
    /\ UNCHANGED <<file, versions, disk, listed, created, writes, restarts,
                   disturbed, swept>>

\* initializeQuota on auth.user.created, whose subscriber swallows a lost race.
InitializeQuota ==
    /\ ~created
    /\ created' = TRUE
    /\ quota' = IF quota = None THEN NewQuota(RoleMax) ELSE quota
    /\ UNCHANGED <<file, versions, disk, listed, call, writes, restarts, disturbed, swept>>

(***************************************************************************)
(* uploadFile                                                              *)
(***************************************************************************)
Asked(op, f, size) ==
    [op |-> op, step |-> "read", next |-> "none", file |-> f, size |-> size,
     quota |-> None, row |-> None, content |-> 0]

UploadStart(r) ==
    /\ Starts(r) /\ writes < MaxWrites
    /\ \E size \in Sizes : ReadQuota(r, Asked("upload", None, size), "check")
    /\ UNCHANGED <<quota, file, versions, disk, listed, created, writes, restarts, swept>>

\* Mutant of UploadAccepted: the size of the new file is not counted.
UploadAcceptedLate(c) == c.quota.used <= c.quota.max /\ c.quota.files < MaxFiles

UploadAccepted(c) == c.quota.used + c.size <= c.quota.max /\ c.quota.files < MaxFiles

\* The checks, the content and the row of the file.
UploadRow(r) ==
    /\ At(r, "upload", "check")
    /\ LET c == call[r] IN
       IF UploadAccepted(c) /\ writes < MaxWrites
       THEN \E f \in Files :
            /\ Fresh(f)
            /\ writes' = writes + 1
            /\ disk' = disk \cup {writes'}
            /\ file' = [file EXCEPT ![f] =
                 [status |-> "active", size |-> c.size, version |-> 1, content |-> writes']]
            /\ Goes(r, [To(c, "quota") EXCEPT !.file = f, !.content = writes'])
       ELSE Goes(r, Idle) /\ UNCHANGED <<writes, disk, file>>
    /\ UNCHANGED <<quota, versions, listed, created, restarts, disturbed, swept>>

\* The quota as it was read, with the new file.
UploadQuota(r) ==
    /\ At(r, "upload", "quota")
    /\ LET c == call[r] IN
       /\ quota' = [c.quota EXCEPT !.used = @ + c.size, !.files = @ + 1]
       /\ Goes(r, [To(c, "version") EXCEPT !.quota = None])
    /\ UNCHANGED <<file, versions, disk, listed, created, writes, restarts,
                   disturbed, swept>>

\* The first version; its key or its file may be gone by then.
UploadVersion(r) ==
    /\ At(r, "upload", "version")
    /\ LET c == call[r] IN
       versions' = IF file[c.file] = None THEN versions
                   ELSE versions \cup {[file |-> c.file, number |-> 1, size |-> c.size,
                                        content |-> c.content]}
    /\ Goes(r, Idle)
    /\ UNCHANGED <<quota, file, disk, listed, created, writes, restarts,
                   disturbed, swept>>

(***************************************************************************)
(* deleteFile: the status as a soft deletion, and the bytes given back,      *)
(* whether or not the file was already deleted.                             *)
(***************************************************************************)
DeleteStart(r) ==
    /\ Starts(r)
    /\ \E f \in Files : /\ file[f] # None
                        /\ Goes(r, [Asked("delete", f, 0) EXCEPT !.row = file[f]])
    /\ UNCHANGED <<quota, file, versions, disk, listed, created, writes, restarts, swept>>

\* save(file): a row that was removed meanwhile is inserted again.
DeleteRow(r) ==
    /\ At(r, "delete", "read")
    /\ LET c == call[r] IN
       /\ file' = [file EXCEPT ![c.file] = [c.row EXCEPT !.status = "deleted"]]
       /\ disturbed' = (disturbed \/ c.row.status = "deleted")
       /\ ReadQuota(r, c, "quota")
    /\ UNCHANGED <<quota, versions, disk, listed, created, writes, restarts, swept>>

DeleteQuota(r) ==
    /\ At(r, "delete", "quota")
    /\ LET c == call[r] IN
       quota' = [c.quota EXCEPT !.used = Nonneg(@ - c.row.size), !.files = Nonneg(@ - 1)]
    /\ Goes(r, Idle)
    /\ UNCHANGED <<file, versions, disk, listed, created, writes, restarts,
                   disturbed, swept>>

(***************************************************************************)
(* uploadNewVersion                                                        *)
(***************************************************************************)
VersionStart(r) ==
    /\ Starts(r) /\ writes < MaxWrites
    /\ \E f \in Files, size \in Sizes :
         /\ file[f] # None /\ file[f].status = "active"
         /\ Goes(r, [Asked("version", f, size) EXCEPT !.row = file[f]])
    /\ UNCHANGED <<quota, file, versions, disk, listed, created, writes, restarts, swept>>

VersionReadQuota(r) ==
    /\ At(r, "version", "read")
    /\ ReadQuota(r, call[r], "check")
    /\ UNCHANGED <<quota, file, versions, disk, listed, created, writes, restarts,
                   disturbed, swept>>

Grows(c) == c.size - c.row.size

VersionAccepted(c) == Grows(c) > 0 => c.quota.used + Grows(c) <= c.quota.max

\* The check, the content and the row of the version, which its key refuses when the
\* number was taken and its file when that was removed; the content stays on the disk.
VersionRow(r) ==
    /\ At(r, "version", "check")
    /\ LET c == call[r]
           n == c.row.version + 1
           taken == \E v \in versions : v.file = c.file /\ v.number = n
       IN IF VersionAccepted(c) /\ writes < MaxWrites
       THEN /\ writes' = writes + 1
            /\ disk' = disk \cup {writes'}
            /\ IF taken \/ file[c.file] = None
               THEN Goes(r, Idle) /\ UNCHANGED versions
               ELSE /\ versions' = versions \cup
                         {[file |-> c.file, number |-> n, size |-> c.size,
                           content |-> writes']}
                    /\ Goes(r, [To(c, "row") EXCEPT !.content = writes'])
       ELSE Goes(r, Idle) /\ UNCHANGED <<writes, disk, versions>>
    /\ UNCHANGED <<quota, file, listed, created, restarts, disturbed, swept>>

\* save(storedFile): the status is the one that was read.
VersionFile(r) ==
    /\ At(r, "version", "row")
    /\ LET c == call[r] IN
       /\ file' = [file EXCEPT ![c.file] =
            [status |-> c.row.status, size |-> c.size, version |-> c.row.version + 1,
             content |-> c.content]]
       /\ Goes(r, IF Grows(c) = 0 THEN Idle ELSE To(c, "quota"))
    /\ UNCHANGED <<quota, versions, disk, listed, created, writes, restarts,
                   disturbed, swept>>

VersionQuota(r) ==
    /\ At(r, "version", "quota")
    /\ quota' = [call[r].quota EXCEPT !.used = @ + Grows(call[r])]
    /\ Goes(r, Idle)
    /\ UNCHANGED <<file, versions, disk, listed, created, writes, restarts,
                   disturbed, swept>>

(***************************************************************************)
(* cleanupOrphanedFiles: one file after another. Whoever asks for it gives   *)
(* the days to wait, 0 as well as any other number, so that a file may still *)
(* be in use when it is cleaned up.                                          *)
(***************************************************************************)
\* The query for the deleted files.
List(f) ==
    /\ file[f] # None /\ file[f].status = "deleted" /\ listed[f] = None
    /\ listed' = [listed EXCEPT ![f] = [step |-> "unlink", content |-> file[f].content]]
    /\ swept' = IF \E r \in Requests : call[r].op = "version" /\ call[r].file = f
                THEN swept \cup {f} ELSE swept
    /\ UNCHANGED <<quota, file, versions, disk, call, created, writes, restarts, disturbed>>

CleansUp(f, step, next) ==
    /\ listed[f] # None /\ listed[f].step = step
    /\ listed' = [listed EXCEPT ![f] = next]
    /\ UNCHANGED <<quota, call, created, writes, restarts, disturbed, swept>>

\* The content that was listed, and that of the versions found.
Unlink(f) ==
    /\ CleansUp(f, "unlink", [listed[f] EXCEPT !.step = "forget"])
    /\ disk' = disk \ ({listed[f].content}
                          \cup {v.content : v \in {w \in versions : w.file = f}})
    /\ UNCHANGED <<file, versions>>

WithoutVersions(f) == {v \in versions : v.file # f}

Forget(f) ==
    /\ CleansUp(f, "forget", [listed[f] EXCEPT !.step = "remove"])
    /\ versions' = WithoutVersions(f)
    /\ UNCHANGED <<file, disk>>

\* remove(file) takes with it the versions that came meanwhile.
Remove(f) ==
    /\ CleansUp(f, "remove", None)
    /\ file' = [file EXCEPT ![f] = None]
    /\ versions' = WithoutVersions(f)
    /\ UNCHANGED disk

Cleanup(f) == List(f) \/ Unlink(f) \/ Forget(f) \/ Remove(f)

\* The process restarts: its requests and its cleanup end where they are.
Restart ==
    /\ restarts < MaxRestarts
    /\ restarts' = restarts + 1
    /\ disturbed' = (disturbed \/ \E r \in Requests : call[r] # Idle)
    /\ call' = [r \in Requests |-> Idle] /\ listed' = [f \in Files |-> None]
    /\ UNCHANGED <<quota, file, versions, disk, created, writes, swept>>

Upload(r) == UploadStart(r) \/ UploadRow(r) \/ UploadQuota(r) \/ UploadVersion(r)
Delete(r) == DeleteStart(r) \/ DeleteRow(r) \/ DeleteQuota(r)
NewVersion(r) ==
    \/ VersionStart(r) \/ VersionReadQuota(r) \/ VersionRow(r)
    \/ VersionFile(r) \/ VersionQuota(r)

Next ==
    \/ \E r \in Requests : MakeQuota(r) \/ Upload(r) \/ Delete(r) \/ NewVersion(r)
    \/ \E f \in Files : Cleanup(f)
    \/ InitializeQuota \/ Restart

Spec == Init /\ [][Next]_vars

(***************************************************************************)
(* Properties                                                              *)
(***************************************************************************)
Active == {f \in Files : file[f] # None /\ file[f].status = "active"}
Bytes == UNION {{f} \X (1..file[f].size) : f \in Active}
Quiet == \A r \in Requests : call[r] = Idle

\* Whatever overlaps, a save never writes more bytes than the user may have: each
\* request checks the very row that it saves.
UsedWithinMax == quota # None => quota.used <= quota.max

\* As long as requests come one after another, none is cut off and no file is deleted
\* twice, the quota counts exactly the files of the user.
QuotaCountsFiles ==
    (Quiet /\ ~disturbed) =>
        /\ Active # {} => quota # None
        /\ quota # None =>
             /\ quota.files = Cardinality(Active)
             /\ quota.used = Cardinality(Bytes)

\* A file that can be downloaded has its content, whatever was uploaded, deleted or
\* cleaned up around it: only a new version that was under way when the cleanup listed
\* its file may bring that back without.
ActiveHasContent == \A f \in Active \ swept : file[f].content \in disk

\* An active file is the latest of its versions unless the process stopped between
\* saving the one and the other: from then on every new version of it is refused, since
\* its number is taken. Files that met the cleanup as above are left out.
CurrentIsLatest ==
    (Quiet /\ restarts = 0) =>
        \A v \in versions : v.file \in Active \ swept => v.number <= file[v.file].version

(***************************************************************************)
(* What every step keeps                                                   *)
(***************************************************************************)
\* What a request has in hand at each of its steps: a quota with room for what it adds,
\* the row that it read, and the content that it wrote.
Asking == [op : {"upload", "delete", "version"},
           step : {"read", "make", "check", "row", "quota", "version"},
           next : {"none", "check", "quota"}, file : Files \cup {None}, size : Nat,
           quota : Quota \cup {None}, row : Row \cup {None}, content : Nat]
Room(q, n) == q \in Quota /\ q.used + n <= q.max
Written(c) == c.content \in 1..writes

UploadFits(r) ==
    LET c == call[r] IN
    /\ c.op = "upload" /\ c.size \in Sizes /\ c.row = None
    /\ \/ c.step = "make" /\ c.next = "check" /\ c.file = None /\ c.content = 0
       \/ c.step = "check" /\ c.file = None /\ c.content = 0 /\ Room(c.quota, 0)
       \/ c.step = "quota" /\ c.file \in Files /\ Written(c) /\ Room(c.quota, c.size)
       \/ c.step = "version" /\ c.file \in Files /\ Written(c)

DeleteFits(r) ==
    LET c == call[r] IN
    /\ c.op = "delete" /\ c.file \in Files /\ c.row \in Row /\ c.content = 0
    /\ \/ c.step = "read"
       \/ c.step = "make" /\ c.next = "quota"
       \/ c.step = "quota" /\ Room(c.quota, 0)

VersionFits(r) ==
    LET c == call[r] IN
    /\ c.op = "version" /\ c.file \in Files /\ c.row \in Row /\ c.row.status = "active"
    /\ c.size \in Sizes
    /\ \/ c.step = "read" /\ c.content = 0
       \/ c.step = "make" /\ c.next = "check" /\ c.content = 0
       \/ c.step = "check" /\ c.content = 0 /\ Room(c.quota, 0)
       \/ /\ c.step = "row" /\ Written(c) /\ Room(c.quota, Grows(c))
          /\ c.file \notin swept => c.content \in disk
       \/ c.step = "quota" /\ Written(c) /\ Room(c.quota, Grows(c))

Fits(r) ==
    \/ call[r] = Idle
    \/ call[r] \in Asking /\ (UploadFits(r) \/ DeleteFits(r) \/ VersionFits(r))
CallsFit == \A r \in Requests : Fits(r)

\* Whatever still knows of a file's content; no two files share one.
On(r, f) == call[r] # Idle /\ call[r].file = f
Mentions(f, k) ==
    \/ file[f] # None /\ file[f].content = k
    \/ listed[f] # None /\ listed[f].content = k
    \/ \E v \in versions : v.file = f /\ v.content = k
    \/ \E r \in Requests : On(r, f) /\ (call[r].content = k
                                        \/ (call[r].row # None /\ call[r].row.content = k))
ContentsApart ==
    \A f, g \in Files, k \in 1..MaxWrites :
        Mentions(f, k) => k <= writes /\ (Mentions(g, k) => f = g)

\* A listed file stays deleted unless a new version of it was under way.
ListedFits ==
    \A f \in Files \ swept : listed[f] # None =>
        /\ file[f] # None /\ file[f].status = "deleted"
        /\ \A r \in Requests : On(r, f) => call[r].op # "version"

\* The first version comes from its upload, of which a file has one.
UploadsApart ==
    \A r \in Requests, f \in Files : On(r, f) /\ call[r].op = "upload" =>
        /\ \A v \in versions : v.file = f => v.number # 1
        /\ \A q \in Requests : On(q, f) /\ call[q].op = "upload" => q = r

\* The numbers up to one that a file or a request knows of are taken, so a new one is
\* the highest, and its request is the only one to save it.
Live(f) == f \in Active \/ \E r \in Requests : On(r, f) /\ call[r].op = "version"
Taken(f) == {v.number : v \in {w \in versions : w.file = f}}
Known(f) ==
    {call[r].row.version : r \in {q \in Requests : On(q, f) /\ call[q].row # None}}
        \cup IF file[f] = None THEN {} ELSE {file[f].version}
NumbersFit ==
    \A f \in Files \ swept :
        Live(f) => \A m \in Known(f) \cup Taken(f) : 2..m \subseteq Taken(f)
Saving(r) == At(r, "version", "row")
NextIsLatest ==
    \A r \in Requests : Saving(r) /\ call[r].file \notin swept =>
        /\ call[r].row.version + 1 \in Taken(call[r].file)
        /\ \A m \in Known(call[r].file) : m <= call[r].row.version
        /\ \A m \in Taken(call[r].file) : m <= call[r].row.version + 1
        /\ \A q \in Requests : Saving(q) /\ call[q].file = call[r].file => q = r

LatestIsComing ==
    restarts = 0 => \A v \in versions : v.file \in Active \ swept =>
        \/ v.number <= file[v.file].version
        \/ \E r \in Requests : Saving(r) /\ call[r].file = v.file

\* In turn: what a request has read is still there, and the quota is behind by what the
\* request is about to save.
Counts(files, used) ==
    /\ quota # None
    /\ quota.files + files = Cardinality(Active) /\ quota.used + used = Cardinality(Bytes)
Counted ==
    /\ Active # {} => quota # None
    /\ quota # None => Counts(0, 0)
Behind(r, op, files, used) ==
    At(r, op, "quota") => call[r].quota = quota /\ Counts(files, used)
Accounting(r) ==
    LET c == call[r] IN
    /\ c.op = "upload" => Behind(r, "upload", 1, c.size)
    /\ c.op = "delete" => Behind(r, "delete", -1, -c.row.size)
    /\ c.op = "version" => Behind(r, "version", 0, Grows(c))
    /\ c.step # "quota" => Counted
    /\ c.op = "delete" => c.step # "make" /\ (At(r, "delete", "read") /\ c.row.status = "active"
                                                => file[c.file] = c.row)
    /\ c.op = "version" => c.step # "make" /\ (c.step # "quota" => file[c.file] = c.row)
    /\ At(r, "version", "quota") => c.file \in Active
    /\ c.step \in {"check", "row"} => quota # None /\ c.quota = quota
InTurn ==
    ~disturbed =>
        /\ swept = {}
        /\ \A r, q \in Requests : call[r] # Idle /\ call[q] # Idle => r = q
        /\ \A r \in Requests : call[r] # Idle => Accounting(r)
        /\ Quiet => Counted

StorageInv ==
    /\ TypeOK /\ UsedWithinMax /\ CallsFit /\ ContentsApart /\ ListedFits /\ UploadsApart
    /\ NumbersFit /\ NextIsLatest /\ LatestIsComing /\ ActiveHasContent /\ InTurn
===============================================================================
