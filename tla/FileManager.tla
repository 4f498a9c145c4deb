---------------------------- MODULE FileManager ----------------------------
(***************************************************************************)
(* The file synchronisation engine of rsession: RC2::FileManager          *)
(* (src/src/FileManager.cpp) and the DBFileSource it drives               *)
(* (src/src/DBFileSource.cpp), one instance per session process, all     *)
(* sharing one PostgreSQL database.                                        *)
(*                                                                         *)
(* Each session runs a single-threaded libevent loop with three event     *)
(* sources: the inotify bufferevent (priority 0), the database socket     *)
(* (priority 2, LISTEN rcfile) and the one-shot timer that clears          *)
(* ignoreFSNotifications_ (priority 2).  libevent runs only the callbacks *)
(* of the highest active priority in a pass, and every callback of that   *)
(* priority that was active when the pass began.  A callback runs to      *)
(* completion, but the events of a batch are modelled one step each, so  *)
(* other sessions interleave with them as they do across processes.       *)
(*                                                                         *)
(* The R interpreter runs on the session thread, so the working-directory *)
(* writes it makes (the environment actions) happen between callbacks.   *)
(***************************************************************************)
EXTENDS Naturals, Sequences, FiniteSets, FiniteSetsExt

LOCAL INSTANCE NotifyPayload

CONSTANTS
    Sessions,      \* rsession processes of one workspace
    FileIds,       \* ids of rcfile rows of the workspace (integers)
    InitialFiles,  \* rows that exist when the sessions start
    WspaceId,      \* the workspace of every session and file
    Contents,      \* file contents (model values)
    InitData,      \* content of the rows present at start and inserted
    ImgName,       \* a name matching "rc2img(\d+).png"
    NewName,       \* a name of a file R creates that is not an rcfile row
    DotName,       \* a name starting with '.'
    NoFile,        \* "no file at this path"
    UninitFlags,   \* TRUE: the flags never initialised may start TRUE
    DBFailures,    \* TRUE: any SQL statement may fail (connection loss)
    OtherWriters,  \* TRUE: clients other than the sessions update files
    ImageRemovals, \* TRUE: R or the user may delete an image file
    NotifyCalls,   \* TRUE: RSession may call suspend/resumeNotifyEvents
    Startup,       \* TRUE: sessions begin before initFileManager
    MaxWd,         \* bound: inotify watch descriptors handed out
    MaxVersion,    \* bound: rcfile.version
    MaxEnv,        \* bound: steps of R, the user and other clients
    MaxImages,     \* bound: image files R creates per session
    MaxReadEvents  \* bound: inotify events one bufferevent_read of
                   \* I_BUF_LEN bytes returns

ASSUME /\ FileIds \subseteq Nat \ {0}
       /\ InitialFiles \subseteq FileIds
       /\ InitData \in Contents
       /\ UninitFlags \in BOOLEAN
       /\ DBFailures \in BOOLEAN
       /\ OtherWriters \in BOOLEAN
       /\ ImageRemovals \in BOOLEAN
       /\ NotifyCalls \in BOOLEAN
       /\ Startup \in BOOLEAN
       /\ MaxWd > Cardinality(InitialFiles) + 1
       /\ MaxReadEvents \in Nat \ {0}

VARIABLES
    \* --- the database, shared by all sessions ---
    db,            \* rcfile row per id: [state, version, data]
    dbNotes,       \* per session: notifications on its socket, unread
    pqNotes,       \* per session: libpq's notify list (read, not taken)
    imgRows,       \* sessionimage rows: [id, sess, batch, gen]
    imgSeq,        \* last value of sessionimage_seq
    \* --- per session: DBFileSource and FileManager::Impl ---
    filesById,     \* ids in dbFileSource_.filesById_
    fileVer,       \* DBFileInfo::version of the record of each id
    watchDesc,     \* DBFileInfo::watchDescriptor (0: none)
    filesByWd,     \* filesByWatchDesc_: wd -> file id (0: no entry)
    pendingImages, \* keys of pendingImagesByWatchDesc_
    imageIds,      \* imageIds_
    sessionImageBatch, \* sessionImageBatch_
    manuallyAdded, \* manuallyAddedFiles_
    ignoreFS,      \* ignoreFSNotifications_
    ignoreDB,      \* ignoreDBNotifications_
    \* --- per session: the event loop ---
    timerArmed,    \* the handleIgnoreFSNotesOff timer is pending
    prio2,         \* priority-2 callbacks still to run in this pass
    fsBatch,       \* inotify events handleInotifyEvent is working through
    dbBatch,       \* notifications handleDBNotifications is working through
    evBuf,         \* bufferevent input buffer: events read, not consumed
    crashed,       \* the process died (null DBFileInfoPtr dereferenced)
    \* --- per session: the kernel and the working directory ---
    kw,            \* inotify watch on each path (0: none); wd 1 is the root
    nextWd,        \* next watch descriptor the kernel hands out
    kernelQ,       \* inotify events the handler dispatches on, queued
    kernelWake,    \* events it ignores (IN_IGNORED, IN_DELETE, ...) queued
    disk,          \* content of each rcfile's file (NoFile if absent)
    origin,        \* "db" or "local": who wrote that content last
    imgFile,       \* the image file: "none", "empty" or "full"
    \* --- bookkeeping ---
    imgMade,       \* image files R created, per session
    generation,    \* resetWatch calls, per session
    envSteps,      \* environment steps taken
    \* --- per session: inotify delivery as RSession requests it ---
    readEnabled,   \* the inotify bufferevent is enabled for reading
    suspended,     \* RSession's view: suspendNotifyEvents returned last
    phase          \* per session: how far initFileManager has got

dbVars   == <<db, dbNotes, pqNotes, imgRows, imgSeq>>
recVars  == <<filesById, fileVer, watchDesc, filesByWd, pendingImages,
              imageIds, sessionImageBatch, manuallyAdded, ignoreFS, ignoreDB>>
loopVars == <<timerArmed, prio2, fsBatch, dbBatch, evBuf, crashed>>
osVars   == <<kw, nextWd, kernelQ, kernelWake, disk, origin, imgFile>>
callVars == <<readEnabled, suspended, phase>>
envVars  == <<imgMade, generation, envSteps, callVars>>
vars     == <<dbVars, recVars, loopVars, osVars, envVars>>

RootWd == 1
Wds == 2..MaxWd
Paths == FileIds \cup {ImgName}
Names == FileIds \cup {ImgName, NewName, DotName}
Row == [state : {"new", "live", "deleted"}, version : 0..MaxVersion + 1,
        data : Contents]
Note == [tag : Tags, id : FileIds, ws : {WspaceId}]
Event == [kind : {"create"}, wd : {RootWd}, name : Names]
         \cup [kind : {"closeWrite", "deleteSelf"}, wd : Wds, name : {0}]

CreateEv(name) == [kind |-> "create", wd |-> RootWd, name |-> name]
CloseWriteEv(w) == [kind |-> "closeWrite", wd |-> w, name |-> 0]
DeleteSelfEv(w) == [kind |-> "deleteSelf", wd |-> w, name |-> 0]

\* Position of f among the files of S in ascending id order: setupInotify
\* watches filesById_ in map order, after the root directory took wd 1.
SetupWd(S, f) == 1 + Cardinality({g \in S : g <= f})
InitialWd(f) == SetupWd(InitialFiles, f)

\* What the sessions track and hold on disk in the initial state: nothing
\* before initFileManager, the initial rows once it has returned.
Loaded == IF Startup THEN {} ELSE InitialFiles

Init ==
    /\ db = [f \in FileIds |->
               IF f \in InitialFiles
               THEN [state |-> "live", version |-> 1, data |-> InitData]
               ELSE [state |-> "new", version |-> 0, data |-> InitData]]
    /\ dbNotes = [s \in Sessions |-> <<>>]
    /\ pqNotes = [s \in Sessions |-> <<>>]
    /\ imgRows = {}
    /\ imgSeq = 0
    /\ filesById = [s \in Sessions |-> Loaded]
    /\ fileVer = [s \in Sessions |-> [f \in FileIds |-> 1]]
    /\ watchDesc = [s \in Sessions |-> [f \in FileIds |->
                      IF f \in Loaded THEN InitialWd(f) ELSE 0]]
    /\ filesByWd = [s \in Sessions |-> [w \in Wds |->
                      IF \E f \in Loaded : InitialWd(f) = w
                      THEN CHOOSE f \in Loaded : InitialWd(f) = w
                      ELSE 0]]
    /\ pendingImages = [s \in Sessions |-> {}]
    /\ imageIds = [s \in Sessions |-> {}]
    /\ sessionImageBatch = [s \in Sessions |-> 0]
    /\ manuallyAdded = [s \in Sessions |-> {}]
    \* Impl() initialises neither flag: new Impl() leaves them indeterminate.
    /\ ignoreFS \in [Sessions -> IF UninitFlags THEN BOOLEAN ELSE {FALSE}]
    /\ ignoreDB \in [Sessions -> IF UninitFlags THEN BOOLEAN ELSE {FALSE}]
    /\ timerArmed = [s \in Sessions |-> FALSE]
    /\ prio2 = [s \in Sessions |-> {}]
    /\ fsBatch = [s \in Sessions |-> <<>>]
    /\ dbBatch = [s \in Sessions |-> <<>>]
    /\ evBuf = [s \in Sessions |-> <<>>]
    /\ crashed = [s \in Sessions |-> FALSE]
    /\ kw = [s \in Sessions |-> [p \in Paths |->
               IF p \in Loaded THEN InitialWd(p) ELSE 0]]
    /\ nextWd = [s \in Sessions |-> Cardinality(Loaded) + 2]
    /\ kernelQ = [s \in Sessions |-> <<>>]
    /\ kernelWake = [s \in Sessions |-> FALSE]
    /\ disk = [s \in Sessions |-> [f \in FileIds |->
                 IF f \in Loaded THEN InitData ELSE NoFile]]
    /\ origin = [s \in Sessions |-> [f \in FileIds |-> "db"]]
    /\ imgFile = [s \in Sessions |-> "none"]
    /\ imgMade = [s \in Sessions |-> 0]
    /\ generation = [s \in Sessions |-> 0]
    /\ envSteps = 0
    \* setupInotify: bufferevent_enable(evt, EV_READ)
    /\ readEnabled = [s \in Sessions |-> ~Startup]
    /\ suspended = [s \in Sessions |-> FALSE]
    /\ phase = [s \in Sessions |-> IF Startup THEN "start" ELSE "listening"]

TypeOK ==
    /\ db \in [FileIds -> Row]
    /\ dbNotes \in [Sessions -> Seq(Note)]
    /\ pqNotes \in [Sessions -> Seq(Note)]
    /\ imgRows \subseteq [id : Nat, sess : Sessions, batch : Nat, gen : Nat]
    /\ imgSeq \in Nat
    /\ filesById \in [Sessions -> SUBSET FileIds]
    /\ fileVer \in [Sessions -> [FileIds -> Nat]]
    /\ watchDesc \in [Sessions -> [FileIds -> {0} \cup Wds]]
    /\ filesByWd \in [Sessions -> [Wds -> {0} \cup FileIds]]
    /\ pendingImages \in [Sessions -> SUBSET Wds]
    /\ imageIds \in [Sessions -> SUBSET Nat]
    /\ sessionImageBatch \in [Sessions -> Nat]
    /\ manuallyAdded \in [Sessions -> SUBSET Names]
    /\ ignoreFS \in [Sessions -> BOOLEAN]
    /\ ignoreDB \in [Sessions -> BOOLEAN]
    /\ timerArmed \in [Sessions -> BOOLEAN]
    /\ prio2 \in [Sessions -> SUBSET {"timer", "db"}]
    /\ fsBatch \in [Sessions -> Seq(Event)]
    /\ dbBatch \in [Sessions -> Seq(Note)]
    /\ evBuf \in [Sessions -> Seq(Event)]
    /\ crashed \in [Sessions -> BOOLEAN]
    /\ kw \in [Sessions -> [Paths -> {0} \cup Wds]]
    /\ nextWd \in [Sessions -> 2..MaxWd + 1]
    /\ kernelQ \in [Sessions -> Seq(Event)]
    /\ kernelWake \in [Sessions -> BOOLEAN]
    /\ disk \in [Sessions -> [FileIds -> Contents \cup {NoFile}]]
    /\ origin \in [Sessions -> [FileIds -> {"db", "local"}]]
    /\ imgFile \in [Sessions -> {"none", "empty", "full"}]
    /\ imgMade \in [Sessions -> 0..MaxImages]
    /\ generation \in [Sessions -> Nat]
    /\ envSteps \in 0..MaxEnv
    /\ readEnabled \in [Sessions -> BOOLEAN]
    /\ suspended \in [Sessions -> BOOLEAN]
    /\ phase \in [Sessions -> {"start", "connected", "watching", "listening",
                               "unlistened"}]

(***************************************************************************)
(* Helpers                                                                 *)
(***************************************************************************)
\* The process runs its event loop: initFileManager has returned (the
\* LISTEN statement succeeded or not) and it has not died.
Live(s) == ~crashed[s] /\ phase[s] \in {"listening", "unlistened"}

\* A callback of session s is part way through its batch.
Busy(s) == fsBatch[s] # <<>> \/ dbBatch[s] # <<>>

\* The session dereferences a null DBFileInfoPtr and the process dies; the
\* database drops its LISTEN, so nothing more is delivered to it.
NullDeref(s) ==
    /\ crashed' = [crashed EXCEPT ![s] = TRUE]
    /\ UNCHANGED <<dbVars, recVars, timerArmed, prio2, fsBatch, dbBatch,
                   evBuf, osVars, envVars>>

\* A live connection that has executed 'listen rcfile'.
Listening(t) == ~crashed[t] /\ phase[t] = "listening"

\* pg_notify on channel rcfile by another client: the message reaches the
\* socket of every listening connection.
Notify(n) ==
    dbNotes' = [t \in Sessions |->
                  IF Listening(t) THEN Append(dbNotes[t], n) ELSE dbNotes[t]]

\* What a statement on session s's connection leaves in libpq's notify
\* list: PQexec reads the socket up to the statement's ReadyForQuery, so
\* it takes the notifications already there and, after them, those its
\* own commit raises (sent before ReadyForQuery).
ReadBySession(s, own) == dbNotes[s] \o (IF Listening(s) THEN own ELSE <<>>)

\* A statement of session s outside handleDBNotifications whose commit
\* notifies own: libpq files what it read, the other listeners get own on
\* their sockets.  Nothing takes libpq's list until the socket is readable.
Exec(s, own) ==
    /\ pqNotes' = [pqNotes EXCEPT ![s] = @ \o ReadBySession(s, own)]
    /\ dbNotes' = [t \in Sessions |->
                    IF t = s THEN <<>>
                    ELSE IF Listening(t) THEN dbNotes[t] \o own
                    ELSE dbNotes[t]]

\* Mutant: the flag is set without scheduling the timer that clears it.
IgnoreFSNotificationsNoTimer(s) ==
    /\ ignoreFS' = [ignoreFS EXCEPT ![s] = TRUE]
    /\ UNCHANGED timerArmed

\* ignoreFSNotifications(): set the flag and, unless it was already set,
\* schedule the 5 ms priority-2 timer that clears it.
IgnoreFSNotifications(s) ==
    /\ ignoreFS' = [ignoreFS EXCEPT ![s] = TRUE]
    /\ timerArmed' = [timerArmed EXCEPT ![s] = @ \/ ~ignoreFS[s]]

\* The inotify events a write of rcfile f by this process raises: IN_CREATE
\* on the root if the file did not exist, IN_CLOSE_WRITE if it is watched.
WriteEvents(s, f) ==
    (IF disk[s][f] = NoFile THEN <<CreateEv(f)>> ELSE <<>>)
    \o (IF kw[s][f] # 0 THEN <<CloseWriteEv(kw[s][f])>> ELSE <<>>)

\* inotify_add_watch on path p: the inode's watch if it has one, else a
\* fresh descriptor.
NewWd(s, p) == IF kw[s][p] # 0 THEN kw[s][p] ELSE nextWd[s]

AddWatch(s, p) ==
    /\ kw' = [kw EXCEPT ![s][p] = NewWd(s, p)]
    /\ nextWd' = [nextWd EXCEPT ![s] = IF kw[s][p] # 0 THEN @ ELSE @ + 1]

\* inotify_rm_watch(w): the watch is gone, IN_IGNORED is queued if it
\* existed.
Watching(s, w) == \E p \in Paths : w # 0 /\ kw[s][p] = w

Unwatched(s, w) == [p \in Paths |-> IF kw[s][p] = w THEN 0 ELSE kw[s][p]]

\* map::erase(k) on filesByWatchDesc_.
EraseKey(m, k) == [w \in DOMAIN m |-> IF w = k THEN 0 ELSE m[w]]

\* DBFileSource::loadFiles(" where f.id = <f>") when the query returns the
\* row: refresh or create the record, write the content, set the mtime.
LoadRow(s, f) ==
    /\ filesById' = [filesById EXCEPT ![s] = @ \cup {f}]
    /\ fileVer' = [fileVer EXCEPT ![s][f] = db[f].version]
    /\ disk' = [disk EXCEPT ![s][f] = db[f].data]
    /\ origin' = [origin EXCEPT ![s][f] = "db"]
    /\ kernelQ' = [kernelQ EXCEPT ![s] = @ \o WriteEvents(s, f)]

\* FileManager::Impl::watchFile once stat() has succeeded.
WatchFile(s, f) ==
    /\ AddWatch(s, f)
    /\ watchDesc' = [watchDesc EXCEPT ![s][f] = NewWd(s, f)]
    /\ filesByWd' = [filesByWd EXCEPT ![s][NewWd(s, f)] = f]

(***************************************************************************)
(* The event loop                                                          *)
(***************************************************************************)
LoopIdle(s) == Live(s) /\ ~Busy(s) /\ prio2[s] = {}

\* A disabled bufferevent does not poll the descriptor, so its read event
\* is never active and the priority-2 callbacks run in its place.
InotifyReadable(s) ==
    readEnabled[s] /\ (kernelQ[s] # <<>> \/ kernelWake[s])

\* handleInotifyEvent while ignoreFSNotifications_ is set: it returns
\* without bufferevent_read, so what the bufferevent took from the inotify
\* descriptor stays in its input buffer until the callback next runs.
InotifyDeferred(s) ==
    /\ LoopIdle(s) /\ InotifyReadable(s)
    /\ ignoreFS[s]
    /\ evBuf' = [evBuf EXCEPT ![s] = @ \o kernelQ[s]]
    /\ kernelQ' = [kernelQ EXCEPT ![s] = <<>>]
    /\ kernelWake' = [kernelWake EXCEPT ![s] = FALSE]
    /\ UNCHANGED <<dbVars, recVars, timerArmed, prio2, fsBatch, dbBatch,
                   crashed, kw, nextWd, disk, origin, imgFile, envVars>>

\* Mutant: the events that arrived in the window are discarded, as spec
\* section 4.4 describes suppression, instead of kept in the bufferevent.
InotifyReadDropsBuffered(s) ==
    /\ LoopIdle(s) /\ InotifyReadable(s)
    /\ ~ignoreFS[s]
    /\ IgnoreFSNotifications(s)
    /\ fsBatch' = [fsBatch EXCEPT ![s] = kernelQ[s]]
    /\ evBuf' = [evBuf EXCEPT ![s] = <<>>]
    /\ kernelQ' = [kernelQ EXCEPT ![s] = <<>>]
    /\ kernelWake' = [kernelWake EXCEPT ![s] = FALSE]
    /\ UNCHANGED <<dbVars, filesById, fileVer, watchDesc, filesByWd,
                   pendingImages, imageIds, sessionImageBatch, manuallyAdded,
                   ignoreDB, prio2, dbBatch, crashed, kw, nextWd, disk,
                   origin, imgFile, envVars>>

\* What one bufferevent_read(bev, buf, I_BUF_LEN) returns, and what it
\* leaves in the input buffer for a later callback.
ReadPart(s) ==
    LET all == evBuf[s] \o kernelQ[s]
        n   == Min({Len(all), MaxReadEvents})
    IN  <<SubSeq(all, 1, n), SubSeq(all, n + 1, Len(all))>>

\* handleInotifyEvent with the flag clear: arm the flag, read at most
\* I_BUF_LEN bytes and dispatch those events.  The rest stays in the
\* bufferevent: libevent calls back only after it reads new data from the
\* descriptor.
InotifyRead(s) ==
    /\ LoopIdle(s) /\ InotifyReadable(s)
    /\ ~ignoreFS[s]
    /\ IgnoreFSNotifications(s)
    /\ fsBatch' = [fsBatch EXCEPT ![s] = ReadPart(s)[1]]
    /\ evBuf' = [evBuf EXCEPT ![s] = ReadPart(s)[2]]
    /\ kernelQ' = [kernelQ EXCEPT ![s] = <<>>]
    /\ kernelWake' = [kernelWake EXCEPT ![s] = FALSE]
    /\ UNCHANGED <<dbVars, filesById, fileVer, watchDesc, filesByWd,
                   pendingImages, imageIds, sessionImageBatch, manuallyAdded,
                   ignoreDB, prio2, dbBatch, crashed, kw, nextWd, disk,
                   origin, imgFile, envVars>>

\* (Prio2ReadyNoDb: the socket's event is never added, so only the timer
\* can become active.)
Prio2ReadyNoDb(s) == {x \in {"timer"} : timerArmed[s]}

\* A loop pass with no priority-0 event active: the expired timer and the
\* readable database socket that are active run in this pass, before the
\* inotify descriptor is polled again.  Whether the 5 ms have elapsed, and
\* whether a notification has reached the socket, is left open.
Prio2Ready(s) ==
    {x \in {"timer", "db"} : \/ x = "timer" /\ timerArmed[s]
                             \/ x = "db" /\ dbNotes[s] # <<>>}

Poll(s) ==
    /\ LoopIdle(s) /\ ~InotifyReadable(s)
    /\ \E active \in SUBSET Prio2Ready(s) \ {{}} :
          prio2' = [prio2 EXCEPT ![s] = active]
    /\ UNCHANGED <<dbVars, recVars, timerArmed, fsBatch, dbBatch, evBuf,
                   crashed, osVars, envVars>>

\* handleIgnoreFSNotesOff: the timer clears the flag and deletes itself.
HandleIgnoreFSNotesOff(s) ==
    /\ Live(s) /\ ~Busy(s) /\ "timer" \in prio2[s]
    /\ ignoreFS' = [ignoreFS EXCEPT ![s] = FALSE]
    /\ timerArmed' = [timerArmed EXCEPT ![s] = FALSE]
    /\ prio2' = [prio2 EXCEPT ![s] = @ \ {"timer"}]
    /\ UNCHANGED <<dbVars, filesById, fileVer, watchDesc, filesByWd,
                   pendingImages, imageIds, sessionImageBatch, manuallyAdded,
                   ignoreDB, fsBatch, dbBatch, evBuf, crashed, osVars,
                   envVars>>

\* handleDBNotifications: arm the flag, PQconsumeInput (the socket's
\* notifications join libpq's list), and take every notification of the
\* list with PQnotifies; each is processed unless ignoreDBNotifications_
\* is set.
HandleDBNotifications(s) ==
    /\ Live(s) /\ ~Busy(s) /\ "db" \in prio2[s]
    /\ IgnoreFSNotifications(s)
    /\ dbBatch' = [dbBatch EXCEPT ![s] = IF ignoreDB[s] THEN <<>>
                                         ELSE pqNotes[s] \o dbNotes[s]]
    /\ dbNotes' = [dbNotes EXCEPT ![s] = <<>>]
    /\ pqNotes' = [pqNotes EXCEPT ![s] = <<>>]
    /\ prio2' = [prio2 EXCEPT ![s] = @ \ {"db"}]
    /\ UNCHANGED <<db, imgRows, imgSeq, filesById, fileVer, watchDesc,
                   filesByWd, pendingImages, imageIds, sessionImageBatch,
                   manuallyAdded, ignoreDB, fsBatch, evBuf, crashed, osVars,
                   envVars>>

(***************************************************************************)
(* processDBNotification, one notification of the batch per step          *)
(***************************************************************************)
InNote(s) == Live(s) /\ dbBatch[s] # <<>>

CurMsg(s) ==
    LET n == Head(dbBatch[s]) IN Encode(n.tag, n.id, n.ws)

NoteTag(s) == ParseTag(CurMsg(s))

NoteFile(s) == ParseFileId(CurMsg(s))

\* Whether a statement succeeds: always, unless DBFailures.
StatementOK == IF DBFailures THEN BOOLEAN ELSE {TRUE}

NextNote(s) == dbBatch' = [dbBatch EXCEPT ![s] = Tail(@)]

\* The next notification, after a loadFiles select of this one: what the
\* select read from the socket joins libpq's list, which the PQnotifies
\* loop is still taking from.
NextNoteAfterSelect(s) ==
    /\ dbBatch' = [dbBatch EXCEPT ![s] = Tail(@) \o dbNotes[s]]
    /\ dbNotes' = [dbNotes EXCEPT ![s] = <<>>]

\* 'd' for a tracked file: rm_watch of the record's descriptor, erase the
\* record, erase filesByWatchDesc_ at key fileId, remove the file.  The
\* file's own watch, if the record's descriptor was not it, still reports
\* IN_DELETE_SELF; the root reports IN_DELETE.
NoteDelete(s) ==
    /\ InNote(s) /\ NoteTag(s) = "d"
    /\ LET f   == NoteFile(s)
           w   == watchDesc[s][f]
           kw2 == Unwatched(s, w)
       IN  /\ f \in filesById[s]
           /\ kw' = [kw EXCEPT ![s] = kw2]
           /\ filesById' = [filesById EXCEPT ![s] = @ \ {f}]
           /\ filesByWd' = [filesByWd EXCEPT ![s] = EraseKey(@, f)]
           /\ disk' = [disk EXCEPT ![s][f] = NoFile]
           /\ kernelQ' = [kernelQ EXCEPT ![s] =
                 IF kw2[f] # 0 /\ disk[s][f] # NoFile
                 THEN Append(@, DeleteSelfEv(kw2[f])) ELSE @]
           /\ kernelWake' = [kernelWake EXCEPT ![s] =
                 @ \/ Watching(s, w) \/ disk[s][f] # NoFile]
    /\ NextNote(s)
    /\ UNCHANGED <<dbVars, fileVer, watchDesc, pendingImages, imageIds,
                   sessionImageBatch, manuallyAdded, ignoreFS, ignoreDB,
                   timerArmed, prio2, fsBatch, evBuf, crashed, nextWd,
                   origin, imgFile, envVars>>

\* 'd' for an id with no record: filesById_.at throws out_of_range.
NoteDeleteUntracked(s) ==
    /\ InNote(s) /\ NoteTag(s) = "d"
    /\ NoteFile(s) \notin filesById[s]
    /\ NextNote(s)
    /\ UNCHANGED <<dbVars, recVars, timerArmed, prio2, fsBatch, evBuf,
                   crashed, osVars, envVars>>

InsertForUs(s) ==
    /\ InNote(s) /\ NoteTag(s) = "i"
    /\ ParseWspace(CurMsg(s)) = WspaceId

\* 'i' of this workspace, the row is read: load it, then watchFile.
NoteInsertLoaded(s) ==
    /\ InsertForUs(s)
    /\ db[NoteFile(s)].state = "live"
    /\ IgnoreFSNotifications(s)
    /\ LoadRow(s, NoteFile(s))
    /\ WatchFile(s, NoteFile(s))
    /\ NextNoteAfterSelect(s)
    /\ UNCHANGED <<db, pqNotes, imgRows, imgSeq, pendingImages, imageIds, sessionImageBatch,
                   manuallyAdded, ignoreDB, prio2, fsBatch, evBuf, crashed,
                   kernelWake, imgFile, envVars>>

\* 'i' of this workspace whose select returns no row (deleted since, or the
\* query failed: loadFiles only logs): filesById_[fileId] inserts a null
\* pointer and watchFile dereferences it.  (The id cannot already have a
\* record: ids come from a sequence and each insert is notified once, after
\* the session's LISTEN or before its initial load.)
NoteInsertNull(s) ==
    /\ InsertForUs(s)
    /\ db[NoteFile(s)].state # "live" \/ FALSE \in StatementOK
    /\ NoteFile(s) \notin filesById[s]
    /\ NullDeref(s)

\* 'i' whose parsed workspace is not this session's: ignored.
NoteInsertOtherWspace(s) ==
    /\ InNote(s) /\ NoteTag(s) = "i"
    /\ ParseWspace(CurMsg(s)) # WspaceId
    /\ NextNote(s)
    /\ UNCHANGED <<dbVars, recVars, timerArmed, prio2, fsBatch, evBuf,
                   crashed, osVars, envVars>>

\* Mutant: the 'u' branch arms the flag but never calls loadFiles.
NoteUpdateSkipsLoad(s) ==
    /\ InNote(s) /\ NoteTag(s) = "u"
    /\ NoteFile(s) \in filesById[s]
    /\ IgnoreFSNotifications(s)
    /\ NextNote(s)
    /\ UNCHANGED <<dbVars, filesById, fileVer, watchDesc, filesByWd,
                   pendingImages, imageIds, sessionImageBatch, manuallyAdded,
                   ignoreDB, prio2, fsBatch, evBuf, crashed, osVars, envVars>>

\* 'u' for a tracked file: arm the flag and reload it.  Without a row
\* (deleted since, or the query failed) nothing is loaded.
NoteUpdate(s) ==
    /\ InNote(s) /\ NoteTag(s) = "u"
    /\ NoteFile(s) \in filesById[s]
    /\ IgnoreFSNotifications(s)
    /\ \E ok \in StatementOK :
         IF ok /\ db[NoteFile(s)].state = "live"
         THEN LoadRow(s, NoteFile(s))
         ELSE UNCHANGED <<filesById, fileVer, disk, origin, kernelQ>>
    /\ NextNoteAfterSelect(s)
    /\ UNCHANGED <<db, pqNotes, imgRows, imgSeq, watchDesc, filesByWd, pendingImages, imageIds,
                   sessionImageBatch, manuallyAdded, ignoreDB, prio2,
                   fsBatch, evBuf, crashed, kw, nextWd, kernelWake, imgFile,
                   envVars>>

\* 'u' for an id with no record: ignored.
NoteUpdateUntracked(s) ==
    /\ InNote(s) /\ NoteTag(s) = "u"
    /\ NoteFile(s) \notin filesById[s]
    /\ NextNote(s)
    /\ UNCHANGED <<dbVars, recVars, timerArmed, prio2, fsBatch, evBuf,
                   crashed, osVars, envVars>>

ProcessDBNotification(s) ==
    \/ NoteDelete(s) \/ NoteDeleteUntracked(s)
    \/ NoteInsertLoaded(s) \/ NoteInsertNull(s)
    \/ NoteInsertOtherWspace(s)
    \/ NoteUpdate(s) \/ NoteUpdateUntracked(s)

(***************************************************************************)
(* DBFileSource writes and the image store, as handleInotifyEvent uses    *)
(* them                                                                    *)
(***************************************************************************)
\* Mutant: the update writes the version the record already has.
UpdateDBFileSameVersion(s, f, ok) ==
    LET present == db[f].state = "live"
    IN  /\ disk[s][f] # NoFile /\ ok
        /\ db' = IF present
                 THEN [db EXCEPT ![f] = [state |-> "live",
                                          version |-> fileVer[s][f],
                                          data |-> disk[s][f]]]
                 ELSE db
        /\ Exec(s, IF present THEN <<[tag |-> "u", id |-> f, ws |-> WspaceId]>>
                   ELSE <<>>)
        /\ UNCHANGED fileVer

\* updateDBFile(fobj) for the record of id f: stat, read the file, then in
\* one transaction set version = fobj->version + 1 and the content; on
\* commit the record takes the new version.  The rcfile trigger notifies
\* 'u' when the row was there to update.  A failed stat or statement
\* throws before anything changes (the transaction rolls back).
UpdateDBFile(s, f, ok) ==
    LET newVersion == fileVer[s][f] + 1
        present    == db[f].state = "live"
    IN  /\ disk[s][f] # NoFile /\ ok
        /\ db' = IF present
                 THEN [db EXCEPT ![f] = [state |-> "live",
                                          version |-> newVersion,
                                          data |-> disk[s][f]]]
                 ELSE db
        /\ Exec(s, IF present THEN <<[tag |-> "u", id |-> f, ws |-> WspaceId]>>
                   ELSE <<>>)
        /\ fileVer' = [fileVer EXCEPT ![s][f] = newVersion]

\* A failed stat throws before any statement; a failed statement is a
\* round trip all the same, and rolls back.
UpdateDBFileFails(s, f, ok) ==
    /\ \/ disk[s][f] = NoFile /\ UNCHANGED <<dbNotes, pqNotes>>
       \/ disk[s][f] # NoFile /\ ~ok /\ Exec(s, <<>>)
    /\ UNCHANGED <<db, fileVer>>

\* removeDBFile(fobj): delete the row; on success erase the record.
RemoveDBFile(s, f, ok) ==
    IF ok
    THEN /\ db' = IF db[f].state = "live"
                  THEN [db EXCEPT ![f].state = "deleted"] ELSE db
         /\ Exec(s, IF db[f].state = "live"
                    THEN <<[tag |-> "d", id |-> f, ws |-> WspaceId]>>
                    ELSE <<>>)
         /\ filesById' = [filesById EXCEPT ![s] = @ \ {f}]
    ELSE /\ Exec(s, <<>>)
         /\ UNCHANGED <<db, filesById>>

\* The batch insertImage files an image under: sessionImageBatch_, or one
\* more than the session's largest batch when it is not yet set.
LastBatch(s) ==
    LET batches == {r.batch : r \in {r \in imgRows : r.sess = s}}
    IN  IF batches = {} THEN 0 ELSE Max(batches)

ImageBatch(s) ==
    IF sessionImageBatch[s] <= 0 THEN LastBatch(s) + 1
    ELSE sessionImageBatch[s]

\* insertImage of a non-empty image whose insert succeeds: take the next
\* sessionimage_seq value, store the row, remember the id, arm the flag and
\* remove the file (its inode and watch go; the root reports IN_DELETE).
ImageInserted(s) ==
    /\ imgSeq' = imgSeq + 1
    /\ imgRows' = imgRows \cup {[id |-> imgSeq + 1, sess |-> s,
                                 batch |-> ImageBatch(s),
                                 gen |-> generation[s]]}
    /\ sessionImageBatch' = [sessionImageBatch EXCEPT ![s] = ImageBatch(s)]
    /\ imageIds' = [imageIds EXCEPT ![s] = @ \cup {imgSeq + 1}]
    /\ IgnoreFSNotifications(s)
    /\ imgFile' = [imgFile EXCEPT ![s] = "none"]
    /\ kernelWake' = [kernelWake EXCEPT ![s] = TRUE]
    /\ Exec(s, <<>>)

\* insertImage whose insert statement fails: the sequence value is used
\* up, sessionImageBatch_ is already set, and the exception leaves the
\* pending image in place.
ImageInsertFails(s) ==
    /\ imgSeq' = imgSeq + 1
    /\ sessionImageBatch' = [sessionImageBatch EXCEPT ![s] = ImageBatch(s)]
    /\ Exec(s, <<>>)
    /\ UNCHANGED <<imgRows, imageIds, ignoreFS, timerArmed, imgFile,
                   kernelWake>>

\* Mutant: stopImageWatch removes the watch but forgets to erase the entry.
StopImageWatchKeepsEntry(s, w, kwNow) ==
    /\ kw' = [kw EXCEPT ![s] = [p \in Paths |->
                 IF kwNow[p] = w THEN 0 ELSE kwNow[p]]]
    /\ UNCHANGED pendingImages

\* stopImageWatch(w): inotify_rm_watch and erase the pending entry; kwNow
\* is the kernel's watch table once insertImage is done with the file.
StopImageWatch(s, w, kwNow) ==
    /\ kw' = [kw EXCEPT ![s] = [p \in Paths |->
                 IF kwNow[p] = w THEN 0 ELSE kwNow[p]]]
    /\ pendingImages' = [pendingImages EXCEPT ![s] = @ \ {w}]

(***************************************************************************)
(* handleInotifyEvent, one event of the batch per step                    *)
(***************************************************************************)
InEvent(s) == Live(s) /\ fsBatch[s] # <<>>

CurEvent(s) == Head(fsBatch[s])

NextEvent(s) == fsBatch' = [fsBatch EXCEPT ![s] = Tail(@)]

CreateOf(s, names) ==
    /\ InEvent(s) /\ CurEvent(s).kind = "create"
    /\ CurEvent(s).name \in names

\* IN_CREATE of a dot file, or of a name findOrAddFile added: skipped.
EventCreateSkipped(s) ==
    /\ CreateOf(s, {DotName} \cup (manuallyAdded[s] \ {ImgName}))
    /\ NextEvent(s)
    /\ UNCHANGED <<dbVars, recVars, timerArmed, prio2, dbBatch, evBuf,
                   crashed, osVars, envVars>>

\* IN_CREATE of an image: startImageWatch adds a close watch on it and
\* records it as pending ...
EventCreateImage(s) ==
    /\ CreateOf(s, {ImgName})
    /\ imgFile[s] # "none"
    /\ AddWatch(s, ImgName)
    /\ pendingImages' = [pendingImages EXCEPT ![s] = @ \cup
                           {NewWd(s, ImgName)}]
    /\ NextEvent(s)
    /\ UNCHANGED <<dbVars, filesById, fileVer, watchDesc, filesByWd,
                   imageIds, sessionImageBatch, manuallyAdded, ignoreFS,
                   ignoreDB, timerArmed, prio2, dbBatch, evBuf, crashed,
                   kernelQ, kernelWake, disk, origin, imgFile, envVars>>

\* Mutant: startImageWatch without the wd == -1 check records the failed
\* watch under descriptor -1.
EventCreateImageGoneUnchecked(s) ==
    /\ CreateOf(s, {ImgName})
    /\ imgFile[s] = "none"
    /\ pendingImages' = [pendingImages EXCEPT ![s] = @ \cup {-1}]
    /\ NextEvent(s)
    /\ UNCHANGED <<dbVars, filesById, fileVer, watchDesc, filesByWd,
                   imageIds, sessionImageBatch, manuallyAdded, ignoreFS,
                   ignoreDB, timerArmed, prio2, dbBatch, evBuf, crashed,
                   osVars, envVars>>

\* ... unless the file is already gone: inotify_add_watch fails and the
\* exception is caught.
EventCreateImageGone(s) ==
    /\ CreateOf(s, {ImgName})
    /\ imgFile[s] = "none"
    /\ NextEvent(s)
    /\ UNCHANGED <<dbVars, recVars, timerArmed, prio2, dbBatch, evBuf,
                   crashed, osVars, envVars>>

\* IN_CREATE of any other name: insertDBFile has no return statement, so
\* newFileId is whatever the register holds.  Not positive: nothing
\* happens; positive: filesById_[newFileId] is a new null record and
\* watchFile dereferences it.
EventCreateUntracked(s) ==
    /\ CreateOf(s, Names \ ({DotName, ImgName} \cup manuallyAdded[s]))
    /\ \/ /\ NextEvent(s)
          /\ UNCHANGED <<dbVars, recVars, timerArmed, prio2, dbBatch, evBuf,
                         crashed, osVars, envVars>>
       \/ NullDeref(s)

CloseWriteOn(s) ==
    /\ InEvent(s) /\ CurEvent(s).kind = "closeWrite"

\* IN_CLOSE_WRITE on a pending image: insertImage, then stopImageWatch
\* (rm_watch and forget it).  An empty image is not stored but the watch
\* is stopped all the same; a failed insert throws before the stop.  When
\* the file has gone, ReadFileBlob (RC2Utils, not in this repository)
\* either reports size 0 or throws.
EventCloseWriteImage(s) ==
    /\ CloseWriteOn(s)
    /\ CurEvent(s).wd \in pendingImages[s]
    /\ LET w == CurEvent(s).wd IN
       \/ /\ imgFile[s] \in {"empty", "none"}
          /\ StopImageWatch(s, w, kw[s])
          /\ kernelWake' = [kernelWake EXCEPT ![s] = @ \/ Watching(s, w)]
          /\ UNCHANGED <<imgRows, imgSeq, sessionImageBatch, imageIds,
                         ignoreFS, timerArmed, imgFile, dbNotes, pqNotes>>
       \/ /\ imgFile[s] = "full"
          /\ ImageInserted(s)
          /\ StopImageWatch(s, w, [kw[s] EXCEPT ![ImgName] = 0])
       \/ /\ imgFile[s] = "full" /\ FALSE \in StatementOK
          /\ ImageInsertFails(s)
          /\ UNCHANGED <<pendingImages, kw>>
       \/ /\ imgFile[s] = "none"
          /\ UNCHANGED <<imgRows, imgSeq, sessionImageBatch, imageIds,
                         ignoreFS, timerArmed, imgFile, pendingImages, kw,
                         kernelWake, dbNotes, pqNotes>>
    /\ NextEvent(s)
    /\ UNCHANGED <<db, filesById, fileVer, watchDesc, filesByWd,
                   manuallyAdded, ignoreDB, prio2, dbBatch, evBuf, crashed,
                   nextWd, kernelQ, disk, origin, envVars>>

\* IN_CLOSE_WRITE on a file watch: updateDBFile of the record
\* filesByWatchDesc_ holds for the descriptor ...
EventCloseWriteFile(s) ==
    /\ CloseWriteOn(s)
    /\ CurEvent(s).wd \notin pendingImages[s]
    /\ filesByWd[s][CurEvent(s).wd] # 0
    /\ LET f == filesByWd[s][CurEvent(s).wd]
       IN  \E ok \in StatementOK :
              UpdateDBFile(s, f, ok) \/ UpdateDBFileFails(s, f, ok)
    /\ NextEvent(s)
    /\ UNCHANGED <<imgRows, imgSeq, filesById, watchDesc, filesByWd,
                   pendingImages, imageIds, sessionImageBatch, manuallyAdded,
                   ignoreFS, ignoreDB, timerArmed, prio2, dbBatch, evBuf,
                   crashed, osVars, envVars>>

\* ... and when it holds none, operator[] makes a null pointer and
\* fobj->name dereferences it.
EventCloseWriteNull(s) ==
    /\ CloseWriteOn(s)
    /\ CurEvent(s).wd \notin pendingImages[s]
    /\ filesByWd[s][CurEvent(s).wd] = 0
    /\ NullDeref(s)

DeleteSelfOn(s) ==
    /\ InEvent(s) /\ CurEvent(s).kind = "deleteSelf"

\* IN_DELETE_SELF: removeDBFile of the record, erase filesByWatchDesc_ at
\* key fobj->id, rm_watch the descriptor.
EventDeleteSelf(s) ==
    /\ DeleteSelfOn(s)
    /\ filesByWd[s][CurEvent(s).wd] # 0
    /\ LET w == CurEvent(s).wd
           f == filesByWd[s][w]
       IN  /\ \E ok \in StatementOK : RemoveDBFile(s, f, ok)
           /\ filesByWd' = [filesByWd EXCEPT ![s] = EraseKey(@, f)]
           /\ kw' = [kw EXCEPT ![s] = Unwatched(s, w)]
           /\ kernelWake' = [kernelWake EXCEPT ![s] = @ \/ Watching(s, w)]
    /\ NextEvent(s)
    /\ UNCHANGED <<imgRows, imgSeq, fileVer, watchDesc, pendingImages,
                   imageIds, sessionImageBatch, manuallyAdded, ignoreFS,
                   ignoreDB, timerArmed, prio2, dbBatch, evBuf, crashed,
                   nextWd, kernelQ, disk, origin, imgFile, envVars>>

EventDeleteSelfNull(s) ==
    /\ DeleteSelfOn(s)
    /\ filesByWd[s][CurEvent(s).wd] = 0
    /\ NullDeref(s)

HandleInotifyEvent(s) ==
    \/ EventCreateSkipped(s) \/ EventCreateImage(s)
    \/ EventCreateImageGone(s) \/ EventCreateUntracked(s)
    \/ EventCloseWriteImage(s) \/ EventCloseWriteFile(s)
    \/ EventCloseWriteNull(s)
    \/ EventDeleteSelf(s) \/ EventDeleteSelfNull(s)

(***************************************************************************)
(* The FileManager operations RSession calls between loop passes          *)
(***************************************************************************)
\* RSession runs R and calls these on the session thread, so only between
\* callbacks.  Every environment step counts against MaxEnv.
EnvStep(s) ==
    /\ LoopIdle(s)
    /\ envSteps < MaxEnv
    /\ envSteps' = envSteps + 1

\* suspendNotifyEvents: throws "already suspended" when the bufferevent is
\* enabled, and otherwise disables what is already disabled.  Either way
\* delivery is unchanged; RSession sees suspension only if it returned.
SuspendNotifyEvents(s) ==
    /\ NotifyCalls
    /\ EnvStep(s)
    /\ suspended' = [suspended EXCEPT ![s] = IF readEnabled[s] THEN @
                                              ELSE TRUE]
    /\ UNCHANGED <<dbVars, recVars, loopVars, osVars, imgMade, generation,
                   readEnabled, phase>>

\* resumeNotifyEvents: throws "already enabled" when the bufferevent is
\* disabled; when it is enabled it calls bufferevent_disable, so the
\* descriptor is no longer read while RSession believes it resumed.
ResumeNotifyEvents(s) ==
    /\ NotifyCalls
    /\ EnvStep(s)
    /\ IF readEnabled[s]
          THEN /\ readEnabled' = [readEnabled EXCEPT ![s] = FALSE]
               /\ suspended' = [suspended EXCEPT ![s] = FALSE]
               /\ UNCHANGED phase
          ELSE UNCHANGED callVars
    /\ UNCHANGED <<dbVars, recVars, loopVars, osVars, imgMade, generation>>

\* Mutant: resetWatch never advances the batch.
ResetWatchNoIncrement(s) ==
    /\ EnvStep(s)
    /\ imageIds' = [imageIds EXCEPT ![s] = {}]
    /\ manuallyAdded' = [manuallyAdded EXCEPT ![s] = {}]
    /\ generation' = [generation EXCEPT ![s] = @ + 1]
    /\ UNCHANGED <<dbVars, filesById, fileVer, watchDesc, filesByWd,
                   pendingImages, sessionImageBatch, ignoreFS, ignoreDB,
                   loopVars, osVars, imgMade, callVars>>

\* Mutant: resetWatch advances the batch but keeps the image ids.
ResetWatchKeepsIds(s) ==
    /\ EnvStep(s)
    /\ sessionImageBatch' = [sessionImageBatch EXCEPT ![s] =
                               IF imageIds[s] # {} THEN @ + 1 ELSE @]
    /\ manuallyAdded' = [manuallyAdded EXCEPT ![s] = {}]
    /\ generation' = [generation EXCEPT ![s] = @ + 1]
    /\ UNCHANGED <<dbVars, filesById, fileVer, watchDesc, filesByWd,
                   pendingImages, imageIds, ignoreFS, ignoreDB, loopVars,
                   osVars, imgMade, callVars>>

\* resetWatch: a new batch if images were stored since the last reset;
\* forget the image ids and the manually added names.
ResetWatch(s) ==
    /\ EnvStep(s)
    /\ sessionImageBatch' = [sessionImageBatch EXCEPT ![s] =
                               IF imageIds[s] # {} THEN @ + 1 ELSE @]
    /\ imageIds' = [imageIds EXCEPT ![s] = {}]
    /\ manuallyAdded' = [manuallyAdded EXCEPT ![s] = {}]
    /\ generation' = [generation EXCEPT ![s] = @ + 1]
    /\ UNCHANGED <<dbVars, filesById, fileVer, watchDesc, filesByWd,
                   pendingImages, ignoreFS, ignoreDB, loopVars, osVars,
                   imgMade, callVars>>

\* checkWatch: the image ids and the batch id RSession reports for the
\* command that just ran.
CheckWatch(s) == <<imageIds[s], sessionImageBatch[s]>>

\* cleanupImageWatch with no pending image only clears the (empty) map.
CleanupNothingPending(s) ==
    /\ EnvStep(s)
    /\ pendingImages[s] = {}
    /\ UNCHANGED <<dbVars, recVars, loopVars, osVars, imgMade, generation, callVars>>

\* cleanupImageWatch walks the pending captures in descriptor order; all
\* name the one image path.  fs::file_size throws when the file is gone
\* (the comparison with -1 never fails), which ends the walk before the
\* map is cleared.
CleanupImageGone(s) ==
    /\ EnvStep(s)
    /\ pendingImages[s] # {} /\ imgFile[s] = "none"
    /\ UNCHANGED <<dbVars, recVars, loopVars, osVars, imgMade, generation, callVars>>

\* An empty file: insertImage stores nothing, each watch is removed, the
\* map is cleared.
CleanupImageEmpty(s) ==
    /\ EnvStep(s)
    /\ pendingImages[s] # {} /\ imgFile[s] = "empty"
    /\ pendingImages' = [pendingImages EXCEPT ![s] = {}]
    /\ kw' = [kw EXCEPT ![s] = [p \in Paths |->
                 IF kw[s][p] \in pendingImages[s] THEN 0 ELSE kw[s][p]]]
    /\ kernelWake' = [kernelWake EXCEPT ![s] =
                        @ \/ \E w \in pendingImages[s] : Watching(s, w)]
    /\ UNCHANGED <<dbVars, filesById, fileVer, watchDesc, filesByWd,
                   imageIds, sessionImageBatch, manuallyAdded, ignoreFS,
                   ignoreDB, loopVars, nextWd, kernelQ, disk, origin,
                   imgFile, imgMade, generation, callVars>>

\* A written file: the first capture stores it (removing the file) and
\* rm_watches its descriptor; a second capture then finds no file and
\* throws, so the map is cleared only if there was one.  A failed insert
\* throws at once.
CleanupImageFull(s) ==
    /\ EnvStep(s)
    /\ pendingImages[s] # {} /\ imgFile[s] = "full"
    /\ LET w == Min(pendingImages[s]) IN
       \/ /\ ImageInserted(s)
          /\ pendingImages' = [pendingImages EXCEPT ![s] =
                                 IF @ = {w} THEN {} ELSE @]
          /\ kw' = [kw EXCEPT ![s] = [Unwatched(s, w) EXCEPT ![ImgName] = 0]]
       \/ /\ FALSE \in StatementOK
          /\ ImageInsertFails(s)
          /\ UNCHANGED <<pendingImages, kw>>
    /\ UNCHANGED <<db, filesById, fileVer, watchDesc, filesByWd,
                   manuallyAdded, ignoreDB, prio2, fsBatch, dbBatch, evBuf,
                   crashed, nextWd, kernelQ, disk, origin, imgMade,
                   generation, callVars>>

CleanupImageWatch(s) ==
    \/ CleanupNothingPending(s) \/ CleanupImageGone(s)
    \/ CleanupImageEmpty(s) \/ CleanupImageFull(s)

\* findOrAddFile of a name no record has: insertDBFile (which stores
\* nothing) and remember the name so its IN_CREATE is skipped.
FindOrAddFile(s) ==
    /\ EnvStep(s)
    /\ manuallyAdded' = [manuallyAdded EXCEPT ![s] = @ \cup {NewName}]
    /\ UNCHANGED <<dbVars, filesById, fileVer, watchDesc, filesByWd,
                   pendingImages, imageIds, sessionImageBatch, ignoreFS,
                   ignoreDB, loopVars, osVars, imgMade, generation, callVars>>

(***************************************************************************)
(* The environment: R and the user in the working directory, and other    *)
(* clients of the database.  Not code of this repository.                 *)
(***************************************************************************)
EnvUnchanged == UNCHANGED <<imgMade, generation, callVars>>

\* R or the user writes rcfile f (creating it if absent).
LocalWrite(s, f, c) ==
    /\ EnvStep(s)
    /\ disk' = [disk EXCEPT ![s][f] = c]
    /\ origin' = [origin EXCEPT ![s][f] = "local"]
    /\ kernelQ' = [kernelQ EXCEPT ![s] = @ \o WriteEvents(s, f)]
    /\ kernelWake' = [kernelWake EXCEPT ![s] = @ \/ kw[s][f] # 0]
    /\ UNCHANGED <<dbVars, recVars, loopVars, kw, nextWd, imgFile>>
    /\ EnvUnchanged

\* The user deletes rcfile f: its watch reports IN_DELETE_SELF and goes.
LocalDelete(s, f) ==
    /\ EnvStep(s)
    /\ disk[s][f] # NoFile
    /\ disk' = [disk EXCEPT ![s][f] = NoFile]
    /\ kernelQ' = [kernelQ EXCEPT ![s] =
                     IF kw[s][f] # 0 THEN Append(@, DeleteSelfEv(kw[s][f]))
                     ELSE @]
    /\ kw' = [kw EXCEPT ![s][f] = 0]
    /\ kernelWake' = [kernelWake EXCEPT ![s] = TRUE]
    /\ UNCHANGED <<dbVars, recVars, loopVars, nextWd, origin, imgFile>>
    /\ EnvUnchanged

\* R creates a file that is not an rcfile, or a dot file.
LocalCreateOther(s, n) ==
    /\ EnvStep(s)
    /\ kernelQ' = [kernelQ EXCEPT ![s] = Append(@, CreateEv(n))]
    /\ UNCHANGED <<dbVars, recVars, loopVars, kw, nextWd, kernelWake, disk,
                   origin, imgFile>>
    /\ EnvUnchanged

\* The graphics device opens a new image file ...
ImageCreate(s) ==
    /\ EnvStep(s)
    /\ imgFile[s] = "none" /\ imgMade[s] < MaxImages
    /\ imgFile' = [imgFile EXCEPT ![s] = "empty"]
    /\ imgMade' = [imgMade EXCEPT ![s] = @ + 1]
    /\ kernelQ' = [kernelQ EXCEPT ![s] = Append(@, CreateEv(ImgName))]
    /\ UNCHANGED <<dbVars, recVars, loopVars, kw, nextWd, kernelWake, disk,
                   origin, generation, callVars>>

\* ... and closes it, with the plot written or still empty.
ImageClose(s, full) ==
    /\ EnvStep(s)
    /\ imgFile[s] # "none"
    /\ full \/ imgFile[s] = "empty"
    /\ imgFile' = [imgFile EXCEPT ![s] = IF full THEN "full" ELSE @]
    /\ kernelQ' = [kernelQ EXCEPT ![s] =
                     IF kw[s][ImgName] # 0
                     THEN Append(@, CloseWriteEv(kw[s][ImgName])) ELSE @]
    /\ UNCHANGED <<dbVars, recVars, loopVars, kw, nextWd, kernelWake, disk,
                   origin>>
    /\ EnvUnchanged

ExternalStep ==
    /\ envSteps < MaxEnv
    /\ envSteps' = envSteps + 1
    /\ UNCHANGED <<pqNotes, imgRows, imgSeq, recVars, loopVars, osVars, imgMade,
                   generation, callVars>>

\* Another client adds file f to the workspace; the trigger notifies 'i'.
ExternalInsert(f) ==
    /\ ExternalStep
    /\ db[f].state = "new"
    /\ db' = [db EXCEPT ![f] = [state |-> "live", version |-> 1,
                                  data |-> InitData]]
    /\ Notify([tag |-> "i", id |-> f, ws |-> WspaceId])

\* Another client saves new content c of file f.
ExternalUpdate(f, c) ==
    /\ OtherWriters
    /\ ExternalStep
    /\ db[f].state = "live" /\ db[f].version < MaxVersion
    /\ db' = [db EXCEPT ![f] = [state |-> "live", version |-> @.version + 1,
                                  data |-> c]]
    /\ Notify([tag |-> "u", id |-> f, ws |-> WspaceId])

\* Another client deletes file f.
ExternalDelete(f) ==
    /\ ExternalStep
    /\ db[f].state = "live"
    /\ db' = [db EXCEPT ![f].state = "deleted"]
    /\ Notify([tag |-> "d", id |-> f, ws |-> WspaceId])

\* R or the user deletes the image file.  The capture watch (close events
\* only) just goes away; the root reports IN_DELETE.
ImageRemove(s) ==
    /\ ImageRemovals
    /\ EnvStep(s)
    /\ imgFile[s] # "none"
    /\ imgFile' = [imgFile EXCEPT ![s] = "none"]
    /\ kw' = [kw EXCEPT ![s][ImgName] = 0]
    /\ kernelWake' = [kernelWake EXCEPT ![s] = TRUE]
    /\ UNCHANGED <<dbVars, recVars, loopVars, nextWd, kernelQ, disk, origin>>
    /\ EnvUnchanged

(***************************************************************************)
(* Start-up: FileManager::initFileManager, before the loop runs            *)
(***************************************************************************)
\* Impl::connect: DBFileSource::loadFiles("where wspaceid = ...") writes
\* every live row of the workspace into the working directory; a failed
\* query is logged and loads nothing.  No inotify descriptor exists yet,
\* so the writes raise no events.
Connect(s) ==
    /\ phase[s] = "start"
    /\ \E ok \in StatementOK :
         LET L == IF ok THEN {f \in FileIds : db[f].state = "live"} ELSE {}
         IN  /\ filesById' = [filesById EXCEPT ![s] = L]
             /\ fileVer' = [fileVer EXCEPT ![s] = [f \in FileIds |->
                              IF f \in L THEN db[f].version ELSE @[f]]]
             /\ disk' = [disk EXCEPT ![s] = [f \in FileIds |->
                           IF f \in L THEN db[f].data ELSE @[f]]]
    /\ phase' = [phase EXCEPT ![s] = "connected"]
    /\ UNCHANGED <<dbVars, watchDesc, filesByWd, pendingImages, imageIds,
                   sessionImageBatch, manuallyAdded, ignoreFS, ignoreDB,
                   loopVars, kw, nextWd, kernelQ, kernelWake, origin, imgFile,
                   imgMade, generation, envSteps, readEnabled, suspended>>

\* Impl::setupInotify: watch the root (wd 1), then watchFile for every
\* record in ascending id order (each file was just written, so stat
\* succeeds), and enable the inotify bufferevent.
SetupInotify(s) ==
    /\ phase[s] = "connected"
    /\ kw' = [kw EXCEPT ![s] = [p \in Paths |->
                 IF p \in filesById[s] THEN SetupWd(filesById[s], p) ELSE 0]]
    /\ watchDesc' = [watchDesc EXCEPT ![s] = [f \in FileIds |->
                        IF f \in filesById[s] THEN SetupWd(filesById[s], f)
                        ELSE 0]]
    /\ filesByWd' = [filesByWd EXCEPT ![s] = [w \in Wds |->
                        IF \E f \in filesById[s] : SetupWd(filesById[s], f) = w
                        THEN CHOOSE f \in filesById[s] :
                               SetupWd(filesById[s], f) = w
                        ELSE 0]]
    /\ nextWd' = [nextWd EXCEPT ![s] = Cardinality(filesById[s]) + 2]
    /\ readEnabled' = [readEnabled EXCEPT ![s] = TRUE]
    /\ phase' = [phase EXCEPT ![s] = "watching"]
    /\ UNCHANGED <<dbVars, filesById, fileVer, pendingImages, imageIds,
                   sessionImageBatch, manuallyAdded, ignoreFS, ignoreDB,
                   loopVars, kernelQ, kernelWake, disk, origin, imgFile,
                   imgMade, generation, envSteps, suspended>>

\* initFileManager: DBResult(dbcon_, "listen rcfile"), whose status nobody
\* checks, then the persistent priority-2 read event on the socket.  From
\* here RSession runs the loop; a failed LISTEN leaves it running deaf.
Listen(s) ==
    /\ phase[s] = "watching"
    /\ \E ok \in StatementOK :
         phase' = [phase EXCEPT ![s] = IF ok THEN "listening" ELSE "unlistened"]
    /\ UNCHANGED <<dbVars, recVars, loopVars, osVars, imgMade, generation,
                   envSteps, readEnabled, suspended>>

InitFileManager(s) == Connect(s) \/ SetupInotify(s) \/ Listen(s)

(***************************************************************************)
(* The specification                                                       *)
(***************************************************************************)
\* What session s's own thread does: initFileManager, then its loop and
\* the callbacks.
SessionStep(s) ==
    \/ InitFileManager(s)
    \/ InotifyDeferred(s) \/ InotifyRead(s) \/ Poll(s)
    \/ HandleIgnoreFSNotesOff(s) \/ HandleDBNotifications(s)
    \/ ProcessDBNotification(s) \/ HandleInotifyEvent(s)

SessionOperation(s) ==
    \/ ResetWatch(s) \/ CleanupImageWatch(s) \/ FindOrAddFile(s)
    \/ SuspendNotifyEvents(s) \/ ResumeNotifyEvents(s)

Environment ==
    \/ \E s \in Sessions :
          \/ \E f \in FileIds, c \in Contents : LocalWrite(s, f, c)
          \/ \E f \in FileIds : LocalDelete(s, f)
          \/ \E n \in {NewName, DotName} : LocalCreateOther(s, n)
          \/ ImageCreate(s)
          \/ \E full \in BOOLEAN : ImageClose(s, full)
          \/ ImageRemove(s)
    \/ \E f \in FileIds : ExternalInsert(f) \/ ExternalDelete(f)
    \/ \E f \in FileIds, c \in Contents : ExternalUpdate(f, c)

Next ==
    \/ \E s \in Sessions : SessionStep(s) \/ SessionOperation(s)
    \/ Environment

\* libevent keeps dispatching while a session's process lives: each
\* session's loop and callbacks are weakly fair.  R, the user and other
\* clients need not act.
Fairness == \A s \in Sessions : WF_vars(SessionStep(s))

Spec == Init /\ [][Next]_vars /\ Fairness

\* The events session s has yet to dispatch: in the kernel queue, in the
\* bufferevent, and what is left of the batch being handled.
Unhandled(s) ==
    LET q == fsBatch[s] \o evBuf[s] \o kernelQ[s] IN {q[i] : i \in DOMAIN q}

\* Model bound: watch descriptors and versions stay within their ranges.
StateBound ==
    /\ \A s \in Sessions : nextWd[s] <= MaxWd
    /\ \A f \in FileIds : db[f].version <= MaxVersion
    /\ \A s \in Sessions : \A f \in FileIds : fileVer[s][f] <= MaxVersion


(***************************************************************************)
(* Properties                                                              *)
(***************************************************************************)
\* Every capture in pendingImagesByWatchDesc_ is the live watch on the image
\* file, which is still on disk: insertImage removes the file only on the
\* path where stopImageWatch (or cleanupImageWatch's clear) then forgets
\* the capture, and a failed insert keeps both.
PendingImageWatched ==
    \A s \in Sessions :
        Live(s) => \A w \in pendingImages[s] :
                      imgFile[s] # "none" /\ kw[s][ImgName] = w

\* checkWatch reports a command's images under one batch: images stored
\* between the same two resetWatch calls share sessionImageBatch_, and
\* images of different commands never do (resetWatch advances the batch
\* when imageIds_ is non-empty).
BatchPerCommand ==
    \A r1, r2 \in imgRows :
        r1.sess = r2.sess => (r1.gen = r2.gen <=> r1.batch = r2.batch)

\* The rcfile table, as updateDBFile, removeDBFile and the other clients
\* change it, implements FileStore: every committed content update bumps
\* the version by exactly one.
FS == INSTANCE FileStore WITH Files <- FileIds, store <- db

StoreRefinement == FS!Spec

\* ignoreFSNotifications() mutes inotify only for a window: once the flag
\* is set, handleIgnoreFSNotesOff eventually clears it (unless the process
\* died or the model bound cut the behaviour off).
EchoWindowCloses ==
    \A s \in Sessions :
        ignoreFS[s] ~> (~ignoreFS[s] \/ crashed[s] \/ ~StateBound)

\* The database socket is not starved: initFileManager registers its read
\* event at priority 2, below the inotify bufferevent, yet every
\* notification that reaches the socket of a live session is eventually
\* read off it, by PQconsumeInput in handleDBNotifications or by the
\* PQexec of a statement (the inotify stream the session sees is finite).
NotificationConsumed ==
    \A s \in Sessions :
        dbNotes[s] # <<>> ~> (dbNotes[s] = <<>> \/ crashed[s] \/ ~StateBound)

\* Every watched, tracked file can be found from its watch descriptor:
\* filesByWatchDesc_ maps the descriptor of each watched record back to
\* it, so an IN_CLOSE_WRITE or IN_DELETE_SELF on it reaches its record.
WatchIndexConsistent ==
    \A s \in Sessions : Live(s) =>
        \A f \in filesById[s] : kw[s][f] # 0 => filesByWd[s][kw[s][f]] = f

\* Echo suppression (spec section 4.4): the content a session itself
\* wrote from the database is never uploaded back by updateDBFile; only
\* content written locally is.
NoEchoUpload ==
    [][\A s \in Sessions, f \in FileIds :
          (fileVer'[s][f] = fileVer[s][f] + 1 /\ db'[f] # db[f])
              => origin[s][f] = "local"]_vars

\* A zero-byte image is treated as not yet written (spec section 4.5): the
\* inotify handler gives up the capture of an image that is still on disk
\* only by storing it (which removes the file).
ImageCaptureKept ==
    [][\A s \in Sessions :
          (pendingImages'[s] \subseteq pendingImages[s]
           /\ pendingImages'[s] # pendingImages[s] /\ imgFile[s] # "none"
           /\ envSteps' = envSteps)
              => imgFile'[s] = "none"]_vars

\* cleanupImageWatch flushes every orphan capture at the session boundary
\* (spec section 4.5: a pending capture is destroyed by its close-write
\* or by the flush), stored if its file exists, dropped if not.
CleanupFlushesAll ==
    [][\A s \in Sessions : CleanupImageWatch(s) => pendingImages'[s] = {}]_vars

\* Nothing is left to do: every live session has drained its kernel
\* queue, bufferevent, batches and socket and its flag is clear.  What
\* libpq holds in its notify list wakes nobody.
Quiescent ==
    \A s \in Sessions :
        crashed[s] \/
        /\ kernelQ[s] = <<>> /\ ~kernelWake[s] /\ evBuf[s] = <<>>
        /\ fsBatch[s] = <<>> /\ dbBatch[s] = <<>> /\ dbNotes[s] = <<>>
        /\ prio2[s] = {} /\ ~timerArmed[s] /\ ~ignoreFS[s]

\* Convergence (spec section 8): once every session is idle, each file a
\* live session tracks holds the content of its database row.
Converged ==
    Quiescent =>
        \A s \in Sessions : Live(s) =>
            \A f \in filesById[s] :
                db[f].state = "live" => disk[s][f] = db[f].data

\* A local edit of a tracked file is eventually uploaded by updateDBFile
\* (or superseded: reloaded from the database, deleted, or the process
\* died), however close it falls to a database-triggered write.
LocalEditUploaded ==
    \A s \in Sessions, f \in FileIds :
        (/\ Live(s) /\ f \in filesById[s] /\ origin[s][f] = "local"
         /\ db[f].state = "live" /\ disk[s][f] # db[f].data)
        ~> \/ disk[s][f] = db[f].data \/ origin[s][f] = "db"
           \/ crashed[s] \/ db[f].state # "live" \/ f \notin filesById[s]
           \/ ~StateBound

\* Every close-write or delete-self event the session has yet to handle is
\* on a descriptor handleInotifyEvent resolves: a pending image capture or
\* an entry of filesByWatchDesc_.  Any other such event makes
\* filesByWatchDesc_[event->wd] a null pointer that is then dereferenced.
EventsResolvable ==
    \A s \in Sessions : Live(s) =>
        \A e \in Unhandled(s) :
            e.kind # "create" =>
                e.wd \in pendingImages[s] \/ filesByWd[s][e.wd] # 0

\* What checkWatch hands RSession is true of the database: every image id
\* it reports is a sessionimage row of this session stored under the batch
\* id it reports, across insertImage, cleanupImageWatch and resetWatch.
CheckWatchTruthful ==
    \A s \in Sessions :
        LET report == CheckWatch(s)
        IN  \A id \in report[1] :
                \E r \in imgRows : r.id = id /\ r.sess = s /\ r.batch = report[2]

=============================================================================
