---------------------------- MODULE ConfigStore -----------------------------
(***************************************************************************)
(* The configuration page: browsers read and save bhtune.toml through a    *)
(* running server while an editor may change the same file, disk calls     *)
(* may fail, and the machine may lose power between any two of them.       *)
(*                                                                         *)
(* The server keeps one LoadedConfigStore behind a readers-writer lock.  A *)
(* save holds the lock for writing from its first check to its answer, but *)
(* the lock says nothing to the editor: the save compares the file with    *)
(* the loaded bytes, writes and flushes a sibling temporary file, copies   *)
(* the file to a backup, renames the temporary file over it, and syncs the *)
(* directory where it can, and the editor's steps fall between these.      *)
(*                                                                         *)
(* A text is a file's contents: whether it is TOML at all, the settings    *)
(* and comments the page does not edit (site), and the edited keys, None   *)
(* where a key is absent.                                                  *)
(***************************************************************************)
EXTENDS StartupConfig, TLC

CONSTANTS
    Client,         \* browser tabs
    EditorTexts,    \* what the editor may leave in the file
    Updates,        \* bodies of PUT /api/config, without the revision
    Env,            \* the server's environment variables
    Resolutions,    \* where the path may come from
    MaxTomlInteger, \* i64::MAX
    MaxEdits, MaxPuts, MaxFaults, MaxCrashes

\* The settings of a file that has none of them.
NoSite == [mode |-> None, demo |-> <<>>, bind |-> None, origin |-> None,
           proxy |-> None, templates |-> None]

\* BhtuneConfig, with an absent key as None, or no file at all.
Tunings == [TuningKeys -> Nat \cup {None}]
Texts == [toml : BOOLEAN, site : {NoSite} \cup {t.site : t \in EditorTexts \ {None}},
          allow : BOOLEAN \cup {None}, retention : Nat \cup {None}, tuning : Tunings]

\* UpdateConfigRequest; a body without [tuning] has None.
Bodies == [allow : BOOLEAN, retention : Nat \cup {None}, tuning : Tunings \cup {None}]

ASSUME ConfigStoreAssumption == None \notin Client

ASSUME TextAssumption ==
    /\ None \notin Tunings \cup Texts
    /\ EditorTexts \subseteq Texts \cup {None}
    /\ Updates \subseteq Bodies

VARIABLES
    resolution, \* "explicit", "discovered" or "none"; never changes
    disk,       \* the text of bhtune.toml, None when there is no file
    undo,       \* what a power failure may bring back: a set of [text, drift]
    syncable,   \* whether the directory of the file can be synced
    backups,    \* the texts copied to a backup file
    temp,       \* the temporary file: [text, flushed], text None when none
    store,      \* the LoadedConfigStore
    up,         \* whether the server runs
    writer,     \* the client whose save holds the lock, None when free
    pc,         \* per client, where its PUT is
    req,        \* per client, the body of its PUT
    view,       \* per client, the last response it was shown
    answer,     \* per client, how its last PUT ended
    drift,      \* "none", "edited", "slipped" or "late": see EditorWrites
    acked,      \* the text last answered as saved and not replaced since
    fresh,      \* the clients that reloaded since the file last changed
    edits, puts, faults, crashes

counters == <<edits, puts, faults, crashes>>
clients  == <<pc, req, view, answer>>
files    == <<disk, undo, syncable, backups, temp>>
vars == <<resolution, files, store, up, writer, clients, drift, acked, fresh, counters>>

-----------------------------------------------------------------------------
(* Texts.                                                                  *)

\* An empty document, which is what a missing file is patched as.
EmptyText == [toml |-> TRUE, site |-> NoSite, allow |-> None, retention |-> None,
              tuning |-> NoTuning]

\* A file whose bytes never reached the disk.
TornText == [EmptyText EXCEPT !.toml = FALSE]

\* parse_config_contents: a retention of 0 days is refused by the parser,
\* values of [tuning] are not looked at.
Parses(text) == text.toml /\ text.retention # 0 /\ DemoTableParses(text.site.demo)

\* revision_token_for_raw: the length and the hash of the contents, taken to
\* tell any two texts apart.
Revision(text) == [present |-> text # None, of |-> text]

\* optional_u64_to_toml_integer
FitsToml(tuning) == \A k \in TuningKeys : tuning[k] # None => tuning[k] <= MaxTomlInteger

\* Mutant of PatchTuning: a cleared key stays in the document.
PatchTuningKeepingCleared(tuning, update) ==
    [k \in TuningKeys |-> IF update[k] = None THEN tuning[k] ELSE update[k]]

\* patch_optional_tuning_value for the five keys: None removes the key.
PatchTuning(tuning, update) == [k \in TuningKeys |-> update[k]]

\* patch_config_contents: everything the page does not edit stays.
Patch(text, update) ==
    [(IF text = None THEN EmptyText ELSE text) EXCEPT
        !.allow = update.allow, !.retention = update.retention,
        !.tuning = PatchTuning(@, update.tuning)]

\* patch_config_policy: the update and the patched document are validated.
PatchIsValid(text, update) ==
    /\ TuningIsValid(update.tuning, FALSE)
    /\ FitsToml(update.tuning)
    /\ Parses(Patch(text, update))
    /\ TuningIsValid(Patch(text, update).tuning, FALSE)

-----------------------------------------------------------------------------
(* The loaded store.                                                       *)

\* The store of a file that is not there.
DefaultStore == [raw |-> None, allow |-> None, retention |-> None, tuning |-> NoTuning]

\* load_config_store_from_resolution
Load(text) ==
    IF resolution = "none" \/ text = None THEN DefaultStore
    ELSE [raw |-> text, allow |-> text.allow, retention |-> text.retention,
          tuning |-> text.tuning]

CanLoad(text) ==
    \/ resolution = "none"
    \/ IF text = None THEN resolution = "discovered" ELSE Parses(text)

\* The store save_config_store returns: what the page edits is taken from the
\* update, not from the patched document.
SavedStore(text, update) ==
    [raw |-> text, allow |-> update.allow, retention |-> update.retention,
     tuning |-> update.tuning]

SiteOf(text) == IF resolution = "none" \/ text = None THEN NoSite ELSE text.site

\* response_from_store: the file's values and the ones in force.
Response(s) ==
    [revision  |-> Revision(s.raw),
     allow     |-> IF s.allow = None THEN TRUE ELSE s.allow,
     retention |-> IF Env.retention # None THEN Env.retention ELSE s.retention,
     tuning    |-> ResolveTuning(s.tuning)]

-----------------------------------------------------------------------------
(* The server process.                                                     *)

NoRequest == [revision |-> Revision(None), allow |-> TRUE, retention |-> None,
              tuning |-> NoTuning]
NoTemp == [text |-> None, flushed |-> FALSE]
Durable == {}

CanStart == CanLoad(disk) /\ StartupAccepts(Env, SiteOf(disk))

\* build_server: a file that does not load, or that a step of the startup
\* refuses, ends the process.
Start ==
    /\ ~up /\ CanStart
    /\ up' = TRUE
    /\ store' = Load(disk)
    /\ drift' = "none"
    /\ acked' = IF acked = disk THEN acked ELSE None
    /\ UNCHANGED <<resolution, files, writer, clients, fresh, counters>>

\* The process dies, or the machine does.  Contents that were not flushed are
\* lost, and the renames since the directory was last synced may be undone.
\* The backups, which are never flushed, may be lost with the machine too:
\* backups says what was copied, and no action reads it.
Crash ==
    /\ up /\ crashes < MaxCrashes
    /\ crashes' = crashes + 1
    /\ up' = FALSE /\ writer' = None /\ temp' = NoTemp
    /\ pc' = [c \in Client |-> "idle"]
    /\ req' = [c \in Client |-> NoRequest]
    /\ \/ UNCHANGED <<disk, drift, fresh>>
       \/ \E u \in undo : disk' = u.text /\ drift' = u.drift /\ fresh' = {}
    /\ undo' = Durable
    /\ UNCHANGED <<resolution, syncable, backups, store, view, answer, acked, edits, puts, faults>>

\* GET /api/config answers from the loaded store, and waits for a save.
GetConfig(c) ==
    /\ up /\ ResolveServerMode(Env, SiteOf(store.raw)) = "full"
    /\ writer = None /\ pc[c] = "idle"
    /\ view' = [view EXCEPT ![c] = Response(store)]
    /\ fresh' = fresh \cup {c}
    /\ UNCHANGED <<resolution, files, store, up, writer, pc, req, answer, drift, acked, counters>>

Answer(c, how) == answer' = [answer EXCEPT ![c] = how]
Goto(c, where) == pc' = [pc EXCEPT ![c] = where]

\* The end of a save: the lock is released.
Fail(c, how) ==
    /\ Goto(c, "idle") /\ Answer(c, how) /\ writer' = None
    /\ req' = [req EXCEPT ![c] = NoRequest]

\* PUT /api/config with the revision the client was last shown.
PutConfig(c) ==
    /\ up /\ pc[c] = "idle" /\ view[c] # None /\ puts < MaxPuts
    /\ puts' = puts + 1
    /\ \E u \in Updates :
          IF u.retention = 0
          THEN Answer(c, "bad_request") /\ UNCHANGED <<pc, req>>
          ELSE /\ req' = [req EXCEPT ![c] = [revision |-> view[c].revision, allow |-> u.allow,
                                           retention |-> u.retention, tuning |-> u.tuning]]
               /\ Goto(c, "lock") /\ Answer(c, "none")
    /\ UNCHANGED <<resolution, files, store, up, writer, view, drift, acked, fresh,
                   edits, faults, crashes>>

\* A body without [tuning] keeps the loaded one.
UpdateOf(r, s) == [allow |-> r.allow, retention |-> r.retention,
                   tuning |-> IF r.tuning = None THEN s.tuning ELSE r.tuning]

RevisionMatches(c) == Revision(store.raw) = req[c].revision

\* The checks made under the lock before the file is touched.
CheckRequest(c) ==
    /\ pc[c] = "lock" /\ writer = None
    /\ LET u == UpdateOf(req[c], store)
       IN  IF ~TuningIsValid(u.tuning, FALSE) THEN Fail(c, "bad_request")
           ELSE IF ~RevisionMatches(c) THEN Fail(c, "stale")
           ELSE IF resolution = "none" THEN Fail(c, "error")
           ELSE Goto(c, "compare") /\ writer' = c /\ UNCHANGED <<req, answer>>
    /\ UNCHANGED <<resolution, files, store, up, view, drift, acked, fresh, counters>>

\* The directory goes, or no longer syncs.
DirectoryFails ==
    /\ syncable /\ syncable' = FALSE
    /\ UNCHANGED <<resolution, disk, undo, backups, temp, store, up, writer, clients, drift,
                   acked, fresh, counters>>

\* A disk call that fails.
Faulty == faults < MaxFaults /\ faults' = faults + 1

\* Mutant of DiskMatches: the file is not compared with what was loaded.
DiskNotCompared == TRUE

DiskMatches == disk = store.raw

\* save_config_store up to the first write.  What was edited so far was
\* before the comparison.
CompareDisk(c) ==
    LET refused == \/ store.raw = None /\ resolution = "explicit"
                   \/ ~PatchIsValid(store.raw, UpdateOf(req[c], store))
    IN  /\ pc[c] = "compare"
        /\ \/ Faulty /\ Fail(c, "error") /\ UNCHANGED drift
           \/ ~DiskMatches /\ Fail(c, "changed") /\ UNCHANGED <<drift, faults>>
           \/ DiskMatches /\ refused /\ Fail(c, "error") /\ UNCHANGED <<drift, faults>>
           \/ /\ DiskMatches /\ ~refused /\ Goto(c, "write")
              /\ drift' = IF drift = "none" THEN "none" ELSE "edited"
              /\ UNCHANGED <<req, answer, writer, faults>>
        /\ UNCHANGED <<resolution, files, store, up, view, acked, fresh, edits, puts, crashes>>

\* create_temp_file and write_all; a file that could not be written is removed.
WriteTemp(c) ==
    /\ pc[c] = "write"
    /\ \/ Faulty /\ Fail(c, "error") /\ UNCHANGED temp
       \/ /\ temp' = [text |-> Patch(store.raw, UpdateOf(req[c], store)), flushed |-> FALSE]
          /\ Goto(c, "flush")
          /\ UNCHANGED <<req, answer, writer, faults>>
    /\ UNCHANGED <<resolution, disk, undo, syncable, backups, store, up, view, drift, acked, fresh,
                   edits, puts, crashes>>

\* sync_all of the temporary file.
FlushTemp(c) ==
    /\ pc[c] = "flush"
    /\ \/ Faulty /\ Fail(c, "error") /\ temp' = NoTemp
       \/ /\ temp' = [temp EXCEPT !.flushed = TRUE]
          /\ Goto(c, "backup")
          /\ UNCHANGED <<req, answer, writer, faults>>
    /\ UNCHANGED <<resolution, disk, undo, syncable, backups, store, up, view, drift, acked, fresh,
                   edits, puts, crashes>>

\* The backup is a copy of whatever the file holds by now.
CopyBackup(c) ==
    /\ pc[c] = "backup"
    /\ \/ disk # None /\ Faulty /\ Fail(c, "error") /\ temp' = NoTemp /\ UNCHANGED backups
       \/ /\ backups' = IF disk = None THEN backups ELSE backups \cup {disk}
          /\ Goto(c, "replace")
          /\ UNCHANGED <<req, answer, writer, temp, faults>>
    /\ UNCHANGED <<resolution, disk, undo, syncable, store, up, view, drift, acked, fresh,
                   edits, puts, crashes>>

\* The rename.  Until the directory is synced a power failure may undo it,
\* and an unflushed file is torn.
Replace(c) ==
    /\ pc[c] = "replace"
    /\ \/ /\ Faulty /\ Fail(c, "error") /\ temp' = NoTemp
          /\ UNCHANGED <<disk, undo, drift, acked, fresh>>
       \/ /\ disk' = temp.text
          /\ undo' = undo \cup {IF temp.flushed THEN [text |-> disk, drift |-> drift]
                               ELSE [text |-> TornText, drift |-> "none"]}
          /\ temp' = NoTemp /\ drift' = "none" /\ acked' = None /\ fresh' = {}
          /\ Goto(c, "sync")
          /\ UNCHANGED <<req, answer, writer, faults>>
    /\ UNCHANGED <<resolution, syncable, backups, store, up, view, edits, puts, crashes>>

\* Mutant of SyncDir: the directory is never synced.
SkipSync(c) ==
    /\ pc[c] = "sync"
    /\ Goto(c, "publish")
    /\ UNCHANGED <<resolution, files, store, up, writer, req, view, answer, drift, acked, fresh, counters>>

\* sync_parent_dir.  Outside Unix, for a path without a parent (`--config
\* bhtune.toml`), for a directory that cannot be opened and after a sync that
\* failed the save goes on all the same.
SyncDir(c) ==
    /\ pc[c] = "sync"
    /\ undo' = IF syncable THEN Durable ELSE undo
    /\ Goto(c, "publish")
    /\ UNCHANGED <<resolution, disk, syncable, backups, temp, store, up, writer, req, view, answer,
                   drift, acked, fresh, counters>>

\* The rest of put_config: the store is replaced and the client is answered.
Publish(c) ==
    /\ pc[c] = "publish"
    /\ LET u == UpdateOf(req[c], store)
           saved == SavedStore(Patch(store.raw, u), u)
       IN  /\ store' = saved
           /\ view' = [view EXCEPT ![c] = Response(saved)]
           /\ acked' = IF drift = "none" THEN saved.raw ELSE acked
    /\ Fail(c, "saved")
    /\ UNCHANGED <<resolution, files, up, drift, fresh, counters>>

\* The editor saves or removes the file: since it was loaded, in particular
\* after the comparison of the save under way ("slipped"), in particular after
\* its backup copy ("late").
EditorWrites(text) ==
    /\ edits < MaxEdits /\ edits' = edits + 1
    /\ text # disk
    /\ disk' = text /\ undo' = Durable
    /\ drift' = IF \E c \in Client : pc[c] = "replace" THEN "late"
                ELSE IF \E c \in Client : pc[c] \in {"write", "flush", "backup"} THEN "slipped"
                ELSE "edited"
    /\ acked' = None /\ fresh' = {}
    /\ UNCHANGED <<resolution, syncable, backups, temp, store, up, writer, clients, puts, faults,
                   crashes>>

Init ==
    /\ resolution \in Resolutions
    /\ disk \in EditorTexts
    /\ syncable \in BOOLEAN
    /\ undo = Durable /\ backups = {} /\ temp = NoTemp
    /\ store = DefaultStore /\ up = FALSE /\ writer = None
    /\ pc = [c \in Client |-> "idle"]
    /\ req = [c \in Client |-> NoRequest]
    /\ view = [c \in Client |-> None]
    /\ answer = [c \in Client |-> "none"]
    /\ drift = "edited" /\ acked = None /\ fresh = {}
    /\ edits = 0 /\ puts = 0 /\ faults = 0 /\ crashes = 0

Save(c) ==
    \/ CheckRequest(c) \/ CompareDisk(c) \/ WriteTemp(c) \/ FlushTemp(c)
    \/ CopyBackup(c) \/ Replace(c) \/ SyncDir(c) \/ Publish(c)

Next ==
    \/ Start \/ Crash \/ DirectoryFails
    \/ \E c \in Client : GetConfig(c) \/ PutConfig(c) \/ Save(c)
    \/ \E text \in EditorTexts : EditorWrites(text)

Spec == Init /\ [][Next]_vars

-----------------------------------------------------------------------------
(* Properties.                                                             *)

\* Nothing is overwritten unseen: what the rename replaces is the text whose
\* revision the saving client was shown (so no other tab's save is lost), or
\* an edit that came after the comparison of this save with the file, and such
\* an edit was copied to a backup unless it also came after the copy.
OverwriteIsAccountedFor ==
    [][\A c \in Client :
          (pc[c] = "replace" /\ pc'[c] = "sync") =>
              \/ disk = None
              \/ Revision(disk) = req[c].revision
              \/ drift = "slipped" /\ disk \in backups
              \/ drift = "late"]_vars

\* Between saves the store is exactly what a fresh load of the file would
\* give, although a save derives it from the request, and a file that the
\* server wrote last, whole or interrupted by a crash, starts it again.
StoreIsTheFile ==
    drift = "none" =>
        /\ CanStart
        /\ (up /\ writer = None) => store = Load(disk)

\* A save the client was told of survives a power failure, as long as the
\* directory of the file can be synced.  Where it cannot, the client is told
\* the same, and a power failure may put back a text that a save had replaced:
\* never part of one, and one that was copied to a backup before, unless the
\* editor had written it after the copy.
AcknowledgedIsAccountedFor ==
    acked # None =>
        \/ disk = acked
        \/ ~syncable /\ ~up /\ (disk \in backups \cup {None} \/ drift = "late")

\* Refuted, see the README. docs/guides/web-ui/templates-and-
\* configuration.md:91 says of the 409 for an external edit: "reload, review
\* the newer configuration, and reapply the intended change".  A client that
\* reloaded after the last change of the file is not refused because the file
\* changed.
ReloadResolvesConflict ==
    [][\A c \in Client :
          (pc[c] = "compare" /\ answer'[c] = "changed") => c \notin fresh]_vars
=============================================================================
