-------------------------- MODULE PeripheryProofs ---------------------------
(***************************************************************************)
(* Safety of what surrounds a tune: the configuration page, the users of   *)
(* an opcda-bridge gateway, and the preflight with the start it foretells. *)
(* The three share no state, only the [tuning] table of TuningConfig.      *)
(***************************************************************************)
EXTENDS ConfigStore, OpcGateway, Preflight, TLAPS

-----------------------------------------------------------------------------
(* The configuration page, for any number of tabs, any editor, any         *)
(* requests and any bounds: what a save replaces is accounted for, an      *)
(* acknowledged save survives a power failure, and between saves the store *)
(* is what a load of the file would give.                                  *)
(*                                                                         *)
(* The first two rest on IInv, the third on StoreInv too.  The writer's    *)
(* lock makes the store and the writer's request stand still from the      *)
(* checks to the answer, so the text that the temporary file was patched   *)
(* from is the one whose revision was checked; whatever moves the file     *)
(* meanwhile leaves its mark in drift.                                     *)


\* Where a save holds the lock for writing.
Held == {"compare", "write", "flush", "backup", "replace", "sync", "publish"}

\* The text the save of client c writes.
Saved(c) == Patch(store.raw, UpdateOf(req[c], store))

TablesOK ==
    /\ pc = [c \in Client |-> pc[c]]
    /\ req = [c \in Client |-> req[c]]
    /\ drift \in {"none", "edited", "slipped", "late"}
    /\ \A u \in undo : u.drift \in {"none", "edited", "slipped", "late"}
    /\ temp = [text |-> temp.text, flushed |-> temp.flushed]

\* The lock belongs to the one client that is past the checks.
LockOK == \A c \in Client : pc[c] \in Held <=> writer = c

\* Clients are only served by a running server.
UpOK == \A c \in Client : pc[c] # "idle" => up

\* The revision that was checked is still the store's.
RevisionOK == \A c \in Client : pc[c] \in Held => Revision(store.raw) = req[c].revision

\* The file the save will replace, unless its drift says otherwise.
FileOK ==
    \A c \in Client :
        /\ pc[c] \in {"write", "flush", "backup", "replace"} /\ drift \in {"none", "edited"}
              => disk = store.raw
        /\ pc[c] = "replace" /\ drift # "late" => disk = None \/ disk \in backups
        /\ pc[c] \in {"sync", "publish"} /\ drift = "none" => disk = Saved(c)

\* The temporary file holds what the request asks for.
TempOK ==
    \A c \in Client :
        /\ pc[c] \in {"flush", "backup", "replace"} => temp.text = Saved(c)
        /\ pc[c] \in {"backup", "replace"} => temp.flushed

\* A rename that power loss can undo has not been acknowledged, unless its
\* directory could not be synced; what would come back was copied, or came late.
UndoOK ==
    /\ syncable /\ undo # {} => acked = None /\ \E c \in Client : pc[c] = "sync"
    /\ \A u \in undo : u.text \in backups \cup {None} \/ u.drift = "late"

\* The inductive invariant.
IInv ==
    /\ TablesOK /\ LockOK /\ UpOK /\ RevisionOK /\ FileOK /\ TempOK /\ UndoOK
    /\ AcknowledgedIsAccountedFor

-----------------------------------------------------------------------------

LEMMA InitIInv == Init => IInv
<1> SUFFICES ASSUME Init PROVE IInv
  OBVIOUS
<1>1. TablesOK
  BY DEF Init, TablesOK, Durable, NoTemp
<1>2. LockOK
  BY ConfigStoreAssumption DEF Init, LockOK, Held
<1>3. UpOK /\ RevisionOK /\ FileOK /\ TempOK
  BY DEF Init, UpOK, RevisionOK, FileOK, TempOK, Held
<1>4. UndoOK /\ AcknowledgedIsAccountedFor
  BY DEF Init, UndoOK, Durable, AcknowledgedIsAccountedFor
<1> QED
  BY <1>1, <1>2, <1>3, <1>4 DEF IInv

-----------------------------------------------------------------------------
(* One lemma for each action, one step for each part of the invariant.     *)

LEMMA GetConfigIInv ==
    ASSUME IInv, NEW c \in Client, GetConfig(c)
    PROVE  IInv'
<1> USE DEF IInv, GetConfig
<1>1. TablesOK'
  BY DEF TablesOK, files
<1>2. LockOK'
  BY DEF LockOK
<1>3. UpOK'
  BY DEF UpOK
<1>4. RevisionOK'
  BY DEF RevisionOK
<1>5. FileOK'
  BY DEF FileOK, Saved, files
<1>6. TempOK'
  BY DEF TempOK, Saved, files
<1>7. UndoOK'
  BY DEF UndoOK, files
<1>8. AcknowledgedIsAccountedFor'
  BY DEF AcknowledgedIsAccountedFor, files
<1> QED
  BY <1>1, <1>2, <1>3, <1>4, <1>5, <1>6, <1>7, <1>8

LEMMA PutConfigIInv ==
    ASSUME IInv, NEW c \in Client, PutConfig(c)
    PROVE  IInv'
<1> USE DEF IInv, PutConfig
<1>1. TablesOK'
  BY DEF TablesOK, Goto, files
<1>2. LockOK'
  BY DEF TablesOK, LockOK, Held, Goto
<1>3. UpOK'
  BY DEF UpOK
<1>4. RevisionOK'
  BY DEF TablesOK, RevisionOK, Held, Goto
<1>5. FileOK'
  BY DEF TablesOK, FileOK, Saved, Goto, files
<1>6. TempOK'
  BY DEF TablesOK, TempOK, Saved, Goto, files
<1>7. UndoOK'
  BY DEF TablesOK, UndoOK, Goto, files
<1>8. AcknowledgedIsAccountedFor'
  BY DEF AcknowledgedIsAccountedFor, files
<1> QED
  BY <1>1, <1>2, <1>3, <1>4, <1>5, <1>6, <1>7, <1>8

LEMMA CheckRequestIInv ==
    ASSUME IInv, NEW c \in Client, CheckRequest(c)
    PROVE  IInv'
<1> USE DEF IInv, CheckRequest
<1>1. TablesOK'
  BY DEF TablesOK, Fail, Goto, files
<1>2. LockOK'
  BY ConfigStoreAssumption DEF TablesOK, LockOK, Held, Fail, Goto
<1>3. UpOK'
  BY DEF UpOK
<1>4. RevisionOK'
  BY DEF TablesOK, RevisionOK, RevisionMatches, Held, Fail, Goto
<1>5. FileOK'
  BY DEF TablesOK, FileOK, Saved, Fail, Goto, files
<1>6. TempOK'
  BY DEF TablesOK, TempOK, Saved, Fail, Goto, files
<1>7. UndoOK'
  BY ConfigStoreAssumption DEF LockOK, UndoOK, Held, files
<1>8. AcknowledgedIsAccountedFor'
  BY DEF AcknowledgedIsAccountedFor, files
<1> QED
  BY <1>1, <1>2, <1>3, <1>4, <1>5, <1>6, <1>7, <1>8

LEMMA CompareDiskIInv ==
    ASSUME IInv, NEW c \in Client, CompareDisk(c)
    PROVE  IInv'
<1>1. /\ UNCHANGED <<disk, undo, syncable, backups, temp, store, up, acked>>
      /\ pc[c] = "compare"
  BY DEF CompareDisk, files
<1>2. \/ (\E how \in {"changed", "error"} : Fail(c, how)) /\ drift' = drift
      \/ /\ disk = store.raw /\ Goto(c, "write") /\ UNCHANGED <<req, writer>>
         /\ drift' = IF drift = "none" THEN "none" ELSE "edited"
  BY DEF CompareDisk, DiskMatches
<1>3. CASE (\E how \in {"changed", "error"} : Fail(c, how)) /\ drift' = drift
  <2>1. /\ pc' = [pc EXCEPT ![c] = "idle"] /\ writer' = None
        /\ req' = [req EXCEPT ![c] = NoRequest]
    BY <1>3 DEF Fail, Goto
  <2>2. (TablesOK /\ LockOK /\ UpOK /\ RevisionOK)'
    BY <1>1, <1>3, <2>1, ConfigStoreAssumption
       DEF IInv, TablesOK, LockOK, UpOK, RevisionOK, Held
  <2>3. (FileOK /\ TempOK)'
    BY <1>1, <1>3, <2>1 DEF IInv, TablesOK, FileOK, TempOK, Saved
  <2>4. (UndoOK /\ AcknowledgedIsAccountedFor)'
    BY <1>1, <1>3, <2>1 DEF IInv, TablesOK, LockOK, UndoOK, AcknowledgedIsAccountedFor, Held
  <2> QED
    BY <2>2, <2>3, <2>4 DEF IInv
<1>4. CASE /\ disk = store.raw /\ Goto(c, "write") /\ UNCHANGED <<req, writer>>
           /\ drift' = IF drift = "none" THEN "none" ELSE "edited"
  <2>1. pc' = [pc EXCEPT ![c] = "write"] /\ drift' \in {"none", "edited"}
    BY <1>4 DEF Goto
  <2>2. (TablesOK /\ LockOK /\ UpOK /\ RevisionOK)'
    BY <1>1, <1>4, <2>1 DEF IInv, TablesOK, LockOK, UpOK, RevisionOK, Held
  <2>3. writer = c /\ \A x \in Client : x # c => pc[x] \notin Held
    BY <1>1 DEF IInv, LockOK, Held
  <2>4. (FileOK /\ TempOK)'
    BY <1>1, <1>4, <2>1, <2>3 DEF IInv, TablesOK, FileOK, TempOK, Saved, Held
  <2>5. UndoOK'
    BY <1>1, <2>1, <2>3 DEF IInv, TablesOK, UndoOK, Held
  <2>6. up
    BY <1>1 DEF IInv, UpOK
  <2>7. AcknowledgedIsAccountedFor'
    BY <1>1, <2>6 DEF IInv, AcknowledgedIsAccountedFor
  <2> QED
    BY <2>2, <2>4, <2>5, <2>7 DEF IInv
<1> QED
  BY <1>2, <1>3, <1>4

LEMMA WriteTempIInv ==
    ASSUME IInv, NEW c \in Client, WriteTemp(c)
    PROVE  IInv'
<1> USE DEF IInv, WriteTemp
<1>1. TablesOK'
  BY DEF TablesOK, Fail, Goto
<1>2. LockOK'
  BY ConfigStoreAssumption DEF TablesOK, LockOK, Held, Fail, Goto
<1>3. UpOK'
  BY DEF UpOK
<1>4. RevisionOK'
  BY DEF TablesOK, RevisionOK, Held, Fail, Goto
<1>5. FileOK'
  BY DEF TablesOK, FileOK, Saved, Fail, Goto
<1>6. TempOK'
  BY DEF TablesOK, LockOK, TempOK, Saved, Held, Fail, Goto
<1>7. UndoOK'
  BY DEF LockOK, UndoOK, Held
<1>8. AcknowledgedIsAccountedFor'
  BY DEF AcknowledgedIsAccountedFor
<1> QED
  BY <1>1, <1>2, <1>3, <1>4, <1>5, <1>6, <1>7, <1>8

LEMMA FlushTempIInv ==
    ASSUME IInv, NEW c \in Client, FlushTemp(c)
    PROVE  IInv'
<1> USE DEF IInv, FlushTemp
<1>1. TablesOK'
  BY DEF TablesOK, Fail, Goto, NoTemp
<1>2. LockOK'
  BY ConfigStoreAssumption DEF TablesOK, LockOK, Held, Fail, Goto
<1>3. UpOK'
  BY DEF UpOK
<1>4. RevisionOK'
  BY DEF TablesOK, RevisionOK, Held, Fail, Goto
<1>5. FileOK'
  BY DEF TablesOK, FileOK, Saved, Fail, Goto
<1>6. TempOK'
  BY DEF TablesOK, LockOK, TempOK, Saved, Held, Fail, Goto
<1>7. UndoOK'
  BY DEF LockOK, UndoOK, Held
<1>8. AcknowledgedIsAccountedFor'
  BY DEF AcknowledgedIsAccountedFor
<1> QED
  BY <1>1, <1>2, <1>3, <1>4, <1>5, <1>6, <1>7, <1>8

LEMMA CopyBackupIInv ==
    ASSUME IInv, NEW c \in Client, CopyBackup(c)
    PROVE  IInv'
<1> USE DEF IInv, CopyBackup
<1>1. TablesOK'
  BY DEF TablesOK, Fail, Goto, NoTemp
<1>2. LockOK'
  BY ConfigStoreAssumption DEF TablesOK, LockOK, Held, Fail, Goto
<1>3. UpOK'
  BY DEF UpOK
<1>4. RevisionOK'
  BY DEF TablesOK, RevisionOK, Held, Fail, Goto
<1>5. FileOK'
  BY DEF TablesOK, FileOK, Saved, Fail, Goto
<1>6. TempOK'
  BY DEF TablesOK, LockOK, TempOK, Saved, Held, Fail, Goto
<1>7. UndoOK'
  BY DEF LockOK, UndoOK, Held
<1>8. AcknowledgedIsAccountedFor'
  BY DEF AcknowledgedIsAccountedFor
<1> QED
  BY <1>1, <1>2, <1>3, <1>4, <1>5, <1>6, <1>7, <1>8

LEMMA ReplaceIInv ==
    ASSUME IInv, NEW c \in Client, Replace(c)
    PROVE  IInv'
<1> USE DEF IInv, Replace
<1>1. TablesOK'
  BY DEF TablesOK, Fail, Goto, NoTemp
<1>2. LockOK'
  BY ConfigStoreAssumption DEF TablesOK, LockOK, Held, Fail, Goto
<1>3. UpOK'
  BY DEF UpOK
<1>4. RevisionOK'
  BY DEF TablesOK, RevisionOK, Held, Fail, Goto
<1>5. FileOK'
  BY DEF TablesOK, LockOK, FileOK, TempOK, Saved, Held, Fail, Goto
<1>6. TempOK'
  BY DEF TablesOK, LockOK, TempOK, Held, Fail, Goto
<1>7. UndoOK'
  BY DEF TablesOK, LockOK, FileOK, TempOK, UndoOK, Held, Fail, Goto
<1>8. AcknowledgedIsAccountedFor'
  BY DEF AcknowledgedIsAccountedFor
<1> QED
  BY <1>1, <1>2, <1>3, <1>4, <1>5, <1>6, <1>7, <1>8

LEMMA SyncDirIInv ==
    ASSUME IInv, NEW c \in Client, SyncDir(c)
    PROVE  IInv'
<1> USE DEF IInv, SyncDir
<1>1. TablesOK'
  BY DEF TablesOK, Goto, Durable
<1>2. LockOK'
  BY DEF LockOK, Held, Goto
<1>3. UpOK'
  BY DEF UpOK
<1>4. RevisionOK'
  BY DEF RevisionOK, Held, Goto
<1>5. FileOK'
  BY DEF FileOK, Saved, Goto
<1>6. TempOK'
  BY DEF TempOK, Saved, Goto
<1>7. UndoOK'
  BY DEF UndoOK, Durable
<1>8. AcknowledgedIsAccountedFor'
  BY DEF AcknowledgedIsAccountedFor
<1> QED
  BY <1>1, <1>2, <1>3, <1>4, <1>5, <1>6, <1>7, <1>8

LEMMA PublishIInv ==
    ASSUME IInv, NEW c \in Client, Publish(c)
    PROVE  IInv'
<1> USE DEF IInv, Publish
<1>1. TablesOK'
  BY DEF TablesOK, Fail, Goto, files
<1>2. LockOK'
  BY ConfigStoreAssumption DEF TablesOK, LockOK, Held, Fail, Goto
<1>3. UpOK'
  BY DEF UpOK
<1>4. RevisionOK'
  BY DEF TablesOK, LockOK, RevisionOK, Held, Fail, Goto
<1>5. FileOK'
  BY DEF TablesOK, LockOK, FileOK, Held, Fail, Goto
<1>6. TempOK'
  BY DEF LockOK, TempOK, Held, Fail, Goto
<1>7. UndoOK'
  BY DEF LockOK, UndoOK, Held, files
<1>8. AcknowledgedIsAccountedFor'
  BY DEF FileOK, Saved, AcknowledgedIsAccountedFor, SavedStore, files
<1> QED
  BY <1>1, <1>2, <1>3, <1>4, <1>5, <1>6, <1>7, <1>8

LEMMA DirectoryFailsIInv ==
    ASSUME IInv, DirectoryFails
    PROVE  IInv'
<1>1. /\ ~ syncable'
      /\ UNCHANGED <<disk, undo, backups, temp, store, up, writer, pc, req, drift, acked>>
  BY DEF DirectoryFails, clients
<1>2. (TablesOK /\ LockOK /\ UpOK /\ RevisionOK /\ FileOK /\ TempOK)'
  BY <1>1 DEF IInv, TablesOK, LockOK, UpOK, RevisionOK, FileOK, TempOK, Saved
<1>3. (UndoOK /\ AcknowledgedIsAccountedFor)'
  BY <1>1 DEF IInv, DirectoryFails, UndoOK, AcknowledgedIsAccountedFor
<1> QED
  BY <1>2, <1>3 DEF IInv

LEMMA StartIInv ==
    ASSUME IInv, Start
    PROVE  IInv'
<1>1. \A c \in Client : pc[c] = "idle"
  BY DEF IInv, UpOK, Start
<1>2. (TablesOK /\ LockOK /\ UpOK /\ RevisionOK /\ FileOK /\ TempOK)'
  BY <1>1 DEF IInv, Start, TablesOK, LockOK, UpOK, RevisionOK, FileOK, TempOK, Held, files,
              clients, counters
<1>3. (UndoOK /\ AcknowledgedIsAccountedFor)'
  BY DEF IInv, Start, UndoOK, AcknowledgedIsAccountedFor, files, clients
<1> QED
  BY <1>2, <1>3 DEF IInv

\* After a crash no save is under way, and what the crash took from the disk
\* had not been acknowledged.
LEMMA CrashIInv ==
    ASSUME IInv, Crash
    PROVE  IInv'
<1>1. \A c \in Client : pc'[c] = "idle"
  BY DEF Crash
<1>2. (LockOK /\ UpOK /\ RevisionOK /\ FileOK /\ TempOK)'
  BY <1>1, ConfigStoreAssumption DEF Crash, LockOK, UpOK, RevisionOK, FileOK, TempOK, Held
<1>3. TablesOK'
  BY DEF IInv, Crash, TablesOK, NoTemp, Durable
<1>4. UndoOK'
  BY DEF Crash, UndoOK, Durable
<1>5. AcknowledgedIsAccountedFor'
  BY DEF IInv, Crash, UndoOK, AcknowledgedIsAccountedFor
<1> QED
  BY <1>2, <1>3, <1>4, <1>5 DEF IInv

\* Whenever the editor comes, drift says so.
LEMMA EditorWritesIInv ==
    ASSUME IInv, NEW text \in EditorTexts, EditorWrites(text)
    PROVE  IInv'
<1>1. pc' = pc /\ req' = req /\ writer' = writer /\ store' = store /\ up' = up
      /\ temp' = temp /\ backups' = backups
  BY DEF EditorWrites, clients
<1>2. /\ drift' # "none" /\ acked' = None /\ undo' = Durable
      /\ \A c \in Client : pc[c] = "replace" => drift' = "late"
      /\ \A c \in Client : pc[c] \in {"write", "flush", "backup"} => drift' \in {"slipped", "late"}
  BY DEF EditorWrites
<1>3. (TablesOK /\ LockOK /\ UpOK /\ RevisionOK /\ TempOK)'
  BY <1>1 DEF IInv, EditorWrites, TablesOK, LockOK, UpOK, RevisionOK, TempOK, Saved, Durable
<1>4. FileOK'
  BY <1>1, <1>2 DEF FileOK
<1>5. (UndoOK /\ AcknowledgedIsAccountedFor)'
  BY <1>2 DEF UndoOK, AcknowledgedIsAccountedFor, Durable
<1> QED
  BY <1>3, <1>4, <1>5 DEF IInv

LEMMA StutterIInv == IInv /\ UNCHANGED vars => IInv'
  BY DEF IInv, TablesOK, LockOK, UpOK, RevisionOK, FileOK, TempOK, UndoOK, Saved,
         AcknowledgedIsAccountedFor, vars, files, clients, counters

LEMMA NextIInv == IInv /\ [Next]_vars => IInv'
<1> SUFFICES ASSUME IInv, [Next]_vars PROVE IInv'
  OBVIOUS
<1>1. CASE Start
  BY <1>1, StartIInv
<1>2. CASE Crash
  BY <1>2, CrashIInv
<1>3. ASSUME NEW c \in Client, GetConfig(c) \/ PutConfig(c) \/ Save(c) PROVE IInv'
  <2>1. CASE GetConfig(c)
    BY <2>1, GetConfigIInv
  <2>2. CASE PutConfig(c)
    BY <2>2, PutConfigIInv
  <2>3. CASE Save(c)
    BY <2>3, CheckRequestIInv, CompareDiskIInv, WriteTempIInv, FlushTempIInv,
       CopyBackupIInv, ReplaceIInv, SyncDirIInv, PublishIInv DEF Save
  <2> QED
    BY <1>3, <2>1, <2>2, <2>3
<1>4. ASSUME NEW text \in EditorTexts, EditorWrites(text) PROVE IInv'
  BY <1>4, EditorWritesIInv
<1>5. CASE UNCHANGED vars
  BY <1>5, StutterIInv
<1>6. CASE DirectoryFails
  BY <1>6, DirectoryFailsIInv
<1> QED
  BY <1>1, <1>2, <1>3, <1>4, <1>5, <1>6 DEF Next

LEMMA InvariantHolds == Spec => []IInv
  BY InitIInv, NextIInv, PTL DEF Spec

-----------------------------------------------------------------------------

\* A save that was answered as saved survives a power failure where
\* sync_parent_dir can sync the directory; where it cannot, the failure brings
\* back a whole text that a save had replaced after copying it, or one the
\* editor wrote after the copy.
THEOREM AcknowledgedSavesSurvive == Spec => []AcknowledgedIsAccountedFor
<1>1. IInv => AcknowledgedIsAccountedFor
  BY DEF IInv
<1> QED
  BY <1>1, InvariantHolds, PTL

\* save_config_store never replaces a text its client has not seen, but for an
\* edit made after the comparison; such an edit is in a backup, or was made
\* after the copy.
THEOREM NothingIsOverwrittenUnseen == Spec => OverwriteIsAccountedFor
<1> DEFINE Accounted ==
      \A c \in Client :
          (pc[c] = "replace" /\ pc'[c] = "sync") =>
              \/ disk = None
              \/ Revision(disk) = req[c].revision
              \/ drift = "slipped" /\ disk \in backups
              \/ drift = "late"
<1>1. IInv => Accounted
  <2> SUFFICES ASSUME IInv, NEW c \in Client, pc[c] = "replace"
               PROVE  \/ disk = None
                      \/ Revision(disk) = req[c].revision
                      \/ drift = "slipped" /\ disk \in backups
                      \/ drift = "late"
    OBVIOUS
  <2>1. CASE drift \in {"none", "edited"}
    BY <2>1 DEF IInv, FileOK, RevisionOK, Held
  <2>2. CASE drift = "slipped"
    BY <2>2 DEF IInv, FileOK
  <2> QED
    BY <2>1, <2>2 DEF IInv, TablesOK
<1>2. Spec => [][Accounted]_vars
  BY <1>1, InvariantHolds, PTL
<1> QED
  BY <1>2 DEF OverwriteIsAccountedFor

-----------------------------------------------------------------------------
(* The store and the file.  StoreIsTheFile needs to know where every text  *)
(* comes from: what a save writes is accepted by the parser, because it    *)
(* was patched and parsed before the first write, and by the startup,      *)
(* because the page edits nothing the startup looks at.                    *)

\* The server would start with this text in the file.
Accepted(text) == CanLoad(text) /\ StartupAccepts(Env, SiteOf(text))

\* A PolicyUpdate, a body whose [tuning] has been filled in.
UpdateRec == [allow : BOOLEAN, retention : Nat \cup {None}, tuning : Tunings]

\* What the save of client c patches with.
Update(c) == UpdateOf(req[c], store)

TypesOK ==
    /\ disk \in Texts \cup {None} /\ \A u \in undo : u.text \in Texts \cup {None}
    /\ store.raw \in Texts \cup {None} /\ store.tuning \in Tunings
    /\ \A c \in Client : pc[c] # "idle" => Update(c) \in UpdateRec

\* A file the server wrote last starts it again, now and after a power failure.
AcceptedOK ==
    /\ drift = "none" => Accepted(disk)
    /\ \A u \in undo : u.drift = "none" => Accepted(u.text)
    /\ up => StartupAccepts(Env, SiteOf(store.raw))

\* What a save knows about itself at each of its steps.
SaveOK ==
    \A c \in Client :
        /\ pc[c] \in Held => resolution # "none"
        /\ pc[c] \in {"write", "flush", "backup", "replace"}
              => PatchIsValid(store.raw, Update(c))
        /\ pc[c] \in {"backup", "replace"} => temp.flushed

\* Only between the rename and the answer is the store behind the file.
Behind == \E c \in Client : pc[c] \in {"sync", "publish"}
LoadedOK == drift = "none" /\ up /\ ~Behind => store = Load(disk)

StoreInv == TypesOK /\ AcceptedOK /\ SaveOK /\ LoadedOK

-----------------------------------------------------------------------------
(* Lemmas about the operators.                                             *)

\* A patched text differs from the old one in what the page edits only.
LEMMA PatchedText ==
    ASSUME NEW text \in Texts \cup {None}, NEW u \in UpdateRec
    PROVE  /\ Patch(text, u) \in Texts
           /\ Patch(text, u).allow = u.allow /\ Patch(text, u).retention = u.retention
           /\ Patch(text, u).tuning = u.tuning
           /\ SiteOf(Patch(text, u)) = SiteOf(text)
<1> DEFINE t == IF text = None THEN EmptyText ELSE text
<1>1. t \in Texts /\ SiteOf(text) = IF resolution = "none" THEN NoSite ELSE t.site
  BY DEF EmptyText, NoTuning, Texts, Tunings, SiteOf
<1>2. Patch(text, u) = [t EXCEPT !.allow = u.allow, !.retention = u.retention,
                                 !.tuning = PatchTuning(t.tuning, u.tuning)]
  BY DEF Patch
<1>3. PatchTuning(t.tuning, u.tuning) = u.tuning
  BY DEF PatchTuning, UpdateRec, Tunings
<1> HIDE DEF t
<1>4. Patch(text, u) = [t EXCEPT !.allow = u.allow, !.retention = u.retention,
                                 !.tuning = u.tuning]
  BY <1>2, <1>3
<1> DEFINE s == Patch(text, u)
<1>5. /\ s \in Texts /\ s.site = t.site /\ s.allow = u.allow
      /\ s.retention = u.retention /\ s.tuning = u.tuning
  BY <1>1, <1>4 DEF Texts, UpdateRec
<1> HIDE DEF s
<1>6. s # None
  BY <1>5, TextAssumption
<1>7. SiteOf(s) = SiteOf(text)
  BY <1>1, <1>5, <1>6 DEF SiteOf
<1> QED
  BY <1>5, <1>7 DEF s

\* The store a save returns is the one a fresh load of its text would give.
LEMMA SavedText ==
    ASSUME NEW text \in Texts \cup {None}, NEW u \in UpdateRec, resolution # "none",
           PatchIsValid(text, u), StartupAccepts(Env, SiteOf(text))
    PROVE  /\ Accepted(Patch(text, u))
           /\ Load(Patch(text, u)) = SavedStore(Patch(text, u), u)
<1>1. Parses(Patch(text, u))
  BY DEF PatchIsValid
<1> DEFINE s == Patch(text, u)
<1>2. /\ s \in Texts /\ s.allow = u.allow /\ s.retention = u.retention
      /\ s.tuning = u.tuning /\ SiteOf(s) = SiteOf(text) /\ Parses(s)
  BY <1>1, PatchedText
<1> HIDE DEF s
<1>3. s # None
  BY <1>2, TextAssumption
<1>4. Accepted(s)
  BY <1>2, <1>3 DEF Accepted, CanLoad
<1>5. Load(s) = SavedStore(s, u)
  BY <1>2, <1>3 DEF Load, SavedStore
<1> QED
  BY <1>4, <1>5 DEF s

\* What a load leaves in the store.
LEMMA LoadedText ==
    ASSUME NEW text \in Texts \cup {None}
    PROVE  /\ Load(text).raw \in Texts \cup {None} /\ Load(text).tuning \in Tunings
           /\ SiteOf(Load(text).raw) = SiteOf(text)
<1>1. NoTuning \in Tunings
  BY DEF NoTuning, Tunings
<1> QED
  BY <1>1 DEF Load, DefaultStore, SiteOf, Texts

-----------------------------------------------------------------------------

LEMMA InitStoreInv == Init => StoreInv
<1> SUFFICES ASSUME Init PROVE StoreInv
  OBVIOUS
<1>1. TypesOK
  <2>1. NoTuning \in Tunings
    BY DEF NoTuning, Tunings
  <2> QED
    BY <2>1, TextAssumption DEF Init, TypesOK, Durable, DefaultStore
<1>2. AcceptedOK /\ SaveOK /\ LoadedOK
  BY DEF Init, AcceptedOK, SaveOK, LoadedOK, Held, Durable
<1> QED
  BY <1>1, <1>2 DEF StoreInv

\* A step that moves one request and leaves the file and the store alone.
LEMMA QuietStoreInv ==
    ASSUME IInv, StoreInv, NEW c \in Client,
           resolution' = resolution, disk' = disk, undo' = undo, store' = store,
           up' = up, drift' = "none" <=> drift = "none",
           \A x \in Client : x # c => pc'[x] = pc[x] /\ req'[x] = req[x],
           pc'[c] # "idle" => Update(c)' \in UpdateRec,
           pc'[c] \in Held => resolution # "none",
           pc'[c] \in {"write", "flush", "backup", "replace"}
              => PatchIsValid(store.raw, Update(c)'),
           \A x \in Client : pc'[x] \in {"backup", "replace"} => temp'.flushed,
           pc'[c] \in {"sync", "publish"} <=> pc[c] \in {"sync", "publish"}
    PROVE  StoreInv'
<1>1. \A x \in Client : x # c => Update(x)' = Update(x)
  BY DEF Update, UpdateOf
<1>2. TypesOK'
  BY <1>1 DEF StoreInv, TypesOK
<1>3. AcceptedOK'
  BY DEF StoreInv, AcceptedOK, Accepted, CanLoad, SiteOf
<1>4. SaveOK'
  BY <1>1 DEF StoreInv, SaveOK
<1>5. LoadedOK'
  <2>1. Behind' <=> Behind
    BY DEF Behind
  <2> QED
    BY <2>1 DEF StoreInv, LoadedOK, Load
<1> QED
  BY <1>2, <1>3, <1>4, <1>5 DEF StoreInv

LEMMA GetConfigStoreInv ==
    ASSUME IInv, StoreInv, NEW c \in Client, GetConfig(c)
    PROVE  StoreInv'
<1>1. /\ UNCHANGED <<resolution, disk, undo, temp, store, up, drift, pc, req>>
      /\ pc[c] = "idle"
  BY DEF GetConfig, files
<1> QED
  BY <1>1, QuietStoreInv DEF StoreInv, SaveOK, Held

LEMMA PutConfigStoreInv ==
    ASSUME IInv, StoreInv, NEW c \in Client, PutConfig(c)
    PROVE  StoreInv'
<1>1. /\ UNCHANGED <<resolution, disk, undo, temp, store, up, drift>>
      /\ pc[c] = "idle"
  BY DEF PutConfig, files
<1>2. \/ UNCHANGED <<pc, req>>
      \/ \E u \in Updates :
            /\ req' = [req EXCEPT ![c] = [revision |-> view[c].revision, allow |-> u.allow,
                                          retention |-> u.retention, tuning |-> u.tuning]]
            /\ pc' = [pc EXCEPT ![c] = "lock"]
  BY DEF PutConfig, Goto
<1>3. CASE UNCHANGED <<pc, req>>
  BY <1>1, <1>3, QuietStoreInv DEF StoreInv, SaveOK, Held
<1>4. CASE \E u \in Updates :
            /\ req' = [req EXCEPT ![c] = [revision |-> view[c].revision, allow |-> u.allow,
                                          retention |-> u.retention, tuning |-> u.tuning]]
            /\ pc' = [pc EXCEPT ![c] = "lock"]
  <2>1. PICK u \in Updates :
            /\ req' = [req EXCEPT ![c] = [revision |-> view[c].revision, allow |-> u.allow,
                                          retention |-> u.retention, tuning |-> u.tuning]]
            /\ pc' = [pc EXCEPT ![c] = "lock"]
    BY <1>4
  <2>2. u \in Bodies
    BY TextAssumption
  <2>3. /\ req'[c] = [revision |-> view[c].revision, allow |-> u.allow,
                      retention |-> u.retention, tuning |-> u.tuning]
        /\ pc'[c] = "lock"
        /\ \A x \in Client : x # c => pc'[x] = pc[x] /\ req'[x] = req[x]
    BY <2>1 DEF IInv, TablesOK
  <2>4. Update(c)' \in UpdateRec
    BY <1>1, <2>2, <2>3 DEF Update, UpdateOf, UpdateRec, Bodies, StoreInv, TypesOK
  <2> QED
    BY <1>1, <2>3, <2>4, QuietStoreInv DEF StoreInv, SaveOK, Held
<1> QED
  BY <1>2, <1>3, <1>4

\* A save that ends early.
LEMMA FailStoreInv ==
    ASSUME IInv, StoreInv, NEW c \in Client, NEW how, Fail(c, how),
           pc[c] \notin {"sync", "publish"},
           UNCHANGED <<resolution, disk, undo, store, up, drift>>,
           temp' = temp \/ pc[c] \in Held
    PROVE  StoreInv'
<1>1. /\ pc'[c] = "idle"
      /\ \A x \in Client : x # c => pc'[x] = pc[x] /\ req'[x] = req[x]
  BY DEF Fail, Goto, IInv, TablesOK
<1>2. \A x \in Client : pc'[x] \in {"backup", "replace"} => temp'.flushed
  BY <1>1 DEF IInv, LockOK, Held, StoreInv, SaveOK
<1> QED
  BY <1>1, <1>2, QuietStoreInv DEF Held

\* A save that goes on before its rename.
LEMMA StepStoreInv ==
    ASSUME IInv, StoreInv, NEW c \in Client, NEW where \in Held \ {"sync", "publish"},
           pc[c] \in {"lock", "compare", "write", "flush", "backup"}, Goto(c, where),
           resolution # "none", req' = req,
           where # "compare" => PatchIsValid(store.raw, Update(c)),
           UNCHANGED <<resolution, disk, undo, store, up>>, drift' = "none" <=> drift = "none",
           temp' = temp \/ pc[c] \in Held,
           where \in {"backup", "replace"} => temp'.flushed
    PROVE  StoreInv'
<1>1. /\ pc'[c] = where
      /\ \A x \in Client : x # c => pc'[x] = pc[x] /\ req'[x] = req[x]
  BY DEF Goto, IInv, TablesOK
<1>2. \A x \in Client : pc'[x] \in {"backup", "replace"} => temp'.flushed
  BY <1>1 DEF IInv, LockOK, Held, StoreInv, SaveOK
<1>3. Update(c)' = Update(c) /\ Update(c) \in UpdateRec
  BY DEF Update, UpdateOf, StoreInv, TypesOK
<1> QED
  BY <1>1, <1>2, <1>3, QuietStoreInv DEF Held

LEMMA CheckRequestStoreInv ==
    ASSUME IInv, StoreInv, NEW c \in Client, CheckRequest(c)
    PROVE  StoreInv'
<1>1. /\ UNCHANGED <<resolution, disk, undo, temp, store, up, drift>> /\ pc[c] = "lock"
      /\ \/ \E how \in {"bad_request", "stale", "error"} : Fail(c, how)
         \/ resolution # "none" /\ Goto(c, "compare") /\ req' = req
  BY DEF CheckRequest, files
<1>2. CASE \E how \in {"bad_request", "stale", "error"} : Fail(c, how)
  BY <1>1, <1>2, FailStoreInv
<1>3. CASE resolution # "none" /\ Goto(c, "compare") /\ req' = req
  BY <1>1, <1>3, StepStoreInv DEF Held
<1> QED
  BY <1>1, <1>2, <1>3

LEMMA CompareDiskStoreInv ==
    ASSUME IInv, StoreInv, NEW c \in Client, CompareDisk(c)
    PROVE  StoreInv'
<1>1. /\ UNCHANGED <<resolution, disk, undo, temp, store, up>> /\ pc[c] = "compare"
      /\ drift' = "none" <=> drift = "none"
      /\ \/ drift' = drift /\ \E how \in {"changed", "error"} : Fail(c, how)
         \/ PatchIsValid(store.raw, Update(c)) /\ Goto(c, "write") /\ req' = req
  BY DEF CompareDisk, files, Update
<1>2. CASE drift' = drift /\ \E how \in {"changed", "error"} : Fail(c, how)
  BY <1>1, <1>2, FailStoreInv
<1>3. CASE PatchIsValid(store.raw, Update(c)) /\ Goto(c, "write") /\ req' = req
  BY <1>1, <1>3, StepStoreInv DEF Held, StoreInv, SaveOK
<1> QED
  BY <1>1, <1>2, <1>3

LEMMA WriteTempStoreInv ==
    ASSUME IInv, StoreInv, NEW c \in Client, WriteTemp(c)
    PROVE  StoreInv'
<1>1. /\ UNCHANGED <<resolution, disk, undo, store, up, drift>> /\ pc[c] = "write"
      /\ \/ Fail(c, "error")
         \/ Goto(c, "flush") /\ req' = req
  BY DEF WriteTemp
<1>2. CASE Fail(c, "error")
  BY <1>1, <1>2, FailStoreInv DEF Held
<1>3. CASE Goto(c, "flush") /\ req' = req
  BY <1>1, <1>3, StepStoreInv DEF Held, StoreInv, SaveOK
<1> QED
  BY <1>1, <1>2, <1>3

LEMMA FlushTempStoreInv ==
    ASSUME IInv, StoreInv, NEW c \in Client, FlushTemp(c)
    PROVE  StoreInv'
<1>1. /\ UNCHANGED <<resolution, disk, undo, store, up, drift>> /\ pc[c] = "flush"
      /\ \/ Fail(c, "error")
         \/ Goto(c, "backup") /\ req' = req /\ temp' = [temp EXCEPT !.flushed = TRUE]
  BY DEF FlushTemp
<1>2. CASE Fail(c, "error")
  BY <1>1, <1>2, FailStoreInv DEF Held
<1>3. CASE Goto(c, "backup") /\ req' = req /\ temp' = [temp EXCEPT !.flushed = TRUE]
  <2>1. temp'.flushed
    BY <1>3 DEF IInv, TablesOK
  <2> QED
    BY <1>1, <1>3, <2>1, StepStoreInv DEF Held, StoreInv, SaveOK
<1> QED
  BY <1>1, <1>2, <1>3

LEMMA CopyBackupStoreInv ==
    ASSUME IInv, StoreInv, NEW c \in Client, CopyBackup(c)
    PROVE  StoreInv'
<1>1. /\ UNCHANGED <<resolution, disk, undo, store, up, drift>> /\ pc[c] = "backup"
      /\ \/ Fail(c, "error")
         \/ Goto(c, "replace") /\ req' = req /\ temp' = temp
  BY DEF CopyBackup
<1>2. CASE Fail(c, "error")
  BY <1>1, <1>2, FailStoreInv DEF Held
<1>3. CASE Goto(c, "replace") /\ req' = req /\ temp' = temp
  BY <1>1, <1>3, StepStoreInv DEF Held, StoreInv, SaveOK
<1> QED
  BY <1>1, <1>2, <1>3

\* The rename: the file is now what the store will be.
LEMMA ReplaceStoreInv ==
    ASSUME IInv, StoreInv, NEW c \in Client, Replace(c)
    PROVE  StoreInv'
<1>1. pc[c] = "replace" /\ UNCHANGED <<resolution, store, up>>
  BY DEF Replace
<1>2. CASE Fail(c, "error") /\ UNCHANGED <<disk, undo, drift>>
  BY <1>1, <1>2, FailStoreInv DEF Held
<1>3. CASE /\ disk' = temp.text /\ temp.flushed /\ drift' = "none"
           /\ undo' = undo \cup {[text |-> disk, drift |-> drift]}
           /\ Goto(c, "sync") /\ req' = req /\ temp' = NoTemp
  <2>1. /\ pc'[c] = "sync"
        /\ \A x \in Client : x # c => pc'[x] = pc[x] /\ pc[x] \notin Held
    BY <1>1, <1>3 DEF Goto, IInv, TablesOK, LockOK, Held
  <2>2. /\ disk' = Patch(store.raw, Update(c)) /\ Update(c) \in UpdateRec
        /\ store.raw \in Texts \cup {None} /\ PatchIsValid(store.raw, Update(c))
        /\ resolution # "none"
    BY <1>1, <1>3 DEF IInv, TempOK, Saved, Update, StoreInv, TypesOK, SaveOK, Held
  <2>3. up
    BY <1>1 DEF IInv, UpOK
  <2>4. disk' \in Texts /\ Accepted(disk')
    BY <2>2, <2>3, PatchedText, SavedText DEF StoreInv, AcceptedOK
  <2>5. \A x \in Client : Update(x)' = Update(x)
    BY <1>1, <1>3 DEF Update, UpdateOf
  <2>6. TypesOK'
    BY <1>1, <1>3, <2>1, <2>4, <2>5 DEF StoreInv, TypesOK
  <2>7. AcceptedOK'
    BY <1>1, <1>3, <2>4 DEF StoreInv, AcceptedOK, Accepted, CanLoad, SiteOf
  <2>8. SaveOK'
    BY <1>1, <2>1, <2>2 DEF SaveOK, Held
  <2>9. LoadedOK'
    BY <2>1 DEF LoadedOK, Behind
  <2> QED
    BY <2>6, <2>7, <2>8, <2>9 DEF StoreInv
<1> QED
  BY <1>1, <1>2, <1>3 DEF Replace, StoreInv, SaveOK

LEMMA SyncDirStoreInv ==
    ASSUME IInv, StoreInv, NEW c \in Client, SyncDir(c)
    PROVE  StoreInv'
<1>1. /\ UNCHANGED <<resolution, disk, temp, store, up, drift, req>>
      /\ pc[c] = "sync" /\ undo' \in {Durable, undo}
  BY DEF SyncDir
<1>2. /\ pc'[c] = "publish"
      /\ \A x \in Client : x # c => pc'[x] = pc[x]
  BY DEF SyncDir, Goto, IInv, TablesOK
<1>3. \A x \in Client : Update(x)' = Update(x)
  BY <1>1 DEF Update, UpdateOf
<1>4. TypesOK'
  BY <1>1, <1>2, <1>3 DEF StoreInv, TypesOK, Durable
<1>5. AcceptedOK'
  BY <1>1 DEF StoreInv, AcceptedOK, Accepted, CanLoad, SiteOf, Durable
<1>6. SaveOK'
  BY <1>1, <1>2, <1>3 DEF StoreInv, SaveOK, Held
<1>7. LoadedOK'
  BY <1>2 DEF LoadedOK, Behind
<1> QED
  BY <1>4, <1>5, <1>6, <1>7 DEF StoreInv

\* The answer: the store is taken from the request, and is what a load of the
\* file would give unless the editor has been at it.
LEMMA PublishStoreInv ==
    ASSUME IInv, StoreInv, NEW c \in Client, Publish(c)
    PROVE  StoreInv'
<1> DEFINE u == Update(c)
           text == Patch(store.raw, u)
<1>1. /\ UNCHANGED <<resolution, disk, undo, temp, up, drift>>
      /\ pc[c] = "publish" /\ store' = SavedStore(text, u) /\ Fail(c, "saved")
  BY DEF Publish, files, Update
<1>2. /\ pc'[c] = "idle" /\ pc[c] \in Held /\ up
      /\ \A x \in Client : x # c => pc'[x] = pc[x] /\ req'[x] = req[x] /\ pc[x] \notin Held
  BY <1>1 DEF Fail, Goto, IInv, TablesOK, LockOK, UpOK, Held
<1>3. /\ u \in UpdateRec /\ store.raw \in Texts \cup {None} /\ resolution # "none"
      /\ StartupAccepts(Env, SiteOf(store.raw)) /\ store.tuning \in Tunings
  BY <1>1, <1>2 DEF StoreInv, TypesOK, SaveOK, AcceptedOK
<1>4. /\ text \in Texts /\ SiteOf(text) = SiteOf(store.raw)
      /\ text.allow = u.allow /\ text.retention = u.retention /\ text.tuning = u.tuning
  BY <1>3, PatchedText
<1>5. drift = "none" => disk = text
  BY <1>1 DEF IInv, FileOK, Saved, Update
<1> HIDE DEF u, text
<1>6. /\ store'.raw = text /\ store'.tuning = u.tuning /\ u.tuning \in Tunings
      /\ store' = [raw |-> text, allow |-> u.allow, retention |-> u.retention,
                   tuning |-> u.tuning]
  BY <1>1, <1>3 DEF SavedStore, UpdateRec
<1>7. TypesOK'
  <2>1. ASSUME NEW x \in Client, pc'[x] # "idle" PROVE Update(x)' \in UpdateRec
    <3>1. Update(x) \in UpdateRec /\ req'[x] = req[x]
      BY <1>2, <2>1 DEF StoreInv, TypesOK
    <3> QED
      BY <1>6, <3>1 DEF Update, UpdateOf, UpdateRec
  <2> QED
    BY <1>1, <1>4, <1>6, <2>1 DEF StoreInv, TypesOK
<1>8. AcceptedOK'
  BY <1>1, <1>3, <1>4, <1>6 DEF StoreInv, AcceptedOK, Accepted, CanLoad, SiteOf
<1>9. SaveOK'
  BY <1>2 DEF SaveOK, Held
<1>10. LoadedOK'
  <2>1. text # None
    BY <1>4, TextAssumption
  <2>2. Load(text) = store'
    BY <1>3, <1>4, <1>6, <2>1 DEF Load
  <2> QED
    BY <1>1, <1>5, <2>2 DEF LoadedOK, Load
<1> QED
  BY <1>7, <1>8, <1>9, <1>10 DEF StoreInv

LEMMA StartStoreInv ==
    ASSUME IInv, StoreInv, Start
    PROVE  StoreInv'
<1>1. /\ ~up /\ Accepted(disk) /\ store' = Load(disk) /\ up' = TRUE
      /\ UNCHANGED <<resolution, disk, undo, temp, pc, req>>
  BY DEF Start, CanStart, Accepted, files, clients
<1>2. \A x \in Client : pc[x] = "idle"
  BY <1>1 DEF IInv, UpOK
<1>3. disk \in Texts \cup {None} /\ \A u \in undo : u.text \in Texts \cup {None}
  BY DEF StoreInv, TypesOK
<1>4. TypesOK'
  BY <1>1, <1>2, <1>3, LoadedText DEF TypesOK
<1>5. AcceptedOK'
  BY <1>1, <1>3, LoadedText DEF StoreInv, AcceptedOK, Accepted, CanLoad, SiteOf
<1>6. SaveOK'
  BY <1>1, <1>2 DEF SaveOK, Held
<1>7. LoadedOK'
  BY <1>1 DEF LoadedOK, Load
<1> QED
  BY <1>4, <1>5, <1>6, <1>7 DEF StoreInv

LEMMA CrashStoreInv ==
    ASSUME IInv, StoreInv, Crash
    PROVE  StoreInv'
<1>1. /\ ~up' /\ undo' = Durable /\ UNCHANGED <<resolution, store>>
      /\ \A x \in Client : pc'[x] = "idle"
      /\ \/ UNCHANGED <<disk, drift>>
         \/ \E u \in undo : disk' = u.text /\ drift' = u.drift
  BY DEF Crash
<1>2. TypesOK'
  BY <1>1 DEF StoreInv, TypesOK, Durable
<1>3. AcceptedOK'
  BY <1>1 DEF StoreInv, AcceptedOK, Accepted, CanLoad, SiteOf, Durable
<1>4. SaveOK' /\ LoadedOK'
  BY <1>1 DEF SaveOK, LoadedOK, Held
<1> QED
  BY <1>2, <1>3, <1>4 DEF StoreInv

LEMMA EditorWritesStoreInv ==
    ASSUME IInv, StoreInv, NEW text \in EditorTexts, EditorWrites(text)
    PROVE  StoreInv'
<1>1. /\ disk' = text /\ text \in Texts \cup {None} /\ undo' = Durable /\ drift' # "none"
      /\ UNCHANGED <<resolution, temp, store, up, pc, req>>
  BY TextAssumption DEF EditorWrites, clients
<1>2. TypesOK'
  BY <1>1 DEF StoreInv, TypesOK, Durable, Update, UpdateOf
<1>3. AcceptedOK'
  BY <1>1 DEF StoreInv, AcceptedOK, SiteOf, Durable
<1>4. SaveOK' /\ LoadedOK'
  BY <1>1 DEF StoreInv, SaveOK, LoadedOK, Update, UpdateOf
<1> QED
  BY <1>2, <1>3, <1>4 DEF StoreInv

LEMMA NextStoreInv == IInv /\ StoreInv /\ [Next]_vars => StoreInv'
<1> SUFFICES ASSUME IInv, StoreInv, [Next]_vars PROVE StoreInv'
  OBVIOUS
<1>1. CASE Start
  BY <1>1, StartStoreInv
<1>2. CASE Crash
  BY <1>2, CrashStoreInv
<1>3. ASSUME NEW c \in Client, GetConfig(c) \/ PutConfig(c) \/ Save(c) PROVE StoreInv'
  <2>1. CASE GetConfig(c)
    BY <2>1, GetConfigStoreInv
  <2>2. CASE PutConfig(c)
    BY <2>2, PutConfigStoreInv
  <2>3. CASE Save(c)
    BY <2>3, CheckRequestStoreInv, CompareDiskStoreInv, WriteTempStoreInv,
       FlushTempStoreInv, CopyBackupStoreInv, ReplaceStoreInv, SyncDirStoreInv,
       PublishStoreInv DEF Save
  <2> QED
    BY <1>3, <2>1, <2>2, <2>3
<1>4. ASSUME NEW text \in EditorTexts, EditorWrites(text) PROVE StoreInv'
  BY <1>4, EditorWritesStoreInv
<1>5. CASE UNCHANGED vars \/ DirectoryFails
  BY <1>5 DEF StoreInv, TypesOK, AcceptedOK, SaveOK, LoadedOK, Accepted, CanLoad, SiteOf,
              Behind, Load, Update, UpdateOf, DirectoryFails, vars, files, clients
<1> QED
  BY <1>1, <1>2, <1>3, <1>4, <1>5 DEF Next

\* Between saves the loaded store is what a fresh load of bhtune.toml would
\* give, and a file the server wrote last, whole or brought back by a power
\* failure, starts the server again.
THEOREM TheStoreIsTheFile == Spec => []StoreIsTheFile
<1>1. Spec => [](IInv /\ StoreInv)
  BY InvariantHolds, InitStoreInv, NextStoreInv, PTL DEF Spec
<1>2. IInv /\ StoreInv => StoreIsTheFile
  <2> SUFFICES ASSUME IInv, StoreInv, drift = "none"
               PROVE  CanStart /\ (up /\ writer = None => store = Load(disk))
    BY DEF StoreIsTheFile
  <2>1. CanStart
    BY DEF StoreInv, AcceptedOK, Accepted, CanStart
  <2>2. writer = None => ~Behind
    BY ConfigStoreAssumption DEF IInv, LockOK, Held, Behind
  <2> QED
    BY <2>1, <2>2 DEF StoreInv, LoadedOK
<1> QED
  BY <1>1, <1>2, PTL

-----------------------------------------------------------------------------
(* The users of the gateway.                                               *)
(*                                                                         *)
(* An answer is as true as what its request has gathered: the pages of a   *)
(* listing are a run of one session that ends where the cursor points      *)
(* (Gathers), and whoever is past its acquisition in `opc write` owns the  *)
(* tag, so that nobody else writes it, except what was given up and lands   *)
(* late (Owns).                                                            *)

Position == Nat \ {0}
OpsOf(c) == IF c \in Http THEN HttpOps ELSE CliOps

\* n pages of session s from page first on.
Pages(s, first, n) == [i \in 1..n |-> [session |-> s, page |-> first + i - 1]]

ProgressOK ==
    /\ op \in [User -> HttpOps \cup CliOps \cup {"idle"}]
    /\ at \in [User -> Position]
    /\ result \in [User -> {"none", "failed", "accepted", "rejected"}]
    /\ DOMAIN said = User /\ DOMAIN out = User /\ DOMAIN hung = User

SessionsOK ==
    /\ size \in Seq(Position) /\ live \subseteq DOMAIN size
    /\ cursor \in [User -> {Root} \cup [session : DOMAIN size, page : Position]]

\* A request is at a call of its plan, an idle client at the start of one.
Progresses(c) ==
    /\ op[c] = "idle" => at[c] = 1 /\ ~ hung[c]
    /\ op[c] # "idle" => op[c] \in OpsOf(c) /\ at[c] <= Len(Plan(c)) /\ said[c] = "none"

\* A listing under way, and a listing that was answered.
Gathers(c) ==
    /\ op[c] = "browse_all" =>
          \/ out[c] = <<>>
          \/ \E first, n \in Position :
                /\ cursor[c].session \in DOMAIN size
                /\ out[c] = Pages(cursor[c].session, first, n)
                /\ cursor[c].page = first + n
    /\ said[c] = "listed" =>
          \E s \in DOMAIN size : \E first \in 1..size[s] :
              out[c] = Pages(s, first, size[s] - first + 1)

\* `opc write`: acquire, connect, write, release.
Owns(c) ==
    /\ op[c] = "write" /\ at[c] > 1 => owner = c
    /\ op[c] # "idle" /\ result[c] # "none" => op[c] = "write" /\ at[c] = 4
    /\ owner = c /\ result[c] = "accepted" => written \in {c, Late}

Fits(c) ==
    /\ Progresses(c)
    /\ Gathers(c)
    /\ Owns(c)
    /\ said[c] = "degraded" => compat = "incompatible"

GatewayInv == ProgressOK /\ SessionsOK /\ \A c \in User : Fits(c)

-----------------------------------------------------------------------------

\* The steps of a request that the proof looks at.
LEMMA Calls ==
  ASSUME GatewayInv, NEW c \in User, op[c] # "idle"
  PROVE  /\ Call(c) = "acquire" => op[c] = "write" /\ at[c] = 1
         /\ Call(c) = "write" => op[c] = "write" /\ at[c] = 3
         /\ Call(c) = "release" => op[c] = "write" /\ at[c] = 4
         /\ Call(c) = "browse" => op[c] \in {"browse", "browse_all"}
         /\ Call(c) = "search" => op[c] = "search" /\ at[c] < Len(Plan(c))
         /\ Call(c) = "inspect" => op[c] # "write"
         /\ op[c] = "write" => c \in Cli /\ Len(Plan(c)) = 4
         /\ op[c] = "write" /\ at[c] = 1 => Call(c) = "acquire"
         /\ op[c] = "write" /\ at[c] = 4 => Call(c) = "release"
<1>1. op[c] \in OpsOf(c) /\ at[c] \in 1..Len(Plan(c))
  BY DEF GatewayInv, ProgressOK, Fits, Progresses, Position
<1>2. CASE c \in Http
  <2>1. op[c] \in HttpOps /\ Plan(c) = HttpPlan(op[c])
    BY <1>1, <1>2 DEF OpsOf, Plan
  <2>2. QED
    BY <1>1, <2>1 DEF HttpOps, IndexOps, HttpPlan, Call,
       ServersPlan, CapabilitiesPlan, BrowsePlan, ClosePlan,
       SearchPlan, ReadPlan, IndexPlan
<1>3. CASE c \notin Http
  <2>1. op[c] \in CliOps /\ Plan(c) = CliPlan(op[c])
    BY <1>1, <1>3 DEF OpsOf, Plan
  <2>2. QED
    BY <1>1, <1>3, <2>1 DEF User, CliOps, CliPlan, Call,
       InfoCommand, ServersCommand, ReadCommand, WriteCommand,
       BrowseCommand, CloseCommand, SearchCommand, IndexPlan
<1>4. QED
  BY <1>2, <1>3

\* What a client keeps while another one, c, makes a step.
Apart(c) ==
    \A d \in User : d # c =>
        /\ op'[d] = op[d] /\ at'[d] = at[d] /\ hung'[d] = hung[d] /\ said'[d] = said[d]
        /\ result'[d] = result[d] /\ out'[d] = out[d] /\ cursor'[d] = cursor[d]
        /\ owner' = d <=> owner = d

\* Sessions are opened, never changed.
Grows == \A s \in DOMAIN size : s \in DOMAIN size' /\ size'[s] = size[s]

LEMMA PlanKept ==
  ASSUME NEW d, op'[d] = op[d]
  PROVE  Plan(d)' = Plan(d)
  BY DEF Plan, HttpPlan, CliPlan, ServersPlan,
     CapabilitiesPlan, BrowsePlan, ClosePlan, SearchPlan,
     ReadPlan, IndexPlan, InfoCommand, ServersCommand,
     ReadCommand, WriteCommand, BrowseCommand, CloseCommand,
     SearchCommand

LEMMA ApartFits ==
  ASSUME GatewayInv, NEW c \in User, NEW d \in User, d # c, Apart(c), Grows,
         compat' = compat, written' \in {written, Late} \/ owner = c
  PROVE  Fits(d)'
<1>1. /\ op'[d] = op[d] /\ at'[d] = at[d] /\ hung'[d] = hung[d] /\ said'[d] = said[d]
      /\ result'[d] = result[d] /\ out'[d] = out[d] /\ cursor'[d] = cursor[d]
      /\ (owner' = d <=> owner = d)
  BY DEF Apart
<1>2. Fits(d)
  BY DEF GatewayInv
<1>3. Progresses(d)'
  BY <1>1, <1>2, PlanKept DEF Fits, Progresses, OpsOf, HttpOps, CliOps,
     IndexOps
<1>4. Gathers(d)'
  <2>1. ASSUME op[d] = "browse_all", out[d] # <<>>
        PROVE  \E first, n \in Position : /\ cursor[d].session \in DOMAIN size'
                                         /\ out[d] = Pages(cursor[d].session, first, n)
                                         /\ cursor[d].page = first + n
    BY <1>2, <2>1 DEF Fits, Gathers, Grows
  <2>2. ASSUME said[d] = "listed"
        PROVE  \E s \in DOMAIN size' : \E first \in 1..size'[s] :
                   out[d] = Pages(s, first, size'[s] - first + 1)
    BY <1>2, <2>2 DEF Fits, Gathers, Grows
  <2>3. (op[d] = "browse_all" => out[d] = <<>> \/
            \E first, n \in Position : /\ cursor[d].session \in DOMAIN size
                                        /\ out[d] = Pages(cursor[d].session, first, n)
                                        /\ cursor[d].page = first + n)'
    BY <1>1, <2>1 DEF Pages
  <2>4. (said[d] = "listed" => \E s \in DOMAIN size : \E first \in 1..size[s] :
                                   out[d] = Pages(s, first, size[s] - first + 1))'
    BY <1>1, <2>2 DEF Pages
  <2>5. QED
    BY <2>3, <2>4 DEF Gathers
<1>5. Owns(d)'
  BY <1>1, <1>2 DEF Fits, Owns
<1>6. QED
  BY <1>1, <1>2, <1>3, <1>4, <1>5 DEF Fits

\* What remains to be shown of a step of c.
LEMMA StepInv ==
  ASSUME GatewayInv, NEW c \in User, Apart(c), Grows, compat' = compat,
         written' \in {written, Late} \/ owner = c, ProgressOK', SessionsOK', Fits(c)'
  PROVE  GatewayInv'
<1>1. \A d \in User : Fits(d)'
  BY ApartFits
<1>2. QED
  BY <1>1 DEF GatewayInv

LEMMA FinishInv ==
  ASSUME GatewayInv, NEW c \in User, op[c] # "idle", NEW how, Finish(c, how),
         UNCHANGED <<compat, size, cursor, out, result>>, live' \subseteq live,
         written' = written \/ Call(c) = "write",
         \A d \in User : d # c => (owner' = d <=> owner = d),
         owner' = c => owner = c,
         how # "listed", how = "degraded" => compat = "incompatible"
  PROVE  GatewayInv'
<1>1. /\ op' = [op EXCEPT ![c] = "idle"] /\ at' = [at EXCEPT ![c] = 1]
      /\ hung' = [hung EXCEPT ![c] = FALSE] /\ said' = [said EXCEPT ![c] = how]
  BY DEF Finish, Drop, Told
<1>2. Fits(c) /\ ProgressOK /\ SessionsOK
  BY DEF GatewayInv
<1>3. Apart(c) /\ Grows
  BY <1>1, <1>2 DEF Apart, Grows, ProgressOK
<1>4. ProgressOK' /\ SessionsOK'
  BY <1>1, <1>2 DEF ProgressOK, SessionsOK, Position, HttpOps, CliOps,
     IndexOps, Root
<1>5. op'[c] = "idle" /\ at'[c] = 1 /\ ~ hung'[c] /\ said'[c] = how
  BY <1>1, <1>2 DEF ProgressOK
<1>6. Call(c) = "write" => owner = c /\ result[c] = "none"
  BY <1>2, Calls DEF Fits, Owns
<1>7. Fits(c)'
  BY <1>2, <1>5, <1>6 DEF Fits, Progresses, Gathers, Owns
<1>8. QED
  BY <1>3, <1>4, <1>6, <1>7, StepInv

\* The next call of a plan, with the tag acquired where that was the call.
LEMMA AdvanceInv ==
  ASSUME GatewayInv, NEW c \in User, op[c] # "idle", Advance(c),
         UNCHANGED <<compat, size, written, cursor, out, result>>,
         live' \subseteq live,
         \A d \in User : d # c => (owner' = d <=> owner = d),
         op[c] = "write" => owner' = c,
         owner' = c => owner = c \/ result[c] = "none"
  PROVE  GatewayInv'
<1>1. Fits(c) /\ ProgressOK /\ SessionsOK
  BY DEF GatewayInv
<1>2. CASE at[c] = Len(Plan(c))
  <2>1. /\ op' = [op EXCEPT ![c] = "idle"] /\ at' = [at EXCEPT ![c] = 1]
        /\ hung' = [hung EXCEPT ![c] = FALSE] /\ said' = [said EXCEPT ![c] = "ok"]
    BY <1>2 DEF Advance, Finish, Drop, Told
  <2>2. Apart(c) /\ Grows
    BY <2>1, <1>1 DEF Apart, Grows, ProgressOK
  <2>3. ProgressOK' /\ SessionsOK'
    BY <2>1, <1>1 DEF ProgressOK, SessionsOK, Position, HttpOps, CliOps,
       IndexOps, Root
  <2>4. op'[c] = "idle" /\ at'[c] = 1 /\ ~ hung'[c] /\ said'[c] = "ok"
    BY <2>1, <1>1 DEF ProgressOK
  <2>5. Fits(c)'
    BY <1>1, <2>4 DEF Fits, Progresses, Gathers, Owns
  <2>6. QED
    BY <2>2, <2>3, <2>5, StepInv
<1>3. CASE at[c] # Len(Plan(c))
  <2>1. /\ at' = [at EXCEPT ![c] = @ + 1] /\ hung' = [hung EXCEPT ![c] = FALSE]
        /\ UNCHANGED <<op, said>>
    BY <1>3 DEF Advance
  <2>2. Apart(c) /\ Grows
    BY <2>1, <1>1 DEF Apart, Grows, ProgressOK
  <2>3. ProgressOK' /\ SessionsOK'
    BY <2>1, <1>1 DEF ProgressOK, SessionsOK, Position, HttpOps, CliOps,
       IndexOps, Root
  <2>4. op'[c] = op[c] /\ at'[c] = at[c] + 1 /\ said'[c] = said[c]
    BY <2>1, <1>1 DEF ProgressOK
  <2>5. at[c] < Len(Plan(c))
    BY <1>1, <1>3, Calls DEF Fits, Progresses, ProgressOK, Position
  <2>6. Progresses(c)'
    BY <1>1, <2>4, <2>5, PlanKept DEF Fits, Progresses, ProgressOK, Position, OpsOf,
       HttpOps, CliOps, IndexOps
  <2>7. Gathers(c)'
    BY <1>1, <2>4 DEF Fits, Gathers, Pages
  <2>8. op[c] = "write" => at[c] # 4
    BY <1>3, Calls
  <2>9. Owns(c)'
    BY <1>1, <2>4, <2>8 DEF Fits, Owns
  <2>10. QED
    BY <1>1, <2>2, <2>3, <2>4, <2>6, <2>7, <2>9, StepInv DEF Fits
<1>4. QED
  BY <1>2, <1>3

\* What map_bridge_error_for can make of an error, and a deadline that passed.
Errors == {"incompatible", "connect", "index_rejected", "browse_state_invalid", "operation",
           "timeout"}

LEMMA RefusedInv ==
  ASSUME GatewayInv, NEW c \in User, op[c] # "idle", NEW error \in Errors,
         error = "incompatible" => compat = "incompatible",
         Refused(c, error), UNCHANGED <<compat, size, owner, cursor, out>>,
         live' \subseteq live, written' = written \/ Call(c) = "write"
  PROVE  GatewayInv'
<1>1. Fits(c) /\ ProgressOK /\ SessionsOK
  BY DEF GatewayInv
<1>2. CASE Call(c) = "inspect"
  <2>1. Advance(c) /\ UNCHANGED result /\ op[c] # "write"
    BY <1>2, Calls DEF Refused
  <2>2. written' = written
    BY <1>2
  <2>3. QED
    BY <2>1, <2>2, AdvanceInv
<1>3. CASE /\ Call(c) # "inspect"
           /\ op[c] = "write" /\ Call(c) \in {"connect", "write"}
  <2>1. /\ result' = [result EXCEPT ![c] = "failed"] /\ at' = [at EXCEPT ![c] = 4]
        /\ hung' = [hung EXCEPT ![c] = FALSE] /\ UNCHANGED <<op, said>>
    BY <1>3 DEF Refused, WriteCommand
  <2>2. Apart(c) /\ Grows
    BY <2>1, <1>1 DEF Apart, Grows, ProgressOK
  <2>3. ProgressOK' /\ SessionsOK'
    BY <2>1, <1>1 DEF ProgressOK, SessionsOK, Position, Root
  <2>4. /\ op'[c] = "write" /\ at'[c] = 4 /\ said'[c] = said[c] /\ result'[c] = "failed"
    BY <2>1, <1>1, <1>3 DEF ProgressOK
  <2>5. owner = c
    BY <1>1, <1>3, Calls DEF Fits, Owns, ProgressOK, Position
  <2>6. Len(Plan(c))' = 4
    BY <1>3, <2>4, Calls, PlanKept
  <2>7. Progresses(c)'
    BY <1>1, <1>3, <2>4, <2>6 DEF Fits, Progresses, OpsOf,
       HttpOps, CliOps, IndexOps
  <2>8. QED
    BY <1>1, <1>3, <2>2, <2>3, <2>4, <2>5, <2>7, StepInv DEF Fits, Gathers, Owns, Progresses
<1>4. CASE /\ Call(c) # "inspect"
           /\ ~ (op[c] = "write" /\ Call(c) \in {"connect", "write"})
  <2>1. /\ Finish(c, IF Degrades(c, error) THEN "degraded" ELSE error)
        /\ UNCHANGED result
    BY <1>4 DEF Refused
  <2>2. CASE Degrades(c, error)
    <3>1. compat = "incompatible"
      BY <2>2 DEF Degrades
    <3>2. PICK how : Finish(c, how) /\ how = "degraded"
      BY <2>1, <2>2
    <3>3. QED
      BY <2>1, <3>1, <3>2, FinishInv
  <2>3. CASE ~ Degrades(c, error)
    <3>1. Finish(c, error)
      BY <2>1, <2>3
    <3>2. QED
      BY <2>1, <3>1, FinishInv DEF Errors
  <2>4. QED
    BY <2>2, <2>3
<1>5. QED
  BY <1>2, <1>3, <1>4

-----------------------------------------------------------------------------
(* Each action.                                                            *)

LEMMA InitGateway ==
  ASSUME GatewayInit
  PROVE  GatewayInv
<1>1. ProgressOK
  BY DEF GatewayInit, User, User, ProgressOK, Position
<1>2. size \in Seq(Position)
  <2>1. CASE size = <<>>
    BY <2>1
  <2>2. CASE size \in {<<n>> : n \in PageCounts}
    <3>1. PICK n \in PageCounts : size = <<n>>
      BY <2>2
    <3>2. n \in Position
      BY GatewayAssumption DEF Position
    <3>3. QED
      BY <3>1, <3>2
  <2>3. QED
    BY <2>1, <2>2 DEF GatewayInit
<1>3. SessionsOK
  BY <1>2 DEF GatewayInit, User, User, SessionsOK
<1>4. ASSUME NEW c \in User PROVE Fits(c)
  BY DEF GatewayInit, User, User, Fits, Progresses, Gathers, Owns
<1>5. QED
  BY <1>1, <1>3, <1>4 DEF GatewayInv

LEMMA BeginInv ==
  ASSUME GatewayInv, NEW c \in User, NEW o \in Ops(c), Begin(c, o)
  PROVE  GatewayInv'
<1>1. ProgressOK /\ SessionsOK /\ Fits(c)
  BY DEF GatewayInv
<1>2. PICK k \in Cursors(o) : cursor' = [cursor EXCEPT ![c] = k]
  BY DEF Begin
<1>3. /\ op' = [op EXCEPT ![c] = o] /\ out' = [out EXCEPT ![c] = <<>>]
      /\ result' = [result EXCEPT ![c] = "none"] /\ said' = [said EXCEPT ![c] = "none"]
      /\ UNCHANGED <<compat, size, live, searching, index, owner, written, at, hung>>
      /\ op[c] = "idle"
  BY DEF Begin, Told, gateway, Busy
<1>4. o \in OpsOf(c) /\ o \in HttpOps \cup CliOps
  BY DEF OpsOf, Ops
<1>5. k \in {Root} \cup [session : DOMAIN size, page : Position]
  <2>1. 1..MaxPages \subseteq Position
    BY DEF Position
  <2>2. QED
    BY <2>1 DEF Cursors
<1>6. ProgressOK'
  BY <1>1, <1>3, <1>4 DEF ProgressOK, HttpOps, CliOps, IndexOps
<1>7. SessionsOK'
  BY <1>1, <1>2, <1>3, <1>5 DEF SessionsOK, Root
<1>8. Apart(c) /\ Grows
  BY <1>1, <1>2, <1>3 DEF Apart, Grows, ProgressOK, SessionsOK
<1>9. /\ op'[c] = o /\ at'[c] = 1 /\ out'[c] = <<>> /\ result'[c] = "none" /\ said'[c] = "none"
  BY <1>1, <1>3 DEF ProgressOK, Fits, Progresses
<1>10. o # "idle"
  BY <1>4 DEF HttpOps, CliOps, IndexOps
<1>11. Len(Plan(c))' >= 1
  <2>1. CASE c \in Http
    BY <1>4, <1>9, <2>1 DEF OpsOf, Plan, HttpOps, IndexOps,
       HttpPlan, ServersPlan, CapabilitiesPlan, BrowsePlan,
       ClosePlan, SearchPlan, ReadPlan, IndexPlan
  <2>2. CASE c \notin Http
    BY <1>4, <1>9, <2>2 DEF OpsOf, Plan, CliOps, CliPlan,
       InfoCommand, ServersCommand, ReadCommand, WriteCommand,
       BrowseCommand, CloseCommand, SearchCommand, IndexPlan
  <2>3. QED
    BY <2>1, <2>2
<1>12. Progresses(c)'
  BY <1>4, <1>9, <1>10, <1>11 DEF Progresses, OpsOf, HttpOps, CliOps,
     IndexOps
<1>13. Fits(c)'
  BY <1>9, <1>12 DEF Fits, Gathers, Owns
<1>14. QED
  BY <1>3, <1>6, <1>7, <1>8, <1>13, StepInv

LEMMA RefuseRequestInv ==
  ASSUME GatewayInv, NEW c \in User, RefuseRequest(c)
  PROVE  GatewayInv'
<1>1. ProgressOK /\ SessionsOK /\ Fits(c)
  BY DEF GatewayInv
<1>2. /\ said' = [said EXCEPT ![c] = "bad_request"] /\ op[c] = "idle"
      /\ UNCHANGED <<compat, size, live, searching, index, owner, written, op, at, hung, cursor,
                     out, result>>
  BY DEF RefuseRequest, Told, gateway, progress, Busy
<1>3. ProgressOK' /\ SessionsOK' /\ Apart(c) /\ Grows
  BY <1>1, <1>2 DEF ProgressOK, SessionsOK, Apart, Grows, HttpOps, CliOps,
     IndexOps, Root
<1>4. said'[c] = "bad_request"
  BY <1>1, <1>2 DEF ProgressOK
<1>5. Fits(c)'
  BY <1>1, <1>2, <1>4 DEF Fits, Progresses, Gathers, Owns
<1>6. QED
  BY <1>2, <1>3, <1>5, StepInv

LEMMA AskedInv ==
  ASSUME GatewayInv, NEW c \in User, Asked(c)
  PROVE  GatewayInv'
<1>1. PICK call \in {"connect", "list", "info", "compat", "inspect", "caps", "read",
                     "index_status", "index_search"} : op[c] # "idle" /\ Call(c) = call
  BY DEF Asked, Waits, Busy
<1>2. Advance(c)
      /\ UNCHANGED <<compat, size, live, owner, written, cursor, out, result>>
  BY DEF Asked
<1>3. Fits(c) /\ ProgressOK
  BY DEF GatewayInv
<1>4. op[c] = "write" => owner = c
  BY <1>1, <1>3, Calls DEF Fits, Owns, ProgressOK, Position
<1>5. QED
  BY <1>1, <1>2, <1>4, AdvanceInv

LEMMA FailsInv ==
  ASSUME GatewayInv, NEW c \in User, Fails(c)
  PROVE  GatewayInv'
<1>1. PICK code \in {"unreachable", "rpc"} \cup
                    IF Unserved(Call(c)) THEN {"incompatible"} ELSE {} :
          Refused(c, MapBridgeError(code, Call(c)))
  BY DEF Fails
<1>2. /\ op[c] # "idle" /\ UNCHANGED <<compat, size, live, owner, cursor, out>>
      /\ written' = written \/ Call(c) = "write"
  BY DEF Fails, GivesUp, Busy
<1>3. MapBridgeError(code, Call(c)) \in Errors
  BY DEF MapBridgeError, Errors
<1>4. code = "incompatible" => compat = "incompatible"
  BY <1>1 DEF Unserved
<1>5. MapBridgeError(code, Call(c)) = "incompatible" => code = "incompatible"
  BY DEF MapBridgeError
<1>6. QED
  BY <1>1, <1>2, <1>3, <1>4, <1>5, RefusedInv

LEMMA TimeOutInv ==
  ASSUME GatewayInv, NEW c \in User, TimeOut(c)
  PROVE  GatewayInv'
<1>1. /\ Refused(c, "timeout")
      /\ UNCHANGED <<compat, size, live, owner, written, cursor, out>>
      /\ op[c] # "idle"
  BY DEF TimeOut, GatewayInv, Fits, Progresses
<1>2. QED
  BY <1>1, RefusedInv DEF Errors

LEMMA HangsInv ==
  ASSUME GatewayInv, NEW c \in User, Hangs(c)
  PROVE  GatewayInv'
<1>1. ProgressOK /\ SessionsOK /\ Fits(c)
  BY DEF GatewayInv
<1>2. /\ hung' = [hung EXCEPT ![c] = TRUE] /\ op[c] # "idle"
      /\ UNCHANGED <<compat, size, live, owner, written, op, at, cursor, out, result, said>>
  BY DEF Hangs, gateway, told, Busy
<1>3. ProgressOK' /\ SessionsOK' /\ Apart(c) /\ Grows
  BY <1>1, <1>2 DEF ProgressOK, SessionsOK, Apart, Grows, HttpOps, CliOps,
     IndexOps, Root
<1>4. Progresses(c)'
  BY <1>1, <1>2, PlanKept DEF Fits, Progresses, OpsOf, HttpOps, CliOps,
     IndexOps
<1>5. Gathers(c)'
  BY <1>1, <1>2 DEF Fits, Gathers, Pages
<1>6. Owns(c)'
  BY <1>1, <1>2 DEF Fits, Owns
<1>7. QED
  BY <1>1, <1>2, <1>3, <1>4, <1>5, <1>6, StepInv DEF Fits

LEMMA LeavesInv ==
  ASSUME GatewayInv, NEW c \in User, Disconnect(c) \/ Interrupt(c)
  PROVE  GatewayInv'
<1>1. /\ Finish(c, "dropped") /\ op[c] # "idle"
      /\ UNCHANGED <<compat, size, live, owner, cursor, out, result>>
      /\ written' = written \/ Call(c) = "write"
  BY DEF Disconnect, Interrupt, GivesUp, Busy
<1>2. QED
  BY <1>1, FinishInv

LEMMA CloseSessionInv ==
  ASSUME GatewayInv, NEW c \in User, CloseSession(c)
  PROVE  GatewayInv'
<1>1. /\ op[c] # "idle" /\ Call(c) = "close" /\ live' \subseteq live
      /\ UNCHANGED <<compat, size, owner, written, cursor, out>>
  BY DEF CloseSession, Waits, Busy
<1>2. CASE Advance(c) /\ UNCHANGED result
  <2>1. op[c] = "write" => owner = c
    BY <1>1, Calls DEF GatewayInv, Fits, Owns, ProgressOK, Position
  <2>2. QED
    BY <1>1, <1>2, <2>1, AdvanceInv
<1>3. CASE Refused(c, MapBridgeError("not_found", "close"))
  <2>1. MapBridgeError("not_found", "close") = "browse_state_invalid"
    BY DEF MapBridgeError
  <2>2. QED
    BY <1>1, <1>3, <2>1, RefusedInv DEF Errors
<1>4. QED
  BY <1>2, <1>3 DEF CloseSession

LEMMA StartSearchInv ==
  ASSUME GatewayInv, NEW c \in User, StartSearch(c)
  PROVE  GatewayInv'
<1>1. ProgressOK /\ SessionsOK /\ Fits(c)
  BY DEF GatewayInv
<1>2. /\ at' = [at EXCEPT ![c] = @ + 1] /\ op[c] # "idle" /\ Call(c) = "search"
      /\ UNCHANGED <<compat, size, live, owner, written, op, hung, cursor, out, result, said>>
  BY DEF StartSearch, Waits, told, Busy
<1>3. ProgressOK' /\ SessionsOK' /\ Apart(c) /\ Grows
  BY <1>1, <1>2 DEF ProgressOK, SessionsOK, Apart, Grows, Position, HttpOps,
     CliOps, IndexOps, Root
<1>4. op[c] = "search" /\ at[c] < Len(Plan(c)) /\ at'[c] = at[c] + 1
  BY <1>1, <1>2, Calls DEF ProgressOK
<1>5. Len(Plan(c))' = Len(Plan(c)) /\ Len(Plan(c)) = 3
  BY <1>2, <1>4, PlanKept DEF Plan, HttpPlan, CliPlan,
     SearchPlan, SearchCommand
<1>6. Progresses(c)'
  BY <1>1, <1>2, <1>4, <1>5 DEF Fits, Progresses, OpsOf, ProgressOK, Position,
     HttpOps, CliOps, IndexOps
<1>7. Gathers(c)' /\ Owns(c)'
  BY <1>1, <1>2, <1>4 DEF Fits, Gathers, Owns, Pages
<1>8. QED
  BY <1>1, <1>2, <1>3, <1>6, <1>7, StepInv DEF Fits

LEMMA SearchCompletedInv ==
  ASSUME GatewayInv, NEW c \in User, SearchCompleted(c)
  PROVE  GatewayInv'
<1>1. /\ Finish(c, "ok") /\ op[c] # "idle"
      /\ UNCHANGED <<compat, size, live, owner, written, cursor, out, result>>
  BY DEF SearchCompleted, Waits, Busy
<1>2. QED
  BY <1>1, FinishInv

LEMMA IndexCallInv ==
  ASSUME GatewayInv, NEW c \in User, IndexCall(c)
  PROVE  GatewayInv'
<1>1. PICK call \in IndexOps \ {"index_status", "index_search"} :
          /\ op[c] # "idle" /\ Call(c) = call
          /\ \E after \in IndexAfter(call) :
                IF after = Nil
                THEN Refused(c, MapBridgeError("precondition", call))
                ELSE Advance(c) /\ UNCHANGED result
  BY DEF IndexCall, Waits, Busy
<1>2. UNCHANGED <<compat, size, live, owner, written, cursor, out>>
  BY DEF IndexCall
<1>3. op[c] = "write" => owner = c
  BY <1>1, Calls DEF GatewayInv, Fits, Owns, ProgressOK, Position, IndexOps
<1>4. CASE Refused(c, MapBridgeError("precondition", call))
  <2>1. MapBridgeError("precondition", call) \in Errors \ {"incompatible"}
    BY DEF MapBridgeError, Errors
  <2>2. QED
    BY <1>2, <1>4, <1>1, <2>1, RefusedInv
<1>5. CASE Advance(c) /\ UNCHANGED result
  BY <1>1, <1>2, <1>3, <1>5, AdvanceInv
<1>6. QED
  BY <1>1, <1>4, <1>5

LEMMA AcquireTagInv ==
  ASSUME GatewayInv, NEW c \in User, AcquireTag(c)
  PROVE  GatewayInv'
<1>1. /\ op[c] # "idle" /\ Call(c) = "acquire"
      /\ UNCHANGED <<compat, size, live, written, cursor, out, result>>
  BY DEF AcquireTag, Waits, Busy
<1>2. op[c] = "write" /\ at[c] = 1
  BY <1>1, Calls
<1>3. result[c] = "none"
  BY <1>2 DEF GatewayInv, Fits, Owns
<1>4. CASE owner = Nil /\ owner' = c /\ Advance(c)
  <2>1. \A d \in User : d # Nil
    BY GatewayAssumption DEF User
  <2>2. QED
    BY <1>1, <1>2, <1>3, <1>4, <2>1, AdvanceInv
<1>5. CASE UNCHANGED owner /\ Finish(c, "not_acquired")
  BY <1>1, <1>5, FinishInv
<1>6. QED
  BY <1>4, <1>5 DEF AcquireTag

LEMMA WriteTagInv ==
  ASSUME GatewayInv, NEW c \in User, WriteTag(c)
  PROVE  GatewayInv'
<1>1. ProgressOK /\ SessionsOK /\ Fits(c)
  BY DEF GatewayInv
<1>2. /\ op[c] # "idle" /\ Call(c) = "write"
      /\ UNCHANGED <<compat, size, live, owner, cursor, out>>
  BY DEF WriteTag, Waits, Busy
<1>3. op[c] = "write" /\ at[c] = 3 /\ owner = c /\ Len(Plan(c)) = 4
  BY <1>1, <1>2, Calls DEF Fits, Owns
<1>4. /\ at' = [at EXCEPT ![c] = @ + 1] /\ hung' = [hung EXCEPT ![c] = FALSE]
      /\ UNCHANGED <<op, said>>
  BY <1>3 DEF WriteTag, Advance
<1>5. \/ written' = c /\ result' = [result EXCEPT ![c] = "accepted"]
      \/ UNCHANGED written /\ result' = [result EXCEPT ![c] = "rejected"]
  BY DEF WriteTag
<1>6. ProgressOK' /\ SessionsOK'
  <2>1. result' \in [User -> {"none", "failed", "accepted", "rejected"}]
    BY <1>1, <1>5 DEF ProgressOK
  <2>2. ProgressOK'
    <3>1. at' \in [User -> Position] /\ DOMAIN hung' = User
      BY <1>1, <1>4 DEF ProgressOK, Position
    <3>2. QED
      BY <1>1, <1>2, <1>4, <2>1, <3>1 DEF ProgressOK, HttpOps, CliOps,
         IndexOps
  <2>3. SessionsOK'
    BY <1>1, <1>2 DEF SessionsOK, Root
  <2>4. QED
    BY <2>2, <2>3
<1>7. Apart(c) /\ Grows
  BY <1>1, <1>2, <1>4, <1>5 DEF Apart, Grows, ProgressOK
<1>8. op'[c] = "write" /\ at'[c] = 4 /\ said'[c] = said[c]
  BY <1>1, <1>3, <1>4 DEF ProgressOK
<1>9. Len(Plan(c))' = 4
  BY <1>3, <1>4, PlanKept
<1>10. Progresses(c)'
  BY <1>1, <1>3, <1>8, <1>9 DEF Fits, Progresses, OpsOf, HttpOps, CliOps,
     IndexOps
<1>11. result'[c] = "accepted" => written' = c
  BY <1>1, <1>5 DEF ProgressOK
<1>12. Fits(c)'
  BY <1>1, <1>2, <1>3, <1>8, <1>10, <1>11 DEF Fits, Gathers, Owns, Progresses
<1>13. QED
  BY <1>2, <1>3, <1>6, <1>7, <1>12, StepInv

LEMMA ReleaseTagInv ==
  ASSUME GatewayInv, NEW c \in User, ReleaseTag(c)
  PROVE  GatewayInv'
<1>1. /\ op[c] # "idle" /\ Call(c) = "release"
      /\ UNCHANGED <<compat, size, live, written, cursor, out, result>>
  BY DEF ReleaseTag, Waits, Busy
<1>2. PICK released \in BOOLEAN :
          /\ owner' = IF released THEN Nil ELSE owner
          /\ Finish(c, CombineWriteAndRelease(result[c], released))
  BY DEF ReleaseTag
<1>3. owner = c
  BY <1>1, Calls DEF GatewayInv, Fits, Owns
<1>4. \A d \in User : d # Nil
  BY GatewayAssumption DEF User
<1>5. CombineWriteAndRelease(result[c], released) \notin {"listed", "degraded"}
  BY DEF CombineWriteAndRelease
<1>6. QED
  BY <1>1, <1>2, <1>3, <1>4, <1>5, FinishInv

\* A run of pages up to the one before page, and the same with that page.
Gathered(list, s, page) ==
    \E first, n \in Position : list = Pages(s, first, n) /\ page = first + n

LEMMA MorePages ==
  ASSUME NEW s, NEW page \in Position, NEW list, list = <<>> \/ Gathered(list, s, page)
  PROVE  Gathered(Append(list, [session |-> s, page |-> page]), s, page + 1)
<1>1. ASSUME NEW first \in Position, NEW n \in Nat, list = Pages(s, first, n), page = first + n
      PROVE  Gathered(Append(list, [session |-> s, page |-> page]), s, page + 1)
  <2>1. Pages(s, first, n) \in Seq([session : {s}, page : Nat]) /\ Len(Pages(s, first, n)) = n
    BY DEF Pages, Position
  <2>2. Pages(s, first, n + 1) \in Seq([session : {s}, page : Nat])
        /\ Len(Pages(s, first, n + 1)) = n + 1
    BY DEF Pages, Position
  <2>3. \A i \in 1..n : Pages(s, first, n)[i] = Pages(s, first, n + 1)[i]
    BY DEF Pages
  <2>4. Pages(s, first, n + 1)[n + 1] = [session |-> s, page |-> page]
    BY <1>1 DEF Pages, Position
  <2>5. Append(list, [session |-> s, page |-> page]) = Pages(s, first, n + 1)
    BY <1>1, <2>1, <2>2, <2>3, <2>4 DEF Position
  <2>6. n + 1 \in Position /\ page + 1 = first + (n + 1)
    BY <1>1 DEF Position
  <2>7. QED
    BY <2>5, <2>6 DEF Gathered
<1>2. CASE list = <<>>
  <2>1. list = Pages(s, page, 0)
    BY <1>2 DEF Pages
  <2>2. 0 \in Nat /\ page = page + 0
    BY DEF Position
  <2>3. QED
    BY <1>1, <2>1, <2>2
<1>3. CASE Gathered(list, s, page)
  <2>1. PICK first, n \in Position : list = Pages(s, first, n) /\ page = first + n
    BY <1>3 DEF Gathered
  <2>2. n \in Nat
    BY DEF Position
  <2>3. QED
    BY <1>1, <2>1, <2>2
<1>4. QED
  BY <1>2, <1>3

LEMMA BrowsedInv ==
  ASSUME GatewayInv, NEW c \in User, op[c] \in {"browse", "browse_all"},
         size' \in Seq(Position), live' \subseteq DOMAIN size', Grows,
         UNCHANGED <<compat, owner, written, result>>,
         NEW s \in DOMAIN size', Browsed(c, s),
         cursor[c].page <= size'[s],
         op[c] = "browse_all" => out[c] = <<>> \/ cursor[c].session = s
  PROVE  GatewayInv'
<1>1. ProgressOK /\ SessionsOK /\ Fits(c)
  BY DEF GatewayInv
<1> PICK page \in Position : page = cursor[c].page
  BY <1>1 DEF SessionsOK, Root, Position
<1> PICK got : got = Append(out[c], [session |-> s, page |-> page])
  OBVIOUS
<1>2. out' = [out EXCEPT ![c] = got]
  BY DEF Browsed
<1>3. out'[c] = got
  BY <1>1, <1>2 DEF ProgressOK
<1>4. op[c] = "browse_all" => Gathered(out'[c], s, page + 1)
  <2>1. op[c] = "browse_all" => out[c] = <<>> \/ Gathered(out[c], s, page)
    BY <1>1 DEF Fits, Gathers, Gathered
  <2>2. QED
    BY <1>3, <2>1, MorePages
<1>5. \A k \in [session : DOMAIN size, page : Position] :
          k \in [session : DOMAIN size', page : Position]
  BY DEF Grows
<1>6. CASE \E how : /\ Finish(c, how) /\ UNCHANGED cursor
                    /\ how \in {"ok", "too_many_pages", "listed"}
                    /\ how = "listed" => op[c] = "browse_all" /\ page = size'[s]
  <2>1. PICK how : /\ Finish(c, how) /\ UNCHANGED cursor
                   /\ how \in {"ok", "too_many_pages", "listed"}
                   /\ how = "listed" => op[c] = "browse_all" /\ page = size'[s]
    BY <1>6
  <2>2. /\ op' = [op EXCEPT ![c] = "idle"] /\ at' = [at EXCEPT ![c] = 1]
        /\ hung' = [hung EXCEPT ![c] = FALSE] /\ said' = [said EXCEPT ![c] = how]
    BY <2>1 DEF Finish, Drop, Told
  <2>3. ProgressOK'
    BY <1>1, <1>2, <2>2 DEF ProgressOK, Position, HttpOps, CliOps,
       IndexOps
  <2>4. SessionsOK'
    BY <1>1, <1>5, <2>1 DEF SessionsOK, Root
  <2>5. Apart(c)
    BY <1>1, <1>2, <2>1, <2>2 DEF Apart, ProgressOK
  <2>6. op'[c] = "idle" /\ at'[c] = 1 /\ ~ hung'[c] /\ said'[c] = how
    BY <1>1, <2>2 DEF ProgressOK
  <2>7. ASSUME how = "listed"
        PROVE  \E t \in DOMAIN size' : \E first \in 1..size'[t] :
                   out'[c] = Pages(t, first, size'[t] - first + 1)
    <3>1. PICK first, n \in Position : out'[c] = Pages(s, first, n) /\ page + 1 = first + n
      BY <1>4, <2>1, <2>7 DEF Gathered
    <3>2. first \in 1..size'[s] /\ n = size'[s] - first + 1
      <4>1. page = size'[s] /\ first \in Nat /\ n \in Nat /\ first > 0 /\ n > 0 /\ page \in Nat
        BY <2>1, <2>7 DEF Position
      <4>2. \A last, from, many \in Nat : last + 1 = from + many /\ from > 0 /\ many > 0 =>
                from \in 1..last /\ many = last - from + 1
        OBVIOUS
      <4>3. first \in 1..page /\ n = page - first + 1
        BY <3>1, <4>1, <4>2
      <4>4. QED
        BY <4>1, <4>3
    <3>3. QED
      BY <3>1, <3>2
  <2>8. Gathers(c)'
    <3>1. op'[c] # "browse_all"
      BY <2>6
    <3>2. (said[c] = "listed" => \E t \in DOMAIN size : \E first \in 1..size[t] :
                                     out[c] = Pages(t, first, size[t] - first + 1))'
      BY <2>6, <2>7 DEF Pages
    <3>3. QED
      BY <3>1, <3>2 DEF Gathers
  <2>9. Owns(c)' /\ Progresses(c)'
    BY <1>1, <2>6 DEF Fits, Owns, Progresses
  <2>10. QED
    BY <2>1, <2>3, <2>4, <2>5, <2>6, <2>8, <2>9, StepInv DEF Fits
<1>7. CASE /\ op[c] = "browse_all"
           /\ cursor' = [cursor EXCEPT ![c] = [session |-> s, page |-> page + 1]]
           /\ UNCHANGED <<op, at, hung, said>>
  <2>1. ProgressOK'
    BY <1>1, <1>2, <1>7 DEF ProgressOK, HttpOps, CliOps, IndexOps
  <2>2. [session |-> s, page |-> page + 1] \in [session : DOMAIN size', page : Position]
    BY <1>2 DEF Position
  <2>3. SessionsOK'
    BY <1>1, <1>5, <1>7, <2>2 DEF SessionsOK, Root
  <2>4. Apart(c)
    BY <1>1, <1>2, <1>7 DEF Apart, ProgressOK, SessionsOK
  <2>5. cursor'[c].session = s /\ cursor'[c].page = page + 1
    BY <1>1, <1>7 DEF SessionsOK
  <2>6. Progresses(c)'
    BY <1>1, <1>7, PlanKept DEF Fits, Progresses, OpsOf, HttpOps, CliOps,
       IndexOps
  <2>7. said'[c] # "listed"
    BY <1>1, <1>7 DEF Fits, Progresses
  <2>8. PICK first, n \in Position : out'[c] = Pages(s, first, n) /\ page + 1 = first + n
    BY <1>4, <1>7 DEF Gathered
  <2>9. (\E f, m \in Position : /\ cursor[c].session \in DOMAIN size
                                /\ out[c] = Pages(cursor[c].session, f, m)
                                /\ cursor[c].page = f + m)'
    BY <2>5, <2>8 DEF Pages
  <2>10. Gathers(c)'
    BY <2>7, <2>9 DEF Gathers
  <2>11. Owns(c)'
    BY <1>1, <1>7 DEF Fits, Owns
  <2>12. QED
    BY <1>1, <1>7, <2>1, <2>3, <2>4, <2>6, <2>10, <2>11, StepInv DEF Fits
<1>8. QED
  <2>1. CASE op[c] # "browse_all" \/ page = size'[s]
    <3>1. Finish(c, IF op[c] = "browse_all" THEN "listed" ELSE "ok") /\ UNCHANGED cursor
      BY <2>1 DEF Browsed
    <3>2. QED
      BY <1>6, <2>1, <3>1
  <2>2. CASE ~ (op[c] # "browse_all" \/ page = size'[s]) /\ Len(got) >= MaxPages
    <3>1. Finish(c, "too_many_pages") /\ UNCHANGED cursor
      BY <2>2 DEF Browsed
    <3>2. QED
      BY <1>6, <3>1
  <2>3. CASE ~ (op[c] # "browse_all" \/ page = size'[s]) /\ ~ (Len(got) >= MaxPages)
    BY <1>7, <2>3 DEF Browsed
  <2>4. QED
    BY <2>1, <2>2, <2>3

LEMMA OpenSessionInv ==
  ASSUME GatewayInv, NEW c \in User, OpenSession(c)
  PROVE  GatewayInv'
<1>1. ProgressOK /\ SessionsOK /\ Fits(c)
  BY DEF GatewayInv
<1>2. /\ op[c] # "idle" /\ Call(c) = "browse" /\ cursor[c].session = Nil
      /\ live' = live \cup {Len(size) + 1} /\ Browsed(c, Len(size) + 1)
      /\ UNCHANGED <<compat, owner, written, result>>
  BY DEF OpenSession, Waits, Busy
<1>3. PICK n \in PageCounts : size' = Append(size, n)
  BY DEF OpenSession
<1>4. n \in Position /\ Nil \notin Nat
  BY GatewayAssumption DEF Position
<1>5. /\ size' \in Seq(Position) /\ DOMAIN size = 1..Len(size) /\ Len(size) \in Nat
      /\ DOMAIN size' = 1..(Len(size) + 1) /\ size'[Len(size) + 1] = n
      /\ \A i \in 1..Len(size) : size'[i] = size[i]
  BY <1>1, <1>3, <1>4 DEF SessionsOK
<1>6. Nil \notin DOMAIN size
  BY <1>4, <1>5
<1>7. cursor[c] = Root
  BY <1>1, <1>2, <1>6 DEF SessionsOK
<1>8. cursor[c].page <= size'[Len(size) + 1]
  BY <1>4, <1>5, <1>7 DEF Root, Position
<1>9. op[c] = "browse_all" => out[c] = <<>>
  BY <1>1, <1>2, <1>6 DEF Fits, Gathers
<1>10. Grows /\ live' \subseteq DOMAIN size' /\ Len(size) + 1 \in DOMAIN size'
  BY <1>1, <1>2, <1>5 DEF Grows, SessionsOK
<1>11. op[c] \in {"browse", "browse_all"}
  BY <1>2, Calls
<1>12. QED
  BY <1>2, <1>5, <1>8, <1>9, <1>10, <1>11, BrowsedInv

LEMMA ContinueSessionInv ==
  ASSUME GatewayInv, NEW c \in User, ContinueSession(c)
  PROVE  GatewayInv'
<1>1. ProgressOK /\ SessionsOK /\ Fits(c)
  BY DEF GatewayInv
<1>2. /\ op[c] # "idle" /\ Call(c) = "browse"
      /\ UNCHANGED <<compat, size, live, owner, written>>
  BY DEF ContinueSession, Waits, Busy
<1>3. op[c] \in {"browse", "browse_all"}
  BY <1>2, Calls
<1>4. CASE cursor[c].session \in live /\ cursor[c].page <= size[cursor[c].session]
  <2>1. Browsed(c, cursor[c].session) /\ UNCHANGED result
    BY <1>4 DEF ContinueSession
  <2>2. cursor[c].session \in DOMAIN size' /\ Grows /\ size' \in Seq(Position)
        /\ live' \subseteq DOMAIN size' /\ cursor[c].page <= size'[cursor[c].session]
    BY <1>1, <1>2, <1>4 DEF SessionsOK, Grows
  <2>3. QED
    BY <1>2, <1>3, <2>1, <2>2, BrowsedInv
<1>5. CASE ~ (cursor[c].session \in live /\ cursor[c].page <= size[cursor[c].session])
  <2>1. /\ Refused(c, MapBridgeError("not_found", "browse"))
        /\ UNCHANGED <<cursor, out>>
    BY <1>5 DEF ContinueSession
  <2>2. MapBridgeError("not_found", "browse") = "browse_state_invalid"
    BY DEF MapBridgeError
  <2>3. QED
    BY <1>2, <2>1, <2>2, RefusedInv DEF Errors
<1>6. QED
  BY <1>4, <1>5

\* What no client notices: the gateway forgets, its index is ready, an event;
\* a late write lands; the owner nobody runs any more is retired.
LEMMA UnnoticedInv ==
  ASSUME GatewayInv, live' \subseteq live, written' \in {written, Late},
         owner' = owner \/ (owner' = Nil /\ ~ (op[owner] = "write" /\ at[owner] > 1)),
         UNCHANGED <<compat, size, op, at, hung, cursor, out, result, said>>
  PROVE  GatewayInv'
<1>1. ProgressOK' /\ SessionsOK'
  BY DEF GatewayInv, ProgressOK, SessionsOK, HttpOps, CliOps, IndexOps,
     Root
<1>2. ASSUME NEW c \in User PROVE Fits(c)'
  <2>1. Fits(c)
    BY DEF GatewayInv
  <2>2. Progresses(c)'
    BY <2>1, PlanKept DEF Fits, Progresses, OpsOf, HttpOps, CliOps,
       IndexOps
  <2>3. Gathers(c)'
    BY <2>1 DEF Fits, Gathers, Pages
  <2>4. Owns(c)'
    <3>1. c # Nil
      BY GatewayAssumption DEF User
    <3>2. QED
      BY <2>1, <3>1 DEF Fits, Owns
  <2>5. QED
    BY <2>1, <2>2, <2>3, <2>4 DEF Fits
<1>3. QED
  BY <1>1, <1>2 DEF GatewayInv

LEMMA NextGatewayInv ==
  ASSUME GatewayInv, [GatewayNext]_gatewayVars
  PROVE  GatewayInv'
<1>1. ASSUME NEW c \in User, Proceed(c)
      PROVE  GatewayInv'
  <2>1. c \in User
    BY DEF User, User
  <2>2. CASE SearchEvent(c)
    BY <2>2, UnnoticedInv DEF SearchEvent, gateway, progress,
       told
  <2>3. QED
    BY <1>1, <2>1, <2>2, AskedInv, FailsInv, HangsInv, TimeOutInv, OpenSessionInv,
       ContinueSessionInv, CloseSessionInv, StartSearchInv, SearchCompletedInv, IndexCallInv,
       AcquireTagInv, WriteTagInv, ReleaseTagInv
       DEF Proceed
<1>2. ASSUME NEW c \in User, NEW o \in Ops(c), Begin(c, o)
      PROVE  GatewayInv'
  BY <1>2, BeginInv DEF User, User
<1>3. ASSUME NEW c \in User,
             RefuseRequest(c) \/ Disconnect(c) \/ Interrupt(c)
      PROVE  GatewayInv'
  BY <1>3, RefuseRequestInv, LeavesInv DEF User, User
<1>4. ASSUME \/ \E s \in DOMAIN size : SessionExpires(s)
             \/ IndexBuilt \/ GatewayRestarts \/ LateWriteLands \/ OwnerSwept \/ Idle
             \/ UNCHANGED gatewayVars
      PROVE  GatewayInv'
  BY <1>4, UnnoticedInv DEF SessionExpires, IndexBuilt, GatewayRestarts, LateWriteLands,
     OwnerSwept, Idle, gatewayVars, gateway, progress, told
<1>5. QED
  BY <1>1, <1>2, <1>3, <1>4 DEF GatewayNext

\* What a client was told is true of the gateway.
LEMMA InvIsTrueAnswers ==
  ASSUME GatewayInv
  PROVE  AnswersAreTrue
<1>1. SUFFICES ASSUME NEW c \in User
      PROVE  /\ said[c] = "listed" =>
                    Consecutive(out[c], out[c][1].session, out[c][1].page)
             /\ (owner = c /\ result[c] = "accepted") => written \in {c, Late}
             /\ said[c] = "degraded" => compat = "incompatible"
  BY DEF AnswersAreTrue, User, User
<1>2. Fits(c) /\ SessionsOK
  BY DEF GatewayInv
<1>3. ASSUME said[c] = "listed"
      PROVE  Consecutive(out[c], out[c][1].session, out[c][1].page)
  <2>1. PICK s \in DOMAIN size : \E first \in 1..size[s] :
            out[c] = Pages(s, first, size[s] - first + 1)
    BY <1>2, <1>3 DEF Fits, Gathers
  <2>2. PICK first \in 1..size[s] : out[c] = Pages(s, first, size[s] - first + 1)
    BY <2>1
  <2>3. size[s] \in Nat
    BY <1>2 DEF SessionsOK, Position
  <2>4. out[c][1] = [session |-> s, page |-> first]
    BY <2>2, <2>3 DEF Pages
  <2>5. out[c][1].session = s /\ out[c][1].page = first
    BY <2>4
  <2>6. Consecutive(Pages(s, first, size[s] - first + 1), s, first)
    BY DEF Pages, Consecutive
  <2>7. QED
    BY <2>2, <2>5, <2>6
<1>4. QED
  BY <1>2, <1>3 DEF Fits, Owns

\* Whatever sessions expire or are closed by somebody else between two calls,
\* and however often the gateway restarts or leaves a call unanswered, an
\* answer is true: `opc browse --all` lists every page of one session, an
\* accepted `opc write` finds while it owns the tag its own value or that of a
\* write given up before, and only an incompatible gateway is answered for with
\* an empty result (collect_browse_pages, write_with_output, /api/opc).
THEOREM AnswersStayTrue == GatewaySpec => []AnswersAreTrue
<1>1. GatewayInit => GatewayInv
  BY InitGateway
<1>2. GatewayInv /\ [GatewayNext]_gatewayVars => GatewayInv'
  BY NextGatewayInv
<1>3. GatewayInv => AnswersAreTrue
  BY InvIsTrueAnswers
<1>4. QED
  BY <1>1, <1>2, <1>3, PTL DEF GatewaySpec

-----------------------------------------------------------------------------
(* The preflight and the start.                                            *)
(*                                                                         *)
(* A preflight that passes has left a trail: what it checked locally and   *)
(* at the gateway holds of the world (PassedOK, GatewayOK), every derived  *)
(* tag was answered once with an accepted quality and the values fit       *)
(* together (ReadOK), so the smaller batch of the start holds the same     *)
(* readings; and the row of the template says, once seeded, what was       *)
(* resolved without seeding (TemplateOK).                                  *)

\* What the report says so far, in the order it is written.
ReportOK ==
    /\ stage \in {"older", "edit", "request", "local"} => checks = <<>>
    /\ stage = "info" => DOMAIN checks = {"tuning", "template", "loop"}
    /\ stage = "compat" => DOMAIN checks = {"tuning", "template", "loop", "info"}
    /\ stage = "progid" => DOMAIN checks = {"tuning", "template", "loop", "info", "compat"}
    /\ stage = "progid" /\ world.compat = "incompatible" => checks["compat"] = "fail"
    /\ stage = "connect" => DOMAIN checks = {"tuning", "template", "loop"} \cup NotApplicable
    /\ stage = "read" =>
          DOMAIN checks = {"tuning", "template", "loop", "caps"} \cup NotApplicable

\* What a preflight knows that is still under way or has passed.
PassedOK ==
    stage \in {"info", "compat", "progid", "connect", "read"} \/ ReportPasses =>
        /\ RequestIsValid(world)
        /\ TuningIsValid(world.tuning, world.driver = "opcda")
        /\ LoopConfigIsValid(world) /\ LoopTagsExist(world)
        /\ def # None
        /\ world.driver # "simulator" => world.server

GatewayOK ==
    stage \in {"connect", "read"} \/ ReportPasses =>
        (world.driver # "simulator" => world.compat # "incompatible")

\* The derived tags were all read, and what they hold fits together.
ReadsFit(w, d) ==
    LET tags == BuildLoopTags(w, d)
    IN  /\ \A tag \in TagsOf(tags, Roles) : AssessTagRead(w, tags, tag) # "fail"
        /\ InitialReadable(w, FirstBatch(w), d, tags)
        /\ InitialStateIsValid(FirstBatch(w), tags)

ReadOK == ReportPasses => ReadsFit(world, def)

\* The row says the same as the definition the preflight resolved.
TemplateOK ==
    /\ dbRow = None \/ dbRow \in Rows
    /\ stage \in {"older", "edit", "request", "local"} => def = None
    /\ start # "none" => stage \in {"done", "error"}
    /\ start = "none" /\ def # None => def = ResolveTemplate(world, dbRow)
    /\ start \notin {"none", "refused"} /\ def # None => dbRow # None /\ dbRow.def = def

\* Only a valid request is looked at.
RequestedOK == stage = "local" => RequestIsValid(world)

PreflightInv ==
    /\ world \in Worlds
    /\ RequestedOK /\ ReportOK /\ PassedOK /\ GatewayOK /\ ReadOK /\ TemplateOK
    /\ RefusalWasForetold

-----------------------------------------------------------------------------
(* Templates.                                                              *)

\* The definitions a row may hold.
Definition(w) == Definitions \cup Shipped(w)

LEMMA RowsHold ==
  ASSUME NEW w \in Worlds,
         NEW origin \in {"builtin", "catalog", "user"}, NEW d \in Definition(w)
  PROVE  InsertRow(d, origin) \in Rows
  BY DEF Definition, Shipped, InsertRow, Rows

LEMMA RowsAreNotNone ==
  None \notin Rows /\ \A row \in Rows : row.def # None
  BY PreflightAssumption DEF Rows, Shipped

\* One name of a catalog seeded into the row of that name.
LEMMA SeededRow ==
  ASSUME NEW w \in Worlds, NEW origin \in {"builtin", "catalog"},
         NEW row \in {None} \cup Rows, NEW d \in {None} \cup Definition(w),
         NEW seeded, seeded = SeedTemplate(row, d, origin)
  PROVE  /\ d = None => seeded = row
         /\ d # None /\ row = None =>
               seeded \in Rows /\ seeded.origin = origin /\ seeded.def = d
         /\ row # None =>
               /\ seeded \in Rows /\ seeded.origin = row.origin
               /\ seeded.def = IF d # None /\ row.origin = origin THEN d ELSE row.def
<1>1. ASSUME d # None
      PROVE  InsertRow(d, origin) \in Rows
  BY <1>1, RowsHold
<1>2. ASSUME d # None, row # None
      PROVE  /\ [row EXCEPT !.def = d] \in Rows
             /\ [row EXCEPT !.def = d].origin = row.origin /\ [row EXCEPT !.def = d].def = d
  BY <1>2 DEF Rows, Definition, Shipped
<1>3. CASE d = None
  BY <1>3 DEF SeedTemplate
<1>4. CASE d # None /\ row = None
  BY <1>1, <1>4 DEF SeedTemplate, InsertRow
<1>5. CASE d # None /\ row # None
  BY <1>2, <1>5 DEF SeedTemplate, UpdateRow
<1>6. QED
  BY <1>3, <1>4, <1>5

\* Opening the database leaves the definition in the row that the preflight
\* resolves without one (seed_templates, resolve_template).
LEMMA SeedsWhatResolves ==
  ASSUME NEW w \in Worlds, NEW row \in {None} \cup Rows
  PROVE  /\ SeedAll(w, row) \in {None} \cup Rows
         /\ ResolveTemplate(w, row) # None =>
               /\ SeedAll(w, row) # None
               /\ SeedAll(w, row).def = ResolveTemplate(w, row)
<1> PICK first : first = SeedTemplate(row, w.builtin, "builtin")
  OBVIOUS
<1> PICK last : last = SeedTemplate(first, w.catalog, "catalog")
  OBVIOUS
<1>1. w.builtin \in {None} \cup Definition(w) /\ w.catalog \in {None} \cup Definition(w)
  BY DEF Definition, Shipped
<1>2. /\ w.builtin = None => first = row
      /\ w.builtin # None /\ row = None =>
            first \in Rows /\ first.origin = "builtin" /\ first.def = w.builtin
      /\ row # None =>
            /\ first \in Rows /\ first.origin = row.origin
            /\ first.def = IF w.builtin # None /\ row.origin = "builtin" THEN w.builtin ELSE row.def
  BY <1>1, SeededRow
<1>3. first \in {None} \cup Rows
  BY <1>2
<1>4. /\ w.catalog = None => last = first
      /\ w.catalog # None /\ first = None =>
            last \in Rows /\ last.origin = "catalog" /\ last.def = w.catalog
      /\ first # None =>
            /\ last \in Rows /\ last.origin = first.origin
            /\ last.def = IF w.catalog # None /\ first.origin = "catalog"
                          THEN w.catalog ELSE first.def
  BY <1>1, <1>3, SeededRow
<1>5. last \in {None} \cup Rows /\ SeedAll(w, row) = last
  BY <1>3, <1>4 DEF SeedAll
<1>6. None \notin Rows
  BY RowsAreNotNone
<1>7. ASSUME ResolveTemplate(w, row) # None
      PROVE  last # None /\ last.def = ResolveTemplate(w, row)
  <2>1. CASE row = None
    <3>1. ResolveTemplate(w, row) = IF w.builtin # None THEN w.builtin ELSE w.catalog
      BY <2>1 DEF ResolveTemplate
    <3>2. CASE w.builtin # None
      BY <1>2, <1>4, <1>6, <2>1, <3>1, <3>2
    <3>3. CASE w.builtin = None
      BY <1>2, <1>4, <1>6, <1>7, <2>1, <3>1, <3>3
    <3>4. QED
      BY <3>2, <3>3
  <2>2. CASE row # None
    <3>1. first \in Rows /\ last \in Rows /\ first # None /\ last # None
      BY <1>2, <1>4, <1>6, <2>2
    <3>2. ResolveTemplate(w, row) =
              IF row.origin = "builtin" /\ w.builtin # None THEN w.builtin
              ELSE IF row.origin = "catalog" /\ w.catalog # None THEN w.catalog ELSE row.def
      BY <2>2 DEF ResolveTemplate
    <3>3. QED
      BY <1>2, <1>4, <2>2, <3>1, <3>2
  <2>3. QED
    BY <2>1, <2>2
<1>8. QED
  BY <1>5, <1>7

-----------------------------------------------------------------------------
(* The tags.                                                               *)

\* What the batch always needs: a fixed value or a tag.
Required == {"process_variable", "manipulated_variable"} \cup RangeRoles

LEMMA TagsDerived ==
  ASSUME NEW w, NEW d, NEW tags, tags = BuildLoopTags(w, d)
  PROVE  /\ tags = [role \in Roles |-> tags[role]]
         /\ \A role \in Required : tags[role].kind \in {"tag", "value"}
<1>1. CASE w.driver = "simulator"
  <2>1. tags = SimulatorTags(w)
    BY <1>1 DEF BuildLoopTags
  <2>2. QED
    BY <2>1 DEF SimulatorTags, Required, Roles, RangeRoles, FixableRoles,
       NoSource
<1>2. CASE w.driver # "simulator"
  <2>1. tags = OpcTags(w, d)
    BY <1>2 DEF BuildLoopTags
  <2>2. QED
    BY <2>1 DEF OpcTags, DeriveTag, Required, Roles, RangeRoles,
       FixableRoles, NoSource
<1>3. QED
  BY <1>1, <1>2

LEMMA OneAnswer ==
  ASSUME NEW S, NEW answers \in Seq(S), answers # <<>>, ~ (Len(answers) > 1)
  PROVE  Len(answers) = 1
<1>1. Len(answers) \in Nat
  OBVIOUS
<1>2. Len(answers) # 0
  OBVIOUS
<1>3. ~ (Len(answers) > 1)
  OBVIOUS
<1>4. \A n \in Nat : n # 0 /\ ~ (n > 1) => n = 1
  OBVIOUS
<1>5. QED
  BY <1>1, <1>2, <1>3, <1>4, Zenon

\* A tag the report does not call a failure was answered once.
LEMMA AnsweredOnce ==
  ASSUME NEW w \in Worlds, NEW tags,
         NEW tag \in Answered(w), AssessTagRead(w, tags, tag) # "fail"
  PROVE  FirstBatch(w)[tag] = LastBatch(w)[tag]
<1>1. w.plant[tag] \in Seq(Readings)
  BY PreflightAssumption DEF Answered
<1>2. w.plant[tag] # <<>> /\ ~ (Len(w.plant[tag]) > 1)
  BY DEF AssessTagRead, Answers, Answered
<1>3. Len(w.plant[tag]) = 1
  BY <1>1, <1>2, OneAnswer
<1>4. QED
  BY <1>3 DEF FirstBatch, LastBatch, FirstReading, LastReading,
     Answers

\* The smaller batch of the start, of which the last answers count, is as
\* good as the batch of the report (read_initial_values).
LEMMA SecondReadFits ==
  ASSUME NEW w \in Worlds, NEW d, ReadsFit(w, d),
         NEW tags, tags = BuildLoopTags(w, d)
  PROVE  /\ InitialBatchReadable(w, d, tags)
         /\ InitialStateIsValid(LastBatch(w), tags)
<1> PICK first : first = FirstBatch(w)
  OBVIOUS
<1> PICK last : last = LastBatch(w)
  OBVIOUS
<1>1. /\ \A tag \in TagsOf(tags, Roles) : AssessTagRead(w, tags, tag) # "fail"
      /\ InitialReadable(w, first, d, tags)
      /\ InitialStateIsValid(first, tags)
  BY DEF ReadsFit
<1>2. /\ tags = [role \in Roles |-> tags[role]]
      /\ \A role \in Required : tags[role].kind \in {"tag", "value"}
  BY TagsDerived
<1>3. DOMAIN first = Answered(w) /\ DOMAIN last = Answered(w)
  BY DEF FirstBatch, LastBatch
<1>4. ASSUME NEW role \in Roles, tags[role].kind = "tag", tags[role].tag \in DOMAIN first
      PROVE  first[tags[role].tag] = last[tags[role].tag]
  <2>1. tags[role].tag \in TagsOf(tags, Roles)
    BY <1>4 DEF TagsOf
  <2>2. QED
    BY <1>1, <1>3, <1>4, <2>1, AnsweredOnce
<1>5. ASSUME NEW role \in Required
      PROVE  /\ NumberUsable(w, first, tags[role])
             /\ NumberUsable(w, last, tags[role])
             /\ NumberOf(last, tags[role]) = NumberOf(first, tags[role])
  <2>1. NumberUsable(w, first, tags[role]) /\ role \in Roles
    BY <1>1 DEF InitialReadable, Required, Roles, RangeRoles,
       FixableRoles
  <2>2. CASE tags[role].kind = "value"
    BY <2>1, <2>2 DEF NumberUsable, NumberOf
  <2>3. CASE tags[role].kind = "tag"
    BY <1>3, <1>4, <2>1, <2>3 DEF NumberUsable, NumberOf, Usable
  <2>4. QED
    BY <1>2, <2>2, <2>3
<1>6. ASSUME NEW role \in {"controller_mode", "mode_attribute", "controller_direction"},
             HasTag(tags, role)
      PROVE  /\ Usable(w, last, tags[role].tag)
             /\ last[tags[role].tag] = first[tags[role].tag]
  <2>1. Usable(w, first, tags[role].tag) /\ role \in Roles
    BY <1>1, <1>6 DEF InitialReadable, Roles, OptionalRoles,
       FixableRoles
  <2>2. QED
    BY <1>3, <1>4, <1>6, <2>1 DEF HasTag, Usable
<1>7. InAuto(last, d, tags) => InAuto(first, d, tags)
  BY <1>6 DEF InAuto
<1>8. SetpointReadable(w, d, tags)
  BY <1>1, <1>7 DEF SetpointReadable, InitialReadable
<1>9. InitialReadable(w, last, d, [tags EXCEPT !["setpoint_variable"] = NoSource])
  <2> PICK without : without = [tags EXCEPT !["setpoint_variable"] = NoSource]
    OBVIOUS
  <2>1. \A role \in Roles \ {"setpoint_variable"} : without[role] = tags[role]
    BY <1>2
  <2>2. ~ HasTag(without, "setpoint_variable")
    BY <1>2 DEF HasTag, NoSource, Roles, OptionalRoles
  <2>3. \A role \in Required : role \in Roles \ {"setpoint_variable"}
    BY DEF Required, RangeRoles, Roles, FixableRoles
  <2>4. \A role \in {"controller_mode", "mode_attribute", "controller_direction"} :
            role \in Roles \ {"setpoint_variable"}
    BY DEF Roles, OptionalRoles, FixableRoles
  <2>5. \A role \in Required : NumberUsable(w, last, without[role])
    BY <1>5, <2>1, <2>3
  <2>6. \A role \in {"controller_mode", "mode_attribute", "controller_direction"} :
            HasTag(without, role) => Usable(w, last, without[role].tag)
    BY <1>6, <2>1, <2>4 DEF HasTag
  <2>7. QED
    BY <2>2, <2>5, <2>6 DEF InitialReadable, Required
<1>10. InitialStateIsValid(last, tags)
  BY <1>1, <1>5 DEF InitialStateIsValid, Required, RangeRoles
<1>11. QED
  BY <1>8, <1>9, <1>10 DEF InitialBatchReadable

-----------------------------------------------------------------------------
(* The steps.                                                              *)

LEMMA InitPreflight ==
  ASSUME PreflightInit
  PROVE  PreflightInv
  BY DEF PreflightInit, PreflightInv, ReportOK, PassedOK, GatewayOK, ReadOK, TemplateOK,
     RequestedOK, ReportPasses, RefusalWasForetold

\* A report that holds a failure does not pass.
LEMMA FailureReported ==
  ASSUME NEW name \in DOMAIN checks', checks'[name] = "fail"
  PROVE  ~ ReportPasses'
  BY DEF ReportPasses, Passes, ReportStatuses

LEMMA Reported ==
  ASSUME NEW lines, Report(lines)
  PROVE  /\ DOMAIN checks' = DOMAIN checks \cup DOMAIN lines
         /\ \A name \in DOMAIN lines : checks'[name] = lines[name]
         /\ \A name \in DOMAIN checks \ DOMAIN lines : checks'[name] = checks[name]
  BY DEF Report

LEMMA Pushed ==
  ASSUME NEW name, NEW status, Push(name, status)
  PROVE  /\ DOMAIN checks' = DOMAIN checks \cup {name} /\ checks'[name] = status
         /\ \A other \in DOMAIN checks \ {name} : checks'[other] = checks[other]
  BY DEF Push, Report

\* Before anything is reported.
LEMMA SetupInv ==
  ASSUME PreflightInv, stage \in {"older", "edit", "request"},
         stage' \in {"older", "edit", "request", "local", "error"},
         UNCHANGED <<world, def, checks, reads, start, reason>>,
         dbRow' \in {None} \cup Rows, RequestedOK'
  PROVE  PreflightInv'
<1>1. start = "none" /\ def = None /\ checks = <<>> /\ world \in Worlds
  BY DEF PreflightInv, TemplateOK, ReportOK
<1>2. ~ ReportPasses'
  BY DEF ReportPasses
<1>3. ReportOK' /\ PassedOK' /\ GatewayOK' /\ ReadOK'
  BY <1>1, <1>2 DEF ReportOK, PassedOK, GatewayOK, ReadOK
<1>4. TemplateOK'
  BY <1>1 DEF TemplateOK, Rows, Shipped
<1>5. QED
  BY <1>1, <1>2, <1>3, <1>4 DEF PreflightInv, RefusalWasForetold

\* While the report is written.
LEMMA ReportInv ==
  ASSUME PreflightInv, stage \notin {"older", "edit", "request", "done", "error"},
         stage' \notin {"older", "edit", "request", "local"},
         UNCHANGED <<world, dbRow, start, reason>>,
         def' = def \/ def' = ResolveTemplate(world, dbRow),
         ReportOK', PassedOK', GatewayOK', ReadOK'
  PROVE  PreflightInv'
<1>1. start = "none" /\ world \in Worlds /\ TemplateOK
  BY DEF PreflightInv, TemplateOK
<1>2. TemplateOK'
  BY <1>1 DEF TemplateOK, Rows, Shipped, ResolveTemplate
<1>3. QED
  BY <1>1, <1>2 DEF PreflightInv, RequestedOK, RefusalWasForetold

\* While the tune starts.
LEMMA StartInv ==
  ASSUME PreflightInv, UNCHANGED <<world, stage, def, checks, reads>>, TemplateOK',
         start' = "refused" /\ ReportPasses =>
             reason' \in {"transport", "database"} \cup NotLookedAt
  PROVE  PreflightInv'
<1>1. ReportPasses' <=> ReportPasses
  BY DEF ReportPasses, Passes, ReportStatuses
<1>2. ReportOK' /\ GatewayOK' /\ world' \in Worlds
  BY <1>1 DEF PreflightInv, ReportOK, GatewayOK, NotApplicable
<1>3. PassedOK' /\ RequestedOK'
  BY <1>1 DEF PreflightInv, PassedOK, RequestedOK
<1>4. ReadOK'
  BY <1>1 DEF PreflightInv, ReadOK
<1>5. RefusalWasForetold'
  BY <1>1 DEF RefusalWasForetold
<1>6. QED
  BY <1>2, <1>3, <1>4, <1>5 DEF PreflightInv

LEMMA PrepareRowInv ==
  ASSUME PreflightInv,
         \/ OlderStart \/ EditsDone \/ RequestPreflight
         \/ \E d \in Definitions :
               CreateTemplate(d) \/ UpdateTemplate(d) \/ ImportTemplate(d)
         \/ DeleteTemplate \/ RemoveTemplate
  PROVE  PreflightInv'
<1>1. world \in Worlds /\ dbRow \in {None} \cup Rows
  BY DEF PreflightInv, TemplateOK
<1>2. CASE OlderStart
  <2>1. dbRow' \in {None} \cup Rows
    <3>1. SeedAll(world.older, dbRow) \in {None} \cup Rows
      <4> PICK first : first = SeedTemplate(dbRow, world.older.builtin, "builtin")
        OBVIOUS
      <4>1. /\ world.older.builtin \in {None} \cup Definition(world)
            /\ world.older.catalog \in {None} \cup Definition(world)
        BY DEF Definition, Shipped
      <4>2. first \in {None} \cup Rows
        BY <1>1, <4>1, SeededRow
      <4>3. QED
        BY <1>1, <4>1, <4>2, SeededRow DEF SeedAll
    <3>2. QED
      BY <1>2, <3>1 DEF OlderStart
  <2>2. QED
    BY <1>2, <2>1, SetupInv DEF RequestedOK, OlderStart
<1>3. CASE EditsDone
  BY <1>1, <1>3, SetupInv DEF RequestedOK, EditsDone
<1>4. CASE RequestPreflight
  <2>1. CASE RequestIsValid(world)
    BY <1>1, <1>4, <2>1, SetupInv DEF RequestedOK, RequestPreflight, Untouched
  <2>2. CASE ~ RequestIsValid(world)
    BY <1>1, <1>4, <2>2, SetupInv DEF RequestedOK, RequestPreflight, Untouched
  <2>3. QED
    BY <2>1, <2>2
<1>5. ASSUME NEW row \in {None} \cup Rows, Edit(row)
      PROVE  PreflightInv'
  BY <1>5, SetupInv DEF RequestedOK, Edit
<1>6. ASSUME NEW d \in Definitions,
             CreateTemplate(d) \/ UpdateTemplate(d) \/ ImportTemplate(d)
      PROVE  PreflightInv'
  <2>1. InsertRow(d, "user") \in Rows
    BY <1>1, RowsHold DEF Definition
  <2>2. dbRow # None => UpdateRow(dbRow, d) \in Rows
    BY <1>1 DEF UpdateRow, Rows
  <2>3. QED
    BY <1>5, <1>6, <2>1, <2>2 DEF CreateTemplate, UpdateTemplate,
       ImportTemplate
<1>7. CASE DeleteTemplate \/ RemoveTemplate
  BY <1>5, <1>7 DEF DeleteTemplate, RemoveTemplate
<1>8. QED
  BY <1>2, <1>3, <1>4, <1>6, <1>7

LEMMA CheckLocalInv ==
  ASSUME PreflightInv, CheckLocal
  PROVE  PreflightInv'
<1> PICK d : d = ResolveTemplate(world, dbRow)
  OBVIOUS
<1>1. /\ stage = "local" /\ checks = <<>> /\ DOMAIN checks = {} /\ def = None
      /\ UNCHANGED <<world, dbRow, start, reason>>
  BY DEF CheckLocal, Untouched, PreflightInv, ReportOK, TemplateOK
<1>2. ASSUME stage' = "done", NEW name, Push(name, "fail"), def' = def \/ def' = d
      PROVE  PreflightInv'
  <2>1. ~ ReportPasses'
    BY <1>2, Pushed, FailureReported
  <2>2. ReportOK' /\ PassedOK' /\ GatewayOK' /\ ReadOK'
    BY <1>2, <2>1 DEF ReportOK, PassedOK, GatewayOK, ReadOK
  <2>3. QED
    BY <1>1, <1>2, <2>2, ReportInv
<1>3. ASSUME TuningIsValid(world.tuning, world.driver = "opcda"), d # None,
             LoopConfigIsValid(world), LoopTagsExist(world), ResolveLocally(d)
      PROVE  PreflightInv'
  <2>1. /\ def' = d
        /\ DOMAIN checks' = {"tuning", "template", "loop"} \cup
                              IF world.driver = "simulator" THEN NotApplicable ELSE {}
        /\ stage' = IF world.driver = "simulator" THEN "connect"
                    ELSE IF world.server THEN "info" ELSE "error"
    BY <1>3 DEF ResolveLocally
  <2>2. RequestIsValid(world)
    BY <1>1 DEF PreflightInv, RequestedOK
  <2>3. ~ ReportPasses'
    BY <2>1 DEF ReportPasses
  <2>4. ReportOK'
    BY <2>1 DEF ReportOK, NotApplicable
  <2>5. PassedOK'
    BY <1>1, <1>3, <2>1, <2>2, <2>3 DEF PassedOK
  <2>6. GatewayOK' /\ ReadOK'
    BY <1>1, <2>1, <2>3 DEF GatewayOK, ReadOK
  <2>7. QED
    BY <1>1, <2>1, <2>4, <2>5, <2>6, ReportInv
<1>4. ASSUME TuningIsValid(world.tuning, world.driver = "opcda"), ResolveLocally(d)
      PROVE  PreflightInv'
  BY <1>2, <1>3, <1>4 DEF ResolveLocally
<1>5. ASSUME stage' = "error", UNCHANGED <<def, checks>>
      PROVE  PreflightInv'
  <2>1. ~ ReportPasses'
    BY <1>5 DEF ReportPasses
  <2>2. ReportOK' /\ PassedOK' /\ GatewayOK' /\ ReadOK'
    BY <1>5, <2>1 DEF ReportOK, PassedOK, GatewayOK, ReadOK
  <2>3. QED
    BY <1>1, <1>5, <2>2, ReportInv
<1>6. QED
  BY <1>2, <1>4, <1>5 DEF CheckLocal

LEMMA GatewayInfoInv ==
  ASSUME PreflightInv, GatewayInfo
  PROVE  PreflightInv'
<1>1. PICK status \in {"pass", "warn"} : Push("info", status)
  BY DEF GatewayInfo
<1>2. /\ stage = "info" /\ stage' = "compat"
      /\ UNCHANGED <<world, def, reads, dbRow, start, reason>>
  BY DEF GatewayInfo, Untouched
<1>3. ~ ReportPasses'
  BY <1>2 DEF ReportPasses
<1>4. DOMAIN checks' = {"tuning", "template", "loop", "info"}
  BY <1>1, <1>2, Pushed DEF PreflightInv, ReportOK
<1>5. ReportOK'
  BY <1>2, <1>4 DEF ReportOK
<1>6. PassedOK' /\ GatewayOK' /\ ReadOK'
  BY <1>2, <1>3 DEF PreflightInv, PassedOK, GatewayOK, ReadOK
<1>7. QED
  BY <1>2, <1>5, <1>6, ReportInv

LEMMA GatewayCompatibilityInv ==
  ASSUME PreflightInv, GatewayCompatibility
  PROVE  PreflightInv'
<1>1. /\ stage = "compat" /\ UNCHANGED <<world, def, reads, dbRow, start, reason>>
      /\ DOMAIN checks = {"tuning", "template", "loop", "info"}
  BY DEF GatewayCompatibility, Untouched, PreflightInv, ReportOK
<1>2. stage' \in {"progid", "error"}
  BY DEF GatewayCompatibility
<1>3. ~ ReportPasses'
  BY <1>2 DEF ReportPasses
<1>4. ReportOK'
  <2>1. CASE stage' = "error"
    BY <2>1 DEF ReportOK
  <2>2. CASE stage' = "progid"
    <3>1. Push("compat", CompatibilityStatus(world.compat))
      BY <2>2 DEF GatewayCompatibility
    <3>2. /\ DOMAIN checks' = {"tuning", "template", "loop", "info", "compat"}
          /\ checks'["compat"] = CompatibilityStatus(world.compat)
      BY <1>1, <3>1, Pushed
    <3>3. world.compat = "incompatible" => checks'["compat"] = "fail"
      BY <3>2 DEF CompatibilityStatus
    <3>4. QED
      BY <1>1, <2>2, <3>2, <3>3 DEF ReportOK
  <2>3. QED
    BY <1>2, <2>1, <2>2
<1>5. PassedOK' /\ GatewayOK' /\ ReadOK'
  BY <1>1, <1>2, <1>3 DEF PreflightInv, PassedOK, GatewayOK, ReadOK
<1>6. QED
  BY <1>1, <1>2, <1>4, <1>5, ReportInv

LEMMA ServerDiscoveryInv ==
  ASSUME PreflightInv, ServerDiscovery
  PROVE  PreflightInv'
<1>1. /\ stage = "progid" /\ UNCHANGED <<world, def, reads, dbRow, start, reason>>
      /\ DOMAIN checks = {"tuning", "template", "loop", "info", "compat"}
      /\ world.compat = "incompatible" => checks["compat"] = "fail"
  BY DEF ServerDiscovery, Untouched, PreflightInv, ReportOK
<1>2. CASE stage' = "error" /\ UNCHANGED checks
  <2>1. ~ ReportPasses'
    BY <1>2 DEF ReportPasses
  <2>2. ReportOK' /\ PassedOK' /\ GatewayOK' /\ ReadOK'
    BY <1>2, <2>1 DEF ReportOK, PassedOK, GatewayOK, ReadOK
  <2>3. QED
    BY <1>1, <1>2, <2>2, ReportInv
<1>3. CASE /\ Push("progid", IF world.registered THEN "pass" ELSE "fail")
           /\ stage' = IF world.registered /\ world.compat # "incompatible"
                       THEN "connect" ELSE "done"
  <2>1. /\ DOMAIN checks' = {"tuning", "template", "loop", "info", "compat", "progid"}
        /\ checks'["progid"] = IF world.registered THEN "pass" ELSE "fail"
        /\ checks'["compat"] = checks["compat"]
    BY <1>1, <1>3, Pushed
  <2>2. CASE world.registered /\ world.compat # "incompatible"
    <3>1. stage' = "connect" /\ ~ ReportPasses'
      BY <1>3, <2>2 DEF ReportPasses
    <3>2. ReportOK'
      BY <2>1, <3>1 DEF ReportOK, NotApplicable
    <3>3. PassedOK' /\ GatewayOK' /\ ReadOK'
      BY <1>1, <2>2, <3>1 DEF PreflightInv, PassedOK, GatewayOK, ReadOK
    <3>4. QED
      BY <1>1, <3>1, <3>2, <3>3, ReportInv
  <2>3. CASE ~ (world.registered /\ world.compat # "incompatible")
    <3>1. stage' = "done"
      BY <1>3, <2>3
    <3>2. \E name \in DOMAIN checks' : checks'[name] = "fail"
      BY <1>1, <2>1, <2>3
    <3>3. ~ ReportPasses'
      BY <3>2, FailureReported
    <3>4. ReportOK' /\ PassedOK' /\ GatewayOK' /\ ReadOK'
      BY <3>1, <3>3 DEF ReportOK, PassedOK, GatewayOK, ReadOK
    <3>5. QED
      BY <1>1, <3>1, <3>4, ReportInv
  <2>4. QED
    BY <2>2, <2>3
<1>4. QED
  BY <1>2, <1>3 DEF ServerDiscovery

LEMMA ConnectReadOnlyInv ==
  ASSUME PreflightInv, ConnectReadOnly
  PROVE  PreflightInv'
<1>1. /\ stage = "connect" /\ UNCHANGED <<world, def, reads, dbRow, start, reason>>
      /\ DOMAIN checks = {"tuning", "template", "loop"} \cup NotApplicable
  BY DEF ConnectReadOnly, Untouched, PreflightInv, ReportOK
<1>2. CASE \E status : Push("caps", status) /\ stage' = "read"
  <2>1. DOMAIN checks' = {"tuning", "template", "loop", "caps"} \cup NotApplicable
    BY <1>1, <1>2, Pushed
  <2>2. ~ ReportPasses' /\ stage' = "read"
    BY <1>2 DEF ReportPasses
  <2>3. ReportOK'
    BY <2>1, <2>2 DEF ReportOK, NotApplicable
  <2>4. PassedOK' /\ GatewayOK' /\ ReadOK'
    BY <1>1, <2>2 DEF PreflightInv, PassedOK, GatewayOK, ReadOK
  <2>5. QED
    BY <1>1, <2>2, <2>3, <2>4, ReportInv
<1>3. CASE stage' = "error"
  <2>1. ~ ReportPasses'
    BY <1>3 DEF ReportPasses
  <2>2. ReportOK' /\ PassedOK' /\ GatewayOK' /\ ReadOK'
    BY <1>3, <2>1 DEF ReportOK, PassedOK, GatewayOK, ReadOK
  <2>3. QED
    BY <1>1, <1>3, <2>2, ReportInv
<1>4. QED
  BY <1>2, <1>3 DEF ConnectReadOnly

LEMMA ReadDerivedTagsInv ==
  ASSUME PreflightInv, ReadDerivedTags
  PROVE  PreflightInv'
<1>1. /\ stage = "read" /\ stage' = "done" /\ UNCHANGED <<world, def, dbRow, start, reason>>
      /\ DOMAIN checks = {"tuning", "template", "loop", "caps"} \cup NotApplicable
  BY DEF ReadDerivedTags, Untouched, PreflightInv, ReportOK
<1>2. ReportOK'
  BY <1>1 DEF ReportOK
<1>3. PassedOK' /\ GatewayOK'
  BY <1>1 DEF PreflightInv, PassedOK, GatewayOK
<1>4. ASSUME ReportPasses' PROVE ReadsFit(world, def)
  <2> PICK tags : tags = BuildLoopTags(world, def)
    OBVIOUS
  <2> PICK read : read = [t \in TagsOf(tags, Roles) |->
                            AssessTagRead(world, tags, t)]
    OBVIOUS
  <2>1. ~ Push("tags", "fail")
    BY <1>4, Pushed, FailureReported
  <2>2. PICK lines : /\ Report(lines) /\ reads' = read
                     /\ "initial" \in DOMAIN lines
                     /\ lines["initial"] = InitialStatus(world, def, tags)
    BY <2>1 DEF ReadDerivedTags
  <2>3. "initial" \in DOMAIN checks' /\ checks'["initial"] = InitialStatus(world, def, tags)
    BY <2>2, Reported
  <2>4. InitialStatus(world, def, tags) # "fail"
    BY <1>4, <2>3, FailureReported
  <2>5. \A t \in DOMAIN read : read[t] # "fail"
    BY <1>4, <2>2 DEF ReportPasses, Passes, ReportStatuses
  <2>6. \A t \in TagsOf(tags, Roles) : AssessTagRead(world, tags, t) # "fail"
    BY <2>5
  <2>7. QED
    BY <2>4, <2>6 DEF ReadsFit, InitialStatus
<1>5. ReadOK'
  BY <1>1, <1>4 DEF ReadOK
<1>6. QED
  BY <1>1, <1>2, <1>3, <1>5, ReportInv

LEMMA OpenDatabaseInv ==
  ASSUME PreflightInv, OpenDatabase
  PROVE  PreflightInv'
<1>1. /\ stage \in {"done", "error"} /\ start = "none"
      /\ UNCHANGED <<world, stage, def, checks, reads>>
  BY DEF OpenDatabase, Kept
<1>2. world \in Worlds /\ dbRow \in {None} \cup Rows
      /\ (def # None => def = ResolveTemplate(world, dbRow))
  BY <1>1 DEF PreflightInv, TemplateOK
<1>3. CASE dbRow' = SeedAll(world, dbRow) /\ start' = "open"
  <2>1. /\ dbRow' \in {None} \cup Rows
        /\ def' # None => dbRow' # None /\ dbRow'.def = def'
    BY <1>1, <1>2, <1>3, SeedsWhatResolves
  <2>2. TemplateOK'
    BY <1>1, <1>3, <2>1 DEF TemplateOK, Rows, Shipped
  <2>3. QED
    BY <1>1, <1>3, <2>2, StartInv
<1>4. CASE DatabaseFails
  <2>1. TemplateOK'
    BY <1>1, <1>2, <1>4 DEF TemplateOK, Rows, Shipped, DatabaseFails, Refuse
  <2>2. QED
    BY <1>1, <1>4, <2>1, StartInv DEF DatabaseFails, Refuse
<1>5. QED
  BY <1>3, <1>4 DEF OpenDatabase

\* Up to the first read the start only moves on or gives up.
LEMMA KeptTemplate ==
  ASSUME PreflightInv, start \notin {"none", "refused"}, start' # "none",
         UNCHANGED <<world, stage, def, dbRow>>
  PROVE  TemplateOK'
  BY DEF PreflightInv, TemplateOK, Rows, Shipped

LEMMA PrepareLocalInv ==
  ASSUME PreflightInv, PrepareLocal
  PROVE  PreflightInv'
<1>1. /\ start = "open" /\ start' \in {"refused", "gateway"}
      /\ UNCHANGED <<world, stage, def, checks, reads, dbRow>>
  BY DEF PrepareLocal, Kept, Refuse, DatabaseFails
<1>2. TemplateOK'
  BY <1>1, KeptTemplate
<1>3. ASSUME ReportPasses, start' = "refused" PROVE reason' \in {"yes", "database"}
  <2>1. /\ RequestIsValid(world)
        /\ TuningIsValid(world.tuning, world.driver = "opcda")
        /\ LoopConfigIsValid(world) /\ LoopTagsExist(world)
        /\ world.driver = "opcda" => world.server
        /\ dbRow # None
    BY <1>1, <1>3 DEF PreflightInv, PassedOK, TemplateOK
  <2>2. QED
    BY <1>1, <1>3, <2>1 DEF PrepareLocal, Refuse, DatabaseFails
<1>4. QED
  BY <1>1, <1>2, <1>3, StartInv DEF NotLookedAt

LEMMA PrepareGatewayInv ==
  ASSUME PreflightInv, PrepareGateway
  PROVE  PreflightInv'
<1>1. /\ start = "gateway" /\ start' \in {"refused", "own"}
      /\ UNCHANGED <<world, stage, def, checks, reads, dbRow>>
  BY DEF PrepareGateway, Kept, Refuse
<1>2. TemplateOK'
  BY <1>1, KeptTemplate
<1>3. ASSUME ReportPasses, start' = "refused" PROVE reason' = "transport"
  <2>1. ~ (world.driver = "opcda" /\ world.compat = "incompatible")
    BY <1>3 DEF PreflightInv, GatewayOK
  <2>2. QED
    BY <1>1, <1>3, <2>1 DEF PrepareGateway, Refuse
<1>4. QED
  BY <1>1, <1>2, <1>3, StartInv

LEMMA TakeOwnershipInv ==
  ASSUME PreflightInv, TakeOwnership
  PROVE  PreflightInv'
<1>1. /\ start = "own" /\ start' \in {"refused", "initial"}
      /\ UNCHANGED <<world, stage, def, checks, reads, dbRow>>
  BY DEF TakeOwnership, Kept, Refuse, DatabaseFails
<1>2. TemplateOK'
  BY <1>1, KeptTemplate
<1>3. start' = "refused" => reason' \in {"database", "owned", "transport"}
  BY <1>1 DEF TakeOwnership, Refuse, DatabaseFails
<1>4. QED
  BY <1>1, <1>2, <1>3, StartInv DEF NotLookedAt

LEMMA ReadInitialInv ==
  ASSUME PreflightInv, ReadInitial
  PROVE  PreflightInv'
<1>1. /\ start = "initial" /\ start' \in {"refused", "accepted"}
      /\ UNCHANGED <<world, stage, def, checks, reads, dbRow>>
  BY DEF ReadInitial, Kept, Refuse, DatabaseFails
<1>2. TemplateOK'
  BY <1>1, KeptTemplate
<1>3. ASSUME ReportPasses, start' = "refused" PROVE reason' \in {"transport", "database", "relay"}
  <2>1. dbRow.def = def /\ ReadsFit(world, def) /\ world \in Worlds
    BY <1>1, <1>3 DEF PreflightInv, PassedOK, TemplateOK, ReadOK
  <2> PICK tags : tags = BuildLoopTags(world, def)
    OBVIOUS
  <2>2. /\ InitialBatchReadable(world, def, tags)
        /\ InitialStateIsValid(LastBatch(world), tags)
    BY <2>1, SecondReadFits
  <2>3. QED
    BY <1>1, <1>3, <2>1, <2>2 DEF ReadInitial, Refuse, DatabaseFails
<1>4. QED
  BY <1>1, <1>2, <1>3, StartInv DEF NotLookedAt

LEMMA NextPreflightInv ==
  ASSUME PreflightInv, [PreflightNext]_preflightVars
  PROVE  PreflightInv'
<1>1. CASE Settled \/ UNCHANGED preflightVars
  <2>1. UNCHANGED preflightVars
    BY <1>1 DEF Settled
  <2>2. UNCHANGED <<world, stage, def, checks, reads, dbRow, start, reason>>
    BY <2>1 DEF preflightVars
  <2>3. TemplateOK'
    BY <2>2 DEF PreflightInv, TemplateOK, Rows, Shipped, ResolveTemplate
  <2>4. QED
    BY <2>2, <2>3, StartInv DEF PreflightInv, RefusalWasForetold
<1>2. QED
  BY <1>1, PrepareRowInv, CheckLocalInv, GatewayInfoInv, GatewayCompatibilityInv,
     ServerDiscoveryInv, ConnectReadOnlyInv, ReadDerivedTagsInv, OpenDatabaseInv,
     PrepareLocalInv, PrepareGatewayInv, TakeOwnershipInv, ReadInitialInv
     DEF PreflightNext

LEMMA PreflightInvariant == PreflightSpec => []PreflightInv
<1>1. PreflightInit => PreflightInv
  BY InitPreflight
<1>2. PreflightInv /\ [PreflightNext]_preflightVars => PreflightInv'
  BY NextPreflightInv
<1>3. QED
  BY <1>1, <1>2, PTL DEF PreflightSpec

\* A preflight that passes has looked at everything the start will refuse,
\* but for the --yes of a write-back, the ownership of the loop, the size of
\* the relay step, and a gateway or database call that fails (preflight,
\* prepare_internal, read_initial_values).
THEOREM PreflightForetells == PreflightSpec => []RefusalWasForetold
<1>1. PreflightInv => RefusalWasForetold
  BY DEF PreflightInv
<1>2. QED
  BY <1>1, PreflightInvariant, PTL

\* The definition the preflight resolves in memory is the one in the row once
\* the database is open, however the row came about (resolve_template,
\* seed_templates).
THEOREM PreflightSharesTemplate == PreflightSpec => []SameTemplate
<1>1. PreflightInv => SameTemplate
  BY DEF PreflightInv, TemplateOK, SameTemplate
<1>2. QED
  BY <1>1, PreflightInvariant, PTL
=============================================================================
