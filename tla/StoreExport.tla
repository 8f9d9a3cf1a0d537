---------------------------- MODULE StoreExport ----------------------------
(***************************************************************************)
(* `rydd backup`: the export of the plan store and the verification of an  *)
(* exported artifact (internal/storeexport).  An export copies the store   *)
(* into a private stage directory, checks a scratch copy with SQLite,      *)
(* writes a manifest and renames the stage to its destination without      *)
(* replacing anything.  A verification repeats the checks on an artifact.  *)
(*                                                                         *)
(* Commands run one after the other and may fail or die between any two    *)
(* steps.  Every step that fills a file is split in two, so that a failure *)
(* leaves it incomplete.  Meanwhile other programs of the same user change *)
(* the source, the files and the directories.  A database body is named by *)
(* the version of the source it is a snapshot of; a stamp counts changes.  *)
(***************************************************************************)
EXTENDS Integers, FiniteSets

CONSTANTS
  MaxCommands,  \* bound on the commands of a behaviour
  MaxVersion,   \* bound on the versions of the source
  MaxEdits      \* bound on the changes other programs make to the directories

ASSUME BoundsAssumption ==
  MaxCommands \in Nat \ {0} /\ MaxVersion \in Nat /\ MaxEdits \in Nat

VARIABLES
  source,   \* the version of the plan store, its stamp
  dirs,     \* the stage and scratch directory of each command
  foreign,  \* something else occupies the destination
  edits,    \* how often other programs changed a directory
  open,     \* the SQLite connections that may be open
  cmd       \* the command: its place, what it pinned, what it will report

vars == <<source, dirs, foreign, edits, open, cmd>>

Commands == 1..MaxCommands

-----------------------------------------------------------------------------
(* Files and directories.                                                  *)

Body(kind) == [kind |-> kind, of |-> 0]
Snapshot(version) == [kind |-> "snapshot", of |-> version]
File(kind) == [body |-> Body(kind), stamp |-> 0, own |-> TRUE]
Absent == File("absent")
NoDir == [at |-> "nowhere", data |-> Absent, manifest |-> Absent, extra |-> FALSE]
NewDir == [NoDir EXCEPT !.at = "created"]

sameObject(file) == file # Absent /\ file.own
sameFile(pin, file) == file # Absent /\ file = pin
\* heldDir.check: the name still leads to the directory that is held open.
check(d, place) == d.at = place

\* heldDir.exact: the members of a directory are these and no others.  The
\* scratch directory of an export is a member of its stage.
Members(d, inner) ==
  {m \in {"data", "manifest", "extra", "inner"} :
     \/ m = "data" /\ d.data # Absent
     \/ m = "manifest" /\ d.manifest # Absent
     \/ m = "extra" /\ d.extra
     \/ m = "inner" /\ inner}
exact(d, inner, expected) == Members(d, inner) = expected

\* streamFile: a pinned body is read to its end and is the same file afterwards.
streamFile(d, place, pin) == check(d, place) /\ sameFile(pin, d.data)

\* parseManifest and the comparison with the digest and size it states.
Bound(d) == d.manifest.body = d.data.body

\* SQLite accepts every snapshot, and may or may not accept what others wrote.
Verdicts(body) ==
  {sound \in BOOLEAN : body.kind # "edited" => (sound <=> body.kind = "snapshot")}

-----------------------------------------------------------------------------
NoReport == [published |-> FALSE, verified |-> FALSE, retained |-> FALSE,
             scratchRetained |-> FALSE, closureKnown |-> FALSE]

Init ==
  /\ source = 0 /\ foreign = FALSE /\ edits = 0 /\ open = {}
  /\ dirs = [k \in Commands |-> [stage |-> NoDir, scratch |-> NoDir, unseen |-> FALSE, of |-> 0]]
  /\ cmd = [n |-> 0, op |-> "none", pc |-> "gone", artifact |-> 0, before |-> 0,
            pin |-> Absent, manifestPin |-> Absent, scratchPin |-> Absent,
            report |-> NoReport]

Stage == dirs[cmd.n].stage
Scratch == dirs[cmd.n].scratch
HasScratch == Scratch.at # "nowhere"
Exporting == cmd.op = "export"
\* The directory whose data is copied: the candidate, or the artifact.
Input == IF Exporting THEN Stage ELSE dirs[cmd.artifact].stage
InputPlace == IF Exporting THEN "created" ELSE "destination"

At(pc) == cmd.pc = pc
Goto(pc) == cmd' = [cmd EXCEPT !.pc = pc]
Return == Goto("ended")
PutStage(d) == dirs' = [dirs EXCEPT ![cmd.n].stage = d]
PutScratch(d) == dirs' = [dirs EXCEPT ![cmd.n].scratch = d]
Occupied == foreign \/ \E k \in Commands : dirs[k].stage.at = "destination"
OthersUnchanged == UNCHANGED <<source, foreign, edits>>

\* An early return, a refused guard or a failed call between two steps.
EnginePhases == {"opened", "copying", "copied", "inspecting"}
Fail ==
  /\ cmd.pc \notin EnginePhases \cup {"ended", "gone"}
  /\ Return /\ UNCHANGED <<dirs, open>> /\ OthersUnchanged

\* The process dies: nothing is reported.
Crash ==
  /\ cmd.pc \notin {"ended", "gone"}
  /\ Goto("gone") /\ open' = {} /\ UNCHANGED dirs /\ OthersUnchanged

-----------------------------------------------------------------------------
(* ExportPlanStore                                                         *)

New(op, pc, artifact) ==
  [n |-> cmd.n + 1, op |-> op, pc |-> pc, artifact |-> artifact, before |-> source,
   pin |-> Absent, manifestPin |-> Absent, scratchPin |-> Absent, report |-> NoReport]

\* The writer lock is taken, the source is stamped, the destination is absent.
BeginExport ==
  /\ cmd.pc \in {"ended", "gone"} /\ cmd.n < MaxCommands
  /\ cmd' = New("export", IF Occupied THEN "ended" ELSE "stage", 0)
  /\ dirs' = [dirs EXCEPT ![cmd.n + 1].of = source]
  /\ open' = {} /\ OthersUnchanged

\* createStage, retainCandidateStage.  The new directory may fail its proof.
CreateStage ==
  /\ At("stage")
  /\ \E proved \in BOOLEAN :
       cmd' = [cmd EXCEPT !.pc = IF proved THEN "candidate" ELSE "ended",
                          !.report.retained = TRUE]
  /\ PutStage(NewDir) /\ UNCHANGED open /\ OthersUnchanged

CreateCandidate ==
  /\ At("candidate")
  /\ IF check(Stage, "created") /\ Stage.data = Absent
     THEN PutStage([Stage EXCEPT !.data = File("empty")]) /\ Goto("open")
     ELSE Return /\ UNCHANGED dirs
  /\ UNCHANGED open /\ OthersUnchanged

\* The admission of every fence: the stage and the candidate are the created ones.
Admitted == check(Stage, "created") /\ sameObject(Stage.data)

\* openEngine.  A refusal closes what it opened and does not say how that went.
OpenSource ==
  /\ At("open")
  /\ \/ Admitted /\ Goto("opened") /\ open' = {"source"}
     \/ Return /\ open' \in {{}, {"source"}}
  /\ UNCHANGED dirs /\ OthersUnchanged

\* consumeConnection: the connections are closed on every path, and a close
\* that fails is an error.
CloseAfter(ok, pc) ==
  \E known \in BOOLEAN :
    /\ cmd' = [cmd EXCEPT !.pc = IF ok /\ known THEN pc ELSE "ended",
                          !.report.closureKnown = known]
    /\ open' \in IF known THEN {{}} ELSE SUBSET open

RefuseSource ==
  /\ At("opened") \/ At("copying")
  /\ CloseAfter(FALSE, "ended") /\ UNCHANGED dirs /\ OthersUnchanged

\* transfer: startBackup and the first steps.
StartBackup ==
  /\ At("opened") /\ Admitted
  /\ PutStage([Stage EXCEPT !.data.body = Body("partial")])
  /\ Goto("copying") /\ open' = {"source", "destination"} /\ OthersUnchanged

\* The last step; SQLite starts over when the source changed in between, so the
\* copy is a snapshot of the present version.  It is then normalized.
FinishBackup ==
  /\ At("copying") /\ Admitted
  /\ PutStage([Stage EXCEPT !.data.body = Snapshot(source)])
  /\ Goto("copied") /\ UNCHANGED open /\ OthersUnchanged

CloseBackup ==
  /\ At("copied")
  /\ CloseAfter(Admitted, "check") /\ UNCHANGED dirs /\ OthersUnchanged

unchangedSource(before, after) == before = after

\* The first reading of the candidate pins it; rollbackHeader follows.
PinCandidate ==
  /\ At("check")
  /\ \E sound \in Verdicts(Stage.data.body) :
       IF /\ unchangedSource(cmd.before, source)
          /\ check(Stage, "created") /\ exact(Stage, HasScratch, {"data"}) /\ sound
       THEN cmd' = [cmd EXCEPT !.pc = "scratch", !.pin = Stage.data]
       ELSE Return
  /\ UNCHANGED <<dirs, open>> /\ OthersUnchanged

-----------------------------------------------------------------------------
(* The scratch copy, of an export or of a verification.                    *)

\* Export: .verify within the stage.  Verify: createStage, retainScratchStage.
MakeScratch ==
  /\ At("scratch")
  /\ PutScratch(NewDir)
  /\ LET alone == check(Stage, "created") /\ exact(Stage, TRUE, {"data", "inner"})
     IN \E proved \in BOOLEAN :
          cmd' = [cmd EXCEPT
            !.pc = IF proved /\ (Exporting => alone) THEN "copy" ELSE "ended",
            !.report.scratchRetained = ~Exporting]
  /\ UNCHANGED open /\ OthersUnchanged

\* copyFile: the copy is created, then filled from the pinned input.
StartCopy ==
  /\ At("copy")
  /\ IF check(Scratch, "created") /\ Scratch.data = Absent
     THEN PutScratch([Scratch EXCEPT !.data = File("partial")]) /\ Goto("fill")
     ELSE Return /\ UNCHANGED dirs
  /\ UNCHANGED open /\ OthersUnchanged

FinishCopy ==
  /\ At("fill")
  /\ LET copy == [Scratch.data EXCEPT !.body = cmd.pin.body]
     IN IF /\ streamFile(Input, InputPlace, cmd.pin)
           /\ check(Scratch, "created") /\ sameObject(Scratch.data)
           /\ ~Exporting => exact(Scratch, FALSE, {"data"})
        THEN /\ PutScratch([Scratch EXCEPT !.data = copy])
             /\ cmd' = [cmd EXCEPT !.pc = "inspect", !.scratchPin = copy]
        ELSE Return /\ UNCHANGED dirs
  /\ UNCHANGED open /\ OthersUnchanged

CopyIntact == streamFile(Scratch, "created", cmd.scratchPin)

\* inspectScratch.  No connection exists when the header already refuses.
OpenScratch ==
  /\ At("inspect")
  /\ \/ /\ CopyIntact /\ Goto("inspecting") /\ open' = {"scratch"}
     \/ /\ ~CopyIntact \/ ~(TRUE \in Verdicts(Scratch.data.body))
        /\ cmd' = [cmd EXCEPT !.pc = "ended", !.report.closureKnown = TRUE]
        /\ UNCHANGED open
     \/ /\ cmd' = [cmd EXCEPT !.pc = "ended", !.report.closureKnown = FALSE]
        /\ open' \in {{}, {"scratch"}}
  /\ UNCHANGED dirs /\ OthersUnchanged

\* Mutant: only a verdict that SQLite gave is reported.
VerdictOnly ==
  /\ At("inspecting")
  /\ \E sound \in Verdicts(Scratch.data.body), known \in BOOLEAN :
       /\ cmd' = [cmd EXCEPT !.pc = IF known /\ sound /\ CopyIntact THEN "reread" ELSE "ended"]
       /\ open' \in IF known THEN {{}} ELSE SUBSET open
  /\ UNCHANGED dirs /\ OthersUnchanged

CloseScratch ==
  /\ At("inspecting")
  /\ \E sound \in Verdicts(Scratch.data.body) \cup {FALSE} :
       CloseAfter(sound /\ CopyIntact /\ exact(Scratch, FALSE, {"data"}), "reread")
  /\ UNCHANGED dirs /\ OthersUnchanged

RereadScratch ==
  /\ At("reread")
  /\ IF CopyIntact THEN Goto("unlink") ELSE Return
  /\ UNCHANGED <<dirs, open>> /\ OthersUnchanged

\* removeScratch: the copy, then the empty directory.
UnlinkCopy ==
  /\ At("unlink")
  /\ IF CopyIntact /\ exact(Scratch, FALSE, {"data"})
     THEN PutScratch([Scratch EXCEPT !.data = Absent]) /\ Goto("rmdir")
     ELSE Return /\ UNCHANGED dirs
  /\ UNCHANGED open /\ OthersUnchanged

RemoveScratch ==
  /\ At("rmdir")
  /\ IF check(Scratch, "created") /\ exact(Scratch, FALSE, {})
     THEN /\ PutScratch(NoDir)
          /\ cmd' = [cmd EXCEPT !.pc = IF Exporting THEN "recheck" ELSE "last",
                                !.report.scratchRetained = FALSE]
     ELSE Return /\ UNCHANGED dirs
  /\ UNCHANGED open /\ OthersUnchanged

-----------------------------------------------------------------------------
(* Publication                                                             *)

CandidateIntact == streamFile(Stage, "created", cmd.pin)

RecheckCandidate ==
  /\ At("recheck")
  /\ IF CandidateIntact /\ exact(Stage, HasScratch, {"data"})
     THEN cmd' = [cmd EXCEPT !.pc = "manifest", !.report.verified = TRUE]
     ELSE Return
  /\ UNCHANGED <<dirs, open>> /\ OthersUnchanged

\* writeFile: the manifest is created, then written with the digest it binds.
CreateManifest ==
  /\ At("manifest")
  /\ IF check(Stage, "created") /\ Stage.manifest = Absent
     THEN PutStage([Stage EXCEPT !.manifest = File("empty")]) /\ Goto("write")
     ELSE Return /\ UNCHANGED dirs
  /\ UNCHANGED open /\ OthersUnchanged

WriteManifest ==
  /\ At("write")
  /\ LET written == [Stage.manifest EXCEPT !.body = cmd.pin.body]
     IN IF check(Stage, "created") /\ sameObject(Stage.manifest)
        THEN /\ PutStage([Stage EXCEPT !.manifest = written])
             /\ cmd' = [cmd EXCEPT !.pc = "final", !.manifestPin = written]
        ELSE Return /\ UNCHANGED dirs
  /\ UNCHANGED open /\ OthersUnchanged

\* Mutant: the last check trusts the pins of the files alone.
PinsAlone ==
  /\ At("final")
  /\ IF CandidateIntact /\ sameFile(cmd.manifestPin, Stage.manifest)
     THEN Goto("publish") ELSE Return
  /\ UNCHANGED <<dirs, open>> /\ OthersUnchanged

FinalCheck ==
  /\ At("final")
  /\ IF /\ unchangedSource(cmd.before, source)
        /\ exact(Stage, HasScratch, {"data", "manifest"})
        /\ CandidateIntact /\ sameFile(cmd.manifestPin, Stage.manifest)
     THEN Goto("publish") ELSE Return
  /\ UNCHANGED <<dirs, open>> /\ OthersUnchanged

\* publishNoReplace
Publish ==
  /\ At("publish")
  /\ IF check(Stage, "created") /\ ~Occupied
     THEN /\ PutStage([Stage EXCEPT !.at = "destination"])
          /\ cmd' = [cmd EXCEPT !.pc = "confirm", !.report.published = TRUE,
                                !.report.retained = FALSE]
     ELSE Return /\ UNCHANGED dirs
  /\ UNCHANGED open /\ OthersUnchanged

\* The directory is checked at its new name and synced; success or error, the
\* command ends.
Confirm == At("confirm") /\ Return /\ UNCHANGED <<dirs, open>> /\ OthersUnchanged

-----------------------------------------------------------------------------
(* VerifyPlanStoreExport                                                   *)

BeginVerify(k) ==
  /\ cmd.pc \in {"ended", "gone"} /\ cmd.n < MaxCommands
  /\ check(dirs[k].stage, "destination")
  /\ LET d == dirs[k].stage
         bound == /\ exact(d, dirs[k].scratch.at # "nowhere", {"data", "manifest"})
                  /\ Bound(d)
     IN cmd' = [New("verify", IF bound THEN "scratch" ELSE "ended", k)
                  EXCEPT !.pin = d.data, !.manifestPin = d.manifest]
  /\ open' = {} /\ UNCHANGED dirs /\ OthersUnchanged

RecheckArtifact ==
  /\ At("last")
  /\ IF /\ exact(Input, dirs[cmd.artifact].scratch.at # "nowhere", {"data", "manifest"})
        /\ streamFile(Input, "destination", cmd.pin)
        /\ sameFile(cmd.manifestPin, Input.manifest)
     THEN cmd' = [cmd EXCEPT !.pc = "ended", !.report.verified = TRUE]
     ELSE Return
  /\ UNCHANGED <<dirs, open>> /\ OthersUnchanged

-----------------------------------------------------------------------------
(* Other programs                                                          *)

SourceChanges ==
  /\ source < MaxVersion /\ source' = source + 1
  /\ UNCHANGED <<dirs, foreign, edits, open, cmd>>

OccupyDestination ==
  /\ ~Occupied /\ edits < MaxEdits
  /\ foreign' = TRUE /\ edits' = edits + 1
  /\ UNCHANGED <<source, dirs, open, cmd>>

Edited(file, own) == [file EXCEPT !.body = Body("edited"), !.stamp = @ + 1, !.own = own]

\* A candidate's data that is not pinned yet, a manifest that is not pinned yet,
\* and everything after the last check may change unseen.
Unseen(k, what) ==
  \/ k # cmd.n
  \/ cmd.pc \in {"publish", "confirm", "ended", "gone"}
  \/ what = "data" /\ cmd.pin = Absent
  \/ what = "manifest" /\ cmd.manifestPin = Absent

EditStage(k) ==
  LET d == dirs[k].stage
  IN /\ d.at # "nowhere" /\ edits < MaxEdits /\ edits' = edits + 1
     /\ \E what \in {"data", "manifest", "extra", "place"}, own \in BOOLEAN :
          /\ what = "data" => d.data # Absent
          /\ what = "manifest" => d.manifest # Absent
          /\ dirs' = [dirs EXCEPT
               ![k].stage = CASE what = "data" -> [d EXCEPT !.data = Edited(@, own)]
                              [] what = "manifest" -> [d EXCEPT !.manifest = Edited(@, own)]
                              [] what = "extra" -> [d EXCEPT !.extra = TRUE]
                              [] what = "place" -> [d EXCEPT !.at = "aside"],
               ![k].unseen = @ \/ Unseen(k, what)]
     /\ UNCHANGED <<source, foreign, open, cmd>>

EditScratch(k) ==
  LET d == dirs[k].scratch
  IN /\ d.at # "nowhere" /\ edits < MaxEdits /\ edits' = edits + 1
     /\ \E changed \in {[d EXCEPT !.extra = TRUE], [d EXCEPT !.at = "aside"]} \cup
          {[d EXCEPT !.data = Edited(@, own)] : own \in IF d.data = Absent THEN {} ELSE BOOLEAN} :
          dirs' = [dirs EXCEPT ![k].scratch = changed]
     /\ UNCHANGED <<source, foreign, open, cmd>>

Next ==
  \/ BeginExport \/ CreateStage \/ CreateCandidate
  \/ OpenSource \/ RefuseSource \/ StartBackup \/ FinishBackup \/ CloseBackup
  \/ PinCandidate \/ MakeScratch \/ StartCopy \/ FinishCopy
  \/ OpenScratch \/ CloseScratch \/ RereadScratch \/ UnlinkCopy \/ RemoveScratch
  \/ RecheckCandidate \/ CreateManifest \/ WriteManifest
  \/ FinalCheck \/ Publish \/ Confirm
  \/ \E k \in Commands : BeginVerify(k)
  \/ RecheckArtifact \/ Fail \/ Crash
  \/ SourceChanges \/ OccupyDestination
  \/ \E k \in Commands : EditStage(k) \/ EditScratch(k)

Spec == Init /\ [][Next]_vars

-----------------------------------------------------------------------------
\* What ExportPlanStore publishes is the store as it was when the writer lock
\* was taken, bound by its manifest and with nothing else beside it, however
\* the source and the stage changed during the export.  Changes that come
\* before a file is pinned or after the last check are exempt.
PublishedAsLocked ==
  \A k \in Commands :
    LET d == dirs[k].stage
    IN d.at = "destination" /\ ~dirs[k].unseen
         => /\ exact(d, dirs[k].scratch.at # "nowhere", {"data", "manifest"})
            /\ d.data.body = Snapshot(dirs[k].of) /\ Bound(d)

\* The result of a command that ended says what it left behind: a stage or
\* scratch directory that lies at its name is reported as retained, nothing
\* published is reported as retained, a verified artifact leaves no scratch,
\* and the engine is only called closed when no connection can be open.
ReportTrue ==
  cmd.pc = "ended" =>
    LET r == cmd.report
    IN /\ Stage.at = "created" => r.retained
       /\ Stage.at = "destination" => r.published
       /\ ~(r.published /\ r.retained)
       /\ ~Exporting => (Scratch.at # "nowhere" <=> r.scratchRetained)
       /\ r.verified => Scratch.at = "nowhere"
       /\ r.closureKnown => open = {}
=============================================================================
