------------------------- MODULE StoreExportProofs -------------------------
(***************************************************************************)
(* What an export publishes and what a command reports, proved for every   *)
(* number of commands, versions of the source and foreign changes.         *)
(***************************************************************************)
EXTENDS StoreExport, TLAPS

-----------------------------------------------------------------------------
(* The inductive invariant.                                                *)

FirstSteps == {"stage", "candidate", "open", "opened", "copying"}
CopiedSteps == {"copied", "check"}
ScratchSteps == {"scratch", "copy", "fill", "inspect", "inspecting", "reread", "unlink", "rmdir"}
ManifestSteps == {"recheck", "manifest", "write", "final", "publish"}
EndSteps == {"ended", "gone"}
Steps == FirstSteps \cup CopiedSteps \cup ScratchSteps \cup ManifestSteps \cup EndSteps
           \cup {"confirm", "last"}

BodySet == [kind : {"absent", "empty", "partial", "edited", "snapshot"}, of : Nat]
FileSet == [body : BodySet, stamp : Nat, own : BOOLEAN]
DirSet == [at : {"nowhere", "created", "aside", "destination"},
           data : FileSet, manifest : FileSet, extra : BOOLEAN]
EntrySet == [stage : DirSet, scratch : DirSet, unseen : BOOLEAN, of : Nat]
ReportSet == [published : BOOLEAN, verified : BOOLEAN, retained : BOOLEAN,
              scratchRetained : BOOLEAN, closureKnown : BOOLEAN]
CmdSet == [n : Nat, op : {"none", "export", "verify"}, pc : Steps, artifact : Nat,
           before : Nat, pin : FileSet, manifestPin : FileSet, scratchPin : FileSet,
           report : ReportSet]

\* The types of the export's state.
ExportTypeOK ==
  /\ source \in Nat
  /\ dirs \in [Commands -> EntrySet]
  /\ cmd \in CmdSet
  /\ cmd.op = "verify" => cmd.artifact \in Commands
  /\ cmd.pc # "gone" => cmd.n \in Commands

\* A directory that holds what PublishedAsLocked promises.
Sealed(d) ==
  /\ d.stage.data # Absent /\ d.stage.manifest # Absent /\ ~d.stage.extra
  /\ d.scratch.at = "nowhere"
  /\ d.stage.data.body = Snapshot(d.of) /\ Bound(d.stage)
Kept(d) == d.stage.at = "destination" /\ ~d.unseen => Sealed(d)

\* The parts about the command c with its directories d: which steps an
\* operation has;
StepsOf(c) ==
  /\ c.op = "export" => c.pc # "last"
  /\ c.op = "verify" => c.pc \in ScratchSteps \cup EndSteps \cup {"last"}
  /\ c.op = "none" => c.pc = "gone"

\* what the report says of them at any time before the process is gone;
Reported(c, d) ==
  /\ c.op = "verify" => d.stage.at = "nowhere"
  /\ c.pc = "stage" => ~c.report.published
  /\ d.stage.at = "destination" => c.pc \in EndSteps \cup {"confirm"}
  /\ c.pc # "gone" =>
       /\ d.stage.at = "created" => c.report.retained
       /\ d.stage.at = "destination" => c.report.published
       /\ ~(c.report.published /\ c.report.retained)
       /\ c.op = "verify" => (d.scratch.at # "nowhere" <=> c.report.scratchRetained)
  /\ c.report.verified => c.pc \in ManifestSteps \cup EndSteps \cup {"confirm"}
  /\ c.pc = "last" \/ c.report.verified => d.scratch.at = "nowhere"

\* when a connection may be open;
Closed(c, o) ==
  /\ c.pc \notin EnginePhases \cup {"ended"} => o = {}
  /\ c.pc = "ended" /\ c.report.closureKnown => o = {}
  /\ c.pc \in FirstSteps => ~c.report.closureKnown

\* and how the candidate is bound to the source, at version s now.
Bounded(c, d, s) ==
  /\ c.before <= s
  /\ c.op = "export" => c.before = d.of
  /\ c.pc \in FirstSteps \cup CopiedSteps => c.pin = Absent
  /\ c.pc \in CopiedSteps /\ ~d.unseen =>
       \E v \in c.before..s : d.stage.data.body = Snapshot(v)
  /\ c.op = "export" /\ c.pc \in ScratchSteps \cup ManifestSteps /\ ~d.unseen
       => c.pin.body = Snapshot(d.of)
  /\ c.pc = "final" => c.manifestPin.body = c.pin.body
  /\ c.pc = "publish" /\ ~d.unseen => Sealed(d)

Local(c, d, o, s) ==
  StepsOf(c) /\ Reported(c, d) /\ Closed(c, o) /\ Bounded(c, d, s) /\ Kept(d)

Fresh == \A k \in Commands : k > cmd.n => dirs[k].stage = NoDir /\ dirs[k].scratch = NoDir

ExportInv ==
  /\ ExportTypeOK /\ Fresh
  /\ \A k \in Commands : Kept(dirs[k])
  /\ cmd.n \in Commands => Local(cmd, dirs[cmd.n], open, source)

-----------------------------------------------------------------------------
(* Directories and commands.                                               *)

\* heldDir.exact, member by member.
LEMMA ExactMembers ==
  ASSUME NEW d, NEW inner \in BOOLEAN, NEW expected
  PROVE  /\ exact(d, inner, expected) => ("data" \in expected <=> d.data # Absent)
         /\ exact(d, inner, expected) => ("manifest" \in expected <=> d.manifest # Absent)
         /\ exact(d, inner, expected) => ("inner" \in expected <=> inner)
         /\ exact(d, inner, expected) => ("extra" \in expected <=> d.extra)
         /\ d.data # Absent /\ d.manifest # Absent /\ ~d.extra /\ ~inner
              => exact(d, inner, {"data", "manifest"})
  BY DEF exact, Members

\* The command moves to the step p and changes nothing else of itself.
AtStep(c, u, p) ==
  /\ u \in CmdSet /\ u.pc = p /\ u.n = c.n /\ u.op = c.op /\ u.artifact = c.artifact
  /\ u.before = c.before
SamePins(c, u) == u.pin = c.pin /\ u.manifestPin = c.manifestPin

LEMMA GotoFields ==
  ASSUME NEW c \in CmdSet, NEW p \in Steps
  PROVE  LET u == [c EXCEPT !.pc = p]
         IN AtStep(c, u, p) /\ SamePins(c, u) /\ u.report = c.report
  BY DEF CmdSet, AtStep, SamePins

\* A step of the command on its own directories.
LEMMA CommandStep ==
  ASSUME ExportInv, cmd.n \in Commands, UNCHANGED source,
         NEW p, NEW c, NEW d \in EntrySet, cmd' = c, AtStep(cmd, c, p),
         dirs' = [dirs EXCEPT ![cmd.n] = d], Local(c, d, open', source)
  PROVE  ExportInv'
  <1>1. /\ cmd' \in CmdSet /\ cmd'.n = cmd.n /\ cmd'.op = cmd.op /\ cmd'.artifact = cmd.artifact
    BY DEF AtStep
  <1>2. dirs \in [Commands -> EntrySet]
    BY DEF ExportInv, ExportTypeOK
  <1>3. dirs' \in [Commands -> EntrySet] /\ dirs'[cmd.n] = d
    BY <1>2
  <1>4. \A k \in Commands : k # cmd.n => dirs'[k] = dirs[k]
    BY <1>2
  <1>5. ExportTypeOK'
    BY <1>1, <1>3 DEF ExportInv, ExportTypeOK
  <1>6. Fresh'
    <2> SUFFICES ASSUME NEW k \in Commands, k > cmd.n PROVE dirs'[k] = dirs[k]
      BY <1>1 DEF Fresh, ExportInv
    <2>1. cmd.n \in Nat
      BY DEF ExportInv, ExportTypeOK, CmdSet
    <2>2. k # cmd.n
      BY <2>1 DEF Commands
    <2> QED BY <1>4, <2>2
  <1>7. \A k \in Commands : Kept(dirs'[k])
    BY <1>3, <1>4 DEF ExportInv, Local
  <1>8. Local(cmd', dirs'[cmd.n], open', source')
    BY <1>3
  <1> QED BY <1>1, <1>5, <1>6, <1>7, <1>8 DEF ExportInv

\* Where the command is, and what holds of it.
LEMMA Here ==
  ASSUME ExportInv, cmd.pc # "gone"
  PROVE  /\ cmd.n \in Commands /\ cmd \in CmdSet /\ dirs[cmd.n] \in EntrySet
         /\ Local(cmd, dirs[cmd.n], open, source)
         /\ dirs = [dirs EXCEPT ![cmd.n] = dirs[cmd.n]]
  BY DEF ExportInv, ExportTypeOK

\* An early return.
LEMMA ReturnStep ==
  ASSUME ExportInv, cmd.pc \notin EnginePhases \cup {"ended", "gone"},
         Return, UNCHANGED <<dirs, open, source>>
  PROVE  ExportInv'
  <1> DEFINE c == [cmd EXCEPT !.pc = "ended"]
             d == dirs[cmd.n]
  <1>1. /\ cmd.n \in Commands /\ cmd \in CmdSet /\ d \in EntrySet
        /\ Local(cmd, d, open, source) /\ dirs = [dirs EXCEPT ![cmd.n] = d]
    BY Here
  <1>2. AtStep(cmd, c, "ended") /\ SamePins(cmd, c) /\ c.report = cmd.report
    BY <1>1, GotoFields DEF Steps, EndSteps
  <1>3. cmd' = c
    BY DEF Return, Goto
  <1> HIDE DEF c, d
  <1>4. Local(c, d, open', source)
    <2>1. StepsOf(c)
      BY <1>1, <1>2 DEF Local, StepsOf, AtStep, EndSteps
    <2>2. Reported(c, d)
      BY <1>1, <1>2 DEF Local, Reported, AtStep, EndSteps
    <2>3. Closed(c, open')
      BY <1>1, <1>2 DEF Local, Closed, AtStep, FirstSteps
    <2>4. Bounded(c, d, source)
      BY <1>1, <1>2 DEF Local, Bounded, AtStep, FirstSteps, CopiedSteps, ScratchSteps, ManifestSteps
    <2> QED BY <1>1, <2>1, <2>2, <2>3, <2>4 DEF Local
  <1> QED BY <1>1, <1>2, <1>3, <1>4, CommandStep

LEMMA FileTypes ==
  /\ Absent \in FileSet /\ File("empty") \in FileSet /\ File("partial") \in FileSet
  /\ Body("partial") \in BodySet /\ Body("edited") \in BodySet
  /\ \A v \in Nat : Snapshot(v) \in BodySet
  /\ NoDir \in DirSet /\ NoDir.at = "nowhere" /\ NewDir \in DirSet /\ NewDir.at = "created"
  <1>1. \A kind \in {"absent", "empty", "partial", "edited"} : Body(kind) \in BodySet
    BY DEF Body, BodySet
  <1>2. \A kind \in {"absent", "empty", "partial", "edited"} : File(kind) \in FileSet
    BY <1>1 DEF File, FileSet
  <1>3. \A v \in Nat : Snapshot(v) \in BodySet
    BY DEF Snapshot, BodySet
  <1>4. Absent \in FileSet
    BY <1>2 DEF Absent
  <1>5. NoDir \in DirSet /\ NoDir.at = "nowhere"
    BY <1>4 DEF NoDir, DirSet
  <1>6. NewDir \in DirSet /\ NewDir.at = "created"
    BY <1>5 DEF NewDir, DirSet
  <1> QED BY <1>1, <1>2, <1>3, <1>4, <1>5, <1>6

\* The entry of the command with a new stage, or a new scratch directory.
WithStage(d, s) == [d EXCEPT !.stage = s]
WithScratch(d, s) == [d EXCEPT !.scratch = s]

LEMMA EntryFields ==
  ASSUME NEW d \in EntrySet, NEW s \in DirSet
  PROVE  /\ WithStage(d, s) \in EntrySet /\ WithStage(d, s).stage = s
         /\ WithStage(d, s).scratch = d.scratch /\ WithStage(d, s).unseen = d.unseen
         /\ WithStage(d, s).of = d.of
         /\ WithScratch(d, s) \in EntrySet /\ WithScratch(d, s).scratch = s
         /\ WithScratch(d, s).stage = d.stage /\ WithScratch(d, s).unseen = d.unseen
         /\ WithScratch(d, s).of = d.of
  BY DEF EntrySet, WithStage, WithScratch

LEMMA PutFields ==
  ASSUME ExportInv, cmd.n \in Commands, NEW s
  PROVE  /\ PutStage(s) => dirs' = [dirs EXCEPT ![cmd.n] = WithStage(dirs[cmd.n], s)]
         /\ PutScratch(s) => dirs' = [dirs EXCEPT ![cmd.n] = WithScratch(dirs[cmd.n], s)]
  BY DEF PutStage, PutScratch, WithStage, WithScratch

-----------------------------------------------------------------------------
(* The export up to its copy.                                              *)

LEMMA CreateStageStep ==
  ASSUME ExportInv, CreateStage
  PROVE  ExportInv'
  <1> DEFINE d == dirs[cmd.n]
             u == WithStage(d, NewDir)
  <1>1. /\ cmd.n \in Commands /\ cmd \in CmdSet /\ d \in EntrySet /\ cmd.pc = "stage"
        /\ Local(cmd, d, open, source)
    BY Here DEF CreateStage, At
  <1>2. PICK proved \in BOOLEAN :
          cmd' = [cmd EXCEPT !.pc = IF proved THEN "candidate" ELSE "ended",
                             !.report.retained = TRUE]
    BY DEF CreateStage
  <1> DEFINE p == IF proved THEN "candidate" ELSE "ended"
             c == [cmd EXCEPT !.pc = p, !.report.retained = TRUE]
  <1>3. cmd' = c /\ p \in {"candidate", "ended"} /\ p \in Steps
    BY <1>2 DEF Steps, FirstSteps, EndSteps
  <1> HIDE DEF p
  <1>4. /\ AtStep(cmd, c, p) /\ SamePins(cmd, c)
        /\ c.report.retained /\ c.report.published = cmd.report.published
        /\ c.report.verified = cmd.report.verified
        /\ c.report.scratchRetained = cmd.report.scratchRetained
        /\ c.report.closureKnown = cmd.report.closureKnown
    BY <1>1, <1>3 DEF CmdSet, ReportSet, AtStep, SamePins
  <1> HIDE DEF c
  <1>5. /\ u \in EntrySet /\ u.stage.at = "created" /\ u.scratch = d.scratch
        /\ u.unseen = d.unseen /\ u.of = d.of
    BY <1>1, FileTypes, EntryFields
  <1>6. dirs' = [dirs EXCEPT ![cmd.n] = u]
    BY <1>1, PutFields DEF CreateStage
  <1> HIDE DEF d, u
  <1>7. Local(c, u, open', source)
    <2>0. cmd.op = "export"
      BY <1>1 DEF Local, StepsOf, CmdSet, ScratchSteps, EndSteps
    <2>1. StepsOf(c)
      BY <1>3, <1>4, <2>0 DEF StepsOf, AtStep
    <2>2. Reported(c, u)
      BY <1>1, <1>3, <1>4, <1>5, <2>0 DEF Local, Reported, AtStep, EndSteps, ManifestSteps
    <2>3. Closed(c, open')
      BY <1>1, <1>3, <1>4 DEF Local, Closed, AtStep, FirstSteps, EnginePhases, CreateStage
    <2>4. Bounded(c, u, source)
      BY <1>1, <1>3, <1>4, <1>5, <2>0 DEF Local, Bounded, AtStep, SamePins, FirstSteps, CopiedSteps,
         ScratchSteps, ManifestSteps
    <2> QED BY <1>5, <2>1, <2>2, <2>3, <2>4 DEF Local, Kept
  <1> QED BY <1>1, <1>3, <1>4, <1>5, <1>6, <1>7, CommandStep DEF CreateStage, OthersUnchanged

LEMMA CreateCandidateStep ==
  ASSUME ExportInv, CreateCandidate
  PROVE  ExportInv'
  <1> DEFINE d == dirs[cmd.n]
             s == [d.stage EXCEPT !.data = File("empty")]
             u == WithStage(d, s)
             c == [cmd EXCEPT !.pc = "open"]
  <1>1. /\ cmd.n \in Commands /\ cmd \in CmdSet /\ d \in EntrySet /\ cmd.pc = "candidate"
        /\ Local(cmd, d, open, source)
    BY Here DEF CreateCandidate, At
  <1>2. CASE check(Stage, "created") /\ Stage.data = Absent
    <2>1. d.stage.at = "created" /\ PutStage(s) /\ cmd' = c
      BY <1>2 DEF CreateCandidate, check, Stage, Goto
    <2>2. AtStep(cmd, c, "open") /\ SamePins(cmd, c) /\ c.report = cmd.report
      BY <1>1, GotoFields DEF Steps, FirstSteps
    <2>3. s \in DirSet /\ s.at = d.stage.at
      BY <1>1, FileTypes DEF EntrySet, DirSet
    <2> HIDE DEF s
    <2>4. /\ u \in EntrySet /\ u.stage = s /\ u.scratch = d.scratch
          /\ u.unseen = d.unseen /\ u.of = d.of
      BY <1>1, <2>3, EntryFields
    <2>5. dirs' = [dirs EXCEPT ![cmd.n] = u]
      BY <1>1, <2>1, PutFields
    <2> HIDE DEF c, d, u
    <2>6. Local(c, u, open', source)
      <3>0. cmd.op = "export"
        BY <1>1 DEF Local, StepsOf, CmdSet, ScratchSteps, EndSteps
      <3>1. StepsOf(c)
        BY <2>2, <3>0 DEF StepsOf, AtStep
      <3>2. Reported(c, u)
        BY <1>1, <2>1, <2>2, <2>3, <2>4, <3>0 DEF Local, Reported, AtStep, EndSteps, ManifestSteps
      <3>3. Closed(c, open')
        BY <1>1, <2>2 DEF Local, Closed, AtStep, FirstSteps, EnginePhases, CreateCandidate
      <3>4. Bounded(c, u, source)
        BY <1>1, <2>2, <2>4 DEF Local, Bounded, AtStep, SamePins, FirstSteps, CopiedSteps,
           ScratchSteps, ManifestSteps
      <3> QED BY <2>1, <2>3, <2>4, <3>1, <3>2, <3>3, <3>4 DEF Local, Kept
    <2> QED BY <1>1, <2>1, <2>2, <2>4, <2>5, <2>6, CommandStep DEF CreateCandidate, OthersUnchanged
  <1>3. CASE ~(check(Stage, "created") /\ Stage.data = Absent)
    BY <1>1, <1>3, ReturnStep DEF CreateCandidate, EnginePhases, OthersUnchanged
  <1> QED BY <1>2, <1>3

\* A step that leaves the directories alone.
LEMMA MovedStep ==
  ASSUME ExportInv, cmd.pc # "gone", UNCHANGED <<dirs, source>>,
         NEW p, NEW c, cmd' = c, AtStep(cmd, c, p),
         StepsOf(c), Reported(c, dirs[cmd.n]), Closed(c, open'), Bounded(c, dirs[cmd.n], source)
  PROVE  ExportInv'
  <1>1. /\ cmd.n \in Commands /\ dirs[cmd.n] \in EntrySet
        /\ Local(cmd, dirs[cmd.n], open, source) /\ dirs' = [dirs EXCEPT ![cmd.n] = dirs[cmd.n]]
    BY Here
  <1>2. Local(c, dirs[cmd.n], open', source)
    BY <1>1 DEF Local
  <1> QED BY <1>1, <1>2, CommandStep

\* A step of an export that writes into its stage.
LEMMA WroteStage ==
  ASSUME ExportInv, cmd.pc \notin {"gone", "last"}, UNCHANGED source, cmd.op = "export",
         dirs[cmd.n].stage.at = "created",
         NEW s \in DirSet, s.at = "created", PutStage(s),
         NEW p \in FirstSteps \cup CopiedSteps \cup ManifestSteps, p # "stage",
         NEW c, cmd' = c, AtStep(cmd, c, p), c.report = cmd.report,
         cmd.report.verified => p \in ManifestSteps,
         Closed(c, open'), Bounded(c, WithStage(dirs[cmd.n], s), source)
  PROVE  ExportInv'
  <1> DEFINE d == dirs[cmd.n]
             u == WithStage(d, s)
  <1>1. cmd.n \in Commands /\ cmd \in CmdSet /\ d \in EntrySet /\ Local(cmd, d, open, source)
    BY Here
  <1>2. /\ u \in EntrySet /\ u.stage = s /\ u.scratch = d.scratch
        /\ u.unseen = d.unseen /\ u.of = d.of
    BY <1>1, EntryFields
  <1>3. dirs' = [dirs EXCEPT ![cmd.n] = u]
    BY <1>1, PutFields
  <1>4. StepsOf(c)
    BY DEF StepsOf, AtStep, FirstSteps, CopiedSteps, ManifestSteps
  <1> HIDE DEF d, u
  <1>5. Reported(c, u)
    BY <1>1, <1>2 DEF Local, Reported, AtStep, FirstSteps, CopiedSteps, ManifestSteps, EndSteps, d
  <1>6. Local(c, u, open', source)
    BY <1>2, <1>4, <1>5 DEF Local, Kept, u, d
  <1> QED BY <1>1, <1>2, <1>3, <1>6, CommandStep

\* consumeConnection.
LEMMA CloseStep ==
  ASSUME ExportInv, cmd.pc \in EnginePhases, UNCHANGED <<dirs, source>>,
         NEW ok \in BOOLEAN, NEW p \in {"check", "reread", "ended"}, CloseAfter(ok, p),
         p = "check" => cmd.pc = "copied", p = "reread" => cmd.pc = "inspecting"
  PROVE  ExportInv'
  <1> DEFINE d == dirs[cmd.n]
  <1>1. cmd.pc # "gone" /\ cmd \in CmdSet /\ Local(cmd, d, open, source)
    BY Here DEF EnginePhases
  <1>2. PICK known \in BOOLEAN :
          /\ cmd' = [cmd EXCEPT !.pc = IF ok /\ known THEN p ELSE "ended",
                                !.report.closureKnown = known]
          /\ open' \in IF known THEN {{}} ELSE SUBSET open
    BY DEF CloseAfter
  <1> DEFINE q == IF ok /\ known THEN p ELSE "ended"
             c == [cmd EXCEPT !.pc = q, !.report.closureKnown = known]
  <1>3. cmd' = c /\ q \in Steps /\ (q = "ended" \/ (q = p /\ known))
    BY <1>2 DEF Steps, CopiedSteps, ScratchSteps, EndSteps
  <1>4. known => open' = {}
    BY <1>2
  <1> HIDE DEF q
  <1>5. /\ AtStep(cmd, c, q) /\ SamePins(cmd, c)
        /\ c.report.published = cmd.report.published /\ c.report.retained = cmd.report.retained
        /\ c.report.verified = cmd.report.verified
        /\ c.report.scratchRetained = cmd.report.scratchRetained
        /\ c.report.closureKnown = known
    BY <1>1, <1>3 DEF CmdSet, ReportSet, AtStep, SamePins
  <1> HIDE DEF c, d
  <1>6. ~cmd.report.verified
    BY <1>1 DEF Local, Reported, EnginePhases, ManifestSteps, EndSteps
  <1>7. StepsOf(c)
    BY <1>1, <1>3, <1>5 DEF Local, StepsOf, AtStep, ScratchSteps, EndSteps, EnginePhases
  <1>8. Reported(c, d)
    BY <1>1, <1>3, <1>5, <1>6 DEF Local, Reported, AtStep, EndSteps, EnginePhases
  <1>9. Closed(c, open')
    BY <1>3, <1>4, <1>5 DEF Closed, AtStep, EnginePhases, FirstSteps
  <1>10. Bounded(c, d, source)
    BY <1>1, <1>3, <1>5 DEF Local, Bounded, AtStep, SamePins, FirstSteps, CopiedSteps,
       ScratchSteps, ManifestSteps, EnginePhases
  <1> QED BY <1>1, <1>3, <1>5, <1>7, <1>8, <1>9, <1>10, MovedStep DEF d

LEMMA OpenSourceStep ==
  ASSUME ExportInv, OpenSource
  PROVE  ExportInv'
  <1> DEFINE d == dirs[cmd.n]
  <1>1. /\ cmd.pc = "open" /\ cmd \in CmdSet /\ Local(cmd, d, open, source)
        /\ UNCHANGED <<dirs, source>>
    BY Here DEF OpenSource, At, OthersUnchanged
  <1>2. PICK p \in {"opened", "ended"} : cmd' = [cmd EXCEPT !.pc = p]
    BY DEF OpenSource, Return, Goto
  <1> DEFINE c == [cmd EXCEPT !.pc = p]
  <1>3. AtStep(cmd, c, p) /\ SamePins(cmd, c) /\ c.report = cmd.report
    BY <1>1, GotoFields DEF Steps, FirstSteps, EndSteps
  <1> HIDE DEF c, d
  <1>4. StepsOf(c) /\ Reported(c, d) /\ Closed(c, open')
    BY <1>1, <1>3 DEF Local, StepsOf, Reported, Closed, AtStep, EndSteps, ManifestSteps,
       ScratchSteps, FirstSteps, EnginePhases
  <1>5. Bounded(c, d, source)
    BY <1>1, <1>3 DEF Local, Bounded, AtStep, SamePins, FirstSteps, CopiedSteps,
       ScratchSteps, ManifestSteps
  <1> QED BY <1>1, <1>2, <1>3, <1>4, <1>5, MovedStep DEF c, d

LEMMA CloseSteps ==
  ASSUME ExportInv, RefuseSource \/ CloseBackup \/ CloseScratch
  PROVE  ExportInv'
  <1>1. CASE RefuseSource
    BY <1>1, CloseStep DEF RefuseSource, At, EnginePhases, OthersUnchanged
  <1>2. CASE CloseBackup
    <2>1. Admitted \in BOOLEAN
      BY DEF Admitted, check, sameObject, ExportInv, ExportTypeOK
    <2> QED BY <1>2, <2>1, CloseStep DEF CloseBackup, At, EnginePhases, OthersUnchanged
  <1>3. CASE CloseScratch
    <2>1. PICK sound \in Verdicts(Scratch.data.body) \cup {FALSE} :
            CloseAfter(sound /\ CopyIntact /\ exact(Scratch, FALSE, {"data"}), "reread")
      BY <1>3 DEF CloseScratch
    <2> DEFINE ok == sound /\ CopyIntact /\ exact(Scratch, FALSE, {"data"})
    <2>2. ok \in BOOLEAN /\ CloseAfter(ok, "reread")
      BY <2>1
    <2> HIDE DEF ok
    <2> QED BY <1>3, <2>2, CloseStep DEF CloseScratch, At, EnginePhases, OthersUnchanged
  <1> QED BY <1>1, <1>2, <1>3

LEMMA StartBackupStep ==
  ASSUME ExportInv, StartBackup
  PROVE  ExportInv'
  <1> DEFINE d == dirs[cmd.n]
             s == [d.stage EXCEPT !.data.body = Body("partial")]
             c == [cmd EXCEPT !.pc = "copying"]
  <1>1. /\ cmd.n \in Commands /\ cmd \in CmdSet /\ d \in EntrySet /\ cmd.pc = "opened"
        /\ Local(cmd, d, open, source)
    BY Here DEF StartBackup, At
  <1>2. cmd.op = "export"
    BY <1>1 DEF Local, StepsOf, CmdSet, ScratchSteps, EndSteps
  <1>3. d.stage.at = "created" /\ PutStage(s) /\ cmd' = c
    BY DEF StartBackup, Admitted, check, Stage, Goto
  <1>4. AtStep(cmd, c, "copying") /\ SamePins(cmd, c) /\ c.report = cmd.report
    BY <1>1, GotoFields DEF Steps, FirstSteps
  <1>5. s \in DirSet /\ s.at = d.stage.at
    BY <1>1, FileTypes DEF EntrySet, DirSet, FileSet
  <1> HIDE DEF s, c
  <1>6. Closed(c, open')
    BY <1>1, <1>4 DEF Local, Closed, AtStep, FirstSteps, EnginePhases
  <1>7. Bounded(c, WithStage(d, s), source)
    <2>1. WithStage(d, s).unseen = d.unseen /\ WithStage(d, s).of = d.of
      BY <1>1, <1>5, EntryFields
    <2> QED BY <1>1, <1>4, <2>1 DEF Local, Bounded, AtStep, SamePins, FirstSteps, CopiedSteps,
           ScratchSteps, ManifestSteps
  <1>8. ~cmd.report.verified /\ "copying" \in FirstSteps
    BY <1>1 DEF Local, Reported, ManifestSteps, EndSteps, FirstSteps
  <1> QED BY <1>1, <1>2, <1>3, <1>4, <1>5, <1>6, <1>7, <1>8, WroteStage
         DEF StartBackup, OthersUnchanged

\* The copy is a snapshot of a version between the lock and now.
LEMMA FinishBackupStep ==
  ASSUME ExportInv, FinishBackup
  PROVE  ExportInv'
  <1> DEFINE d == dirs[cmd.n]
             s == [d.stage EXCEPT !.data.body = Snapshot(source)]
             c == [cmd EXCEPT !.pc = "copied"]
             u == WithStage(d, s)
  <1>1. /\ cmd.n \in Commands /\ cmd \in CmdSet /\ d \in EntrySet /\ cmd.pc = "copying"
        /\ Local(cmd, d, open, source) /\ source \in Nat
    BY Here DEF FinishBackup, At, ExportInv, ExportTypeOK
  <1>2. cmd.op = "export"
    BY <1>1 DEF Local, StepsOf, CmdSet, ScratchSteps, EndSteps
  <1>3. d.stage.at = "created" /\ PutStage(s) /\ cmd' = c
    BY DEF FinishBackup, Admitted, check, Stage, Goto
  <1>4. AtStep(cmd, c, "copied") /\ SamePins(cmd, c) /\ c.report = cmd.report
    BY <1>1, GotoFields DEF Steps, CopiedSteps
  <1>5. s \in DirSet /\ s.at = d.stage.at /\ s.data.body = Snapshot(source)
    BY <1>1, FileTypes DEF EntrySet, DirSet, FileSet
  <1> HIDE DEF s, c
  <1>6. Closed(c, open')
    BY <1>4 DEF Closed, AtStep, FirstSteps, EnginePhases
  <1>7. /\ u.unseen = d.unseen /\ u.of = d.of /\ u.stage = s
    BY <1>1, <1>5, EntryFields
  <1> HIDE DEF u, d
  <1>8. cmd.before \in Nat /\ cmd.before <= source
    BY <1>1 DEF Local, Bounded, CmdSet
  <1>9. source \in cmd.before..source
    BY <1>1, <1>8
  <1>10. \E v \in c.before..source : u.stage.data.body = Snapshot(v)
    BY <1>4, <1>5, <1>7, <1>9 DEF AtStep
  <1>11. Bounded(c, u, source)
    BY <1>1, <1>4, <1>7, <1>10 DEF Local, Bounded, AtStep, SamePins, FirstSteps, CopiedSteps,
       ScratchSteps, ManifestSteps
  <1>12. ~cmd.report.verified /\ "copied" \in CopiedSteps
    BY <1>1 DEF Local, Reported, ManifestSteps, EndSteps, CopiedSteps
  <1> QED BY <1>1, <1>2, <1>3, <1>4, <1>5, <1>6, <1>11, <1>12, WroteStage
         DEF FinishBackup, OthersUnchanged, u, d

\* A candidate that is pinned while the source is as stamped is that version.
LEMMA PinCandidateStep ==
  ASSUME ExportInv, PinCandidate
  PROVE  ExportInv'
  <1> DEFINE d == dirs[cmd.n]
             c == [cmd EXCEPT !.pc = "scratch", !.pin = d.stage.data]
  <1>1. /\ cmd.n \in Commands /\ cmd \in CmdSet /\ d \in EntrySet /\ cmd.pc = "check"
        /\ Local(cmd, d, open, source) /\ UNCHANGED <<dirs, open, source>> /\ source \in Nat
    BY Here DEF PinCandidate, At, OthersUnchanged, ExportInv, ExportTypeOK
  <1>2. CASE Return
    BY <1>1, <1>2, ReturnStep DEF EnginePhases
  <1>3. CASE cmd.before = source /\ cmd' = c
    <2>1. cmd.op = "export"
      BY <1>1 DEF Local, StepsOf, CmdSet, ScratchSteps, EndSteps
    <2>2. /\ AtStep(cmd, c, "scratch") /\ c.report = cmd.report
          /\ c.pin = d.stage.data /\ c.manifestPin = cmd.manifestPin
      BY <1>1 DEF CmdSet, AtStep, EntrySet, DirSet, Steps, ScratchSteps
    <2> HIDE DEF c, d
    <2>3. ~d.unseen => d.stage.data.body = Snapshot(d.of)
      <3> SUFFICES ASSUME ~d.unseen PROVE d.stage.data.body = Snapshot(d.of)
        OBVIOUS
      <3>1. PICK v \in cmd.before..source : d.stage.data.body = Snapshot(v)
        BY <1>1 DEF Local, Bounded, CopiedSteps
      <3>2. cmd.before = d.of
        BY <1>1, <2>1 DEF Local, Bounded
      <3>3. v = d.of
        BY <1>1, <1>3, <3>2
      <3> QED BY <3>1, <3>3
    <2>4. StepsOf(c) /\ Reported(c, d) /\ Closed(c, open')
      BY <1>1, <2>1, <2>2 DEF Local, StepsOf, Reported, Closed, AtStep, EndSteps, ManifestSteps,
         ScratchSteps, FirstSteps, EnginePhases
    <2>5. Bounded(c, d, source)
      BY <1>1, <2>2, <2>3 DEF Local, Bounded, AtStep, FirstSteps, CopiedSteps, ScratchSteps, ManifestSteps
    <2> QED BY <1>1, <1>3, <2>2, <2>4, <2>5, MovedStep DEF d
  <1> QED BY <1>2, <1>3 DEF PinCandidate, unchangedSource, Stage

-----------------------------------------------------------------------------
(* The scratch copy.                                                       *)

\* A step that writes into the scratch directory, which stays where it is.
LEMMA WroteScratch ==
  ASSUME ExportInv, cmd.pc \in ScratchSteps, UNCHANGED source,
         NEW s \in DirSet, PutScratch(s),
         s.at # "nowhere" <=> dirs[cmd.n].scratch.at # "nowhere",
         NEW p \in ScratchSteps, p \notin EnginePhases, cmd.pc \notin EnginePhases,
         UNCHANGED open,
         NEW c, cmd' = c, AtStep(cmd, c, p), SamePins(cmd, c), c.report = cmd.report
  PROVE  ExportInv'
  <1> DEFINE d == dirs[cmd.n]
             u == WithScratch(d, s)
  <1>1. cmd.n \in Commands /\ cmd \in CmdSet /\ d \in EntrySet /\ Local(cmd, d, open, source)
    BY Here DEF ScratchSteps
  <1>2. /\ u \in EntrySet /\ u.scratch = s /\ u.stage = d.stage
        /\ u.unseen = d.unseen /\ u.of = d.of
    BY <1>1, EntryFields
  <1>3. dirs' = [dirs EXCEPT ![cmd.n] = u]
    BY <1>1, PutFields
  <1> HIDE DEF u
  <1>4. StepsOf(c) /\ Closed(c, open')
    BY <1>1 DEF Local, StepsOf, Closed, AtStep, ScratchSteps, FirstSteps, EnginePhases
  <1>5. Reported(c, u)
    BY <1>1, <1>2 DEF Local, Reported, AtStep, ScratchSteps, ManifestSteps, EndSteps
  <1>6. Bounded(c, u, source)
    BY <1>1, <1>2 DEF Local, Bounded, AtStep, SamePins, ScratchSteps, ManifestSteps,
       FirstSteps, CopiedSteps
  <1>7. Kept(u)
    BY <1>1, <1>2 DEF Local, Reported, Kept, ScratchSteps, EndSteps
  <1>8. Local(c, u, open', source)
    BY <1>4, <1>5, <1>6, <1>7 DEF Local
  <1> QED BY <1>1, <1>2, <1>3, <1>8, CommandStep

LEMMA MakeScratchStep ==
  ASSUME ExportInv, MakeScratch
  PROVE  ExportInv'
  <1> DEFINE d == dirs[cmd.n]
             u == WithScratch(d, NewDir)
             exporting == cmd.op = "export"
  <1>1. /\ cmd.n \in Commands /\ cmd \in CmdSet /\ d \in EntrySet /\ cmd.pc = "scratch"
        /\ Local(cmd, d, open, source) /\ UNCHANGED <<open, source>>
    BY Here DEF MakeScratch, At, OthersUnchanged
  <1>2. PICK p \in {"copy", "ended"} :
          cmd' = [cmd EXCEPT !.pc = p, !.report.scratchRetained = ~exporting]
    BY DEF MakeScratch, Exporting
  <1> DEFINE c == [cmd EXCEPT !.pc = p, !.report.scratchRetained = ~exporting]
  <1>3. exporting \in BOOLEAN /\ p \in Steps
    BY DEF Steps, ScratchSteps, EndSteps
  <1> HIDE DEF exporting
  <1>4. /\ AtStep(cmd, c, p) /\ SamePins(cmd, c)
        /\ c.report.published = cmd.report.published /\ c.report.retained = cmd.report.retained
        /\ c.report.verified = cmd.report.verified
        /\ c.report.closureKnown = cmd.report.closureKnown
        /\ c.report.scratchRetained = ~exporting
    BY <1>1, <1>3 DEF CmdSet, ReportSet, AtStep, SamePins
  <1>5. /\ u \in EntrySet /\ u.scratch.at = "created" /\ u.stage = d.stage
        /\ u.unseen = d.unseen /\ u.of = d.of
    BY <1>1, FileTypes, EntryFields
  <1>6. dirs' = [dirs EXCEPT ![cmd.n] = u]
    BY <1>1, PutFields DEF MakeScratch
  <1> HIDE DEF c, d, u
  <1>7. cmd' = c
    BY <1>2 DEF c
  <1>8. ~c.report.verified
    BY <1>1, <1>4 DEF Local, Reported, ManifestSteps, EndSteps
  <1>9. StepsOf(c) /\ Closed(c, open')
    BY <1>1, <1>4 DEF Local, StepsOf, Closed, AtStep, ScratchSteps, EndSteps, FirstSteps, EnginePhases
  <1>10. Reported(c, u)
    BY <1>1, <1>4, <1>5, <1>8 DEF Local, Reported, AtStep, EndSteps, exporting
  <1>11. Bounded(c, u, source)
    BY <1>1, <1>4, <1>5 DEF Local, Bounded, AtStep, SamePins, FirstSteps, CopiedSteps,
       ScratchSteps, ManifestSteps
  <1>12. Kept(u)
    BY <1>1, <1>5 DEF Local, Reported, Kept, EndSteps
  <1>13. Local(c, u, open', source)
    BY <1>9, <1>10, <1>11, <1>12 DEF Local
  <1> QED BY <1>1, <1>4, <1>5, <1>6, <1>7, <1>13, CommandStep

LEMMA CopySteps ==
  ASSUME ExportInv, StartCopy \/ FinishCopy \/ UnlinkCopy
  PROVE  ExportInv'
  <1> DEFINE d == dirs[cmd.n]
             t == d.scratch
  <1>1. /\ cmd.n \in Commands /\ cmd \in CmdSet /\ t \in DirSet
        /\ cmd.pc \in {"copy", "fill", "unlink"} /\ UNCHANGED <<open, source>>
        /\ cmd.pin \in FileSet /\ cmd.pin.body \in BodySet
    BY Here DEF StartCopy, FinishCopy, UnlinkCopy, At, OthersUnchanged, EntrySet, CmdSet, FileSet
  <1>2. CASE Return /\ UNCHANGED dirs
    BY <1>1, <1>2, ReturnStep DEF EnginePhases
  <1>3. CASE \E file \in FileSet, p \in {"fill", "inspect", "rmdir"}, pin \in FileSet :
               /\ PutScratch([t EXCEPT !.data = file])
               /\ cmd' = [cmd EXCEPT !.pc = p, !.scratchPin = pin]
    <2>1. PICK file \in FileSet, p \in {"fill", "inspect", "rmdir"}, pin \in FileSet :
               /\ PutScratch([t EXCEPT !.data = file])
               /\ cmd' = [cmd EXCEPT !.pc = p, !.scratchPin = pin]
      BY <1>3
    <2> DEFINE s == [t EXCEPT !.data = file]
               c == [cmd EXCEPT !.pc = p, !.scratchPin = pin]
    <2>2. s \in DirSet /\ s.at = t.at
      BY <1>1 DEF DirSet
    <2>3. p \in Steps /\ p \in ScratchSteps /\ p \notin EnginePhases
      BY DEF Steps, ScratchSteps, EnginePhases
    <2>4. AtStep(cmd, c, p) /\ SamePins(cmd, c) /\ c.report = cmd.report
      BY <1>1, <2>3 DEF CmdSet, AtStep, SamePins
    <2>5. cmd.pc \in ScratchSteps /\ cmd.pc \notin EnginePhases
      BY <1>1 DEF ScratchSteps, EnginePhases
    <2>6. PutScratch(s) /\ cmd' = c
      BY <2>1
    <2> HIDE DEF s, c
    <2> QED BY <1>1, <2>2, <2>3, <2>4, <2>5, <2>6, WroteScratch
  <1>4. CASE StartCopy
    <2>1. CASE check(Scratch, "created") /\ Scratch.data = Absent
      <3>1. /\ PutScratch([t EXCEPT !.data = File("partial")])
            /\ cmd' = [cmd EXCEPT !.pc = "fill"]
        BY <1>4, <2>1 DEF StartCopy, Scratch, Goto
      <3>2. cmd' = [cmd EXCEPT !.pc = "fill", !.scratchPin = cmd.scratchPin] /\ cmd.scratchPin \in FileSet
        BY <1>1, <3>1 DEF CmdSet
      <3> QED BY <1>3, <3>1, <3>2, FileTypes
    <2>2. CASE ~(check(Scratch, "created") /\ Scratch.data = Absent)
      BY <1>2, <1>4, <2>2 DEF StartCopy
    <2> QED BY <2>1, <2>2
  <1>5. CASE FinishCopy
    <2> DEFINE copy == [t.data EXCEPT !.body = cmd.pin.body]
    <2>1. \/ Return /\ UNCHANGED dirs
          \/ /\ PutScratch([t EXCEPT !.data = copy])
             /\ cmd' = [cmd EXCEPT !.pc = "inspect", !.scratchPin = copy]
      BY <1>5 DEF FinishCopy, Scratch
    <2>2. copy \in FileSet
      BY <1>1 DEF DirSet, FileSet
    <2> HIDE DEF copy
    <2> QED BY <1>2, <1>3, <2>1, <2>2
  <1>6. CASE UnlinkCopy
    <2>1. \/ Return /\ UNCHANGED dirs
          \/ /\ PutScratch([t EXCEPT !.data = Absent])
             /\ cmd' = [cmd EXCEPT !.pc = "rmdir"]
      BY <1>6 DEF UnlinkCopy, Scratch, Goto
    <2>2. cmd.scratchPin \in FileSet /\ [cmd EXCEPT !.pc = "rmdir"] = [cmd EXCEPT !.pc = "rmdir", !.scratchPin = cmd.scratchPin]
      BY <1>1 DEF CmdSet
    <2> QED BY <1>2, <1>3, <2>1, <2>2, FileTypes
  <1> QED BY <1>4, <1>5, <1>6

LEMMA OpenScratchStep ==
  ASSUME ExportInv, OpenScratch
  PROVE  ExportInv'
  <1> DEFINE d == dirs[cmd.n]
  <1>1. /\ cmd.pc = "inspect" /\ cmd \in CmdSet /\ Local(cmd, d, open, source)
        /\ UNCHANGED <<dirs, source>> /\ open = {}
    BY Here DEF OpenScratch, At, OthersUnchanged, Local, Closed, EnginePhases
  <1>2. CASE Goto("inspecting")
    <2> DEFINE c == [cmd EXCEPT !.pc = "inspecting"]
    <2>1. /\ cmd' = c /\ AtStep(cmd, c, "inspecting") /\ SamePins(cmd, c) /\ c.report = cmd.report
      BY <1>1, <1>2, GotoFields DEF Steps, ScratchSteps, Goto
    <2> HIDE DEF c, d
    <2>2. StepsOf(c) /\ Reported(c, d) /\ Closed(c, open')
      BY <1>1, <2>1 DEF Local, StepsOf, Reported, Closed, AtStep, EndSteps, ManifestSteps,
         ScratchSteps, FirstSteps, EnginePhases
    <2>3. Bounded(c, d, source)
      BY <1>1, <2>1 DEF Local, Bounded, AtStep, SamePins, FirstSteps, CopiedSteps,
         ScratchSteps, ManifestSteps
    <2> QED BY <1>1, <2>1, <2>2, <2>3, MovedStep DEF d
  <1>3. CASE \E known \in BOOLEAN :
               /\ cmd' = [cmd EXCEPT !.pc = "ended", !.report.closureKnown = known]
               /\ known => open' = {}
    <2>1. PICK known \in BOOLEAN :
               /\ cmd' = [cmd EXCEPT !.pc = "ended", !.report.closureKnown = known]
               /\ known => open' = {}
      BY <1>3
    <2> DEFINE c == [cmd EXCEPT !.pc = "ended", !.report.closureKnown = known]
    <2>2. /\ AtStep(cmd, c, "ended") /\ SamePins(cmd, c)
          /\ c.report.published = cmd.report.published /\ c.report.retained = cmd.report.retained
          /\ c.report.verified = cmd.report.verified
          /\ c.report.scratchRetained = cmd.report.scratchRetained
          /\ c.report.closureKnown = known
      BY <1>1 DEF CmdSet, ReportSet, AtStep, SamePins, Steps, EndSteps
    <2>3. cmd' = c
      BY <2>1
    <2> HIDE DEF c, d
    <2>4. StepsOf(c) /\ Reported(c, d) /\ Closed(c, open')
      BY <1>1, <2>1, <2>2 DEF Local, StepsOf, Reported, Closed, AtStep, EndSteps, ManifestSteps,
         ScratchSteps, FirstSteps, EnginePhases
    <2>5. Bounded(c, d, source)
      BY <1>1, <2>2 DEF Local, Bounded, AtStep, SamePins, FirstSteps, CopiedSteps,
         ScratchSteps, ManifestSteps
    <2> QED BY <1>1, <2>2, <2>3, <2>4, <2>5, MovedStep DEF d
  <1> QED BY <1>1, <1>2, <1>3 DEF OpenScratch

LEMMA RereadScratchStep ==
  ASSUME ExportInv, RereadScratch
  PROVE  ExportInv'
  <1> DEFINE d == dirs[cmd.n]
             c == [cmd EXCEPT !.pc = "unlink"]
  <1>1. /\ cmd.pc = "reread" /\ cmd \in CmdSet /\ Local(cmd, d, open, source)
        /\ UNCHANGED <<dirs, open, source>>
    BY Here DEF RereadScratch, At, OthersUnchanged
  <1>2. CASE Return
    BY <1>1, <1>2, ReturnStep DEF EnginePhases
  <1>3. CASE Goto("unlink")
    <2>1. /\ cmd' = c /\ AtStep(cmd, c, "unlink") /\ SamePins(cmd, c) /\ c.report = cmd.report
      BY <1>1, <1>3, GotoFields DEF Steps, ScratchSteps, Goto
    <2> HIDE DEF c, d
    <2>2. StepsOf(c) /\ Reported(c, d) /\ Closed(c, open')
      BY <1>1, <2>1 DEF Local, StepsOf, Reported, Closed, AtStep, EndSteps, ManifestSteps,
         ScratchSteps, FirstSteps, EnginePhases
    <2>3. Bounded(c, d, source)
      BY <1>1, <2>1 DEF Local, Bounded, AtStep, SamePins, FirstSteps, CopiedSteps,
         ScratchSteps, ManifestSteps
    <2> QED BY <1>1, <2>1, <2>2, <2>3, MovedStep DEF d
  <1> QED BY <1>2, <1>3 DEF RereadScratch

LEMMA RemoveScratchStep ==
  ASSUME ExportInv, RemoveScratch
  PROVE  ExportInv'
  <1> DEFINE d == dirs[cmd.n]
             u == WithScratch(d, NoDir)
             p == IF cmd.op = "export" THEN "recheck" ELSE "last"
             c == [cmd EXCEPT !.pc = p, !.report.scratchRetained = FALSE]
  <1>1. /\ cmd.n \in Commands /\ cmd \in CmdSet /\ d \in EntrySet /\ cmd.pc = "rmdir"
        /\ Local(cmd, d, open, source) /\ UNCHANGED <<open, source>>
    BY Here DEF RemoveScratch, At, OthersUnchanged
  <1>2. CASE Return /\ UNCHANGED dirs
    BY <1>1, <1>2, ReturnStep DEF EnginePhases
  <1>3. CASE PutScratch(NoDir) /\ cmd' = c
    <2>1. p \in Steps /\ (cmd.op = "export" => p = "recheck") /\ (cmd.op # "export" => p = "last")
      BY DEF Steps, ManifestSteps
    <2> HIDE DEF p
    <2>2. /\ AtStep(cmd, c, p) /\ SamePins(cmd, c)
          /\ c.report.published = cmd.report.published /\ c.report.retained = cmd.report.retained
          /\ c.report.verified = cmd.report.verified
          /\ c.report.closureKnown = cmd.report.closureKnown
          /\ c.report.scratchRetained = FALSE
      BY <1>1, <2>1 DEF CmdSet, ReportSet, AtStep, SamePins
    <2>3. /\ u \in EntrySet /\ u.scratch.at = "nowhere" /\ u.stage = d.stage
          /\ u.unseen = d.unseen /\ u.of = d.of
      BY <1>1, FileTypes, EntryFields
    <2>4. dirs' = [dirs EXCEPT ![cmd.n] = u] /\ cmd' = c
      BY <1>1, <1>3, PutFields
    <2> HIDE DEF c, d, u
    <2>5. cmd.op \in {"export", "verify"} /\ ~cmd.report.verified
      BY <1>1 DEF Local, StepsOf, Reported, CmdSet, ManifestSteps, EndSteps
    <2>6. StepsOf(c)
      BY <1>1, <2>1, <2>2, <2>5 DEF Local, StepsOf, AtStep
    <2>7. Closed(c, open')
      BY <1>1, <2>1, <2>2, <2>5 DEF Local, Closed, AtStep, FirstSteps, EnginePhases
    <2>8. Reported(c, u)
      BY <1>1, <2>1, <2>2, <2>3, <2>5 DEF Local, Reported, AtStep, EndSteps
    <2>9. Bounded(c, u, source)
      BY <1>1, <2>1, <2>2, <2>3, <2>5 DEF Local, Bounded, AtStep, SamePins, FirstSteps, CopiedSteps,
         ScratchSteps, ManifestSteps
    <2>10. Kept(u)
      BY <1>1, <2>3 DEF Local, Reported, Kept, EndSteps
    <2>11. Local(c, u, open', source)
      BY <2>6, <2>7, <2>8, <2>9, <2>10 DEF Local
    <2> QED BY <1>1, <2>2, <2>3, <2>4, <2>11, CommandStep
  <1> QED BY <1>2, <1>3 DEF RemoveScratch, Exporting

-----------------------------------------------------------------------------
(* Publication and verification.                                           *)

\* verified = TRUE is reported where no scratch directory lies.
LEMMA VerifiedSteps ==
  ASSUME ExportInv, RecheckCandidate \/ RecheckArtifact
  PROVE  ExportInv'
  <1> DEFINE d == dirs[cmd.n]
  <1>1. /\ cmd.n \in Commands /\ cmd \in CmdSet /\ d \in EntrySet
        /\ cmd.pc \in {"recheck", "last"}
        /\ Local(cmd, d, open, source) /\ UNCHANGED <<dirs, open, source>>
    BY Here DEF RecheckCandidate, RecheckArtifact, At, OthersUnchanged
  <1>2. CASE Return
    BY <1>1, <1>2, ReturnStep DEF EnginePhases
  <1>3. CASE \E p \in {"manifest", "ended"} :
               /\ cmd' = [cmd EXCEPT !.pc = p, !.report.verified = TRUE]
               /\ p = "manifest" => cmd.pc = "recheck"
               /\ d.scratch.at = "nowhere"
    <2>1. PICK p \in {"manifest", "ended"} :
               /\ cmd' = [cmd EXCEPT !.pc = p, !.report.verified = TRUE]
               /\ p = "manifest" => cmd.pc = "recheck"
               /\ d.scratch.at = "nowhere"
      BY <1>3
    <2> DEFINE c == [cmd EXCEPT !.pc = p, !.report.verified = TRUE]
    <2>2. /\ AtStep(cmd, c, p) /\ SamePins(cmd, c)
          /\ c.report.published = cmd.report.published /\ c.report.retained = cmd.report.retained
          /\ c.report.closureKnown = cmd.report.closureKnown
          /\ c.report.scratchRetained = cmd.report.scratchRetained
      BY <1>1 DEF CmdSet, ReportSet, AtStep, SamePins, Steps, ManifestSteps, EndSteps
    <2>3. cmd' = c
      BY <2>1
    <2> HIDE DEF c, d
    <2>4. StepsOf(c) /\ Closed(c, open')
      BY <1>1, <2>1, <2>2 DEF Local, StepsOf, Closed, AtStep, EndSteps,
         ScratchSteps, FirstSteps, EnginePhases
    <2>5. Reported(c, d)
      BY <1>1, <2>1, <2>2 DEF Local, Reported, AtStep, EndSteps, ManifestSteps
    <2>6. Bounded(c, d, source)
      BY <1>1, <2>1, <2>2 DEF Local, Bounded, AtStep, SamePins, FirstSteps, CopiedSteps,
         ScratchSteps, ManifestSteps
    <2> QED BY <1>1, <2>2, <2>3, <2>4, <2>5, <2>6, MovedStep DEF d
  <1>4. CASE RecheckCandidate
    <2>1. exact(Stage, HasScratch, {"data"}) => d.scratch.at = "nowhere"
      BY ExactMembers DEF HasScratch, Scratch
    <2> QED BY <1>2, <1>3, <1>4, <2>1 DEF RecheckCandidate, At
  <1>5. CASE RecheckArtifact
    <2>1. d.scratch.at = "nowhere"
      BY <1>1, <1>5 DEF RecheckArtifact, At, Local, Reported
    <2> QED BY <1>2, <1>3, <1>5, <2>1 DEF RecheckArtifact, At
  <1> QED BY <1>4, <1>5

LEMMA CreateManifestStep ==
  ASSUME ExportInv, CreateManifest
  PROVE  ExportInv'
  <1> DEFINE d == dirs[cmd.n]
             s == [d.stage EXCEPT !.manifest = File("empty")]
             c == [cmd EXCEPT !.pc = "write"]
  <1>1. /\ cmd.n \in Commands /\ cmd \in CmdSet /\ d \in EntrySet /\ cmd.pc = "manifest"
        /\ Local(cmd, d, open, source) /\ UNCHANGED <<open, source>>
    BY Here DEF CreateManifest, At, OthersUnchanged
  <1>2. CASE Return /\ UNCHANGED dirs
    BY <1>1, <1>2, ReturnStep DEF EnginePhases
  <1>3. CASE d.stage.at = "created" /\ PutStage(s) /\ cmd' = c
    <2>1. cmd.op = "export"
      BY <1>1 DEF Local, StepsOf, CmdSet, ScratchSteps, EndSteps
    <2>2. AtStep(cmd, c, "write") /\ SamePins(cmd, c) /\ c.report = cmd.report
      BY <1>1, GotoFields DEF Steps, ManifestSteps
    <2>3. s \in DirSet /\ s.at = d.stage.at
      BY <1>1, FileTypes DEF EntrySet, DirSet
    <2> HIDE DEF s, c
    <2>4. Closed(c, open')
      BY <1>1, <2>2 DEF Local, Closed, AtStep, FirstSteps, EnginePhases
    <2>5. Bounded(c, WithStage(d, s), source)
      <3>1. WithStage(d, s).unseen = d.unseen /\ WithStage(d, s).of = d.of
        BY <1>1, <2>3, EntryFields
      <3> QED BY <1>1, <2>2, <3>1 DEF Local, Bounded, AtStep, SamePins, FirstSteps, CopiedSteps,
             ScratchSteps, ManifestSteps
    <2>6. "write" \in ManifestSteps
      BY DEF ManifestSteps
    <2> QED BY <1>1, <1>3, <2>1, <2>2, <2>3, <2>4, <2>5, <2>6, WroteStage
  <1> QED BY <1>2, <1>3 DEF CreateManifest, check, Stage, Goto

\* The manifest binds the body that was pinned.
LEMMA WriteManifestStep ==
  ASSUME ExportInv, WriteManifest
  PROVE  ExportInv'
  <1> DEFINE d == dirs[cmd.n]
             written == [d.stage.manifest EXCEPT !.body = cmd.pin.body]
             s == [d.stage EXCEPT !.manifest = written]
             c == [cmd EXCEPT !.pc = "final", !.manifestPin = written]
  <1>1. /\ cmd.n \in Commands /\ cmd \in CmdSet /\ d \in EntrySet /\ cmd.pc = "write"
        /\ Local(cmd, d, open, source) /\ UNCHANGED <<open, source>>
    BY Here DEF WriteManifest, At, OthersUnchanged
  <1>2. CASE Return /\ UNCHANGED dirs
    BY <1>1, <1>2, ReturnStep DEF EnginePhases
  <1>3. CASE d.stage.at = "created" /\ PutStage(s) /\ cmd' = c
    <2>1. cmd.op = "export"
      BY <1>1 DEF Local, StepsOf, CmdSet, ScratchSteps, EndSteps
    <2>2. written \in FileSet /\ written.body = cmd.pin.body
      BY <1>1 DEF EntrySet, DirSet, FileSet, CmdSet
    <2> HIDE DEF written
    <2>3. /\ AtStep(cmd, c, "final") /\ c.report = cmd.report
          /\ c.pin = cmd.pin /\ c.manifestPin = written
      BY <1>1, <2>2 DEF CmdSet, AtStep, Steps, ManifestSteps
    <2>4. s \in DirSet /\ s.at = d.stage.at
      BY <1>1, <2>2 DEF EntrySet, DirSet
    <2> HIDE DEF s, c
    <2>5. Closed(c, open')
      BY <1>1, <2>3 DEF Local, Closed, AtStep, FirstSteps, EnginePhases
    <2>6. Bounded(c, WithStage(d, s), source)
      <3>1. WithStage(d, s).unseen = d.unseen /\ WithStage(d, s).of = d.of
        BY <1>1, <2>4, EntryFields
      <3> QED BY <1>1, <2>2, <2>3, <3>1 DEF Local, Bounded, AtStep, FirstSteps, CopiedSteps,
             ScratchSteps, ManifestSteps
    <2>7. "final" \in ManifestSteps
      BY DEF ManifestSteps
    <2> QED BY <1>1, <1>3, <2>1, <2>3, <2>4, <2>5, <2>6, <2>7, WroteStage
  <1> QED BY <1>2, <1>3 DEF WriteManifest, check, Stage

\* The last check finds what PublishedAsLocked promises.
LEMMA FinalCheckStep ==
  ASSUME ExportInv, FinalCheck
  PROVE  ExportInv'
  <1> DEFINE d == dirs[cmd.n]
             c == [cmd EXCEPT !.pc = "publish"]
  <1>1. /\ cmd.pc = "final" /\ cmd \in CmdSet /\ d \in EntrySet /\ Local(cmd, d, open, source)
        /\ UNCHANGED <<dirs, open, source>>
    BY Here DEF FinalCheck, At, OthersUnchanged
  <1>2. CASE Return
    BY <1>1, <1>2, ReturnStep DEF EnginePhases
  <1>3. CASE /\ exact(Stage, HasScratch, {"data", "manifest"})
             /\ CandidateIntact /\ sameFile(cmd.manifestPin, Stage.manifest)
             /\ Goto("publish")
    <2>1. cmd.op = "export"
      BY <1>1 DEF Local, StepsOf, CmdSet, ScratchSteps, EndSteps
    <2>2. /\ cmd' = c /\ AtStep(cmd, c, "publish") /\ SamePins(cmd, c) /\ c.report = cmd.report
      BY <1>1, <1>3, GotoFields DEF Steps, ManifestSteps, Goto
    <2>3. d.stage.data # Absent /\ d.stage.manifest # Absent /\ ~d.stage.extra /\ d.scratch.at = "nowhere"
      BY <1>3, ExactMembers DEF Stage, Scratch, HasScratch
    <2>4. d.stage.data = cmd.pin /\ d.stage.manifest = cmd.manifestPin
      BY <1>3 DEF CandidateIntact, streamFile, sameFile, Stage
    <2> HIDE DEF c, d
    <2>5. ~d.unseen => Sealed(d)
      <3>1. cmd.manifestPin.body = cmd.pin.body
        BY <1>1 DEF Local, Bounded
      <3>2. ~d.unseen => cmd.pin.body = Snapshot(d.of)
        BY <1>1, <2>1 DEF Local, Bounded, ManifestSteps
      <3> QED BY <2>3, <2>4, <3>1, <3>2 DEF Sealed, Bound
    <2>6. StepsOf(c) /\ Reported(c, d) /\ Closed(c, open')
      BY <1>1, <2>1, <2>2 DEF Local, StepsOf, Reported, Closed, AtStep, EndSteps, ManifestSteps,
         FirstSteps, EnginePhases
    <2>7. Bounded(c, d, source)
      BY <1>1, <2>2, <2>5 DEF Local, Bounded, AtStep, SamePins, FirstSteps, CopiedSteps,
         ScratchSteps, ManifestSteps
    <2> QED BY <1>1, <2>2, <2>6, <2>7, MovedStep DEF d
  <1> QED BY <1>2, <1>3 DEF FinalCheck

LEMMA PublishStep ==
  ASSUME ExportInv, Publish
  PROVE  ExportInv'
  <1> DEFINE d == dirs[cmd.n]
             s == [d.stage EXCEPT !.at = "destination"]
             u == WithStage(d, s)
             c == [cmd EXCEPT !.pc = "confirm", !.report.published = TRUE, !.report.retained = FALSE]
  <1>1. /\ cmd.n \in Commands /\ cmd \in CmdSet /\ d \in EntrySet /\ cmd.pc = "publish"
        /\ Local(cmd, d, open, source) /\ UNCHANGED <<open, source>>
    BY Here DEF Publish, At, OthersUnchanged
  <1>2. CASE Return /\ UNCHANGED dirs
    BY <1>1, <1>2, ReturnStep DEF EnginePhases
  <1>3. CASE PutStage(s) /\ cmd' = c
    <2>1. cmd.op = "export"
      BY <1>1 DEF Local, StepsOf, CmdSet, ScratchSteps, EndSteps
    <2>2. /\ AtStep(cmd, c, "confirm")
          /\ c.report.published /\ ~c.report.retained
          /\ c.report.verified = cmd.report.verified
          /\ c.report.closureKnown = cmd.report.closureKnown
      BY <1>1 DEF CmdSet, ReportSet, AtStep, Steps
    <2>3. /\ s \in DirSet /\ s.at = "destination" /\ s.data = d.stage.data
          /\ s.manifest = d.stage.manifest /\ s.extra = d.stage.extra
      BY <1>1 DEF EntrySet, DirSet
    <2>4. /\ u \in EntrySet /\ u.stage = s /\ u.scratch = d.scratch
          /\ u.unseen = d.unseen /\ u.of = d.of
      BY <1>1, <2>3, EntryFields
    <2>5. dirs' = [dirs EXCEPT ![cmd.n] = u] /\ cmd' = c
      BY <1>1, <1>3, PutFields
    <2> HIDE DEF c, d, u, s
    <2>6. Kept(u)
      <3>1. ~d.unseen => Sealed(d)
        BY <1>1 DEF Local, Bounded
      <3> QED BY <2>3, <2>4, <3>1 DEF Kept, Sealed, Bound
    <2>7. StepsOf(c)
      BY <2>1, <2>2 DEF StepsOf, AtStep
    <2>8. Closed(c, open')
      BY <1>1, <2>2 DEF Local, Closed, AtStep, FirstSteps, EnginePhases
    <2>9. Reported(c, u)
      BY <1>1, <2>1, <2>2, <2>3, <2>4 DEF Local, Reported, AtStep, EndSteps
    <2>10. Bounded(c, u, source)
      BY <1>1, <2>2, <2>4 DEF Local, Bounded, AtStep, FirstSteps, CopiedSteps,
         ScratchSteps, ManifestSteps
    <2>11. Local(c, u, open', source)
      BY <2>6, <2>7, <2>8, <2>9, <2>10 DEF Local
    <2> QED BY <1>1, <2>2, <2>4, <2>5, <2>11, CommandStep
  <1> QED BY <1>2, <1>3 DEF Publish, Stage

LEMMA CrashStep ==
  ASSUME ExportInv, Crash
  PROVE  ExportInv'
  <1> DEFINE d == dirs[cmd.n]
             c == [cmd EXCEPT !.pc = "gone"]
  <1>1. /\ cmd.pc # "gone" /\ cmd \in CmdSet /\ Local(cmd, d, open, source)
        /\ UNCHANGED <<dirs, source>> /\ open' = {} /\ cmd' = c
    BY Here DEF Crash, OthersUnchanged, Goto
  <1>2. AtStep(cmd, c, "gone") /\ SamePins(cmd, c) /\ c.report = cmd.report
    BY <1>1, GotoFields DEF Steps, EndSteps
  <1> HIDE DEF c, d
  <1>3. StepsOf(c) /\ Closed(c, open')
    BY <1>1, <1>2 DEF Local, StepsOf, Closed, AtStep, EndSteps, FirstSteps
  <1>4. Reported(c, d)
    BY <1>1, <1>2 DEF Local, Reported, AtStep, EndSteps
  <1>5. Bounded(c, d, source)
    BY <1>1, <1>2 DEF Local, Bounded, AtStep, SamePins, FirstSteps, CopiedSteps,
       ScratchSteps, ManifestSteps
  <1> QED BY <1>1, <1>2, <1>3, <1>4, <1>5, MovedStep DEF d

LEMMA EarlySteps ==
  ASSUME ExportInv, Confirm \/ Fail
  PROVE  ExportInv'
  BY ReturnStep DEF Confirm, Fail, At, EnginePhases, OthersUnchanged

-----------------------------------------------------------------------------
(* New commands and other programs.                                        *)

LEMMA BeginExportStep ==
  ASSUME ExportInv, BeginExport
  PROVE  ExportInv'
  <1> DEFINE n == cmd.n + 1
             d == [dirs[n] EXCEPT !.of = source]
             p == IF Occupied THEN "ended" ELSE "stage"
             c == New("export", p, 0)
  <1>1. cmd.n \in Nat /\ source \in Nat /\ dirs \in [Commands -> EntrySet]
    BY DEF ExportInv, ExportTypeOK, CmdSet
  <1>2. n \in Commands /\ n > cmd.n
    BY <1>1, BoundsAssumption DEF BeginExport, Commands
  <1>3. /\ cmd' = c /\ dirs' = [dirs EXCEPT ![n] = d] /\ open' = {} /\ UNCHANGED source
        /\ p \in {"stage", "ended"} /\ p \in Steps
    BY DEF BeginExport, OthersUnchanged, Steps, FirstSteps, EndSteps
  <1>4. dirs[n] \in EntrySet /\ dirs[n].stage = NoDir /\ dirs[n].scratch = NoDir
    BY <1>1, <1>2 DEF ExportInv, Fresh
  <1>5. /\ d \in EntrySet /\ d.stage = NoDir /\ d.scratch = NoDir /\ d.of = source
    BY <1>1, <1>4 DEF EntrySet
  <1>6. /\ NoReport \in ReportSet /\ ~NoReport.published /\ ~NoReport.verified
        /\ ~NoReport.retained /\ ~NoReport.scratchRetained /\ ~NoReport.closureKnown
    BY DEF NoReport, ReportSet
  <1> HIDE DEF d, p, n
  <1>7. /\ c \in CmdSet /\ c.n = n /\ c.op = "export" /\ c.pc = p
        /\ c.before = source /\ c.pin = Absent /\ c.report = NoReport
    <2>1. n \in Nat
      BY <1>2 DEF Commands
    <2>2. c = [n |-> n, op |-> "export", pc |-> p, artifact |-> 0, before |-> source,
               pin |-> Absent, manifestPin |-> Absent, scratchPin |-> Absent, report |-> NoReport]
      BY DEF New, n
    <2> HIDE DEF c
    <2> QED BY <1>1, <1>3, <1>6, <2>1, <2>2, FileTypes DEF CmdSet
  <1> HIDE DEF c
  <1>8. dirs' \in [Commands -> EntrySet] /\ dirs'[n] = d /\ \A k \in Commands : k # n => dirs'[k] = dirs[k]
    BY <1>1, <1>2, <1>3, <1>5
  <1>9. ExportTypeOK'
    BY <1>1, <1>2, <1>3, <1>7, <1>8 DEF ExportTypeOK
  <1>10. Fresh'
    <2> SUFFICES ASSUME NEW k \in Commands, k > n
                 PROVE  dirs'[k].stage = NoDir /\ dirs'[k].scratch = NoDir
      BY <1>3, <1>7 DEF Fresh
    <2>1. k # n /\ k > cmd.n
      BY <1>1, <1>2 DEF Commands
    <2> QED BY <1>8, <2>1 DEF ExportInv, Fresh
  <1>11. \A k \in Commands : Kept(dirs'[k])
    BY <1>5, <1>8, FileTypes DEF ExportInv, Kept
  <1>12. Local(c, d, {}, source)
    <2>1. StepsOf(c) /\ Closed(c, {})
      BY <1>3, <1>6, <1>7 DEF StepsOf, Closed
    <2>2. Reported(c, d)
      BY <1>3, <1>5, <1>6, <1>7, FileTypes DEF Reported
    <2>3. source <= source
      BY <1>1
    <2>4. Bounded(c, d, source)
      BY <1>3, <1>5, <1>7, <2>3 DEF Bounded, FirstSteps, CopiedSteps, ScratchSteps, ManifestSteps
    <2>5. Kept(d)
      BY <1>5, FileTypes DEF Kept
    <2> QED BY <2>1, <2>2, <2>4, <2>5 DEF Local
  <1> QED BY <1>3, <1>7, <1>8, <1>9, <1>10, <1>11, <1>12 DEF ExportInv

LEMMA BeginVerifyStep ==
  ASSUME ExportInv, NEW k \in Commands, BeginVerify(k)
  PROVE  ExportInv'
  <1>1. cmd.n \in Nat /\ source \in Nat /\ dirs \in [Commands -> EntrySet]
    BY DEF ExportInv, ExportTypeOK, CmdSet
  <1> DEFINE n == cmd.n + 1
             s == dirs[k].stage
  <1>2. n \in Commands /\ n > cmd.n
    BY <1>1, BoundsAssumption DEF BeginVerify, Commands
  <1>3. PICK p \in {"scratch", "ended"} :
          cmd' = [New("verify", p, k) EXCEPT !.pin = s.data, !.manifestPin = s.manifest]
    BY DEF BeginVerify
  <1> DEFINE c == [New("verify", p, k) EXCEPT !.pin = s.data, !.manifestPin = s.manifest]
             d == dirs[n]
  <1>4. d \in EntrySet /\ d.stage = NoDir /\ d.scratch = NoDir
    BY <1>1, <1>2 DEF ExportInv, Fresh
  <1>5. /\ NoReport \in ReportSet /\ ~NoReport.published /\ ~NoReport.verified
        /\ ~NoReport.retained /\ ~NoReport.scratchRetained /\ ~NoReport.closureKnown
    BY DEF NoReport, ReportSet
  <1>6. s.data \in FileSet /\ s.manifest \in FileSet /\ p \in Steps /\ k \in Nat
    BY <1>1 DEF EntrySet, DirSet, Steps, ScratchSteps, EndSteps, Commands
  <1> HIDE DEF d, n, s
  <1>7. /\ c \in CmdSet /\ c.n = n /\ c.op = "verify" /\ c.pc = p /\ c.artifact = k
        /\ c.before = source /\ c.report = NoReport
    <2>1. n \in Nat
      BY <1>2 DEF Commands
    <2> DEFINE r == New("verify", p, k)
    <2>2. r = [n |-> n, op |-> "verify", pc |-> p, artifact |-> k, before |-> source,
               pin |-> Absent, manifestPin |-> Absent, scratchPin |-> Absent, report |-> NoReport]
      BY DEF New, n
    <2>3. c = [r EXCEPT !.pin = s.data, !.manifestPin = s.manifest]
      OBVIOUS
    <2> HIDE DEF c, r
    <2>4. /\ r \in CmdSet /\ r.n = n /\ r.op = "verify" /\ r.pc = p /\ r.artifact = k
          /\ r.before = source /\ r.report = NoReport
      BY <1>1, <1>5, <1>6, <2>1, <2>2, FileTypes DEF CmdSet
    <2> QED BY <1>6, <2>3, <2>4 DEF CmdSet
  <1>8. cmd' = c /\ UNCHANGED <<dirs, source>> /\ open' = {}
    BY <1>3 DEF BeginVerify, OthersUnchanged
  <1> HIDE DEF c
  <1>9. ExportTypeOK'
    BY <1>1, <1>2, <1>7, <1>8 DEF ExportTypeOK
  <1>10. Fresh'
    <2> SUFFICES ASSUME NEW j \in Commands, j > n
                 PROVE  dirs[j].stage = NoDir /\ dirs[j].scratch = NoDir
      BY <1>7, <1>8 DEF Fresh
    <2>1. j > cmd.n
      BY <1>1, <1>2 DEF Commands
    <2> QED BY <2>1 DEF ExportInv, Fresh
  <1>11. \A j \in Commands : Kept(dirs'[j])
    BY <1>8 DEF ExportInv
  <1>12. Local(c, d, {}, source)
    <2>1. StepsOf(c) /\ Closed(c, {})
      BY <1>5, <1>7 DEF StepsOf, Closed, ScratchSteps, EndSteps, EnginePhases, FirstSteps
    <2>2. Reported(c, d)
      BY <1>4, <1>5, <1>7, FileTypes DEF Reported
    <2>3. source <= source
      BY <1>1
    <2>4. Bounded(c, d, source)
      BY <1>4, <1>7, <2>3 DEF Bounded, FirstSteps, CopiedSteps, ScratchSteps, ManifestSteps
    <2>5. Kept(d)
      BY <1>4, FileTypes DEF Kept
    <2> QED BY <2>1, <2>2, <2>4, <2>5 DEF Local
  <1> QED BY <1>7, <1>8, <1>9, <1>10, <1>11, <1>12 DEF ExportInv, d

LEMMA SourceChangesStep ==
  ASSUME ExportInv, SourceChanges
  PROVE  ExportInv'
  <1>1. source \in Nat /\ source' = source + 1 /\ UNCHANGED <<dirs, open, cmd>>
    BY DEF SourceChanges, ExportInv, ExportTypeOK
  <1>2. ExportTypeOK' /\ Fresh' /\ \A k \in Commands : Kept(dirs'[k])
    BY <1>1 DEF ExportInv, ExportTypeOK, Fresh
  <1>3. ASSUME cmd.n \in Commands PROVE Local(cmd, dirs[cmd.n], open, source')
    <2> DEFINE d == dirs[cmd.n]
    <2>1. Local(cmd, d, open, source) /\ cmd.before \in Nat
      BY <1>3 DEF ExportInv, ExportTypeOK, CmdSet
    <2> HIDE DEF d
    <2>2. cmd.before <= source' /\ cmd.before..source \subseteq cmd.before..source'
      BY <1>1, <2>1 DEF Local, Bounded
    <2>3. Bounded(cmd, d, source')
      BY <2>1, <2>2 DEF Local, Bounded
    <2> QED BY <2>1, <2>3 DEF Local, d
  <1> QED BY <1>1, <1>2, <1>3 DEF ExportInv

\* Another program changes the entry of a command, the present one or not.
LEMMA EditedStep ==
  ASSUME ExportInv, UNCHANGED <<source, open, cmd>>, NEW k \in Commands, NEW u \in EntrySet,
         dirs' = [dirs EXCEPT ![k] = u],
         dirs[k].stage.at # "nowhere" \/ dirs[k].scratch.at # "nowhere",
         Kept(u), k = cmd.n => Reported(cmd, u) /\ Bounded(cmd, u, source)
  PROVE  ExportInv'
  <1>1. dirs \in [Commands -> EntrySet] /\ cmd.n \in Nat
    BY DEF ExportInv, ExportTypeOK, CmdSet
  <1>2. dirs' \in [Commands -> EntrySet] /\ dirs'[k] = u /\ \A j \in Commands : j # k => dirs'[j] = dirs[j]
    BY <1>1
  <1>3. ExportTypeOK'
    BY <1>2 DEF ExportInv, ExportTypeOK
  <1>4. ~(k > cmd.n)
    BY FileTypes DEF ExportInv, Fresh
  <1>5. Fresh'
    BY <1>2, <1>4 DEF ExportInv, Fresh
  <1>6. \A j \in Commands : Kept(dirs'[j])
    BY <1>2 DEF ExportInv
  <1>7. cmd.n \in Commands => Local(cmd, dirs'[cmd.n], open, source)
    BY <1>2 DEF ExportInv, Local
  <1> QED BY <1>3, <1>5, <1>6, <1>7 DEF ExportInv

LEMMA EditedFile ==
  ASSUME NEW file \in FileSet, NEW own \in BOOLEAN
  PROVE  Edited(file, own) \in FileSet
  <1> DEFINE body == Body("edited")
  <1>1. body \in BodySet /\ file.stamp + 1 \in Nat
    BY FileTypes DEF FileSet
  <1>2. Edited(file, own) = [file EXCEPT !.body = body, !.stamp = file.stamp + 1, !.own = own]
    BY DEF Edited, FileSet
  <1> HIDE DEF body
  <1> QED BY <1>1, <1>2 DEF FileSet

LEMMA EditStageStep ==
  ASSUME ExportInv, NEW k \in Commands, EditStage(k)
  PROVE  ExportInv'
  <1> DEFINE d == dirs[k]
             s == d.stage
  <1>1. d \in EntrySet /\ s \in DirSet /\ s.at # "nowhere" /\ UNCHANGED <<source, open, cmd>>
    BY DEF EditStage, ExportInv, ExportTypeOK, EntrySet
  <1>2. PICK what \in {"data", "manifest", "extra", "place"}, own \in BOOLEAN :
          dirs' = [dirs EXCEPT
            ![k].stage = CASE what = "data" -> [s EXCEPT !.data = Edited(@, own)]
                           [] what = "manifest" -> [s EXCEPT !.manifest = Edited(@, own)]
                           [] what = "extra" -> [s EXCEPT !.extra = TRUE]
                           [] what = "place" -> [s EXCEPT !.at = "aside"],
            ![k].unseen = @ \/ Unseen(k, what)]
    BY DEF EditStage
  <1> DEFINE t == CASE what = "data" -> [s EXCEPT !.data = Edited(@, own)]
                    [] what = "manifest" -> [s EXCEPT !.manifest = Edited(@, own)]
                    [] what = "extra" -> [s EXCEPT !.extra = TRUE]
                    [] what = "place" -> [s EXCEPT !.at = "aside"]
             unseen == d.unseen \/ Unseen(k, what)
             u == [d EXCEPT !.stage = t, !.unseen = unseen]
  <1>3. t \in DirSet /\ t.at \in {s.at, "aside"} /\ (what # "data" => t.data = s.data)
    <2>1. s.data \in FileSet /\ s.manifest \in FileSet
      BY <1>1 DEF DirSet
    <2>2. Edited(s.data, own) \in FileSet /\ Edited(s.manifest, own) \in FileSet
      BY <2>1, EditedFile
    <2>3. CASE what = "data"
      BY <1>1, <2>2, <2>3 DEF DirSet
    <2>4. CASE what = "manifest"
      BY <1>1, <2>2, <2>4 DEF DirSet
    <2>5. CASE what = "extra"
      BY <1>1, <2>5 DEF DirSet
    <2>6. CASE what = "place"
      BY <1>1, <2>6 DEF DirSet
    <2> QED BY <2>3, <2>4, <2>5, <2>6
  <1>4. unseen \in BOOLEAN
    OBVIOUS
  <1>5. dirs' = [dirs EXCEPT ![k] = u]
    <2>1. dirs \in [Commands -> EntrySet]
      BY DEF ExportInv, ExportTypeOK
    <2>2. dirs' = [dirs EXCEPT ![k].stage = t, ![k].unseen = unseen]
      BY <1>2
    <2> HIDE DEF t, unseen
    <2> QED BY <2>1, <2>2 DEF EntrySet
  <1>6. unseen <=> d.unseen \/ Unseen(k, what)
    OBVIOUS
  <1> HIDE DEF t, unseen
  <1>7. u \in EntrySet /\ u.stage = t /\ u.unseen = unseen /\ u.scratch = d.scratch /\ u.of = d.of
    BY <1>1, <1>3, <1>4 DEF EntrySet
  <1> HIDE DEF u
  <1>8. CASE k # cmd.n
    <2>1. u.unseen
      BY <1>6, <1>7, <1>8 DEF Unseen
    <2> QED BY <1>1, <1>5, <1>7, <1>8, <2>1, EditedStep DEF Kept
  <1>9. CASE k = cmd.n
    <2>1. Local(cmd, d, open, source)
      BY <1>9 DEF ExportInv
    <2> HIDE DEF d, s
    <2>2. cmd.pc \in {"publish", "confirm", "ended", "gone"} => u.unseen
      BY <1>6, <1>7 DEF Unseen
    <2>3. cmd.op # "verify"
      BY <1>1, <2>1 DEF Local, Reported, s
    <2>4. Kept(u)
      <3>1. u.stage.at = "destination" => d.stage.at = "destination"
        BY <1>3, <1>7 DEF s
      <3>2. u.stage.at = "destination" => cmd.pc \in {"confirm", "ended", "gone"}
        BY <2>1, <3>1 DEF Local, Reported, EndSteps
      <3> QED BY <2>2, <3>2 DEF Kept
    <2>5. Reported(cmd, u)
      BY <1>3, <1>7, <2>1, <2>3 DEF Local, Reported, s
    <2>6. ~u.unseen => ~d.unseen
      BY <1>6, <1>7
    <2>7. cmd.pc \in CopiedSteps /\ ~u.unseen => u.stage.data = d.stage.data
      <3>1. cmd.pc \in CopiedSteps => cmd.pin = Absent
        BY <2>1 DEF Local, Bounded
      <3>2. cmd.pc \in CopiedSteps /\ ~u.unseen => what # "data"
        BY <1>6, <1>7, <3>1 DEF Unseen
      <3> QED BY <1>3, <1>7, <3>2 DEF s
    <2>8. Bounded(cmd, u, source)
      BY <1>7, <2>1, <2>2, <2>6, <2>7 DEF Local, Bounded
    <2> QED BY <1>1, <1>5, <1>7, <2>4, <2>5, <2>8, EditedStep DEF s, d
  <1> QED BY <1>8, <1>9

LEMMA EditScratchStep ==
  ASSUME ExportInv, NEW k \in Commands, EditScratch(k)
  PROVE  ExportInv'
  <1> DEFINE d == dirs[k]
             s == d.scratch
  <1>1. d \in EntrySet /\ s \in DirSet /\ s.at # "nowhere" /\ UNCHANGED <<source, open, cmd>>
    BY DEF EditScratch, ExportInv, ExportTypeOK, EntrySet
  <1>2. PICK t \in {[s EXCEPT !.extra = TRUE], [s EXCEPT !.at = "aside"]} \cup
                  {[s EXCEPT !.data = Edited(@, own)] : own \in IF s.data = Absent THEN {} ELSE BOOLEAN} :
          dirs' = [dirs EXCEPT ![k].scratch = t]
    BY DEF EditScratch
  <1>3. t \in DirSet /\ t.at # "nowhere"
    <2>1. s.data \in FileSet
      BY <1>1 DEF DirSet
    <2>2. CASE t = [s EXCEPT !.extra = TRUE]
      BY <1>1, <2>2 DEF DirSet
    <2>3. CASE t = [s EXCEPT !.at = "aside"]
      BY <1>1, <2>3 DEF DirSet
    <2>4. CASE \E own \in BOOLEAN : t = [s EXCEPT !.data = Edited(@, own)]
      <3>1. PICK own \in BOOLEAN : t = [s EXCEPT !.data = Edited(@, own)]
        BY <2>4
      <3>2. Edited(s.data, own) \in FileSet
        BY <2>1, EditedFile
      <3> QED BY <1>1, <3>1, <3>2 DEF DirSet
    <2> QED BY <2>2, <2>3, <2>4
  <1> DEFINE u == WithScratch(d, t)
  <1>4. dirs' = [dirs EXCEPT ![k] = u]
    BY <1>2 DEF WithScratch
  <1>5. /\ u \in EntrySet /\ u.scratch = t /\ u.stage = d.stage
        /\ u.unseen = d.unseen /\ u.of = d.of
    BY <1>1, <1>3, EntryFields
  <1>6. ~Sealed(d) /\ Kept(d)
    BY <1>1 DEF Sealed, ExportInv
  <1> HIDE DEF u
  <1>7. Kept(u)
    BY <1>5, <1>6 DEF Kept
  <1>8. ASSUME k = cmd.n PROVE Reported(cmd, u) /\ Bounded(cmd, u, source)
    <2>1. Local(cmd, d, open, source)
      BY <1>8 DEF ExportInv
    <2> HIDE DEF d, s
    <2>2. cmd.pc # "last" /\ ~cmd.report.verified
      BY <1>1, <2>1 DEF Local, Reported, s
    <2>3. Reported(cmd, u)
      BY <1>1, <1>3, <1>5, <2>1, <2>2 DEF Local, Reported, s
    <2>4. Bounded(cmd, u, source)
      BY <1>5, <1>6, <2>1 DEF Local, Bounded
    <2> QED BY <2>3, <2>4
  <1> QED BY <1>1, <1>4, <1>5, <1>7, <1>8, EditedStep

-----------------------------------------------------------------------------
(* The theorems.                                                           *)

\* The inductive invariant of the export.
THEOREM ExportInvariant == Spec => []ExportInv
  <1>1. Init => ExportInv
    <2> SUFFICES ASSUME Init PROVE ExportInv
      OBVIOUS
    <2>1. source = 0 /\ cmd.n = 0 /\ cmd.op = "none" /\ cmd.pc = "gone" /\ cmd.n \notin Commands
      BY DEF Init, Commands
    <2>2. \A k \in Commands : dirs[k] = [stage |-> NoDir, scratch |-> NoDir, unseen |-> FALSE, of |-> 0]
      BY DEF Init
    <2>3. [stage |-> NoDir, scratch |-> NoDir, unseen |-> FALSE, of |-> 0] \in EntrySet
      BY FileTypes DEF EntrySet
    <2>4. dirs \in [Commands -> EntrySet]
      BY <2>3 DEF Init
    <2>5. cmd \in CmdSet
      <3>1. NoReport \in ReportSet /\ "gone" \in Steps
        BY DEF NoReport, ReportSet, Steps, EndSteps
      <3> QED BY <3>1, FileTypes DEF Init, CmdSet
    <2>6. ExportTypeOK
      BY <2>1, <2>4, <2>5 DEF ExportTypeOK
    <2>7. Fresh /\ \A k \in Commands : Kept(dirs[k])
      BY <2>2, FileTypes DEF Fresh, Kept
    <2> QED BY <2>1, <2>6, <2>7 DEF ExportInv
  <1>2. ExportInv /\ [Next]_vars => ExportInv'
    <2> SUFFICES ASSUME ExportInv, [Next]_vars PROVE ExportInv'
      OBVIOUS
    <2>1. CASE UNCHANGED <<source, dirs, open, cmd>>
      BY <2>1 DEF ExportInv, ExportTypeOK, Fresh
    <2>2. CASE Next
      BY <2>1, <2>2, BeginExportStep, CreateStageStep, CreateCandidateStep, OpenSourceStep, CloseSteps,
         StartBackupStep, FinishBackupStep, PinCandidateStep, MakeScratchStep, CopySteps,
         OpenScratchStep, RereadScratchStep, RemoveScratchStep, VerifiedSteps, CreateManifestStep,
         WriteManifestStep, FinalCheckStep, PublishStep, EarlySteps, BeginVerifyStep, CrashStep,
         SourceChangesStep, EditStageStep, EditScratchStep DEF Next, OccupyDestination
    <2> QED BY <2>1, <2>2 DEF vars
  <1> QED BY <1>1, <1>2, PTL DEF Spec

\* ExportPlanStore: for every number of commands, versions and foreign changes,
\* what lies at the destination is the store as it was when the writer lock was
\* taken, bound by its manifest, with nothing beside it.
THEOREM ExportsPublishedAsLocked == Spec => []PublishedAsLocked
  <1>1. ExportInv => PublishedAsLocked
    <2> SUFFICES ASSUME ExportInv, NEW k \in Commands,
                        dirs[k].stage.at = "destination", ~dirs[k].unseen
                 PROVE  /\ exact(dirs[k].stage, dirs[k].scratch.at # "nowhere", {"data", "manifest"})
                        /\ dirs[k].stage.data.body = Snapshot(dirs[k].of) /\ Bound(dirs[k].stage)
      BY DEF PublishedAsLocked
    <2>1. Sealed(dirs[k])
      BY DEF ExportInv, Kept
    <2> DEFINE inner == dirs[k].scratch.at # "nowhere"
    <2>2. inner \in BOOLEAN /\ ~inner
      BY <2>1 DEF Sealed
    <2> HIDE DEF inner
    <2>3. exact(dirs[k].stage, inner, {"data", "manifest"})
      BY <2>1, <2>2, ExactMembers DEF Sealed
    <2> QED BY <2>1, <2>3 DEF Sealed, inner
  <1> QED BY <1>1, ExportInvariant, PTL

\* The result of an export or a verification: whatever failed and whoever
\* changed the directories meanwhile, it says what was left behind, and calls
\* the engine closed only when no connection can be open.
THEOREM ReportsStayTrue == Spec => []ReportTrue
  <1>1. ExportInv => ReportTrue
    <2> SUFFICES ASSUME ExportInv, cmd.pc = "ended" PROVE ReportTrue
      BY DEF ReportTrue
    <2>1. Local(cmd, dirs[cmd.n], open, source) /\ cmd \in CmdSet
      BY Here
    <2>2. cmd.op \in {"export", "verify"}
      BY <2>1 DEF Local, StepsOf, CmdSet
    <2> QED BY <2>1, <2>2 DEF Local, Reported, Closed, ReportTrue, Stage, Scratch, Exporting
  <1> QED BY <1>1, ExportInvariant, PTL
=============================================================================
