-------------------------- MODULE PlanObservation --------------------------
(***************************************************************************)
(* The live checks of a saved target (internal/inventory: verify.go,       *)
(* inspect.go, tree.go, sample.go, recovery.go), and the capture of their  *)
(* report that opens the action journal (internal/plans/observation.go).   *)
(*                                                                         *)
(* A check has no lock on what it looks at: other programs write, replace, *)
(* remove and rename the same objects between any two of its calls.  It    *)
(* opens the saved path one link at a time, gathers its evidence below the *)
(* held directories, and then looks at everything once more.               *)
(*                                                                         *)
(* A check is a fixed sequence of steps, each one lookup of a name or of a *)
(* held object; a lookup whose own before and after stamps are compared is *)
(* one step, because a change within it is a refusal and every step may be *)
(* refused.  The version of an object stands for its times, size, mode and *)
(* link count: stamps are taken to tell every change apart.  Mounts, whose *)
(* comparison always goes with that of the stamps, are left out, and the   *)
(* selection is one target.                                                *)
(***************************************************************************)
EXTENDS ActionJournal

CONSTANTS
    Modes,        \* the checks that are run
    Sizes,        \* sizes of a sampled file
    Window,       \* FileSampleWindowBytes
    Replacements, \* name and kind of the objects other programs put somewhere
    Removals,     \* names other programs remove
    MaxChanges    \* bound on what other programs change

ASSUME WindowAssumption == Window \in Nat \ {0} /\ Sizes \subseteq Nat

VARIABLES
    objects,   \* every filesystem object, in the order they were made
    check,     \* the live check that is running or has ended
    baseline,  \* the evidence of the captured observation, or None
    changes,   \* changes by other programs so far
    closed     \* the checks are over and the journal is used

liveVars == <<objects, check, baseline, changes, closed>>

-----------------------------------------------------------------------------
(* The filesystem.  Object 1 is the directory above the root.              *)

\* The directory a name is looked up in.  The target is a node_modules
\* directory with one package and one directory of executable links.
Within ==
    [project |-> "above", aside |-> "above", quarantine |-> "above",
     target |-> "project", manifest |-> "project", lock |-> "project", hint |-> "project",
     pkg |-> "target", bin |-> "target", entry |-> "pkg", link |-> "bin",
     slot |-> "quarantine"]
Names == DOMAIN Within
TreeNames == {"pkg", "bin", "entry", "link"}
Directories == {"project", "aside", "quarantine", "target", "pkg", "bin", "slot"}

\* What an object is made for: it decides which names it can hold.
Role(n) == CASE n = "slot" -> "target" [] n = "aside" -> "project" [] OTHER -> n

\* has: the names a directory holds, and the objects they lead to.
Object(kind, role, has) == [kind |-> kind, role |-> role, version |-> 0, has |-> has]
Empty == [n \in {} |-> 0]
NaturalKind(n) ==
    CASE n \in Directories -> "dir" [] n = "link" -> "link" [] OTHER -> "file"

StartObjects ==
    <<Object("dir", "above", [project |-> 2, quarantine |-> 3]),
      Object("dir", "project", [target |-> 4, manifest |-> 5, lock |-> 6]),
      Object("dir", "quarantine", Empty),
      Object("dir", "target", [pkg |-> 7, bin |-> 8]),
      Object("file", "manifest", Empty), Object("file", "lock", Empty),
      Object("dir", "pkg", [entry |-> 9]), Object("dir", "bin", [link |-> 10]),
      Object("file", "entry", Empty), Object("link", "link", Empty)>>

\* An object and the version a stat of it returned.
Nothing == [object |-> 0, version |-> 0]
StampOf(o) == IF o = 0 THEN Nothing ELSE [object |-> o, version |-> objects[o].version]

\* Functions on some of the names.
With(f, n, v) == [m \in DOMAIN f \cup {n} |-> IF m = n THEN v ELSE f[m]]
Without(f, n) == [m \in DOMAIN f \ {n} |-> f[m]]

\* The saved evidence of the selection: root, target and manifest by identity
\* and times, the recorded parent of the quarantine by identity.
SavedObject == [project |-> 2, target |-> 4, manifest |-> 5, quarantine |-> 3]
MatchesSaved(n, s) == s = [object |-> SavedObject[n], version |-> 0]

-----------------------------------------------------------------------------
(* The steps of the checks.                                                *)

\* verifyTargetWithVisit: the chain, the manifest, and both once more.
Chain == <<<<"hold", "project">>, <<"hold", "target">>, <<"stamp", "manifest">>>>
ChainAgain == <<<<"link", "project">>, <<"link", "target">>, <<"stamp", "manifest">>>>

\* inputReader.read of one file, and the visit of inspectTargetWithTreeUsage.
Input(n) == <<<<"stat", n>>, <<"open", n>>, <<"read", n>>, <<"read", n>>>>
Inputs ==
    <<<<"hints", "project">>>> \o Input("manifest") \o <<<<"still", "manifest">>>>
    \o Input("lock") \o <<<<"still", "manifest">>, <<"still", "lock">>, <<"analyze", "lock">>>>
InputsAgain == <<<<"still", "manifest">>, <<"still", "lock">>, <<"hints", "project">>>>

\* treeReader.directory of a directory and what it holds, and treeReader.walk.
Directory(n, children) ==
    <<<<"look", n>>, <<"enter", n>>, <<"list", n>>>> \o children
    \o <<<<"leave", n>>, <<"named", n>>>>
Walk ==
    <<<<"enter", "target">>, <<"list", "target">>>>
    \o Directory("pkg", <<<<"add", "entry">>>>)
    \o Directory("bin", <<<<"look", "link">>, <<"text", "link">>, <<"named", "link">>>>)
    \o <<<<"leave", "target">>>>

\* withSavedRegularFile around sampleFile; fileSampleRanges has at most three.
SampleOf(n) == <<<<"hold", "project">>, <<"stat", n>>, <<"open", n>>>>
Windows(n) == <<<<"window", n>>, <<"window", n>>, <<"window", n>>>>
SampleAgain(n) == <<<<"link", "project">>, <<"still", n>>>>

\* observeRecovery: two locations, each with its recorded parent.
Probes ==
    <<<<"parent", "target">>, <<"probe", "target">>, <<"parent", "slot">>, <<"probe", "slot">>,
      <<"again", "target">>, <<"again", "slot">>>>

\* Mutant: nothing is looked at after the second probes.
NoProbesAgain == <<>>

\* recheckRecoveryChain and the last probe, for each location.
ProbesAgain ==
    <<<<"chain", "target">>, <<"again", "target">>, <<"chain", "slot">>, <<"again", "slot">>>>

\* Verify, Inspect, InspectTree, ObserveFileSamples and ObserveRecovery: the
\* gathering of the evidence, and the second look at it.
Gather ==
    [verify |-> Chain, inspect |-> Chain \o Inputs,
     tree |-> Chain \o Inputs \o Walk \o <<<<"links", "target">>>>,
     sample |-> SampleOf("manifest") \o Windows("manifest"), recovery |-> Probes]
Recheck ==
    [verify |-> ChainAgain, inspect |-> InputsAgain \o ChainAgain,
     tree |-> Walk \o InputsAgain \o ChainAgain,
     sample |-> SampleAgain("manifest"), recovery |-> ProbesAgain]
Steps == [mode \in DOMAIN Gather |-> Gather[mode] \o Recheck[mode]]

-----------------------------------------------------------------------------
(* The state of a check.                                                   *)

\* at: the stamp a name has in the evidence; cur: the stamp a walk just took;
\* got: the stamps of what was read of a file or link; list: the names a walk
\* found in a directory; root: the target's stamp in the first walk; lost: the
\* locations recovery gave up; size and read: the sampled file's size and the number of windows read.  coincided is
\* history: the names whose evidence was true, all at the one moment when the
\* gathering was over.
Blank ==
    [mode |-> "none", pc |-> 1, result |-> "none",
     at |-> Empty, cur |-> Empty, got |-> Empty, list |-> Empty, lost |-> {},
     root |-> Nothing, size |-> 0, read |-> 0, coincided |-> {}]

LiveInit ==
    /\ Init
    /\ objects = StartObjects
    /\ check = Blank
    /\ baseline = None
    /\ changes = 0
    /\ closed = FALSE

Child(o, n) == IF o # 0 /\ n \in DOMAIN objects[o].has THEN objects[o].has[n] ELSE 0
Kind(o) == IF o = 0 THEN "absent" ELSE objects[o].kind
Listing(o) == IF o = 0 THEN {} ELSE DOMAIN objects[o].has

\* The parts of the evidence for a name.
AtOf(n) == IF n \in DOMAIN check.at THEN check.at[n] ELSE Nothing
GotOf(n) == IF n \in DOMAIN check.got THEN check.got[n] ELSE {}
ListOf(n) == IF n \in DOMAIN check.list THEN check.list[n] ELSE {}

\* The object a name leads to below the held directory of a check, as the
\* files are now.
LeadsTo ==
    LET to[n \in Names] ==
            IF n \in {"project", "quarantine", "aside"} THEN AtOf(n).object
            ELSE Child(to[Within[n]], n)
    IN to

\* What the evidence says of a name is how things are now.
Holds(n) ==
    /\ AtOf(n) = StampOf(LeadsTo[n])
    /\ GotOf(n) \subseteq {AtOf(n)}
    /\ ListOf(n) \in {{}, Listing(LeadsTo[n])}

\* The held directory a name is looked up in.
Parent(n) == IF Within[n] = "above" THEN 1 ELSE AtOf(Within[n]).object

Running == check.result = "running"
Step == Steps[check.mode][check.pc]
At(op) == Running /\ Step[1] = op
Name == Step[2]
Again == check.pc > Len(Gather[check.mode])

Pass(k) ==
    check' =
        [k EXCEPT
           !.pc = @ + 1,
           !.result = IF k.pc = Len(Steps[k.mode]) THEN "observed" ELSE @,
           !.coincided = IF k.pc = Len(Gather[k.mode]) + 1 THEN {n \in DOMAIN k.at : Holds(n)} ELSE @]

\* Any error clears the evidence: the target is reported as blocked.
Block(result) == check' = [Blank EXCEPT !.mode = check.mode, !.result = result]

\* Recovery blocks one location, closes its chain and goes on with the other.
Fail(n) ==
    IF check.mode = "recovery"
    THEN Pass([check EXCEPT !.lost = @ \cup {n},
                            !.at = Without(Without(@, n), Within[n])])
    ELSE Block("blocked")

Test(ok, k) == IF ok THEN Pass(k) ELSE Fail(Name)
Same == UNCHANGED <<objects, baseline, changes, closed>>

Begin(mode) ==
    /\ check.result = "none"
    /\ baseline # None => mode = "tree"
    /\ \E size \in Sizes :
          /\ mode # "sample" => \A s \in Sizes : size <= s
          /\ check' = [Blank EXCEPT !.mode = mode, !.result = "running", !.size = size]
    /\ Same

\* A failed call, an exhausted limit or an unsupported object; a cancelled
\* context leaves no report at all.
Refuse ==
    /\ Running
    /\ Fail(Name) \/ Block("cancelled")
    /\ Same

-----------------------------------------------------------------------------
(* The chain of verifyTargetWithVisit and withSavedRegularFile.            *)

\* openat and fstat below the held parent, compared with the saved entry.
Hold ==
    /\ At("hold")
    /\ LET o == Child(Parent(Name), Name)
       IN Test(Kind(o) = "dir" /\ MatchesSaved(Name, StampOf(o)),
               [check EXCEPT !.at = With(@, Name, StampOf(o))])
    /\ Same

\* manifestStamp: fstatat of the manifest, compared with the saved one.  The
\* second call is compared with the first too.
ManifestStamp ==
    /\ At("stamp")
    /\ LET s == StampOf(Child(AtOf("project").object, Name))
       IN Test(/\ Kind(s.object) = "file" /\ MatchesSaved(Name, s)
               /\ Again => s = AtOf(Name),
               [check EXCEPT !.at = With(@, Name, s)])
    /\ Same

\* A held object is unchanged, and its name still leads to it.
StillNamed(n) ==
    /\ StampOf(AtOf(n).object) = AtOf(n)
    /\ Child(Parent(n), n) = AtOf(n).object

Link ==
    /\ At("link")
    /\ Test(StillNamed(Name), check)
    /\ Same

-----------------------------------------------------------------------------
(* Project inputs and samples.                                             *)

\* checkHints: no file of an unsupported install configuration.
CheckHints ==
    /\ At("hints")
    /\ Test(Child(AtOf("project").object, "hint") = 0, check)
    /\ Same

\* The fstatat before a file is opened.  A sampled file must be the saved one.
Stat ==
    /\ At("stat")
    /\ LET s == StampOf(Child(AtOf("project").object, Name))
       IN Test(Kind(s.object) = "file" /\ (check.mode = "sample" => MatchesSaved(Name, s)),
               [check EXCEPT !.at = With(@, Name, s)])
    /\ Same

\* openat and fstat: still the stamp of before.
Open ==
    /\ At("open")
    /\ Test(StampOf(Child(AtOf("project").object, Name)) = AtOf(Name), check)
    /\ Same

\* One read of the held file, which need no longer be the named one.
Read ==
    /\ At("read")
    /\ Pass([check EXCEPT !.got = With(@, Name, GotOf(Name) \cup {StampOf(AtOf(Name).object)})])
    /\ Same

\* recheckFiles, for one file.
Still ==
    /\ At("still")
    /\ Test(StillNamed(Name), check)
    /\ Same

\* regeneration.Analyze of the bytes read; what it refuses is a Refuse.
Analyze ==
    /\ At("analyze")
    /\ Pass(check)
    /\ Same

MaxOf(a, b) == IF a > b THEN a ELSE b
MinOf(a, b) == IF a < b THEN a ELSE b

\* The loop of fileSampleRanges: a window that overlaps or touches the last
\* range extends it.
Merge(ranges, w) ==
    LET last == ranges[Len(ranges)]
        end  == last.offset + last.length
    IN IF ranges # <<>> /\ w.offset <= end
       THEN [ranges EXCEPT ![Len(ranges)].length =
                MaxOf(end, w.offset + w.length) - last.offset]
       ELSE Append(ranges, w)

\* Mutant: the windows are read one by one, whatever they share.
Unmerged(size) ==
    LET width == MinOf(size, Window)
        at(offset) == [offset |-> offset, length |-> width]
    IN IF size <= 0 THEN <<>>
       ELSE <<at(0), at((size - width) \div 2), at(size - width)>>

\* fileSampleRanges: start, centre and end.
FileSampleRanges(size) ==
    LET width == MinOf(size, Window)
        at(offset) == [offset |-> offset, length |-> width]
    IN IF size <= 0 THEN <<>>
       ELSE Merge(Merge(<<at(0)>>, at((size - width) \div 2)), at(size - width))

\* sampleFile: the next range, if there is one.
ReadWindow ==
    /\ At("window")
    /\ IF check.read < Len(FileSampleRanges(check.size))
       THEN Pass([check EXCEPT !.read = @ + 1,
                               !.got = With(@, Name, GotOf(Name) \cup {StampOf(AtOf(Name).object)})])
       ELSE Pass(check)
    /\ Same

-----------------------------------------------------------------------------
(* The walks of treeReader.                                                *)

\* The open directory a walk looks names up in.
WalkObject(n) == IF n = "target" THEN AtOf(n).object ELSE check.cur[n].object
Looked(n) == StampOf(Child(WalkObject(Within[n]), n))

\* The walk found the name, in a directory it found.
Visited(n) == n = "target" \/ n \in ListOf(Within[n])
VisitTest(ok, k) == IF Visited(Name) THEN Test(ok, k) ELSE Pass(check)

\* Mutant: the second walk only counts.
RecordAlways(n, s) == TRUE

\* add: the first walk records, the second must find the same record.
SameRecord(n, s) == Again => AtOf(n) = s

\* fstatat, supported and classify: a listed name is of its natural kind.
Look ==
    /\ At("look")
    /\ VisitTest(Kind(Looked(Name).object) = NaturalKind(Name),
                 [check EXCEPT !.cur = With(@, Name, Looked(Name))])
    /\ Same

\* directory: open, still the object just looked at, and recorded.
Enter ==
    /\ At("enter")
    /\ IF Name = "target"
       THEN LET s == StampOf(WalkObject(Name))
            IN Test(Again => check.root = s,
                    [check EXCEPT !.cur = With(Empty, Name, s), !.list = Empty,
                                  !.root = s])
       ELSE VisitTest(Looked(Name) = check.cur[Name] /\ SameRecord(Name, Looked(Name)),
                      [check EXCEPT !.at = With(@, Name, Looked(Name))])
    /\ Same

ListNames ==
    /\ At("list")
    /\ VisitTest(TRUE, [check EXCEPT !.list = With(@, Name, Listing(WalkObject(Name)))])
    /\ Same

Add ==
    /\ At("add")
    /\ VisitTest(Kind(Looked(Name).object) = NaturalKind(Name) /\ SameRecord(Name, Looked(Name)),
                 [check EXCEPT !.at = With(@, Name, Looked(Name))])
    /\ Same

\* readlinkat and add of a link.
ReadText ==
    /\ At("text")
    /\ VisitTest(/\ Kind(Looked(Name).object) = "link"
                 /\ SameRecord(Name, check.cur[Name])
                 /\ Again => Looked(Name) \in GotOf(Name),
                 [check EXCEPT !.at = With(@, Name, check.cur[Name]), !.got = With(@, Name, {Looked(Name)})])
    /\ Same

\* namedStamp
Named ==
    /\ At("named")
    /\ VisitTest(Looked(Name) = check.cur[Name], check)
    /\ Same

\* The directory did not change while it was read; after the second walk the
\* number of records must agree too.
Leave ==
    /\ At("leave")
    /\ VisitTest(/\ StampOf(WalkObject(Name)) = check.cur[Name]
                 /\ Name = "target" /\ Again =>
                       Cardinality({n \in TreeNames : Visited(n)}) =
                          Cardinality(TreeNames \cap DOMAIN check.at),
                 check)
    /\ Same

\* validateLinks: the link leads to a recorded file of a package.
ValidateLinks ==
    /\ At("links")
    /\ Test("link" \in DOMAIN check.at => "entry" \in DOMAIN check.at, check)
    /\ Same

-----------------------------------------------------------------------------
(* Recovery.                                                               *)

LocationTest(ok, k) == IF Name \in check.lost THEN Pass(check) ELSE Test(ok, k)

\* openRecoveryChain: the recorded parent, by identity.
OpenRecoveryChain ==
    /\ At("parent")
    /\ LET p == Within[Name]
           o == Child(1, p)
       IN LocationTest(Kind(o) = "dir" /\ o = SavedObject[p],
                       [check EXCEPT !.at = With(@, p, StampOf(o))])
    /\ Same

\* probeRecoveryChild: absent, or a directory.
Probe ==
    /\ At("probe")
    /\ LET o == Child(Parent(Name), Name)
       IN LocationTest(Kind(o) \in {"absent", "dir"}, [check EXCEPT !.at = With(@, Name, StampOf(o))])
    /\ Same

\* The second and the last probe: sameRecoveryProbe.
ProbeAgain ==
    /\ At("again")
    /\ LocationTest(StampOf(Child(Parent(Name), Name)) = AtOf(Name), check)
    /\ Same

\* recheckRecoveryChain: outer ancestors by identity, the parent by stamp.
RecheckRecoveryChain ==
    /\ At("chain")
    /\ LocationTest(StillNamed(Within[Name]), check)
    /\ Same

\* The relation of a location to the object the journal recorded as moved.
IdentityRelation(n) ==
    CASE n \in check.lost -> "unknown"
      [] n \notin check.lost /\ AtOf(n) = Nothing -> "absent"
      [] n \notin check.lost /\ AtOf(n) # Nothing ->
            IF AtOf(n).object # SavedObject["target"] THEN "different_identity"
            ELSE IF AtOf(n).version # 0 THEN "potential_identity"
            ELSE "metadata_matches_reference"

-----------------------------------------------------------------------------
(* Other programs.  They change what the running check looks at; what it   *)
(* does not look at cannot matter to it.                                   *)

Seen ==
    [mode \in DOMAIN Steps |->
        LET names == {Steps[mode][i][2] : i \in 1..Len(Steps[mode])}
        IN names \cup {Within[n] : n \in names} \cup
           (IF mode \in {"inspect", "tree"} THEN {"hint"} ELSE {})]

MayChange(n) ==
    /\ Running /\ changes < MaxChanges[check.mode]
    /\ n \in Seen[check.mode] \ (check.lost \cup {Within[l] : l \in check.lost})

\* Directories that can hold the name, and the bump of a version.
Holders(n) == {d \in 1..Len(objects) : objects[d].kind = "dir" /\ objects[d].role = Within[n]}
Bump(os, o) == IF o = 0 THEN os ELSE [os EXCEPT ![o].version = @ + 1]
Bind(os, d, n, o) == Bump([os EXCEPT ![d].has = With(@, n, o)], d)
Unbind(os, d, n) == Bump([os EXCEPT ![d].has = Without(@, n)], d)
Changed(os) ==
    /\ objects' = os
    /\ changes' = changes + 1
    /\ UNCHANGED <<check, baseline, closed>>

Write(o) ==
    /\ objects[o].kind = "file" /\ MayChange(objects[o].role)
    /\ Changed(Bump(objects, o))

Remove(d, n) ==
    /\ MayChange(n) /\ Child(d, n) # 0
    /\ Changed(Bump(Unbind(objects, d, n), Child(d, n)))

\* A new object takes the name, which may have been free.
Put(d, n, kind) ==
    /\ MayChange(n)
    /\ Changed(Append(Bump(Bind(objects, d, n, Len(objects) + 1), Child(d, n)),
                      Object(kind, Role(n), Empty)))

\* A rename to a free name of the same kind of object.  Whether it changes
\* the stamp of the moved object is the filesystem's choice.
Move(d, n, e, m) ==
    /\ MayChange(n) /\ Role(n) = Role(m)
    /\ Child(d, n) # 0 /\ Child(e, m) = 0
    /\ LET o == Child(d, n)
           moved == Bind(Unbind(objects, d, n), e, m, o)
       IN Changed(moved) \/ Changed(Bump(moved, o))

-----------------------------------------------------------------------------
(* Capture and comparison of a report, and the journal.                    *)

\* Capture: only a complete report of inputs and tree, and only once.
CaptureReport(e, checked) ==
    /\ check.mode = "tree" /\ check.result = "observed"
    /\ Capture(e, checked)
    /\ baseline' = [at |-> check.at, got |-> check.got, coincided |-> check.coincided]
    /\ check' = Blank
    /\ UNCHANGED <<objects, changes, closed>>

\* CompareObservation of a later report; Capture makes the same comparison
\* when it is repeated.
CompareObservation(checked) ==
    /\ baseline # None
    /\ check.mode = "tree" /\ check.result = "observed"
    /\ ObservationLoads(checked)
    /\ check' = [check EXCEPT !.result =
                    IF /\ check.got = baseline.got
                       /\ check.at = baseline.at
                    THEN "matches" ELSE "changed"]
    /\ UNCHANGED vars /\ Same

\* The journal's requests are enumerated when the live checks are over: the
\* two share the captured observation only.
Close ==
    /\ observation # None /\ ~closed /\ ~Running
    /\ closed' = TRUE
    /\ objects' = <<>> /\ check' = Blank /\ baseline' = None /\ changes' = 0
    /\ UNCHANGED vars

LiveStep ==
    \/ \E mode \in Modes : Begin(mode)
    \/ Refuse
    \/ Hold \/ ManifestStamp \/ Link \/ CheckHints \/ Stat \/ Open \/ Read \/ Still \/ Analyze
    \/ ReadWindow
    \/ Look \/ Enter \/ ListNames \/ Add \/ ReadText \/ Named \/ Leave \/ ValidateLinks
    \/ OpenRecoveryChain \/ Probe \/ ProbeAgain \/ RecheckRecoveryChain
    \/ \E o \in 1..Len(objects) : Write(o)
    \/ \E n \in Removals : \E d \in Holders(n) : Remove(d, n)
    \/ \E p \in Replacements : \E d \in Holders(p[1]) : Put(d, p[1], p[2])
    \/ \E n, m \in {"target", "slot", "project", "aside"} :
          \E d \in Holders(n), e \in Holders(m) : Move(d, n, e, m)

LiveNext ==
    \/ ~closed /\ LiveStep /\ UNCHANGED vars
    \/ \E e \in Evidence, checked \in Times : CaptureReport(e, checked)
    \/ \E checked \in Times : CompareObservation(checked)
    \/ Close
    \/ \E q \in ValidPreparations : closed /\ PrepareJournal(q) /\ UNCHANGED liveVars
    \/ \E k \in IntentKeys : \E n \in 0..Len(history[k]) :
          \E key \in EventKeys, r \in Reports :
             /\ closed
             /\ AppendJournalEvent(k, EventAfter(k, n, key, r))
             /\ UNCHANGED liveVars

LiveSpec == LiveInit /\ [][LiveNext]_<<vars, liveVars>>

-----------------------------------------------------------------------------
(* Properties. *)

\* Verify, Inspect, InspectTree, ObserveFileSamples, ObserveRecovery: what a
\* check reports was true all at once.  Whatever other programs did meanwhile,
\* there was a moment, after the last evidence was gathered, at which every
\* reported name led to the reported version of its object, every byte that was
\* read belonged to that version and every listing was that of its directory.
\* A captured observation and a matching comparison rest on such a moment.
OneInstant ==
    /\ check.result \in {"observed", "matches", "changed"} =>
          IF check.mode = "recovery" THEN {"target", "slot"} \ check.lost \subseteq check.coincided
          ELSE DOMAIN check.at \subseteq check.coincided
    /\ baseline # None => DOMAIN baseline.at \subseteq baseline.coincided

\* observeRecovery: when both locations are reported, a directory that other
\* programs only moved between them is reported at exactly one of the two,
\* though the locations are looked at one after the other.  "Only between them"
\* is a matter of the instance: no value of Replacements may make another
\* directory that could hold the target meanwhile.
MovedObjectFound ==
    check.result = "observed" /\ check.mode = "recovery" /\ check.lost = {} =>
        LET moved == SavedObject["target"]
        IN (\/ Child(SavedObject["project"], "target") = moved
            \/ Child(SavedObject["quarantine"], "slot") = moved) =>
           Cardinality({n \in {"target", "slot"} :
              IdentityRelation(n) \in {"potential_identity", "metadata_matches_reference"}}) = 1

\* fileSampleRanges and sampleFile: the windows read so far lie inside the file
\* and share no byte, there are at most three windows' worth of them, and a
\* finished sample has read the first, the last and the middle of the file.
SampledOnce ==
    check.mode = "sample" /\ check.result \in {"running", "observed"} =>
        LET ranges == SubSeq(FileSampleRanges(check.size), 1, check.read)
            bytes(r) == r.offset..(r.offset + r.length - 1)
            all == UNION {bytes(ranges[i]) : i \in 1..Len(ranges)}
        IN /\ \A i \in 1..Len(ranges) : bytes(ranges[i]) # {} /\ bytes(ranges[i]) \subseteq 0..(check.size - 1)
           /\ \A i, j \in 1..Len(ranges) : i # j => bytes(ranges[i]) \cap bytes(ranges[j]) = {}
           /\ Cardinality(all) <= 3 * Window
           /\ check.result = "observed" /\ check.size > 0 =>
                 {0, (check.size - 1) \div 2, check.size - 1} \subseteq all
=============================================================================
