-------------------------- MODULE ServiceCommands --------------------------
(***************************************************************************)
(* The service commands (internal/service): install, status, uninstall,    *)
(* start or stop, runtime-status, enable-login and disable-login, on Linux.*)
(*                                                                         *)
(* Commands are processes.  They share one service directory, in which a   *)
(* descriptor, a coordinator lock and a login link are files with fixed    *)
(* names, and one user manager.  A command holds the directory and files   *)
(* it opened while the names may come to lead elsewhere: every check       *)
(* compares what it holds with what is named.  Commands exclude each other *)
(* by flock on the lock file, other programs change anything at any time,  *)
(* and a command may fail or die between any two steps.                    *)
(*                                                                         *)
(* A command is a fixed sequence of steps; it leaves the sequence early    *)
(* when a step refuses.  A step is one system call that changes something, *)
(* one call to the manager, or one checked read: its stamps are compared   *)
(* before and after, so a change within it is a refusal, and a refusal is  *)
(* possible at every step.  Stamps are taken to tell every edit apart.     *)
(***************************************************************************)
EXTENDS Naturals, Sequences, FiniteSets

CONSTANTS
  Commands,   \* processes that run one command after the other
  Profiles,   \* the worker profiles; a descriptor is exact for one of them
  Actions,    \* the commands that are run
  Starts,     \* the directories to start from
  MaxRuns,    \* bound on the commands run in all
  MaxEdits,   \* bound on the changes by other programs and manager restarts
  MaxDirs,    \* bound on the service directories that ever exist
  TempLimit   \* temporary names that stop a new publication (128)

ASSUME ServiceCommandsAssumption ==
  /\ IsFiniteSet(Commands)
  /\ Actions \subseteq {"status", "install", "uninstall", "request", "observe",
                       "enable", "disable"}
  /\ Starts \subseteq {"nothing", "empty", "installed", "linked"}
  /\ MaxRuns \in Nat /\ MaxEdits \in Nat
  /\ MaxDirs \in Nat \ {0} /\ TempLimit \in Nat \ {0}

VARIABLES
  files,   \* every file made: what it holds, its stamp, whether it has a name
  dirs,    \* every service directory made: the files its names lead to
  named,   \* the directory the configured path leads to, or 0
  mgr,     \* the user manager: its unique name and the unit it has loaded
  cmd,     \* what each process runs
  runs, edits

vars == <<files, dirs, named, mgr, cmd, runs, edits>>
world == <<files, dirs, named, mgr, runs, edits>>

-----------------------------------------------------------------------------
(* The steps of each command, in the order of its function.                 *)

StatusSteps == <<"open", "look">>
InstallSteps ==
  <<"open", "look", "lock", "flock", "scope", "relook", "temp", "scope", "rename",
    "confirm", "sync", "final">>
UninstallSteps ==
  <<"open", "lock", "flock", "scope", "examine", "examined", "unlink", "observe",
    "sync", "observe">>
GuardSteps == <<"open", "stat", "lock", "flock", "guard">>
BindSteps == <<"owner", "load", "match">>
RequestSteps ==
  GuardSteps \o BindSteps \o <<"guard", "same owner", "guard", "request", "guard">>
ObserveSteps ==
  GuardSteps \o <<"owner", "lookup", "match", "lookup", "same owner", "report">>
LinkSteps ==
  GuardSteps \o BindSteps \o
  <<"guard", "wants", "same owner", "guard", "open link", "same link", "change",
    "changed", "sync", "same owner", "changed">>

\* dispatchService: the function that runs each command.
Steps(action) ==
  CASE action = "status" -> StatusSteps
    [] action = "install" -> InstallSteps
    [] action = "uninstall" -> UninstallSteps
    [] action = "request" -> RequestSteps
    [] action = "observe" -> ObserveSteps
    [] action \in {"enable", "disable"} -> LinkSteps

-----------------------------------------------------------------------------
(* State.  Files and directories are numbered in the order they are made.   *)

NewDir == [desc |-> 0, lock |-> 0, wants |-> FALSE, link |-> 0, left |-> 0]
NewFile(content) == [content |-> content, stamp |-> 0, linked |-> TRUE]

\* want: the profile asked for.  dir, lock, file and link are what the command
\* holds, stamp that of file, held the flock.  status is what the result says
\* was changed or seen and ok that it comes without an error.  did, clean and
\* src are history: whether the command changed anything, whether nothing
\* disturbed it since its last passed check (a file changed by another program,
\* or by a command that was disturbed itself), and the manager that answered
\* its last property read or request.
Idle == [action |-> "none", want |-> "none", pc |-> 0, over |-> FALSE, dir |-> 0, lock |-> 0,
         held |-> FALSE, file |-> 0, stamp |-> 0, link |-> 0, temp |-> FALSE, owner |-> 0,
         status |-> "not_requested", ok |-> TRUE, did |-> FALSE, clean |-> FALSE, src |-> 0]

\* The descriptor for profile p, as Build renders it, and its lock and link.
StartFiles(p) == <<NewFile("lock"), NewFile(p), NewFile("target")>>
StartDir(s) ==
  CASE s = "empty" -> NewDir
    [] s = "installed" -> [NewDir EXCEPT !.lock = 1, !.desc = 2]
    [] s = "linked" -> [NewDir EXCEPT !.lock = 1, !.desc = 2, !.wants = TRUE, !.link = 3]

Init ==
  /\ \E p \in Profiles : files = StartFiles(p)
  /\ \E s \in Starts : IF s = "nothing" THEN dirs = <<>> /\ named = 0
                       ELSE dirs = <<StartDir(s)>> /\ named = 1
  /\ mgr = [owner |-> 1, loaded |-> "none"]
  /\ cmd = [c \in Commands |-> Idle]
  /\ runs = 0 /\ edits = 0

Running(c) == cmd[c].action # "none" /\ ~cmd[c].over
At(c, step) == Running(c) /\ Steps(cmd[c].action)[cmd[c].pc] = step
Here(c) == dirs[cmd[c].dir]

\* readArtifact: what the descriptor's name leads to in the held directory.
ReadArtifact(c) ==
  CASE Here(c).desc = 0 -> "absent"
    [] Here(c).desc # 0 -> IF files[Here(c).desc].content = cmd[c].want
                           THEN "exact" ELSE "conflict"

\* The open file is the named one and nobody edited it.
SameFile(c) ==
  Here(c).desc = cmd[c].file /\ cmd[c].file # 0 /\ files[cmd[c].file].stamp = cmd[c].stamp
ChainCheck(c) == cmd[c].dir = named
LockCheck(c) == Here(c).lock = cmd[c].lock
ScopeCheck(c) == ChainCheck(c) /\ LockCheck(c)
GuardCheck(c) == ScopeCheck(c) /\ ReadArtifact(c) = "exact" /\ SameFile(c)

\* Temporary names in a directory: of running installs and of ones that died.
Temps(d) == dirs[d].left + Cardinality({c \in Commands : cmd[c].dir = d /\ cmd[c].temp})

\* The command goes on with record k, or ends there without or with an error.
Go(c, k) == cmd' = [cmd EXCEPT ![c] =
                      [k EXCEPT !.pc = @ + 1, !.over = k.pc = Len(Steps(k.action))]]
End(c, k) == cmd' = [cmd EXCEPT ![c] = [k EXCEPT !.over = TRUE]]
Fail(c, k) == End(c, [k EXCEPT !.ok = FALSE])

\* A step that changed a file.  When its check was overtaken, it is to the other
\* commands what the change of another program is.
Acted(c, k, ended) ==
  cmd' = [o \in Commands |->
            IF o # c THEN [cmd[o] EXCEPT !.clean = @ /\ k.clean]
            ELSE [k EXCEPT !.pc = @ + 1, !.over = ended, !.ok = @ /\ ~ended]]

\* A check that passed or refused, and nothing else.
Checked(c, test, k) ==
  /\ IF test THEN Go(c, [k EXCEPT !.clean = TRUE]) ELSE Fail(c, cmd[c])
  /\ UNCHANGED world

-----------------------------------------------------------------------------
(* Opening the directory, the lock and the descriptor.                      *)

Begin(c) ==
  /\ cmd[c] = Idle /\ runs < MaxRuns
  /\ \E a \in Actions, p \in Profiles :
       cmd' = [cmd EXCEPT ![c] = [Idle EXCEPT !.action = a, !.want = p, !.pc = 1]]
  /\ runs' = runs + 1
  /\ UNCHANGED <<files, dirs, named, mgr, edits>>

\* openServiceBase and child: only install makes a directory that is missing.
Open(c) ==
  /\ At(c, "open")
  /\ \/ /\ named # 0
        /\ Go(c, [cmd[c] EXCEPT !.dir = named])
        /\ UNCHANGED <<dirs, named>>
     \/ /\ named = 0 /\ cmd[c].action = "install" /\ Len(dirs) < MaxDirs
        /\ dirs' = Append(dirs, NewDir)
        /\ named' = Len(dirs) + 1
        /\ Go(c, [cmd[c] EXCEPT !.dir = named'])
     \/ /\ named = 0 /\ cmd[c].action = "status"
        /\ End(c, [cmd[c] EXCEPT !.status = "absent"])
        /\ UNCHANGED <<dirs, named>>
     \/ /\ named = 0 /\ cmd[c].action \notin {"install", "status"}
        /\ Fail(c, cmd[c])
        /\ UNCHANGED <<dirs, named>>
  /\ UNCHANGED <<files, mgr, runs, edits>>

\* lifecycle: the first read, before the lock; it is all that status does.
Look(c) ==
  /\ At(c, "look")
  /\ IF cmd[c].action = "status"
     THEN Checked(c, ReadArtifact(c) # "conflict" /\ ChainCheck(c),
                  [cmd[c] EXCEPT !.status = ReadArtifact(c)])
     ELSE Checked(c, ReadArtifact(c) # "conflict", cmd[c])

\* openRuntimeGuard: the descriptor must exist and be exact.
Stat(c) ==
  /\ At(c, "stat")
  /\ Checked(c, ReadArtifact(c) = "exact",
             [cmd[c] EXCEPT !.file = Here(c).desc,
                            !.stamp = IF Here(c).desc = 0 THEN 0
                                      ELSE files[Here(c).desc].stamp])

\* The lock file is opened by name; only install makes a missing one.
Lock(c) ==
  /\ At(c, "lock")
  /\ \/ /\ Here(c).lock # 0
        /\ Go(c, [cmd[c] EXCEPT !.lock = Here(c).lock])
        /\ UNCHANGED <<files, dirs>>
     \/ /\ Here(c).lock = 0 /\ cmd[c].action = "install"
        /\ files' = Append(files, NewFile("lock"))
        /\ dirs' = [dirs EXCEPT ![cmd[c].dir].lock = Len(files) + 1]
        /\ Go(c, [cmd[c] EXCEPT !.lock = Len(files) + 1])
     \/ /\ Here(c).lock = 0 /\ cmd[c].action # "install"
        /\ Fail(c, cmd[c])
        /\ UNCHANGED <<files, dirs>>
  /\ UNCHANGED <<named, mgr, runs, edits>>

\* Mutant: the lock file is opened and checked, but never locked.
LockNotTaken(c) == TRUE

\* flock does not wait: a command that finds the lock taken is refused.
LockFree(c) == \A o \in Commands \ {c} : ~(cmd[o].held /\ cmd[o].lock = cmd[c].lock)

Flock(c) ==
  /\ At(c, "flock")
  /\ IF LockCheck(c) /\ LockFree(c) THEN Go(c, [cmd[c] EXCEPT !.held = TRUE])
     ELSE Fail(c, cmd[c])
  /\ UNCHANGED world

Scope(c) == At(c, "scope") /\ Checked(c, ScopeCheck(c), cmd[c])
Guard(c) == At(c, "guard") /\ Checked(c, GuardCheck(c), cmd[c])

-----------------------------------------------------------------------------
(* install                                                                  *)

\* An exact descriptor needs no publication; an absent one may be published.
Relook(c) ==
  /\ At(c, "relook")
  /\ CASE ReadArtifact(c) = "exact" ->
            End(c, [cmd[c] EXCEPT !.status = "not_needed", !.ok = ScopeCheck(c),
                                  !.clean = ScopeCheck(c)])
       [] ReadArtifact(c) = "absent" -> Go(c, cmd[c])
       [] ReadArtifact(c) = "conflict" -> Fail(c, cmd[c])
  /\ UNCHANGED world

\* checkServiceDirectoryBounds, then the temporary file, written and synced.
Temp(c) ==
  /\ At(c, "temp")
  /\ IF Temps(cmd[c].dir) < TempLimit THEN Go(c, [cmd[c] EXCEPT !.temp = TRUE])
     ELSE Fail(c, cmd[c])
  /\ UNCHANGED world

\* Mutant: any failed rename counts as a refusal, also one that took effect.
RenameFailedNothingDone == "not_requested"
\* uncertainArtifact: an error other than EEXIST proves nothing.
RenameFailed == "uncertain"

\* The rename never replaces: EEXIST is a conflict.  An error may still come
\* after the rename took effect.
Rename(c) ==
  /\ At(c, "rename")
  /\ \/ /\ Here(c).desc = 0
        /\ files' = Append(files, NewFile(cmd[c].want))
        /\ dirs' = [dirs EXCEPT ![cmd[c].dir].desc = Len(files) + 1]
        /\ LET k == [cmd[c] EXCEPT !.temp = FALSE, !.file = Len(files) + 1, !.did = TRUE]
           IN \/ Acted(c, [k EXCEPT !.status = "uncertain"], FALSE)
              \/ Acted(c, [k EXCEPT !.status = RenameFailed], TRUE)
     \/ /\ Fail(c, [cmd[c] EXCEPT !.status = RenameFailed])
        /\ UNCHANGED <<files, dirs>>
     \/ /\ Here(c).desc # 0
        /\ Fail(c, cmd[c])
        /\ UNCHANGED <<files, dirs>>
  /\ UNCHANGED <<named, mgr, runs, edits>>

\* The name leads to the file this command wrote, in the named directory.
Confirm(c) ==
  /\ At(c, "confirm")
  /\ Checked(c, ScopeCheck(c) /\ ReadArtifact(c) = "exact" /\ Here(c).desc = cmd[c].file,
             cmd[c])

\* The directory is synced; the failure of a sync is the failure of any step.
Sync(c) == At(c, "sync") /\ Go(c, cmd[c]) /\ UNCHANGED world

\* The last read only has to succeed, and a missing file reads as "absent":
\* the result then still says saved and exact.
Final(c) ==
  /\ At(c, "final")
  /\ IF ScopeCheck(c) /\ ReadArtifact(c) # "conflict"
     THEN Go(c, [cmd[c] EXCEPT !.status = "saved"])
     ELSE Fail(c, cmd[c])
  /\ UNCHANGED world

-----------------------------------------------------------------------------
(* uninstall                                                                *)

\* openRemovalGuard opens and reads the descriptor, if there is one.
Examine(c) ==
  /\ At(c, "examine")
  /\ IF Here(c).desc = 0
     THEN IF ScopeCheck(c)
          THEN End(c, [cmd[c] EXCEPT !.status = "not_needed", !.clean = TRUE])
               /\ UNCHANGED world
          ELSE Fail(c, cmd[c]) /\ UNCHANGED world
     ELSE Checked(c, ScopeCheck(c) /\ ReadArtifact(c) = "exact",
                  [cmd[c] EXCEPT !.file = Here(c).desc,
                                 !.stamp = files[Here(c).desc].stamp])

Examined(c) == At(c, "examined") /\ Checked(c, ScopeCheck(c) /\ SameFile(c), cmd[c])

\* The file a name led to loses it.
Unnamed(id) == [files EXCEPT ![id].linked = FALSE]

\* unlinkat removes whatever has the name now.  It may report an error
\* whether or not it took effect, and does when there is nothing to remove.
Unlink(c) ==
  /\ At(c, "unlink")
  /\ \/ /\ Here(c).desc # 0
        /\ files' = Unnamed(Here(c).desc)
        /\ dirs' = [dirs EXCEPT ![cmd[c].dir].desc = 0]
        /\ \E ok \in BOOLEAN :
             Acted(c, [cmd[c] EXCEPT !.status = "unknown", !.ok = ok, !.did = TRUE], FALSE)
     \/ /\ Go(c, [cmd[c] EXCEPT !.status = "unknown", !.ok = FALSE])
        /\ UNCHANGED <<files, dirs>>
  /\ UNCHANGED <<named, mgr, runs, edits>>

\* Mutant: the absence of the name is taken for the removal of the file.
NameGone(c) == Here(c).desc = 0

\* observeRemoval: the held file has no name left, and the name no file.
Removed(c) == ~files[cmd[c].file].linked /\ Here(c).desc = 0

Observe(c) ==
  /\ At(c, "observe")
  /\ LET same == ScopeCheck(c) /\ files[cmd[c].file].stamp = cmd[c].stamp
         seen == [cmd[c] EXCEPT !.status = IF Removed(c) THEN "removed" ELSE "unknown"]
     IN CASE ~same -> Fail(c, cmd[c])
          [] same /\ Removed(c) /\ cmd[c].ok -> Go(c, [seen EXCEPT !.clean = TRUE])
          [] same /\ ~(Removed(c) /\ cmd[c].ok) -> Fail(c, seen)
  /\ UNCHANGED world

-----------------------------------------------------------------------------
(* The user manager is reached by its unique name: a call to an instance    *)
(* that is gone fails.                                                      *)

Answers(c) == mgr.owner = cmd[c].owner

Owner(c) ==
  At(c, "owner") /\ Go(c, [cmd[c] EXCEPT !.owner = mgr.owner]) /\ UNCHANGED world

\* systemd: the descriptor in the directory it was configured with.
Loadable == IF named = 0 THEN "none"
            ELSE IF dirs[named].desc = 0 THEN "none" ELSE files[dirs[named].desc].content

\* LoadUnit loads what is not loaded yet.
Load(c) ==
  /\ At(c, "load")
  /\ IF Answers(c)
     THEN /\ mgr' = [mgr EXCEPT !.loaded = IF @ = "none" THEN Loadable ELSE @]
          /\ Go(c, cmd[c])
     ELSE Fail(c, cmd[c]) /\ UNCHANGED mgr
  /\ UNCHANGED <<files, dirs, named, runs, edits>>

\* GetUnit only finds a unit that is loaded.
Lookup(c) ==
  /\ At(c, "lookup")
  /\ IF Answers(c) /\ mgr.loaded # "none" THEN Go(c, cmd[c]) ELSE Fail(c, cmd[c])
  /\ UNCHANGED world

\* matchRuntimeProperties: the loaded settings are those of the descriptor.
Match(c) ==
  /\ At(c, "match")
  /\ IF Answers(c) /\ mgr.loaded = cmd[c].want
     THEN Go(c, [cmd[c] EXCEPT !.src = mgr.owner]) ELSE Fail(c, cmd[c])
  /\ UNCHANGED world

\* checkOwner
SameOwner(c) ==
  /\ At(c, "same owner")
  /\ IF Answers(c) THEN Go(c, cmd[c]) ELSE Fail(c, cmd[c])
  /\ UNCHANGED world

\* A request that was sent is accepted by the instance that replies.  A lost
\* reply, or a helper that failed after it was started, leaves it unknown.
Request(c) ==
  /\ At(c, "request")
  /\ \/ /\ Answers(c)
        /\ LET k == [cmd[c] EXCEPT !.did = TRUE, !.src = mgr.owner]
           IN \/ Go(c, [k EXCEPT !.status = "accepted"])
              \/ Fail(c, [k EXCEPT !.status = "unknown"])
     \/ Fail(c, [cmd[c] EXCEPT !.status = "unknown"])
  /\ UNCHANGED world

\* observeRuntime: nothing is reported before the last check.
Report(c) ==
  At(c, "report") /\ Checked(c, GuardCheck(c), [cmd[c] EXCEPT !.status = "observed"])

-----------------------------------------------------------------------------
(* enable-login and disable-login                                           *)

\* openLoginDirectory: enable makes the missing wants directory.
Wants(c) ==
  /\ At(c, "wants")
  /\ IF GuardCheck(c)
     THEN /\ Go(c, [cmd[c] EXCEPT !.clean = TRUE])
          /\ dirs' = IF cmd[c].action = "enable"
                     THEN [dirs EXCEPT ![cmd[c].dir].wants = TRUE] ELSE dirs
     ELSE Fail(c, cmd[c]) /\ UNCHANGED dirs
  /\ UNCHANGED <<files, named, mgr, runs, edits>>

\* openLink and observe: no link, or one that leads to the descriptor.
OpenLink(c) ==
  /\ At(c, "open link")
  /\ LET link == Here(c).link
         wanted == (link # 0) = (cmd[c].action = "enable")
     IN CASE ~GuardCheck(c) \/ (link # 0 /\ files[link].content # "target") -> Fail(c, cmd[c])
          [] GuardCheck(c) /\ (link # 0 => files[link].content = "target") ->
               LET k == [cmd[c] EXCEPT !.link = link, !.clean = TRUE]
               IN IF wanted THEN End(c, [k EXCEPT !.status = "not_needed"]) ELSE Go(c, k)
  /\ UNCHANGED world

SameLink(c) ==
  /\ At(c, "same link")
  /\ Checked(c, GuardCheck(c) /\ Here(c).link = cmd[c].link, cmd[c])

\* symlinkat makes a link only where there is none; unlinkat removes whatever
\* has the name.  Either may report an error whether or not it took effect.
Change(c) ==
  /\ At(c, "change")
  /\ LET k == [cmd[c] EXCEPT !.status = "unknown"]
     IN \/ /\ (Here(c).link = 0) = (cmd[c].action = "enable")
           /\ IF cmd[c].action = "enable"
              THEN /\ files' = Append(files, NewFile("target"))
                   /\ dirs' = [dirs EXCEPT ![cmd[c].dir].link = Len(files) + 1]
              ELSE /\ files' = Unnamed(Here(c).link)
                   /\ dirs' = [dirs EXCEPT ![cmd[c].dir].link = 0]
           /\ \E ok \in BOOLEAN : Acted(c, [k EXCEPT !.ok = ok, !.did = TRUE], FALSE)
        \/ Go(c, [k EXCEPT !.ok = FALSE]) /\ UNCHANGED <<files, dirs>>
  /\ UNCHANGED <<named, mgr, runs, edits>>

\* observeChanged: the first link found after enabling must stay the same.
ChangeSeen(c) ==
  LET link == Here(c).link
  IN /\ GuardCheck(c)
     /\ IF cmd[c].action = "enable"
        THEN link # 0 /\ files[link].content = "target" /\ cmd[c].link \in {0, link}
        ELSE link = 0 /\ ~files[cmd[c].link].linked

Changed(c) ==
  /\ At(c, "changed")
  /\ LET k == [cmd[c] EXCEPT !.status = "changed", !.clean = TRUE,
                 !.link = IF cmd[c].action = "enable" THEN Here(c).link ELSE @]
     IN CASE ~ChangeSeen(c) -> Fail(c, cmd[c])
          [] ChangeSeen(c) /\ cmd[c].ok -> Go(c, k)
          [] ChangeSeen(c) /\ ~cmd[c].ok -> Fail(c, k)
  /\ UNCHANGED world

-----------------------------------------------------------------------------
(* The end of a command, and what happens around it.                        *)

\* The result is returned; closing the files releases the lock, and an
\* install that still has its temporary file removes it.
Reply(c) ==
  /\ cmd[c].over
  /\ cmd' = [cmd EXCEPT ![c] = Idle]
  /\ UNCHANGED world

\* The five-second context ends, or a call of the step fails.
Cancel(c) == Running(c) /\ Fail(c, cmd[c]) /\ UNCHANGED world

\* The process dies: its lock is released, its temporary file stays.
Crash(c) ==
  /\ Running(c)
  /\ cmd' = [cmd EXCEPT ![c] = Idle]
  /\ dirs' = IF cmd[c].temp THEN [dirs EXCEPT ![cmd[c].dir].left = @ + 1] ELSE dirs
  /\ UNCHANGED <<files, named, mgr, runs, edits>>

\* Another program removes a named file, moves it away, or puts one there, over
\* the one that had the name or beside it moved; edits the descriptor in place;
\* or moves the directory.
Name(d, n) == IF n = "desc" THEN dirs[d].desc ELSE IF n = "lock" THEN dirs[d].lock
              ELSE dirs[d].link
Put(d, n, id) == CASE n = "desc" -> [dirs EXCEPT ![d].desc = id]
                   [] n = "lock" -> [dirs EXCEPT ![d].lock = id]
                   [] n = "link" -> [dirs EXCEPT ![d].link = id]
PutContents(n) == CASE n = "desc" -> Profiles [] n = "lock" -> {"lock"}
                    [] n = "link" -> {"target", "elsewhere"}

EditFiles ==
  /\ edits < MaxEdits
  /\ \/ \E d \in 1..Len(dirs), n \in {"desc", "lock", "link"} :
          \E gone \in IF Name(d, n) = 0 THEN {FALSE} ELSE BOOLEAN :
            LET rest == IF gone THEN Unnamed(Name(d, n)) ELSE files
            IN /\ \/ Name(d, n) # 0 /\ files' = rest /\ dirs' = Put(d, n, 0)
                  \/ /\ n = "link" => dirs[d].wants
                     /\ \E x \in PutContents(n) : files' = Append(rest, NewFile(x))
                     /\ dirs' = Put(d, n, Len(files) + 1)
               /\ UNCHANGED named
     \/ \E d \in 1..Len(dirs), x \in Profiles :
          /\ dirs[d].desc # 0
          /\ files' = [files EXCEPT ![dirs[d].desc] =
                         [content |-> x, stamp |-> @.stamp + 1, linked |-> @.linked]]
          /\ UNCHANGED <<dirs, named>>
     \/ named # 0 /\ named' = 0 /\ UNCHANGED <<files, dirs>>
  /\ edits' = edits + 1
  /\ cmd' = [c \in Commands |-> [cmd[c] EXCEPT !.clean = FALSE]]
  /\ UNCHANGED <<mgr, runs>>

\* The manager is restarted, under a new unique name, or told to reload.
Manager ==
  /\ \/ /\ edits < MaxEdits
        /\ mgr' = [owner |-> mgr.owner + 1, loaded |-> "none"]
        /\ edits' = edits + 1
     \/ /\ mgr.loaded \notin {"none", Loadable}
        /\ mgr' = [mgr EXCEPT !.loaded = Loadable]
        /\ UNCHANGED edits
  /\ UNCHANGED <<files, dirs, named, cmd, runs>>

Step(c) ==
  \/ Begin(c) \/ Open(c) \/ Look(c) \/ Stat(c) \/ Lock(c) \/ Flock(c) \/ Scope(c) \/ Guard(c)
  \/ Relook(c) \/ Temp(c) \/ Rename(c) \/ Confirm(c) \/ Sync(c) \/ Final(c)
  \/ Examine(c) \/ Examined(c) \/ Unlink(c) \/ Observe(c)
  \/ Owner(c) \/ Load(c) \/ Lookup(c) \/ Match(c) \/ SameOwner(c) \/ Request(c) \/ Report(c)
  \/ Wants(c) \/ OpenLink(c) \/ SameLink(c) \/ Change(c) \/ Changed(c)
  \/ Reply(c) \/ Cancel(c) \/ Crash(c)

Next == (\E c \in Commands : Step(c)) \/ EditFiles \/ Manager

Spec == Init /\ [][Next]_vars

-----------------------------------------------------------------------------
(* Properties.                                                              *)

\* The files of command k's directory are those of its last check.
AsChecked(c) ==
  /\ ChainCheck(c) /\ LockCheck(c)
  /\ SameFile(c) /\ files[cmd[c].file].content = cmd[c].want

\* What a command is about to change is what it checked, as far as other
\* commands go: unless some other program interfered since the check, the
\* publication goes to the directory the path leads to and below the limit of
\* temporary files, the file removed is the one that was read, the manager is
\* asked while the exact descriptor is in place and is the instance whose
\* loaded settings matched, and a login link is made or removed for the exact
\* descriptor and is the one that was examined (requestRuntime repeats its
\* checks around each external call for this).
EffectsAsChecked ==
  [][\A c \in Commands :
       ~cmd[c].did /\ cmd'[c].did =>
         /\ At(c, "request") => cmd'[c].src = cmd[c].owner /\ cmd[c].src = cmd[c].owner
         /\ cmd[c].clean =>
              /\ At(c, "rename") => ScopeCheck(c) /\ Temps(cmd[c].dir) <= TempLimit
              /\ At(c, "unlink") \/ At(c, "request") => AsChecked(c)
              /\ At(c, "change") => AsChecked(c) /\ Here(c).link = cmd[c].link]_vars

\* What a result without an error claims.  A saved descriptor was in place
\* when its identity was confirmed.
Claim(c) ==
  LET k == cmd[c]
  IN CASE k.action = "install" ->
            /\ ScopeCheck(c) /\ ReadArtifact(c) = "exact"
            /\ k.status = "saved" => Here(c).desc = k.file
       [] k.action = "uninstall" -> ScopeCheck(c) /\ Here(c).desc = 0
       [] k.status = "accepted" -> k.did /\ AsChecked(c)
       [] k.status = "observed" -> k.src = k.owner /\ AsChecked(c)
       [] k.action = "enable" ->
            AsChecked(c) /\ Here(c).link # 0 /\ files[Here(c).link].content = "target"
       [] k.action = "disable" -> AsChecked(c) /\ Here(c).link = 0
       [] OTHER -> TRUE

\* What a command says when it returns is true then, unless another program
\* interfered since its last check; and "removed" is never said of a file
\* that still has a name, whoever interfered and whatever failed.
ReportsTrue ==
  [][\A c \in Commands :
       cmd[c].over /\ cmd'[c] = Idle =>
         /\ cmd[c].status = "removed" => ~files[cmd[c].file].linked
         /\ cmd[c].ok /\ cmd[c].clean => Claim(c)]_vars

\* A command that changed the descriptor or the link, or sent a request, never
\* says that it did nothing: a failure after the attempt is reported as such
\* (uncertainArtifact, removalFailure, runtimeFailure, loginLinkFailure).
FailuresHonest ==
  \A c \in Commands :
    cmd[c].did => cmd[c].status \notin {"not_requested", "not_needed"}
=============================================================================
