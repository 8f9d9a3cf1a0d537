----------------------- MODULE ServiceCommandProofs -----------------------
(***************************************************************************)
(* Proofs about the service commands: what a command changes is what it    *)
(* checked last, what it reports is true, and a failure hides no effect.   *)
(***************************************************************************)
EXTENDS ServiceCommands, SequenceTheorems, FiniteSetTheorems, TLAPS

-----------------------------------------------------------------------------
(* The inductive invariant.                                                *)

Guarded == {"request", "observe", "enable", "disable"}
AllActions == {"status", "install", "uninstall"} \cup Guarded
\* What files hold; the manager may have loaded none of it.
Contents == Profiles \cup {"lock", "target", "elsewhere", "none"}
Statuses == {"not_requested", "not_needed", "uncertain", "unknown", "absent", "exact",
             "saved", "removed", "accepted", "observed", "changed"}
Files == [content : Contents, stamp : Nat, linked : BOOLEAN]
Dirs == [desc : Nat, lock : Nat, wants : BOOLEAN, link : Nat, left : Nat]
Records ==
  [action : AllActions \cup {"none"}, want : Profiles \cup {"none"}, pc : Nat, over : BOOLEAN,
   dir : Nat, lock : Nat, held : BOOLEAN, file : Nat, stamp : Nat, link : Nat,
   temp : BOOLEAN, owner : Nat, status : Statuses, ok : BOOLEAN, did : BOOLEAN,
   clean : BOOLEAN, src : Nat]

Managers == [owner : Nat, loaded : Contents]

\* Every name leads to a file that was made, and the path to a directory.
WorldOK ==
  /\ files \in Seq(Files) /\ dirs \in Seq(Dirs)
  /\ named \in 0..Len(dirs)
  /\ \A d \in 1..Len(dirs) :
       dirs[d].desc \in 0..Len(files) /\ dirs[d].lock \in 0..Len(files)
       /\ dirs[d].link \in 0..Len(files)
  /\ mgr \in Managers
  /\ cmd \in [Commands -> Records]
  /\ runs \in Nat /\ edits \in Nat

\* The step at which a command locks; from the second step after it, what it
\* locked has been checked.
LockedFrom(a) == IF a = "uninstall" THEN 4 ELSE 5
ScopedFrom(a) == LockedFrom(a) + 1

\* What a command holds at its place in the sequence.
ControlOK(k) ==
  /\ k.action = "none" => k = Idle
  /\ k.action # "none" =>
       /\ k.pc \in 1..Len(Steps(k.action)) + 1
       /\ ~k.over => k.pc <= Len(Steps(k.action))
       /\ k.pc > 1 => k.dir \in 1..Len(dirs)
       /\ k.action # "status" /\ k.pc >= LockedFrom(k.action) - 1 => k.lock \in 1..Len(files)
       /\ k.held => k.action # "status" /\ k.pc >= LockedFrom(k.action)
       /\ k.action # "status" /\ k.pc >= LockedFrom(k.action) => k.held
       /\ k.temp => k.pc > 1
       /\ k.action \in Guarded /\ k.pc >= 9 => k.src = k.owner

\* A command that changed something says so.
DidOK(k) ==
  /\ k.did => /\ k.status \notin {"not_requested", "not_needed"}
              /\ k.pc >= CASE k.action = "install" -> 9
                           [] k.action = "uninstall" -> 8
                           [] k.action = "request" -> 12
                           [] k.action \in {"enable", "disable"} -> 15
                           [] OTHER -> 99
  /\ k.status = "saved" => k.pc >= 11
  /\ k.status = "accepted" => k.action = "request" /\ k.did
  /\ k.status = "observed" => k.action = "observe" /\ k.pc >= 9

\* The file to be removed was exact when it was read; every edit of it since
\* shows in its stamp.  Once it was seen without a name, it has none.
FileOK(k) ==
  /\ k.action = "uninstall" /\ k.pc >= 6 =>
       /\ k.file \in 1..Len(files) /\ k.stamp <= files[k.file].stamp
       /\ k.stamp = files[k.file].stamp => files[k.file].content = k.want
  /\ k.status = "removed" =>
       k.action = "uninstall" /\ k.pc >= 8 /\ ~files[k.file].linked

\* What the last check of an undisturbed command found still holds.
Scoped(c) == cmd[c].clean /\ cmd[c].held /\ cmd[c].pc >= ScopedFrom(cmd[c].action)
Done(c) == cmd[c].over /\ cmd[c].ok
CleanOK(c) ==
  LET k == cmd[c]
  IN Scoped(c) =>
       /\ ScopeCheck(c)
       /\ k.action = "install" =>
            /\ k.pc >= 11 \/ Done(c) => ReadArtifact(c) = "exact"
            /\ k.pc >= 11 => Here(c).desc = k.file
       /\ k.action = "uninstall" =>
            /\ k.pc = 7 => SameFile(c)
            /\ k.pc >= 9 \/ Done(c) => Here(c).desc = 0
       /\ k.action \in Guarded => GuardCheck(c)
       /\ k.action \in {"enable", "disable"} /\ k.pc = 15 => Here(c).link = k.link
       /\ k.action = "enable" /\ Done(c) =>
            Here(c).link # 0 /\ files[Here(c).link].content = "target"
       /\ k.action = "disable" /\ Done(c) => Here(c).link = 0

\* A result without an error is that of a command that passed its checks.
DoneOK(k) ==
  k.over /\ k.ok /\ k.action \notin {"none", "status"} =>
    k.held /\ k.pc >= ScopedFrom(k.action)

Exclusive == \A c, o \in Commands :
  c # o /\ cmd[c].held /\ cmd[o].held => cmd[c].lock # cmd[o].lock
TempsOK == \A d \in 1..Len(dirs) : Temps(d) <= TempLimit

CommandOK(c) ==
  ControlOK(cmd[c]) /\ DidOK(cmd[c]) /\ FileOK(cmd[c]) /\ DoneOK(cmd[c]) /\ CleanOK(c)

ServiceInv ==
  WorldOK /\ Exclusive /\ TempsOK /\ \A c \in Commands : CommandOK(c)

-----------------------------------------------------------------------------
(* The tables of steps.                                                    *)

LEMMA ShortTables ==
  /\ Len(StatusSteps) = 2 /\ StatusSteps[1] = "open" /\ StatusSteps[2] = "look"
  /\ Len(InstallSteps) = 12
  /\ InstallSteps[1] = "open" /\ InstallSteps[2] = "look" /\ InstallSteps[3] = "lock"
  /\ InstallSteps[4] = "flock" /\ InstallSteps[5] = "scope" /\ InstallSteps[6] = "relook"
  /\ InstallSteps[7] = "temp" /\ InstallSteps[8] = "scope" /\ InstallSteps[9] = "rename"
  /\ InstallSteps[10] = "confirm" /\ InstallSteps[11] = "sync" /\ InstallSteps[12] = "final"
  /\ Len(UninstallSteps) = 10
  /\ UninstallSteps[1] = "open" /\ UninstallSteps[2] = "lock" /\ UninstallSteps[3] = "flock"
  /\ UninstallSteps[4] = "scope" /\ UninstallSteps[5] = "examine"
  /\ UninstallSteps[6] = "examined" /\ UninstallSteps[7] = "unlink"
  /\ UninstallSteps[8] = "observe" /\ UninstallSteps[9] = "sync"
  /\ UninstallSteps[10] = "observe"
  BY DEF StatusSteps, InstallSteps, UninstallSteps

StepNames ==
  {"open", "stat", "lock", "flock", "guard", "owner", "load", "match", "same owner",
   "request", "lookup", "report", "wants", "open link", "same link", "change",
   "changed", "sync"}

\* The elements of two sequences, one after the other.
LEMMA Joined ==
  ASSUME NEW s \in Seq(StepNames), NEW t \in Seq(StepNames), NEW j, j = s \o t
  PROVE  /\ j \in Seq(StepNames) /\ Len(j) = Len(s) + Len(t)
         /\ \A i \in 1..(Len(s) + Len(t)) :
              j[i] = IF i <= Len(s) THEN s[i] ELSE t[i - Len(s)]
  BY ConcatProperties

LEMMA GuardTable ==
  /\ GuardSteps \in Seq(StepNames)
  /\ Len(GuardSteps) = 5 /\ GuardSteps[1] = "open" /\ GuardSteps[2] = "stat"
  /\ GuardSteps[3] = "lock" /\ GuardSteps[4] = "flock" /\ GuardSteps[5] = "guard"
  BY DEF GuardSteps, StepNames

LEMMA BoundTable ==
  /\ (GuardSteps \o BindSteps) \in Seq(StepNames)
  /\ Len((GuardSteps \o BindSteps)) = 8 /\ (GuardSteps \o BindSteps)[1] = "open"
  /\ (GuardSteps \o BindSteps)[2] = "stat" /\ (GuardSteps \o BindSteps)[3] = "lock"
  /\ (GuardSteps \o BindSteps)[4] = "flock" /\ (GuardSteps \o BindSteps)[5] = "guard"
  /\ (GuardSteps \o BindSteps)[6] = "owner" /\ (GuardSteps \o BindSteps)[7] = "load"
  /\ (GuardSteps \o BindSteps)[8] = "match"
  <1> DEFINE s == GuardSteps
             t == BindSteps
             j == (GuardSteps \o BindSteps)
  <1>1. /\ t \in Seq(StepNames)
        /\ Len(t) = 3 /\ t[1] = "owner" /\ t[2] = "load" /\ t[3] = "match"
    BY DEF StepNames, BindSteps
  <1>2. /\ s \in Seq(StepNames)
        /\ Len(s) = 5 /\ s[1] = "open" /\ s[2] = "stat" /\ s[3] = "lock"
        /\ s[4] = "flock" /\ s[5] = "guard"
    BY GuardTable
  <1>3. j = s \o t
    OBVIOUS
  <1> HIDE DEF s, t, j
  <1>4. s \in Seq(StepNames) /\ t \in Seq(StepNames)
    BY <1>1, <1>2
  <1>5. /\ j \in Seq(StepNames) /\ Len(j) = Len(s) + Len(t)
        /\ \A i \in 1..(Len(s) + Len(t)) :
             j[i] = IF i <= Len(s) THEN s[i] ELSE t[i - Len(s)]
    BY <1>3, <1>4, Joined
  <1>6. Len(s) = 5 /\ Len(t) = 3
    BY <1>1, <1>2
  <1>7. /\ Len(j) = 8 /\ j[1] = s[1] /\ j[2] = s[2] /\ j[3] = s[3] /\ j[4] = s[4]
        /\ j[5] = s[5]
    BY <1>5, <1>6
  <1>8. /\ j[6] = t[1] /\ j[7] = t[2] /\ j[8] = t[3]
    BY <1>5, <1>6
  <1>9. /\ j[1] = "open" /\ j[2] = "stat" /\ j[3] = "lock" /\ j[4] = "flock"
        /\ j[5] = "guard"
    BY <1>2, <1>7
  <1>10. /\ j[6] = "owner" /\ j[7] = "load" /\ j[8] = "match"
    BY <1>1, <1>8
  <1> QED BY <1>5, <1>7, <1>9, <1>10 DEF j

LEMMA RequestTable ==
  /\ RequestSteps \in Seq(StepNames)
  /\ Len(RequestSteps) = 13 /\ RequestSteps[1] = "open" /\ RequestSteps[2] = "stat"
  /\ RequestSteps[3] = "lock" /\ RequestSteps[4] = "flock" /\ RequestSteps[5] = "guard"
  /\ RequestSteps[6] = "owner" /\ RequestSteps[7] = "load" /\ RequestSteps[8] = "match"
  /\ RequestSteps[9] = "guard" /\ RequestSteps[10] = "same owner"
  /\ RequestSteps[11] = "guard" /\ RequestSteps[12] = "request"
  /\ RequestSteps[13] = "guard"
  <1> DEFINE s == GuardSteps \o BindSteps
             t == <<"guard", "same owner", "guard", "request", "guard">>
             j == RequestSteps
  <1>1. /\ t \in Seq(StepNames)
        /\ Len(t) = 5 /\ t[1] = "guard" /\ t[2] = "same owner" /\ t[3] = "guard"
        /\ t[4] = "request" /\ t[5] = "guard"
    BY DEF StepNames, BindSteps
  <1>2. /\ s \in Seq(StepNames)
        /\ Len(s) = 8 /\ s[1] = "open" /\ s[2] = "stat" /\ s[3] = "lock"
        /\ s[4] = "flock" /\ s[5] = "guard" /\ s[6] = "owner" /\ s[7] = "load"
        /\ s[8] = "match"
    BY BoundTable
  <1>3. j = s \o t
    BY DEF RequestSteps
  <1> HIDE DEF s, t, j
  <1>4. s \in Seq(StepNames) /\ t \in Seq(StepNames)
    BY <1>1, <1>2
  <1>5. /\ j \in Seq(StepNames) /\ Len(j) = Len(s) + Len(t)
        /\ \A i \in 1..(Len(s) + Len(t)) :
             j[i] = IF i <= Len(s) THEN s[i] ELSE t[i - Len(s)]
    BY <1>3, <1>4, Joined
  <1>6. Len(s) = 8 /\ Len(t) = 5
    BY <1>1, <1>2
  <1>7. /\ Len(j) = 13 /\ j[1] = s[1] /\ j[2] = s[2] /\ j[3] = s[3] /\ j[4] = s[4]
        /\ j[5] = s[5] /\ j[6] = s[6] /\ j[7] = s[7] /\ j[8] = s[8]
    BY <1>5, <1>6
  <1>8. /\ j[9] = t[1] /\ j[10] = t[2] /\ j[11] = t[3] /\ j[12] = t[4] /\ j[13] = t[5]
    BY <1>5, <1>6
  <1>9. /\ j[1] = "open" /\ j[2] = "stat" /\ j[3] = "lock" /\ j[4] = "flock"
        /\ j[5] = "guard" /\ j[6] = "owner" /\ j[7] = "load" /\ j[8] = "match"
    BY <1>2, <1>7
  <1>10. /\ j[9] = "guard" /\ j[10] = "same owner" /\ j[11] = "guard" /\ j[12] = "request"
        /\ j[13] = "guard"
    BY <1>1, <1>8
  <1> QED BY <1>5, <1>7, <1>9, <1>10 DEF j

LEMMA ObserveTable ==
  /\ ObserveSteps \in Seq(StepNames)
  /\ Len(ObserveSteps) = 11 /\ ObserveSteps[1] = "open" /\ ObserveSteps[2] = "stat"
  /\ ObserveSteps[3] = "lock" /\ ObserveSteps[4] = "flock" /\ ObserveSteps[5] = "guard"
  /\ ObserveSteps[6] = "owner" /\ ObserveSteps[7] = "lookup" /\ ObserveSteps[8] = "match"
  /\ ObserveSteps[9] = "lookup" /\ ObserveSteps[10] = "same owner"
  /\ ObserveSteps[11] = "report"
  <1> DEFINE s == GuardSteps
             t == <<"owner", "lookup", "match", "lookup", "same owner", "report">>
             j == ObserveSteps
  <1>1. /\ t \in Seq(StepNames)
        /\ Len(t) = 6 /\ t[1] = "owner" /\ t[2] = "lookup" /\ t[3] = "match"
        /\ t[4] = "lookup" /\ t[5] = "same owner" /\ t[6] = "report"
    BY DEF StepNames, BindSteps
  <1>2. /\ s \in Seq(StepNames)
        /\ Len(s) = 5 /\ s[1] = "open" /\ s[2] = "stat" /\ s[3] = "lock"
        /\ s[4] = "flock" /\ s[5] = "guard"
    BY GuardTable
  <1>3. j = s \o t
    BY DEF ObserveSteps
  <1> HIDE DEF s, t, j
  <1>4. s \in Seq(StepNames) /\ t \in Seq(StepNames)
    BY <1>1, <1>2
  <1>5. /\ j \in Seq(StepNames) /\ Len(j) = Len(s) + Len(t)
        /\ \A i \in 1..(Len(s) + Len(t)) :
             j[i] = IF i <= Len(s) THEN s[i] ELSE t[i - Len(s)]
    BY <1>3, <1>4, Joined
  <1>6. Len(s) = 5 /\ Len(t) = 6
    BY <1>1, <1>2
  <1>7. /\ Len(j) = 11 /\ j[1] = s[1] /\ j[2] = s[2] /\ j[3] = s[3] /\ j[4] = s[4]
        /\ j[5] = s[5]
    BY <1>5, <1>6
  <1>8. /\ j[6] = t[1] /\ j[7] = t[2] /\ j[8] = t[3] /\ j[9] = t[4] /\ j[10] = t[5]
        /\ j[11] = t[6]
    BY <1>5, <1>6
  <1>9. /\ j[1] = "open" /\ j[2] = "stat" /\ j[3] = "lock" /\ j[4] = "flock"
        /\ j[5] = "guard"
    BY <1>2, <1>7
  <1>10. /\ j[6] = "owner" /\ j[7] = "lookup" /\ j[8] = "match" /\ j[9] = "lookup"
        /\ j[10] = "same owner" /\ j[11] = "report"
    BY <1>1, <1>8
  <1> QED BY <1>5, <1>7, <1>9, <1>10 DEF j

LEMMA LinkTable ==
  /\ LinkSteps \in Seq(StepNames)
  /\ Len(LinkSteps) = 19 /\ LinkSteps[1] = "open" /\ LinkSteps[2] = "stat"
  /\ LinkSteps[3] = "lock" /\ LinkSteps[4] = "flock" /\ LinkSteps[5] = "guard"
  /\ LinkSteps[6] = "owner" /\ LinkSteps[7] = "load" /\ LinkSteps[8] = "match"
  /\ LinkSteps[9] = "guard" /\ LinkSteps[10] = "wants" /\ LinkSteps[11] = "same owner"
  /\ LinkSteps[12] = "guard" /\ LinkSteps[13] = "open link"
  /\ LinkSteps[14] = "same link" /\ LinkSteps[15] = "change" /\ LinkSteps[16] = "changed"
  /\ LinkSteps[17] = "sync" /\ LinkSteps[18] = "same owner" /\ LinkSteps[19] = "changed"
  <1> DEFINE s == GuardSteps \o BindSteps
             t == <<"guard", "wants", "same owner", "guard", "open link", "same link",
                    "change", "changed", "sync", "same owner",
                    "changed">>
             j == LinkSteps
  <1>1. /\ t \in Seq(StepNames)
        /\ Len(t) = 11 /\ t[1] = "guard" /\ t[2] = "wants" /\ t[3] = "same owner"
        /\ t[4] = "guard" /\ t[5] = "open link" /\ t[6] = "same link" /\ t[7] = "change"
        /\ t[8] = "changed" /\ t[9] = "sync" /\ t[10] = "same owner" /\ t[11] = "changed"
    BY DEF StepNames, BindSteps
  <1>2. /\ s \in Seq(StepNames)
        /\ Len(s) = 8 /\ s[1] = "open" /\ s[2] = "stat" /\ s[3] = "lock"
        /\ s[4] = "flock" /\ s[5] = "guard" /\ s[6] = "owner" /\ s[7] = "load"
        /\ s[8] = "match"
    BY BoundTable
  <1>3. j = s \o t
    BY DEF LinkSteps
  <1> HIDE DEF s, t, j
  <1>4. s \in Seq(StepNames) /\ t \in Seq(StepNames)
    BY <1>1, <1>2
  <1>5. /\ j \in Seq(StepNames) /\ Len(j) = Len(s) + Len(t)
        /\ \A i \in 1..(Len(s) + Len(t)) :
             j[i] = IF i <= Len(s) THEN s[i] ELSE t[i - Len(s)]
    BY <1>3, <1>4, Joined
  <1>6. Len(s) = 8 /\ Len(t) = 11
    BY <1>1, <1>2
  <1>7. /\ Len(j) = 19 /\ j[1] = s[1] /\ j[2] = s[2] /\ j[3] = s[3] /\ j[4] = s[4]
        /\ j[5] = s[5] /\ j[6] = s[6] /\ j[7] = s[7] /\ j[8] = s[8]
    BY <1>5, <1>6
  <1>8. /\ j[9] = t[1] /\ j[10] = t[2] /\ j[11] = t[3] /\ j[12] = t[4] /\ j[13] = t[5]
        /\ j[14] = t[6] /\ j[15] = t[7] /\ j[16] = t[8] /\ j[17] = t[9] /\ j[18] = t[10]
        /\ j[19] = t[11]
    BY <1>5, <1>6
  <1>9. /\ j[1] = "open" /\ j[2] = "stat" /\ j[3] = "lock" /\ j[4] = "flock"
        /\ j[5] = "guard" /\ j[6] = "owner" /\ j[7] = "load" /\ j[8] = "match"
    BY <1>2, <1>7
  <1>10. /\ j[9] = "guard" /\ j[10] = "wants" /\ j[11] = "same owner" /\ j[12] = "guard"
        /\ j[13] = "open link" /\ j[14] = "same link" /\ j[15] = "change"
        /\ j[16] = "changed" /\ j[17] = "sync" /\ j[18] = "same owner"
        /\ j[19] = "changed"
    BY <1>1, <1>8, ZenonT(60)
  <1> QED BY <1>5, <1>7, <1>9, <1>10 DEF j

\* Where in a table a step can be.
LEMMA StatusPlaces ==
  ASSUME NEW i \in 1..2
  PROVE  /\ StatusSteps[i] \in {"open", "look"}
         /\ StatusSteps[i] = "open" => i = 1
         /\ StatusSteps[i] = "look" => i = 2
  <1>1. i = 1 \/ i = 2
    OBVIOUS
  <1> QED BY <1>1, ShortTables

LEMMA InstallPlaces ==
  ASSUME NEW i \in 1..12
  PROVE  /\ InstallSteps[i] \in {"open", "look", "lock", "flock", "scope", "relook",
                                 "temp", "rename", "confirm", "sync", "final"}
         /\ InstallSteps[i] = "open" => i = 1
         /\ InstallSteps[i] = "look" => i = 2
         /\ InstallSteps[i] = "lock" => i = 3
         /\ InstallSteps[i] = "flock" => i = 4
         /\ InstallSteps[i] = "scope" => i \in {5, 8}
         /\ InstallSteps[i] = "relook" => i = 6
         /\ InstallSteps[i] = "temp" => i = 7
         /\ InstallSteps[i] = "rename" => i = 9
         /\ InstallSteps[i] = "confirm" => i = 10
         /\ InstallSteps[i] = "sync" => i = 11
         /\ InstallSteps[i] = "final" => i = 12
  <1>1. i = 1 \/ i = 2 \/ i = 3 \/ i = 4 \/ i = 5 \/ i = 6 \/ i = 7 \/ i = 8 \/ i = 9
       \/ i = 10 \/ i = 11 \/ i = 12
    OBVIOUS
  <1> QED BY <1>1, ShortTables

LEMMA UninstallPlaces ==
  ASSUME NEW i \in 1..10
  PROVE  /\ UninstallSteps[i] \in {"open", "lock", "flock", "scope", "examine",
                                   "examined", "unlink", "observe", "sync"}
         /\ UninstallSteps[i] = "open" => i = 1
         /\ UninstallSteps[i] = "lock" => i = 2
         /\ UninstallSteps[i] = "flock" => i = 3
         /\ UninstallSteps[i] = "scope" => i = 4
         /\ UninstallSteps[i] = "examine" => i = 5
         /\ UninstallSteps[i] = "examined" => i = 6
         /\ UninstallSteps[i] = "unlink" => i = 7
         /\ UninstallSteps[i] = "observe" => i \in {8, 10}
         /\ UninstallSteps[i] = "sync" => i = 9
  <1>1. i = 1 \/ i = 2 \/ i = 3 \/ i = 4 \/ i = 5 \/ i = 6 \/ i = 7 \/ i = 8 \/ i = 9
       \/ i = 10
    OBVIOUS
  <1> QED BY <1>1, ShortTables

LEMMA RequestPlaces ==
  ASSUME NEW i \in 1..13
  PROVE  /\ RequestSteps[i] \in {"open", "stat", "lock", "flock", "guard", "owner",
                                 "load", "match", "same owner", "request"}
         /\ RequestSteps[i] = "open" => i = 1
         /\ RequestSteps[i] = "stat" => i = 2
         /\ RequestSteps[i] = "lock" => i = 3
         /\ RequestSteps[i] = "flock" => i = 4
         /\ RequestSteps[i] = "guard" => i \in {5, 9, 11, 13}
         /\ RequestSteps[i] = "owner" => i = 6
         /\ RequestSteps[i] = "load" => i = 7
         /\ RequestSteps[i] = "match" => i = 8
         /\ RequestSteps[i] = "same owner" => i = 10
         /\ RequestSteps[i] = "request" => i = 12
  <1>1. i = 1 \/ i = 2 \/ i = 3 \/ i = 4 \/ i = 5 \/ i = 6 \/ i = 7 \/ i = 8 \/ i = 9
       \/ i = 10 \/ i = 11 \/ i = 12 \/ i = 13
    OBVIOUS
  <1> QED BY <1>1, RequestTable

LEMMA ObservePlaces ==
  ASSUME NEW i \in 1..11
  PROVE  /\ ObserveSteps[i] \in {"open", "stat", "lock", "flock", "guard", "owner",
                                 "lookup", "match", "same owner", "report"}
         /\ ObserveSteps[i] = "open" => i = 1
         /\ ObserveSteps[i] = "stat" => i = 2
         /\ ObserveSteps[i] = "lock" => i = 3
         /\ ObserveSteps[i] = "flock" => i = 4
         /\ ObserveSteps[i] = "guard" => i = 5
         /\ ObserveSteps[i] = "owner" => i = 6
         /\ ObserveSteps[i] = "lookup" => i \in {7, 9}
         /\ ObserveSteps[i] = "match" => i = 8
         /\ ObserveSteps[i] = "same owner" => i = 10
         /\ ObserveSteps[i] = "report" => i = 11
  <1>1. i = 1 \/ i = 2 \/ i = 3 \/ i = 4 \/ i = 5 \/ i = 6 \/ i = 7 \/ i = 8 \/ i = 9
       \/ i = 10 \/ i = 11
    OBVIOUS
  <1> QED BY <1>1, ObserveTable

LEMMA LinkPlaces ==
  ASSUME NEW i \in 1..19
  PROVE  /\ LinkSteps[i] \in {"open", "stat", "lock", "flock", "guard", "owner",
                              "load", "match", "wants", "same owner", "open link",
                              "same link", "change", "changed", "sync"}
         /\ LinkSteps[i] = "open" => i = 1
         /\ LinkSteps[i] = "stat" => i = 2
         /\ LinkSteps[i] = "lock" => i = 3
         /\ LinkSteps[i] = "flock" => i = 4
         /\ LinkSteps[i] = "guard" => i \in {5, 9, 12}
         /\ LinkSteps[i] = "owner" => i = 6
         /\ LinkSteps[i] = "load" => i = 7
         /\ LinkSteps[i] = "match" => i = 8
         /\ LinkSteps[i] = "wants" => i = 10
         /\ LinkSteps[i] = "same owner" => i \in {11, 18}
         /\ LinkSteps[i] = "open link" => i = 13
         /\ LinkSteps[i] = "same link" => i = 14
         /\ LinkSteps[i] = "change" => i = 15
         /\ LinkSteps[i] = "changed" => i \in {16, 19}
         /\ LinkSteps[i] = "sync" => i = 17
  <1>1. i = 1 \/ i = 2 \/ i = 3 \/ i = 4 \/ i = 5 \/ i = 6 \/ i = 7 \/ i = 8 \/ i = 9
       \/ i = 10 \/ i = 11 \/ i = 12 \/ i = 13 \/ i = 14 \/ i = 15 \/ i = 16 \/ i =
       17 \/ i = 18 \/ i = 19
    OBVIOUS
  <1>2. CASE i = 1 \/ i = 2 \/ i = 3 \/ i = 4 \/ i = 5
    BY <1>2, LinkTable, ZenonT(60)
  <1>3. CASE i = 6 \/ i = 7 \/ i = 8 \/ i = 9 \/ i = 10
    BY <1>3, LinkTable, ZenonT(60)
  <1>4. CASE i = 11 \/ i = 12 \/ i = 13 \/ i = 14 \/ i = 15
    BY <1>4, LinkTable, ZenonT(60)
  <1>5. CASE i = 16 \/ i = 17 \/ i = 18 \/ i = 19
    BY <1>5, LinkTable
  <1> QED BY <1>1, <1>2, <1>3, <1>4, <1>5

LEMMA Lens ==
  ASSUME NEW a \in AllActions
  PROVE  Len(Steps(a)) = CASE a = "status" -> 2 [] a = "install" -> 12 [] a = "uninstall" -> 10
                           [] a = "request" -> 13 [] a = "observe" -> 11 [] OTHER -> 19
  BY ShortTables, RequestTable, ObserveTable, LinkTable, ZenonT(60) DEF AllActions, Guarded, Steps

\* The step that a command is at tells its function and its place.
LEMMA Places ==
  ASSUME NEW a \in AllActions, NEW i \in 1..Len(Steps(a))
  PROVE  /\ Steps(a)[i] = "open" => i = 1
         /\ Steps(a)[i] = "look" => a \in {"status", "install"} /\ i = 2
         /\ Steps(a)[i] = "lock" => \/ a \in {"install", "request", "observe", "enable", "disable"} /\ i = 3
                                    \/ a = "uninstall" /\ i = 2
         /\ Steps(a)[i] = "flock" => \/ a \in {"install", "request", "observe", "enable", "disable"} /\ i = 4
                                     \/ a = "uninstall" /\ i = 3
         /\ Steps(a)[i] = "scope" => \/ a = "install" /\ i \in {5, 8}
                                     \/ a = "uninstall" /\ i = 4
         /\ Steps(a)[i] = "relook" => a = "install" /\ i = 6
         /\ Steps(a)[i] = "temp" => a = "install" /\ i = 7
         /\ Steps(a)[i] = "rename" => a = "install" /\ i = 9
         /\ Steps(a)[i] = "confirm" => a = "install" /\ i = 10
         /\ Steps(a)[i] = "sync" => \/ a = "install" /\ i = 11
                                    \/ a = "uninstall" /\ i = 9
                                    \/ a \in {"enable", "disable"} /\ i = 17
         /\ Steps(a)[i] = "final" => a = "install" /\ i = 12
         /\ Steps(a)[i] = "examine" => a = "uninstall" /\ i = 5
         /\ Steps(a)[i] = "examined" => a = "uninstall" /\ i = 6
         /\ Steps(a)[i] = "unlink" => a = "uninstall" /\ i = 7
         /\ Steps(a)[i] = "observe" => a = "uninstall" /\ i \in {8, 10}
         /\ Steps(a)[i] = "stat" => a \in Guarded /\ i = 2
         /\ Steps(a)[i] = "guard" => \/ a = "request" /\ i \in {5, 9, 11, 13}
                                     \/ a = "observe" /\ i = 5
                                     \/ a \in {"enable", "disable"} /\ i \in {5, 9, 12}
         /\ Steps(a)[i] = "owner" => a \in Guarded /\ i = 6
         /\ Steps(a)[i] = "load" => a \in {"request", "enable", "disable"} /\ i = 7
         /\ Steps(a)[i] = "match" => a \in Guarded /\ i = 8
         /\ Steps(a)[i] = "same owner" => \/ a \in {"request", "observe"} /\ i = 10
                                          \/ a \in {"enable", "disable"} /\ i \in {11, 18}
         /\ Steps(a)[i] = "request" => a = "request" /\ i = 12
         /\ Steps(a)[i] = "lookup" => a = "observe" /\ i \in {7, 9}
         /\ Steps(a)[i] = "report" => a = "observe" /\ i = 11
         /\ Steps(a)[i] = "wants" => a \in {"enable", "disable"} /\ i = 10
         /\ Steps(a)[i] = "open link" => a \in {"enable", "disable"} /\ i = 13
         /\ Steps(a)[i] = "same link" => a \in {"enable", "disable"} /\ i = 14
         /\ Steps(a)[i] = "change" => a \in {"enable", "disable"} /\ i = 15
         /\ Steps(a)[i] = "changed" => a \in {"enable", "disable"} /\ i \in {16, 19}
  <1> USE Lens DEF AllActions, Guarded
  <1>1. CASE a = "status"
    <2>1. Steps(a) = StatusSteps /\ i \in 1..2
      BY <1>1 DEF Steps
    <2> QED BY <1>1, <2>1, StatusPlaces
  <1>2. CASE a = "install"
    <2>1. Steps(a) = InstallSteps /\ i \in 1..12
      BY <1>2 DEF Steps
    <2> QED BY <1>2, <2>1, InstallPlaces
  <1>3. CASE a = "uninstall"
    <2>1. Steps(a) = UninstallSteps /\ i \in 1..10
      BY <1>3 DEF Steps
    <2> QED BY <1>3, <2>1, UninstallPlaces
  <1>4. CASE a = "request"
    <2>1. Steps(a) = RequestSteps /\ i \in 1..13
      BY <1>4 DEF Steps
    <2> QED BY <1>4, <2>1, RequestPlaces
  <1>5. CASE a = "observe"
    <2>1. Steps(a) = ObserveSteps /\ i \in 1..11
      BY <1>5 DEF Steps
    <2> QED BY <1>5, <2>1, ObservePlaces
  <1>6. CASE a \in {"enable", "disable"}
    <2>1. Steps(a) = LinkSteps /\ i \in 1..19
      BY <1>6 DEF Steps
    <2> QED BY <1>6, <2>1, LinkPlaces
  <1> QED BY <1>1, <1>2, <1>3, <1>4, <1>5, <1>6
-----------------------------------------------------------------------------
(* Steps of one command, seen by itself and by the others.                 *)

LEMMA PlaceOf ==
  ASSUME WorldOK, NEW c \in Commands, ControlOK(cmd[c]), Running(c)
  PROVE  /\ cmd[c].action \in AllActions /\ cmd[c].pc \in 1..Len(Steps(cmd[c].action))
         /\ cmd[c] \in Records
         /\ cmd[c].pc > 1 => cmd[c].dir \in 1..Len(dirs)
  <1>1. cmd[c] \in Records /\ cmd[c].action \in AllActions
    BY DEF WorldOK, Records, Running
  <1>2. Len(Steps(cmd[c].action)) \in Nat
    BY <1>1, Lens DEF AllActions, Guarded
  <1>3. cmd[c].pc \in Nat /\ cmd[c].pc >= 1 /\ cmd[c].pc <= Len(Steps(cmd[c].action))
    BY <1>1, <1>2 DEF ControlOK, Running, Records, LockedFrom
  <1> QED BY <1>1, <1>2, <1>3 DEF ControlOK, Running

\* The record of c becomes k, but for its place and how it ends.
Moved(c, k, pc, over, ok) ==
  /\ cmd' \in [Commands -> Records]
  /\ \A o \in Commands \ {c} : cmd'[o] = cmd[o]
  /\ cmd'[c].pc = pc /\ (cmd'[c].over <=> over) /\ (cmd'[c].ok <=> ok)
  /\ cmd'[c].action = k.action /\ cmd'[c].want = k.want /\ cmd'[c].dir = k.dir
  /\ cmd'[c].lock = k.lock /\ cmd'[c].held = k.held /\ cmd'[c].file = k.file
  /\ cmd'[c].stamp = k.stamp /\ cmd'[c].link = k.link /\ cmd'[c].temp = k.temp
  /\ cmd'[c].owner = k.owner /\ cmd'[c].status = k.status /\ cmd'[c].did = k.did
  /\ cmd'[c].clean = k.clean /\ cmd'[c].src = k.src

LEMMA GoMoved ==
  ASSUME cmd \in [Commands -> Records], NEW c \in Commands, NEW k \in Records, Go(c, k)
  PROVE  Moved(c, k, k.pc + 1, k.pc = Len(Steps(k.action)), k.ok)
  <1>1. k.pc + 1 \in Nat
    BY DEF Records
  <1>2. CASE k.pc = Len(Steps(k.action))
    <2>1. cmd' = [cmd EXCEPT ![c] = [k EXCEPT !.pc = @ + 1, !.over = TRUE]]
      BY <1>2 DEF Go
    <2> QED BY <1>1, <1>2, <2>1 DEF Moved, Records
  <1>3. CASE k.pc # Len(Steps(k.action))
    <2>1. cmd' = [cmd EXCEPT ![c] = [k EXCEPT !.pc = @ + 1, !.over = FALSE]]
      BY <1>3 DEF Go
    <2> QED BY <1>1, <1>3, <2>1 DEF Moved, Records
  <1> QED BY <1>2, <1>3

LEMMA EndMoved ==
  ASSUME cmd \in [Commands -> Records], NEW c \in Commands, NEW k \in Records, End(c, k)
  PROVE  Moved(c, k, k.pc, TRUE, k.ok)
  BY DEF End, Moved, Records

LEMMA FailMoved ==
  ASSUME cmd \in [Commands -> Records], NEW c \in Commands, NEW k \in Records, Fail(c, k)
  PROVE  Moved(c, k, k.pc, TRUE, FALSE)
  BY DEF Fail, End, Moved, Records

\* Files are only added, lose their names for good, and show every edit.
Grows ==
  /\ Len(files) <= Len(files') /\ Len(dirs) <= Len(dirs')
  /\ \A f \in 1..Len(files) :
       /\ files[f].stamp <= files'[f].stamp
       /\ files'[f].stamp = files[f].stamp => files'[f].content = files[f].content
       /\ ~files[f].linked => ~files'[f].linked

\* What command o may have checked is still there.
Still(o) ==
  /\ named' = named
  /\ \A d \in 1..Len(dirs) : d = cmd[o].dir =>
       dirs'[d].desc = dirs[d].desc /\ dirs'[d].lock = dirs[d].lock /\ dirs'[d].link = dirs[d].link
  /\ \A f \in 1..Len(files) :
       files'[f].content = files[f].content /\ files'[f].stamp = files[f].stamp

\* A command that takes no step itself.
Waits(o) ==
  LET k == cmd[o]
      r == cmd'[o]
  IN /\ r.action = k.action /\ r.want = k.want /\ r.pc = k.pc /\ (r.over <=> k.over)
     /\ r.dir = k.dir /\ r.lock = k.lock /\ (r.held <=> k.held) /\ r.file = k.file
     /\ r.stamp = k.stamp /\ r.link = k.link /\ (r.temp <=> k.temp) /\ r.owner = k.owner
     /\ r.status = k.status /\ (r.ok <=> k.ok) /\ (r.did <=> k.did) /\ r.src = k.src
     /\ k = Idle => r = Idle

\* A command whose checks count has its directory open and its lock held.
LEMMA ScopedHere ==
  ASSUME NEW o \in Commands, cmd[o] \in Records, ControlOK(cmd[o]), Scoped(o)
  PROVE  /\ cmd[o].dir \in 1..Len(dirs) /\ cmd[o].lock \in 1..Len(files)
         /\ cmd[o].action \in AllActions \ {"status"} /\ cmd[o].held
  <1>1. cmd[o].held /\ cmd[o].action # "none"
    BY DEF Scoped, ControlOK, Idle, LockedFrom, Records
  <1>2. cmd[o].action # "status" /\ cmd[o].pc >= 4 /\ cmd[o].pc \in Nat
        /\ cmd[o].pc >= LockedFrom(cmd[o].action)
    BY <1>1 DEF ControlOK, LockedFrom, Records
  <1>3. cmd[o].pc >= LockedFrom(cmd[o].action) - 1
    BY <1>2 DEF LockedFrom
  <1> QED BY <1>1, <1>2, <1>3 DEF ControlOK, Records, LockedFrom

LEMMA WaitsOK ==
  ASSUME WorldOK, WorldOK', Grows, NEW o \in Commands, CommandOK(o), Waits(o),
         cmd'[o].clean => cmd[o].clean /\ (Scoped(o) => Still(o))
  PROVE  CommandOK(o)'
  <1>1. /\ cmd[o] \in Records /\ cmd'[o] \in Records
        /\ Len(files) \in Nat /\ Len(dirs) \in Nat /\ Len(files') \in Nat /\ Len(dirs') \in Nat
    BY DEF WorldOK
  <1>0. \A f \in 1..Len(files) : files[f].stamp \in Nat /\ files'[f].stamp \in Nat
    <2> TAKE f \in 1..Len(files)
    <2>1. f \in 1..Len(files')
      BY <1>1 DEF Grows
    <2>2. files[f] \in Files /\ files'[f] \in Files
      BY <2>1 DEF WorldOK
    <2> QED BY <2>2 DEF Files
  <1>2. ControlOK(cmd[o])'
    BY <1>1 DEF CommandOK, ControlOK, Waits, Grows, LockedFrom
  <1>3. DidOK(cmd[o])'
    BY DEF CommandOK, DidOK, Waits
  <1>4. FileOK(cmd[o])'
    <2>1. cmd[o].stamp \in Nat
      BY <1>1 DEF Records
    <2>2. ASSUME cmd[o].action = "uninstall", cmd[o].pc >= 6
          PROVE  /\ cmd[o].file \in 1..Len(files') /\ cmd[o].stamp <= files'[cmd[o].file].stamp
                 /\ cmd[o].stamp = files'[cmd[o].file].stamp =>
                      files'[cmd[o].file].content = cmd[o].want
                 /\ ~files[cmd[o].file].linked => ~files'[cmd[o].file].linked
      <3>1. /\ cmd[o].file \in 1..Len(files) /\ cmd[o].stamp <= files[cmd[o].file].stamp
            /\ cmd[o].stamp = files[cmd[o].file].stamp =>
                 files[cmd[o].file].content = cmd[o].want
        BY <2>2 DEF CommandOK, FileOK
      <3>2. /\ cmd[o].file \in 1..Len(files')
            /\ files[cmd[o].file].stamp \in Nat /\ files'[cmd[o].file].stamp \in Nat
        BY <1>0, <1>1, <3>1 DEF Grows
      <3>3. /\ files[cmd[o].file].stamp <= files'[cmd[o].file].stamp
            /\ files'[cmd[o].file].stamp = files[cmd[o].file].stamp =>
                 files'[cmd[o].file].content = files[cmd[o].file].content
            /\ ~files[cmd[o].file].linked => ~files'[cmd[o].file].linked
        BY <3>1 DEF Grows
      <3>4. cmd[o].stamp <= files'[cmd[o].file].stamp
        BY <2>1, <3>1, <3>2, <3>3
      <3>5. cmd[o].stamp = files'[cmd[o].file].stamp =>
              files'[cmd[o].file].stamp = files[cmd[o].file].stamp
        BY <2>1, <3>1, <3>2, <3>3
      <3> QED BY <3>1, <3>2, <3>3, <3>4, <3>5
    <2>3. cmd[o].pc \in Nat
      BY <1>1 DEF Records
    <2> QED BY <2>2, <2>3 DEF CommandOK, FileOK, Waits
  <1>5. DoneOK(cmd[o])'
    BY DEF CommandOK, DoneOK, Waits
  <1>6. CleanOK(o)'
    <2> SUFFICES ASSUME Scoped(o)' PROVE CleanOK(o)'
      BY DEF CleanOK
    <2>1. Scoped(o) /\ Still(o)
      BY DEF Scoped, Waits, ScopedFrom, LockedFrom
    <2>2. cmd[o].dir \in 1..Len(dirs)
      BY <1>1, <2>1, ScopedHere DEF CommandOK
    <2>3. /\ Here(o)'.desc = Here(o).desc /\ Here(o)'.lock = Here(o).lock
          /\ Here(o)'.link = Here(o).link
      BY <2>1, <2>2 DEF Still, Here, Waits
    <2>4. Here(o).desc \in 0..Len(files) /\ Here(o).link \in 0..Len(files)
      BY <2>2 DEF WorldOK, Here
    <2>5. ScopeCheck(o)' <=> ScopeCheck(o)
      BY <2>1, <2>3 DEF ScopeCheck, ChainCheck, LockCheck, Still, Waits
    <2>6. (ReadArtifact(o) = "exact")' <=> ReadArtifact(o) = "exact"
      BY <1>1, <2>1, <2>3, <2>4 DEF ReadArtifact, Still, Waits
    <2>7. SameFile(o)' <=> SameFile(o)
      BY <1>1, <2>1, <2>3, <2>4 DEF SameFile, Still, Waits
    <2>8. ASSUME Here(o).link # 0
          PROVE  files'[Here(o).link].content = files[Here(o).link].content
      BY <1>1, <2>1, <2>4, <2>8 DEF Still
    <2> QED
      BY <2>1, <2>3, <2>5, <2>6, <2>7, <2>8 DEF CommandOK, CleanOK, GuardCheck, Done, Waits
  <1> QED BY <1>2, <1>3, <1>4, <1>5, <1>6 DEF CommandOK

-----------------------------------------------------------------------------
(* A step of one command keeps the invariant when it keeps its own part.   *)

LEMMA TempsInNat ==
  ASSUME WorldOK, NEW d \in 1..Len(dirs)
  PROVE  /\ IsFiniteSet({o \in Commands : cmd[o].dir = d /\ cmd[o].temp})
         /\ Cardinality({o \in Commands : cmd[o].dir = d /\ cmd[o].temp}) \in Nat
         /\ dirs[d].left \in Nat /\ Temps(d) \in Nat
  <1> DEFINE T == {o \in Commands : cmd[o].dir = d /\ cmd[o].temp}
  <1>1. T \subseteq Commands
    OBVIOUS
  <1>2. IsFiniteSet(T)
    BY <1>1, ServiceCommandsAssumption, FS_Subset
  <1>3. Cardinality(T) \in Nat
    BY <1>2, FS_CardinalityType
  <1>4. dirs[d] \in Dirs
    BY DEF WorldOK
  <1>5. dirs[d].left \in Nat
    BY <1>4 DEF Dirs
  <1> HIDE DEF T
  <1>6. dirs[d].left + Cardinality(T) \in Nat
    BY <1>3, <1>5
  <1> QED BY <1>2, <1>3, <1>5, <1>6 DEF T, Temps

\* No directory gains a temporary name.
LEMMA TempsFewer ==
  ASSUME ServiceInv, WorldOK', NEW c \in Commands, Len(dirs) <= Len(dirs'),
         \A d \in 1..Len(dirs) : dirs'[d].left = dirs[d].left,
         \A d \in 1..Len(dirs') : d > Len(dirs) => dirs'[d].left = 0,
         \A o \in Commands \ {c} : Waits(o),
         cmd'[c].temp => cmd[c].temp /\ cmd'[c].dir = cmd[c].dir
  PROVE  TempsOK'
  <1>1. SUFFICES ASSUME NEW d \in 1..Len(dirs') PROVE Temps(d)' <= TempLimit
    BY DEF TempsOK
  <1> DEFINE T == {o \in Commands : cmd[o].dir = d /\ cmd[o].temp}
             U == {o \in Commands : cmd'[o].dir = d /\ cmd'[o].temp}
  <1>2. Len(dirs) \in Nat /\ Len(dirs') \in Nat /\ TempLimit \in Nat
    BY ServiceCommandsAssumption DEF ServiceInv, WorldOK
  <1>3. U \subseteq T
    BY DEF Waits
  <1>4. CASE d <= Len(dirs)
    <2>1. d \in 1..Len(dirs)
      BY <1>2, <1>4
    <2>2. IsFiniteSet(T) /\ Cardinality(T) \in Nat /\ dirs[d].left \in Nat
      BY <2>1, TempsInNat DEF ServiceInv
    <2>3. Cardinality(U) <= Cardinality(T) /\ IsFiniteSet(U)
      BY <1>3, <2>2, FS_Subset
    <2>4. Cardinality(U) \in Nat
      BY <2>3, FS_CardinalityType
    <2>5. dirs[d].left + Cardinality(T) <= TempLimit
      BY <2>1 DEF ServiceInv, TempsOK, Temps
    <2>6. dirs'[d].left = dirs[d].left
      BY <2>1
    <2> HIDE DEF T, U
    <2>7. dirs'[d].left + Cardinality(U) <= TempLimit
      BY <1>2, <2>2, <2>3, <2>4, <2>5, <2>6
    <2> QED BY <2>7 DEF U, Temps
  <1>5. CASE d > Len(dirs)
    <2>1. T = {}
      <3> SUFFICES ASSUME NEW o \in Commands, cmd[o].dir = d, cmd[o].temp PROVE FALSE
        OBVIOUS
      <3>1. cmd[o] \in Records /\ ControlOK(cmd[o])
        BY DEF ServiceInv, WorldOK, CommandOK
      <3>2. cmd[o].action # "none"
        BY <3>1 DEF ControlOK, Idle
      <3>3. cmd[o].pc > 1 /\ cmd[o].dir \in 1..Len(dirs)
        BY <3>1, <3>2 DEF ControlOK
      <3> QED BY <1>2, <1>5, <3>3
    <2>2. U = {}
      BY <1>3, <2>1
    <2>3. Cardinality(U) = 0
      BY <2>2, FS_EmptySet
    <2>4. dirs'[d].left = 0
      BY <1>5
    <2> HIDE DEF U
    <2>5. dirs'[d].left + Cardinality(U) <= TempLimit
      BY <1>2, <2>3, <2>4, ServiceCommandsAssumption
    <2> QED BY <2>5 DEF U, Temps
  <1> QED BY <1>2, <1>4, <1>5

LEMMA StepInv ==
  ASSUME ServiceInv, WorldOK', Grows, TempsOK', NEW c \in Commands, CommandOK(c)',
         \A o \in Commands \ {c} :
           Waits(o) /\ (cmd'[o].clean => cmd[o].clean /\ (Scoped(o) => Still(o))),
         cmd'[c].held => cmd'[c].lock = cmd[c].lock /\ (cmd[c].held \/ LockFree(c))
  PROVE  ServiceInv'
  <1>1. \A o \in Commands : CommandOK(o)'
    <2> TAKE o \in Commands
    <2>1. CASE o # c
      BY <2>1, WaitsOK DEF ServiceInv
    <2> QED BY <2>1
  <1>2. Exclusive'
    <2> SUFFICES ASSUME NEW a \in Commands, NEW o \in Commands, a # o,
                        cmd'[a].held, cmd'[o].held
                 PROVE  cmd'[a].lock # cmd'[o].lock
      BY DEF Exclusive
    <2>1. ASSUME NEW e \in Commands, e # c
          PROVE  (cmd'[e].held <=> cmd[e].held) /\ cmd'[e].lock = cmd[e].lock
      BY <2>1 DEF Waits
    <2>2. CASE a # c /\ o # c
      BY <2>1, <2>2 DEF ServiceInv, Exclusive
    <2>3. CASE a = c
      BY <2>1, <2>3 DEF ServiceInv, Exclusive, LockFree
    <2>4. CASE o = c
      BY <2>1, <2>4 DEF ServiceInv, Exclusive, LockFree
    <2> QED BY <2>2, <2>3, <2>4
  <1> QED BY <1>1, <1>2 DEF ServiceInv

\* The same for a step that changes no file, directory or path.
LEMMA PureStep ==
  ASSUME ServiceInv, NEW c \in Commands, UNCHANGED <<files, dirs, named>>,
         mgr' \in Managers, runs' \in Nat, edits' \in Nat,
         cmd' \in [Commands -> Records], \A o \in Commands \ {c} : cmd'[o] = cmd[o],
         cmd'[c].held => cmd'[c].lock = cmd[c].lock /\ (cmd[c].held \/ LockFree(c)),
         TempsOK', CommandOK(c)'
  PROVE  ServiceInv'
  <1>1. WorldOK'
    BY DEF ServiceInv, WorldOK
  <1>0. Len(files) \in Nat /\ Len(dirs) \in Nat
    BY DEF ServiceInv, WorldOK
  <1>2. Grows
    <2>1. \A f \in 1..Len(files) : files[f].stamp <= files'[f].stamp
      <3> TAKE f \in 1..Len(files)
      <3>1. files[f] \in Files
        BY DEF ServiceInv, WorldOK
      <3> QED BY <3>1 DEF Files
    <2> QED BY <1>0, <2>1 DEF Grows
  <1>3. \A o \in Commands \ {c} :
          Waits(o) /\ (cmd'[o].clean => cmd[o].clean /\ (Scoped(o) => Still(o)))
    BY DEF Waits, Still
  <1> QED BY <1>1, <1>2, <1>3, StepInv

LEMMA PureTemps ==
  ASSUME ServiceInv, NEW c \in Commands, UNCHANGED <<files, dirs, named>>,
         mgr' \in Managers, runs' \in Nat, edits' \in Nat,
         cmd' \in [Commands -> Records], \A o \in Commands \ {c} : cmd'[o] = cmd[o],
         cmd'[c].temp => cmd[c].temp /\ cmd'[c].dir = cmd[c].dir
  PROVE  TempsOK'
  <1>1. WorldOK'
    BY DEF ServiceInv, WorldOK
  <1>2. Len(dirs) \in Nat
    BY DEF ServiceInv, WorldOK
  <1>3. \A o \in Commands \ {c} : Waits(o)
    BY DEF Waits
  <1>4. /\ Len(dirs) <= Len(dirs')
        /\ \A d \in 1..Len(dirs) : dirs'[d].left = dirs[d].left
        /\ \A d \in 1..Len(dirs') : d > Len(dirs) => dirs'[d].left = 0
    BY <1>2
  <1> QED BY <1>1, <1>3, <1>4, TempsFewer

-----------------------------------------------------------------------------
(* Steps that only read: how a command goes on, ends or fails.             *)

\* What a check does not change in the record of a command.
SameHold(c, k) ==
  /\ k \in Records /\ k.action = cmd[c].action /\ k.want = cmd[c].want /\ k.pc = cmd[c].pc
  /\ k.dir = cmd[c].dir /\ k.lock = cmd[c].lock /\ (k.held <=> cmd[c].held)
  /\ (k.temp <=> cmd[c].temp)

\* What a check leaves alone around it.
Reads ==
  /\ UNCHANGED <<files, dirs, named>>
  /\ mgr' \in Managers /\ runs' \in Nat /\ edits' \in Nat

LEMMA ReadsWorld ==
  ASSUME ServiceInv, UNCHANGED world
  PROVE  Reads
  BY DEF ServiceInv, WorldOK, Reads, world

\* The words that claim nothing about effects.
Plain == {"uncertain", "unknown", "changed", "absent", "exact"}

\* What the record of c says of its effects is what k says, at place pc.
Says(c, k, pc) ==
  /\ cmd'[c] \in Records /\ cmd'[c].pc = pc /\ cmd'[c].action = k.action
  /\ cmd'[c].want = k.want /\ (cmd'[c].did <=> k.did) /\ cmd'[c].status = k.status
  /\ cmd'[c].file = k.file /\ cmd'[c].stamp = k.stamp

\* What a command may say after a step that only reads.
Words(c, k) ==
  \/ k.status = cmd[c].status \/ k.status \in Plain
  \/ k.status = "removed" /\ k.action = "uninstall" /\ cmd[c].pc >= 8 /\ ~files[k.file].linked

LEMMA DidGoes ==
  ASSUME WorldOK, NEW c \in Commands, DidOK(cmd[c]), NEW k \in Records, NEW pc \in Nat,
         Says(c, k, pc), cmd[c].pc <= pc,
         k.action = cmd[c].action, k.did <=> cmd[c].did,
         Words(c, k)
  PROVE  DidOK(cmd'[c])
  <1>1. cmd[c] \in Records /\ cmd'[c] \in Records
    BY DEF WorldOK, Says
  <1>2. cmd[c].pc \in Nat /\ cmd[c].action \in AllActions \cup {"none"}
    BY <1>1 DEF Records
  <1>3. cmd'[c].did => cmd'[c].status \notin {"not_requested", "not_needed"}
    BY DEF DidOK, Says, Plain, Words
  <1>4. cmd[c].did => cmd'[c].pc >= CASE cmd'[c].action = "install" -> 9
                           [] cmd'[c].action = "uninstall" -> 8
                           [] cmd'[c].action = "request" -> 12
                           [] cmd'[c].action \in {"enable", "disable"} -> 15
                           [] OTHER -> 99
    BY <1>2 DEF DidOK, Says, AllActions, Guarded
  <1>5. cmd'[c].status = cmd[c].status \/ cmd'[c].status \in Plain \cup {"removed"}
    BY DEF Says, Words
  <1>6. /\ cmd'[c].status = "saved" => cmd'[c].pc >= 11
        /\ cmd'[c].status = "accepted" => cmd'[c].action = "request" /\ cmd'[c].did
        /\ cmd'[c].status = "observed" => cmd'[c].action = "observe" /\ cmd'[c].pc >= 9
    BY <1>2, <1>5 DEF DidOK, Says, Plain
  <1>7. cmd'[c].did => cmd[c].did
    BY DEF Says
  <1> QED BY <1>3, <1>4, <1>6, <1>7 DEF DidOK

LEMMA FileGoes ==
  ASSUME WorldOK, NEW c \in Commands, FileOK(cmd[c]), NEW k \in Records, NEW pc \in Nat,
         Says(c, k, pc), cmd[c].pc <= pc, Reads,
         k.action = cmd[c].action, k.want = cmd[c].want,
         k.action = "uninstall" => k.file = cmd[c].file /\ k.stamp = cmd[c].stamp,
         k.action = "uninstall" /\ pc >= 6 => cmd[c].pc >= 6,
         Words(c, k)
  PROVE  FileOK(cmd[c])'
  <1>1. cmd[c].pc \in Nat
    BY DEF WorldOK, Records
  <1>2. k.status = "removed" =>
          k.action = "uninstall" /\ pc >= 8 /\ ~files[k.file].linked
    BY <1>1 DEF FileOK, Plain, Words
  <1>3. UNCHANGED files
    BY DEF Reads
  <1> QED BY <1>2, <1>3 DEF FileOK, Says

LEMMA SomeSteps ==
  ASSUME NEW a \in AllActions
  PROVE  /\ Len(Steps(a)) \in Nat /\ 1 <= Len(Steps(a))
         /\ a = "install" => Len(Steps(a)) = 12
  <1>1. Len(Steps(a)) = CASE a = "status" -> 2 [] a = "install" -> 12 [] a = "uninstall" -> 10
                          [] a = "request" -> 13 [] a = "observe" -> 11 [] OTHER -> 19
    BY Lens
  <1> DEFINE n == Len(Steps(a))
  <1>2. /\ n = 2 \/ n = 12 \/ n = 10 \/ n = 13 \/ n = 11 \/ n = 19
        /\ a = "install" => n = 12
    BY <1>1
  <1> HIDE DEF n
  <1>3. n \in Nat /\ 1 <= n /\ (a = "install" => n = 12)
    BY <1>2
  <1> QED BY <1>3 DEF n

LEMMA LongSteps ==
  ASSUME NEW a \in AllActions, a # "status"
  PROVE  Len(Steps(a)) >= 10 /\ Len(Steps(a)) \in Nat
  <1>1. Len(Steps(a)) = CASE a = "status" -> 2 [] a = "install" -> 12 [] a = "uninstall" -> 10
                          [] a = "request" -> 13 [] a = "observe" -> 11 [] OTHER -> 19
    BY Lens
  <1> DEFINE n == Len(Steps(a))
  <1>2. n = 12 \/ n = 10 \/ n = 13 \/ n = 11 \/ n = 19
    BY <1>1
  <1> HIDE DEF n
  <1>3. n >= 10 /\ n \in Nat
    BY <1>2
  <1> QED BY <1>3 DEF n

\* The last place of each function.
LEMMA LastPlace ==
  ASSUME NEW a \in AllActions, NEW i, i = Len(Steps(a))
  PROVE  \/ a = "status" /\ i = 2
         \/ a = "install" /\ i = 12
         \/ a = "uninstall" /\ i = 10
         \/ a = "request" /\ i = 13
         \/ a = "observe" /\ i = 11
         \/ a \in {"enable", "disable"} /\ i = 19
  <1>1. i = CASE a = "status" -> 2 [] a = "install" -> 12 [] a = "uninstall" -> 10
              [] a = "request" -> 13 [] a = "observe" -> 11 [] OTHER -> 19
    BY Lens
  <1> QED BY <1>1 DEF AllActions, Guarded

\* No function ends with these steps.
LEMMA NotLast ==
  ASSUME NEW a \in AllActions, NEW i \in 1..Len(Steps(a)),
         Steps(a)[i] \notin {"look", "final", "observe", "guard", "report", "changed"}
  PROVE  i # Len(Steps(a)) /\ i < Len(Steps(a))
  <1>1. Len(Steps(a)) \in Nat
    BY Lens DEF AllActions, Guarded
  <1>2. i # Len(Steps(a))
    <2> SUFFICES ASSUME i = Len(Steps(a)) PROVE FALSE
      OBVIOUS
    <2>1. \/ a = "status" /\ i = 2
          \/ a = "install" /\ i = 12
          \/ a = "uninstall" /\ i = 10
          \/ a = "request" /\ i = 13
          \/ a = "observe" /\ i = 11
          \/ a \in {"enable", "disable"} /\ i = 19
      BY LastPlace, SMTT(60)
    <2>2. Steps(a)[i] \in {"look", "final", "observe", "guard", "report", "changed"}
      BY <2>1, ShortTables, RequestTable, ObserveTable, LinkTable, ZenonT(60) DEF Steps
    <2> QED BY <2>2
  <1> QED BY <1>1, <1>2

LEMMA PureGoes ==
  ASSUME ServiceInv, NEW c \in Commands, Running(c), NEW k, SameHold(c, k), Go(c, k), Reads,
         cmd[c].pc > 1,
         cmd[c].action # "status" =>
           cmd[c].pc # LockedFrom(cmd[c].action) - 2 /\ cmd[c].pc # LockedFrom(cmd[c].action) - 1,
         k.action \in Guarded /\ k.pc >= 8 => k.src = k.owner,
         DidOK(cmd'[c]), FileOK(cmd[c])', CleanOK(c)'
  PROVE  ServiceInv'
  <1>1. /\ cmd \in [Commands -> Records] /\ k \in Records /\ ControlOK(cmd[c]) /\ WorldOK
        /\ DoneOK(cmd[c])
    BY DEF ServiceInv, WorldOK, CommandOK, SameHold
  <1>2. Moved(c, k, k.pc + 1, k.pc = Len(Steps(k.action)), k.ok)
    BY <1>1, GoMoved
  <1>3. /\ cmd[c].action \in AllActions /\ cmd[c].pc \in 1..Len(Steps(cmd[c].action))
        /\ cmd[c].dir \in 1..Len(dirs)
    BY <1>1, PlaceOf
  <1>4. UNCHANGED <<files, dirs, named>> /\ mgr' \in Managers /\ runs' \in Nat /\ edits' \in Nat
    BY DEF Reads
  <1>5. Len(Steps(cmd[c].action)) \in Nat
    BY <1>3, Lens DEF AllActions, Guarded
  <1>6. ControlOK(cmd[c])'
    <2>1. /\ cmd'[c].action = cmd[c].action /\ cmd'[c].action # "none"
          /\ cmd'[c].pc = cmd[c].pc + 1 /\ cmd'[c].dir = cmd[c].dir
          /\ cmd'[c].lock = cmd[c].lock /\ (cmd'[c].held <=> cmd[c].held)
          /\ (cmd'[c].temp <=> cmd[c].temp)
          /\ (cmd'[c].over <=> cmd[c].pc = Len(Steps(cmd[c].action)))
          /\ cmd'[c].src = k.src /\ cmd'[c].owner = k.owner
      BY <1>2, <1>3 DEF Moved, SameHold, AllActions, Guarded
    <2>2. cmd[c].pc \in Nat
      BY <1>3
    <2>3. /\ cmd'[c].pc \in 1..Len(Steps(cmd'[c].action)) + 1
          /\ ~cmd'[c].over => cmd'[c].pc <= Len(Steps(cmd'[c].action))
      BY <1>3, <1>5, <2>1
    <2>4. cmd'[c].action \in Guarded /\ cmd'[c].pc >= 9 => cmd'[c].src = cmd'[c].owner
      BY <2>1, <2>2 DEF SameHold
    <2>5. cmd'[c].action # "status" =>
             /\ cmd'[c].pc >= LockedFrom(cmd'[c].action) - 1 =>
                  cmd[c].pc >= LockedFrom(cmd[c].action) - 1
             /\ cmd'[c].pc >= LockedFrom(cmd'[c].action) =>
                  cmd[c].pc >= LockedFrom(cmd[c].action)
      BY <2>1, <2>2 DEF LockedFrom
    <2>6. cmd[c].pc >= LockedFrom(cmd[c].action) => cmd'[c].pc >= LockedFrom(cmd'[c].action)
      BY <2>1, <2>2 DEF LockedFrom
    <2>7. cmd'[c].action # "status" =>
             /\ cmd'[c].pc >= LockedFrom(cmd'[c].action) - 1 => cmd'[c].lock \in 1..Len(files')
             /\ cmd'[c].pc >= LockedFrom(cmd'[c].action) => cmd'[c].held
      BY <1>1, <1>3, <1>4, <2>1, <2>5 DEF ControlOK, AllActions, Guarded
    <2>8. cmd'[c].held => cmd'[c].action # "status"
                          /\ cmd'[c].pc >= LockedFrom(cmd'[c].action)
      BY <1>1, <1>3, <2>1, <2>6 DEF ControlOK, AllActions, Guarded
    <2>9. cmd'[c].pc > 1 /\ cmd'[c].dir \in 1..Len(dirs')
      BY <1>3, <1>4, <2>1, <2>2
    <2> QED BY <2>1, <2>3, <2>4, <2>7, <2>8, <2>9 DEF ControlOK
  <1>7. DoneOK(cmd'[c])
    <2> SUFFICES ASSUME cmd'[c].over, cmd'[c].action \notin {"none", "status"}
                 PROVE  cmd'[c].held /\ cmd'[c].pc >= ScopedFrom(cmd'[c].action)
      BY DEF DoneOK
    <2>1. cmd[c].pc = Len(Steps(cmd[c].action)) /\ cmd'[c].action = cmd[c].action
          /\ cmd[c].action # "status"
      BY <1>2 DEF Moved, SameHold
    <2>2. cmd[c].pc >= 10
      BY <1>3, <2>1, LongSteps
    <2>3. cmd[c].held
      BY <1>1, <1>3, <2>1, <2>2 DEF ControlOK, LockedFrom, AllActions, Guarded
    <2>4. cmd'[c].pc = cmd[c].pc + 1 /\ (cmd'[c].held <=> cmd[c].held)
      BY <1>2 DEF Moved, SameHold
    <2>5. cmd[c].pc \in Nat
      BY <1>3
    <2> QED BY <2>2, <2>3, <2>4, <2>5 DEF ScopedFrom, LockedFrom
  <1>8. /\ cmd' \in [Commands -> Records] /\ \A o \in Commands \ {c} : cmd'[o] = cmd[o]
        /\ cmd'[c].held => cmd'[c].lock = cmd[c].lock /\ cmd[c].held
        /\ cmd'[c].temp => cmd[c].temp /\ cmd'[c].dir = cmd[c].dir
    BY <1>2 DEF Moved, SameHold
  <1>9. TempsOK'
    BY <1>4, <1>8, PureTemps
  <1>10. CommandOK(c)'
    BY <1>6, <1>7 DEF CommandOK
  <1> QED BY <1>4, <1>8, <1>9, <1>10, PureStep

LEMMA PureEnds ==
  ASSUME ServiceInv, NEW c \in Commands, Running(c), NEW k, SameHold(c, k), End(c, k), Reads,
         k.action \in Guarded /\ k.pc >= 9 => k.src = k.owner,
         k.ok /\ k.action # "status" => k.held /\ k.pc >= ScopedFrom(k.action),
         DidOK(cmd'[c]), FileOK(cmd[c])', CleanOK(c)'
  PROVE  ServiceInv'
  <1>1. /\ cmd \in [Commands -> Records] /\ k \in Records /\ ControlOK(cmd[c]) /\ WorldOK
    BY DEF ServiceInv, WorldOK, CommandOK, SameHold
  <1>2. Moved(c, k, k.pc, TRUE, k.ok)
    BY <1>1, EndMoved
  <1>3. /\ cmd[c].action \in AllActions /\ cmd[c].pc \in 1..Len(Steps(cmd[c].action))
    BY <1>1, PlaceOf
  <1>4. UNCHANGED <<files, dirs, named>> /\ mgr' \in Managers /\ runs' \in Nat /\ edits' \in Nat
    BY DEF Reads
  <1>5. /\ cmd'[c].action = cmd[c].action /\ cmd'[c].pc = cmd[c].pc /\ cmd'[c].over
        /\ cmd'[c].dir = cmd[c].dir /\ cmd'[c].lock = cmd[c].lock
        /\ (cmd'[c].held <=> cmd[c].held) /\ (cmd'[c].temp <=> cmd[c].temp)
        /\ cmd'[c].src = k.src /\ cmd'[c].owner = k.owner /\ cmd[c].action # "none"
        /\ k.action = cmd[c].action /\ k.pc = cmd[c].pc
    BY <1>2, <1>3 DEF Moved, SameHold, AllActions, Guarded
  <1>6. ControlOK(cmd[c])'
    BY <1>1, <1>4, <1>5 DEF ControlOK
  <1>7. DoneOK(cmd'[c])
    BY <1>2 DEF DoneOK, Moved
  <1>8. /\ cmd' \in [Commands -> Records] /\ \A o \in Commands \ {c} : cmd'[o] = cmd[o]
        /\ cmd'[c].held => cmd'[c].lock = cmd[c].lock /\ cmd[c].held
        /\ cmd'[c].temp => cmd[c].temp /\ cmd'[c].dir = cmd[c].dir
    BY <1>2 DEF Moved, SameHold
  <1>9. TempsOK'
    BY <1>4, <1>8, PureTemps
  <1>10. CommandOK(c)'
    BY <1>6, <1>7 DEF CommandOK
  <1> QED BY <1>4, <1>8, <1>9, <1>10, PureStep

\* A refusal, or a failure that may have had an effect.
LEMMA Fails ==
  ASSUME ServiceInv, NEW c \in Commands, Running(c), NEW k, SameHold(c, k), Fail(c, k), Reads,
         k.clean <=> cmd[c].clean, k.did <=> cmd[c].did, k.file = cmd[c].file,
         k.stamp = cmd[c].stamp, k.link = cmd[c].link, k.src = cmd[c].src,
         k.owner = cmd[c].owner, Words(c, k)
  PROVE  ServiceInv'
  <1> DEFINE r == [k EXCEPT !.ok = FALSE]
  <1>1. /\ cmd \in [Commands -> Records] /\ WorldOK /\ CommandOK(c) /\ k \in Records
    BY DEF ServiceInv, WorldOK, SameHold
  <1>2. SameHold(c, r) /\ End(c, r) /\ ~r.ok
    BY DEF SameHold, Fail, Records
  <1>3. Moved(c, k, k.pc, TRUE, FALSE)
    BY <1>1, FailMoved
  <1>4. cmd[c].pc \in Nat /\ k.pc = cmd[c].pc
    BY <1>1 DEF Records, SameHold
  <1>0. Says(c, k, k.pc)
    BY <1>3 DEF Says, Moved, SameHold
  <1>5. DidOK(cmd'[c])
    BY <1>0, <1>1, <1>4, DidGoes DEF CommandOK, SameHold
  <1>6. FileOK(cmd[c])'
    BY <1>0, <1>1, <1>4, FileGoes DEF CommandOK, SameHold
  <1>7. CleanOK(c)'
    <2>1. UNCHANGED <<files, dirs, named>>
      BY DEF Reads
    <2>2. Scoped(c)' => Scoped(c)
      BY <1>3, <1>4 DEF Scoped, Moved, SameHold
    <2>3. ~Done(c)'
      BY <1>3 DEF Done, Moved
    <2>4. Here(c)' = Here(c) /\ (ScopeCheck(c)' <=> ScopeCheck(c))
          /\ ReadArtifact(c)' = ReadArtifact(c) /\ (SameFile(c)' <=> SameFile(c))
      BY <1>3, <2>1
      DEF Here, ScopeCheck, ChainCheck, LockCheck, ReadArtifact, SameFile, Moved, SameHold
    <2>5. GuardCheck(c)' <=> GuardCheck(c)
      BY <2>4 DEF GuardCheck
    <2>6. /\ cmd'[c].action = cmd[c].action /\ cmd'[c].pc = cmd[c].pc
          /\ cmd'[c].file = cmd[c].file /\ cmd'[c].link = cmd[c].link
      BY <1>3 DEF Moved, SameHold
    <2> QED BY <1>1, <2>2, <2>3, <2>4, <2>5, <2>6 DEF CommandOK, CleanOK
  <1>8. k.action \in Guarded /\ k.pc >= 9 => k.src = k.owner
    BY <1>1 DEF CommandOK, ControlOK, SameHold, Guarded
  <1>9. r.action \in Guarded /\ r.pc >= 9 => r.src = r.owner
    BY <1>1, <1>8 DEF Records
  <1> HIDE DEF r
  <1> QED BY <1>2, <1>5, <1>6, <1>7, <1>9, PureEnds

LEMMA Refuses ==
  ASSUME ServiceInv, NEW c \in Commands, Running(c), Fail(c, cmd[c]), UNCHANGED world
  PROVE  ServiceInv'
  <1>1. SameHold(c, cmd[c]) /\ Reads
    BY ReadsWorld DEF SameHold, ServiceInv, WorldOK
  <1> QED BY <1>1, Fails DEF Words

LEMMA FailsWith ==
  ASSUME ServiceInv, NEW c \in Commands, Running(c), NEW s \in Plain,
         Fail(c, [cmd[c] EXCEPT !.status = s]), UNCHANGED world
  PROVE  ServiceInv'
  <1> DEFINE k == [cmd[c] EXCEPT !.status = s]
  <1>1. cmd[c] \in Records
    BY DEF ServiceInv, WorldOK
  <1>2. SameHold(c, k) /\ Reads
    BY <1>1, ReadsWorld DEF SameHold, Records, Plain, Statuses
  <1>3. /\ k.clean = cmd[c].clean /\ k.did = cmd[c].did /\ k.file = cmd[c].file
        /\ k.stamp = cmd[c].stamp /\ k.link = cmd[c].link /\ k.src = cmd[c].src
        /\ k.owner = cmd[c].owner /\ k.status = s
    BY <1>1 DEF Records
  <1>4. Fail(c, k)
    OBVIOUS
  <1> HIDE DEF k
  <1> QED BY <1>2, <1>3, <1>4, Fails DEF Words

LEMMA AtStep ==
  ASSUME ServiceInv, NEW c \in Commands, NEW s, At(c, s)
  PROVE  /\ Running(c) /\ WorldOK /\ CommandOK(c) /\ cmd[c] \in Records
         /\ cmd[c].action \in AllActions /\ cmd[c].pc \in 1..Len(Steps(cmd[c].action))
         /\ Steps(cmd[c].action)[cmd[c].pc] = s /\ cmd[c].pc \in Nat
  BY PlaceOf DEF ServiceInv, CommandOK, At

LEMMA HereOK ==
  ASSUME ServiceInv, NEW c \in Commands, Running(c), cmd[c].pc > 1
  PROVE  /\ cmd[c].dir \in 1..Len(dirs) /\ Here(c).desc \in 0..Len(files)
         /\ Here(c).lock \in 0..Len(files) /\ Here(c).link \in 0..Len(files)
         /\ Len(files) \in Nat /\ Len(dirs) \in Nat
  BY PlaceOf DEF ServiceInv, CommandOK, WorldOK, Here

LEMMA HereNat ==
  ASSUME ServiceInv, NEW c \in Commands, Running(c), cmd[c].pc > 1
  PROVE  Here(c).desc \in Nat /\ Here(c).lock \in Nat /\ Here(c).link \in Nat
  BY HereOK

LEMMA SameSource ==
  ASSUME ServiceInv, NEW c \in Commands, Running(c), cmd[c].action \in Guarded,
         cmd[c].pc >= 9
  PROVE  cmd[c].src = cmd[c].owner
  BY DEF ServiceInv, CommandOK, ControlOK, Running

\* Where each function first has an effect.
LEMMA DidFrom ==
  ASSUME NEW k \in Records, DidOK(k), k.did
  PROVE  /\ k.action = "install" => k.pc >= 9
         /\ k.action = "uninstall" => k.pc >= 8
         /\ k.action = "request" => k.pc >= 12
         /\ k.action = "enable" => k.pc >= 15
         /\ k.action = "disable" => k.pc >= 15
         /\ k.action = "observe" => k.pc >= 99
         /\ k.action = "status" => k.pc >= 99
  <1>1. k.pc >= CASE k.action = "install" -> 9
                  [] k.action = "uninstall" -> 8
                  [] k.action = "request" -> 12
                  [] k.action \in {"enable", "disable"} -> 15
                  [] OTHER -> 99
    BY DEF DidOK
  <1> QED BY <1>1

LEMMA HeldHere ==
  ASSUME ServiceInv, NEW c \in Commands, Running(c), cmd[c].action # "status",
         cmd[c].pc >= LockedFrom(cmd[c].action)
  PROVE  cmd[c].held
  BY DEF ServiceInv, CommandOK, ControlOK, Running

LEMMA Passes ==
  ASSUME ServiceInv, NEW c \in Commands, Running(c), NEW k, SameHold(c, k), Go(c, k), Reads,
         cmd[c].pc > 1, k.did <=> cmd[c].did,
         cmd[c].action # "status" =>
           cmd[c].pc # LockedFrom(cmd[c].action) - 2 /\ cmd[c].pc # LockedFrom(cmd[c].action) - 1,
         k.action \in Guarded /\ k.pc >= 8 => k.src = k.owner,
         k.action = "uninstall" =>
           k.file = cmd[c].file /\ k.stamp = cmd[c].stamp /\ k.pc # 5,
         Words(c, k), CleanOK(c)'
  PROVE  ServiceInv'
  <1>1. /\ cmd \in [Commands -> Records] /\ WorldOK /\ CommandOK(c) /\ k \in Records
    BY DEF ServiceInv, WorldOK, SameHold
  <1>2. Moved(c, k, k.pc + 1, k.pc = Len(Steps(k.action)), k.ok)
    BY <1>1, GoMoved
  <1>3. Says(c, k, k.pc + 1)
    BY <1>2 DEF Says, Moved
  <1>4. cmd[c].pc \in Nat /\ k.pc = cmd[c].pc /\ k.pc + 1 \in Nat /\ cmd[c].pc <= k.pc + 1
    BY <1>1 DEF Records, SameHold
  <1>5. DidOK(cmd'[c])
    BY <1>1, <1>3, <1>4, DidGoes DEF CommandOK, SameHold
  <1>6. k.action = "uninstall" /\ k.pc + 1 >= 6 => cmd[c].pc >= 6
    BY <1>4 DEF SameHold
  <1>7. FileOK(cmd[c])'
    BY <1>1, <1>3, <1>4, <1>6, FileGoes DEF CommandOK, SameHold
  <1> QED BY <1>5, <1>7, PureGoes

\* A step that checks nothing about the files leaves the last check as it was.
LEMMA Advances ==
  ASSUME ServiceInv, NEW c \in Commands, Running(c), NEW k, SameHold(c, k), Go(c, k), Reads,
         k.clean <=> cmd[c].clean, k.did <=> cmd[c].did, k.file = cmd[c].file,
         k.stamp = cmd[c].stamp, k.link = cmd[c].link, k.status = cmd[c].status,
         k.action \in Guarded /\ k.pc >= 8 => k.src = k.owner,
         cmd[c].action # "status", cmd[c].pc >= ScopedFrom(cmd[c].action),
         cmd[c].pc < Len(Steps(cmd[c].action)),
         cmd[c].action = "install" => cmd[c].pc # 10,
         cmd[c].action = "uninstall" => cmd[c].pc \notin {5, 6, 8},
         cmd[c].action \in {"enable", "disable"} => cmd[c].pc # 14
  PROVE  ServiceInv'
  <1>1. /\ cmd \in [Commands -> Records] /\ CommandOK(c) /\ k \in Records
    BY DEF ServiceInv, WorldOK, SameHold
  <1>2. Moved(c, k, k.pc + 1, k.pc = Len(Steps(k.action)), k.ok)
    BY <1>1, GoMoved
  <1>3. cmd[c].pc \in Nat /\ k.pc = cmd[c].pc /\ k.action = cmd[c].action
    BY <1>1 DEF Records, SameHold
  <1>4. UNCHANGED <<files, dirs, named>>
    BY DEF Reads
  <1>5. CleanOK(c)'
    <2>1. Scoped(c)' => Scoped(c)
      BY <1>2, <1>3 DEF Scoped, Moved, SameHold
    <2>2. ~Done(c)'
      <3>1. cmd[c].pc # Len(Steps(cmd[c].action))
        BY PlaceOf, LongSteps, <1>3 DEF ServiceInv, CommandOK
      <3> QED BY <1>2, <1>3, <3>1 DEF Done, Moved
    <2>3. Here(c)' = Here(c) /\ (ScopeCheck(c)' <=> ScopeCheck(c))
          /\ ReadArtifact(c)' = ReadArtifact(c) /\ (SameFile(c)' <=> SameFile(c))
      BY <1>2, <1>4
      DEF Here, ScopeCheck, ChainCheck, LockCheck, ReadArtifact, SameFile, Moved, SameHold
    <2>4. GuardCheck(c)' <=> GuardCheck(c)
      BY <2>3 DEF GuardCheck
    <2>5. /\ cmd'[c].action = cmd[c].action /\ cmd'[c].pc = cmd[c].pc + 1
          /\ cmd'[c].file = cmd[c].file /\ cmd'[c].link = cmd[c].link
      BY <1>2, <1>3 DEF Moved, SameHold
    <2> QED BY <1>1, <1>3, <2>1, <2>2, <2>3, <2>4, <2>5 DEF CommandOK, CleanOK
  <1>6. /\ cmd[c].pc > 1
        /\ cmd[c].pc # LockedFrom(cmd[c].action) - 2 /\ cmd[c].pc # LockedFrom(cmd[c].action) - 1
    BY <1>3 DEF ScopedFrom, LockedFrom
  <1>7. k.action = "uninstall" => k.pc # 5
    BY <1>3
  <1> QED BY <1>5, <1>6, <1>7, Passes DEF Words

\* What goes on from a passed check: the record of the check, and clean.
LEMMA ChecksMoved ==
  ASSUME ServiceInv, NEW c \in Commands, NEW k, SameHold(c, k), NEW test,
         Checked(c, test, k), test
  PROVE  \E r \in Records :
           /\ Go(c, r) /\ SameHold(c, r) /\ UNCHANGED world /\ Reads
           /\ Moved(c, r, cmd[c].pc + 1, cmd[c].pc = Len(Steps(cmd[c].action)), k.ok)
           /\ r.clean /\ (r.did <=> k.did) /\ r.file = k.file /\ r.stamp = k.stamp
           /\ r.link = k.link /\ r.owner = k.owner /\ r.src = k.src /\ r.status = k.status
  <1> DEFINE r == [k EXCEPT !.clean = TRUE]
  <1>1. cmd \in [Commands -> Records] /\ k \in Records
    BY DEF ServiceInv, WorldOK, SameHold
  <1>2. /\ r \in Records /\ SameHold(c, r) /\ r.clean /\ (r.did <=> k.did) /\ r.file = k.file
        /\ r.stamp = k.stamp /\ r.link = k.link /\ r.owner = k.owner /\ r.src = k.src
        /\ r.status = k.status /\ (r.ok <=> k.ok) /\ r.pc = cmd[c].pc /\ r.action = cmd[c].action
    BY <1>1, ZenonT(60) DEF SameHold, Records
  <1>3. Go(c, r) /\ UNCHANGED world
    BY DEF Checked
  <1> HIDE DEF r
  <1>4. Moved(c, r, r.pc + 1, r.pc = Len(Steps(r.action)), r.ok)
    BY <1>1, <1>2, <1>3, GoMoved
  <1>5. Moved(c, r, cmd[c].pc + 1, cmd[c].pc = Len(Steps(cmd[c].action)), k.ok)
    BY <1>2, <1>4 DEF Moved
  <1>6. Reads
    BY <1>3, ReadsWorld
  <1> QED BY <1>2, <1>3, <1>5, <1>6

-----------------------------------------------------------------------------
(* The checks.                                                             *)

LEMMA ScopeOK ==
  ASSUME ServiceInv, NEW c \in Commands, Scope(c)
  PROVE  ServiceInv'
  <1>1. At(c, "scope") /\ Checked(c, ScopeCheck(c), cmd[c])
    BY DEF Scope
  <1>2. /\ Running(c) /\ WorldOK /\ CommandOK(c) /\ cmd[c] \in Records
        /\ cmd[c].action \in AllActions /\ cmd[c].pc \in 1..Len(Steps(cmd[c].action))
        /\ Steps(cmd[c].action)[cmd[c].pc] = "scope" /\ cmd[c].pc \in Nat
    BY <1>1, AtStep
  <1>3. \/ cmd[c].action = "install" /\ cmd[c].pc \in {5, 8}
        \/ cmd[c].action = "uninstall" /\ cmd[c].pc = 4
    BY <1>2, Places
  <1>4. CASE ~ScopeCheck(c)
    BY <1>1, <1>2, <1>4, Refuses DEF Checked
  <1>5. CASE ScopeCheck(c)
    <2>1. SameHold(c, cmd[c])
      BY <1>2 DEF SameHold
    <2>2. PICK r \in Records :
           /\ Go(c, r) /\ SameHold(c, r) /\ UNCHANGED world /\ Reads
           /\ Moved(c, r, cmd[c].pc + 1, cmd[c].pc = Len(Steps(cmd[c].action)), cmd[c].ok)
           /\ r.clean /\ (r.did <=> cmd[c].did) /\ r.file = cmd[c].file
           /\ r.stamp = cmd[c].stamp /\ r.link = cmd[c].link /\ r.owner = cmd[c].owner
           /\ r.src = cmd[c].src /\ r.status = cmd[c].status
      BY <1>1, <1>5, <2>1, ChecksMoved, ZenonT(60)
    <2>4. CleanOK(c)'
      <3>1. ScopeCheck(c)'
        BY <1>5, <2>2
        DEF Here, ScopeCheck, ChainCheck, LockCheck, Moved, SameHold, Reads
      <3>0. cmd[c].pc # Len(Steps(cmd[c].action))
        BY <1>2, <1>3, LastPlace
      <3>2. cmd'[c].action = cmd[c].action /\ cmd'[c].pc = cmd[c].pc + 1 /\ ~cmd'[c].over
        BY <2>2, <3>0 DEF Moved, SameHold
      <3> QED BY <1>2, <1>3, <3>1, <3>2, SMTT(60) DEF CleanOK, Done, Guarded
    <2>5. /\ cmd[c].pc > 1 /\ cmd[c].pc # LockedFrom(cmd[c].action) - 2
          /\ cmd[c].pc # LockedFrom(cmd[c].action) - 1
          /\ r.action = cmd[c].action /\ r.pc = cmd[c].pc /\ r.action \notin Guarded
          /\ r.action = "uninstall" => r.pc # 5
      BY <1>3, <2>2 DEF LockedFrom, SameHold, Guarded
    <2> QED BY <1>2, <2>2, <2>4, <2>5, Passes DEF Words
  <1> QED BY <1>4, <1>5

LEMMA GuardOK ==
  ASSUME ServiceInv, NEW c \in Commands, Guard(c)
  PROVE  ServiceInv'
  <1>1. At(c, "guard") /\ Checked(c, GuardCheck(c), cmd[c])
    BY DEF Guard
  <1>2. /\ Running(c) /\ WorldOK /\ CommandOK(c) /\ cmd[c] \in Records
        /\ cmd[c].action \in AllActions /\ cmd[c].pc \in 1..Len(Steps(cmd[c].action))
        /\ Steps(cmd[c].action)[cmd[c].pc] = "guard" /\ cmd[c].pc \in Nat
    BY <1>1, AtStep
  <1>3. \/ cmd[c].action = "request" /\ cmd[c].pc \in {5, 9, 11, 13}
        \/ cmd[c].action = "observe" /\ cmd[c].pc = 5
        \/ cmd[c].action \in {"enable", "disable"} /\ cmd[c].pc \in {5, 9, 12}
    BY <1>2, Places
  <1>4. CASE ~GuardCheck(c)
    BY <1>1, <1>2, <1>4, Refuses DEF Checked
  <1>5. CASE GuardCheck(c)
    <2>1. SameHold(c, cmd[c])
      BY <1>2 DEF SameHold
    <2>2. PICK r \in Records :
           /\ Go(c, r) /\ SameHold(c, r) /\ UNCHANGED world /\ Reads
           /\ Moved(c, r, cmd[c].pc + 1, cmd[c].pc = Len(Steps(cmd[c].action)), cmd[c].ok)
           /\ r.clean /\ (r.did <=> cmd[c].did) /\ r.file = cmd[c].file
           /\ r.stamp = cmd[c].stamp /\ r.link = cmd[c].link /\ r.owner = cmd[c].owner
           /\ r.src = cmd[c].src /\ r.status = cmd[c].status
      BY <1>1, <1>5, <2>1, ChecksMoved, ZenonT(60)
    <2>4. CleanOK(c)'
      <3>1. GuardCheck(c)'
        BY <1>5, <2>2
        DEF Here, ScopeCheck, ChainCheck, LockCheck, GuardCheck, ReadArtifact, SameFile, Moved,
            SameHold, Reads
      <3>2. cmd'[c].action = cmd[c].action /\ cmd'[c].pc = cmd[c].pc + 1
            /\ (cmd'[c].over <=> cmd[c].pc = Len(Steps(cmd[c].action)))
        BY <2>2 DEF Moved, SameHold
      <3>3. cmd[c].action \in {"enable", "disable"} =>
              cmd'[c].pc # 15 /\ ~cmd'[c].over
        BY <1>2, <1>3, <3>2, LastPlace, SMTT(60)
      <3>4. cmd'[c].action \in Guarded
        BY <1>3, <3>2 DEF Guarded
      <3>5. cmd'[c].action \in {"enable", "disable"} => cmd[c].action \in {"enable", "disable"}
        BY <3>2
      <3> QED BY <3>1, <3>3, <3>4, <3>5 DEF CleanOK, Done, GuardCheck, Guarded
    <2>5. /\ cmd[c].pc > 1 /\ cmd[c].pc # LockedFrom(cmd[c].action) - 2
          /\ cmd[c].pc # LockedFrom(cmd[c].action) - 1
          /\ r.action = cmd[c].action /\ r.pc = cmd[c].pc /\ r.action # "uninstall"
      BY <1>3, <2>2 DEF LockedFrom, SameHold
    <2>6. r.action \in Guarded /\ r.pc >= 8 => r.src = r.owner
      <3>1. r.pc >= 8 => cmd[c].pc >= 9
        BY <1>3, <2>5
      <3> QED BY <1>2, <1>3, <2>2, <2>5, <3>1 DEF CommandOK, ControlOK
    <2> QED BY <1>2, <2>2, <2>4, <2>5, <2>6, Passes DEF Words
  <1> QED BY <1>4, <1>5

\* What a command sees after a step of its own that only reads.
LEMMA SeenSame ==
  ASSUME NEW c \in Commands, UNCHANGED <<files, dirs, named>>,
         cmd'[c].dir = cmd[c].dir, cmd'[c].lock = cmd[c].lock, cmd'[c].want = cmd[c].want
  PROVE  /\ Here(c)' = Here(c) /\ (ScopeCheck(c)' <=> ScopeCheck(c))
         /\ ReadArtifact(c)' = ReadArtifact(c)
         /\ cmd'[c].file = cmd[c].file /\ cmd'[c].stamp = cmd[c].stamp =>
              (SameFile(c)' <=> SameFile(c)) /\ (GuardCheck(c)' <=> GuardCheck(c))
  <1>1. /\ Here(c)' = Here(c) /\ (ScopeCheck(c)' <=> ScopeCheck(c))
        /\ ReadArtifact(c)' = ReadArtifact(c)
    BY DEF Here, ScopeCheck, ChainCheck, LockCheck, ReadArtifact
  <1>2. cmd'[c].file = cmd[c].file /\ cmd'[c].stamp = cmd[c].stamp =>
          (SameFile(c)' <=> SameFile(c))
    BY <1>1 DEF SameFile
  <1> QED BY <1>1, <1>2 DEF GuardCheck

LEMMA RelookOK ==
  ASSUME ServiceInv, NEW c \in Commands, Relook(c)
  PROVE  ServiceInv'
  <1>1. At(c, "relook") /\ UNCHANGED world
    BY DEF Relook
  <1>2. /\ Running(c) /\ WorldOK /\ CommandOK(c) /\ cmd[c] \in Records
        /\ cmd[c].action \in AllActions /\ cmd[c].pc \in 1..Len(Steps(cmd[c].action))
        /\ Steps(cmd[c].action)[cmd[c].pc] = "relook" /\ cmd[c].pc \in Nat
    BY <1>1, AtStep
  <1>3. cmd[c].action = "install" /\ cmd[c].pc = 6
    BY <1>2, Places
  <1>4. Reads /\ UNCHANGED <<files, dirs, named>>
    BY <1>1, ReadsWorld DEF world
  <1>5. cmd[c].held /\ ~cmd[c].did
    BY <1>2, <1>3, HeldHere DEF LockedFrom, CommandOK, DidOK
  <1>6. CASE ReadArtifact(c) = "exact"
    <2>1. ASSUME NEW b \in BOOLEAN, b <=> ScopeCheck(c),
                 End(c, [cmd[c] EXCEPT !.status = "not_needed", !.ok = b, !.clean = b])
          PROVE  ServiceInv'
      <3> DEFINE k == [cmd[c] EXCEPT !.status = "not_needed", !.ok = b, !.clean = b]
      <3>1. /\ SameHold(c, k) /\ k \in Records /\ k.status = "not_needed" /\ (k.clean <=> b)
            /\ (k.ok <=> b) /\ ~k.did /\ k.action = "install" /\ k.pc = 6 /\ k.held
        BY <1>2, <1>3, <1>5 DEF SameHold, Records, Statuses
      <3>2. End(c, k)
        BY <2>1
      <3> HIDE DEF k
      <3>3. Moved(c, k, k.pc, TRUE, k.ok)
        BY <1>2, <3>1, <3>2, EndMoved DEF WorldOK
      <3>4. DidOK(cmd'[c])
        BY <3>1, <3>3 DEF DidOK, Moved
      <3>5. FileOK(cmd[c])'
        BY <3>1, <3>3 DEF FileOK, Moved
      <3>6. CleanOK(c)'
        <4> SUFFICES ASSUME Scoped(c)' PROVE CleanOK(c)'
          BY DEF CleanOK
        <4>1. cmd'[c].clean /\ cmd'[c].action = "install" /\ cmd'[c].pc = 6
          BY <3>1, <3>3 DEF Scoped, Moved
        <4>2. ScopeCheck(c)
          BY <2>1, <3>1, <3>3, <4>1 DEF Moved
        <4>3. ScopeCheck(c)' /\ ReadArtifact(c)' = "exact"
          BY <1>4, <1>6, <3>1, <3>3, <4>2, SeenSame DEF Moved, SameHold
        <4> QED BY <4>1, <4>3 DEF CleanOK, Guarded
      <3> QED BY <1>2, <1>4, <3>1, <3>2, <3>4, <3>5, <3>6, PureEnds DEF Guarded, ScopedFrom, LockedFrom
    <2>2. End(c, [cmd[c] EXCEPT !.status = "not_needed", !.ok = ScopeCheck(c),
                                !.clean = ScopeCheck(c)])
      BY <1>6 DEF Relook
    <2>3. CASE ScopeCheck(c)
      <3>1. ScopeCheck(c) = TRUE
        BY <2>3 DEF ScopeCheck
      <3>2. End(c, [cmd[c] EXCEPT !.status = "not_needed", !.ok = TRUE, !.clean = TRUE])
        BY <2>2, <3>1
      <3> QED BY <2>1, <2>3, <3>2
    <2>4. CASE ~ScopeCheck(c)
      <3>1. ScopeCheck(c) = FALSE
        BY <2>4 DEF ScopeCheck
      <3>2. End(c, [cmd[c] EXCEPT !.status = "not_needed", !.ok = FALSE, !.clean = FALSE])
        BY <2>2, <3>1
      <3> QED BY <2>1, <2>4, <3>2
    <2> QED BY <2>3, <2>4
  <1>7. CASE ReadArtifact(c) = "absent"
    <2>1. Go(c, cmd[c])
      BY <1>7 DEF Relook
    <2>2. SameHold(c, cmd[c]) /\ cmd[c].pc < Len(Steps(cmd[c].action))
      BY <1>2, <1>3, LastPlace DEF SameHold
    <2> QED BY <1>2, <1>3, <1>4, <2>1, <2>2, Advances DEF Guarded, ScopedFrom, LockedFrom
  <1>8. CASE ReadArtifact(c) = "conflict"
    <2>1. Fail(c, cmd[c])
      BY <1>8 DEF Relook
    <2> QED BY <1>1, <1>2, <2>1, Refuses
  <1>9. ReadArtifact(c) \in {"exact", "absent", "conflict"}
    BY DEF ReadArtifact
  <1> QED BY <1>6, <1>7, <1>8, <1>9

LEMMA ConfirmOK ==
  ASSUME ServiceInv, NEW c \in Commands, Confirm(c)
  PROVE  ServiceInv'
  <1> DEFINE test == ScopeCheck(c) /\ ReadArtifact(c) = "exact" /\ Here(c).desc = cmd[c].file
  <1>1. At(c, "confirm") /\ Checked(c, test, cmd[c])
    BY DEF Confirm
  <1>2. /\ Running(c) /\ WorldOK /\ CommandOK(c) /\ cmd[c] \in Records
        /\ cmd[c].action \in AllActions /\ cmd[c].pc \in 1..Len(Steps(cmd[c].action))
        /\ Steps(cmd[c].action)[cmd[c].pc] = "confirm" /\ cmd[c].pc \in Nat
    BY <1>1, AtStep
  <1>3. cmd[c].action = "install" /\ cmd[c].pc = 10
    BY <1>2, Places
  <1>4. CASE ~test
    BY <1>1, <1>2, <1>4, Refuses DEF Checked
  <1>5. CASE test
    <2>1. SameHold(c, cmd[c])
      BY <1>2 DEF SameHold
    <2>2. PICK r \in Records :
           /\ Go(c, r) /\ SameHold(c, r) /\ UNCHANGED world /\ Reads
           /\ Moved(c, r, cmd[c].pc + 1, cmd[c].pc = Len(Steps(cmd[c].action)), cmd[c].ok)
           /\ r.clean /\ (r.did <=> cmd[c].did) /\ r.file = cmd[c].file
           /\ r.stamp = cmd[c].stamp /\ r.link = cmd[c].link /\ r.owner = cmd[c].owner
           /\ r.src = cmd[c].src /\ r.status = cmd[c].status
      BY <1>1, <1>5, <2>1, ChecksMoved
    <2>3. /\ cmd'[c].action = "install" /\ cmd'[c].dir = cmd[c].dir /\ cmd'[c].lock = cmd[c].lock
          /\ cmd'[c].want = cmd[c].want /\ cmd'[c].file = cmd[c].file
      BY <1>3, <2>2 DEF Moved, SameHold
    <2>4. CleanOK(c)'
      <3>1. ScopeCheck(c)' /\ ReadArtifact(c)' = "exact" /\ Here(c)'.desc = cmd'[c].file
        BY <1>5, <2>2, <2>3, SeenSame DEF Reads
      <3> QED BY <2>3, <3>1 DEF CleanOK, Guarded
    <2>5. r.action = "install" /\ r.pc = 10
      BY <1>3, <2>2 DEF SameHold
    <2> QED BY <1>2, <1>3, <2>2, <2>4, <2>5, Passes DEF Words, LockedFrom, Guarded
  <1> QED BY <1>4, <1>5

LEMMA SyncOK ==
  ASSUME ServiceInv, NEW c \in Commands, Sync(c)
  PROVE  ServiceInv'
  <1>1. At(c, "sync") /\ Go(c, cmd[c]) /\ UNCHANGED world
    BY DEF Sync
  <1>2. /\ Running(c) /\ WorldOK /\ CommandOK(c) /\ cmd[c] \in Records
        /\ cmd[c].action \in AllActions /\ cmd[c].pc \in 1..Len(Steps(cmd[c].action))
        /\ Steps(cmd[c].action)[cmd[c].pc] = "sync" /\ cmd[c].pc \in Nat
    BY <1>1, AtStep
  <1>3. \/ cmd[c].action = "install" /\ cmd[c].pc = 11
        \/ cmd[c].action = "uninstall" /\ cmd[c].pc = 9
        \/ cmd[c].action \in {"enable", "disable"} /\ cmd[c].pc = 17
    BY <1>2, Places
  <1>4. Reads /\ SameHold(c, cmd[c]) /\ cmd[c].pc < Len(Steps(cmd[c].action))
    BY <1>1, <1>2, <1>3, ReadsWorld, LastPlace DEF SameHold
  <1>5. cmd[c].action \in Guarded /\ cmd[c].pc >= 8 => cmd[c].src = cmd[c].owner
    BY <1>2, <1>3 DEF CommandOK, ControlOK, Guarded
  <1> QED BY <1>1, <1>2, <1>3, <1>4, <1>5, Advances DEF ScopedFrom, LockedFrom

LEMMA FinalOK ==
  ASSUME ServiceInv, NEW c \in Commands, Final(c)
  PROVE  ServiceInv'
  <1>1. At(c, "final") /\ UNCHANGED world
    BY DEF Final
  <1>2. /\ Running(c) /\ WorldOK /\ CommandOK(c) /\ cmd[c] \in Records
        /\ cmd[c].action \in AllActions /\ cmd[c].pc \in 1..Len(Steps(cmd[c].action))
        /\ Steps(cmd[c].action)[cmd[c].pc] = "final" /\ cmd[c].pc \in Nat
    BY <1>1, AtStep
  <1>3. cmd[c].action = "install" /\ cmd[c].pc = 12
    BY <1>2, Places
  <1>4. Reads /\ UNCHANGED <<files, dirs, named>>
    BY <1>1, ReadsWorld DEF world
  <1>5. CASE ~(ScopeCheck(c) /\ ReadArtifact(c) # "conflict")
    BY <1>1, <1>2, <1>5, Refuses DEF Final
  <1>6. CASE ScopeCheck(c) /\ ReadArtifact(c) # "conflict"
    <2> DEFINE k == [cmd[c] EXCEPT !.status = "saved"]
    <2>1. /\ SameHold(c, k) /\ k \in Records /\ k.status = "saved" /\ (k.clean <=> cmd[c].clean)
          /\ (k.did <=> cmd[c].did) /\ k.action = "install" /\ k.pc = 12
          /\ k.file = cmd[c].file
      BY <1>2, <1>3 DEF SameHold, Records, Statuses
    <2>2. Go(c, k)
      BY <1>6 DEF Final
    <2> HIDE DEF k
    <2>3. Moved(c, k, k.pc + 1, k.pc = Len(Steps(k.action)), k.ok)
      BY <1>2, <2>1, <2>2, GoMoved DEF WorldOK
    <2>4. /\ cmd'[c].action = "install" /\ cmd'[c].pc = 13 /\ cmd'[c].status = "saved"
          /\ cmd'[c].dir = cmd[c].dir /\ cmd'[c].lock = cmd[c].lock
          /\ cmd'[c].want = cmd[c].want /\ cmd'[c].file = cmd[c].file
          /\ (cmd'[c].clean <=> cmd[c].clean) /\ (cmd'[c].held <=> cmd[c].held)
      BY <2>1, <2>3 DEF Moved, SameHold
    <2>5. DidOK(cmd'[c])
      BY <2>4 DEF DidOK
    <2>6. FileOK(cmd[c])'
      BY <2>4 DEF FileOK
    <2>7. CleanOK(c)'
      <3> SUFFICES ASSUME Scoped(c)' PROVE CleanOK(c)'
        BY DEF CleanOK
      <3>1. Scoped(c)
        BY <1>3, <2>4 DEF Scoped, ScopedFrom, LockedFrom
      <3>2. ScopeCheck(c) /\ ReadArtifact(c) = "exact" /\ Here(c).desc = cmd[c].file
        BY <1>2, <1>3, <3>1 DEF CommandOK, CleanOK
      <3>3. ScopeCheck(c)' /\ ReadArtifact(c)' = "exact" /\ Here(c)'.desc = cmd'[c].file
        BY <1>4, <2>4, <3>2, SeenSame
      <3> QED BY <2>4, <3>3 DEF CleanOK, Guarded
    <2> QED BY <1>2, <1>3, <1>4, <2>1, <2>2, <2>5, <2>6, <2>7, PureGoes
         DEF Guarded, LockedFrom
  <1> QED BY <1>5, <1>6

LEMMA FileAt ==
  ASSUME WorldOK, NEW f \in 1..Len(files)
  PROVE  files[f].content \in Contents /\ files[f].stamp \in Nat /\ files[f].linked \in BOOLEAN
  <1>1. files[f] \in Files
    BY DEF WorldOK
  <1> QED BY <1>1 DEF Files

LEMMA ExamineOK ==
  ASSUME ServiceInv, NEW c \in Commands, Examine(c)
  PROVE  ServiceInv'
  <1>1. At(c, "examine")
    BY DEF Examine
  <1>2. /\ Running(c) /\ WorldOK /\ CommandOK(c) /\ cmd[c] \in Records
        /\ cmd[c].action \in AllActions /\ cmd[c].pc \in 1..Len(Steps(cmd[c].action))
        /\ Steps(cmd[c].action)[cmd[c].pc] = "examine" /\ cmd[c].pc \in Nat
    BY <1>1, AtStep
  <1>3. cmd[c].action = "uninstall" /\ cmd[c].pc = 5
    BY <1>2, Places
  <1>4. cmd[c].held /\ ~cmd[c].did /\ cmd[c].status # "removed"
    BY <1>2, <1>3, HeldHere DEF LockedFrom, CommandOK, DidOK, FileOK
  <1>5. /\ cmd[c].dir \in 1..Len(dirs) /\ Here(c).desc \in 0..Len(files) /\ Len(files) \in Nat
    BY <1>2, <1>3, HereOK
  <1>6. CASE Here(c).desc = 0 /\ ScopeCheck(c)
    <2> DEFINE k == [cmd[c] EXCEPT !.status = "not_needed", !.clean = TRUE]
    <2>1. /\ SameHold(c, k) /\ k \in Records /\ k.status = "not_needed" /\ k.clean
          /\ ~k.did /\ k.action = "uninstall" /\ k.pc = 5 /\ k.held
      BY <1>2, <1>3, <1>4 DEF SameHold, Records, Statuses
    <2>2. End(c, k) /\ UNCHANGED world
      BY <1>6 DEF Examine
    <2> HIDE DEF k
    <2>3. Reads /\ UNCHANGED <<files, dirs, named>>
      BY <2>2, ReadsWorld DEF world
    <2>4. Moved(c, k, k.pc, TRUE, k.ok)
      BY <1>2, <2>1, <2>2, EndMoved DEF WorldOK
    <2>5. /\ cmd'[c].action = "uninstall" /\ cmd'[c].pc = 5 /\ cmd'[c].status = "not_needed"
          /\ cmd'[c].dir = cmd[c].dir /\ cmd'[c].lock = cmd[c].lock
          /\ cmd'[c].want = cmd[c].want /\ ~cmd'[c].did
      BY <2>1, <2>4 DEF Moved, SameHold
    <2>6. DidOK(cmd'[c])
      BY <2>5 DEF DidOK
    <2>7. FileOK(cmd[c])'
      BY <2>5 DEF FileOK
    <2>8. CleanOK(c)'
      <3>1. ScopeCheck(c)' /\ Here(c)'.desc = 0
        BY <1>6, <2>3, <2>5, SeenSame
      <3> QED BY <2>5, <3>1 DEF CleanOK, Guarded
    <2> QED BY <1>2, <2>1, <2>2, <2>3, <2>6, <2>7, <2>8, PureEnds
         DEF Guarded, ScopedFrom, LockedFrom
  <1>7. CASE Here(c).desc = 0 /\ ~ScopeCheck(c)
    <2>1. Fail(c, cmd[c]) /\ UNCHANGED world
      BY <1>7 DEF Examine
    <2> QED BY <1>2, <2>1, Refuses
  <1>8. CASE Here(c).desc # 0
    <2> DEFINE k == [cmd[c] EXCEPT !.file = Here(c).desc, !.stamp = files[Here(c).desc].stamp]
               test == ScopeCheck(c) /\ ReadArtifact(c) = "exact"
    <2>1. Checked(c, test, k)
      BY <1>8 DEF Examine
    <2>2. Here(c).desc \in 1..Len(files)
      BY <1>5, <1>8
    <2>3. files[Here(c).desc].stamp \in Nat /\ Here(c).desc \in Nat
      BY <1>2, <2>2, FileAt
    <2>4. CASE ~test
      <3>1. Fail(c, cmd[c]) /\ UNCHANGED world
        BY <2>1, <2>4 DEF Checked
      <3> QED BY <1>2, <3>1, Refuses
    <2>5. CASE test
      <3>1. /\ SameHold(c, k) /\ k.file = Here(c).desc /\ k.stamp = files[Here(c).desc].stamp
            /\ (k.did <=> cmd[c].did) /\ k.status = cmd[c].status
        BY <1>2, <2>3 DEF SameHold, Records
      <3> HIDE DEF k
      <3>2. PICK r \in Records :
             /\ Go(c, r) /\ SameHold(c, r) /\ UNCHANGED world /\ Reads
             /\ Moved(c, r, cmd[c].pc + 1, cmd[c].pc = Len(Steps(cmd[c].action)), k.ok)
             /\ r.clean /\ (r.did <=> k.did) /\ r.file = k.file /\ r.stamp = k.stamp
             /\ r.link = k.link /\ r.owner = k.owner /\ r.src = k.src /\ r.status = k.status
        BY <2>1, <2>5, <3>1, ChecksMoved
      <3>3. /\ cmd'[c].action = "uninstall" /\ cmd'[c].dir = cmd[c].dir
            /\ cmd'[c].lock = cmd[c].lock /\ cmd'[c].want = cmd[c].want
            /\ cmd'[c].file = Here(c).desc /\ cmd'[c].stamp = files[Here(c).desc].stamp
            /\ cmd'[c].status = cmd[c].status /\ cmd'[c].pc = 6 /\ ~cmd'[c].did
        BY <1>3, <1>4, <3>1, <3>2 DEF Moved, SameHold
      <3>4. cmd[c].pc # Len(Steps(cmd[c].action))
        BY <1>2, NotLast
      <3>5. ~cmd'[c].over
        BY <3>2, <3>4 DEF Moved
      <3>6. UNCHANGED <<files, dirs, named>>
        BY <3>2 DEF Reads
      <3>7. DidOK(cmd'[c])
        BY <1>2, <1>3, <3>3 DEF DidOK, CommandOK
      <3>8. FileOK(cmd[c])'
        <4>1. files[Here(c).desc].content = cmd[c].want
          BY <1>8, <2>5 DEF ReadArtifact
        <4> QED BY <1>4, <2>2, <2>3, <3>3, <3>6, <4>1 DEF FileOK
      <3>9. CleanOK(c)'
        <4>1. ScopeCheck(c)'
          BY <2>5, <3>3, <3>6, SeenSame
        <4> QED BY <3>3, <3>5, <4>1 DEF CleanOK, Guarded, Done
      <3>10. r.action = "uninstall" /\ cmd[c].pc = 5
        BY <1>3, <3>2 DEF SameHold
      <3> QED BY <1>2, <1>3, <3>2, <3>7, <3>8, <3>9, <3>10, PureGoes DEF Guarded, LockedFrom
    <2> QED BY <2>4, <2>5
  <1> QED BY <1>6, <1>7, <1>8

LEMMA ExaminedOK ==
  ASSUME ServiceInv, NEW c \in Commands, Examined(c)
  PROVE  ServiceInv'
  <1> DEFINE test == ScopeCheck(c) /\ SameFile(c)
  <1>1. At(c, "examined") /\ Checked(c, test, cmd[c])
    BY DEF Examined
  <1>2. /\ Running(c) /\ WorldOK /\ CommandOK(c) /\ cmd[c] \in Records
        /\ cmd[c].action \in AllActions /\ cmd[c].pc \in 1..Len(Steps(cmd[c].action))
        /\ Steps(cmd[c].action)[cmd[c].pc] = "examined" /\ cmd[c].pc \in Nat
    BY <1>1, AtStep
  <1>3. cmd[c].action = "uninstall" /\ cmd[c].pc = 6
    BY <1>2, Places
  <1>4. CASE ~test
    BY <1>1, <1>2, <1>4, Refuses DEF Checked
  <1>5. CASE test
    <2>1. SameHold(c, cmd[c])
      BY <1>2 DEF SameHold
    <2>2. PICK r \in Records :
           /\ Go(c, r) /\ SameHold(c, r) /\ UNCHANGED world /\ Reads
           /\ Moved(c, r, cmd[c].pc + 1, cmd[c].pc = Len(Steps(cmd[c].action)), cmd[c].ok)
           /\ r.clean /\ (r.did <=> cmd[c].did) /\ r.file = cmd[c].file
           /\ r.stamp = cmd[c].stamp /\ r.link = cmd[c].link /\ r.owner = cmd[c].owner
           /\ r.src = cmd[c].src /\ r.status = cmd[c].status
      BY <1>1, <1>5, <2>1, ChecksMoved, ZenonT(60)
    <2>3. /\ cmd'[c].action = "uninstall" /\ cmd'[c].dir = cmd[c].dir /\ cmd'[c].lock = cmd[c].lock
          /\ cmd'[c].want = cmd[c].want /\ cmd'[c].file = cmd[c].file /\ cmd'[c].pc = 7
          /\ cmd'[c].stamp = cmd[c].stamp
      BY <1>3, <2>2 DEF Moved, SameHold
    <2>4. cmd[c].pc # Len(Steps(cmd[c].action))
      BY <1>2, NotLast
    <2>5. ~cmd'[c].over
      BY <2>2, <2>4 DEF Moved
    <2>6. CleanOK(c)'
      <3>1. ScopeCheck(c)' /\ SameFile(c)'
        BY <1>5, <2>2, <2>3, SeenSame DEF Reads
      <3> QED BY <2>3, <2>5, <3>1 DEF CleanOK, Guarded, Done
    <2>7. r.action = "uninstall" /\ r.pc = 6
      BY <1>3, <2>2 DEF SameHold
    <2> QED BY <1>2, <1>3, <2>2, <2>6, <2>7, Passes DEF Words, LockedFrom, Guarded
  <1> QED BY <1>4, <1>5

LEMMA ObserveOK ==
  ASSUME ServiceInv, NEW c \in Commands, Observe(c)
  PROVE  ServiceInv'
  <1> DEFINE same == ScopeCheck(c) /\ files[cmd[c].file].stamp = cmd[c].stamp
             seen == [cmd[c] EXCEPT !.status = IF Removed(c) THEN "removed" ELSE "unknown"]
  <1>1. /\ At(c, "observe") /\ UNCHANGED world
        /\ ~same => Fail(c, cmd[c])
        /\ same /\ Removed(c) /\ cmd[c].ok => Go(c, [seen EXCEPT !.clean = TRUE])
        /\ same /\ ~(Removed(c) /\ cmd[c].ok) => Fail(c, seen)
    <2>1. /\ At(c, "observe") /\ UNCHANGED world
          /\ CASE ~same -> Fail(c, cmd[c])
               [] same /\ Removed(c) /\ cmd[c].ok -> Go(c, [seen EXCEPT !.clean = TRUE])
               [] same /\ ~(Removed(c) /\ cmd[c].ok) -> Fail(c, seen)
      BY DEF Observe
    <2> HIDE DEF same, seen
    <2> QED BY <2>1
  <1>2. /\ Running(c) /\ WorldOK /\ CommandOK(c) /\ cmd[c] \in Records
        /\ cmd[c].action \in AllActions /\ cmd[c].pc \in 1..Len(Steps(cmd[c].action))
        /\ Steps(cmd[c].action)[cmd[c].pc] = "observe" /\ cmd[c].pc \in Nat
    BY <1>1, AtStep
  <1>3. cmd[c].action = "uninstall" /\ cmd[c].pc \in {8, 10}
    BY <1>2, Places
  <1>4. Reads /\ UNCHANGED <<files, dirs, named>>
    BY <1>1, ReadsWorld DEF world
  <1>5. CASE ~same
    BY <1>1, <1>2, <1>5, Refuses
  <1>6. CASE same /\ Removed(c) /\ cmd[c].ok
    <2> DEFINE k == [[cmd[c] EXCEPT !.status = "removed"] EXCEPT !.clean = TRUE]
    <2>1. Go(c, k)
      BY <1>1, <1>6
    <2>2. /\ SameHold(c, k) /\ k \in Records /\ k.clean /\ k.status = "removed"
          /\ (k.did <=> cmd[c].did) /\ k.file = cmd[c].file /\ k.stamp = cmd[c].stamp
          /\ k.action = "uninstall" /\ k.pc = cmd[c].pc
      BY <1>2, <1>3 DEF SameHold, Records, Statuses
    <2> HIDE DEF k
    <2>3. Moved(c, k, k.pc + 1, k.pc = Len(Steps(k.action)), k.ok)
      BY <1>2, <2>1, <2>2, GoMoved DEF WorldOK
    <2>4. /\ cmd'[c].action = "uninstall" /\ cmd'[c].dir = cmd[c].dir
          /\ cmd'[c].lock = cmd[c].lock /\ cmd'[c].want = cmd[c].want
          /\ cmd'[c].pc = cmd[c].pc + 1
      BY <2>2, <2>3 DEF Moved, SameHold
    <2>5. CleanOK(c)'
      <3>1. ScopeCheck(c)' /\ Here(c)'.desc = 0
        BY <1>4, <1>6, <2>4, SeenSame DEF Removed
      <3>2. cmd'[c].pc # 7
        BY <1>3, <2>4
      <3> QED BY <2>4, <3>1, <3>2 DEF CleanOK, Guarded
    <2>6. Words(c, k)
      BY <1>3, <1>6, <2>2 DEF Words, Removed
    <2>7. cmd[c].pc > 1 /\ cmd[c].pc # LockedFrom(cmd[c].action) - 2
          /\ cmd[c].pc # LockedFrom(cmd[c].action) - 1 /\ k.pc # 5
      BY <1>3, <2>2 DEF LockedFrom
    <2> QED BY <1>2, <1>4, <2>1, <2>2, <2>5, <2>6, <2>7, Passes DEF Guarded
  <1>7. CASE same /\ ~(Removed(c) /\ cmd[c].ok)
    <2>1. Fail(c, seen)
      BY <1>1, <1>7
    <2>2. ASSUME NEW s \in {"removed", "unknown"}, s = "removed" => Removed(c),
                 Fail(c, [cmd[c] EXCEPT !.status = s])
          PROVE  ServiceInv'
      <3> DEFINE k == [cmd[c] EXCEPT !.status = s]
      <3>1. /\ SameHold(c, k) /\ k \in Records /\ (k.clean <=> cmd[c].clean)
            /\ (k.did <=> cmd[c].did) /\ k.file = cmd[c].file /\ k.stamp = cmd[c].stamp
            /\ k.link = cmd[c].link /\ k.src = cmd[c].src /\ k.owner = cmd[c].owner
            /\ k.status = s /\ k.action = "uninstall"
        BY <1>2, <1>3, SMTT(60) DEF SameHold, Records, Statuses
      <3>2. Fail(c, k)
        BY <2>2
      <3> HIDE DEF k
      <3>3. Words(c, k)
        BY <1>3, <2>2, <3>1 DEF Words, Plain, Removed
      <3> QED BY <1>2, <1>4, <3>1, <3>2, <3>3, Fails
    <2>3. CASE Removed(c)
      <3>1. Fail(c, [cmd[c] EXCEPT !.status = "removed"])
        BY <2>1, <2>3
      <3> QED BY <2>2, <2>3, <3>1
    <2>4. CASE ~Removed(c)
      <3>1. Fail(c, [cmd[c] EXCEPT !.status = "unknown"])
        BY <2>1, <2>4
      <3> QED BY <2>2, <2>4, <3>1
    <2> QED BY <2>3, <2>4
  <1> QED BY <1>5, <1>6, <1>7

LEMMA LookOK ==
  ASSUME ServiceInv, NEW c \in Commands, Look(c)
  PROVE  ServiceInv'
  <1>1. At(c, "look")
    BY DEF Look
  <1>2. /\ Running(c) /\ WorldOK /\ CommandOK(c) /\ cmd[c] \in Records
        /\ cmd[c].action \in AllActions /\ cmd[c].pc \in 1..Len(Steps(cmd[c].action))
        /\ Steps(cmd[c].action)[cmd[c].pc] = "look" /\ cmd[c].pc \in Nat
    BY <1>1, AtStep
  <1>3. cmd[c].action \in {"status", "install"} /\ cmd[c].pc = 2
    BY <1>2, Places
  <1>4. ASSUME NEW test, NEW k, SameHold(c, k), Checked(c, test, k), k.did <=> cmd[c].did,
               Words(c, k)
        PROVE  ServiceInv'
    <2>1. CASE ~test
      BY <1>2, <1>4, <2>1, Refuses DEF Checked
    <2>2. CASE test
      <3>1. PICK r \in Records :
             /\ Go(c, r) /\ SameHold(c, r) /\ UNCHANGED world /\ Reads
             /\ Moved(c, r, cmd[c].pc + 1, cmd[c].pc = Len(Steps(cmd[c].action)), k.ok)
             /\ r.clean /\ (r.did <=> k.did) /\ r.file = k.file /\ r.stamp = k.stamp
             /\ r.link = k.link /\ r.owner = k.owner /\ r.src = k.src /\ r.status = k.status
        BY <1>4, <2>2, ChecksMoved
      <3>2. r.action = cmd[c].action /\ r.pc = 2 /\ Words(c, r)
            /\ k.action = cmd[c].action
        BY <1>3, <1>4, <3>1 DEF SameHold, Words
      <3>3. ~cmd[c].held
        BY <1>2, <1>3 DEF CommandOK, ControlOK, LockedFrom
      <3>4. CleanOK(c)'
        BY <3>1, <3>3 DEF CleanOK, Scoped, Moved, SameHold
      <3> QED BY <1>2, <1>3, <1>4, <3>1, <3>2, <3>4, Passes DEF Guarded, LockedFrom
    <2> QED BY <2>1, <2>2
  <1>5. CASE cmd[c].action = "status"
    <2> DEFINE k == [cmd[c] EXCEPT !.status = ReadArtifact(c)]
               test == ReadArtifact(c) # "conflict" /\ ChainCheck(c)
    <2>1. Checked(c, test, k)
      BY <1>5 DEF Look
    <2>2. ReadArtifact(c) \in {"exact", "absent", "conflict"}
      BY DEF ReadArtifact
    <2>3. CASE ~test
      <3>1. Fail(c, cmd[c]) /\ UNCHANGED world
        BY <2>1, <2>3 DEF Checked
      <3> QED BY <1>2, <3>1, Refuses
    <2>4. CASE test
      <3>1. SameHold(c, k) /\ (k.did <=> cmd[c].did) /\ Words(c, k)
        BY <1>2, <2>2, <2>4 DEF SameHold, Records, Statuses, Words, Plain
      <3> HIDE DEF k
      <3> QED BY <1>4, <2>1, <3>1
    <2> QED BY <2>3, <2>4
  <1>6. CASE cmd[c].action # "status"
    <2>1. Checked(c, ReadArtifact(c) # "conflict", cmd[c])
      BY <1>6 DEF Look
    <2>2. SameHold(c, cmd[c]) /\ Words(c, cmd[c])
      BY <1>2 DEF SameHold, Words
    <2> QED BY <1>4, <2>1, <2>2
  <1> QED BY <1>5, <1>6

LEMMA StatOK ==
  ASSUME ServiceInv, NEW c \in Commands, Stat(c)
  PROVE  ServiceInv'
  <1> DEFINE k == [cmd[c] EXCEPT !.file = Here(c).desc,
                                 !.stamp = IF Here(c).desc = 0 THEN 0
                                           ELSE files[Here(c).desc].stamp]
             test == ReadArtifact(c) = "exact"
  <1>1. At(c, "stat") /\ Checked(c, test, k)
    BY DEF Stat
  <1>2. /\ Running(c) /\ WorldOK /\ CommandOK(c) /\ cmd[c] \in Records
        /\ cmd[c].action \in AllActions /\ cmd[c].pc \in 1..Len(Steps(cmd[c].action))
        /\ Steps(cmd[c].action)[cmd[c].pc] = "stat" /\ cmd[c].pc \in Nat
    BY <1>1, AtStep
  <1>3. cmd[c].action \in Guarded /\ cmd[c].pc = 2
    BY <1>2, Places
  <1>4. CASE ~test
    <2>1. Fail(c, cmd[c]) /\ UNCHANGED world
      BY <1>1, <1>4 DEF Checked
    <2> QED BY <1>2, <2>1, Refuses
  <1>5. CASE test
    <2>1. Here(c).desc \in 0..Len(files) /\ Here(c).desc # 0 /\ Len(files) \in Nat
      BY <1>2, <1>3, <1>5, HereOK DEF ReadArtifact
    <2>2. Here(c).desc \in Nat /\ files[Here(c).desc].stamp \in Nat
      BY <1>2, <2>1, FileAt
    <2>3. SameHold(c, k) /\ (k.did <=> cmd[c].did) /\ k.status = cmd[c].status
      BY <1>2, <2>1, <2>2 DEF SameHold, Records
    <2> HIDE DEF k
    <2>4. PICK r \in Records :
           /\ Go(c, r) /\ SameHold(c, r) /\ UNCHANGED world /\ Reads
           /\ Moved(c, r, cmd[c].pc + 1, cmd[c].pc = Len(Steps(cmd[c].action)), k.ok)
           /\ r.clean /\ (r.did <=> k.did) /\ r.file = k.file /\ r.stamp = k.stamp
           /\ r.link = k.link /\ r.owner = k.owner /\ r.src = k.src /\ r.status = k.status
      BY <1>1, <1>5, <2>3, ChecksMoved
    <2>5. r.action = cmd[c].action /\ r.pc = 2 /\ Words(c, r)
      BY <1>3, <2>3, <2>4 DEF SameHold, Words
    <2>6. ~cmd[c].held
      BY <1>2, <1>3 DEF CommandOK, ControlOK, LockedFrom, Guarded
    <2>7. CleanOK(c)'
      BY <2>4, <2>6 DEF CleanOK, Scoped, Moved, SameHold
    <2> QED BY <1>2, <1>3, <2>3, <2>4, <2>5, <2>7, Passes DEF Guarded, LockedFrom
  <1> QED BY <1>4, <1>5

-----------------------------------------------------------------------------
(* The manager's answers.                                                  *)

LEMMA OwnerNat ==
  ASSUME WorldOK
  PROVE  mgr.owner \in Nat /\ Loadable \in Contents
  <1>1. mgr.owner \in Nat
    BY DEF WorldOK, Managers
  <1>2. Loadable \in Contents
    <2> SUFFICES ASSUME named # 0, dirs[named].desc # 0
                 PROVE  files[dirs[named].desc].content \in Contents
      BY DEF Loadable, Contents
    <2>1. named \in 1..Len(dirs) /\ Len(dirs) \in Nat /\ Len(files) \in Nat
      BY DEF WorldOK
    <2>2. dirs[named].desc \in 0..Len(files)
      BY <2>1 DEF WorldOK
    <2>3. dirs[named].desc \in 1..Len(files)
      BY <2>1, <2>2
    <2> QED BY <2>3, FileAt
  <1> QED BY <1>1, <1>2

LEMMA OwnerOK ==
  ASSUME ServiceInv, NEW c \in Commands, Owner(c)
  PROVE  ServiceInv'
  <1> DEFINE k == [cmd[c] EXCEPT !.owner = mgr.owner]
  <1>1. At(c, "owner") /\ Go(c, k) /\ UNCHANGED world
    BY DEF Owner
  <1>2. /\ Running(c) /\ WorldOK /\ CommandOK(c) /\ cmd[c] \in Records
        /\ cmd[c].action \in AllActions /\ cmd[c].pc \in 1..Len(Steps(cmd[c].action))
        /\ Steps(cmd[c].action)[cmd[c].pc] = "owner" /\ cmd[c].pc \in Nat
    BY <1>1, AtStep
  <1>3. cmd[c].action \in Guarded /\ cmd[c].pc = 6
    BY <1>2, Places
  <1>4. Reads /\ cmd[c].pc < Len(Steps(cmd[c].action))
    BY <1>1, <1>2, ReadsWorld, NotLast
  <1>5. /\ SameHold(c, k) /\ (k.clean <=> cmd[c].clean) /\ (k.did <=> cmd[c].did)
        /\ k.file = cmd[c].file /\ k.stamp = cmd[c].stamp /\ k.link = cmd[c].link
        /\ k.status = cmd[c].status /\ k.pc = 6
    BY <1>2, <1>3, OwnerNat DEF SameHold, Records
  <1> HIDE DEF k
  <1> QED BY <1>1, <1>2, <1>3, <1>4, <1>5, Advances DEF Guarded, ScopedFrom, LockedFrom

LEMMA LoadOK ==
  ASSUME ServiceInv, NEW c \in Commands, Load(c)
  PROVE  ServiceInv'
  <1>1. At(c, "load") /\ UNCHANGED <<files, dirs, named, runs, edits>>
    BY DEF Load
  <1>2. /\ Running(c) /\ WorldOK /\ CommandOK(c) /\ cmd[c] \in Records
        /\ cmd[c].action \in AllActions /\ cmd[c].pc \in 1..Len(Steps(cmd[c].action))
        /\ Steps(cmd[c].action)[cmd[c].pc] = "load" /\ cmd[c].pc \in Nat
    BY <1>1, AtStep
  <1>3. cmd[c].action \in {"request", "enable", "disable"} /\ cmd[c].pc = 7
    BY <1>2, Places
  <1>4. CASE ~Answers(c)
    <2>1. Fail(c, cmd[c]) /\ UNCHANGED world
      BY <1>1, <1>4 DEF Load, world
    <2> QED BY <1>2, <2>1, Refuses
  <1>5. CASE Answers(c)
    <2>1. Go(c, cmd[c])
          /\ mgr' = [mgr EXCEPT !.loaded = IF mgr.loaded = "none" THEN Loadable ELSE mgr.loaded]
      BY <1>5 DEF Load
    <2>2. mgr' \in Managers
      BY <1>2, <2>1, OwnerNat DEF WorldOK, Managers
    <2>3. Reads
      BY <1>1, <1>2, <2>2 DEF Reads, WorldOK
    <2>4. SameHold(c, cmd[c]) /\ cmd[c].pc < Len(Steps(cmd[c].action))
      BY <1>2, NotLast DEF SameHold
    <2> QED BY <1>2, <1>3, <2>1, <2>3, <2>4, Advances DEF ScopedFrom, LockedFrom
  <1> QED BY <1>4, <1>5

LEMMA LookupOK ==
  ASSUME ServiceInv, NEW c \in Commands, Lookup(c)
  PROVE  ServiceInv'
  <1>1. At(c, "lookup") /\ UNCHANGED world
    BY DEF Lookup
  <1>2. /\ Running(c) /\ WorldOK /\ CommandOK(c) /\ cmd[c] \in Records
        /\ cmd[c].action \in AllActions /\ cmd[c].pc \in 1..Len(Steps(cmd[c].action))
        /\ Steps(cmd[c].action)[cmd[c].pc] = "lookup" /\ cmd[c].pc \in Nat
    BY <1>1, AtStep
  <1>3. cmd[c].action = "observe" /\ cmd[c].pc \in {7, 9}
    BY <1>2, Places
  <1>4. CASE Fail(c, cmd[c])
    BY <1>1, <1>2, <1>4, Refuses
  <1>5. CASE Go(c, cmd[c])
    <2>1. Reads /\ SameHold(c, cmd[c]) /\ cmd[c].pc < Len(Steps(cmd[c].action))
      BY <1>1, <1>2, ReadsWorld, NotLast DEF SameHold
    <2>2. cmd[c].pc >= 8 => cmd[c].src = cmd[c].owner
      BY <1>2, <1>3 DEF CommandOK, ControlOK, Guarded
    <2> QED BY <1>2, <1>3, <1>5, <2>1, <2>2, Advances DEF ScopedFrom, LockedFrom
  <1> QED BY <1>4, <1>5 DEF Lookup

LEMMA MatchOK ==
  ASSUME ServiceInv, NEW c \in Commands, Match(c)
  PROVE  ServiceInv'
  <1> DEFINE k == [cmd[c] EXCEPT !.src = mgr.owner]
  <1>1. At(c, "match") /\ UNCHANGED world
    BY DEF Match
  <1>2. /\ Running(c) /\ WorldOK /\ CommandOK(c) /\ cmd[c] \in Records
        /\ cmd[c].action \in AllActions /\ cmd[c].pc \in 1..Len(Steps(cmd[c].action))
        /\ Steps(cmd[c].action)[cmd[c].pc] = "match" /\ cmd[c].pc \in Nat
    BY <1>1, AtStep
  <1>3. cmd[c].action \in Guarded /\ cmd[c].pc = 8
    BY <1>2, Places
  <1>4. CASE ~(Answers(c) /\ mgr.loaded = cmd[c].want)
    <2>1. Fail(c, cmd[c])
      BY <1>4 DEF Match
    <2> QED BY <1>1, <1>2, <2>1, Refuses
  <1>5. CASE Answers(c) /\ mgr.loaded = cmd[c].want
    <2>1. Go(c, k) /\ Reads /\ cmd[c].pc < Len(Steps(cmd[c].action))
      BY <1>1, <1>2, <1>5, ReadsWorld, NotLast DEF Match
    <2>2. /\ SameHold(c, k) /\ (k.clean <=> cmd[c].clean) /\ (k.did <=> cmd[c].did)
          /\ k.file = cmd[c].file /\ k.stamp = cmd[c].stamp /\ k.link = cmd[c].link
          /\ k.status = cmd[c].status /\ k.src = k.owner
      BY <1>2, <1>5, OwnerNat DEF SameHold, Records, Answers
    <2> HIDE DEF k
    <2> QED BY <1>2, <1>3, <2>1, <2>2, Advances DEF Guarded, ScopedFrom, LockedFrom
  <1> QED BY <1>4, <1>5

LEMMA SameOwnerOK ==
  ASSUME ServiceInv, NEW c \in Commands, SameOwner(c)
  PROVE  ServiceInv'
  <1>1. At(c, "same owner") /\ UNCHANGED world
    BY DEF SameOwner
  <1>2. /\ Running(c) /\ WorldOK /\ CommandOK(c) /\ cmd[c] \in Records
        /\ cmd[c].action \in AllActions /\ cmd[c].pc \in 1..Len(Steps(cmd[c].action))
        /\ Steps(cmd[c].action)[cmd[c].pc] = "same owner" /\ cmd[c].pc \in Nat
    BY <1>1, AtStep
  <1>3. /\ cmd[c].action \in Guarded /\ cmd[c].action # "install" /\ cmd[c].action # "uninstall"
        /\ cmd[c].action # "status" /\ cmd[c].pc \in {10, 11, 18}
    BY <1>2, Places, ZenonT(60) DEF Guarded
  <1>4. CASE Fail(c, cmd[c])
    BY <1>1, <1>2, <1>4, Refuses
  <1>5. CASE Go(c, cmd[c])
    <2>1. Reads /\ SameHold(c, cmd[c]) /\ cmd[c].pc < Len(Steps(cmd[c].action))
      BY <1>1, <1>2, ReadsWorld, NotLast DEF SameHold
    <2>2. cmd[c].src = cmd[c].owner
      <3>1. cmd[c].pc >= 9 /\ cmd[c].action # "none"
        BY <1>3 DEF Guarded
      <3> QED BY <1>2, <1>3, <3>1 DEF CommandOK, ControlOK
    <2>3. cmd[c].pc >= ScopedFrom(cmd[c].action)
      BY <1>3 DEF ScopedFrom, LockedFrom
    <2>4. cmd[c].action \in {"enable", "disable"} => cmd[c].pc # 14
      BY <1>3
    <2> QED BY <1>2, <1>3, <1>5, <2>1, <2>2, <2>3, <2>4, Advances
  <1> QED BY <1>4, <1>5 DEF SameOwner

LEMMA RequestOK ==
  ASSUME ServiceInv, NEW c \in Commands, Request(c)
  PROVE  ServiceInv'
  <1>1. At(c, "request") /\ UNCHANGED world
    BY DEF Request
  <1>2. /\ Running(c) /\ WorldOK /\ CommandOK(c) /\ cmd[c] \in Records
        /\ cmd[c].action \in AllActions /\ cmd[c].pc \in 1..Len(Steps(cmd[c].action))
        /\ Steps(cmd[c].action)[cmd[c].pc] = "request" /\ cmd[c].pc \in Nat
    BY <1>1, AtStep
  <1>3. cmd[c].action = "request" /\ cmd[c].pc = 12
    BY <1>2, Places
  <1>4. Reads /\ UNCHANGED <<files, dirs, named>>
    BY <1>1, ReadsWorld DEF world
  <1>5. Scoped(c) => GuardCheck(c)
    BY <1>2, <1>3 DEF CommandOK, CleanOK, Guarded
  <1>6. cmd[c].held
    BY <1>2, <1>3, HeldHere DEF LockedFrom
  <1> DEFINE h == [cmd[c] EXCEPT !.did = TRUE, !.src = mgr.owner]
  <1>7. CASE Answers(c) /\ Go(c, [h EXCEPT !.status = "accepted"])
    <2> DEFINE k == [h EXCEPT !.status = "accepted"]
    <2>1. /\ SameHold(c, k) /\ (k.clean <=> cmd[c].clean) /\ k.did /\ k.file = cmd[c].file
          /\ k.stamp = cmd[c].stamp /\ k.link = cmd[c].link /\ k.status = "accepted"
          /\ k.src = k.owner /\ k \in Records /\ k.action = "request" /\ k.pc = 12
      BY <1>2, <1>3, <1>7, OwnerNat DEF SameHold, Records, Statuses, Answers
    <2>2. Go(c, k)
      BY <1>7
    <2> HIDE DEF k
    <2>3. Moved(c, k, k.pc + 1, k.pc = Len(Steps(k.action)), k.ok)
      BY <1>2, <2>1, <2>2, GoMoved DEF WorldOK
    <2>4. /\ cmd'[c].action = "request" /\ cmd'[c].dir = cmd[c].dir
          /\ cmd'[c].lock = cmd[c].lock /\ cmd'[c].want = cmd[c].want
          /\ cmd'[c].pc = 13 /\ cmd'[c].file = cmd[c].file /\ cmd'[c].stamp = cmd[c].stamp
          /\ cmd'[c].status = "accepted" /\ cmd'[c].did /\ (cmd'[c].clean <=> cmd[c].clean)
          /\ (cmd'[c].held <=> cmd[c].held)
      BY <2>1, <2>3 DEF Moved, SameHold
    <2>5. DidOK(cmd'[c]) /\ FileOK(cmd[c])'
      BY <2>4 DEF DidOK, FileOK
    <2>6. CleanOK(c)'
      <3> SUFFICES ASSUME Scoped(c)' PROVE CleanOK(c)'
        BY DEF CleanOK
      <3>1. GuardCheck(c)
        BY <1>3, <1>5, <2>4 DEF Scoped, ScopedFrom, LockedFrom
      <3>2. GuardCheck(c)'
        BY <1>4, <2>4, <3>1, SeenSame
      <3> QED BY <2>4, <3>2 DEF CleanOK, GuardCheck
    <2> QED BY <1>2, <1>3, <1>4, <2>1, <2>2, <2>5, <2>6, PureGoes DEF LockedFrom
  <1>8. CASE Answers(c) /\ Fail(c, [h EXCEPT !.status = "unknown"])
    <2> DEFINE k == [[h EXCEPT !.status = "unknown"] EXCEPT !.ok = FALSE]
    <2>1. /\ SameHold(c, k) /\ (k.clean <=> cmd[c].clean) /\ k.did /\ k.file = cmd[c].file
          /\ k.stamp = cmd[c].stamp /\ k.link = cmd[c].link /\ k.status = "unknown"
          /\ k.src = k.owner /\ k \in Records /\ k.action = "request" /\ k.pc = 12 /\ ~k.ok
      BY <1>2, <1>3, <1>8, OwnerNat, ZenonT(60) DEF SameHold, Records, Statuses, Answers
    <2>2. End(c, k)
      BY <1>8 DEF Fail
    <2> HIDE DEF k
    <2>3. Moved(c, k, k.pc, TRUE, k.ok)
      BY <1>2, <2>1, <2>2, EndMoved DEF WorldOK
    <2>4. /\ cmd'[c].action = "request" /\ cmd'[c].dir = cmd[c].dir
          /\ cmd'[c].lock = cmd[c].lock /\ cmd'[c].want = cmd[c].want
          /\ cmd'[c].pc = 12 /\ cmd'[c].file = cmd[c].file /\ cmd'[c].stamp = cmd[c].stamp
          /\ cmd'[c].status = "unknown" /\ cmd'[c].did /\ (cmd'[c].clean <=> cmd[c].clean)
          /\ (cmd'[c].held <=> cmd[c].held)
      BY <2>1, <2>3 DEF Moved, SameHold
    <2>5. DidOK(cmd'[c]) /\ FileOK(cmd[c])'
      BY <2>4 DEF DidOK, FileOK
    <2>6. CleanOK(c)'
      <3> SUFFICES ASSUME Scoped(c)' PROVE CleanOK(c)'
        BY DEF CleanOK
      <3>1. GuardCheck(c)
        BY <1>3, <1>5, <2>4 DEF Scoped, ScopedFrom, LockedFrom
      <3>2. GuardCheck(c)'
        BY <1>4, <2>4, <3>1, SeenSame
      <3> QED BY <2>4, <3>2 DEF CleanOK, GuardCheck
    <2> QED BY <1>2, <1>4, <2>1, <2>2, <2>5, <2>6, PureEnds
  <1>9. CASE Fail(c, [cmd[c] EXCEPT !.status = "unknown"])
    BY <1>1, <1>2, <1>9, FailsWith DEF Plain
  <1> QED BY <1>7, <1>8, <1>9 DEF Request

LEMMA ReportOK ==
  ASSUME ServiceInv, NEW c \in Commands, Report(c)
  PROVE  ServiceInv'
  <1> DEFINE k == [cmd[c] EXCEPT !.status = "observed"]
             test == ScopeCheck(c) /\ ReadArtifact(c) = "exact" /\ SameFile(c)
  <1>1. At(c, "report") /\ Checked(c, test, k)
    BY DEF Report, GuardCheck
  <1>2. /\ Running(c) /\ WorldOK /\ CommandOK(c) /\ cmd[c] \in Records
        /\ cmd[c].action \in AllActions /\ cmd[c].pc \in 1..Len(Steps(cmd[c].action))
        /\ Steps(cmd[c].action)[cmd[c].pc] = "report" /\ cmd[c].pc \in Nat
    BY <1>1, AtStep
  <1>3. cmd[c].action = "observe" /\ cmd[c].pc = 11
    BY <1>2, Places
  <1>4. CASE ~test
    BY <1>1, <1>2, <1>4, Refuses DEF Checked
  <1>5. CASE test
    <2>1. /\ SameHold(c, k) /\ (k.did <=> cmd[c].did) /\ k.file = cmd[c].file
          /\ k.stamp = cmd[c].stamp /\ k.status = "observed" /\ k.src = cmd[c].src
          /\ k.owner = cmd[c].owner
      BY <1>2 DEF SameHold, Records, Statuses
    <2> HIDE DEF k
    <2>2. PICK r \in Records :
           /\ Go(c, r) /\ SameHold(c, r) /\ UNCHANGED world /\ Reads
           /\ Moved(c, r, cmd[c].pc + 1, cmd[c].pc = Len(Steps(cmd[c].action)), k.ok)
           /\ r.clean /\ (r.did <=> k.did) /\ r.file = k.file /\ r.stamp = k.stamp
           /\ r.link = k.link /\ r.owner = k.owner /\ r.src = k.src /\ r.status = k.status
      BY <1>1, <1>5, <2>1, ChecksMoved
    <2>3. /\ cmd'[c].action = "observe" /\ cmd'[c].dir = cmd[c].dir
          /\ cmd'[c].lock = cmd[c].lock /\ cmd'[c].want = cmd[c].want
          /\ cmd'[c].pc = 12 /\ cmd'[c].file = cmd[c].file /\ cmd'[c].stamp = cmd[c].stamp
          /\ cmd'[c].status = "observed" /\ (cmd'[c].did <=> cmd[c].did)
      BY <1>3, <2>1, <2>2 DEF Moved, SameHold
    <2>4. DidOK(cmd'[c])
      BY <1>2, <1>3, <2>3 DEF DidOK, CommandOK
    <2>5. FileOK(cmd[c])'
      BY <2>3 DEF FileOK
    <2>6. CleanOK(c)'
      <3>1. GuardCheck(c)'
        BY <1>5, <2>2, <2>3, SeenSame DEF Reads, GuardCheck
      <3> QED BY <2>3, <3>1 DEF CleanOK, GuardCheck
    <2>7. r.src = r.owner /\ r.action = "observe"
      BY <1>2, <1>3, <2>1, <2>2 DEF CommandOK, ControlOK, Guarded, SameHold
    <2> QED BY <1>2, <1>3, <2>2, <2>4, <2>5, <2>6, <2>7, PureGoes DEF LockedFrom
  <1> QED BY <1>4, <1>5

-----------------------------------------------------------------------------
(* The login link's checks.                                                *)

LEMMA OpenLinkOK ==
  ASSUME ServiceInv, NEW c \in Commands, OpenLink(c)
  PROVE  ServiceInv'
  <1> DEFINE link == Here(c).link
             refuse == ~GuardCheck(c) \/ (link # 0 /\ files[link].content # "target")
             goes == GuardCheck(c) /\ (link # 0 => files[link].content = "target")
             wanted == (link # 0) = (cmd[c].action = "enable")
             k == [cmd[c] EXCEPT !.link = link, !.clean = TRUE]
             e == [k EXCEPT !.status = "not_needed"]
  <1>1. /\ At(c, "open link") /\ UNCHANGED world
        /\ refuse => Fail(c, cmd[c])
        /\ goes /\ wanted => End(c, e)
        /\ goes /\ ~wanted => Go(c, k)
    <2>1. /\ At(c, "open link") /\ UNCHANGED world
          /\ CASE refuse -> Fail(c, cmd[c])
               [] goes -> IF wanted THEN End(c, e) ELSE Go(c, k)
      BY DEF OpenLink
    <2>2. ~(refuse /\ goes)
      OBVIOUS
    <2> HIDE DEF refuse, goes, wanted, k, e
    <2> QED BY <2>1, <2>2
  <1>2. /\ Running(c) /\ WorldOK /\ CommandOK(c) /\ cmd[c] \in Records
        /\ cmd[c].action \in AllActions /\ cmd[c].pc \in 1..Len(Steps(cmd[c].action))
        /\ Steps(cmd[c].action)[cmd[c].pc] = "open link" /\ cmd[c].pc \in Nat
    BY <1>1, AtStep
  <1>3. cmd[c].action \in {"enable", "disable"} /\ cmd[c].pc = 13
    BY <1>2, Places
  <1>4. Reads /\ UNCHANGED <<files, dirs, named>>
    BY <1>1, ReadsWorld DEF world
  <1>0. /\ cmd[c].pc > 1 /\ cmd[c].pc >= 9 /\ cmd[c].action \in Guarded
        /\ cmd[c].action # "status" /\ LockedFrom(cmd[c].action) = 5
        /\ cmd[c].pc >= LockedFrom(cmd[c].action) /\ cmd[c].pc >= ScopedFrom(cmd[c].action)
        /\ cmd[c].pc # LockedFrom(cmd[c].action) - 2
        /\ cmd[c].pc # LockedFrom(cmd[c].action) - 1
    BY <1>3 DEF Guarded, LockedFrom, ScopedFrom
  <1>5. cmd[c].held /\ cmd[c].src = cmd[c].owner
    BY <1>0, <1>2, HeldHere, SameSource
  <1>10. ~cmd[c].did
    <2>1. cmd[c].did => cmd[c].pc >= 15
      BY <1>2, <1>3, DidFrom DEF CommandOK
    <2> QED BY <1>3, <2>1
  <1>6. link \in Nat
    BY <1>0, <1>2, HereNat
  <1>7. CASE refuse
    BY <1>1, <1>2, <1>7, Refuses
  <1>8. CASE goes /\ wanted
    <2>1. /\ SameHold(c, e) /\ e \in Records /\ ~e.did /\ e.status = "not_needed"
          /\ e.file = cmd[c].file /\ e.stamp = cmd[c].stamp /\ e.src = e.owner
          /\ e.action = cmd[c].action /\ e.pc = 13 /\ e.held
      BY <1>2, <1>3, <1>5, <1>6, <1>10 DEF SameHold, Records, Statuses
    <2>2. End(c, e)
      BY <1>1, <1>8
    <2> HIDE DEF k, e
    <2>3. Moved(c, e, e.pc, TRUE, e.ok)
      BY <1>2, <2>1, <2>2, EndMoved DEF WorldOK
    <2>4. /\ cmd'[c].action = cmd[c].action /\ cmd'[c].dir = cmd[c].dir
          /\ cmd'[c].lock = cmd[c].lock /\ cmd'[c].want = cmd[c].want
          /\ cmd'[c].pc = 13 /\ cmd'[c].file = cmd[c].file /\ cmd'[c].stamp = cmd[c].stamp
          /\ cmd'[c].status = "not_needed" /\ ~cmd'[c].did
      BY <2>1, <2>3 DEF Moved, SameHold
    <2>5. DidOK(cmd'[c]) /\ FileOK(cmd[c])'
      BY <1>3, <2>4 DEF DidOK, FileOK
    <2>6. CleanOK(c)'
      <3>1. GuardCheck(c)' /\ Here(c)' = Here(c) /\ UNCHANGED files
        BY <1>4, <1>8, <2>4, SeenSame
      <3>2. cmd[c].action = "enable" => link # 0 /\ files[link].content = "target"
        BY <1>8
      <3>3. cmd[c].action = "disable" => link = 0
        BY <1>8
      <3> QED BY <1>3, <2>4, <3>1, <3>2, <3>3 DEF CleanOK, GuardCheck
    <2>7. e.action = cmd[c].action /\ e.pc = cmd[c].pc
      BY <1>3, <2>1
    <2> QED BY <1>0, <1>2, <1>4, <2>1, <2>2, <2>5, <2>6, <2>7, PureEnds
  <1>9. CASE goes /\ ~wanted
    <2>1. /\ SameHold(c, k) /\ k \in Records /\ (k.did <=> cmd[c].did)
          /\ k.status = cmd[c].status /\ k.file = cmd[c].file /\ k.stamp = cmd[c].stamp
          /\ k.src = k.owner /\ k.action = cmd[c].action /\ k.pc = 13
      BY <1>2, <1>3, <1>5, <1>6 DEF SameHold, Records, Statuses
    <2>2. Go(c, k)
      BY <1>1, <1>9
    <2> HIDE DEF k, e
    <2>3. Moved(c, k, k.pc + 1, k.pc = Len(Steps(k.action)), k.ok)
      BY <1>2, <2>1, <2>2, GoMoved DEF WorldOK
    <2>4. /\ cmd'[c].action = cmd[c].action /\ cmd'[c].dir = cmd[c].dir
          /\ cmd'[c].lock = cmd[c].lock /\ cmd'[c].want = cmd[c].want
          /\ cmd'[c].pc = 14 /\ cmd'[c].file = cmd[c].file /\ cmd'[c].stamp = cmd[c].stamp
      BY <2>1, <2>3 DEF Moved, SameHold
    <2>5. cmd[c].pc # Len(Steps(cmd[c].action))
      BY <1>2, NotLast
    <2>6. ~cmd'[c].over
      BY <1>3, <2>1, <2>3, <2>5 DEF Moved
    <2>7. CleanOK(c)'
      <3>1. GuardCheck(c)'
        BY <1>4, <1>9, <2>4, SeenSame
      <3> QED BY <1>3, <2>4, <2>6, <3>1 DEF CleanOK, GuardCheck, Done
    <2>8. Words(c, k) /\ k.action # "uninstall"
      BY <1>3, <2>1 DEF Words
    <2> QED BY <1>0, <1>2, <1>4, <2>1, <2>2, <2>7, <2>8, Passes
  <1> QED BY <1>7, <1>8, <1>9

LEMMA SameLinkOK ==
  ASSUME ServiceInv, NEW c \in Commands, SameLink(c)
  PROVE  ServiceInv'
  <1> DEFINE test == GuardCheck(c) /\ Here(c).link = cmd[c].link
  <1>1. At(c, "same link") /\ Checked(c, test, cmd[c])
    BY DEF SameLink
  <1>2. /\ Running(c) /\ WorldOK /\ CommandOK(c) /\ cmd[c] \in Records
        /\ cmd[c].action \in AllActions /\ cmd[c].pc \in 1..Len(Steps(cmd[c].action))
        /\ Steps(cmd[c].action)[cmd[c].pc] = "same link" /\ cmd[c].pc \in Nat
    BY <1>1, AtStep
  <1>3. cmd[c].action \in {"enable", "disable"} /\ cmd[c].pc = 14
    BY <1>2, Places
  <1>4. CASE ~test
    BY <1>1, <1>2, <1>4, Refuses DEF Checked
  <1>5. CASE test
    <2>1. SameHold(c, cmd[c])
      BY <1>2 DEF SameHold
    <2>2. PICK r \in Records :
           /\ Go(c, r) /\ SameHold(c, r) /\ UNCHANGED world /\ Reads
           /\ Moved(c, r, cmd[c].pc + 1, cmd[c].pc = Len(Steps(cmd[c].action)), cmd[c].ok)
           /\ r.clean /\ (r.did <=> cmd[c].did) /\ r.file = cmd[c].file
           /\ r.stamp = cmd[c].stamp /\ r.link = cmd[c].link /\ r.owner = cmd[c].owner
           /\ r.src = cmd[c].src /\ r.status = cmd[c].status
      BY <1>1, <1>5, <2>1, ChecksMoved
    <2>3. /\ cmd'[c].action = cmd[c].action /\ cmd'[c].dir = cmd[c].dir
          /\ cmd'[c].lock = cmd[c].lock /\ cmd'[c].want = cmd[c].want
          /\ cmd'[c].file = cmd[c].file /\ cmd'[c].stamp = cmd[c].stamp
          /\ cmd'[c].link = cmd[c].link
      BY <2>2 DEF Moved, SameHold
    <2>4. cmd[c].pc # Len(Steps(cmd[c].action))
      BY <1>2, NotLast
    <2>5. ~cmd'[c].over
      BY <2>2, <2>4 DEF Moved
    <2>6. CleanOK(c)'
      <3>1. GuardCheck(c)' /\ Here(c)'.link = cmd'[c].link
        BY <1>5, <2>2, <2>3, SeenSame DEF Reads
      <3> QED BY <1>3, <2>3, <2>5, <3>1 DEF CleanOK, GuardCheck, Done
    <2>7. r.src = r.owner /\ r.action = cmd[c].action
      <3>1. cmd[c].action \in Guarded /\ cmd[c].pc >= 9
        BY <1>3 DEF Guarded
      <3> QED BY <1>2, <2>2, <3>1, SameSource DEF SameHold
    <2>8. /\ cmd[c].pc > 1 /\ cmd[c].pc # LockedFrom(cmd[c].action) - 2
          /\ cmd[c].pc # LockedFrom(cmd[c].action) - 1 /\ r.action # "uninstall"
      BY <1>3, <2>7 DEF LockedFrom
    <2> QED BY <1>2, <2>2, <2>6, <2>7, <2>8, Passes DEF Words
  <1> QED BY <1>4, <1>5

LEMMA ChangedOK ==
  ASSUME ServiceInv, NEW c \in Commands, Changed(c)
  PROVE  ServiceInv'
  <1> DEFINE l == IF cmd[c].action = "enable" THEN Here(c).link ELSE cmd[c].link
             k == [cmd[c] EXCEPT !.status = "changed", !.clean = TRUE, !.link = l]
             r == [k EXCEPT !.ok = FALSE]
  <1>1. /\ At(c, "changed") /\ UNCHANGED world
        /\ ~ChangeSeen(c) => Fail(c, cmd[c])
        /\ ChangeSeen(c) /\ cmd[c].ok => Go(c, k)
        /\ ChangeSeen(c) /\ ~cmd[c].ok => End(c, r)
    <2>1. /\ At(c, "changed") /\ UNCHANGED world
          /\ CASE ~ChangeSeen(c) -> Fail(c, cmd[c])
               [] ChangeSeen(c) /\ cmd[c].ok -> Go(c, k)
               [] ChangeSeen(c) /\ ~cmd[c].ok -> Fail(c, k)
      BY DEF Changed
    <2>2. Fail(c, k) => End(c, r)
      BY DEF Fail
    <2> HIDE DEF k, r
    <2> QED BY <2>1, <2>2
  <1>2. /\ Running(c) /\ WorldOK /\ CommandOK(c) /\ cmd[c] \in Records
        /\ cmd[c].action \in AllActions /\ cmd[c].pc \in 1..Len(Steps(cmd[c].action))
        /\ Steps(cmd[c].action)[cmd[c].pc] = "changed" /\ cmd[c].pc \in Nat
    BY <1>1, AtStep
  <1>3. cmd[c].action \in {"enable", "disable"} /\ cmd[c].pc \in {16, 19}
    BY <1>2, Places
  <1>4. Reads /\ UNCHANGED <<files, dirs, named>>
    BY <1>1, ReadsWorld DEF world
  <1>5. cmd[c].src = cmd[c].owner
    <2>1. cmd[c].pc >= 9 /\ cmd[c].action # "none" /\ cmd[c].action \in Guarded
      BY <1>3 DEF Guarded
    <2> QED BY <1>2, <2>1 DEF CommandOK, ControlOK
  <1>6. l \in Nat
    <2>1. Here(c).link \in Nat
      BY <1>2, <1>3, HereOK
    <2> QED BY <1>2, <2>1 DEF Records
  <1> HIDE DEF l
  <1>7. /\ SameHold(c, k) /\ k \in Records /\ (k.did <=> cmd[c].did)
        /\ k.status = "changed" /\ k.file = cmd[c].file /\ k.stamp = cmd[c].stamp
        /\ k.src = k.owner /\ k.action = cmd[c].action /\ k.pc = cmd[c].pc
    BY <1>2, <1>5, <1>6 DEF SameHold, Records, Statuses
  <1>8. /\ SameHold(c, r) /\ r \in Records /\ (r.did <=> cmd[c].did)
        /\ r.status = "changed" /\ r.file = cmd[c].file /\ r.stamp = cmd[c].stamp
        /\ r.src = r.owner /\ r.action = cmd[c].action /\ r.pc = cmd[c].pc /\ ~r.ok
    BY <1>2, <1>5, <1>6 DEF SameHold, Records, Statuses
  <1> HIDE DEF k, r
  <1>9. CASE ~ChangeSeen(c)
    BY <1>1, <1>2, <1>9, Refuses
  <1>10. CASE ChangeSeen(c) /\ cmd[c].ok
    <2>1. Go(c, k)
      BY <1>1, <1>10
    <2>2. Moved(c, k, k.pc + 1, k.pc = Len(Steps(k.action)), k.ok)
      BY <1>2, <1>7, <2>1, GoMoved DEF WorldOK
    <2>3. /\ cmd'[c].action = cmd[c].action /\ cmd'[c].dir = cmd[c].dir
          /\ cmd'[c].lock = cmd[c].lock /\ cmd'[c].want = cmd[c].want
          /\ cmd'[c].pc = cmd[c].pc + 1 /\ cmd'[c].file = cmd[c].file
          /\ cmd'[c].stamp = cmd[c].stamp
      BY <1>7, <2>2 DEF Moved, SameHold
    <2>4. CleanOK(c)'
      <3>1. GuardCheck(c)' /\ Here(c)' = Here(c) /\ UNCHANGED files
        BY <1>4, <1>10, <2>3, SeenSame DEF ChangeSeen
      <3>2. cmd[c].action = "enable" => Here(c).link # 0 /\ files[Here(c).link].content = "target"
        BY <1>10 DEF ChangeSeen
      <3>3. cmd[c].action = "disable" => Here(c).link = 0
        BY <1>10 DEF ChangeSeen
      <3>4. cmd'[c].pc # 15
        BY <1>3, <2>3
      <3> QED BY <1>3, <2>3, <3>1, <3>2, <3>3, <3>4 DEF CleanOK, GuardCheck
    <2>5. Words(c, k)
      BY <1>7 DEF Words, Plain
    <2>6. cmd[c].pc > 1 /\ cmd[c].pc # LockedFrom(cmd[c].action) - 2
          /\ cmd[c].pc # LockedFrom(cmd[c].action) - 1 /\ k.action # "uninstall"
      BY <1>3, <1>7 DEF LockedFrom
    <2> QED BY <1>2, <1>4, <1>7, <2>1, <2>4, <2>5, <2>6, Passes
  <1>11. CASE ChangeSeen(c) /\ ~cmd[c].ok
    <2>1. End(c, r)
      BY <1>1, <1>11
    <2>2. Moved(c, r, r.pc, TRUE, r.ok)
      BY <1>2, <1>8, <2>1, EndMoved DEF WorldOK
    <2>3. /\ cmd'[c].action = cmd[c].action /\ cmd'[c].dir = cmd[c].dir
          /\ cmd'[c].lock = cmd[c].lock /\ cmd'[c].want = cmd[c].want
          /\ cmd'[c].pc = cmd[c].pc /\ cmd'[c].file = cmd[c].file
          /\ cmd'[c].stamp = cmd[c].stamp /\ ~cmd'[c].ok
      BY <1>8, <2>2 DEF Moved, SameHold
    <2>4. Says(c, r, r.pc) /\ Words(c, r)
      BY <1>8, <2>2 DEF Says, Moved, Words, Plain
    <2>5. DidOK(cmd'[c])
      BY <1>2, <1>8, <2>4, DidGoes DEF CommandOK
    <2>6. FileOK(cmd[c])'
      BY <1>2, <1>4, <1>8, <2>4, FileGoes DEF CommandOK, SameHold
    <2>7. CleanOK(c)'
      <3>1. GuardCheck(c)'
        BY <1>4, <1>11, <2>3, SeenSame DEF ChangeSeen
      <3>2. cmd'[c].pc # 15
        BY <1>3, <2>3
      <3> QED BY <1>3, <2>3, <3>1, <3>2 DEF CleanOK, GuardCheck, Done
    <2> QED BY <1>2, <1>4, <1>8, <2>1, <2>5, <2>6, <2>7, PureEnds
  <1> QED BY <1>9, <1>10, <1>11

-----------------------------------------------------------------------------
(* The lock, the temporary file, and how a command begins and ends.        *)

LEMMA FlockOK ==
  ASSUME ServiceInv, NEW c \in Commands, Flock(c)
  PROVE  ServiceInv'
  <1>1. At(c, "flock") /\ UNCHANGED world
    BY DEF Flock
  <1>2. /\ Running(c) /\ WorldOK /\ CommandOK(c) /\ cmd[c] \in Records
        /\ cmd[c].action \in AllActions /\ cmd[c].pc \in 1..Len(Steps(cmd[c].action))
        /\ Steps(cmd[c].action)[cmd[c].pc] = "flock" /\ cmd[c].pc \in Nat
    BY <1>1, AtStep
  <1>3. /\ cmd[c].action \notin {"none", "status"}
        /\ cmd[c].pc = LockedFrom(cmd[c].action) - 1 /\ cmd[c].pc \in {3, 4}
        /\ cmd[c].action = "uninstall" => cmd[c].pc = 3
    <2>1. \/ cmd[c].action \in {"install", "request", "observe", "enable", "disable"} /\ cmd[c].pc = 4
          \/ cmd[c].action = "uninstall" /\ cmd[c].pc = 3
      BY <1>2, Places
    <2> QED BY <2>1 DEF LockedFrom
  <1>4. Reads /\ UNCHANGED <<files, dirs, named>>
    BY <1>1, ReadsWorld DEF world
  <1>5. CASE ~(LockCheck(c) /\ LockFree(c))
    BY <1>1, <1>2, <1>5, Refuses DEF Flock
  <1>6. CASE LockCheck(c) /\ LockFree(c)
    <2> DEFINE k == [cmd[c] EXCEPT !.held = TRUE]
    <2>1. /\ k \in Records /\ k.action = cmd[c].action /\ k.want = cmd[c].want
          /\ k.pc = cmd[c].pc /\ k.dir = cmd[c].dir /\ k.lock = cmd[c].lock /\ k.held
          /\ (k.temp <=> cmd[c].temp) /\ (k.did <=> cmd[c].did) /\ k.status = cmd[c].status
          /\ k.file = cmd[c].file /\ k.stamp = cmd[c].stamp
      BY <1>2 DEF Records
    <2>2. Go(c, k)
      BY <1>6 DEF Flock
    <2> HIDE DEF k
    <2>3. Moved(c, k, k.pc + 1, k.pc = Len(Steps(k.action)), k.ok)
      BY <1>2, <2>1, <2>2, GoMoved DEF WorldOK
    <2>4. Says(c, k, k.pc + 1) /\ Words(c, k) /\ k.pc + 1 \in Nat /\ cmd[c].pc <= k.pc + 1
      BY <1>2, <2>1, <2>3 DEF Says, Moved, Words
    <2>5. DidOK(cmd'[c])
      BY <1>2, <2>1, <2>4, DidGoes DEF CommandOK
    <2>6. k.action = "uninstall" /\ k.pc + 1 >= 6 => cmd[c].pc >= 6
      BY <1>2, <1>3, <2>1
    <2>7. FileOK(cmd[c])'
      BY <1>2, <1>4, <2>1, <2>4, <2>6, FileGoes DEF CommandOK
    <2>8. cmd[c].pc # Len(Steps(cmd[c].action)) /\ cmd[c].pc + 1 <= Len(Steps(cmd[c].action))
      <3>1. Len(Steps(cmd[c].action)) \in Nat
        BY <1>2, <1>3, LongSteps
      <3>2. cmd[c].pc # Len(Steps(cmd[c].action)) /\ cmd[c].pc < Len(Steps(cmd[c].action))
        BY <1>2, NotLast
      <3> QED BY <1>2, <3>1, <3>2
    <2>9. /\ cmd'[c].action = cmd[c].action /\ cmd'[c].pc = cmd[c].pc + 1 /\ ~cmd'[c].over
          /\ cmd'[c].dir = cmd[c].dir /\ cmd'[c].lock = cmd[c].lock /\ cmd'[c].held
          /\ (cmd'[c].temp <=> cmd[c].temp)
      BY <2>1, <2>3, <2>8 DEF Moved
    <2>10. /\ cmd'[c].pc = LockedFrom(cmd'[c].action) /\ cmd'[c].pc \in {4, 5}
           /\ cmd'[c].pc > 1 /\ cmd'[c].pc \in 1..Len(Steps(cmd'[c].action)) + 1
           /\ cmd'[c].pc <= Len(Steps(cmd'[c].action))
      <3>1. Len(Steps(cmd[c].action)) \in Nat
        BY <1>2, <1>3, LongSteps
      <3>2. cmd'[c].pc \in 1..Len(Steps(cmd[c].action)) + 1
        BY <1>2, <2>8, <2>9, <3>1
      <3>3. LockedFrom(cmd[c].action) \in Nat
        BY DEF LockedFrom
      <3> QED BY <1>2, <1>3, <2>8, <2>9, <3>2, <3>3
    <2>11. cmd[c].dir \in 1..Len(dirs) /\ cmd[c].lock \in 1..Len(files)
      <3>1. cmd[c].pc > 1 /\ cmd[c].pc >= LockedFrom(cmd[c].action) - 1
        BY <1>3 DEF LockedFrom
      <3> QED BY <1>2, <1>3, <3>1 DEF CommandOK, ControlOK
    <2>12. ControlOK(cmd[c])'
      <3>1. cmd'[c].pc < 9
        BY <2>10
      <3>2. cmd'[c].action \notin {"none", "status"}
        BY <1>3, <2>9
      <3> QED BY <1>4, <2>9, <2>10, <2>11, <3>1, <3>2 DEF ControlOK
    <2>13. DoneOK(cmd'[c])
      BY <2>9 DEF DoneOK
    <2>14. CleanOK(c)'
      <3>1. ~(cmd'[c].pc >= ScopedFrom(cmd'[c].action))
        BY <2>10 DEF ScopedFrom, LockedFrom
      <3> QED BY <3>1 DEF CleanOK, Scoped
    <2>15. CommandOK(c)'
      BY <2>5, <2>7, <2>12, <2>13, <2>14 DEF CommandOK
    <2>16. cmd' \in [Commands -> Records] /\ \A o \in Commands \ {c} : cmd'[o] = cmd[o]
      BY <2>3 DEF Moved
    <2>17. TempsOK'
      BY <1>4, <2>9, <2>16, PureTemps DEF Reads
    <2> QED BY <1>4, <1>6, <2>9, <2>15, <2>16, <2>17, PureStep DEF Reads
  <1> QED BY <1>5, <1>6

LEMMA TempOK ==
  ASSUME ServiceInv, NEW c \in Commands, Temp(c)
  PROVE  ServiceInv'
  <1>1. At(c, "temp") /\ UNCHANGED world
    BY DEF Temp
  <1>2. /\ Running(c) /\ WorldOK /\ CommandOK(c) /\ cmd[c] \in Records
        /\ cmd[c].action \in AllActions /\ cmd[c].pc \in 1..Len(Steps(cmd[c].action))
        /\ Steps(cmd[c].action)[cmd[c].pc] = "temp" /\ cmd[c].pc \in Nat
    BY <1>1, AtStep
  <1>3. cmd[c].action = "install" /\ cmd[c].pc = 7
    BY <1>2, Places
  <1>4. Reads /\ UNCHANGED <<files, dirs, named>>
    BY <1>1, ReadsWorld DEF world
  <1>5. CASE ~(Temps(cmd[c].dir) < TempLimit)
    BY <1>1, <1>2, <1>5, Refuses DEF Temp
  <1>6. CASE Temps(cmd[c].dir) < TempLimit
    <2> DEFINE k == [cmd[c] EXCEPT !.temp = TRUE]
    <2>1. /\ k \in Records /\ k.action = "install" /\ k.want = cmd[c].want
          /\ k.pc = 7 /\ k.dir = cmd[c].dir /\ k.lock = cmd[c].lock /\ (k.held <=> cmd[c].held)
          /\ k.temp /\ (k.did <=> cmd[c].did) /\ k.status = cmd[c].status
          /\ k.file = cmd[c].file /\ k.stamp = cmd[c].stamp /\ (k.clean <=> cmd[c].clean)
      BY <1>2, <1>3 DEF Records
    <2>2. Go(c, k)
      BY <1>6 DEF Temp
    <2> HIDE DEF k
    <2>3. Moved(c, k, k.pc + 1, k.pc = Len(Steps(k.action)), k.ok)
      BY <1>2, <2>1, <2>2, GoMoved DEF WorldOK
    <2>4. Says(c, k, k.pc + 1) /\ Words(c, k) /\ k.pc + 1 \in Nat /\ cmd[c].pc <= k.pc + 1
      BY <1>2, <1>3, <2>1, <2>3 DEF Says, Moved, Words
    <2>5. DidOK(cmd'[c])
      BY <1>2, <1>3, <2>1, <2>4, DidGoes DEF CommandOK
    <2>6. FileOK(cmd[c])'
      BY <1>2, <1>3, <1>4, <2>1, <2>4, FileGoes DEF CommandOK
    <2>7. cmd[c].pc # Len(Steps(cmd[c].action))
      BY <1>2, NotLast
    <2>8. /\ cmd'[c].action = "install" /\ cmd'[c].pc = 8 /\ ~cmd'[c].over
          /\ cmd'[c].dir = cmd[c].dir /\ cmd'[c].lock = cmd[c].lock
          /\ (cmd'[c].held <=> cmd[c].held) /\ (cmd'[c].clean <=> cmd[c].clean)
          /\ cmd'[c].want = cmd[c].want
      BY <1>3, <2>1, <2>3, <2>7 DEF Moved
    <2>9. ControlOK(cmd[c])'
      <3>1. /\ cmd[c].dir \in 1..Len(dirs) /\ cmd[c].lock \in 1..Len(files) /\ cmd[c].held
        BY <1>2, <1>3 DEF CommandOK, ControlOK, LockedFrom
      <3>2. /\ cmd'[c].pc \in 1..Len(Steps(cmd'[c].action)) + 1
            /\ cmd'[c].pc <= Len(Steps(cmd'[c].action))
        <4> DEFINE n == Len(Steps(cmd[c].action))
        <4>1. n = 12
          BY <1>2, <1>3, SomeSteps
        <4> HIDE DEF n
        <4>2. cmd'[c].pc \in 1..n + 1 /\ cmd'[c].pc <= n
          BY <2>8, <4>1
        <4>3. cmd'[c].action = cmd[c].action
          BY <1>3, <2>8
        <4> QED BY <4>2, <4>3 DEF n
      <3>3. cmd'[c].pc > 1 /\ cmd'[c].pc >= LockedFrom(cmd'[c].action)
            /\ cmd'[c].action \notin Guarded
        BY <2>8 DEF LockedFrom, Guarded
      <3> QED BY <1>4, <2>8, <3>1, <3>2, <3>3 DEF ControlOK
    <2>10. DoneOK(cmd'[c])
      BY <2>8 DEF DoneOK
    <2>11. CleanOK(c)'
      <3> SUFFICES ASSUME Scoped(c)' PROVE CleanOK(c)'
        BY DEF CleanOK
      <3>1. Scoped(c)
        BY <1>3, <2>8 DEF Scoped, ScopedFrom, LockedFrom
      <3>2. ScopeCheck(c)'
        BY <1>2, <1>4, <2>8, <3>1, SeenSame DEF CommandOK, CleanOK
      <3> QED BY <2>8, <3>2 DEF CleanOK, Done, Guarded
    <2>12. CommandOK(c)'
      BY <2>5, <2>6, <2>9, <2>10, <2>11 DEF CommandOK
    <2>13. cmd' \in [Commands -> Records] /\ \A o \in Commands \ {c} : cmd'[o] = cmd[o]
      BY <2>3 DEF Moved
    <2>14. TempsOK'
      <3> SUFFICES ASSUME NEW d \in 1..Len(dirs) PROVE Temps(d)' <= TempLimit
        BY <1>4 DEF TempsOK
      <3> DEFINE T == {o \in Commands : cmd[o].dir = d /\ cmd[o].temp}
                 U == {o \in Commands : cmd'[o].dir = d /\ cmd'[o].temp}
      <3>1. /\ IsFiniteSet(T) /\ Cardinality(T) \in Nat /\ dirs[d].left \in Nat
            /\ dirs[d].left + Cardinality(T) <= TempLimit /\ TempLimit \in Nat
        BY <1>2, TempsInNat, ServiceCommandsAssumption DEF ServiceInv, TempsOK, Temps
      <3>2. CASE d = cmd[c].dir
        <4>1. U \subseteq T \cup {c}
          BY <2>13
        <4>2. /\ IsFiniteSet(T \cup {c})
              /\ Cardinality(T \cup {c}) = IF c \in T THEN Cardinality(T) ELSE Cardinality(T) + 1
          BY <3>1, FS_AddElement
        <4>3. Cardinality(U) <= Cardinality(T \cup {c}) /\ IsFiniteSet(U)
          BY <4>1, <4>2, FS_Subset
        <4>4. Cardinality(U) \in Nat
          BY <4>3, FS_CardinalityType
        <4>5. dirs[d].left + Cardinality(T) < TempLimit
          BY <1>6, <3>2 DEF Temps
        <4> HIDE DEF T, U
        <4>6. dirs[d].left + Cardinality(U) <= TempLimit
          BY <3>1, <4>2, <4>3, <4>4, <4>5
        <4> QED BY <1>4, <4>6 DEF U, Temps
      <3>3. CASE d # cmd[c].dir
        <4>1. U \subseteq T
          BY <2>8, <2>13, <3>3
        <4>2. Cardinality(U) <= Cardinality(T) /\ IsFiniteSet(U)
          BY <3>1, <4>1, FS_Subset
        <4>3. Cardinality(U) \in Nat
          BY <4>2, FS_CardinalityType
        <4> HIDE DEF T, U
        <4>4. dirs[d].left + Cardinality(U) <= TempLimit
          BY <3>1, <4>2, <4>3
        <4> QED BY <1>4, <4>4 DEF U, Temps
      <3> QED BY <3>2, <3>3
    <2> QED BY <1>4, <2>8, <2>12, <2>13, <2>14, PureStep DEF Reads
  <1> QED BY <1>5, <1>6

LEMMA CancelOK ==
  ASSUME ServiceInv, NEW c \in Commands, Cancel(c)
  PROVE  ServiceInv'
  BY Refuses DEF Cancel

\* A process that runs nothing.
LEMMA IdleOK ==
  ASSUME NEW c \in Commands, cmd'[c] = Idle
  PROVE  CommandOK(c)'
  <1>1. /\ cmd'[c].action = "none" /\ cmd'[c].want = "none" /\ cmd'[c].pc = 0 /\ ~cmd'[c].over
        /\ ~cmd'[c].held /\ ~cmd'[c].temp /\ cmd'[c].status = "not_requested" /\ ~cmd'[c].did
        /\ ~cmd'[c].clean
    BY DEF Idle
  <1>2. ControlOK(cmd[c])'
    BY <1>1 DEF ControlOK
  <1>3. DidOK(cmd'[c]) /\ FileOK(cmd[c])' /\ DoneOK(cmd'[c])
    BY <1>1 DEF DidOK, FileOK, DoneOK
  <1>4. CleanOK(c)'
    BY <1>1 DEF CleanOK, Scoped
  <1> QED BY <1>2, <1>3, <1>4 DEF CommandOK

LEMMA IdleType == Idle \in Records /\ [Idle EXCEPT !.clean = FALSE] = Idle
  <1>1. Idle \in Records /\ Idle.clean = FALSE
    BY DEF Idle, Records, Statuses
  <1> HIDE DEF Idle
  <1>2. [Idle EXCEPT !.clean = FALSE] = Idle
    BY <1>1 DEF Records
  <1> QED BY <1>1, <1>2

LEMMA ReplyOK ==
  ASSUME ServiceInv, NEW c \in Commands, Reply(c)
  PROVE  ServiceInv'
  <1>1. cmd' = [cmd EXCEPT ![c] = Idle] /\ UNCHANGED world
    BY DEF Reply
  <1>2. cmd \in [Commands -> Records]
    BY DEF ServiceInv, WorldOK
  <1>3. /\ cmd' \in [Commands -> Records] /\ \A o \in Commands \ {c} : cmd'[o] = cmd[o]
        /\ cmd'[c] = Idle
    BY <1>1, <1>2, IdleType
  <1>4. ~cmd'[c].held /\ ~cmd'[c].temp
    BY <1>3 DEF Idle
  <1>5. Reads
    BY <1>1, ReadsWorld
  <1>6. TempsOK'
    BY <1>3, <1>4, <1>5, PureTemps DEF Reads
  <1> QED BY <1>3, <1>4, <1>5, <1>6, IdleOK, PureStep DEF Reads

LEMMA BeginOK ==
  ASSUME ServiceInv, NEW c \in Commands, Begin(c)
  PROVE  ServiceInv'
  <1>1. PICK a \in Actions, p \in Profiles :
          cmd' = [cmd EXCEPT ![c] = [Idle EXCEPT !.action = a, !.want = p, !.pc = 1]]
    BY DEF Begin
  <1>2. cmd \in [Commands -> Records] /\ a \in AllActions /\ runs \in Nat
    BY ServiceCommandsAssumption DEF ServiceInv, WorldOK, AllActions, Guarded
  <1> DEFINE k == [Idle EXCEPT !.action = a, !.want = p, !.pc = 1]
  <1>3. /\ k \in Records /\ k.action = a /\ k.pc = 1 /\ ~k.over /\ ~k.held /\ ~k.temp
        /\ k.status = "not_requested" /\ ~k.did /\ ~k.clean
    BY <1>2 DEF Idle, Records, Statuses
  <1>4. /\ cmd' \in [Commands -> Records] /\ \A o \in Commands \ {c} : cmd'[o] = cmd[o]
        /\ cmd'[c] = k
    BY <1>1, <1>2, <1>3
  <1> HIDE DEF k
  <1>5. runs' \in Nat /\ UNCHANGED <<files, dirs, named>> /\ mgr' \in Managers /\ edits' \in Nat
    BY <1>2 DEF Begin, ServiceInv, WorldOK
  <1>6. Len(Steps(a)) \in Nat /\ 1 <= Len(Steps(a))
    BY <1>2, SomeSteps
  <1>7. CommandOK(c)'
    <2>1. ControlOK(cmd[c])'
      <3>1. a # "none"
        BY <1>2 DEF AllActions, Guarded
      <3>2. cmd'[c].pc \in 1..Len(Steps(cmd'[c].action)) + 1
            /\ cmd'[c].pc <= Len(Steps(cmd'[c].action))
        BY <1>3, <1>4, <1>6
      <3> QED BY <1>3, <1>4, <3>1, <3>2 DEF ControlOK, LockedFrom
    <2>2. DidOK(cmd'[c]) /\ FileOK(cmd[c])' /\ DoneOK(cmd'[c])
      BY <1>3, <1>4 DEF DidOK, FileOK, DoneOK
    <2>3. CleanOK(c)'
      BY <1>3, <1>4 DEF CleanOK, Scoped
    <2> QED BY <2>1, <2>2, <2>3 DEF CommandOK
  <1>8. TempsOK'
    BY <1>3, <1>4, <1>5, PureTemps
  <1> QED BY <1>3, <1>4, <1>5, <1>7, <1>8, PureStep

-----------------------------------------------------------------------------
(* Steps that change files and names.                                      *)

FilesKept ==
  /\ Len(files) <= Len(files')
  /\ \A f \in 1..Len(files) :
       /\ files'[f].content = files[f].content /\ files'[f].stamp = files[f].stamp
       /\ ~files[f].linked => ~files'[f].linked

LEMMA AddedFile ==
  ASSUME WorldOK, NEW x \in Contents, files' = Append(files, NewFile(x))
  PROVE  /\ files' \in Seq(Files) /\ FilesKept /\ Len(files') = Len(files) + 1
         /\ files'[Len(files) + 1] = NewFile(x)
         /\ \A f \in 1..Len(files) : files'[f] = files[f]
  <1>1. files \in Seq(Files) /\ NewFile(x) \in Files /\ Len(files) \in Nat
    BY DEF WorldOK, NewFile, Files
  <1>2. /\ files' \in Seq(Files) /\ Len(files') = Len(files) + 1
        /\ files'[Len(files) + 1] = NewFile(x)
        /\ \A f \in 1..Len(files) : files'[f] = files[f]
    BY <1>1, AppendProperties
  <1> QED BY <1>1, <1>2 DEF FilesKept

LEMMA RemovedFile ==
  ASSUME WorldOK, NEW id \in 1..Len(files), files' = Unnamed(id)
  PROVE  /\ files' \in Seq(Files) /\ FilesKept /\ Len(files') = Len(files)
         /\ ~files'[id].linked
  <1> DEFINE e == [files[id] EXCEPT !.linked = FALSE]
  <1>1. files \in Seq(Files) /\ files[id] \in Files /\ Len(files) \in Nat
    BY DEF WorldOK
  <1>2. /\ e \in Files /\ e.content = files[id].content /\ e.stamp = files[id].stamp
        /\ ~e.linked
    BY <1>1 DEF Files
  <1>3. files' = [files EXCEPT ![id] = e]
    BY DEF Unnamed
  <1> HIDE DEF e
  <1>4. /\ files' \in Seq(Files) /\ Len(files') = Len(files)
        /\ files'[id] = e /\ \A f \in 1..Len(files) : f # id => files'[f] = files[f]
    BY <1>1, <1>2, <1>3, ExceptSeq
  <1> QED BY <1>1, <1>2, <1>4 DEF FilesKept

LEMMA WrittenDir ==
  ASSUME WorldOK, NEW d \in 1..Len(dirs), NEW e \in Dirs, dirs' = [dirs EXCEPT ![d] = e]
  PROVE  /\ dirs' \in Seq(Dirs) /\ Len(dirs') = Len(dirs) /\ dirs'[d] = e
         /\ \A x \in 1..Len(dirs) : x # d => dirs'[x] = dirs[x]
  <1>1. dirs \in Seq(Dirs)
    BY DEF WorldOK
  <1> QED BY <1>1, ExceptSeq

LEMMA DirFields ==
  ASSUME WorldOK, NEW d \in 1..Len(dirs), NEW n \in Nat
  PROVE  /\ dirs[d] \in Dirs
         /\ [dirs[d] EXCEPT !.desc = n] \in Dirs /\ [dirs[d] EXCEPT !.lock = n] \in Dirs
         /\ [dirs[d] EXCEPT !.link = n] \in Dirs /\ [dirs[d] EXCEPT !.left = n] \in Dirs
         /\ [dirs[d] EXCEPT !.wants = TRUE] \in Dirs
  <1>1. dirs[d] \in Dirs
    BY DEF WorldOK
  <1> QED BY <1>1 DEF Dirs

LEMMA WriteInv ==
  ASSUME ServiceInv, NEW c \in Commands, NEW d \in 1..Len(dirs), NEW e \in Dirs,
         dirs' = [dirs EXCEPT ![d] = e], files' \in Seq(Files), FilesKept,
         e.desc \in 0..Len(files'), e.lock \in 0..Len(files'), e.link \in 0..Len(files'),
         UNCHANGED <<named, mgr, runs, edits>>, cmd' \in [Commands -> Records],
         \A o \in Commands \ {c} :
           /\ Waits(o) /\ (cmd'[o].clean => cmd[o].clean)
           /\ cmd'[o].clean /\ Scoped(o) /\ cmd[o].dir = d =>
                e.desc = dirs[d].desc /\ e.lock = dirs[d].lock /\ e.link = dirs[d].link,
         cmd'[c].held => cmd'[c].lock = cmd[c].lock /\ cmd[c].held,
         \/ e.left = dirs[d].left /\ (cmd'[c].temp => cmd[c].temp /\ cmd'[c].dir = cmd[c].dir)
         \/ TempsOK',
         CommandOK(c)'
  PROVE  ServiceInv'
  <1>1. /\ dirs' \in Seq(Dirs) /\ Len(dirs') = Len(dirs) /\ dirs'[d] = e
        /\ \A x \in 1..Len(dirs) : x # d => dirs'[x] = dirs[x]
    BY WrittenDir DEF ServiceInv
  <1>2. WorldOK /\ Len(files) \in Nat /\ Len(files') \in Nat /\ Len(dirs) \in Nat
        /\ Len(files) <= Len(files')
    BY DEF ServiceInv, WorldOK, FilesKept
  <1>3. WorldOK'
    <2>1. ASSUME NEW x \in 1..Len(dirs')
          PROVE  dirs'[x].desc \in 0..Len(files') /\ dirs'[x].lock \in 0..Len(files')
                 /\ dirs'[x].link \in 0..Len(files')
      <3>1. CASE x = d
        BY <1>1, <3>1
      <3>2. CASE x # d
        <4>1. dirs'[x] = dirs[x] /\ x \in 1..Len(dirs)
          BY <1>1, <3>2
        <4>2. dirs[x].desc \in 0..Len(files) /\ dirs[x].lock \in 0..Len(files)
              /\ dirs[x].link \in 0..Len(files)
          BY <1>2, <4>1 DEF WorldOK
        <4> QED BY <1>2, <4>1, <4>2
      <3> QED BY <3>1, <3>2
    <2> QED BY <1>1, <1>2, <2>1 DEF WorldOK
  <1>4. \A f \in 1..Len(files) : files[f].stamp \in Nat
    BY <1>2, FileAt
  <1>5. Grows
    BY <1>1, <1>2, <1>4 DEF Grows, FilesKept
  <1>6. \A o \in Commands \ {c} :
          Waits(o) /\ (cmd'[o].clean => cmd[o].clean /\ (Scoped(o) => Still(o)))
    <2> SUFFICES ASSUME NEW o \in Commands \ {c}, cmd'[o].clean, Scoped(o)
                 PROVE  Still(o)
      OBVIOUS
    <2>1. cmd[o].dir \in 1..Len(dirs)
      BY ScopedHere DEF ServiceInv, CommandOK, WorldOK
    <2>2. CASE cmd[o].dir = d
      BY <1>1, <2>2 DEF Still, FilesKept
    <2>3. CASE cmd[o].dir # d
      BY <1>1, <2>3 DEF Still, FilesKept
    <2> QED BY <2>2, <2>3
  <1>7. TempsOK'
    <2> SUFFICES ASSUME e.left = dirs[d].left,
                        cmd'[c].temp => cmd[c].temp /\ cmd'[c].dir = cmd[c].dir
                 PROVE  TempsOK'
      OBVIOUS
    <2>1. /\ Len(dirs) <= Len(dirs')
          /\ \A x \in 1..Len(dirs) : dirs'[x].left = dirs[x].left
          /\ \A x \in 1..Len(dirs') : x > Len(dirs) => dirs'[x].left = 0
      BY <1>1, <1>2
    <2> QED BY <1>3, <2>1, TempsFewer
  <1> QED BY <1>3, <1>5, <1>6, <1>7, StepInv

\* Two commands whose checks count are not in the same directory.
LEMMA Apart ==
  ASSUME ServiceInv, NEW c \in Commands, NEW o \in Commands, c # o, Scoped(c), Scoped(o)
  PROVE  cmd[c].dir # cmd[o].dir
  <1>1. cmd[c].held /\ cmd[o].held /\ LockCheck(c) /\ LockCheck(o)
    BY DEF Scoped, ServiceInv, CommandOK, CleanOK, ScopeCheck
  <1>2. cmd[c].lock # cmd[o].lock
    BY <1>1 DEF ServiceInv, Exclusive
  <1> QED BY <1>1, <1>2 DEF LockCheck, Here

\* How the records change in a step that changed a file.
LEMMA ActedMoved ==
  ASSUME cmd \in [Commands -> Records], NEW c \in Commands, NEW k \in Records,
         NEW ended \in BOOLEAN, Acted(c, k, ended)
  PROVE  /\ cmd' \in [Commands -> Records]
         /\ \A o \in Commands \ {c} :
              Waits(o) /\ (cmd'[o].clean <=> cmd[o].clean /\ k.clean)
         /\ cmd'[c].pc = k.pc + 1 /\ (cmd'[c].over <=> ended)
         /\ (cmd'[c].ok <=> k.ok /\ ~ended)
         /\ cmd'[c].action = k.action /\ cmd'[c].want = k.want /\ cmd'[c].dir = k.dir
         /\ cmd'[c].lock = k.lock /\ (cmd'[c].held <=> k.held) /\ cmd'[c].file = k.file
         /\ cmd'[c].stamp = k.stamp /\ cmd'[c].link = k.link /\ (cmd'[c].temp <=> k.temp)
         /\ cmd'[c].owner = k.owner /\ cmd'[c].status = k.status /\ (cmd'[c].did <=> k.did)
         /\ (cmd'[c].clean <=> k.clean) /\ cmd'[c].src = k.src
  <1>1. ASSUME NEW o \in Commands \ {c}
        PROVE  /\ cmd'[o] \in Records /\ Waits(o)
               /\ cmd'[o].clean <=> (cmd[o].clean /\ k.clean)
    <2>1. cmd'[o] = [cmd[o] EXCEPT !.clean = (cmd[o].clean /\ k.clean)] /\ cmd[o] \in Records
      BY DEF Acted
    <2>2. CASE cmd[o].clean /\ k.clean
      <3>1. cmd'[o] = [cmd[o] EXCEPT !.clean = TRUE]
        BY <2>1, <2>2
      <3> QED BY <2>1, <2>2, <3>1 DEF Waits, Records, Idle
    <2>3. CASE ~(cmd[o].clean /\ k.clean)
      <3>1. cmd'[o] = [cmd[o] EXCEPT !.clean = FALSE]
        BY <2>1, <2>3
      <3>2. cmd'[o] \in Records /\ ~cmd'[o].clean
        BY <2>1, <3>1 DEF Records
      <3>3. [Idle EXCEPT !.clean = FALSE] = Idle
        BY IdleType
      <3>4. cmd[o] = Idle => cmd'[o] = Idle
        BY <3>1, <3>3
      <3>5. cmd[o] \in Records
        BY <2>1
      <3>6. Waits(o)
        BY <3>1, <3>4, <3>5 DEF Waits, Records
      <3> QED BY <2>3, <3>2, <3>6
    <2>4. (cmd[o].clean /\ k.clean) \/ ~(cmd[o].clean /\ k.clean)
      OBVIOUS
    <2> QED BY <2>2, <2>3, <2>4, Zenon
  <1>2. cmd'[c] = [k EXCEPT !.pc = k.pc + 1, !.over = ended, !.ok = (k.ok /\ ~ended)]
    BY DEF Acted
  <1>3. k.pc + 1 \in Nat
    BY DEF Records
  <1>4. PICK b \in BOOLEAN : (b <=> (k.ok /\ ~ended))
                             /\ cmd'[c] = [k EXCEPT !.pc = k.pc + 1, !.over = ended, !.ok = b]
    <2>1. CASE k.ok /\ ~ended
      BY <1>2, <2>1
    <2>2. CASE ~(k.ok /\ ~ended)
      BY <1>2, <2>2
    <2> QED BY <2>1, <2>2
  <1>5. cmd'[c] \in Records
    BY <1>3, <1>4, ZenonT(60) DEF Records
  <1>6. cmd' \in [Commands -> Records]
    <2>1. \A o \in Commands : cmd'[o] \in Records
      BY <1>1, <1>5
    <2>2. cmd' = [o \in Commands |-> cmd'[o]]
      BY DEF Acted
    <2> QED BY <2>1, <2>2
  <1> QED BY <1>1, <1>4, <1>6 DEF Records

\* A step before the lock is taken.
LEMMA EarlyGo ==
  ASSUME ServiceInv, NEW c \in Commands, Running(c), cmd[c].action \in AllActions,
         Steps(cmd[c].action)[cmd[c].pc] \in {"open", "lock"}, NEW k \in Records, Go(c, k),
         k.action = cmd[c].action, k.pc = cmd[c].pc, k.held <=> cmd[c].held,
         k.temp <=> cmd[c].temp, k.did <=> cmd[c].did, k.status = cmd[c].status,
         k.dir \in 1..Len(dirs'),
         k.action # "status" /\ k.pc + 1 >= LockedFrom(k.action) - 1 =>
           k.lock \in 1..Len(files')
  PROVE  /\ cmd' \in [Commands -> Records] /\ CommandOK(c)'
         /\ \A o \in Commands \ {c} : cmd'[o] = cmd[o]
         /\ ~cmd'[c].held /\ (cmd'[c].temp <=> cmd[c].temp) /\ cmd'[c].dir = k.dir
         /\ cmd[c].temp => cmd[c].pc > 1
  <1>1. /\ cmd \in [Commands -> Records] /\ CommandOK(c) /\ WorldOK /\ cmd[c] \in Records
    BY DEF ServiceInv, WorldOK
  <1>2. Moved(c, k, k.pc + 1, k.pc = Len(Steps(k.action)), k.ok)
    BY <1>1, GoMoved
  <1>3. /\ cmd[c].pc \in 1..Len(Steps(cmd[c].action)) /\ cmd[c].pc \in Nat
        /\ cmd[c].action # "none"
    BY <1>1, PlaceOf DEF CommandOK, Running
  <1>4. \/ cmd[c].pc = 1
        \/ cmd[c].action \notin {"status", "uninstall"} /\ cmd[c].pc = 3
        \/ cmd[c].action = "uninstall" /\ cmd[c].pc = 2
    <2>1. CASE Steps(cmd[c].action)[cmd[c].pc] = "open"
      BY <1>3, <2>1, Places
    <2>2. CASE Steps(cmd[c].action)[cmd[c].pc] = "lock"
      <3>1. \/ cmd[c].action \in {"install", "request", "observe", "enable", "disable"}
               /\ cmd[c].pc = 3
            \/ cmd[c].action = "uninstall" /\ cmd[c].pc = 2
        BY <1>3, <2>2, Places
      <3> QED BY <3>1
    <2> QED BY <2>1, <2>2
  <1>5. cmd[c].pc # Len(Steps(cmd[c].action)) /\ cmd[c].pc < Len(Steps(cmd[c].action))
    BY <1>3, NotLast
  <1>6. Len(Steps(cmd[c].action)) \in Nat
    BY SomeSteps
  <1>7. /\ cmd'[c].action = cmd[c].action /\ cmd'[c].pc = cmd[c].pc + 1 /\ ~cmd'[c].over
        /\ cmd'[c].dir = k.dir /\ cmd'[c].lock = k.lock /\ (cmd'[c].held <=> cmd[c].held)
        /\ (cmd'[c].temp <=> cmd[c].temp) /\ (cmd'[c].did <=> cmd[c].did)
        /\ cmd'[c].status = cmd[c].status
    BY <1>2, <1>5 DEF Moved
  <1>8. /\ cmd'[c].pc \in 1..Len(Steps(cmd'[c].action)) + 1
        /\ cmd'[c].pc <= Len(Steps(cmd'[c].action)) /\ cmd'[c].pc > 1
    BY <1>3, <1>5, <1>6, <1>7
  <1>9. cmd[c].action # "status" =>
          cmd[c].pc < LockedFrom(cmd[c].action) - 1 /\ cmd'[c].pc < LockedFrom(cmd'[c].action)
    BY <1>4, <1>7 DEF LockedFrom
  <1>10. ~cmd[c].held
    <2>1. LockedFrom(cmd[c].action) \in Nat
      BY DEF LockedFrom
    <2>2. cmd[c].held => cmd[c].action # "status" /\ cmd[c].pc >= LockedFrom(cmd[c].action)
      BY <1>1, <1>3 DEF CommandOK, ControlOK
    <2> QED BY <1>3, <1>9, <2>1, <2>2
  <1>11. cmd'[c].pc <= 4 /\ cmd[c].pc <= 3
    BY <1>4, <1>7
  <1>12. ControlOK(cmd[c])'
    <2>1. cmd'[c].pc < 9
      BY <1>8, <1>11, <1>3, <1>7
    <2>2. /\ cmd'[c].action # "status" => ~(cmd'[c].pc >= LockedFrom(cmd'[c].action))
      <3>1. LockedFrom(cmd'[c].action) \in Nat /\ cmd'[c].pc \in Nat
        BY <1>3, <1>7 DEF LockedFrom
      <3> QED BY <1>7, <1>9, <3>1
    <2>3. cmd'[c].pc >= LockedFrom(cmd'[c].action) - 1 /\ cmd'[c].action # "status" =>
            cmd'[c].lock \in 1..Len(files')
      BY <1>7
    <2> QED BY <1>3, <1>7, <1>8, <1>10, <2>1, <2>2, <2>3 DEF ControlOK
  <1>13. ~cmd[c].did
    <2> SUFFICES ASSUME cmd[c].did PROVE FALSE
      OBVIOUS
    <2>1. cmd[c].action # "status"
      <3> SUFFICES ASSUME cmd[c].action = "status" PROVE FALSE
        OBVIOUS
      <3>1. cmd[c].pc >= 99
        BY <1>1, DidFrom DEF CommandOK
      <3> QED BY <1>3, <1>11, <3>1
    <2>2. cmd[c].pc >= 8
      BY <1>1, <1>3, <2>1, DidFrom DEF CommandOK, AllActions, Guarded
    <2> QED BY <1>3, <1>11, <2>2
  <1>14. cmd[c].status \notin {"saved", "accepted", "observed", "removed"}
    BY <1>1, <1>3, <1>11, <1>13 DEF CommandOK, DidOK, FileOK
  <1>15. DidOK(cmd'[c])
    BY <1>7, <1>13, <1>14 DEF DidOK
  <1>16. FileOK(cmd[c])'
    <2>1. ~(cmd'[c].pc >= 6)
      BY <1>3, <1>7, <1>11
    <2> QED BY <1>7, <1>14, <2>1 DEF FileOK
  <1>17. DoneOK(cmd'[c]) /\ CleanOK(c)'
    BY <1>7, <1>10 DEF DoneOK, CleanOK, Scoped
  <1>18. cmd[c].temp => cmd[c].pc > 1
    BY <1>1, <1>3 DEF CommandOK, ControlOK
  <1>19. cmd' \in [Commands -> Records] /\ \A o \in Commands \ {c} : cmd'[o] = cmd[o]
    BY <1>2 DEF Moved
  <1> QED BY <1>7, <1>10, <1>12, <1>15, <1>16, <1>17, <1>18, <1>19 DEF CommandOK

LEMMA LockOK ==
  ASSUME ServiceInv, NEW c \in Commands, Lock(c)
  PROVE  ServiceInv'
  <1>1. At(c, "lock") /\ UNCHANGED <<named, mgr, runs, edits>>
    BY DEF Lock
  <1>2. /\ Running(c) /\ WorldOK /\ CommandOK(c) /\ cmd[c] \in Records
        /\ cmd[c].action \in AllActions /\ cmd[c].pc \in 1..Len(Steps(cmd[c].action))
        /\ Steps(cmd[c].action)[cmd[c].pc] = "lock" /\ cmd[c].pc \in Nat
    BY <1>1, AtStep
  <1>3. cmd[c].pc > 1
    <2>1. \/ cmd[c].action \in {"install", "request", "observe", "enable", "disable"}
             /\ cmd[c].pc = 3
          \/ cmd[c].action = "uninstall" /\ cmd[c].pc = 2
      BY <1>2, Places
    <2> QED BY <2>1
  <1>4. /\ cmd[c].dir \in 1..Len(dirs) /\ Here(c).desc \in 0..Len(files)
        /\ Here(c).lock \in 0..Len(files) /\ Here(c).link \in 0..Len(files)
        /\ Len(files) \in Nat /\ Len(dirs) \in Nat
    BY <1>2, <1>3, HereOK
  <1>5. ASSUME NEW n \in 1..Len(files'), Len(files') \in Nat, Len(dirs') = Len(dirs),
               Go(c, [cmd[c] EXCEPT !.lock = n])
        PROVE  /\ cmd' \in [Commands -> Records] /\ CommandOK(c)'
               /\ \A o \in Commands \ {c} : cmd'[o] = cmd[o]
               /\ ~cmd'[c].held /\ (cmd'[c].temp => cmd[c].temp) /\ cmd'[c].dir = cmd[c].dir
    <2> DEFINE k == [cmd[c] EXCEPT !.lock = n]
    <2>1. n \in Nat
      BY <1>5
    <2>2. /\ k \in Records /\ k.action = cmd[c].action /\ k.pc = cmd[c].pc
          /\ (k.held <=> cmd[c].held) /\ (k.temp <=> cmd[c].temp) /\ (k.did <=> cmd[c].did)
          /\ k.status = cmd[c].status /\ k.dir = cmd[c].dir /\ k.lock = n
      BY <1>2, <2>1 DEF Records
    <2>3. Go(c, k)
      BY <1>5
    <2> HIDE DEF k
    <2>4. k.dir \in 1..Len(dirs') /\ k.lock \in 1..Len(files')
      BY <1>4, <1>5, <2>2
    <2> QED BY <1>2, <2>2, <2>3, <2>4, EarlyGo
  <1>6. CASE Here(c).lock # 0
    <2>1. Go(c, [cmd[c] EXCEPT !.lock = Here(c).lock]) /\ UNCHANGED <<files, dirs>>
      BY <1>6 DEF Lock
    <2>2. Here(c).lock \in 1..Len(files)
      BY <1>4, <1>6
    <2>3. /\ cmd' \in [Commands -> Records] /\ CommandOK(c)'
          /\ \A o \in Commands \ {c} : cmd'[o] = cmd[o]
          /\ ~cmd'[c].held /\ (cmd'[c].temp => cmd[c].temp) /\ cmd'[c].dir = cmd[c].dir
      BY <1>4, <1>5, <2>1, <2>2
    <2>4. UNCHANGED <<files, dirs, named>> /\ mgr' \in Managers /\ runs' \in Nat /\ edits' \in Nat
      BY <1>1, <1>2, <2>1 DEF WorldOK
    <2>5. TempsOK'
      BY <2>3, <2>4, PureTemps
    <2> QED BY <2>3, <2>4, <2>5, PureStep
  <1>7. CASE Here(c).lock = 0 /\ cmd[c].action = "install"
    <2> DEFINE d == cmd[c].dir
               e == [dirs[d] EXCEPT !.lock = Len(files) + 1]
    <2>1. /\ files' = Append(files, NewFile("lock"))
          /\ dirs' = [dirs EXCEPT ![d] = e]
          /\ Go(c, [cmd[c] EXCEPT !.lock = Len(files) + 1])
      BY <1>7 DEF Lock
    <2>2. /\ files' \in Seq(Files) /\ FilesKept /\ Len(files') = Len(files) + 1
      BY <1>2, <2>1, AddedFile DEF Contents
    <2>3. Len(files) + 1 \in Nat /\ dirs[d] \in Dirs /\ e \in Dirs
      <3>1. Len(files) + 1 \in Nat
        BY <1>4
      <3> QED BY <1>2, <1>4, <3>1, DirFields
    <2>4. /\ e.desc = Here(c).desc /\ e.lock = Len(files) + 1
          /\ e.link = Here(c).link /\ e.left = dirs[d].left
      BY <2>3 DEF Dirs, Here
    <2> HIDE DEF e
    <2>5. e.desc \in 0..Len(files') /\ e.lock \in 0..Len(files') /\ e.link \in 0..Len(files')
      BY <1>4, <2>2, <2>4
    <2>6. Len(dirs') = Len(dirs)
      BY <1>2, <1>4, <2>1, <2>4, WrittenDir
    <2>7. Len(files) + 1 \in 1..Len(files') /\ Len(files') \in Nat
      BY <1>4, <2>2
    <2>8. /\ cmd' \in [Commands -> Records] /\ CommandOK(c)'
          /\ \A o \in Commands \ {c} : cmd'[o] = cmd[o]
          /\ ~cmd'[c].held /\ (cmd'[c].temp => cmd[c].temp) /\ cmd'[c].dir = cmd[c].dir
      BY <1>5, <2>1, <2>6, <2>7
    <2>9. ASSUME NEW o \in Commands \ {c}
          PROVE  /\ Waits(o) /\ (cmd'[o].clean => cmd[o].clean)
                 /\ ~(Scoped(o) /\ cmd[o].dir = d)
      <3>1. Waits(o) /\ (cmd'[o].clean => cmd[o].clean)
        BY <2>8 DEF Waits
      <3>2. ASSUME Scoped(o), cmd[o].dir = d PROVE FALSE
        <4>1. cmd[o].lock \in 1..Len(files)
          BY <3>2, ScopedHere DEF ServiceInv, CommandOK, WorldOK
        <4>2. LockCheck(o)
          BY <3>2 DEF ServiceInv, CommandOK, CleanOK, ScopeCheck
        <4> QED BY <1>7, <3>2, <4>1, <4>2 DEF LockCheck, Here
      <3> QED BY <3>1, <3>2
    <2> HIDE DEF d
    <2>10. d \in 1..Len(dirs)
      BY <1>4 DEF d
    <2>11. \A o \in Commands \ {c} :
             /\ Waits(o) /\ (cmd'[o].clean => cmd[o].clean)
             /\ cmd'[o].clean /\ Scoped(o) /\ cmd[o].dir = d =>
                  e.desc = dirs[d].desc /\ e.lock = dirs[d].lock /\ e.link = dirs[d].link
      BY <2>9
    <2>12. cmd'[c].held => cmd'[c].lock = cmd[c].lock /\ cmd[c].held
      BY <2>8
    <2>13. e.left = dirs[d].left /\ (cmd'[c].temp => cmd[c].temp /\ cmd'[c].dir = cmd[c].dir)
      BY <2>4, <2>8
    <2>14. cmd' \in [Commands -> Records] /\ CommandOK(c)' /\ e \in Dirs
           /\ dirs' = [dirs EXCEPT ![d] = e]
      BY <2>1, <2>3, <2>8
    <2> QED BY <1>1, <2>2, <2>5, <2>10, <2>11, <2>12, <2>13, <2>14, WriteInv
  <1>8. CASE Here(c).lock = 0 /\ cmd[c].action # "install"
    <2>1. Fail(c, cmd[c]) /\ UNCHANGED world
      BY <1>1, <1>8 DEF Lock, world
    <2> QED BY <1>2, <2>1, Refuses
  <1> QED BY <1>6, <1>7, <1>8

LEMMA OpenOK ==
  ASSUME ServiceInv, NEW c \in Commands, Open(c)
  PROVE  ServiceInv'
  <1>1. At(c, "open") /\ UNCHANGED <<files, mgr, runs, edits>>
    BY DEF Open
  <1>2. /\ Running(c) /\ WorldOK /\ CommandOK(c) /\ cmd[c] \in Records
        /\ cmd[c].action \in AllActions /\ cmd[c].pc \in 1..Len(Steps(cmd[c].action))
        /\ Steps(cmd[c].action)[cmd[c].pc] = "open" /\ cmd[c].pc \in Nat
    BY <1>1, AtStep
  <1>3. cmd[c].pc = 1
    BY <1>2, Places
  <1>4. Len(dirs) \in Nat /\ named \in 0..Len(dirs)
    BY <1>2 DEF WorldOK
  <1>5. ASSUME NEW d \in Nat, d \in 1..Len(dirs'), Go(c, [cmd[c] EXCEPT !.dir = d])
        PROVE  /\ cmd' \in [Commands -> Records] /\ CommandOK(c)'
               /\ \A o \in Commands \ {c} : cmd'[o] = cmd[o]
               /\ ~cmd'[c].held /\ ~cmd'[c].temp
    <2> DEFINE k == [cmd[c] EXCEPT !.dir = d]
    <2>1. /\ k \in Records /\ k.action = cmd[c].action /\ k.pc = cmd[c].pc
          /\ (k.held <=> cmd[c].held) /\ (k.temp <=> cmd[c].temp) /\ (k.did <=> cmd[c].did)
          /\ k.status = cmd[c].status /\ k.dir = d
      BY <1>2 DEF Records
    <2>2. Go(c, k)
      BY <1>5
    <2> HIDE DEF k
    <2>3. ~(k.pc + 1 >= LockedFrom(k.action) - 1)
      BY <1>3, <2>1 DEF LockedFrom
    <2>4. k.dir \in 1..Len(dirs')
      BY <1>5, <2>1
    <2>5. /\ cmd' \in [Commands -> Records] /\ CommandOK(c)'
          /\ \A o \in Commands \ {c} : cmd'[o] = cmd[o]
          /\ ~cmd'[c].held /\ (cmd'[c].temp <=> cmd[c].temp) /\ cmd'[c].dir = k.dir
          /\ cmd[c].temp => cmd[c].pc > 1
      BY <1>2, <2>1, <2>2, <2>3, <2>4, EarlyGo
    <2> QED BY <1>3, <2>5
  <1>6. CASE named # 0 /\ Go(c, [cmd[c] EXCEPT !.dir = named]) /\ UNCHANGED <<dirs, named>>
    <2>1. named \in Nat /\ named \in 1..Len(dirs')
      BY <1>4, <1>6
    <2>2. /\ cmd' \in [Commands -> Records] /\ CommandOK(c)'
          /\ \A o \in Commands \ {c} : cmd'[o] = cmd[o]
          /\ ~cmd'[c].held /\ ~cmd'[c].temp
      BY <1>5, <1>6, <2>1
    <2>3. UNCHANGED <<files, dirs, named>> /\ mgr' \in Managers /\ runs' \in Nat /\ edits' \in Nat
      BY <1>1, <1>2, <1>6 DEF WorldOK
    <2>4. TempsOK'
      BY <2>2, <2>3, PureTemps
    <2> QED BY <2>2, <2>3, <2>4, PureStep
  <1>7. CASE /\ named = 0 /\ dirs' = Append(dirs, NewDir) /\ named' = Len(dirs) + 1
             /\ Go(c, [cmd[c] EXCEPT !.dir = named'])
    <2>1. NewDir \in Dirs /\ NewDir.desc = 0 /\ NewDir.lock = 0 /\ NewDir.link = 0
          /\ NewDir.left = 0
      BY DEF NewDir, Dirs
    <2>2. /\ dirs' \in Seq(Dirs) /\ Len(dirs') = Len(dirs) + 1 /\ dirs'[Len(dirs) + 1] = NewDir
          /\ \A d \in 1..Len(dirs) : dirs'[d] = dirs[d]
      BY <1>2, <1>7, <2>1, AppendProperties DEF WorldOK
    <2>3. Len(dirs) + 1 \in Nat /\ Len(dirs) + 1 \in 1..Len(dirs')
      BY <1>4, <2>2
    <2>4. Go(c, [cmd[c] EXCEPT !.dir = Len(dirs) + 1])
      BY <1>7
    <2>5. /\ cmd' \in [Commands -> Records] /\ CommandOK(c)'
          /\ \A o \in Commands \ {c} : cmd'[o] = cmd[o]
          /\ ~cmd'[c].held /\ ~cmd'[c].temp
      BY <1>5, <2>3, <2>4
    <2>6. WorldOK'
      <3>1. Len(files) \in Nat
        BY <1>2 DEF WorldOK
      <3>2. ASSUME NEW d \in 1..Len(dirs')
            PROVE  dirs'[d].desc \in 0..Len(files) /\ dirs'[d].lock \in 0..Len(files)
                   /\ dirs'[d].link \in 0..Len(files)
        <4>1. CASE d = Len(dirs) + 1
          BY <2>1, <2>2, <3>1, <4>1
        <4>2. CASE d # Len(dirs) + 1
          <5>1. d \in 1..Len(dirs)
            BY <1>4, <2>2, <4>2
          <5> QED BY <1>2, <2>2, <5>1 DEF WorldOK
        <4> QED BY <4>1, <4>2
      <3>3. named' \in 0..Len(dirs')
        BY <1>4, <1>7, <2>2
      <3> QED BY <1>1, <1>2, <2>2, <2>5, <3>2, <3>3 DEF WorldOK
    <2>7. Grows
      <3>1. \A f \in 1..Len(files) : files[f].stamp \in Nat
        BY <1>2, FileAt
      <3>2. Len(files) \in Nat
        BY <1>2 DEF WorldOK
      <3> QED BY <1>1, <1>4, <2>2, <3>1, <3>2 DEF Grows
    <2>8. \A o \in Commands \ {c} :
            Waits(o) /\ (cmd'[o].clean => cmd[o].clean /\ (Scoped(o) => Still(o)))
      <3> TAKE o \in Commands \ {c}
      <3>1. ~Scoped(o)
        <4> SUFFICES ASSUME Scoped(o) PROVE FALSE
          OBVIOUS
        <4>1. cmd[o].dir \in 1..Len(dirs)
          BY ScopedHere DEF ServiceInv, CommandOK, WorldOK
        <4>2. cmd[o].dir = named
          BY DEF ServiceInv, CommandOK, CleanOK, ScopeCheck, ChainCheck
        <4> QED BY <1>4, <1>7, <4>1, <4>2
      <3> QED BY <2>5, <3>1 DEF Waits
    <2>9. TempsOK'
      <3>1. /\ Len(dirs) <= Len(dirs')
            /\ \A d \in 1..Len(dirs) : dirs'[d].left = dirs[d].left
        BY <1>4, <2>2
      <3>2. \A d \in 1..Len(dirs') : d > Len(dirs) => dirs'[d].left = 0
        <4> TAKE d \in 1..Len(dirs')
        <4>1. d > Len(dirs) => d = Len(dirs) + 1
          BY <1>4, <2>2
        <4> QED BY <2>1, <2>2, <4>1
      <3> QED BY <2>5, <2>6, <2>8, <3>1, <3>2, TempsFewer
    <2> QED BY <2>5, <2>6, <2>7, <2>8, <2>9, StepInv
  <1>8. CASE /\ named = 0 /\ cmd[c].action = "status" /\ UNCHANGED <<dirs, named>>
             /\ End(c, [cmd[c] EXCEPT !.status = "absent"])
    <2> DEFINE k == [cmd[c] EXCEPT !.status = "absent"]
    <2>1. /\ SameHold(c, k) /\ k \in Records /\ (k.did <=> cmd[c].did) /\ k.status = "absent"
          /\ k.action = "status" /\ k.pc = cmd[c].pc /\ (k.held <=> cmd[c].held)
      BY <1>2, <1>8 DEF SameHold, Records, Statuses
    <2>2. End(c, k)
      BY <1>8
    <2> HIDE DEF k
    <2>3. Moved(c, k, k.pc, TRUE, k.ok)
      BY <1>2, <2>1, <2>2, EndMoved DEF WorldOK
    <2>4. Says(c, k, k.pc) /\ Words(c, k)
      BY <2>1, <2>3 DEF Says, Moved, Words, Plain
    <2>5. DidOK(cmd'[c])
      BY <1>2, <1>8, <2>1, <2>4, DidGoes DEF CommandOK
    <2>6. FileOK(cmd[c])'
      BY <2>1, <2>3 DEF FileOK, Moved
    <2>7. CleanOK(c)'
      <3>1. ~cmd[c].held
        BY <1>2, <1>8 DEF CommandOK, ControlOK
      <3> QED BY <2>1, <2>3, <3>1 DEF CleanOK, Scoped, Moved
    <2>8. Reads
      BY <1>1, <1>2, <1>8 DEF Reads, WorldOK
    <2> QED BY <1>2, <2>1, <2>2, <2>5, <2>6, <2>7, <2>8, PureEnds DEF Guarded
  <1>9. CASE Fail(c, cmd[c]) /\ UNCHANGED <<dirs, named>>
    <2>1. UNCHANGED world
      BY <1>1, <1>9 DEF world
    <2> QED BY <1>2, <1>9, <2>1, Refuses
  <1> QED BY <1>6, <1>7, <1>8, <1>9 DEF Open

LEMMA WantsOK ==
  ASSUME ServiceInv, NEW c \in Commands, Wants(c)
  PROVE  ServiceInv'
  <1>1. At(c, "wants") /\ UNCHANGED <<files, named, mgr, runs, edits>>
    BY DEF Wants
  <1>2. /\ Running(c) /\ WorldOK /\ CommandOK(c) /\ cmd[c] \in Records
        /\ cmd[c].action \in AllActions /\ cmd[c].pc \in 1..Len(Steps(cmd[c].action))
        /\ Steps(cmd[c].action)[cmd[c].pc] = "wants" /\ cmd[c].pc \in Nat
    BY <1>1, AtStep
  <1>3. cmd[c].action \in {"enable", "disable"} /\ cmd[c].pc = 10
    BY <1>2, Places
  <1>4. CASE ~GuardCheck(c)
    <2>1. Fail(c, cmd[c]) /\ UNCHANGED world
      BY <1>1, <1>4 DEF Wants, world
    <2> QED BY <1>2, <2>1, Refuses
  <1>5. CASE GuardCheck(c)
    <2> DEFINE k == [cmd[c] EXCEPT !.clean = TRUE]
    <2>1. /\ SameHold(c, k) /\ k \in Records /\ k.clean /\ (k.did <=> cmd[c].did)
          /\ k.status = cmd[c].status /\ k.file = cmd[c].file /\ k.stamp = cmd[c].stamp
          /\ k.owner = cmd[c].owner /\ k.src = cmd[c].src
          /\ k.action = cmd[c].action /\ k.pc = cmd[c].pc /\ k.dir = cmd[c].dir
          /\ k.lock = cmd[c].lock /\ (k.held <=> cmd[c].held) /\ (k.temp <=> cmd[c].temp)
          /\ k.want = cmd[c].want
      BY <1>2 DEF SameHold, Records
    <2>2. Go(c, k)
      BY <1>5 DEF Wants
    <2> HIDE DEF k
    <2>3. Moved(c, k, k.pc + 1, k.pc = Len(Steps(k.action)), k.ok)
      BY <1>2, <2>1, <2>2, GoMoved DEF WorldOK
    <2>4. cmd[c].pc # Len(Steps(cmd[c].action))
      BY <1>2, NotLast
    <2>5. /\ cmd'[c].action = cmd[c].action /\ cmd'[c].dir = cmd[c].dir
          /\ cmd'[c].lock = cmd[c].lock /\ cmd'[c].want = cmd[c].want
          /\ cmd'[c].pc = 11 /\ cmd'[c].file = cmd[c].file /\ cmd'[c].stamp = cmd[c].stamp
          /\ ~cmd'[c].over /\ (cmd'[c].held <=> cmd[c].held) /\ (cmd'[c].temp <=> cmd[c].temp)
          /\ (cmd'[c].did <=> cmd[c].did) /\ cmd'[c].status = cmd[c].status
          /\ cmd'[c].src = cmd[c].src /\ cmd'[c].owner = cmd[c].owner
      BY <1>3, <2>1, <2>3, <2>4 DEF Moved
    <2>6. cmd[c].src = cmd[c].owner /\ cmd[c].held
      <3>1. cmd[c].action \in Guarded /\ cmd[c].pc >= 9 /\ cmd[c].action # "status"
            /\ cmd[c].pc >= LockedFrom(cmd[c].action)
        BY <1>3 DEF Guarded, LockedFrom
      <3> QED BY <1>2, <3>1, SameSource, HeldHere
    <2>7. CASE dirs' = dirs
      <3>1. CleanOK(c)'
        <4>1. GuardCheck(c)'
          BY <1>1, <1>5, <2>5, <2>7, SeenSame
        <4> QED BY <1>3, <2>5, <4>1 DEF CleanOK, GuardCheck, Done
      <3>2. Reads
        BY <1>1, <1>2, <2>7 DEF Reads, WorldOK
      <3>3. Words(c, k) /\ k.src = k.owner /\ k.action # "uninstall" /\ cmd[c].pc > 1
            /\ cmd[c].pc # LockedFrom(cmd[c].action) - 2
            /\ cmd[c].pc # LockedFrom(cmd[c].action) - 1
        BY <1>3, <2>1, <2>6 DEF Words, LockedFrom
      <3> QED BY <1>2, <2>1, <2>2, <3>1, <3>2, <3>3, Passes
    <2>8. CASE dirs' = [dirs EXCEPT ![cmd[c].dir].wants = TRUE]
      <3> DEFINE d == cmd[c].dir
                 e == [dirs[d] EXCEPT !.wants = TRUE]
      <3>1. /\ d \in 1..Len(dirs) /\ Here(c).desc \in 0..Len(files)
            /\ Here(c).lock \in 0..Len(files) /\ Here(c).link \in 0..Len(files)
            /\ Len(files) \in Nat /\ Len(dirs) \in Nat
        BY <1>2, <1>3, HereOK
      <3>2. dirs[d] \in Dirs /\ e \in Dirs
        BY <1>2, <3>1, DirFields
      <3>3. e.desc = dirs[d].desc /\ e.lock = dirs[d].lock /\ e.link = dirs[d].link
            /\ e.left = dirs[d].left
        BY <3>2 DEF Dirs
      <3>4. dirs' = [dirs EXCEPT ![d] = e]
        BY <2>8
      <3> HIDE DEF e
      <3>5. dirs'[d] = e /\ Len(dirs') = Len(dirs)
        BY <1>2, <3>1, <3>2, <3>4, WrittenDir
      <3>6. /\ Here(c)'.desc = Here(c).desc /\ Here(c)'.lock = Here(c).lock
            /\ Here(c)'.link = Here(c).link
        BY <2>5, <3>3, <3>5 DEF Here
      <3>7. GuardCheck(c)'
        BY <1>1, <1>5, <2>5, <3>6
        DEF GuardCheck, ScopeCheck, ChainCheck, LockCheck, ReadArtifact, SameFile
      <3>8. CommandOK(c)'
        <4>1. CleanOK(c)'
          BY <1>3, <2>5, <3>7 DEF CleanOK, GuardCheck, Done
        <4>2. DoneOK(cmd'[c])
          BY <2>5 DEF DoneOK
        <4>3. Says(c, k, k.pc + 1) /\ Words(c, k) /\ k.pc + 1 \in Nat /\ cmd[c].pc <= k.pc + 1
          BY <1>3, <2>1, <2>3 DEF Says, Moved, Words
        <4>4. DidOK(cmd'[c])
          BY <1>2, <2>1, <4>3, DidGoes DEF CommandOK
        <4>5. FileOK(cmd[c])'
          <5>1. cmd[c].status # "removed" /\ cmd'[c].action # "uninstall"
            BY <1>2, <1>3, <2>5 DEF CommandOK, FileOK
          <5> QED BY <2>5, <5>1 DEF FileOK
        <4>6. ControlOK(cmd[c])'
          <5> DEFINE n == Len(Steps(cmd[c].action))
          <5>1. n \in Nat /\ cmd[c].pc < n
            BY <1>2, SomeSteps, NotLast
          <5> HIDE DEF n
          <5>2. cmd'[c].pc \in 1..n + 1 /\ cmd'[c].pc <= n
            BY <1>3, <2>5, <5>1
          <5>3. cmd[c].lock \in 1..Len(files)
            <6>1. cmd[c].pc >= LockedFrom(cmd[c].action) - 1 /\ cmd[c].action # "status"
                  /\ cmd[c].action # "none"
              BY <1>3 DEF LockedFrom
            <6> QED BY <1>2, <6>1 DEF CommandOK, ControlOK
          <5>4. cmd'[c].pc > 1 /\ cmd'[c].pc >= LockedFrom(cmd'[c].action)
                /\ cmd'[c].action \notin {"none", "status"}
            BY <1>3, <2>5 DEF LockedFrom
          <5>5. cmd'[c].pc \in 1..Len(Steps(cmd'[c].action)) + 1
                /\ cmd'[c].pc <= Len(Steps(cmd'[c].action))
            BY <2>5, <5>2 DEF n
          <5> QED BY <1>1, <2>5, <2>6, <3>1, <3>5, <5>3, <5>4, <5>5 DEF ControlOK
        <4> QED BY <4>1, <4>2, <4>4, <4>5, <4>6 DEF CommandOK
      <3>9. FilesKept /\ files' \in Seq(Files)
        BY <1>1, <1>2 DEF FilesKept, WorldOK
      <3>10. \A o \in Commands \ {c} :
               /\ Waits(o) /\ (cmd'[o].clean => cmd[o].clean)
               /\ cmd'[o].clean /\ Scoped(o) /\ cmd[o].dir = d =>
                    e.desc = dirs[d].desc /\ e.lock = dirs[d].lock /\ e.link = dirs[d].link
        BY <2>3, <3>3 DEF Waits, Moved
      <3>11. e.desc \in 0..Len(files') /\ e.lock \in 0..Len(files') /\ e.link \in 0..Len(files')
        BY <1>1, <3>1, <3>3 DEF Here
      <3>12. cmd' \in [Commands -> Records]
        BY <2>3 DEF Moved
      <3>13. cmd'[c].held => cmd'[c].lock = cmd[c].lock /\ cmd[c].held
        BY <2>5
      <3>14. e.left = dirs[d].left /\ (cmd'[c].temp => cmd[c].temp /\ cmd'[c].dir = cmd[c].dir)
        BY <2>5, <3>3
      <3> HIDE DEF d
      <3>15. d \in 1..Len(dirs)
        BY <3>1 DEF d
      <3> QED BY <1>1, <3>2, <3>4, <3>8, <3>9, <3>10, <3>11, <3>12, <3>13, <3>14, <3>15, WriteInv
    <2> QED BY <1>5, <2>7, <2>8 DEF Wants
  <1> QED BY <1>4, <1>5

LEMMA CrashOK ==
  ASSUME ServiceInv, NEW c \in Commands, Crash(c)
  PROVE  ServiceInv'
  <1>1. /\ Running(c) /\ cmd' = [cmd EXCEPT ![c] = Idle]
        /\ UNCHANGED <<files, named, mgr, runs, edits>>
    BY DEF Crash
  <1>2. cmd \in [Commands -> Records] /\ WorldOK /\ CommandOK(c) /\ cmd[c] \in Records
    BY DEF ServiceInv, WorldOK
  <1>3. /\ cmd' \in [Commands -> Records] /\ \A o \in Commands \ {c} : cmd'[o] = cmd[o]
        /\ cmd'[c] = Idle
    BY <1>1, <1>2, IdleType
  <1>4. ~cmd'[c].held /\ ~cmd'[c].temp /\ CommandOK(c)'
    <2>1. ~cmd'[c].held /\ ~cmd'[c].temp
      BY <1>3 DEF Idle
    <2> QED BY <1>3, <2>1, IdleOK
  <1>5. CASE ~cmd[c].temp
    <2>1. dirs' = dirs
      BY <1>5 DEF Crash
    <2>2. UNCHANGED <<files, dirs, named>> /\ mgr' \in Managers /\ runs' \in Nat /\ edits' \in Nat
      BY <1>1, <1>2, <2>1 DEF WorldOK
    <2>3. TempsOK'
      BY <1>3, <1>4, <2>2, PureTemps
    <2> QED BY <1>3, <1>4, <2>2, <2>3, PureStep
  <1>6. CASE cmd[c].temp
    <2> DEFINE d == cmd[c].dir
               e == [dirs[d] EXCEPT !.left = dirs[d].left + 1]
    <2>1. dirs' = [dirs EXCEPT ![d] = e]
      BY <1>6 DEF Crash
    <2>2. d \in 1..Len(dirs)
      BY <1>1, <1>2, <1>6, PlaceOf DEF CommandOK, ControlOK, Running
    <2>0. dirs[d].left \in Nat
      BY <1>2, <2>2, TempsInNat
    <2>3. dirs[d].left + 1 \in Nat /\ dirs[d].left \in Nat
      <3> HIDE DEF d, e
      <3> QED BY <2>0
    <2>4. dirs[d] \in Dirs /\ e \in Dirs
      BY <1>2, <2>2, <2>3, DirFields
    <2>5. e.desc = dirs[d].desc /\ e.lock = dirs[d].lock /\ e.link = dirs[d].link
          /\ e.left = dirs[d].left + 1
      BY <2>4 DEF Dirs
    <2> HIDE DEF e, d
    <2>6. /\ Len(dirs') = Len(dirs) /\ dirs'[d] = e
          /\ \A x \in 1..Len(dirs) : x # d => dirs'[x] = dirs[x]
      BY <1>2, <2>1, <2>2, <2>4, WrittenDir
    <2>7. TempsOK'
      <3> SUFFICES ASSUME NEW x \in 1..Len(dirs) PROVE Temps(x)' <= TempLimit
        BY <2>6 DEF TempsOK
      <3> DEFINE T == {o \in Commands : cmd[o].dir = x /\ cmd[o].temp}
                 U == {o \in Commands : cmd'[o].dir = x /\ cmd'[o].temp}
      <3>1. /\ IsFiniteSet(T) /\ Cardinality(T) \in Nat /\ dirs[x].left \in Nat
            /\ dirs[x].left + Cardinality(T) <= TempLimit /\ TempLimit \in Nat
        BY <1>2, TempsInNat, ServiceCommandsAssumption DEF ServiceInv, TempsOK, Temps
      <3>2. U = T \ {c}
        BY <1>3, <1>4
      <3>3. IsFiniteSet(U) /\ Cardinality(U) = IF c \in T THEN Cardinality(T) - 1 ELSE Cardinality(T)
        <4> HIDE DEF T, U
        <4>1. /\ IsFiniteSet(T \ {c})
              /\ Cardinality(T \ {c}) = IF c \in T THEN Cardinality(T) - 1 ELSE Cardinality(T)
          BY <3>1, FS_RemoveElement
        <4> QED BY <3>2, <4>1
      <3>4. x = d => c \in T
        BY <1>6 DEF d
      <3>5. dirs'[x].left = IF x = d THEN dirs[x].left + 1 ELSE dirs[x].left
        BY <2>5, <2>6
      <3>6. Cardinality(U) \in Nat
        BY <3>3, FS_CardinalityType
      <3> HIDE DEF T, U
      <3>7. dirs'[x].left + Cardinality(U) <= TempLimit
        BY <3>1, <3>3, <3>4, <3>5, <3>6
      <3> QED BY <3>7 DEF U, Temps
    <2>8. \A o \in Commands \ {c} :
            /\ Waits(o) /\ (cmd'[o].clean => cmd[o].clean)
            /\ cmd'[o].clean /\ Scoped(o) /\ cmd[o].dir = d =>
                 e.desc = dirs[d].desc /\ e.lock = dirs[d].lock /\ e.link = dirs[d].link
      BY <1>3, <2>5 DEF Waits
    <2>9. FilesKept /\ files' \in Seq(Files)
      BY <1>1, <1>2 DEF FilesKept, WorldOK
    <2>10. e.desc \in 0..Len(files') /\ e.lock \in 0..Len(files') /\ e.link \in 0..Len(files')
      BY <1>1, <1>2, <2>2, <2>5 DEF WorldOK
    <2> QED BY <1>1, <1>3, <1>4, <2>1, <2>2, <2>4, <2>7, <2>8, <2>9, <2>10, WriteInv
  <1> QED BY <1>5, <1>6

-----------------------------------------------------------------------------
(* What other programs and the manager do.                                 *)

LEMMA EditedWorld ==
  ASSUME ServiceInv, dirs' \in Seq(Dirs), Len(dirs') = Len(dirs),
         \A d \in 1..Len(dirs) :
           /\ dirs'[d].left = dirs[d].left
           /\ dirs'[d].desc \in 0..Len(files') /\ dirs'[d].lock \in 0..Len(files')
           /\ dirs'[d].link \in 0..Len(files'),
         files' \in Seq(Files), Grows, named' \in 0..Len(dirs'), mgr' \in Managers,
         runs' \in Nat, edits' \in Nat, cmd' \in [Commands -> Records],
         \A o \in Commands :
           Waits(o) /\ (cmd'[o].clean => cmd[o].clean /\ (Scoped(o) => Still(o)))
  PROVE  ServiceInv'
  <1>1. WorldOK'
    BY DEF WorldOK
  <1>2. \A o \in Commands : CommandOK(o)'
    BY <1>1, WaitsOK DEF ServiceInv
  <1>3. Exclusive'
    BY DEF ServiceInv, Exclusive, Waits
  <1>4. TempsOK'
    <2> SUFFICES ASSUME NEW d \in 1..Len(dirs) PROVE Temps(d)' <= TempLimit
      BY DEF TempsOK
    <2>1. {o \in Commands : cmd'[o].dir = d /\ cmd'[o].temp}
            = {o \in Commands : cmd[o].dir = d /\ cmd[o].temp}
      BY DEF Waits
    <2>2. Temps(d)' = Temps(d)
      BY <2>1 DEF Temps
    <2> QED BY <2>2 DEF ServiceInv, TempsOK
  <1> QED BY <1>1, <1>2, <1>3, <1>4 DEF ServiceInv

LEMMA ManagerOK ==
  ASSUME ServiceInv, Manager
  PROVE  ServiceInv'
  <1>1. UNCHANGED <<files, dirs, named, cmd, runs>> /\ WorldOK
    BY DEF Manager, ServiceInv
  <1>2. mgr' \in Managers /\ edits' \in Nat
    <2>1. mgr \in Managers /\ edits \in Nat /\ mgr.owner \in Nat
          /\ Loadable \in Contents
      BY <1>1, OwnerNat DEF WorldOK
    <2>2. CASE /\ mgr' = [owner |-> mgr.owner + 1, loaded |-> "none"]
               /\ edits' = edits + 1
      BY <2>1, <2>2 DEF Managers, Contents
    <2>3. CASE mgr' = [mgr EXCEPT !.loaded = Loadable] /\ edits' = edits
      BY <2>1, <2>3 DEF Managers
    <2> QED BY <2>2, <2>3 DEF Manager
  <1>3. Grows
    <2>1. \A f \in 1..Len(files) : files[f].stamp \in Nat
      BY <1>1, FileAt
    <2>2. Len(files) \in Nat /\ Len(dirs) \in Nat
      BY <1>1 DEF WorldOK
    <2> QED BY <1>1, <2>1, <2>2 DEF Grows
  <1>4. \A o \in Commands :
          Waits(o) /\ (cmd'[o].clean => cmd[o].clean /\ (Scoped(o) => Still(o)))
    BY <1>1 DEF Waits, Still
  <1> QED BY <1>1, <1>2, <1>3, <1>4, EditedWorld DEF WorldOK

\* The record of every command after another program interfered.
LEMMA Disturbed ==
  ASSUME cmd \in [Commands -> Records],
         cmd' = [o \in Commands |-> [cmd[o] EXCEPT !.clean = FALSE]]
  PROVE  cmd' \in [Commands -> Records] /\ \A o \in Commands : Waits(o) /\ ~cmd'[o].clean
  <1>1. ASSUME NEW o \in Commands
        PROVE  cmd'[o] \in Records /\ Waits(o) /\ ~cmd'[o].clean
    <2>1. cmd'[o] = [cmd[o] EXCEPT !.clean = FALSE] /\ cmd[o] \in Records
      OBVIOUS
    <2>2. cmd[o] = Idle => cmd'[o] = Idle
      BY <2>1, IdleType
    <2> QED BY <2>1, <2>2 DEF Waits, Records
  <1> QED BY <1>1

\* The files without the name that another program took away, if it did.
LEMMA Rested ==
  ASSUME WorldOK, NEW id \in 0..Len(files), NEW rest,
         rest = files \/ (id # 0 /\ rest = Unnamed(id))
  PROVE  /\ rest \in Seq(Files) /\ Len(rest) = Len(files) /\ Len(files) \in Nat
         /\ \A f \in 1..Len(files) :
              /\ rest[f].content = files[f].content /\ rest[f].stamp = files[f].stamp
              /\ ~files[f].linked => ~rest[f].linked
  <1>1. files \in Seq(Files) /\ Len(files) \in Nat
    BY DEF WorldOK
  <1>2. CASE rest = files
    BY <1>1, <1>2
  <1>3. CASE id # 0 /\ rest = Unnamed(id)
    <2> DEFINE e == [files[id] EXCEPT !.linked = FALSE]
    <2>1. id \in 1..Len(files) /\ files[id] \in Files
      BY <1>1, <1>3
    <2>2. /\ e \in Files /\ e.content = files[id].content /\ e.stamp = files[id].stamp
          /\ ~e.linked
      BY <2>1 DEF Files
    <2>3. rest = [files EXCEPT ![id] = e]
      BY <1>3 DEF Unnamed
    <2> HIDE DEF e
    <2>4. /\ rest \in Seq(Files) /\ Len(rest) = Len(files) /\ rest[id] = e
          /\ \A f \in 1..Len(files) : f # id => rest[f] = files[f]
      BY <1>1, <2>1, <2>2, <2>3, ExceptSeq
    <2> QED BY <1>1, <2>2, <2>4
  <1> QED BY <1>2, <1>3

LEMMA Grown ==
  ASSUME WorldOK, NEW rest \in Seq(Files), Len(rest) = Len(files), Len(dirs') = Len(dirs),
         \A f \in 1..Len(files) :
           /\ rest[f].content = files[f].content /\ rest[f].stamp = files[f].stamp
           /\ ~files[f].linked => ~rest[f].linked,
         files' = rest \/ \E x \in Contents : files' = Append(rest, NewFile(x))
  PROVE  /\ files' \in Seq(Files) /\ Grows /\ Len(files) <= Len(files') /\ Len(files') \in Nat
         /\ files' # rest => Len(files') = Len(files) + 1
  <1>1. Len(files) \in Nat /\ Len(dirs) \in Nat
    BY DEF WorldOK
  <1>2. \A f \in 1..Len(files) : files[f].stamp \in Nat
    BY FileAt
  <1>3. CASE files' = rest
    BY <1>1, <1>2, <1>3 DEF Grows
  <1>4. ASSUME NEW x \in Contents, files' = Append(rest, NewFile(x))
        PROVE  /\ files' \in Seq(Files) /\ Grows /\ Len(files) <= Len(files')
               /\ Len(files') \in Nat /\ Len(files') = Len(files) + 1
    <2>1. NewFile(x) \in Files
      BY DEF NewFile, Files
    <2>2. /\ files' \in Seq(Files) /\ Len(files') = Len(files) + 1
          /\ \A f \in 1..Len(files) : files'[f] = rest[f]
      BY <1>4, <2>1, AppendProperties
    <2> QED BY <1>1, <1>2, <2>2 DEF Grows
  <1> QED BY <1>3, <1>4

LEMMA Puts ==
  ASSUME WorldOK, NEW d \in 1..Len(dirs), NEW n \in {"desc", "lock", "link"}, NEW id \in Nat,
         id <= Len(files'), Len(files') \in Nat, Len(files) <= Len(files'),
         dirs' = Put(d, n, id)
  PROVE  /\ dirs' \in Seq(Dirs) /\ Len(dirs') = Len(dirs)
         /\ \A x \in 1..Len(dirs) :
              /\ dirs'[x].left = dirs[x].left
              /\ dirs'[x].desc \in 0..Len(files') /\ dirs'[x].lock \in 0..Len(files')
              /\ dirs'[x].link \in 0..Len(files')
  <1>1. /\ dirs[d] \in Dirs /\ Len(files) \in Nat
        /\ \A x \in 1..Len(dirs) :
             /\ dirs[x].desc \in 0..Len(files') /\ dirs[x].lock \in 0..Len(files')
             /\ dirs[x].link \in 0..Len(files')
    <2>1. Len(files) \in Nat /\ dirs[d] \in Dirs
      BY DEF WorldOK
    <2>2. ASSUME NEW x \in 1..Len(dirs)
          PROVE  /\ dirs[x].desc \in 0..Len(files') /\ dirs[x].lock \in 0..Len(files')
                 /\ dirs[x].link \in 0..Len(files')
      <3>1. /\ dirs[x].desc \in 0..Len(files) /\ dirs[x].lock \in 0..Len(files)
            /\ dirs[x].link \in 0..Len(files)
        BY DEF WorldOK
      <3> QED BY <2>1, <3>1
    <2> QED BY <2>1, <2>2
  <1>2. PICK e \in Dirs : /\ dirs' = [dirs EXCEPT ![d] = e] /\ e.left = dirs[d].left
                          /\ e.desc \in 0..Len(files') /\ e.lock \in 0..Len(files')
                          /\ e.link \in 0..Len(files')
    <2>0. id \in 0..Len(files')
      OBVIOUS
    <2>1. CASE n = "desc"
      <3> DEFINE e == [dirs[d] EXCEPT !.desc = id]
      <3>1. dirs' = [dirs EXCEPT ![d] = e]
        BY <2>1 DEF Put
      <3>2. e \in Dirs
        BY <1>1 DEF Dirs
      <3>3. e.left = dirs[d].left /\ e.desc = id /\ e.lock = dirs[d].lock
            /\ e.link = dirs[d].link
        BY <1>1 DEF Dirs
      <3> QED BY <1>1, <2>0, <3>1, <3>2, <3>3
    <2>2. CASE n = "lock"
      <3> DEFINE e == [dirs[d] EXCEPT !.lock = id]
      <3>1. dirs' = [dirs EXCEPT ![d] = e]
        BY <2>2 DEF Put
      <3>2. e \in Dirs
        BY <1>1 DEF Dirs
      <3>3. e.left = dirs[d].left /\ e.desc = dirs[d].desc /\ e.lock = id
            /\ e.link = dirs[d].link
        BY <1>1 DEF Dirs
      <3> QED BY <1>1, <2>0, <3>1, <3>2, <3>3
    <2>3. CASE n = "link"
      <3> DEFINE e == [dirs[d] EXCEPT !.link = id]
      <3>1. dirs' = [dirs EXCEPT ![d] = e]
        BY <2>3 DEF Put
      <3>2. e \in Dirs
        BY <1>1 DEF Dirs
      <3>3. e.left = dirs[d].left /\ e.desc = dirs[d].desc /\ e.lock = dirs[d].lock
            /\ e.link = id
        BY <1>1 DEF Dirs
      <3> QED BY <1>1, <2>0, <3>1, <3>2, <3>3
    <2> QED BY <2>1, <2>2, <2>3
  <1>3. /\ dirs' \in Seq(Dirs) /\ Len(dirs') = Len(dirs) /\ dirs'[d] = e
        /\ \A x \in 1..Len(dirs) : x # d => dirs'[x] = dirs[x]
    BY <1>2, WrittenDir
  <1> QED BY <1>1, <1>2, <1>3

LEMMA EditFilesOK ==
  ASSUME ServiceInv, EditFiles
  PROVE  ServiceInv'
  <1>1. /\ edits' = edits + 1 /\ UNCHANGED <<mgr, runs>> /\ WorldOK
        /\ cmd' = [o \in Commands |-> [cmd[o] EXCEPT !.clean = FALSE]]
    BY DEF EditFiles, ServiceInv
  <1>2. /\ edits' \in Nat /\ mgr' \in Managers /\ runs' \in Nat /\ cmd \in [Commands -> Records]
        /\ Len(files) \in Nat /\ Len(dirs) \in Nat /\ named \in 0..Len(dirs)
    BY <1>1 DEF WorldOK
  <1>3. cmd' \in [Commands -> Records] /\ \A o \in Commands : Waits(o) /\ ~cmd'[o].clean
    BY <1>1, <1>2, Disturbed
  <1>4. ASSUME NEW d \in 1..Len(dirs), NEW n \in {"desc", "lock", "link"}, NEW rest,
               rest = files \/ (Name(d, n) # 0 /\ rest = Unnamed(Name(d, n))),
               \/ files' = rest /\ dirs' = Put(d, n, 0)
               \/ /\ \E x \in PutContents(n) : files' = Append(rest, NewFile(x))
                  /\ dirs' = Put(d, n, Len(files) + 1),
               named' = named
        PROVE  ServiceInv'
    <2>1. Name(d, n) \in 0..Len(files)
      BY <1>1 DEF Name, WorldOK
    <2>2. /\ rest \in Seq(Files) /\ Len(rest) = Len(files)
          /\ \A f \in 1..Len(files) :
               /\ rest[f].content = files[f].content /\ rest[f].stamp = files[f].stamp
               /\ ~files[f].linked => ~rest[f].linked
      BY <1>1, <1>4, <2>1, Rested
    <2>3. PutContents(n) \subseteq Contents
      BY DEF PutContents, Contents
    <2>4. PICK id \in Nat : dirs' = Put(d, n, id) /\ (id = 0 \/ (files' # rest /\ id = Len(files) + 1))
      <3>1. CASE files' = rest /\ dirs' = Put(d, n, 0)
        BY <3>1
      <3>2. ASSUME NEW x \in PutContents(n), files' = Append(rest, NewFile(x)),
                   dirs' = Put(d, n, Len(files) + 1)
            PROVE  /\ dirs' = Put(d, n, Len(files) + 1) /\ files' # rest
                   /\ Len(files) + 1 \in Nat
        <4>1. x \in Contents
          BY <2>3
        <4>2. NewFile(x) \in Files
          BY <4>1 DEF NewFile, Files
        <4>3. Len(files') = Len(rest) + 1
          BY <2>2, <3>2, <4>2, AppendProperties
        <4> QED BY <1>2, <2>2, <3>2, <4>3
      <3> QED BY <1>4, <3>1, <3>2
    <2>5. Len(dirs') = Len(dirs)
      <3>1. dirs \in Seq(Dirs)
        BY <1>1 DEF WorldOK
      <3> QED BY <2>4, <3>1 DEF Put
    <2>6. files' = rest \/ \E x \in Contents : files' = Append(rest, NewFile(x))
      BY <1>4, <2>3
    <2>7. /\ files' \in Seq(Files) /\ Grows /\ Len(files) <= Len(files') /\ Len(files') \in Nat
          /\ files' # rest => Len(files') = Len(files) + 1
      BY <1>1, <2>2, <2>5, <2>6, Grown
    <2>8. id <= Len(files')
      BY <1>2, <2>4, <2>7
    <2>9. /\ dirs' \in Seq(Dirs) /\ Len(dirs') = Len(dirs)
          /\ \A x \in 1..Len(dirs) :
               /\ dirs'[x].left = dirs[x].left
               /\ dirs'[x].desc \in 0..Len(files') /\ dirs'[x].lock \in 0..Len(files')
               /\ dirs'[x].link \in 0..Len(files')
      BY <1>1, <2>4, <2>7, <2>8, Puts
    <2> QED BY <1>2, <1>3, <1>4, <2>7, <2>9, EditedWorld
  <1>5. ASSUME NEW d \in 1..Len(dirs), NEW x \in Profiles, dirs[d].desc # 0,
               files' = [files EXCEPT ![dirs[d].desc] =
                           [content |-> x, stamp |-> @.stamp + 1, linked |-> @.linked]],
               UNCHANGED <<dirs, named>>
        PROVE  ServiceInv'
    <2> DEFINE id == dirs[d].desc
               t == files[id].stamp + 1
               e == [content |-> x, stamp |-> t, linked |-> files[id].linked]
    <2>1. id \in 1..Len(files) /\ files \in Seq(Files)
      BY <1>1, <1>2, <1>5 DEF WorldOK
    <2>2. files[id] \in Files /\ files[id].stamp \in Nat
      BY <1>1, <2>1, FileAt
    <2>3. t \in Nat /\ t > files[id].stamp
      <3> HIDE DEF id
      <3> QED BY <2>2
    <2>4. files' = [files EXCEPT ![id] = e]
      BY <1>5
    <2>5. e \in Files /\ e.stamp = t /\ e.linked = files[id].linked
      <3> HIDE DEF t, id
      <3> QED BY <2>2, <2>3 DEF Files, Contents
    <2> HIDE DEF e, t
    <2>6. /\ files' \in Seq(Files) /\ Len(files') = Len(files) /\ files'[id] = e
          /\ \A f \in 1..Len(files) : f # id => files'[f] = files[f]
      BY <2>1, <2>4, <2>5, ExceptSeq
    <2> HIDE DEF id
    <2>7. Grows
      <3>1. \A f \in 1..Len(files) : files[f].stamp \in Nat
        BY <1>1, FileAt
      <3>2. Len(dirs') = Len(dirs)
        BY <1>5
      <3>3. ASSUME NEW f \in 1..Len(files)
            PROVE  /\ files[f].stamp <= files'[f].stamp
                   /\ files'[f].stamp = files[f].stamp => files'[f].content = files[f].content
                   /\ ~files[f].linked => ~files'[f].linked
        <4>1. CASE f = id
          BY <2>2, <2>3, <2>5, <2>6, <4>1
        <4>2. CASE f # id
          BY <2>6, <3>1, <4>2
        <4> QED BY <4>1, <4>2
      <3> QED BY <1>2, <2>6, <3>2, <3>3 DEF Grows
    <2>8. /\ dirs' \in Seq(Dirs) /\ Len(dirs') = Len(dirs) /\ named' \in 0..Len(dirs')
          /\ \A y \in 1..Len(dirs) :
               /\ dirs'[y].left = dirs[y].left
               /\ dirs'[y].desc \in 0..Len(files') /\ dirs'[y].lock \in 0..Len(files')
               /\ dirs'[y].link \in 0..Len(files')
      BY <1>1, <1>5, <2>6 DEF WorldOK
    <2> QED BY <1>2, <1>3, <2>6, <2>7, <2>8, EditedWorld
  <1>6. CASE named' = 0 /\ UNCHANGED <<files, dirs>>
    <2>1. Grows
      <3>1. \A f \in 1..Len(files) : files[f].stamp \in Nat
        BY <1>1, FileAt
      <3> QED BY <1>2, <1>6, <3>1 DEF Grows
    <2>2. /\ dirs' \in Seq(Dirs) /\ Len(dirs') = Len(dirs) /\ named' \in 0..Len(dirs')
          /\ files' \in Seq(Files)
          /\ \A y \in 1..Len(dirs) :
               /\ dirs'[y].left = dirs[y].left
               /\ dirs'[y].desc \in 0..Len(files') /\ dirs'[y].lock \in 0..Len(files')
               /\ dirs'[y].link \in 0..Len(files')
      BY <1>1, <1>2, <1>6 DEF WorldOK
    <2> QED BY <1>2, <1>3, <2>1, <2>2, EditedWorld
  <1>7. \/ \E d \in 1..Len(dirs), n \in {"desc", "lock", "link"} :
             \E gone \in IF Name(d, n) = 0 THEN {FALSE} ELSE BOOLEAN :
               LET rest == IF gone THEN Unnamed(Name(d, n)) ELSE files
               IN /\ \/ files' = rest /\ dirs' = Put(d, n, 0)
                     \/ /\ \E x \in PutContents(n) : files' = Append(rest, NewFile(x))
                        /\ dirs' = Put(d, n, Len(files) + 1)
                  /\ named' = named
        \/ \E d \in 1..Len(dirs), x \in Profiles :
             /\ dirs[d].desc # 0
             /\ files' = [files EXCEPT ![dirs[d].desc] =
                            [content |-> x, stamp |-> @.stamp + 1, linked |-> @.linked]]
             /\ UNCHANGED <<dirs, named>>
        \/ named' = 0 /\ UNCHANGED <<files, dirs>>
    BY ZenonT(60) DEF EditFiles
  <1>8. ASSUME NEW d \in 1..Len(dirs), NEW n \in {"desc", "lock", "link"},
               NEW gone \in IF Name(d, n) = 0 THEN {FALSE} ELSE BOOLEAN, NEW rest,
               rest = IF gone THEN Unnamed(Name(d, n)) ELSE files
        PROVE  rest = files \/ (Name(d, n) # 0 /\ rest = Unnamed(Name(d, n)))
    BY <1>8
  <1> QED BY <1>4, <1>5, <1>6, <1>7, <1>8, ZenonT(60)

-----------------------------------------------------------------------------
(* The steps that publish, remove or link the descriptor.                  *)

\* A step that changed a file in the command's directory.
LEMMA ActedInv ==
  ASSUME ServiceInv, NEW c \in Commands, Running(c), NEW k \in Records, NEW ended \in BOOLEAN,
         Acted(c, k, ended),
         k.action = cmd[c].action, k.want = cmd[c].want, k.pc = cmd[c].pc, k.dir = cmd[c].dir,
         k.lock = cmd[c].lock, k.held <=> cmd[c].held, k.clean <=> cmd[c].clean,
         k.temp => cmd[c].temp, k.src = cmd[c].src, k.owner = cmd[c].owner,
         cmd[c].action # "status", cmd[c].pc >= ScopedFrom(cmd[c].action),
         cmd[c].pc < Len(Steps(cmd[c].action)),
         cmd[c].action \in Guarded => cmd[c].pc >= 9,
         NEW e \in Dirs, dirs' = [dirs EXCEPT ![cmd[c].dir] = e], e.left = Here(c).left,
         e.desc \in 0..Len(files'), e.lock \in 0..Len(files'), e.link \in 0..Len(files'),
         files' \in Seq(Files), FilesKept, UNCHANGED <<named, mgr, runs, edits>>,
         DidOK(cmd'[c]), FileOK(cmd[c])', CleanOK(c)'
  PROVE  ServiceInv'
  <1>1. /\ cmd \in [Commands -> Records] /\ WorldOK /\ CommandOK(c) /\ cmd[c] \in Records
        /\ cmd[c].action \in AllActions /\ cmd[c].pc \in 1..Len(Steps(cmd[c].action))
        /\ cmd[c].pc \in Nat /\ cmd[c].action # "none"
    <2>1. cmd \in [Commands -> Records] /\ WorldOK /\ CommandOK(c)
      BY DEF ServiceInv, WorldOK
    <2> QED BY <2>1, PlaceOf DEF CommandOK, Running
  <1>2. /\ cmd' \in [Commands -> Records]
        /\ \A o \in Commands \ {c} :
             Waits(o) /\ (cmd'[o].clean <=> cmd[o].clean /\ k.clean)
        /\ cmd'[c].pc = k.pc + 1 /\ (cmd'[c].over <=> ended)
        /\ (cmd'[c].ok <=> k.ok /\ ~ended)
        /\ cmd'[c].action = k.action /\ cmd'[c].dir = k.dir
        /\ cmd'[c].lock = k.lock /\ (cmd'[c].held <=> k.held)
        /\ (cmd'[c].temp <=> k.temp) /\ cmd'[c].owner = k.owner /\ cmd'[c].src = k.src
    BY <1>1, ActedMoved
  <1>3. cmd[c].pc > 1 /\ cmd[c].pc >= LockedFrom(cmd[c].action)
        /\ cmd[c].pc >= LockedFrom(cmd[c].action) - 1
    BY <1>1 DEF ScopedFrom, LockedFrom
  <1>4. cmd[c].held /\ cmd[c].dir \in 1..Len(dirs) /\ cmd[c].lock \in 1..Len(files)
    BY <1>1, <1>3 DEF CommandOK, ControlOK
  <1>5. Len(dirs') = Len(dirs) /\ Len(files) \in Nat /\ Len(files') \in Nat
        /\ Len(files) <= Len(files')
    BY <1>1, <1>4, WrittenDir DEF FilesKept, WorldOK
  <1>6. ControlOK(cmd[c])'
    <2> DEFINE n == Len(Steps(cmd[c].action))
    <2>1. n \in Nat /\ cmd[c].pc < n
      BY <1>1, SomeSteps
    <2> HIDE DEF n
    <2>2. cmd'[c].pc \in 1..n + 1 /\ cmd'[c].pc <= n
      BY <1>1, <1>2, <2>1
    <2>3. cmd'[c].action = cmd[c].action
      BY <1>2
    <2>4. cmd'[c].pc \in 1..Len(Steps(cmd'[c].action)) + 1
          /\ cmd'[c].pc <= Len(Steps(cmd'[c].action))
      BY <2>2, <2>3 DEF n
    <2>5. cmd'[c].pc > 1 /\ cmd'[c].pc >= LockedFrom(cmd'[c].action)
          /\ cmd'[c].action \notin {"none", "status"}
      BY <1>1, <1>2, <1>3, <2>3 DEF LockedFrom
    <2>6. cmd'[c].dir \in 1..Len(dirs') /\ cmd'[c].lock \in 1..Len(files') /\ cmd'[c].held
      BY <1>2, <1>4, <1>5
    <2>7. cmd'[c].action \in Guarded => cmd'[c].src = cmd'[c].owner
      BY <1>2, <2>3, SameSource
    <2> QED BY <2>4, <2>5, <2>6, <2>7 DEF ControlOK
  <1>7. DoneOK(cmd'[c])
    BY <1>2 DEF DoneOK
  <1>8. CommandOK(c)'
    BY <1>6, <1>7 DEF CommandOK
  <1> DEFINE d == cmd[c].dir
  <1>9. ASSUME NEW o \in Commands \ {c}
        PROVE  /\ Waits(o) /\ (cmd'[o].clean => cmd[o].clean)
               /\ ~(cmd'[o].clean /\ Scoped(o) /\ cmd[o].dir = d)
    <2>1. Waits(o) /\ (cmd'[o].clean => cmd[o].clean /\ cmd[c].clean)
      BY <1>2
    <2>2. cmd[c].clean => Scoped(c)
      BY <1>4 DEF Scoped
    <2> QED BY <2>1, <2>2, Apart
  <1>10. d \in 1..Len(dirs)
    BY <1>4
  <1>11. dirs' = [dirs EXCEPT ![d] = e]
    OBVIOUS
  <1>12. e.left = dirs[d].left
    BY DEF Here
  <1>13. cmd'[c].held => cmd'[c].lock = cmd[c].lock /\ cmd[c].held
    BY <1>2
  <1>14. cmd'[c].temp => cmd[c].temp
    BY <1>2, Zenon
  <1>15. cmd'[c].dir = cmd[c].dir
    BY <1>2
  <1>16. e.left = dirs[d].left /\ (cmd'[c].temp => cmd[c].temp /\ cmd'[c].dir = cmd[c].dir)
    BY <1>12, <1>14, <1>15, Zenon
  <1> HIDE DEF d
  <1>17. \A o \in Commands \ {c} :
           /\ Waits(o) /\ (cmd'[o].clean => cmd[o].clean)
           /\ cmd'[o].clean /\ Scoped(o) /\ cmd[o].dir = d =>
                e.desc = dirs[d].desc /\ e.lock = dirs[d].lock /\ e.link = dirs[d].link
    BY <1>9
  <1>18. cmd' \in [Commands -> Records]
    BY <1>2
  <1> QED BY <1>8, <1>10, <1>13, <1>17, <1>16, <1>18, <1>11, WriteInv, ZenonT(60)

LEMMA RenameOK ==
  ASSUME ServiceInv, NEW c \in Commands, Rename(c)
  PROVE  ServiceInv'
  <1>1. At(c, "rename") /\ UNCHANGED <<named, mgr, runs, edits>>
    BY DEF Rename
  <1>2. /\ Running(c) /\ WorldOK /\ CommandOK(c) /\ cmd[c] \in Records
        /\ cmd[c].action \in AllActions /\ cmd[c].pc \in 1..Len(Steps(cmd[c].action))
        /\ Steps(cmd[c].action)[cmd[c].pc] = "rename" /\ cmd[c].pc \in Nat
    BY <1>1, AtStep
  <1>3. cmd[c].action = "install" /\ cmd[c].pc = 9
    BY <1>2, Places
  <1>4. /\ cmd[c].dir \in 1..Len(dirs) /\ Here(c).desc \in 0..Len(files)
        /\ Here(c).lock \in 0..Len(files) /\ Here(c).link \in 0..Len(files)
        /\ Len(files) \in Nat /\ Len(dirs) \in Nat
    BY <1>2, <1>3, HereOK
  <1>5. Scoped(c) => ScopeCheck(c)
    BY <1>2 DEF CommandOK, CleanOK
  <1> DEFINE h == [cmd[c] EXCEPT !.temp = FALSE, !.file = Len(files) + 1, !.did = TRUE]
             k == [h EXCEPT !.status = "uncertain"]
             e == [dirs[cmd[c].dir] EXCEPT !.desc = Len(files) + 1]
  <1>6. ASSUME files' = Append(files, NewFile(cmd[c].want)),
               dirs' = [dirs EXCEPT ![cmd[c].dir].desc = Len(files) + 1],
               NEW ended \in BOOLEAN, Acted(c, k, ended)
        PROVE  ServiceInv'
    <2>0. Len(files) + 1 \in Nat
      BY <1>4
    <2>1. /\ k \in Records /\ k.action = cmd[c].action /\ k.want = cmd[c].want
          /\ k.pc = cmd[c].pc /\ k.dir = cmd[c].dir /\ k.lock = cmd[c].lock
          /\ (k.held <=> cmd[c].held) /\ (k.clean <=> cmd[c].clean) /\ ~k.temp
          /\ k.src = cmd[c].src /\ k.owner = cmd[c].owner /\ k.status = "uncertain"
      BY <1>2, <2>0 DEF Records, Statuses
    <2>2. cmd[c].want \in Contents
      BY <1>2 DEF Records, Contents
    <2>3. files' \in Seq(Files) /\ FilesKept /\ Len(files') = Len(files) + 1
      BY <1>2, <1>6, <2>2, AddedFile
    <2>4. dirs' = [dirs EXCEPT ![cmd[c].dir] = e]
      BY <1>6
    <2>5. dirs[cmd[c].dir] \in Dirs /\ e \in Dirs
      BY <1>2, <1>4, <2>0, DirFields
    <2>6. /\ e.desc = Len(files) + 1 /\ e.lock = Here(c).lock
          /\ e.link = Here(c).link /\ e.left = Here(c).left
      BY <2>5 DEF Dirs, Here
    <2>7. Acted(c, k, ended)
      BY <1>6
    <2> HIDE DEF k, e
    <2>8. e.desc \in 0..Len(files') /\ e.lock \in 0..Len(files') /\ e.link \in 0..Len(files')
      BY <1>4, <2>3, <2>6
    <2>9. /\ cmd'[c].pc = k.pc + 1 /\ (cmd'[c].over <=> ended)
          /\ (cmd'[c].ok <=> k.ok /\ ~ended)
          /\ cmd'[c].action = k.action /\ cmd'[c].dir = k.dir
          /\ cmd'[c].lock = k.lock /\ (cmd'[c].held <=> k.held)
          /\ cmd'[c].status = k.status /\ (cmd'[c].clean <=> k.clean)
      BY <1>2, <2>1, <2>7, ActedMoved DEF WorldOK
    <2>10. /\ cmd'[c].action = "install" /\ cmd'[c].pc = 10 /\ cmd'[c].status = "uncertain"
           /\ cmd'[c].dir = cmd[c].dir /\ cmd'[c].lock = cmd[c].lock
           /\ (cmd'[c].held <=> cmd[c].held) /\ (cmd'[c].clean <=> cmd[c].clean)
           /\ ~(cmd'[c].over /\ cmd'[c].ok)
      BY <1>3, <2>1, <2>9
    <2>11. DidOK(cmd'[c]) /\ FileOK(cmd[c])'
      BY <2>10 DEF DidOK, FileOK
    <2>12. CleanOK(c)'
      <3> SUFFICES ASSUME Scoped(c)' PROVE CleanOK(c)'
        BY DEF CleanOK
      <3>1. Scoped(c)
        BY <1>3, <2>10 DEF Scoped, ScopedFrom, LockedFrom
      <3>2. dirs'[cmd[c].dir] = e
        BY <1>2, <1>4, <2>4, <2>5, WrittenDir
      <3>3. ScopeCheck(c)'
        BY <1>1, <1>5, <2>6, <2>10, <3>1, <3>2 DEF ScopeCheck, ChainCheck, LockCheck, Here
      <3> QED BY <2>10, <3>3 DEF CleanOK, Done, Guarded
    <2>13. cmd[c].action # "status" /\ cmd[c].pc >= ScopedFrom(cmd[c].action)
           /\ cmd[c].action \notin Guarded
      BY <1>3 DEF ScopedFrom, LockedFrom, Guarded
    <2>14. cmd[c].pc < Len(Steps(cmd[c].action))
      BY <1>2, NotLast
    <2> QED BY <1>1, <1>2, <2>1, <2>3, <2>4, <2>5, <2>6, <2>7, <2>8, <2>11, <2>12, <2>13,
               <2>14, ActedInv
  <1>7. CASE /\ files' = Append(files, NewFile(cmd[c].want))
             /\ dirs' = [dirs EXCEPT ![cmd[c].dir].desc = Len(files) + 1]
             /\ Acted(c, k, FALSE) \/ Acted(c, k, TRUE)
    BY <1>6, <1>7
  <1>8. CASE Fail(c, [cmd[c] EXCEPT !.status = RenameFailed]) /\ UNCHANGED <<files, dirs>>
    <2>1. UNCHANGED world /\ Fail(c, [cmd[c] EXCEPT !.status = "uncertain"])
      BY <1>1, <1>8 DEF world, RenameFailed
    <2>2. "uncertain" \in Plain
      BY DEF Plain
    <2> QED BY <1>2, <2>1, <2>2, FailsWith
  <1>9. CASE Fail(c, cmd[c]) /\ UNCHANGED <<files, dirs>>
    <2>1. UNCHANGED world
      BY <1>1, <1>9 DEF world
    <2> QED BY <1>2, <1>9, <2>1, Refuses
  <1> QED BY <1>7, <1>8, <1>9 DEF Rename, RenameFailed

LEMMA UnlinkOK ==
  ASSUME ServiceInv, NEW c \in Commands, Unlink(c)
  PROVE  ServiceInv'
  <1>1. At(c, "unlink") /\ UNCHANGED <<named, mgr, runs, edits>>
    BY DEF Unlink
  <1>2. /\ Running(c) /\ WorldOK /\ CommandOK(c) /\ cmd[c] \in Records
        /\ cmd[c].action \in AllActions /\ cmd[c].pc \in 1..Len(Steps(cmd[c].action))
        /\ Steps(cmd[c].action)[cmd[c].pc] = "unlink" /\ cmd[c].pc \in Nat
    BY <1>1, AtStep
  <1>3. cmd[c].action = "uninstall" /\ cmd[c].pc = 7
    BY <1>2, Places
  <1>4. /\ cmd[c].dir \in 1..Len(dirs) /\ Here(c).desc \in 0..Len(files)
        /\ Here(c).lock \in 0..Len(files) /\ Here(c).link \in 0..Len(files)
        /\ Len(files) \in Nat /\ Len(dirs) \in Nat
    BY <1>2, <1>3, HereOK
  <1>5. Scoped(c) => ScopeCheck(c)
    BY <1>2 DEF CommandOK, CleanOK
  <1>6. /\ cmd[c].file \in 1..Len(files) /\ cmd[c].stamp <= files[cmd[c].file].stamp
        /\ cmd[c].stamp = files[cmd[c].file].stamp => files[cmd[c].file].content = cmd[c].want
    BY <1>2, <1>3 DEF CommandOK, FileOK
  <1>7. cmd[c].pc < Len(Steps(cmd[c].action)) /\ cmd[c].pc # Len(Steps(cmd[c].action))
    BY <1>2, NotLast
  <1>8. ASSUME Here(c).desc # 0, files' = Unnamed(Here(c).desc),
               dirs' = [dirs EXCEPT ![cmd[c].dir].desc = 0], NEW ok \in BOOLEAN,
               Acted(c, [cmd[c] EXCEPT !.status = "unknown", !.ok = ok, !.did = TRUE], FALSE)
        PROVE  ServiceInv'
    <2> DEFINE k == [cmd[c] EXCEPT !.status = "unknown", !.ok = ok, !.did = TRUE]
               e == [dirs[cmd[c].dir] EXCEPT !.desc = 0]
    <2>1. /\ k \in Records /\ k.action = cmd[c].action /\ k.want = cmd[c].want
          /\ k.pc = cmd[c].pc /\ k.dir = cmd[c].dir /\ k.lock = cmd[c].lock
          /\ (k.held <=> cmd[c].held) /\ (k.clean <=> cmd[c].clean) /\ (k.temp <=> cmd[c].temp)
          /\ k.src = cmd[c].src /\ k.owner = cmd[c].owner /\ k.status = "unknown"
          /\ k.file = cmd[c].file /\ k.stamp = cmd[c].stamp
      BY <1>2 DEF Records, Statuses
    <2>2. Here(c).desc \in 1..Len(files)
      BY <1>4, <1>8
    <2>3. files' \in Seq(Files) /\ FilesKept /\ Len(files') = Len(files)
      BY <1>2, <1>8, <2>2, RemovedFile
    <2>4. dirs' = [dirs EXCEPT ![cmd[c].dir] = e]
      BY <1>8
    <2>5. dirs[cmd[c].dir] \in Dirs /\ e \in Dirs
      BY <1>2, <1>4, DirFields
    <2>6. /\ e.desc = 0 /\ e.lock = Here(c).lock
          /\ e.link = Here(c).link /\ e.left = Here(c).left
      BY <2>5 DEF Dirs, Here
    <2>7. Acted(c, k, FALSE)
      BY <1>8
    <2> HIDE DEF k, e
    <2>8. e.desc \in 0..Len(files') /\ e.lock \in 0..Len(files') /\ e.link \in 0..Len(files')
      BY <1>4, <2>3, <2>6
    <2>9. /\ cmd'[c].pc = k.pc + 1 /\ (cmd'[c].over <=> FALSE)
          /\ cmd'[c].action = k.action /\ cmd'[c].dir = k.dir /\ cmd'[c].want = k.want
          /\ cmd'[c].lock = k.lock /\ (cmd'[c].held <=> k.held) /\ cmd'[c].file = k.file
          /\ cmd'[c].status = k.status /\ (cmd'[c].clean <=> k.clean)
          /\ cmd'[c].stamp = k.stamp
      BY <1>2, <2>1, <2>7, ActedMoved DEF WorldOK
    <2>10. /\ cmd'[c].action = "uninstall" /\ cmd'[c].pc = 8 /\ cmd'[c].status = "unknown"
           /\ cmd'[c].dir = cmd[c].dir /\ cmd'[c].lock = cmd[c].lock
           /\ (cmd'[c].held <=> cmd[c].held) /\ (cmd'[c].clean <=> cmd[c].clean)
           /\ ~cmd'[c].over /\ cmd'[c].file = cmd[c].file /\ cmd'[c].stamp = cmd[c].stamp
           /\ cmd'[c].want = cmd[c].want
      BY <1>3, <2>1, <2>9
    <2>11. DidOK(cmd'[c])
      BY <2>10 DEF DidOK
    <2>12. FileOK(cmd[c])'
      <3>1. /\ files'[cmd[c].file].content = files[cmd[c].file].content
            /\ files'[cmd[c].file].stamp = files[cmd[c].file].stamp
        BY <1>6, <2>3 DEF FilesKept
      <3> QED BY <1>6, <2>3, <2>10, <3>1 DEF FileOK
    <2>13. CleanOK(c)'
      <3> SUFFICES ASSUME Scoped(c)' PROVE CleanOK(c)'
        BY DEF CleanOK
      <3>1. Scoped(c)
        BY <1>3, <2>10 DEF Scoped, ScopedFrom, LockedFrom
      <3>2. dirs'[cmd[c].dir] = e
        BY <1>2, <1>4, <2>4, <2>5, WrittenDir
      <3>3. ScopeCheck(c)'
        BY <1>1, <1>5, <2>6, <2>10, <3>1, <3>2 DEF ScopeCheck, ChainCheck, LockCheck, Here
      <3> QED BY <2>10, <3>3 DEF CleanOK, Done, Guarded
    <2>14. cmd[c].action # "status" /\ cmd[c].pc >= ScopedFrom(cmd[c].action)
           /\ cmd[c].action \notin Guarded
      BY <1>3 DEF ScopedFrom, LockedFrom, Guarded
    <2> QED BY <1>1, <1>2, <1>7, <2>1, <2>3, <2>4, <2>5, <2>6, <2>7, <2>8, <2>11, <2>12, <2>13,
               <2>14, ActedInv
  <1>9. CASE /\ Go(c, [cmd[c] EXCEPT !.status = "unknown", !.ok = FALSE])
             /\ UNCHANGED <<files, dirs>>
    <2> DEFINE k == [cmd[c] EXCEPT !.status = "unknown", !.ok = FALSE]
    <2>1. /\ SameHold(c, k) /\ k \in Records /\ (k.clean <=> cmd[c].clean)
          /\ (k.did <=> cmd[c].did) /\ k.file = cmd[c].file /\ k.stamp = cmd[c].stamp
          /\ k.status = "unknown" /\ k.action = "uninstall" /\ k.pc = 7
      BY <1>2, <1>3, ZenonT(60) DEF SameHold, Records, Statuses
    <2>2. Go(c, k)
      BY <1>9
    <2> HIDE DEF k
    <2>3. Moved(c, k, k.pc + 1, k.pc = Len(Steps(k.action)), k.ok)
      BY <1>2, <2>1, <2>2, GoMoved DEF WorldOK
    <2>4. /\ cmd'[c].action = "uninstall" /\ cmd'[c].pc = 8 /\ ~cmd'[c].over
          /\ cmd'[c].dir = cmd[c].dir /\ cmd'[c].lock = cmd[c].lock
          /\ (cmd'[c].held <=> cmd[c].held) /\ (cmd'[c].clean <=> cmd[c].clean)
      BY <1>3, <1>7, <2>1, <2>3 DEF Moved, SameHold
    <2>5. CleanOK(c)'
      <3> SUFFICES ASSUME Scoped(c)' PROVE CleanOK(c)'
        BY DEF CleanOK
      <3>1. Scoped(c)
        BY <1>3, <2>4 DEF Scoped, ScopedFrom, LockedFrom
      <3>2. ScopeCheck(c)'
        BY <1>1, <1>5, <1>9, <2>4, <3>1 DEF ScopeCheck, ChainCheck, LockCheck, Here
      <3> QED BY <2>4, <3>2 DEF CleanOK, Done, Guarded
    <2>6. Reads
      BY <1>1, <1>2, <1>9 DEF Reads, WorldOK
    <2>7. Words(c, k) /\ k.pc # 5 /\ cmd[c].pc > 1 /\ k.action \notin Guarded
          /\ cmd[c].pc # LockedFrom(cmd[c].action) - 2
          /\ cmd[c].pc # LockedFrom(cmd[c].action) - 1
      BY <1>3, <2>1 DEF Words, Plain, LockedFrom, Guarded
    <2> QED BY <1>2, <2>1, <2>2, <2>5, <2>6, <2>7, Passes
  <1> QED BY <1>8, <1>9 DEF Unlink

LEMMA ChangeOK ==
  ASSUME ServiceInv, NEW c \in Commands, Change(c)
  PROVE  ServiceInv'
  <1>1. At(c, "change") /\ UNCHANGED <<named, mgr, runs, edits>>
    BY DEF Change
  <1>2. /\ Running(c) /\ WorldOK /\ CommandOK(c) /\ cmd[c] \in Records
        /\ cmd[c].action \in AllActions /\ cmd[c].pc \in 1..Len(Steps(cmd[c].action))
        /\ Steps(cmd[c].action)[cmd[c].pc] = "change" /\ cmd[c].pc \in Nat
    BY <1>1, AtStep
  <1>3. cmd[c].action \in {"enable", "disable"} /\ cmd[c].pc = 15
    BY <1>2, Places
  <1>4. /\ cmd[c].dir \in 1..Len(dirs) /\ Here(c).desc \in 0..Len(files)
        /\ Here(c).lock \in 0..Len(files) /\ Here(c).link \in 0..Len(files)
        /\ Len(files) \in Nat /\ Len(dirs) \in Nat
    BY <1>2, <1>3, HereOK
  <1>5. Scoped(c) => GuardCheck(c)
    BY <1>2, <1>3 DEF CommandOK, CleanOK, Guarded
  <1>7. cmd[c].pc < Len(Steps(cmd[c].action)) /\ cmd[c].pc # Len(Steps(cmd[c].action))
    BY <1>2, NotLast
  <1>8. ASSUME NEW n \in 0..Len(files'), files' \in Seq(Files), FilesKept, Len(files') \in Nat,
               dirs' = [dirs EXCEPT ![cmd[c].dir].link = n], NEW ok \in BOOLEAN,
               Acted(c, [[cmd[c] EXCEPT !.status = "unknown"] EXCEPT !.ok = ok, !.did = TRUE],
                     FALSE)
        PROVE  ServiceInv'
    <2> DEFINE k == [[cmd[c] EXCEPT !.status = "unknown"] EXCEPT !.ok = ok, !.did = TRUE]
               e == [dirs[cmd[c].dir] EXCEPT !.link = n]
    <2>1. /\ k \in Records /\ k.action = cmd[c].action /\ k.want = cmd[c].want
          /\ k.pc = cmd[c].pc /\ k.dir = cmd[c].dir /\ k.lock = cmd[c].lock
          /\ (k.held <=> cmd[c].held) /\ (k.clean <=> cmd[c].clean) /\ (k.temp <=> cmd[c].temp)
          /\ k.src = cmd[c].src /\ k.owner = cmd[c].owner /\ k.status = "unknown"
          /\ k.file = cmd[c].file /\ k.stamp = cmd[c].stamp
      BY <1>2 DEF Records, Statuses
    <2>2. n \in Nat /\ Len(files) <= Len(files')
      BY <1>8 DEF FilesKept
    <2>4. dirs' = [dirs EXCEPT ![cmd[c].dir] = e]
      BY <1>8
    <2>5. dirs[cmd[c].dir] \in Dirs /\ e \in Dirs
      BY <1>2, <1>4, <2>2, DirFields
    <2>6. /\ e.desc = Here(c).desc /\ e.lock = Here(c).lock
          /\ e.link = n /\ e.left = Here(c).left
      BY <2>5 DEF Dirs, Here
    <2>7. Acted(c, k, FALSE)
      BY <1>8
    <2> HIDE DEF k, e
    <2>8. e.desc \in 0..Len(files') /\ e.lock \in 0..Len(files') /\ e.link \in 0..Len(files')
      BY <1>4, <1>8, <2>2, <2>6
    <2>9. /\ cmd'[c].pc = k.pc + 1 /\ (cmd'[c].over <=> FALSE)
          /\ cmd'[c].action = k.action /\ cmd'[c].dir = k.dir /\ cmd'[c].want = k.want
          /\ cmd'[c].lock = k.lock /\ (cmd'[c].held <=> k.held) /\ cmd'[c].file = k.file
          /\ cmd'[c].status = k.status /\ (cmd'[c].clean <=> k.clean)
          /\ cmd'[c].stamp = k.stamp
      BY <1>2, <2>1, <2>7, ActedMoved DEF WorldOK
    <2>10. /\ cmd'[c].action = cmd[c].action /\ cmd'[c].pc = 16 /\ cmd'[c].status = "unknown"
           /\ cmd'[c].dir = cmd[c].dir /\ cmd'[c].lock = cmd[c].lock
           /\ (cmd'[c].held <=> cmd[c].held) /\ (cmd'[c].clean <=> cmd[c].clean)
           /\ ~cmd'[c].over /\ cmd'[c].file = cmd[c].file /\ cmd'[c].stamp = cmd[c].stamp
           /\ cmd'[c].want = cmd[c].want
      BY <1>3, <2>1, <2>9
    <2>11. DidOK(cmd'[c]) /\ FileOK(cmd[c])'
      <3>1. cmd'[c].action \in {"enable", "disable"} /\ cmd'[c].pc = 16
            /\ cmd'[c].status = "unknown"
        BY <1>3, <2>10
      <3> QED BY <3>1 DEF DidOK, FileOK
    <2>13. CleanOK(c)'
      <3> SUFFICES ASSUME Scoped(c)' PROVE CleanOK(c)'
        BY DEF CleanOK
      <3>1. Scoped(c)
        BY <1>3, <2>10 DEF Scoped, ScopedFrom, LockedFrom
      <3>2. dirs'[cmd[c].dir] = e
        BY <1>2, <1>4, <2>4, <2>5, WrittenDir
      <3>3. ScopeCheck(c)'
        BY <1>1, <1>5, <2>6, <2>10, <3>1, <3>2
        DEF GuardCheck, ScopeCheck, ChainCheck, LockCheck, Here
      <3>4. Here(c)'.desc = Here(c).desc
        BY <2>6, <2>10, <3>2 DEF Here
      <3>5. GuardCheck(c)
        BY <1>5, <3>1
      <3>6. Here(c).desc \in 1..Len(files) /\ cmd[c].file = Here(c).desc
        BY <1>4, <3>5 DEF GuardCheck, SameFile
      <3>7. /\ files'[Here(c).desc].content = files[Here(c).desc].content
            /\ files'[Here(c).desc].stamp = files[Here(c).desc].stamp
        BY <1>8, <3>6 DEF FilesKept
      <3>8. ReadArtifact(c)' = "exact"
        BY <2>10, <3>4, <3>5, <3>6, <3>7 DEF GuardCheck, ReadArtifact
      <3>9. SameFile(c)'
        BY <2>10, <3>4, <3>5, <3>6, <3>7 DEF GuardCheck, SameFile
      <3>10. GuardCheck(c)'
        BY <3>3, <3>8, <3>9 DEF GuardCheck
      <3> QED BY <1>3, <2>10, <3>3, <3>10 DEF CleanOK, Done
    <2>14. cmd[c].action # "status" /\ cmd[c].pc >= ScopedFrom(cmd[c].action)
           /\ cmd[c].pc >= 9
      BY <1>3 DEF ScopedFrom, LockedFrom
    <2> QED BY <1>1, <1>2, <1>7, <1>8, <2>1, <2>4, <2>5, <2>6, <2>7, <2>8, <2>11, <2>13,
               <2>14, ActedInv
  <1>9. CASE /\ Go(c, [[cmd[c] EXCEPT !.status = "unknown"] EXCEPT !.ok = FALSE])
             /\ UNCHANGED <<files, dirs>>
    <2> DEFINE k == [[cmd[c] EXCEPT !.status = "unknown"] EXCEPT !.ok = FALSE]
    <2>0. cmd[c].src = cmd[c].owner
      BY <1>2, <1>3, SameSource DEF Guarded
    <2>1. /\ SameHold(c, k) /\ k \in Records /\ (k.clean <=> cmd[c].clean)
          /\ (k.did <=> cmd[c].did) /\ k.file = cmd[c].file /\ k.stamp = cmd[c].stamp
          /\ k.status = "unknown" /\ k.action = cmd[c].action /\ k.pc = 15
          /\ k.src = k.owner
      BY <1>2, <1>3, <2>0, ZenonT(60) DEF SameHold, Records, Statuses
    <2>2. Go(c, k)
      BY <1>9
    <2> HIDE DEF k
    <2>3. Moved(c, k, k.pc + 1, k.pc = Len(Steps(k.action)), k.ok)
      BY <1>2, <2>1, <2>2, GoMoved DEF WorldOK
    <2>4. /\ cmd'[c].action = cmd[c].action /\ cmd'[c].pc = 16 /\ ~cmd'[c].over
          /\ cmd'[c].dir = cmd[c].dir /\ cmd'[c].lock = cmd[c].lock
          /\ (cmd'[c].held <=> cmd[c].held) /\ (cmd'[c].clean <=> cmd[c].clean)
          /\ cmd'[c].file = cmd[c].file /\ cmd'[c].stamp = cmd[c].stamp
          /\ cmd'[c].want = cmd[c].want
      BY <1>3, <1>7, <2>1, <2>3 DEF Moved, SameHold
    <2>5. CleanOK(c)'
      <3> SUFFICES ASSUME Scoped(c)' PROVE CleanOK(c)'
        BY DEF CleanOK
      <3>1. Scoped(c)
        BY <1>3, <2>4 DEF Scoped, ScopedFrom, LockedFrom
      <3>2. GuardCheck(c)'
        BY <1>1, <1>5, <1>9, <2>4, <3>1, SeenSame
      <3> QED BY <1>3, <2>4, <3>2 DEF CleanOK, Done, GuardCheck
    <2>6. Reads
      BY <1>1, <1>2, <1>9 DEF Reads, WorldOK
    <2>7. Words(c, k) /\ k.action # "uninstall" /\ cmd[c].pc > 1
          /\ cmd[c].pc # LockedFrom(cmd[c].action) - 2
          /\ cmd[c].pc # LockedFrom(cmd[c].action) - 1
      BY <1>3, <2>1 DEF Words, Plain, LockedFrom
    <2> QED BY <1>2, <2>1, <2>2, <2>5, <2>6, <2>7, Passes
  <1>10. ASSUME /\ (Here(c).link = 0) = (cmd[c].action = "enable")
                /\ IF cmd[c].action = "enable"
                   THEN /\ files' = Append(files, NewFile("target"))
                        /\ dirs' = [dirs EXCEPT ![cmd[c].dir].link = Len(files) + 1]
                   ELSE /\ files' = Unnamed(Here(c).link)
                        /\ dirs' = [dirs EXCEPT ![cmd[c].dir].link = 0],
                NEW ok \in BOOLEAN,
                Acted(c, [[cmd[c] EXCEPT !.status = "unknown"] EXCEPT !.ok = ok, !.did = TRUE],
                      FALSE)
         PROVE  ServiceInv'
    <2>1. CASE cmd[c].action = "enable"
      <3>1. /\ files' = Append(files, NewFile("target"))
            /\ dirs' = [dirs EXCEPT ![cmd[c].dir].link = Len(files) + 1]
        BY <1>10, <2>1
      <3>2. files' \in Seq(Files) /\ FilesKept /\ Len(files') = Len(files) + 1
        BY <1>2, <3>1, AddedFile DEF Contents
      <3>3. Len(files) + 1 \in 0..Len(files') /\ Len(files') \in Nat
        BY <1>4, <3>2
      <3> QED BY <1>8, <1>10, <3>1, <3>2, <3>3
    <2>2. CASE cmd[c].action # "enable"
      <3>1. /\ files' = Unnamed(Here(c).link)
            /\ dirs' = [dirs EXCEPT ![cmd[c].dir].link = 0]
            /\ Here(c).link # 0
        BY <1>10, <2>2
      <3>2. Here(c).link \in 1..Len(files)
        BY <1>4, <3>1
      <3>3. files' \in Seq(Files) /\ FilesKept /\ Len(files') = Len(files)
        BY <1>2, <3>1, <3>2, RemovedFile
      <3>4. 0 \in 0..Len(files') /\ Len(files') \in Nat
        BY <1>4, <3>3
      <3> QED BY <1>8, <1>10, <3>1, <3>3, <3>4
    <2> QED BY <2>1, <2>2
  <1> QED BY <1>9, <1>10 DEF Change

-----------------------------------------------------------------------------
(* The invariant.                                                          *)

LEMMA InitOK == Init => ServiceInv
  <1> SUFFICES ASSUME Init PROVE ServiceInv
    OBVIOUS
  <1>1. PICK p \in Profiles : files = StartFiles(p)
    BY DEF Init
  <1>2. files \in Seq(Files) /\ Len(files) = 3
    <2>1. NewFile("lock") \in Files /\ NewFile(p) \in Files /\ NewFile("target") \in Files
      BY DEF NewFile, Files, Contents
    <2> QED BY <1>1, <2>1 DEF StartFiles
  <1>3. cmd = [c \in Commands |-> Idle] /\ cmd \in [Commands -> Records]
    BY IdleType DEF Init
  <1>4. ASSUME NEW s \in Starts, s # "nothing"
        PROVE  /\ StartDir(s) \in Dirs /\ StartDir(s).left = 0
               /\ StartDir(s).desc \in 0..3 /\ StartDir(s).lock \in 0..3
               /\ StartDir(s).link \in 0..3
    <2>1. s = "empty" \/ s = "installed" \/ s = "linked"
      BY <1>4, ServiceCommandsAssumption
    <2>2. CASE s = "empty"
      <3>1. StartDir(s) = NewDir
        BY <2>2 DEF StartDir
      <3>2. StartDir(s) = [desc |-> 0, lock |-> 0, wants |-> FALSE, link |-> 0, left |-> 0]
        BY <3>1 DEF NewDir
      <3> QED BY <3>2 DEF Dirs
    <2>3. CASE s = "installed"
      <3>1. StartDir(s) = [NewDir EXCEPT !.lock = 1, !.desc = 2]
        BY <2>3 DEF StartDir
      <3>2. StartDir(s) = [desc |-> 2, lock |-> 1, wants |-> FALSE, link |-> 0, left |-> 0]
        BY <3>1 DEF NewDir
      <3> QED BY <3>2 DEF Dirs
    <2>4. CASE s = "linked"
      <3>1. StartDir(s) = [NewDir EXCEPT !.lock = 1, !.desc = 2, !.wants = TRUE, !.link = 3]
        BY <2>4 DEF StartDir
      <3>2. StartDir(s) = [desc |-> 2, lock |-> 1, wants |-> TRUE, link |-> 3, left |-> 0]
        BY <3>1 DEF NewDir
      <3> QED BY <3>2 DEF Dirs
    <2> QED BY <2>1, <2>2, <2>3, <2>4
  <1>5. /\ dirs \in Seq(Dirs) /\ named \in 0..Len(dirs) /\ Len(dirs) \in Nat
        /\ \A d \in 1..Len(dirs) :
             dirs[d].left = 0 /\ dirs[d].desc \in 0..Len(files)
             /\ dirs[d].lock \in 0..Len(files) /\ dirs[d].link \in 0..Len(files)
    <2>1. PICK s \in Starts : IF s = "nothing" THEN dirs = <<>> /\ named = 0
                              ELSE dirs = <<StartDir(s)>> /\ named = 1
      BY DEF Init
    <2>2. CASE s = "nothing"
      BY <2>1, <2>2
    <2>3. CASE s # "nothing"
      <3> DEFINE e == StartDir(s)
      <3>1. /\ e \in Dirs /\ e.left = 0 /\ e.desc \in 0..3 /\ e.lock \in 0..3
            /\ e.link \in 0..3
        BY <1>4, <2>3
      <3> HIDE DEF e
      <3>2. dirs = <<e>> /\ named = 1
        BY <2>1, <2>3 DEF e
      <3> QED BY <1>2, <3>1, <3>2
    <2> QED BY <2>2, <2>3
  <1>6. WorldOK
    <2>1. mgr \in Managers /\ runs \in Nat /\ edits \in Nat
      BY DEF Init, Managers, Contents
    <2> QED BY <1>2, <1>3, <1>5, <2>1 DEF WorldOK
  <1>7. \A c \in Commands :
          /\ cmd[c] = Idle /\ ~cmd[c].held /\ ~cmd[c].temp /\ ~cmd[c].did /\ ~cmd[c].clean
          /\ ~cmd[c].over /\ cmd[c].action = "none" /\ cmd[c].status = "not_requested"
    BY <1>3 DEF Idle
  <1>8. Exclusive
    BY <1>7 DEF Exclusive
  <1>9. TempsOK
    <2> SUFFICES ASSUME NEW d \in 1..Len(dirs) PROVE Temps(d) <= TempLimit
      BY DEF TempsOK
    <2>1. {c \in Commands : cmd[c].dir = d /\ cmd[c].temp} = {}
      BY <1>7
    <2>2. Temps(d) = 0 + Cardinality({})
      BY <1>5, <2>1 DEF Temps
    <2>3. Cardinality({}) = 0
      BY FS_EmptySet
    <2>4. Temps(d) = 0
      BY <2>2, <2>3
    <2> QED BY <2>4, ServiceCommandsAssumption
  <1>10. ASSUME NEW c \in Commands PROVE CommandOK(c)
    BY <1>7 DEF CommandOK, ControlOK, DidOK, FileOK, DoneOK, CleanOK, Scoped
  <1> QED BY <1>6, <1>8, <1>9, <1>10 DEF ServiceInv

LEMMA StutterOK ==
  ASSUME ServiceInv, UNCHANGED vars
  PROVE  ServiceInv'
  <1>1. UNCHANGED <<files, dirs, named, mgr, cmd, runs, edits>>
    BY DEF vars
  <1>2. WorldOK'
    BY <1>1 DEF ServiceInv, WorldOK
  <1>3. Exclusive'
    BY <1>1 DEF ServiceInv, Exclusive
  <1>4. TempsOK'
    BY <1>1 DEF ServiceInv, TempsOK, Temps
  <1>5. ASSUME NEW c \in Commands PROVE CommandOK(c)'
    <2>1. CommandOK(c)
      BY DEF ServiceInv
    <2>2. ControlOK(cmd[c])' /\ DidOK(cmd[c])' /\ FileOK(cmd[c])' /\ DoneOK(cmd[c])'
      BY <1>1, <2>1 DEF CommandOK, ControlOK, DidOK, FileOK, DoneOK
    <2>3. CleanOK(c)'
      BY <1>1, <2>1
      DEF CommandOK, CleanOK, Scoped, Done, ScopeCheck, ChainCheck, LockCheck, Here, GuardCheck,
          ReadArtifact, SameFile
    <2> QED BY <2>2, <2>3 DEF CommandOK
  <1> QED BY <1>2, <1>3, <1>4, <1>5 DEF ServiceInv

LEMMA NextOK ==
  ASSUME ServiceInv, [Next]_vars
  PROVE  ServiceInv'
  <1>1. ASSUME NEW c \in Commands, Step(c) PROVE ServiceInv'
    <2>1. CASE Begin(c) \/ Open(c) \/ Look(c) \/ Stat(c) \/ Lock(c) \/ Flock(c) \/ Scope(c)
               \/ Guard(c)
      BY <2>1, BeginOK, OpenOK, LookOK, StatOK, LockOK, FlockOK, ScopeOK, GuardOK
    <2>2. CASE Relook(c) \/ Temp(c) \/ Rename(c) \/ Confirm(c) \/ Sync(c) \/ Final(c)
      BY <2>2, RelookOK, TempOK, RenameOK, ConfirmOK, SyncOK, FinalOK
    <2>3. CASE Examine(c) \/ Examined(c) \/ Unlink(c) \/ Observe(c)
      BY <2>3, ExamineOK, ExaminedOK, UnlinkOK, ObserveOK
    <2>4. CASE Owner(c) \/ Load(c) \/ Lookup(c) \/ Match(c) \/ SameOwner(c) \/ Request(c)
               \/ Report(c)
      BY <2>4, OwnerOK, LoadOK, LookupOK, MatchOK, SameOwnerOK, RequestOK, ReportOK
    <2>5. CASE Wants(c) \/ OpenLink(c) \/ SameLink(c) \/ Change(c) \/ Changed(c)
      BY <2>5, WantsOK, OpenLinkOK, SameLinkOK, ChangeOK, ChangedOK
    <2>6. CASE Reply(c) \/ Cancel(c) \/ Crash(c)
      BY <2>6, ReplyOK, CancelOK, CrashOK
    <2> QED BY <1>1, <2>1, <2>2, <2>3, <2>4, <2>5, <2>6 DEF Step
  <1>2. CASE EditFiles
    BY <1>2, EditFilesOK
  <1>3. CASE Manager
    BY <1>3, ManagerOK
  <1>4. CASE UNCHANGED vars
    BY <1>4, StutterOK
  <1> QED BY <1>1, <1>2, <1>3, <1>4 DEF Next

\* The invariant of the service commands: every name leads to a file, the lock
\* keeps commands apart, and what an undisturbed command last checked holds.
THEOREM ServiceInvariant == Spec => []ServiceInv
  <1>1. ServiceInv /\ [Next]_vars => ServiceInv'
    BY NextOK
  <1> QED BY InitOK, <1>1, PTL DEF Spec

\* A command that changed the descriptor or the link, or sent a request, never
\* says that it did nothing (uncertainArtifact, removalFailure, runtimeFailure,
\* loginLinkFailure).
THEOREM FailuresAreHonest == Spec => []FailuresHonest
  <1>1. ServiceInv => FailuresHonest
    BY DEF ServiceInv, CommandOK, DidOK, FailuresHonest
  <1> QED BY ServiceInvariant, <1>1, PTL

-----------------------------------------------------------------------------
(* What a command reports.                                                 *)

LEMMA GuardAsChecked ==
  ASSUME NEW c \in Commands, GuardCheck(c)
  PROVE  AsChecked(c)
  <1>1. ScopeCheck(c) /\ ReadArtifact(c) = "exact" /\ SameFile(c)
    BY DEF GuardCheck
  <1>2. Here(c).desc # 0 /\ Here(c).desc = cmd[c].file
    BY <1>1 DEF SameFile
  <1>3. files[Here(c).desc].content = cmd[c].want
    <2> SUFFICES ASSUME files[Here(c).desc].content # cmd[c].want PROVE FALSE
      OBVIOUS
    <2>1. ReadArtifact(c) = "conflict"
      BY <1>2 DEF ReadArtifact
    <2> QED BY <1>1, <2>1
  <1> QED BY <1>1, <1>2, <1>3 DEF AsChecked, ScopeCheck

LEMMA ResultTrue ==
  ASSUME ServiceInv, NEW c \in Commands, cmd[c].over
  PROVE  /\ cmd[c].status = "removed" => ~files[cmd[c].file].linked
         /\ cmd[c].ok /\ cmd[c].clean => Claim(c)
  <1>1. /\ CommandOK(c) /\ cmd[c] \in Records
    BY DEF ServiceInv, WorldOK
  <1>2. cmd[c].status = "removed" => ~files[cmd[c].file].linked
    BY <1>1 DEF CommandOK, FileOK
  <1>3. cmd[c].action \in AllActions
    BY <1>1 DEF CommandOK, ControlOK, Idle, Records
  <1>4. ASSUME cmd[c].ok, cmd[c].clean PROVE Claim(c)
    <2>1. cmd[c].action # "status" => Scoped(c) /\ Done(c)
      BY <1>1, <1>3, <1>4 DEF CommandOK, DoneOK, Scoped, Done, AllActions, Guarded
    <2>2. /\ cmd[c].status = "saved" => cmd[c].pc >= 11
          /\ cmd[c].status = "accepted" => cmd[c].action = "request" /\ cmd[c].did
          /\ cmd[c].status = "observed" => cmd[c].action = "observe" /\ cmd[c].pc >= 9
      BY <1>1 DEF CommandOK, DidOK
    <2>3. CASE cmd[c].action = "install"
      <3>1. ScopeCheck(c) /\ ReadArtifact(c) = "exact" /\ (cmd[c].pc >= 11 => Here(c).desc = cmd[c].file)
        BY <1>1, <2>1, <2>3 DEF CommandOK, CleanOK
      <3> QED BY <2>2, <2>3, <3>1 DEF Claim
    <2>4. CASE cmd[c].action = "uninstall"
      <3>1. ScopeCheck(c) /\ Here(c).desc = 0
        BY <1>1, <2>1, <2>4 DEF CommandOK, CleanOK
      <3> QED BY <2>2, <2>4, <3>1 DEF Claim
    <2>5. CASE cmd[c].action = "status"
      BY <2>2, <2>5 DEF Claim
    <2>6. CASE cmd[c].action \in Guarded
      <3>1. cmd[c].action # "status"
        BY <2>6 DEF Guarded
      <3>2. AsChecked(c)
        BY <1>1, <2>1, <2>6, <3>1, GuardAsChecked DEF CommandOK, CleanOK
      <3>3. CASE cmd[c].action = "request"
        BY <2>2, <3>2, <3>3 DEF Claim
      <3>4. CASE cmd[c].action = "observe"
        <4>1. cmd[c].status = "observed" => cmd[c].src = cmd[c].owner
          BY <1>1, <2>2, <3>4 DEF CommandOK, ControlOK, Guarded
        <4> QED BY <2>2, <3>2, <3>4, <4>1 DEF Claim
      <3>5. CASE cmd[c].action = "enable"
        <4>1. Here(c).link # 0 /\ files[Here(c).link].content = "target"
          BY <1>1, <2>1, <3>5 DEF CommandOK, CleanOK
        <4> QED BY <2>2, <3>2, <3>5, <4>1 DEF Claim
      <3>6. CASE cmd[c].action = "disable"
        <4>1. Here(c).link = 0
          BY <1>1, <2>1, <3>6 DEF CommandOK, CleanOK
        <4> QED BY <2>2, <3>2, <3>6, <4>1 DEF Claim
      <3> QED BY <2>6, <3>3, <3>4, <3>5, <3>6 DEF Guarded
    <2> QED BY <1>3, <2>3, <2>4, <2>5, <2>6 DEF AllActions
  <1> QED BY <1>2, <1>4

\* What a command says when it returns is true then, unless another program
\* interfered since its last check; "removed" is never said of a file that
\* still has a name (lifecycle, observeRemoval, observeRuntime, observeChanged).
THEOREM ReportsAreTrue == Spec => ReportsTrue
  <1>1. ServiceInv =>
          [\A c \in Commands :
             cmd[c].over /\ cmd'[c] = Idle =>
               /\ cmd[c].status = "removed" => ~files[cmd[c].file].linked
               /\ cmd[c].ok /\ cmd[c].clean => Claim(c)]_vars
    BY ResultTrue
  <1> QED BY ServiceInvariant, <1>1, PTL DEF ReportsTrue

-----------------------------------------------------------------------------
(* What a command changes.                                                 *)

\* Record k has the history of record r.
Kept(r, k) == "did" \in DOMAIN k /\ (k.did <=> r.did)

LEMMA KeptOK ==
  ASSUME NEW r, "did" \in DOMAIN r, NEW x
  PROVE  /\ Kept(r, r) /\ Kept(r, [r EXCEPT !.dir = x]) /\ Kept(r, [r EXCEPT !.lock = x])
         /\ Kept(r, [r EXCEPT !.held = x]) /\ Kept(r, [r EXCEPT !.file = x])
         /\ Kept(r, [r EXCEPT !.stamp = x]) /\ Kept(r, [r EXCEPT !.link = x])
         /\ Kept(r, [r EXCEPT !.temp = x]) /\ Kept(r, [r EXCEPT !.owner = x])
         /\ Kept(r, [r EXCEPT !.status = x]) /\ Kept(r, [r EXCEPT !.ok = x])
         /\ Kept(r, [r EXCEPT !.clean = x]) /\ Kept(r, [r EXCEPT !.src = x])
         /\ Kept(r, [r EXCEPT !.over = x]) /\ Kept(r, [r EXCEPT !.pc = x])
  BY DEF Kept

\* No command gains an effect.
NoEffect == \A o \in Commands : cmd'[o].did => cmd[o].did

LEMMA MovesKeep ==
  ASSUME cmd \in [Commands -> Records], NEW c \in Commands, NEW k, Kept(cmd[c], k),
         Go(c, k) \/ End(c, k) \/ Fail(c, k)
  PROVE  NoEffect
  <1>1. CASE Go(c, k)
    <2>1. PICK x, y : cmd' = [cmd EXCEPT ![c] = [[k EXCEPT !.pc = x] EXCEPT !.over = y]]
      BY <1>1 DEF Go
    <2>2. Kept(k, [k EXCEPT !.pc = x])
      BY KeptOK DEF Kept
    <2>3. Kept([k EXCEPT !.pc = x], [[k EXCEPT !.pc = x] EXCEPT !.over = y])
      BY <2>2, KeptOK DEF Kept
    <2> QED BY <2>1, <2>2, <2>3 DEF Kept, NoEffect
  <1>2. CASE End(c, k)
    <2>1. cmd' = [cmd EXCEPT ![c] = [k EXCEPT !.over = TRUE]]
      BY <1>2 DEF End
    <2>2. Kept(k, [k EXCEPT !.over = TRUE])
      BY KeptOK DEF Kept
    <2> QED BY <2>1, <2>2 DEF Kept, NoEffect
  <1>3. CASE Fail(c, k)
    <2>1. cmd' = [cmd EXCEPT ![c] = [[k EXCEPT !.ok = FALSE] EXCEPT !.over = TRUE]]
      BY <1>3 DEF Fail, End
    <2>2. Kept(k, [k EXCEPT !.ok = FALSE])
      BY KeptOK DEF Kept
    <2>3. Kept([k EXCEPT !.ok = FALSE], [[k EXCEPT !.ok = FALSE] EXCEPT !.over = TRUE])
      BY <2>2, KeptOK DEF Kept
    <2> QED BY <2>1, <2>2, <2>3 DEF Kept, NoEffect
  <1> QED BY <1>1, <1>2, <1>3

LEMMA CheckKeeps ==
  ASSUME cmd \in [Commands -> Records], NEW c \in Commands, NEW k, Kept(cmd[c], k),
         NEW test, Checked(c, test, k)
  PROVE  NoEffect
  <1>1. Go(c, [k EXCEPT !.clean = TRUE]) \/ Fail(c, cmd[c])
    BY DEF Checked
  <1>2. "did" \in DOMAIN cmd[c] /\ "did" \in DOMAIN k
    BY DEF Records, Kept
  <1>3. Kept(cmd[c], [k EXCEPT !.clean = TRUE])
    <2>1. Kept(k, [k EXCEPT !.clean = TRUE])
      BY <1>2, KeptOK
    <2> QED BY <2>1 DEF Kept
  <1>4. Kept(cmd[c], cmd[c])
    BY <1>2, KeptOK
  <1> QED BY <1>1, <1>3, <1>4, MovesKeep

\* All steps but the four that change something.
LEMMA EffectStep ==
  ASSUME ServiceInv, [Next]_vars
  PROVE  NoEffect \/ \E c \in Commands : Rename(c) \/ Unlink(c) \/ Request(c) \/ Change(c)
  <1>1. cmd \in [Commands -> Records]
    BY DEF ServiceInv, WorldOK
  <1>2. cmd' = cmd => NoEffect
    BY DEF NoEffect
  <1>3. ASSUME NEW c \in Commands
        PROVE  /\ "did" \in DOMAIN cmd[c]
               /\ Kept(cmd[c], cmd[c])
               /\ \A x : /\ Kept(cmd[c], [cmd[c] EXCEPT !.dir = x])
                         /\ Kept(cmd[c], [cmd[c] EXCEPT !.lock = x])
                         /\ Kept(cmd[c], [cmd[c] EXCEPT !.held = x])
                         /\ Kept(cmd[c], [cmd[c] EXCEPT !.file = x])
                         /\ Kept(cmd[c], [cmd[c] EXCEPT !.temp = x])
                         /\ Kept(cmd[c], [cmd[c] EXCEPT !.owner = x])
                         /\ Kept(cmd[c], [cmd[c] EXCEPT !.status = x])
                         /\ Kept(cmd[c], [cmd[c] EXCEPT !.clean = x])
                         /\ Kept(cmd[c], [cmd[c] EXCEPT !.link = x])
                         /\ Kept(cmd[c], [cmd[c] EXCEPT !.src = x])
    <2>1. "did" \in DOMAIN cmd[c]
      BY <1>1 DEF Records
    <2> QED BY <2>1, KeptOK
  <1>4. ASSUME NEW c \in Commands, NEW r, Kept(cmd[c], r)
        PROVE  \A x : /\ Kept(cmd[c], [r EXCEPT !.stamp = x])
                      /\ Kept(cmd[c], [r EXCEPT !.ok = x])
                      /\ Kept(cmd[c], [r EXCEPT !.clean = x])
                      /\ Kept(cmd[c], [r EXCEPT !.status = x])
                      /\ Kept(cmd[c], [r EXCEPT !.link = x])
    <2> TAKE x
    <2>1. "did" \in DOMAIN r
      BY <1>4 DEF Kept
    <2>2. /\ Kept(r, [r EXCEPT !.stamp = x]) /\ Kept(r, [r EXCEPT !.ok = x])
          /\ Kept(r, [r EXCEPT !.clean = x]) /\ Kept(r, [r EXCEPT !.status = x])
          /\ Kept(r, [r EXCEPT !.link = x])
      BY <2>1, KeptOK
    <2> QED BY <1>4, <2>2 DEF Kept
  <1>5. ASSUME NEW c \in Commands, Step(c),
               ~(Rename(c) \/ Unlink(c) \/ Request(c) \/ Change(c))
        PROVE  NoEffect
    <2>1. CASE Begin(c)
      <3>1. PICK a \in Actions, p \in Profiles :
              cmd' = [cmd EXCEPT ![c] = [Idle EXCEPT !.action = a, !.want = p, !.pc = 1]]
        BY <2>1 DEF Begin
      <3>2. ~cmd'[c].did
        BY <1>1, <3>1 DEF Idle
      <3> QED BY <1>1, <3>1, <3>2 DEF NoEffect
    <2>2. CASE Open(c)
      <3>1. \/ Go(c, [cmd[c] EXCEPT !.dir = named]) \/ Go(c, [cmd[c] EXCEPT !.dir = named'])
            \/ End(c, [cmd[c] EXCEPT !.status = "absent"]) \/ Fail(c, cmd[c])
        BY <2>2 DEF Open
      <3> QED BY <1>1, <1>3, <3>1, MovesKeep
    <2>3. CASE Look(c)
      BY <1>1, <1>3, <2>3, CheckKeeps DEF Look
    <2>4. CASE Stat(c)
      BY <1>1, <1>3, <1>4, <2>4, CheckKeeps DEF Stat
    <2>5. CASE Lock(c)
      <3>1. \/ Go(c, [cmd[c] EXCEPT !.lock = Here(c).lock])
            \/ Go(c, [cmd[c] EXCEPT !.lock = Len(files) + 1]) \/ Fail(c, cmd[c])
        BY <2>5 DEF Lock
      <3> QED BY <1>1, <1>3, <3>1, MovesKeep
    <2>6. CASE Flock(c)
      <3>1. Go(c, [cmd[c] EXCEPT !.held = TRUE]) \/ Fail(c, cmd[c])
        BY <2>6 DEF Flock
      <3> QED BY <1>1, <1>3, <3>1, MovesKeep
    <2>7. CASE Scope(c) \/ Guard(c) \/ Confirm(c) \/ Examined(c) \/ SameLink(c)
      BY <1>1, <1>3, <2>7, CheckKeeps DEF Scope, Guard, Confirm, Examined, SameLink
    <2>8. CASE Relook(c)
      <3> DEFINE k == [[[cmd[c] EXCEPT !.status = "not_needed"] EXCEPT !.ok = ScopeCheck(c)]
                         EXCEPT !.clean = ScopeCheck(c)]
      <3>1. End(c, k) \/ Go(c, cmd[c]) \/ Fail(c, cmd[c])
        BY <2>8 DEF Relook, ReadArtifact
      <3>2. Kept(cmd[c], k)
        BY <1>3, <1>4
      <3> HIDE DEF k
      <3> QED BY <1>1, <1>3, <3>1, <3>2, MovesKeep
    <2>9. CASE Temp(c)
      <3>1. Go(c, [cmd[c] EXCEPT !.temp = TRUE]) \/ Fail(c, cmd[c])
        BY <2>9 DEF Temp
      <3> QED BY <1>1, <1>3, <3>1, MovesKeep
    <2>10. CASE Sync(c)
      BY <1>1, <1>3, <2>10, MovesKeep DEF Sync
    <2>11. CASE Final(c)
      <3>1. Go(c, [cmd[c] EXCEPT !.status = "saved"]) \/ Fail(c, cmd[c])
        BY <2>11 DEF Final
      <3> QED BY <1>1, <1>3, <3>1, MovesKeep
    <2>12. CASE Examine(c)
      <3> DEFINE k == [[cmd[c] EXCEPT !.status = "not_needed"] EXCEPT !.clean = TRUE]
                 r == [[cmd[c] EXCEPT !.file = Here(c).desc]
                         EXCEPT !.stamp = files[Here(c).desc].stamp]
      <3>1. \/ End(c, k) \/ Fail(c, cmd[c])
            \/ Checked(c, ScopeCheck(c) /\ ReadArtifact(c) = "exact", r)
        BY <2>12 DEF Examine
      <3>2. Kept(cmd[c], k) /\ Kept(cmd[c], r)
        BY <1>3, <1>4
      <3> HIDE DEF k, r
      <3> QED BY <1>1, <1>3, <3>1, <3>2, MovesKeep, CheckKeeps
    <2>13. CASE Observe(c)
      <3> DEFINE s == IF Removed(c) THEN "removed" ELSE "unknown"
                 k == [cmd[c] EXCEPT !.status = s]
                 r == [k EXCEPT !.clean = TRUE]
      <3>1. Go(c, r) \/ Fail(c, k) \/ Fail(c, cmd[c])
        BY <2>13 DEF Observe
      <3>2. Kept(cmd[c], k)
        BY <1>3
      <3>3. Kept(cmd[c], r)
        BY <1>4, <3>2
      <3> HIDE DEF k, r
      <3> QED BY <1>1, <1>3, <3>1, <3>2, <3>3, MovesKeep
    <2>14. CASE Owner(c)
      BY <1>1, <1>3, <2>14, MovesKeep DEF Owner
    <2>15. CASE Load(c)
      <3>1. Go(c, cmd[c]) \/ Fail(c, cmd[c])
        BY <2>15 DEF Load
      <3> QED BY <1>1, <1>3, <3>1, MovesKeep
    <2>16. CASE Lookup(c) \/ SameOwner(c)
      <3>1. Go(c, cmd[c]) \/ Fail(c, cmd[c])
        BY <2>16 DEF Lookup, SameOwner
      <3> QED BY <1>1, <1>3, <3>1, MovesKeep
    <2>17. CASE Match(c)
      <3>1. Go(c, [cmd[c] EXCEPT !.src = mgr.owner]) \/ Fail(c, cmd[c])
        BY <2>17 DEF Match
      <3> QED BY <1>1, <1>3, <3>1, MovesKeep
    <2>18. CASE Report(c)
      BY <1>1, <1>3, <2>18, CheckKeeps DEF Report
    <2>19. CASE Wants(c)
      <3>1. Go(c, [cmd[c] EXCEPT !.clean = TRUE]) \/ Fail(c, cmd[c])
        BY <2>19 DEF Wants
      <3> QED BY <1>1, <1>3, <3>1, MovesKeep
    <2>20. CASE OpenLink(c)
      <3> DEFINE k == [[cmd[c] EXCEPT !.link = Here(c).link] EXCEPT !.clean = TRUE]
                 r == [k EXCEPT !.status = "not_needed"]
      <3>1. Go(c, k) \/ End(c, r) \/ Fail(c, cmd[c])
        BY <2>20 DEF OpenLink
      <3>2. Kept(cmd[c], k)
        BY <1>3, <1>4
      <3>3. Kept(cmd[c], r)
        BY <1>4, <3>2
      <3> HIDE DEF k, r
      <3> QED BY <1>1, <1>3, <3>1, <3>2, <3>3, MovesKeep
    <2>21. CASE Changed(c)
      <3> DEFINE k == [[cmd[c] EXCEPT !.status = "changed"] EXCEPT !.clean = TRUE]
      <3>1. PICK x : Go(c, [k EXCEPT !.link = x]) \/ Fail(c, [k EXCEPT !.link = x])
                     \/ Fail(c, cmd[c])
        BY <2>21 DEF Changed
      <3>2. Kept(cmd[c], k)
        BY <1>3, <1>4
      <3>3. Kept(cmd[c], [k EXCEPT !.link = x])
        BY <1>4, <3>2
      <3> HIDE DEF k
      <3> QED BY <1>1, <1>3, <3>1, <3>3, MovesKeep
    <2>22. CASE Cancel(c)
      BY <1>1, <1>3, <2>22, MovesKeep DEF Cancel
    <2>23. CASE Reply(c) \/ Crash(c)
      <3>1. cmd' = [cmd EXCEPT ![c] = Idle]
        BY <2>23 DEF Reply, Crash
      <3> QED BY <1>1, <3>1 DEF NoEffect, Idle
    <2> QED BY <1>5, <2>1, <2>2, <2>3, <2>4, <2>5, <2>6, <2>7, <2>8, <2>9, <2>10, <2>11, <2>12,
               <2>13, <2>14, <2>15, <2>16, <2>17, <2>18, <2>19, <2>20, <2>21, <2>22, <2>23
            DEF Step
  <1>6. CASE EditFiles
    <2>1. cmd' = [o \in Commands |-> [cmd[o] EXCEPT !.clean = FALSE]]
      BY <1>6 DEF EditFiles
    <2> QED BY <1>1, <1>3, <2>1 DEF NoEffect, Kept
  <1>7. CASE Manager
    BY <1>2, <1>7 DEF Manager
  <1>8. CASE UNCHANGED vars
    BY <1>2, <1>8 DEF vars
  <1> QED BY <1>5, <1>6, <1>7, <1>8 DEF Next

\* A step of another command has no effect of this one.
LEMMA OtherEffects ==
  ASSUME cmd \in [Commands -> Records], NEW b \in Commands, NEW c \in Commands, b # c, NEW k,
         Acted(b, k, TRUE) \/ Acted(b, k, FALSE) \/ Go(b, k) \/ Fail(b, k)
  PROVE  cmd'[c].did => cmd[c].did
  <1>1. CASE Acted(b, k, TRUE) \/ Acted(b, k, FALSE)
    <2>1. cmd'[c] = [cmd[c] EXCEPT !.clean = (cmd[c].clean /\ k.clean)]
      BY <1>1 DEF Acted
    <2>2. "did" \in DOMAIN cmd[c]
      BY DEF Records
    <2>3. Kept(cmd[c], [cmd[c] EXCEPT !.clean = (cmd[c].clean /\ k.clean)])
      BY <2>2, KeptOK
    <2> QED BY <2>1, <2>3 DEF Kept
  <1>2. CASE Go(b, k) \/ Fail(b, k)
    <2>1. cmd'[c] = cmd[c]
      BY <1>2 DEF Go, Fail, End
    <2> QED BY <2>1
  <1> QED BY <1>1, <1>2

LEMMA OwnEffect ==
  ASSUME ServiceInv, [Next]_vars, NEW c \in Commands, ~cmd[c].did, cmd'[c].did
  PROVE  Rename(c) \/ Unlink(c) \/ Request(c) \/ Change(c)
  <1>1. cmd \in [Commands -> Records]
    BY DEF ServiceInv, WorldOK
  <1>2. PICK b \in Commands : Rename(b) \/ Unlink(b) \/ Request(b) \/ Change(b)
    BY EffectStep DEF NoEffect
  <1>3. \E k : Acted(b, k, TRUE) \/ Acted(b, k, FALSE) \/ Go(b, k) \/ Fail(b, k)
    <2>1. CASE Rename(b)
      BY <2>1 DEF Rename
    <2>2. CASE Unlink(b)
      BY <2>2 DEF Unlink
    <2>3. CASE Request(b)
      BY <2>3 DEF Request
    <2>4. CASE Change(b)
      BY <2>4 DEF Change
    <2> QED BY <1>2, <2>1, <2>2, <2>3, <2>4
  <1>4. b = c
    BY <1>1, <1>3, OtherEffects
  <1> QED BY <1>2, <1>4

\* The places of the steps that take effect.
LEMMA EffectPlaces ==
  ASSUME NEW a \in AllActions, NEW i \in 1..Len(Steps(a))
  PROVE  /\ Steps(a)[i] = "rename" => a = "install" /\ i = 9
         /\ Steps(a)[i] = "unlink" => a = "uninstall" /\ i = 7
         /\ Steps(a)[i] = "request" => a = "request" /\ i = 12
         /\ Steps(a)[i] = "change" => a \in {"enable", "disable"} /\ i = 15
  BY Places

LEMMA EffectAsChecked ==
  ASSUME ServiceInv, [Next]_vars, NEW c \in Commands, ~cmd[c].did, cmd'[c].did
  PROVE  /\ At(c, "request") => cmd'[c].src = cmd[c].owner /\ cmd[c].src = cmd[c].owner
         /\ cmd[c].clean =>
              /\ At(c, "rename") => ScopeCheck(c) /\ Temps(cmd[c].dir) <= TempLimit
              /\ At(c, "unlink") \/ At(c, "request") => AsChecked(c)
              /\ At(c, "change") => AsChecked(c) /\ Here(c).link = cmd[c].link
  <1>1. Rename(c) \/ Unlink(c) \/ Request(c) \/ Change(c)
    BY OwnEffect
  <1>2. ASSUME NEW s, At(c, s)
        PROVE  /\ Running(c) /\ WorldOK /\ CommandOK(c) /\ cmd[c] \in Records
               /\ cmd[c].action \in AllActions /\ cmd[c].pc \in 1..Len(Steps(cmd[c].action))
               /\ Steps(cmd[c].action)[cmd[c].pc] = s /\ cmd[c].pc \in Nat
    BY <1>2, AtStep
  <1>3. ASSUME NEW s, NEW t, At(c, s), At(c, t) PROVE s = t
    BY <1>3 DEF At
  <1>4. CASE Rename(c)
    <2>1. At(c, "rename")
      BY <1>4 DEF Rename
    <2>2. cmd[c].action = "install" /\ cmd[c].pc = 9
      <3>1. /\ cmd[c].action \in AllActions /\ cmd[c].pc \in 1..Len(Steps(cmd[c].action))
            /\ Steps(cmd[c].action)[cmd[c].pc] = "rename"
        BY <1>2, <2>1
      <3> QED BY <3>1, EffectPlaces
    <2>3. ~At(c, "unlink") /\ ~At(c, "request") /\ ~At(c, "change")
      BY <1>3, <2>1
    <2>4. ASSUME cmd[c].clean PROVE ScopeCheck(c)
      <3>1. cmd[c].held
        BY <1>2, <2>1, <2>2, HeldHere DEF LockedFrom
      <3> QED BY <1>2, <2>1, <2>2, <2>4, <3>1
              DEF CommandOK, CleanOK, Scoped, ScopedFrom, LockedFrom
    <2>5. Temps(cmd[c].dir) <= TempLimit
      <3>1. cmd[c].dir \in 1..Len(dirs)
        BY <1>2, <2>1, <2>2, HereOK
      <3> QED BY <3>1 DEF ServiceInv, TempsOK
    <2> QED BY <2>3, <2>4, <2>5
  <1>5. CASE Unlink(c)
    <2>1. At(c, "unlink")
      BY <1>5 DEF Unlink
    <2>2. cmd[c].action = "uninstall" /\ cmd[c].pc = 7
      <3>1. /\ cmd[c].action \in AllActions /\ cmd[c].pc \in 1..Len(Steps(cmd[c].action))
            /\ Steps(cmd[c].action)[cmd[c].pc] = "unlink"
        BY <1>2, <2>1
      <3> QED BY <3>1, EffectPlaces
    <2>3. ~At(c, "rename") /\ ~At(c, "request") /\ ~At(c, "change")
      BY <1>3, <2>1
    <2>4. ASSUME cmd[c].clean PROVE AsChecked(c)
      <3>1. cmd[c].held
        BY <1>2, <2>1, <2>2, HeldHere DEF LockedFrom
      <3>2. ScopeCheck(c) /\ SameFile(c)
        BY <1>2, <2>1, <2>2, <2>4, <3>1
        DEF CommandOK, CleanOK, Scoped, ScopedFrom, LockedFrom
      <3>3. files[cmd[c].file].content = cmd[c].want
        BY <1>2, <2>1, <2>2, <3>2 DEF CommandOK, FileOK, SameFile
      <3> QED BY <3>2, <3>3 DEF AsChecked, ScopeCheck
    <2> QED BY <2>3, <2>4
  <1>6. CASE Request(c)
    <2>1. At(c, "request")
      BY <1>6 DEF Request
    <2>2. cmd[c].action = "request" /\ cmd[c].pc = 12
      <3>1. /\ cmd[c].action \in AllActions /\ cmd[c].pc \in 1..Len(Steps(cmd[c].action))
            /\ Steps(cmd[c].action)[cmd[c].pc] = "request"
        BY <1>2, <2>1
      <3> QED BY <3>1, EffectPlaces
    <2>3. ~At(c, "rename") /\ ~At(c, "unlink") /\ ~At(c, "change")
      BY <1>3, <2>1
    <2>4. ASSUME cmd[c].clean PROVE AsChecked(c)
      <3>1. cmd[c].held
        BY <1>2, <2>1, <2>2, HeldHere DEF LockedFrom
      <3>2. GuardCheck(c)
        BY <1>2, <2>1, <2>2, <2>4, <3>1
        DEF CommandOK, CleanOK, Scoped, ScopedFrom, LockedFrom, Guarded
      <3> QED BY <3>2, GuardAsChecked
    <2>5. cmd[c].src = cmd[c].owner
      BY <1>2, <2>1, <2>2, SameSource DEF Guarded
    <2>6. cmd'[c].src = cmd[c].owner
      <3>1. cmd \in [Commands -> Records] /\ cmd[c] \in Records
        BY <1>2, <2>1 DEF WorldOK
      <3> DEFINE h == [[cmd[c] EXCEPT !.did = TRUE] EXCEPT !.src = mgr.owner]
                 k == [h EXCEPT !.status = "accepted"]
                 r == [h EXCEPT !.status = "unknown"]
                 q == [cmd[c] EXCEPT !.status = "unknown"]
      <3>2. mgr.owner \in Nat
        BY <1>2, <2>1, OwnerNat
      <3>3. /\ k \in Records /\ k.src = mgr.owner /\ r \in Records /\ r.src = mgr.owner
            /\ q \in Records /\ (q.did <=> cmd[c].did)
        BY <3>1, <3>2 DEF Records, Statuses
      <3>4. (Answers(c) /\ (Go(c, k) \/ Fail(c, r))) \/ Fail(c, q)
        BY <1>6 DEF Request
      <3> HIDE DEF k, r, q, h
      <3>5. CASE Fail(c, q)
        <4>1. Moved(c, q, q.pc, TRUE, FALSE)
          BY <3>1, <3>3, <3>5, FailMoved
        <4>2. cmd'[c].did <=> cmd[c].did
          BY <3>3, <4>1 DEF Moved
        <4> QED BY <4>2
      <3>6. CASE Answers(c) /\ Go(c, k)
        <4>1. Moved(c, k, k.pc + 1, k.pc = Len(Steps(k.action)), k.ok)
          BY <3>1, <3>3, <3>6, GoMoved
        <4> QED BY <3>3, <3>6, <4>1 DEF Moved, Answers
      <3>7. CASE Answers(c) /\ Fail(c, r)
        <4>1. Moved(c, r, r.pc, TRUE, FALSE)
          BY <3>1, <3>3, <3>7, FailMoved
        <4> QED BY <3>3, <3>7, <4>1 DEF Moved, Answers
      <3> QED BY <3>4, <3>5, <3>6, <3>7
    <2> QED BY <2>3, <2>4, <2>5, <2>6
  <1>7. CASE Change(c)
    <2>1. At(c, "change")
      BY <1>7 DEF Change
    <2>2. cmd[c].action \in {"enable", "disable"} /\ cmd[c].pc = 15
      <3>1. /\ cmd[c].action \in AllActions /\ cmd[c].pc \in 1..Len(Steps(cmd[c].action))
            /\ Steps(cmd[c].action)[cmd[c].pc] = "change"
        BY <1>2, <2>1
      <3> QED BY <3>1, EffectPlaces
    <2>3. ~At(c, "rename") /\ ~At(c, "unlink") /\ ~At(c, "request")
      BY <1>3, <2>1
    <2>4. ASSUME cmd[c].clean PROVE AsChecked(c) /\ Here(c).link = cmd[c].link
      <3>1. cmd[c].held /\ cmd[c].action # "status" /\ cmd[c].action \in Guarded
        BY <1>2, <2>1, <2>2, HeldHere DEF LockedFrom, Guarded
      <3>2. Scoped(c)
        BY <2>2, <2>4, <3>1 DEF Scoped, ScopedFrom, LockedFrom
      <3>3. GuardCheck(c) /\ Here(c).link = cmd[c].link
        BY <1>2, <2>1, <2>2, <3>1, <3>2 DEF CommandOK, CleanOK
      <3> QED BY <3>3, GuardAsChecked
    <2> QED BY <2>3, <2>4
  <1> QED BY <1>1, <1>4, <1>5, <1>6, <1>7

\* What a command is about to change is what it checked, unless another program
\* interfered since: the directory the path leads to, the file that was read, the
\* instance whose settings matched and the link that was examined
\* (requestRuntime, openRemovalGuard, openLink).
THEOREM EffectsAreAsChecked == Spec => EffectsAsChecked
  <1>1. ServiceInv /\ [Next]_vars =>
          [\A c \in Commands :
             ~cmd[c].did /\ cmd'[c].did =>
               /\ At(c, "request") => cmd'[c].src = cmd[c].owner /\ cmd[c].src = cmd[c].owner
               /\ cmd[c].clean =>
                    /\ At(c, "rename") => ScopeCheck(c) /\ Temps(cmd[c].dir) <= TempLimit
                    /\ At(c, "unlink") \/ At(c, "request") => AsChecked(c)
                    /\ At(c, "change") => AsChecked(c) /\ Here(c).link = cmd[c].link]_vars
    BY EffectAsChecked
  <1> QED BY ServiceInvariant, <1>1, PTL DEF Spec, EffectsAsChecked
=============================================================================
