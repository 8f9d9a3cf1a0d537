------------------------- MODULE InventoryProofs -------------------------
(***************************************************************************)
(* Proofs about a root's saved inventory and about the receipt of a        *)
(* refresh that follows one pass over it.                                  *)
(*                                                                         *)
(* SavedInventory: the saved rows, the retained stream and the batch in    *)
(* progress fit together in every state, for every tree of paths.  From    *)
(* this follow the anchors, the complete listings, the purges and the      *)
(* result of an undisturbed pass.                                          *)
(*                                                                         *)
(* ManualRefresh: a completed receipt is about one whole pass, for any     *)
(* number of requests, listings, folders and repeated generations.         *)
(***************************************************************************)
EXTENDS SavedInventory, ManualRefresh, FiniteSetTheorems, WellFoundedInduction, TLAPS

-----------------------------------------------------------------------------
(* The inductive invariant.                                                *)

Observed == [path : Paths, kind : {"file", "dir"}, skip : BOOLEAN]
Streams == [job : {-1} \cup Paths, gen : {0} \cup Generations, left : SUBSET Paths,
            pending : SUBSET Paths, eof : BOOLEAN, changed : BOOLEAN]
Handlers == [at : {"idle", "claimed", "listing", "batch", "fault"}, job : {-1} \cup Paths,
             gen : {0} \cup Generations, seen : SUBSET Observed, complete : BOOLEAN,
             names : SUBSET Paths]

\* TypeOK, and the types of what the scanner and the ghosts hold.
TypeInv ==
    /\ TypeOK
    /\ disk[Root] \in {"absent", "dir"}
    /\ stream \in Streams
    /\ handler \in Handlers
    /\ certified \in [Paths -> SUBSET Paths]
    /\ quiet \in BOOLEAN
    /\ disturbances \in Nat

\* The children of p saved under generation g, and the names observed since the
\* last commit.
Listed(p, g) == {c \in Children(p) : SavedEntry(c) /\ entries[c].gen = g}
SeenPaths == {o.path : o \in handler.seen}

\* A retained stream belongs to a directory that still has its job, and what it
\* has committed, observed, read and not read yet is what the directory held
\* when it was opened, as long as its stamp is the same.
StreamInv ==
    /\ stream.job = -1 => stream = NoStream
    /\ stream.job # -1 =>
         /\ HasJob(stream.job) /\ stream.gen # 0
         /\ stream.pending \cup stream.left \subseteq Children(stream.job)
         /\ stream.eof => stream.left = {}
         /\ ~stream.changed =>
              Listed(stream.job, stream.gen) \cup SeenPaths \cup stream.pending \cup stream.left
                = OnDisk(stream.job)

\* The batch in progress is one of the running job; a complete one, with what
\* its listing committed before, is what was on disk when it was validated.
HandlerInv ==
    /\ handler.at = "idle" => handler = NoHandler
    /\ handler.at # "idle" => handler.job \in Paths
    /\ handler.at \in {"claimed", "fault"} => handler.seen = {}
    /\ handler.at = "fault" => stream = NoStream
    /\ handler.at = "listing" => stream.job = handler.job
    /\ SeenPaths \subseteq Children(handler.job)
    /\ handler.at = "batch" =>
         /\ handler.gen # 0
         /\ IF handler.complete
            THEN /\ stream = NoStream
                 /\ Listed(handler.job, handler.gen) \cup SeenPaths = handler.names
            ELSE stream.job = handler.job /\ stream.gen = handler.gen

\* Jobs are for saved directories, and complete listings hang from the root.
AnchorInv ==
    /\ \A p \in Paths \ {Root} :
         /\ SavedEntry(p) \/ dirs[p].known \/ Reconciling(p) =>
               SavedEntry(p) /\ SavedEntry(Parent[p])
         /\ HasJob(p) => SavedEntry(p)
    /\ entries[Root].kind \in {"absent", "dir"}
    /\ dirs[Root].complete => SavedEntry(Root)
    /\ \A p \in Paths : dirs[p].complete => dirs[p].known /\ dirs[p].gen # 0

\* A purge takes the tables in order, so that nothing is left below an entry
\* that is removed.  The anchors of one reconciliation have the same parent.
PurgeInv ==
    /\ \A q, r \in Paths : Retiring(q) /\ Retiring(r) =>
         q # Root /\ r # Root /\ Parent[q] = Parent[r]
    /\ \A q \in Paths : retire[q].phase # -1 /\ retire[q].current =>
         /\ retire[q].phase >= 1 => \A x \in Below[q] \cup {q} : ~dirs[x].known
         /\ retire[q].phase >= 2 => \A x \in Below[q] \cup {q} : ~Reconciling(x)
         /\ retire[q].phase >= 3 => /\ \A x \in Below[q] : ~SavedEntry(x)
                                    /\ retire[q].preserve \/ ~SavedEntry(q)
         /\ SavedEntry(q) =>
              /\ dirs[Parent[q]].complete /\ ~dirs[Parent[q]].fault
              /\ IF retire[q].preserve THEN entries[q].kind # "dir"
                 ELSE entries[q].gen # dirs[Parent[q]].gen

SavedInv ==
    TypeInv /\ StreamInv /\ HandlerInv /\ AnchorInv /\ CompleteListingExact /\ PurgeInv

-----------------------------------------------------------------------------
(* The invariant of a pass that nothing outside touches.                   *)

\* The containing directory of what is on disk is a directory.
DiskInv ==
    \A c \in 1..LastPath : disk[c] # "absent" /\ Parent[c] # Root =>
        disk[Parent[c]] \in {"dir", "sealed"}

Matches(c) ==
    /\ entries[c].kind = IF disk[c] = "file" THEN "file" ELSE "dir"
    /\ entries[c].skip = (disk[c] = "sealed")

\* The child c of p has rows that its listing leaves to maintenance, and what
\* maintenance has been told about it.
LeftOver(p, c) ==
    SavedEntry(c) /\ (entries[c].gen # dirs[p].gen \/ (entries[c].kind # "dir" /\ HasDirectoryState(c)))
ToldOf(p, c) ==
    \/ reconcile[p].gen = dirs[p].gen /\ reconcile[p].cursor < c
    \/ Retiring(c) /\ retire[c].preserve = (entries[c].gen = dirs[p].gen)

\* The saved rows of p and its children are what is on disk, but for what
\* maintenance has been told to remove.
Done(p) ==
    /\ dirs[p].complete /\ ~dirs[p].fault
    /\ Listed(p, dirs[p].gen) = OnDisk(p)
    /\ \A c \in OnDisk(p) : Matches(c)
    /\ \A c \in Children(p) : LeftOver(p, c) => ToldOf(p, c)

Covered(p) == \E a \in Above[p] \cup {p} : HasJob(a)

\* The child c is saved as it is, and listed if it can be.
Confirmed(c) == disk[c] # "absent" /\ Matches(c) /\ (disk[c] = "dir" => HasJob(c))

\* The listing in progress saw what is there, and so did those that left jobs.
ScanInv ==
    /\ stream.job # -1 => ~stream.changed
    /\ \A o \in handler.seen : disk[o.path] # "absent" /\ o = Observation(o.path)
    /\ handler.at = "batch" => Openable(handler.job) /\ handler.names = OnDisk(handler.job)
    /\ stream.job # -1 => \A c \in Listed(stream.job, stream.gen) : Confirmed(c)
    /\ handler.at = "batch" => \A c \in Listed(handler.job, handler.gen) : Confirmed(c)
    /\ \A j \in Paths : HasJob(j) /\ j # Root => Openable(j)
    /\ handler.at = "fault" => ~Openable(handler.job)

\* A directory that can be opened is done, or has a job at or above it.
DoneInv ==
    /\ \A q \in Paths : Retiring(q) => NoJobs /\ retire[q].current
    /\ Openable(Root) \/ HasJob(Root)
    /\ \A p \in Paths : Openable(p) => Covered(p) \/ Done(p)

QuietInv == quiet => ScanInv /\ DoneInv

PassInv == SavedInv /\ DiskInv /\ QuietInv

-----------------------------------------------------------------------------
(* Paths.                                                                   *)

LEMMA PathTypes ==
  /\ LastPath \in Nat /\ Root \in Paths /\ Paths \subseteq Nat /\ -1 \notin Paths
  /\ \A c \in 1..LastPath : c \in Paths /\ c # Root /\ Parent[c] \in Paths /\ Parent[c] < c
  /\ \A p \in Paths : p # Root => p \in 1..LastPath
  /\ \A p, c : c \in Children(p) <=> c \in 1..LastPath /\ Parent[c] = p
  BY PathsAssumption DEF Paths, Root, Children

\* The subtree below p holds its children, and the children of what it holds.
LEMMA BelowClosed ==
  ASSUME NEW p \in Paths
  PROVE  /\ Below[p] \subseteq Paths
         /\ \A c \in 1..LastPath : Parent[c] = p \/ Parent[c] \in Below[p] => c \in Below[p]
  <1>1. Below[p] = {q \in Paths : \A S \in SUBSET Paths : ClosedBelow(p, S) => q \in S}
    BY DEF Below
  <1>2. ASSUME NEW c \in 1..LastPath, Parent[c] = p \/ Parent[c] \in Below[p],
               NEW S \in SUBSET Paths, ClosedBelow(p, S)
        PROVE  c \in S
    <2>1. CASE Parent[c] = p
      BY <1>2, <2>1 DEF ClosedBelow, Children
    <2>2. CASE Parent[c] \in Below[p]
      BY <1>1, <1>2, <2>2 DEF ClosedBelow
    <2> QED BY <1>2, <2>1, <2>2
  <1> QED BY <1>1, <1>2, PathTypes

\* It is the least such set.
LEMMA BelowLeast ==
  ASSUME NEW p \in Paths, NEW S \in SUBSET Paths, ClosedBelow(p, S)
  PROVE  Below[p] \subseteq S
  BY DEF Below

\* What is below a path comes after it.
LEMMA BelowLarger ==
  ASSUME NEW p \in Paths, NEW q \in Below[p]
  PROVE  q \in 1..LastPath /\ p < q
  <1> DEFINE S == {x \in 1..LastPath : p < x}
  <1>1. ClosedBelow(p, S) /\ S \in SUBSET Paths
    BY PathTypes DEF ClosedBelow, Children
  <1> QED BY <1>1, BelowLeast

LEMMA BelowParent ==
  ASSUME NEW p \in Paths, NEW q \in Below[p]
  PROVE  Parent[q] = p \/ Parent[q] \in Below[p]
  <1> DEFINE S == {x \in Below[p] : Parent[x] = p \/ Parent[x] \in Below[p]}
  <1>1. ClosedBelow(p, S) /\ S \in SUBSET Paths
    BY PathTypes, BelowClosed DEF ClosedBelow, Children
  <1> QED BY <1>1, BelowLeast

LEMMA BelowTrans ==
  ASSUME NEW p \in Paths, NEW q \in Below[p], NEW x \in Below[q]
  PROVE  x \in Below[p]
  <1>1. q \in Paths
    BY BelowLarger, PathTypes
  <1>2. ClosedBelow(q, Below[p]) /\ Below[p] \in SUBSET Paths
    BY BelowClosed DEF ClosedBelow, Children
  <1> QED BY <1>1, <1>2, BelowLeast

\* What is below a directory is below or is one of its children.
LEMMA BelowVia ==
  ASSUME NEW p \in Paths, NEW x \in Below[p]
  PROVE  \E c \in Children(p) : x = c \/ x \in Below[c]
  <1> DEFINE S == {y \in Paths : \E c \in Children(p) : y = c \/ y \in Below[c]}
  <1>1. \A c \in Children(p) : c \in Paths
    BY PathTypes
  <1>2. Children(p) \subseteq S
    BY <1>1
  <1>3. ASSUME NEW d \in 1..LastPath, Parent[d] \in S PROVE d \in S
    <2>1. PICK c \in Children(p) : Parent[d] = c \/ Parent[d] \in Below[c]
      BY <1>3
    <2>2. d \in Below[c]
      BY <1>1, <2>1, BelowClosed
    <2> QED BY <2>2, PathTypes
  <1>4. ClosedBelow(p, S) /\ S \in SUBSET Paths
    BY <1>2, <1>3 DEF ClosedBelow
  <1>5. x \in S
    BY <1>4, BelowLeast
  <1> QED BY <1>5

\* A set of numbers that is not empty has a smallest member.
LEMMA FirstPath ==
  ASSUME NEW S, S \subseteq Nat, S # {}
  PROVE  Min(S) \in S /\ \A y \in S : Min(S) <= y
  <1> DEFINE R == OpToRel(<, Nat)
  <1>1. IsWellFoundedOn(R, Nat)
    BY NatLessThanWellFounded
  <1>2. PICK x \in S : \A y \in S : ~(<<y, x>> \in R)
    <2> HIDE DEF R
    <2> QED BY <1>1, WFMin
  <1>3. ASSUME NEW y \in S PROVE x =< y
    <2>1. x \in Nat /\ y \in Nat /\ ~(<<y, x>> \in R)
      BY <1>2
    <2> QED BY <2>1 DEF OpToRel
  <1> QED BY <1>3 DEF Min

LEMMA LastOf ==
  ASSUME NEW S, S \subseteq Paths, S # {}
  PROVE  Max(S) \in S /\ \A y \in S : y <= Max(S)
  <1> DEFINE T == {LastPath - x : x \in S}
  <1>0. S \subseteq 0..LastPath /\ LastPath \in Nat
    BY PathsAssumption DEF Paths
  <1>1. T \subseteq Nat /\ T # {}
    <2>1. \A x \in S : LastPath - x \in Nat
      BY <1>0
    <2> QED BY <2>1
  <1>2. Min(T) \in T /\ \A y \in T : Min(T) <= y
    <2> HIDE DEF T
    <2> QED BY <1>1, FirstPath
  <1>3. PICK x \in S : Min(T) = LastPath - x
    BY <1>2
  <1>4. ASSUME NEW y \in S PROVE x >= y
    <2>1. LastPath - y \in T /\ x \in Int /\ y \in Int
      BY <1>0
    <2>2. LastPath - x <= LastPath - y
      BY <1>2, <1>3, <2>1
    <2> QED BY <1>0, <2>1, <2>2
  <1>5. \A y, z \in S : y \in Int /\ z \in Int
    BY <1>0
  <1> HIDE DEF T
  <1> QED BY <1>4, <1>5 DEF Max

\* Every path is below the root.
LEMMA BelowRoot ==
  ASSUME NEW p \in Paths, p # Root
  PROVE  p \in Below[Root]
  <1> DEFINE S == {x \in 1..LastPath : x \notin Below[Root]}
  <1>1. SUFFICES ASSUME p \notin Below[Root] PROVE FALSE
    OBVIOUS
  <1>2. S \subseteq Nat /\ S # {}
    BY <1>1, PathTypes
  <1>3. PICK x \in S : \A y \in S : x <= y
    <2> HIDE DEF S
    <2> QED BY <1>2, FirstPath
  <1>4. Parent[x] \in Paths /\ Parent[x] < x /\ x \in 1..LastPath
    BY PathTypes
  <1>5. Parent[x] = Root \/ Parent[x] \in Below[Root]
    <2>1. SUFFICES ASSUME Parent[x] # Root, Parent[x] \notin Below[Root] PROVE FALSE
      OBVIOUS
    <2>2. Parent[x] \in S
      BY <1>4, <2>1, PathTypes
    <2>3. x <= Parent[x]
      BY <1>3, <2>2
    <2>4. Parent[x] \in Nat /\ x \in Nat
      BY <1>4, PathTypes
    <2> QED BY <1>4, <2>3, <2>4
  <1>6. x \in Below[Root]
    BY <1>4, <1>5, BelowClosed, PathTypes
  <1> QED BY <1>6

LEMMA AboveBelow ==
  ASSUME NEW p \in Paths
  PROVE  /\ Above[p] = {a \in Paths : p \in Below[a]}
         /\ \A a : a \in Above[p] <=> a \in Paths /\ p \in Below[a]
  BY DEF Above

LEMMA PathsFinite ==
  /\ IsFiniteSet(Paths)
  /\ \A S \in SUBSET Paths : IsFiniteSet(S) /\ Cardinality(S) \in Nat
  <1>1. IsFiniteSet(Paths)
    BY PathsAssumption, FS_Interval DEF Paths
  <1> QED BY <1>1, FS_Subset, FS_CardinalityType

\* The first rows of a query are rows before which no other is left out, and
\* there is one if there are rows at all.
LEMMA LowestRows ==
  ASSUME NEW S \in SUBSET Paths
  PROVE  /\ Lowest(S, BatchSize) \subseteq S
         /\ \A x \in Lowest(S, BatchSize), y \in S : y < x => y \in Lowest(S, BatchSize)
         /\ S # {} => Lowest(S, BatchSize) # {}
  <1> DEFINE Before(x) == {q \in S : q < x}
  <1>1. \A x \in Paths : Before(x) \in SUBSET Paths
    OBVIOUS
  <1>2. ASSUME NEW x \in Lowest(S, BatchSize), NEW y \in S, y < x
        PROVE  y \in Lowest(S, BatchSize)
    <2>1. Before(y) \in SUBSET Before(x)
      <3>1. x \in Nat /\ y \in Nat /\ \A q \in S : q \in Nat
        BY PathTypes DEF Lowest
      <3>2. \A q \in S : q < y => q < x
        BY <1>2, <3>1
      <3> QED BY <3>2
    <2>2. Cardinality(Before(y)) <= Cardinality(Before(x))
      BY <1>1, <2>1, FS_Subset, PathsFinite DEF Lowest
    <2>3. Cardinality(Before(x)) < BatchSize
      BY DEF Lowest
    <2>4. Cardinality(Before(x)) \in Nat /\ Cardinality(Before(y)) \in Nat
      BY <1>1, PathsFinite DEF Lowest
    <2> QED BY <2>2, <2>3, <2>4, BoundsAssumption DEF Lowest
  <1>3. ASSUME S # {} PROVE Lowest(S, BatchSize) # {}
    <2>1. Min(S) \in S /\ \A y \in S : Min(S) <= y
      BY <1>3, FirstPath, PathTypes
    <2>2. Before(Min(S)) = {}
      <3>1. \A q \in S : q \in Nat
        BY PathTypes
      <3> QED BY <2>1, <3>1
    <2>3. Cardinality(Before(Min(S))) < BatchSize
      BY <2>2, FS_EmptySet, BoundsAssumption
    <2> QED BY <2>1, <2>3 DEF Lowest
  <1> QED BY <1>2, <1>3 DEF Lowest

LEMMA HighestRows ==
  ASSUME NEW S \in SUBSET Paths
  PROVE  /\ Highest(S, BatchSize) \subseteq S
         /\ \A x \in Highest(S, BatchSize), y \in S : x < y => y \in Highest(S, BatchSize)
  <1> DEFINE After(x) == {q \in S : q > x}
  <1>1. \A x \in Paths : After(x) \in SUBSET Paths
    OBVIOUS
  <1>2. ASSUME NEW x \in Highest(S, BatchSize), NEW y \in S, x < y
        PROVE  y \in Highest(S, BatchSize)
    <2>1. After(y) \in SUBSET After(x)
      <3>1. x \in Nat /\ y \in Nat /\ \A q \in S : q \in Nat
        BY PathTypes DEF Highest
      <3>2. \A q \in S : q > y => q > x
        BY <1>2, <3>1
      <3> QED BY <3>2
    <2>2. Cardinality(After(y)) <= Cardinality(After(x))
      BY <1>1, <2>1, FS_Subset, PathsFinite DEF Highest
    <2>3. Cardinality(After(x)) < BatchSize
      BY DEF Highest
    <2>4. Cardinality(After(x)) \in Nat /\ Cardinality(After(y)) \in Nat
      BY <1>1, PathsFinite DEF Highest
    <2> QED BY <2>2, <2>3, <2>4, BoundsAssumption DEF Highest
  <1> QED BY <1>2 DEF Highest

\* There is always a generation that is not in use.
LEMMA FreshGeneration ==
  ASSUME entries \in [Paths -> EntryRows]
  PROVE  /\ NewGeneration \in Generations /\ NewGeneration # stream.gen
         /\ \A p \in Paths : /\ NewGeneration # entries[p].gen
                             /\ NewGeneration # dirs[p].gen
                             /\ NewGeneration # reconcile[p].gen
  <1> DEFINE Used == UNION {{entries[p].gen, dirs[p].gen, reconcile[p].gen, stream.gen} :
                              p \in Paths}
             n == LastPath + 1
             Places == 0..(3 * LastPath + 3)
             place == [g \in Generations |->
                        IF \E p \in Paths : entries[p].gen = g
                        THEN CHOOSE p \in Paths : entries[p].gen = g
                        ELSE IF \E p \in Paths : dirs[p].gen = g
                        THEN n + CHOOSE p \in Paths : dirs[p].gen = g
                        ELSE IF \E p \in Paths : reconcile[p].gen = g
                        THEN 2 * n + CHOOSE p \in Paths : reconcile[p].gen = g
                        ELSE 3 * LastPath + 3]
  <1>1. LastPath \in Nat /\ Paths = 0..LastPath
    BY PathsAssumption DEF Paths
  <1>2. place \in [Generations -> Places]
    <2> SUFFICES ASSUME NEW g \in Generations PROVE place[g] \in Places
      OBVIOUS
    <2>1. CASE \E p \in Paths : entries[p].gen = g
      <3>1. place[g] \in Paths
        BY <2>1
      <3> QED BY <1>1, <3>1
    <2>2. CASE /\ ~\E p \in Paths : entries[p].gen = g
               /\ \E p \in Paths : dirs[p].gen = g
      <3>1. PICK p \in Paths : place[g] = n + p
        BY <2>2
      <3> QED BY <1>1, <3>1
    <2>3. CASE /\ ~\E p \in Paths : entries[p].gen = g
               /\ ~\E p \in Paths : dirs[p].gen = g
               /\ \E p \in Paths : reconcile[p].gen = g
      <3>1. PICK p \in Paths : place[g] = 2 * n + p
        BY <2>3
      <3> QED BY <1>1, <3>1
    <2>4. CASE /\ ~\E p \in Paths : entries[p].gen = g
               /\ ~\E p \in Paths : dirs[p].gen = g
               /\ ~\E p \in Paths : reconcile[p].gen = g
      <3>1. place[g] = 3 * LastPath + 3
        BY <2>4
      <3> QED BY <1>1, <3>1
    <2> QED BY <2>1, <2>2, <2>3, <2>4
  <1>3. IsFiniteSet(Generations) /\ IsFiniteSet(Places) /\ Cardinality(Places) < Cardinality(Generations)
    BY <1>1, FS_Interval DEF Generations
  <1>4. PICK x, y \in Generations : x # y /\ place[x] = place[y]
    <2> HIDE DEF place, Places
    <2> QED BY <1>2, <1>3, FS_PigeonHole
  <1>5. SUFFICES Generations \ Used # {}
    <2>1. Generations \ Used \subseteq Nat
      BY DEF Generations
    <2>2. Min(Generations \ Used) \in Generations \ Used
      <3> HIDE DEF Used
      <3> QED BY <1>5, <2>1, FirstPath
    <2>3. NewGeneration = Min(Generations \ Used)
      BY DEF NewGeneration
    <2>4. NewGeneration \in Generations /\ NewGeneration \notin Used
      BY <2>2, <2>3
    <2>5. ASSUME NEW p \in Paths
          PROVE  /\ entries[p].gen \in Used /\ dirs[p].gen \in Used
                 /\ reconcile[p].gen \in Used /\ stream.gen \in Used
      OBVIOUS
    <2> HIDE DEF Used
    <2> QED BY <2>4, <2>5, PathTypes
  <1>6. ASSUME Generations \subseteq Used PROVE FALSE
    <2>1. \A g \in Generations :
             \/ g = stream.gen
             \/ \E p \in Paths : entries[p].gen = g \/ dirs[p].gen = g \/ reconcile[p].gen = g
      BY <1>6
    <2>2. ASSUME NEW g \in Generations
          PROVE  \/ \E p \in Paths : place[g] = p /\ entries[p].gen = g
                 \/ \E p \in Paths : place[g] = n + p /\ dirs[p].gen = g
                 \/ \E p \in Paths : place[g] = 2 * n + p /\ reconcile[p].gen = g
                 \/ place[g] = 3 * LastPath + 3 /\ stream.gen = g
      <3>1. CASE \E p \in Paths : entries[p].gen = g
        BY <3>1
      <3>2. CASE (~\E p \in Paths : entries[p].gen = g) /\ \E p \in Paths : dirs[p].gen = g
        BY <3>2
      <3>3. CASE /\ ~\E p \in Paths : entries[p].gen = g
                 /\ ~\E p \in Paths : dirs[p].gen = g
                 /\ \E p \in Paths : reconcile[p].gen = g
        BY <3>3
      <3>4. CASE /\ ~\E p \in Paths : entries[p].gen = g
                 /\ ~\E p \in Paths : dirs[p].gen = g
                 /\ ~\E p \in Paths : reconcile[p].gen = g
        BY <2>1, <3>4
      <3> QED BY <3>1, <3>2, <3>3, <3>4
    <2> HIDE DEF place
    <2>3. \A p, q \in Paths : p # n + q /\ p # 2 * n + q /\ n + p # 2 * n + q
                              /\ (n + p = n + q => p = q) /\ (2 * n + p = 2 * n + q => p = q)
                              /\ p # 3 * LastPath + 3 /\ n + p # 3 * LastPath + 3
                              /\ 2 * n + p # 3 * LastPath + 3
      BY <1>1
    <2> HIDE DEF n
    <2>4. place[x] = place[y] /\ x # y
      BY <1>4
    <2>5. ASSUME NEW p \in Paths, place[x] = p, entries[p].gen = x PROVE FALSE
      BY <2>2, <2>3, <2>4, <2>5
    <2>6. ASSUME NEW p \in Paths, place[x] = n + p, dirs[p].gen = x PROVE FALSE
      <3>1. \A q \in Paths : place[y] = n + q => q = p
        BY <2>3, <2>4, <2>6, Zenon
      <3>2. ASSUME NEW q \in Paths, place[y] = q PROVE FALSE
        BY <2>3, <2>4, <2>6, <3>2, Zenon
      <3>3. ASSUME NEW q \in Paths, place[y] = 2 * n + q PROVE FALSE
        BY <2>3, <2>4, <2>6, <3>3, Zenon
      <3>4. ASSUME NEW q \in Paths, place[y] = n + q, dirs[q].gen = y PROVE FALSE
        BY <2>4, <2>6, <3>1, <3>4, Zenon
      <3>5. ASSUME place[y] = 3 * LastPath + 3 PROVE FALSE
        BY <2>3, <2>4, <2>6, <3>5, Zenon
      <3> QED BY <2>2, <3>2, <3>3, <3>4, <3>5, Zenon
    <2>7. ASSUME NEW p \in Paths, place[x] = 2 * n + p, reconcile[p].gen = x PROVE FALSE
      <3>1. \A q \in Paths : place[y] = 2 * n + q => q = p
        BY <2>3, <2>4, <2>7, Zenon
      <3>2. ASSUME NEW q \in Paths, place[y] = q PROVE FALSE
        BY <2>3, <2>4, <2>7, <3>2, Zenon
      <3>3. ASSUME NEW q \in Paths, place[y] = n + q PROVE FALSE
        BY <2>3, <2>4, <2>7, <3>3, Zenon
      <3>4. ASSUME NEW q \in Paths, place[y] = 2 * n + q, reconcile[q].gen = y PROVE FALSE
        BY <2>4, <2>7, <3>1, <3>4, Zenon
      <3>5. ASSUME place[y] = 3 * LastPath + 3 PROVE FALSE
        BY <2>3, <2>4, <2>7, <3>5, Zenon
      <3> QED BY <2>2, <3>2, <3>3, <3>4, <3>5, Zenon
    <2>8. ASSUME place[x] = 3 * LastPath + 3, stream.gen = x PROVE FALSE
      BY <2>2, <2>3, <2>4, <2>8
    <2> QED BY <2>2, <2>5, <2>6, <2>7, <2>8
  <1> QED BY <1>6

-----------------------------------------------------------------------------
(* What a maintenance step does, table by table.                            *)

LEMMA TableOrder ==
  /\ Len(PurgeTables) = 4
  /\ PurgeTables[1] = "directories" /\ PurgeTables[2] = "subtree_reconcile"
  /\ PurgeTables[3] = "entries" /\ PurgeTables[4] = "subtree_retirement"
  BY DEF PurgeTables

DirRows == [known : BOOLEAN, gen : {0} \cup Generations, complete : BOOLEAN, fault : BOOLEAN]
JobRows == [status : {"none", "pending", "running"}, first : BOOLEAN]
ReconcileRows == [gen : {0} \cup Generations, cursor : Paths]
RetireRows == [phase : -1..4, preserve : BOOLEAN, current : BOOLEAN]

LEMMA RowTypes ==
  /\ NoEntry \in EntryRows /\ NoDir \in DirRows /\ NoJob \in JobRows
  /\ NoReconcile \in ReconcileRows /\ NoRetire \in RetireRows
  /\ NoStream \in Streams /\ NoHandler \in Handlers
  BY PathTypes DEF NoEntry, EntryRows, NoDir, DirRows, NoJob, JobRows, NoReconcile,
     ReconcileRows, NoRetire, RetireRows, NoStream, Streams, NoHandler, Handlers, Root

LEMMA TypeFacts ==
  ASSUME TypeInv
  PROVE  /\ entries \in [Paths -> EntryRows] /\ dirs \in [Paths -> DirRows]
         /\ jobs \in [Paths -> JobRows] /\ reconcile \in [Paths -> ReconcileRows]
         /\ retire \in [Paths -> RetireRows]
         /\ stream \in Streams /\ handler \in Handlers
  BY TableOrder DEF TypeInv, TypeOK, DirRows, JobRows, ReconcileRows, RetireRows

\* The rows of a table without those of the paths gone.
Cleared(rows, none, gone) == [p \in Paths |-> IF p \in gone THEN none ELSE rows[p]]

Advanced(q) == [retire EXCEPT ![q].phase = @ + 1]

PurgeDirectories(q) ==
  LET gone == PurgedRows(q, "directories")
  IN /\ retire[q].phase = 0
     /\ dirs' = Cleared(dirs, NoDir, gone)
     /\ UNCHANGED <<reconcile, entries>>
     /\ retire' = IF gone = {} THEN Advanced(q) ELSE retire
PurgeReconcile(q) ==
  LET gone == PurgedRows(q, "subtree_reconcile")
  IN /\ retire[q].phase = 1
     /\ reconcile' = Cleared(reconcile, NoReconcile, gone)
     /\ UNCHANGED <<dirs, entries>>
     /\ retire' = IF gone = {} THEN Advanced(q) ELSE retire
PurgeEntries(q) ==
  LET gone == PurgedRows(q, "entries")
  IN /\ retire[q].phase = 2
     /\ entries' = Cleared(entries, NoEntry, gone)
     /\ UNCHANGED <<dirs, reconcile>>
     /\ retire' = IF gone = {} THEN Advanced(q) ELSE retire
PurgeRetirement(q) ==
  LET gone == PurgedRows(q, "subtree_retirement")
  IN /\ retire[q].phase = 3
     /\ UNCHANGED <<dirs, reconcile, entries>>
     /\ retire' = IF gone = {} THEN Advanced(q) ELSE Cleared(retire, NoRetire, gone)
PurgeEnds(q) ==
  /\ retire[q].phase = 4
  /\ retire' = [retire EXCEPT ![q] = NoRetire]
  /\ UNCHANGED <<entries, dirs, reconcile>>

\* A purge step is one of these.
LEMMA PurgeSteps ==
  ASSUME TypeInv, NEW q \in Paths, Retiring(q), PurgeSubtree(q)
  PROVE  /\ retire[q].current
         /\ \/ PurgeDirectories(q) \/ PurgeReconcile(q) \/ PurgeEntries(q)
            \/ PurgeRetirement(q) \/ PurgeEnds(q)
  <1> USE TypeFacts
  <1>1. retire[q].phase \in 0..4 /\ retire[q].current
    BY DEF Retiring, RetireRows, PurgeSubtree
  <1> DEFINE table == PurgeTables[retire[q].phase + 1]
             gone == PurgedRows(q, table)
             without(rows, none, name) ==
               [p \in Paths |-> IF table = name /\ p \in gone THEN none ELSE rows[p]]
  <1>2. CASE retire[q].phase = 4
    BY <1>1, <1>2, TableOrder DEF PurgeSubtree, PurgeEnds
  <1>3. CASE retire[q].phase # 4
    <2>1. /\ dirs' = without(dirs, NoDir, "directories")
          /\ reconcile' = without(reconcile, NoReconcile, "subtree_reconcile")
          /\ entries' = without(entries, NoEntry, "entries")
          /\ retire' = IF gone = {} THEN Advanced(q)
                       ELSE without(retire, NoRetire, "subtree_retirement")
      BY <1>3, TableOrder DEF PurgeSubtree, Advanced
    <2>2. /\ table # "directories" => without(dirs, NoDir, "directories") = dirs
          /\ table # "subtree_reconcile" =>
               without(reconcile, NoReconcile, "subtree_reconcile") = reconcile
          /\ table # "entries" => without(entries, NoEntry, "entries") = entries
          /\ table # "subtree_retirement" =>
               without(retire, NoRetire, "subtree_retirement") = retire
      <3> HIDE DEF table
      <3> QED OBVIOUS
    <2>3. ASSUME NEW rows, NEW none, NEW name, table = name
          PROVE  without(rows, none, name) = Cleared(rows, none, PurgedRows(q, name))
      BY <2>3 DEF Cleared
    <2> HIDE DEF without
    <2>4. CASE retire[q].phase = 0
      <3>1. table = "directories"
        BY <2>4, TableOrder
      <3> HIDE DEF table
      <3> QED BY <1>1, <2>1, <2>2, <2>3, <2>4, <3>1 DEF PurgeDirectories
    <2>5. CASE retire[q].phase = 1
      <3>1. table = "subtree_reconcile"
        BY <2>5, TableOrder
      <3> HIDE DEF table
      <3> QED BY <1>1, <2>1, <2>2, <2>3, <2>5, <3>1 DEF PurgeReconcile
    <2>6. CASE retire[q].phase = 2
      <3>1. table = "entries"
        BY <2>6, TableOrder
      <3> HIDE DEF table
      <3> QED BY <1>1, <2>1, <2>2, <2>3, <2>6, <3>1 DEF PurgeEntries
    <2>7. CASE retire[q].phase = 3
      <3>1. table = "subtree_retirement"
        BY <2>7, TableOrder
      <3> HIDE DEF table
      <3> QED BY <1>1, <2>1, <2>2, <2>3, <2>7, <3>1 DEF PurgeRetirement
    <2> QED BY <1>1, <1>3, <2>4, <2>5, <2>6, <2>7
  <1> QED BY <1>1, <1>2, <1>3

\* The rows that a purge removes from a table, and when there is none.
LEMMA PurgedTable ==
  ASSUME NEW q \in Paths, NEW t \in {"directories", "subtree_reconcile", "entries",
                                     "subtree_retirement"}
  PROVE  /\ PurgedRows(q, t) \subseteq Below[q] \cup {q}
         /\ \A x \in PurgedRows(q, t) : HasRow(t, x)
         /\ q \in PurgedRows(q, t) =>
              /\ \A x \in Below[q] : ~HasRow(t, x)
              /\ t # "subtree_retirement" /\ (t = "entries" => ~retire[q].preserve)
         /\ PurgedRows(q, t) = {} =>
              /\ \A x \in Below[q] : ~HasRow(t, x)
              /\ \/ t = "subtree_retirement"
                 \/ ~HasRow(t, q)
                 \/ t = "entries" /\ retire[q].preserve
         /\ \A x, y \in Below[q] : x \in PurgedRows(q, t) /\ x < y /\ HasRow(t, y)
              => y \in PurgedRows(q, t)
  <1> DEFINE below == {p \in Below[q] : HasRow(t, p)}
  <1>1. below \in SUBSET Paths /\ q \notin Below[q]
    <2>1. \A x \in Below[q] : q < x
      BY BelowLarger
    <2>2. q \in Nat
      BY PathTypes
    <2> QED BY <2>1, <2>2, BelowClosed
  <1>2. CASE below = {}
    <2>1. PurgedRows(q, t) \subseteq {q} /\ \A x \in Below[q] : ~HasRow(t, x)
      BY <1>2 DEF PurgedRows
    <2>2. q \in PurgedRows(q, t) => HasRow(t, q) /\ t # "subtree_retirement" /\ (t = "entries" => ~retire[q].preserve)
      BY <1>2 DEF PurgedRows
    <2>3. PurgedRows(q, t) = {} =>
            \/ t = "subtree_retirement"
            \/ ~HasRow(t, q)
            \/ t = "entries" /\ retire[q].preserve
      BY <1>2 DEF PurgedRows
    <2> QED BY <1>1, <2>1, <2>2, <2>3
  <1>3. CASE below # {}
    <2>1. PurgedRows(q, t) = Highest(below, BatchSize)
      BY <1>3 DEF PurgedRows
    <2>2. Highest(below, BatchSize) # {}
      <3>1. Max(below) \in below /\ \A y \in below : y <= Max(below)
        <4> HIDE DEF below
        <4> QED BY <1>1, <1>3, LastOf
      <3>2. {y \in below : y > Max(below)} = {}
        <4>1. \A y \in below : y \in Nat
          BY <1>1, PathTypes
        <4> QED BY <3>1, <4>1
      <3>3. Cardinality({y \in below : y > Max(below)}) < BatchSize
        <4>1. Cardinality({}) < BatchSize
          BY FS_EmptySet, BoundsAssumption
        <4> HIDE DEF below
        <4> QED BY <3>2, <4>1
      <3> HIDE DEF below
      <3> QED BY <3>1, <3>3 DEF Highest
    <2>3. /\ Highest(below, BatchSize) \subseteq below
          /\ \A x \in Highest(below, BatchSize), y \in below :
                x < y => y \in Highest(below, BatchSize)
      <3> HIDE DEF below
      <3> QED BY <1>1, HighestRows
    <2> QED BY <1>1, <2>1, <2>2, <2>3
  <1> QED BY <1>2, <1>3

-----------------------------------------------------------------------------
(* Types.                                                                   *)

Typed ==
  /\ entries \in [Paths -> EntryRows] /\ dirs \in [Paths -> DirRows]
  /\ jobs \in [Paths -> JobRows] /\ reconcile \in [Paths -> ReconcileRows]
  /\ retire \in [Paths -> RetireRows]
  /\ disk \in [Paths -> {"absent", "file", "dir", "sealed"}]
  /\ disk[Root] \in {"absent", "dir"}
  /\ stream \in Streams /\ handler \in Handlers
  /\ certified \in [Paths -> SUBSET Paths]
  /\ quiet \in BOOLEAN /\ disturbances \in Nat

RunningInv ==
  \A p \in Paths : jobs[p].status = "running" <=> (handler.at # "idle" /\ handler.job = p)

LEMMA TypeParts == TypeInv <=> Typed /\ RunningInv
  <1>1. handler \in Handlers => handler.at \in {"idle", "claimed", "listing", "batch", "fault"}
    BY DEF Handlers
  <1> QED BY <1>1, TableOrder DEF TypeInv, TypeOK, Typed, RunningInv, DirRows, JobRows, ReconcileRows,
     RetireRows

LEMMA TypePartsNext == TypeInv' <=> Typed' /\ RunningInv'
  <1>1. (handler \in Handlers)' => (handler.at \in {"idle", "claimed", "listing", "batch", "fault"})'
    BY DEF Handlers
  <1> QED BY <1>1, TableOrder DEF TypeInv, TypeOK, Typed, RunningInv, DirRows, JobRows, ReconcileRows,
     RetireRows

LEMMA InitTyped == Init => Typed /\ RunningInv
  <1> SUFFICES ASSUME Init PROVE Typed /\ RunningInv
    OBVIOUS
  <1> USE RowTypes, PathTypes DEF Init
  <1>1. disk \in [Paths -> {"absent", "file", "dir", "sealed"}] /\ disk[Root] = "dir"
    BY StartsAssumption
  <1>2. Typed
    BY <1>1 DEF Typed
  <1>3. RunningInv
    BY DEF RunningInv, NoJob, NoHandler
  <1> QED BY <1>2, <1>3

LEMMA DiskTyped ==
  ASSUME Typed, NEW p \in Paths,
         (\E k \in Kinds[p] : Replace(p, k)) \/ Seal(p) \/ RootGone
  PROVE  Typed'
  <1> USE PathTypes DEF Typed
  <1>1. disturbances' \in Nat /\ quiet' = FALSE
        /\ UNCHANGED <<entries, dirs, jobs, reconcile, retire, handler, certified>>
    BY DEF Replace, Seal, RootGone, Changed, Disturb, saved
  <1>2. stream' \in Streams
    <2>1. PICK S : Touch(S)
      BY DEF Replace, Seal, RootGone
    <2> QED BY <2>1 DEF Touch, Streams
  <1>3. disk' \in [Paths -> {"absent", "file", "dir", "sealed"}] /\ disk[Root]' \in {"absent", "dir"}
    <2>1. CASE \E k \in Kinds[p] : Replace(p, k)
      <3>1. PICK k \in Kinds[p] : Replace(p, k)
        BY <2>1
      <3>2. k \in {"absent", "file", "dir"} /\ p # Root
        BY <3>1, KindsAssumption DEF Replace
      <3>3. Root \notin Below[p]
        <4>1. \A x \in Below[p] : x \in 1..LastPath
          BY BelowLarger
        <4> QED BY <4>1
      <3> QED BY <3>1, <3>2, <3>3 DEF Replace
    <2>2. CASE Seal(p)
      BY <2>2 DEF Seal
    <2>3. CASE RootGone
      BY <2>3 DEF RootGone
    <2> QED BY <2>1, <2>2, <2>3
  <1> QED BY <1>1, <1>2, <1>3

\* Fields of rows may be set one by one.
LEMMA RowsSet ==
  /\ \A r \in RetireRows : [r EXCEPT !.current = FALSE] \in RetireRows
  /\ \A r \in DirRows : [[r EXCEPT !.fault = TRUE] EXCEPT !.known = TRUE] \in DirRows
  /\ \A r \in JobRows, v \in {"none", "pending", "running"} : [r EXCEPT !.status = v] \in JobRows
  BY DEF RetireRows, DirRows, JobRows

LEMMA HandlersSet ==
  ASSUME NEW h \in Handlers
  PROVE  /\ [h EXCEPT !.at = "listing"] \in Handlers
         /\ [h EXCEPT !.at = "fault", !.seen = {}] \in Handlers
         /\ \A s \in SUBSET Observed : [h EXCEPT !.seen = s] \in Handlers
         /\ \A c \in BOOLEAN, g \in {0} \cup Generations, n \in SUBSET Paths :
               [h EXCEPT !.at = "batch", !.complete = c, !.gen = g, !.names = n] \in Handlers
  BY DEF Handlers

\* The fields after each of these changes of the batch in progress.
LEMMA HandlerFields ==
  ASSUME NEW h \in Handlers
  PROVE  /\ LET k == [h EXCEPT !.at = "listing"]
            IN k.at = "listing" /\ k.job = h.job /\ k.seen = h.seen
         /\ LET k == [h EXCEPT !.at = "fault", !.seen = {}]
            IN k.at = "fault" /\ k.job = h.job /\ k.seen = {}
         /\ \A s : LET k == [h EXCEPT !.seen = s]
                   IN k.at = h.at /\ k.job = h.job /\ k.seen = s
         /\ \A c, g, n :
              LET k == [h EXCEPT !.at = "batch", !.complete = c, !.gen = g, !.names = n]
              IN /\ k.at = "batch" /\ k.job = h.job /\ k.seen = h.seen
                 /\ k.complete = c /\ k.gen = g /\ k.names = n
  BY DEF Handlers

\* What the steps of the scanner leave in the batch in progress.
LEMMA OpenFields ==
  ASSUME handler \in Handlers, OpenDirectory
  PROVE  /\ handler.at = "claimed" /\ handler'.job = handler.job
         /\ UNCHANGED <<disk, entries, dirs, jobs, reconcile, retire, certified, quiet, disturbances>>
         /\ \/ /\ Openable(handler.job)
               /\ handler'.at = "listing" /\ handler'.seen = handler.seen
               /\ stream' \in ReadNames(OpenedStream(handler.job))
            \/ ~Openable(handler.job) /\ handler'.at = "fault" /\ handler'.seen = {} /\ stream' = NoStream
  <1>1. CASE Openable(handler.job)
    <2>1. handler' = [handler EXCEPT !.at = "listing"]
      BY <1>1 DEF OpenDirectory
    <2>2. handler'.at = "listing" /\ handler'.job = handler.job /\ handler'.seen = handler.seen
      BY <2>1, HandlerFields
    <2> QED BY <1>1, <2>2 DEF OpenDirectory, saved, ghosts
  <1>2. CASE ~Openable(handler.job)
    <2>1. handler' = [handler EXCEPT !.at = "fault", !.seen = {}]
      BY <1>2 DEF OpenDirectory, Fault
    <2>2. handler'.at = "fault" /\ handler'.job = handler.job /\ handler'.seen = {}
      BY <2>1, HandlerFields
    <2> QED BY <1>2, <2>2 DEF OpenDirectory, Fault, saved, ghosts
  <1> QED BY <1>1, <1>2

LEMMA InspectFields ==
  ASSUME handler \in Handlers, NEW n, InspectName(n)
  PROVE  /\ handler.at = "listing" /\ handler'.job = handler.job /\ n \in stream.pending
         /\ UNCHANGED <<disk, entries, dirs, jobs, reconcile, retire, certified, quiet, disturbances>>
         /\ \/ /\ disk[n] # "absent"
               /\ handler'.at = "listing" /\ handler'.seen = handler.seen \cup {Observation(n)}
               /\ stream' = [stream EXCEPT !.pending = @ \ {n}]
            \/ /\ disk[n] = "absent"
               /\ handler'.at = "fault" /\ handler'.seen = {} /\ stream' = NoStream
  <1>1. CASE disk[n] # "absent"
    <2>1. handler' = [handler EXCEPT !.seen = handler.seen \cup {Observation(n)}]
      BY <1>1 DEF InspectName
    <2>2. handler'.at = handler.at /\ handler'.job = handler.job
          /\ handler'.seen = handler.seen \cup {Observation(n)}
      BY <2>1, HandlerFields
    <2> QED BY <1>1, <2>2 DEF InspectName, saved, ghosts
  <1>2. CASE disk[n] = "absent"
    <2>1. handler' = [handler EXCEPT !.at = "fault", !.seen = {}]
      BY <1>2 DEF InspectName, Fault
    <2>2. handler'.at = "fault" /\ handler'.job = handler.job /\ handler'.seen = {}
      BY <2>1, HandlerFields
    <2> QED BY <1>2, <2>2 DEF InspectName, Fault, saved, ghosts
  <1> QED BY <1>1, <1>2

LEMMA ValidateFields ==
  ASSUME handler \in Handlers, ValidateListing
  PROVE  /\ handler.at = "listing" /\ handler'.job = handler.job
         /\ UNCHANGED <<disk, entries, dirs, jobs, reconcile, retire, certified, quiet, disturbances>>
         /\ \/ /\ Openable(handler.job) /\ ~stream.changed
               /\ handler'.at = "batch" /\ handler'.seen = handler.seen
               /\ handler'.complete = (stream.eof /\ stream.pending = {})
               /\ handler'.gen = stream.gen /\ handler'.names = OnDisk(handler.job)
               /\ stream' = IF stream.eof /\ stream.pending = {} THEN NoStream ELSE stream
            \/ /\ ~Openable(handler.job) \/ stream.changed
               /\ handler'.at = "fault" /\ handler'.seen = {} /\ stream' = NoStream
  <1>1. CASE Unchanged
    <2> DEFINE c == stream.eof /\ stream.pending = {}
    <2>1. handler' = [handler EXCEPT !.at = "batch", !.complete = c,
                                     !.gen = stream.gen, !.names = OnDisk(handler.job)]
      BY <1>1 DEF ValidateListing
    <2>2. /\ handler'.at = "batch" /\ handler'.job = handler.job /\ handler'.seen = handler.seen
          /\ handler'.complete = c /\ handler'.gen = stream.gen /\ handler'.names = OnDisk(handler.job)
      <3> HIDE DEF c
      <3> QED BY <2>1, HandlerFields
    <2> QED BY <1>1, <2>2 DEF ValidateListing, Unchanged, saved, ghosts
  <1>2. CASE ~Unchanged
    <2>1. handler' = [handler EXCEPT !.at = "fault", !.seen = {}]
      BY <1>2 DEF ValidateListing, Fault
    <2>2. handler'.at = "fault" /\ handler'.job = handler.job /\ handler'.seen = {}
      BY <2>1, HandlerFields
    <2> QED BY <1>2, <2>2 DEF ValidateListing, Unchanged, Fault, saved, ghosts
  <1> QED BY <1>1, <1>2

LEMMA FaultTyped ==
  ASSUME handler \in Handlers, Fault
  PROVE  handler' \in Handlers /\ stream' \in Streams
  <1>1. [handler EXCEPT !.at = "fault", !.seen = {}] \in Handlers
    BY HandlersSet
  <1> QED BY <1>1, RowTypes DEF Fault

LEMMA NamesRead ==
  ASSUME NEW t \in Streams
  PROVE  ReadNames(t) \subseteq Streams
  <1>1. \A names \in SUBSET t.left : [t EXCEPT !.pending = names, !.left = @ \ names] \in Streams
    BY DEF Streams
  <1>2. [t EXCEPT !.eof = TRUE] \in Streams
    BY DEF Streams
  <1> QED BY <1>1, <1>2 DEF ReadNames

LEMMA ListTyped ==
  ASSUME Typed, handler.at # "idle" => handler.job \in Paths,
         \/ OpenDirectory \/ ValidateListing \/ CommitFault \/ CommitScan \/ InterruptListing
         \/ \E p \in Paths : InspectName(p) \/ ClaimJob(p)
  PROVE  Typed'
  <1> USE PathTypes, RowTypes DEF Typed, saved, ghosts
  <1>1. CASE OpenDirectory
    <2>1. handler.job \in Paths
      BY <1>1 DEF OpenDirectory
    <2>2. CASE ~Openable(handler.job)
      BY <1>1, <2>2, FaultTyped DEF OpenDirectory
    <2>3. CASE Openable(handler.job)
      <3>1. stream' \in ReadNames(OpenedStream(handler.job))
            /\ handler' = [handler EXCEPT !.at = "listing"]
        BY <1>1, <2>3 DEF OpenDirectory
      <3>2. OpenedStream(handler.job) \in Streams
        <4>1. NewGeneration \in Generations
          BY FreshGeneration
        <4>2. OnDisk(handler.job) \in SUBSET Paths
          BY DEF OnDisk
        <4> QED BY <2>1, <4>1, <4>2 DEF OpenedStream, Streams, NoStream
      <3>4. handler' \in Handlers
        BY <3>1, HandlersSet
      <3>5. stream' \in Streams
        BY <3>1, <3>2, NamesRead
      <3> QED BY <1>1, <3>4, <3>5 DEF OpenDirectory
    <2> QED BY <2>2, <2>3
  <1>2. CASE ValidateListing
    <2>1. OnDisk(handler.job) \in SUBSET Paths
      BY DEF OnDisk
    <2>2. handler' \in Handlers
      <3>1. stream.gen \in {0} \cup Generations /\ stream.eof \in BOOLEAN
        BY DEF Streams
      <3>2. CASE Unchanged
        <4> DEFINE complete == stream.eof /\ stream.pending = {}
        <4>1. handler' = [handler EXCEPT !.at = "batch", !.complete = complete,
                                         !.gen = stream.gen, !.names = OnDisk(handler.job)]
          BY <1>2, <3>2 DEF ValidateListing
        <4>2. complete \in BOOLEAN
          OBVIOUS
        <4> HIDE DEF complete
        <4> QED BY <2>1, <3>1, <4>1, <4>2, HandlersSet
      <3>3. CASE ~Unchanged
        BY <1>2, <3>3, FaultTyped DEF ValidateListing
      <3> QED BY <3>2, <3>3
    <2>3. stream' \in Streams
      BY <1>2 DEF ValidateListing, Fault
    <2> QED BY <1>2, <2>2, <2>3 DEF ValidateListing
  <1>3. CASE CommitFault
    <2>1. handler.job \in Paths
      BY <1>3 DEF CommitFault
    <2>2. [status |-> "pending", first |-> FALSE] \in JobRows
      BY DEF JobRows
    <2>3. retire' \in [Paths -> RetireRows]
      BY <1>3, RowsSet DEF CommitFault, StaleProofs
    <2>4. dirs' \in [Paths -> DirRows]
      <3>1. dirs' = [dirs EXCEPT ![handler.job] =
                       [[dirs[handler.job] EXCEPT !.fault = TRUE] EXCEPT !.known = TRUE]]
        BY <1>3, <2>1, ZenonT(60) DEF CommitFault
      <3> QED BY <2>1, <3>1, RowsSet
    <2> QED BY <1>3, <2>2, <2>3, <2>4 DEF CommitFault
  <1>4. CASE CommitScan
    <2> DEFINE p == handler.job
    <2>1. p \in Paths
      BY <1>4 DEF CommitScan
    <2>2. retire' \in [Paths -> RetireRows]
      BY <1>4, RowsSet DEF CommitScan, StaleProofs
    <2>3. handler.gen \in {0} \cup Generations /\ handler.complete \in BOOLEAN
          /\ handler.names \in SUBSET Paths /\ handler.seen \in SUBSET Observed
      BY DEF Handlers
    <2>4. jobs' \in [Paths -> JobRows]
      <3>1. \A f \in BOOLEAN : [status |-> "pending", first |-> f] \in JobRows
        BY DEF JobRows
      <3> QED BY <1>4, <3>1 DEF CommitScan, JobsAfter
    <2>5. entries' \in [Paths -> EntryRows]
      <3>1. \A n : Seen(n) => SeenAt(n) \in Observed
        BY <2>3 DEF Seen, SeenAt
      <3>2. ASSUME NEW n \in Paths, Seen(n)
            PROVE [kind |-> SeenAt(n).kind, skip |-> SeenAt(n).skip, gen |-> handler.gen] \in EntryRows
        BY <2>3, <3>1, <3>2 DEF Observed, EntryRows
      <3>3. [kind |-> "dir", skip |-> FALSE, gen |-> handler.gen] \in EntryRows
        BY <2>3 DEF EntryRows
      <3> QED BY <1>4, <3>2, <3>3 DEF CommitScan, Upserted
    <2>6. dirs' \in [Paths -> DirRows]
      BY <1>4, <2>1, <2>3 DEF CommitScan, DirRows
    <2>7. reconcile' \in [Paths -> ReconcileRows]
      BY <1>4, <2>1, <2>3 DEF CommitScan, ReconcileRows, Root
    <2>8. certified' \in [Paths -> SUBSET Paths]
      BY <1>4, <2>1, <2>3 DEF CommitScan
    <2> QED BY <1>4, <2>2, <2>4, <2>5, <2>6, <2>7, <2>8 DEF CommitScan
  <1>5. CASE InterruptListing
    <2>1. \A f \in BOOLEAN : [status |-> "pending", first |-> f] \in JobRows
      BY DEF JobRows
    <2> QED BY <1>5, <2>1 DEF InterruptListing, Disturb
  <1>6. CASE \E p \in Paths : InspectName(p)
    <2>1. PICK n \in Paths : InspectName(n)
      BY <1>6
    <2>2. Observation(n) \in Observed
      BY <2>1 DEF Observation, Observed
    <2>3. handler' \in Handlers
      <3>1. handler.seen \cup {Observation(n)} \in SUBSET Observed
        BY <2>2 DEF Handlers
      <3>2. [handler EXCEPT !.seen = @ \cup {Observation(n)}] \in Handlers
        BY <3>1, HandlersSet
      <3> QED BY <2>1, <3>2, FaultTyped DEF InspectName
    <2>4. stream' \in Streams
      BY <2>1 DEF InspectName, Fault, Streams
    <2> QED BY <2>1, <2>3, <2>4 DEF InspectName
  <1>7. CASE \E p \in Paths : ClaimJob(p)
    <2>1. PICK p \in Paths : ClaimJob(p)
      BY <1>7
    <2>2. jobs' \in [Paths -> JobRows]
      <3>1. jobs' = [jobs EXCEPT ![p] = [jobs[p] EXCEPT !.status = "running"]]
        BY <2>1 DEF ClaimJob
      <3> QED BY <3>1, RowsSet
    <2>3. handler' \in Handlers
      BY <2>1 DEF ClaimJob, Handlers, NoHandler
    <2> QED BY <2>1, <2>2, <2>3 DEF ClaimJob
  <1> QED BY <1>1, <1>2, <1>3, <1>4, <1>5, <1>6, <1>7

-----------------------------------------------------------------------------
(* Maintenance.                                                             *)

\* A step works on one anchor, or on one listing when there is no anchor.
LEMMA RetireSteps ==
  ASSUME RetireSubtrees
  PROVE  /\ UNCHANGED <<disk, jobs, stream, handler, certified, quiet, disturbances>>
         /\ NoJobs /\ handler.at = "idle"
         /\ \/ \E q \in Paths : Retiring(q) /\ (DropStaleProof(q) \/ PurgeSubtree(q))
            \/ /\ \A q \in Paths : ~Retiring(q)
               /\ \E p \in Paths : Reconciling(p) /\ ReconcileSubtree(p)
  <1> DEFINE proofs == {p \in Paths : Retiring(p)}
             listings == {p \in Paths : Reconciling(p)}
  <1>1. proofs # {} => Min(proofs) \in proofs
    BY FirstPath, PathTypes
  <1>2. listings # {} => Min(listings) \in listings
    BY FirstPath, PathTypes
  <1>3. /\ UNCHANGED <<disk, jobs, stream, handler, certified, quiet, disturbances>>
        /\ NoJobs /\ handler.at = "idle"
    BY DEF RetireSubtrees, memory, ghosts, MaintenanceOpen
  <1>4. \/ proofs # {} /\ (DropStaleProof(Min(proofs)) \/ PurgeSubtree(Min(proofs)))
        \/ proofs = {} /\ listings # {} /\ ReconcileSubtree(Min(listings))
    BY DEF RetireSubtrees
  <1> HIDE DEF proofs, listings
  <1>5. CASE proofs # {} /\ (DropStaleProof(Min(proofs)) \/ PurgeSubtree(Min(proofs)))
    BY <1>1, <1>3, <1>5 DEF proofs
  <1>6. CASE proofs = {} /\ listings # {} /\ ReconcileSubtree(Min(listings))
    BY <1>2, <1>3, <1>6 DEF proofs, listings
  <1> QED BY <1>4, <1>5, <1>6

\* The saved children of p that maintenance has not compared yet, and those it
\* compares next.
RestOf(p) == {c \in Children(p) : SavedEntry(c) /\ c > reconcile[p].cursor}
BatchOf(p) == Lowest(RestOf(p), BatchSize)

ReconcileEnds(p) ==
  /\ \/ reconcile[p].gen # dirs[p].gen \/ ~dirs[p].complete \/ dirs[p].fault \/ RestOf(p) = {}
  /\ reconcile' = [reconcile EXCEPT ![p] = NoReconcile]
  /\ UNCHANGED <<retire, entries, dirs>>
ReconcileBatch(p) ==
  /\ reconcile[p].gen = dirs[p].gen /\ dirs[p].complete /\ ~dirs[p].fault
  /\ \E last \in BatchOf(p) :
       /\ \A c \in BatchOf(p) : c <= last
       /\ \A c \in RestOf(p) : c <= last => c \in BatchOf(p)
       /\ reconcile' = [reconcile EXCEPT ![p].cursor = last]
  /\ BatchOf(p) \subseteq RestOf(p)
  /\ retire' = [c \in Paths |->
                  IF c \in BatchOf(p) /\ ToRetire(p, c)
                  THEN [phase |-> 0, preserve |-> ~Absent(p, c), current |-> TRUE]
                  ELSE retire[c]]
  /\ UNCHANGED <<entries, dirs>>

LEMMA ReconcileSteps ==
  ASSUME NEW p \in Paths, ReconcileSubtree(p)
  PROVE  ReconcileEnds(p) \/ ReconcileBatch(p)
  <1>1. RestOf(p) \in SUBSET Paths
    BY PathTypes DEF RestOf
  <1>2. CASE \/ reconcile[p].gen # dirs[p].gen \/ ~dirs[p].complete \/ dirs[p].fault
             \/ RestOf(p) = {}
    BY <1>2 DEF ReconcileSubtree, RestOf, ReconcileEnds
  <1>3. CASE ~(\/ reconcile[p].gen # dirs[p].gen \/ ~dirs[p].complete \/ dirs[p].fault
               \/ RestOf(p) = {})
    <2>1. BatchOf(p) \subseteq RestOf(p) /\ BatchOf(p) # {}
          /\ \A x \in BatchOf(p), y \in RestOf(p) : y < x => y \in BatchOf(p)
      BY <1>1, <1>3, LowestRows DEF BatchOf
    <2>2. Max(BatchOf(p)) \in BatchOf(p) /\ \A c \in BatchOf(p) : c <= Max(BatchOf(p))
      BY <1>1, <2>1, LastOf
    <2>3. \A c \in RestOf(p) : c <= Max(BatchOf(p)) => c \in BatchOf(p)
      <3>1. \A c \in RestOf(p) : c \in Nat
        BY <1>1, PathTypes
      <3> QED BY <2>1, <2>2, <3>1
    <2>4. /\ reconcile' = [reconcile EXCEPT ![p].cursor = Max(BatchOf(p))]
          /\ retire' = [c \in Paths |->
                  IF c \in BatchOf(p) /\ ToRetire(p, c)
                  THEN [phase |-> 0, preserve |-> ~Absent(p, c), current |-> TRUE]
                  ELSE retire[c]]
          /\ UNCHANGED <<entries, dirs>>
      BY <1>3 DEF ReconcileSubtree, RestOf, BatchOf
    <2> QED BY <1>3, <2>1, <2>2, <2>3, <2>4 DEF ReconcileBatch
  <1> QED BY <1>2, <1>3

LEMMA RetireTyped ==
  ASSUME TypeInv, RetireSubtrees
  PROVE  Typed'
  <1> USE RowTypes DEF Typed
  <1>0. UNCHANGED <<disk, jobs, stream, handler, certified, quiet, disturbances>> /\ Typed
    BY RetireSteps, TypeParts
  <1>1. ASSUME NEW q \in Paths, Retiring(q), DropStaleProof(q) PROVE Typed'
    BY <1>0, <1>1 DEF DropStaleProof
  <1>2. ASSUME NEW q \in Paths, Retiring(q), PurgeSubtree(q) PROVE Typed'
    <2>2. \A gone : /\ Cleared(entries, NoEntry, gone) \in [Paths -> EntryRows]
                    /\ Cleared(dirs, NoDir, gone) \in [Paths -> DirRows]
                    /\ Cleared(reconcile, NoReconcile, gone) \in [Paths -> ReconcileRows]
                    /\ Cleared(retire, NoRetire, gone) \in [Paths -> RetireRows]
      BY <1>0 DEF Cleared
    <2>3. retire[q].phase \in 0..3 => Advanced(q) \in [Paths -> RetireRows]
      <3> SUFFICES ASSUME retire[q].phase \in 0..3
                   PROVE [retire[q] EXCEPT !.phase = @ + 1] \in RetireRows
        BY <1>0 DEF Advanced
      <3> QED BY <1>0 DEF RetireRows
    <2>5. CASE PurgeDirectories(q)
      BY <1>0, <2>2, <2>3, <2>5 DEF PurgeDirectories
    <2>6. CASE PurgeReconcile(q)
      BY <1>0, <2>2, <2>3, <2>6 DEF PurgeReconcile
    <2>7. CASE PurgeEntries(q)
      BY <1>0, <2>2, <2>3, <2>7 DEF PurgeEntries
    <2>8. CASE PurgeRetirement(q)
      BY <1>0, <2>2, <2>3, <2>8 DEF PurgeRetirement
    <2>9. CASE PurgeEnds(q)
      BY <1>0, <2>9 DEF PurgeEnds
    <2> QED BY <1>2, <2>5, <2>6, <2>7, <2>8, <2>9, PurgeSteps
  <1>3. ASSUME NEW p \in Paths, ReconcileSubtree(p) PROVE Typed'
    <2>1. CASE ReconcileEnds(p)
      BY <1>0, <2>1 DEF ReconcileEnds
    <2>2. CASE ReconcileBatch(p)
      <3>1. PICK last \in Paths : reconcile' = [reconcile EXCEPT ![p].cursor = last]
        BY <2>2, PathTypes DEF ReconcileBatch, RestOf
      <3>2. reconcile' \in [Paths -> ReconcileRows]
        BY <1>0, <3>1 DEF ReconcileRows
      <3>3. \A c : [phase |-> 0, preserve |-> ~Absent(p, c), current |-> TRUE] \in RetireRows
        BY DEF RetireRows
      <3>4. retire' \in [Paths -> RetireRows]
        BY <1>0, <2>2, <3>3 DEF ReconcileBatch
      <3> QED BY <1>0, <2>2, <3>2, <3>4 DEF ReconcileBatch
    <2> QED BY <1>3, <2>1, <2>2, ReconcileSteps
  <1> QED BY <1>1, <1>2, <1>3, RetireSteps

\* The kinds of steps.
LEMMA NextCases ==
  ASSUME [Next]_vars
  PROVE  \/ UNCHANGED vars
         \/ \E p \in Paths : (\E k \in Kinds[p] : Replace(p, k)) \/ Seal(p) \/ RootGone
         \/ SeedInventory \/ RetireSubtrees
         \/ \E p \in Paths : EnqueueJob(p)
         \/ \E p \in Paths : ClaimJob(p)
         \/ CommitFault \/ InterruptListing \/ Crash
         \/ OpenDirectory \/ ValidateListing \/ CommitScan
         \/ \E p \in Paths : InspectName(p)
  <1>1. Root \in Paths
    BY PathTypes
  <1> QED BY <1>1 DEF Next

LEMMA TypeStep ==
  ASSUME TypeInv, handler.at # "idle" => handler.job \in Paths, [Next]_vars
  PROVE  TypeInv'
  <1>0. Typed /\ RunningInv
    BY TypeParts
  <1> USE PathTypes, RowTypes DEF saved, memory, ghosts
  <1>1. CASE UNCHANGED vars
    BY <1>1 DEF vars, TypeInv, TypeOK, EntryRows
  <1>2. ASSUME NEW p \in Paths,
               (\E k \in Kinds[p] : Replace(p, k)) \/ Seal(p) \/ RootGone
        PROVE  TypeInv'
    <2>1. UNCHANGED <<jobs, handler>>
      BY <1>2 DEF Replace, Seal, RootGone, Changed
    <2> QED BY <1>0, <1>2, <2>1, DiskTyped, TypePartsNext DEF RunningInv
  <1>3. CASE SeedInventory
    <2>1. [status |-> "pending", first |-> FALSE] \in JobRows
      BY DEF JobRows
    <2>2. Typed'
      BY <1>0, <1>3, <2>1 DEF Typed, SeedInventory
    <2>3. RunningInv'
      BY <1>0, <1>3, <2>1 DEF RunningInv, SeedInventory, Typed
    <2> QED BY <2>2, <2>3, TypePartsNext
  <1>4. ASSUME NEW p \in Paths, EnqueueJob(p) PROVE TypeInv'
    <2>1. [status |-> "pending", first |-> FALSE] \in JobRows
      BY DEF JobRows
    <2>2. Typed'
      <3>1. jobs' \in [Paths -> JobRows]
        BY <1>0, <1>4, <2>1 DEF Typed, EnqueueJob
      <3>2. disturbances' \in Nat /\ quiet' = FALSE
        BY <1>0, <1>4 DEF Typed, EnqueueJob, Disturb
      <3>3. UNCHANGED <<disk, entries, dirs, reconcile, retire, stream, handler, certified>>
        BY <1>4 DEF EnqueueJob
      <3> QED BY <1>0, <3>1, <3>2, <3>3 DEF Typed
    <2>3. RunningInv'
      BY <1>0, <1>4, <2>1 DEF RunningInv, EnqueueJob, Typed
    <2> QED BY <2>2, <2>3, TypePartsNext
  <1>5. CASE Crash
    <2>1. \A r \in JobRows : [r EXCEPT !.status = "pending"] \in JobRows
      BY RowsSet
    <2>2. Typed'
      <3>1. jobs' \in [Paths -> JobRows]
        <4>1. \A p \in Paths : [jobs[p] EXCEPT !.status = "pending"] \in JobRows
          BY <1>0, <2>1 DEF Typed
        <4> QED BY <1>5, <4>1 DEF Crash
      <3>2. disturbances' \in Nat
        BY <1>0, <1>5 DEF Typed, Crash, Disturb
      <3>3. stream' = NoStream /\ handler' = NoHandler
        BY <1>5 DEF Crash
      <3>4. UNCHANGED <<disk, entries, dirs, reconcile, retire, certified, quiet>>
        BY <1>5 DEF Crash
      <3> QED BY <1>0, <3>1, <3>2, <3>3, <3>4 DEF Typed
    <2>3. RunningInv'
      <3>1. \A p \in Paths : jobs'[p].status # "running"
        BY <1>0, <1>5 DEF Crash, Typed, JobRows, NoJob
      <3>2. handler'.at = "idle"
        BY <1>5 DEF Crash, NoHandler
      <3> QED BY <3>1, <3>2 DEF RunningInv
    <2> QED BY <2>2, <2>3, TypePartsNext
  <1>6. CASE RetireSubtrees
    BY <1>0, <1>6, RetireTyped, RetireSteps, TypePartsNext DEF RunningInv
  <1>7. ASSUME \/ OpenDirectory \/ ValidateListing \/ CommitFault \/ CommitScan \/ InterruptListing
               \/ \E p \in Paths : InspectName(p) \/ ClaimJob(p)
        PROVE  TypeInv'
    <2>1. Typed'
      BY <1>0, <1>7, ListTyped
    <2>2. RunningInv'
      <3>1. CASE OpenDirectory \/ ValidateListing \/ \E p \in Paths : InspectName(p)
        <4>0. handler \in Handlers
          BY <1>0 DEF Typed
        <4>1. UNCHANGED jobs /\ handler.at # "idle" /\ handler'.at # "idle" /\ handler'.job = handler.job
          <5>1. CASE OpenDirectory
            BY <4>0, <5>1, OpenFields
          <5>2. CASE ValidateListing
            BY <4>0, <5>2, ValidateFields
          <5>3. CASE \E p \in Paths : InspectName(p)
            BY <4>0, <5>3, InspectFields
          <5> QED BY <3>1, <5>1, <5>2, <5>3
        <4> QED BY <1>0, <4>1 DEF RunningInv
      <3>2. CASE \E p \in Paths : ClaimJob(p)
        <4>1. PICK p \in Paths : ClaimJob(p)
          BY <3>2
        <4>2. handler'.at = "claimed" /\ handler'.job = p
          BY <4>1 DEF ClaimJob, NoHandler
        <4>3. \A q \in Paths : jobs'[q].status = IF q = p THEN "running" ELSE jobs[q].status
          BY <1>0, <4>1 DEF ClaimJob, Typed, JobRows
        <4>4. \A q \in Paths : jobs[q].status # "running"
          BY <1>0, <4>1 DEF RunningInv, ClaimJob
        <4> QED BY <4>2, <4>3, <4>4 DEF RunningInv
      <3>3. CASE CommitFault \/ CommitScan \/ InterruptListing
        <4>1. handler'.at = "idle" /\ handler.at # "idle"
          BY <3>3 DEF CommitFault, CommitScan, InterruptListing, NoHandler
        <4>2. jobs'[handler.job].status # "running"
          <5>1. handler.job \in Paths /\ jobs \in [Paths -> JobRows]
            BY <1>0, <4>1 DEF Typed
          <5>2. CASE CommitFault
            BY <5>1, <5>2 DEF CommitFault
          <5>3. CASE CommitScan
            BY <5>1, <5>3 DEF CommitScan, JobsAfter, NoJob
          <5>4. CASE InterruptListing
            BY <5>1, <5>4 DEF InterruptListing
          <5> QED BY <3>3, <5>2, <5>3, <5>4
        <4>3. \A q \in Paths : jobs'[q].status = "running" => jobs[q].status = "running" \/ q = handler.job
          <5>1. handler.job \in Paths /\ jobs \in [Paths -> JobRows]
            BY <1>0, <4>1 DEF Typed
          <5>2. CASE CommitFault
            BY <5>1, <5>2 DEF CommitFault
          <5>3. CASE CommitScan
            <6>1. ASSUME NEW q \in Paths, q # handler.job, jobs'[q].status = "running"
                  PROVE  jobs[q].status = "running"
              BY <5>3, <6>1 DEF CommitScan, JobsAfter, NoJob
            <6> QED BY <6>1
          <5>4. CASE InterruptListing
            BY <5>1, <5>4 DEF InterruptListing
          <5> QED BY <3>3, <5>2, <5>3, <5>4
        <4> QED BY <1>0, <4>1, <4>2, <4>3 DEF RunningInv
      <3> QED BY <1>7, <3>1, <3>2, <3>3
    <2> QED BY <2>1, <2>2, TypePartsNext
  <1> QED BY <1>1, <1>2, <1>3, <1>4, <1>5, <1>6, <1>7 DEF Next

-----------------------------------------------------------------------------
(* The listing in progress.                                                 *)

LEMMA NothingFields ==
  /\ NoStream.job = -1 /\ NoStream.gen = 0 /\ NoStream.left = {} /\ NoStream.pending = {}
  /\ NoStream.eof = FALSE /\ NoStream.changed = FALSE
  /\ NoHandler.at = "idle" /\ NoHandler.job = -1 /\ NoHandler.seen = {}
  /\ NoHandler.complete = FALSE
  /\ NoEntry.kind = "absent" /\ NoEntry.gen = 0 /\ NoDir.known = FALSE /\ NoDir.complete = FALSE
  /\ NoDir.gen = 0 /\ NoReconcile.gen = 0 /\ NoReconcile.cursor = 0 /\ NoRetire.phase = -1
  /\ NoRetire.current = FALSE /\ NoJob.status = "none"
  BY DEF NoStream, NoHandler, NoEntry, NoDir, NoReconcile, NoRetire, NoJob

LEMMA TouchFields ==
  ASSUME stream \in Streams, NEW S \in SUBSET Paths, Touch(S)
  PROVE  /\ stream'.job = stream.job /\ stream'.gen = stream.gen /\ stream'.left = stream.left
         /\ stream'.pending = stream.pending /\ stream'.eof = stream.eof
         /\ stream'.changed = (stream.changed \/ stream.job \in S)
         /\ stream = NoStream => stream' = NoStream
  <1>1. /\ stream'.job = stream.job /\ stream'.gen = stream.gen /\ stream'.left = stream.left
        /\ stream'.pending = stream.pending /\ stream'.eof = stream.eof
        /\ stream'.changed = (stream.changed \/ stream.job \in S)
    BY DEF Touch, Streams
  <1>2. ASSUME stream = NoStream PROVE stream' = NoStream
    <2>1. stream.job \notin S /\ stream.changed = FALSE
      BY <1>2, NothingFields, PathTypes
    <2> QED BY <1>2, <2>1 DEF Touch, NoStream
  <1> QED BY <1>1, <1>2

\* What another program did to the folder, as far as the directories it did not
\* touch go.
LEMMA FolderChanged ==
  ASSUME TypeInv, NEW p \in Paths,
         (\E k \in Kinds[p] : Replace(p, k)) \/ Seal(p) \/ RootGone
  PROVE  /\ UNCHANGED <<entries, dirs, jobs, reconcile, retire, handler, certified>>
         /\ quiet' = FALSE
         /\ stream'.job = stream.job /\ stream'.gen = stream.gen /\ stream'.left = stream.left
         /\ stream'.pending = stream.pending /\ stream'.eof = stream.eof
         /\ stream.changed => stream'.changed
         /\ stream = NoStream => stream' = NoStream
         /\ stream.job # -1 /\ ~stream'.changed => \A c \in Children(stream.job) :
                  disk'[c] = "absent" <=> disk[c] = "absent"
  <1> USE TypeFacts, PathTypes
  <1>0. UNCHANGED <<entries, dirs, jobs, reconcile, retire, handler, certified>> /\ quiet' = FALSE
    BY DEF Replace, Seal, RootGone, Changed, saved
  <1>1. ASSUME NEW k \in Kinds[p], Replace(p, k)
        PROVE  /\ \E S \in SUBSET Paths : Touch(S)
               /\ stream.job # -1 /\ ~stream'.changed => \A c \in Children(stream.job) :
                  disk'[c] = "absent" <=> disk[c] = "absent"
    <2> DEFINE S == {Parent[p], p} \cup Below[p]
    <2>1. S \in SUBSET Paths /\ Touch(S) /\ p \in 1..LastPath
      <3>1. Touch(S) /\ p # Root
        BY <1>1 DEF Replace
      <3>2. p \in 1..LastPath /\ Parent[p] \in Paths /\ Below[p] \subseteq Paths
        BY <3>1, BelowClosed
      <3>3. S \in SUBSET Paths
        BY <3>2
      <3> QED BY <3>1, <3>2, <3>3
    <2>2. ASSUME stream.job # -1, ~stream'.changed, NEW c \in Children(stream.job)
          PROVE  disk'[c] = disk[c]
      <3>1. stream.job \notin S
        BY <2>1, <2>2, TouchFields
      <3>2. c # p /\ c \notin Below[p]
        BY <3>1, BelowParent
      <3> QED BY <1>1, <3>2 DEF Replace
    <2> QED BY <2>1, <2>2
  <1>2. ASSUME Seal(p)
        PROVE  /\ \E S \in SUBSET Paths : Touch(S)
               /\ stream.job # -1 /\ ~stream'.changed => \A c \in Children(stream.job) :
                  disk'[c] = "absent" <=> disk[c] = "absent"
    <2>1. \A c : disk'[c] # "absent" <=> disk[c] # "absent"
      BY <1>2 DEF Seal, TypeInv, TypeOK
    <2>2. {p} \in SUBSET Paths /\ Touch({p})
      BY <1>2 DEF Seal
    <2> QED BY <2>1, <2>2
  <1>3. ASSUME RootGone
        PROVE  /\ \E S \in SUBSET Paths : Touch(S)
               /\ stream.job # -1 /\ ~stream'.changed => \A c \in Children(stream.job) :
                  disk'[c] = "absent" <=> disk[c] = "absent"
    <2>1. {} \in SUBSET Paths /\ Touch({})
      BY <1>3 DEF RootGone
    <2>2. \A c \in Children(stream.job) : disk'[c] = disk[c]
      BY <1>3 DEF RootGone, TypeInv, TypeOK
    <2> QED BY <2>1, <2>2
  <1>4. PICK S \in SUBSET Paths : Touch(S)
    BY <1>1, <1>2, <1>3
  <1>5. /\ stream'.job = stream.job /\ stream'.gen = stream.gen /\ stream'.left = stream.left
        /\ stream'.pending = stream.pending /\ stream'.eof = stream.eof
        /\ stream'.changed = (stream.changed \/ stream.job \in S)
        /\ stream = NoStream => stream' = NoStream
    BY <1>4, TouchFields
  <1> QED BY <1>0, <1>1, <1>2, <1>3, <1>5

\* Reading names moves them within a stream.
LEMMA NamesMoved ==
  ASSUME NEW t \in Streams, NEW u \in ReadNames(t)
  PROVE  /\ u.job = t.job /\ u.gen = t.gen /\ u.changed = t.changed
         /\ u.pending \cup u.left = t.pending \cup t.left
         /\ (t.eof => t.left = {}) => (u.eof => u.left = {})
  <1>1. CASE t.pending # {} \/ t.eof
    BY <1>1 DEF ReadNames
  <1>2. CASE ~(t.pending # {} \/ t.eof) /\ t.left = {}
    <2>1. u = [t EXCEPT !.eof = TRUE]
      BY <1>2 DEF ReadNames
    <2> QED BY <1>2, <2>1 DEF Streams
  <1>3. CASE ~(t.pending # {} \/ t.eof) /\ t.left # {}
    <2>1. PICK names \in SUBSET t.left : u = [t EXCEPT !.pending = names, !.left = @ \ names]
      BY <1>3 DEF ReadNames
    <2>2. /\ u.job = t.job /\ u.gen = t.gen /\ u.changed = t.changed /\ u.eof = t.eof
          /\ u.pending = names /\ u.left = t.left \ names
      BY <2>1 DEF Streams
    <2> QED BY <1>3, <2>2
  <1> QED BY <1>1, <1>2, <1>3

ListingInv == StreamInv /\ HandlerInv

\* A process without a stream and a batch holds nothing that could be wrong.
LEMMA NothingListed ==
  /\ stream = NoStream /\ handler = NoHandler => ListingInv
  /\ stream' = NoStream /\ handler' = NoHandler => ListingInv'
  BY NothingFields, PathTypes DEF ListingInv, StreamInv, HandlerInv, SeenPaths

\* What a committed batch leaves of the entries.
LEMMA CommitFields ==
  ASSUME TypeInv, HandlerInv, CommitScan
  PROVE  /\ handler.at = "batch" /\ handler.job \in Paths /\ SeenPaths \subseteq Children(handler.job)
         /\ handler' = NoHandler /\ UNCHANGED <<disk, stream, quiet>>
         /\ retire' = StaleProofs
         /\ jobs' = JobsAfter(handler.job) /\ entries' = Upserted(handler.job)
         /\ dirs' = [dirs EXCEPT ![handler.job] =
                       [known |-> TRUE, gen |-> handler.gen, complete |-> handler.complete,
                        fault |-> FALSE]]
         /\ reconcile' = IF handler.complete
                         THEN [reconcile EXCEPT ![handler.job] = [gen |-> handler.gen, cursor |-> 0]]
                         ELSE reconcile
         /\ certified' = [certified EXCEPT ![handler.job] = handler.names]
         /\ \A n \in SeenPaths : \E o \in handler.seen :
               /\ o.path = n
               /\ entries'[n] = [kind |-> o.kind, skip |-> o.skip, gen |-> handler.gen]
               /\ o \in Observed
         /\ \A n \in Paths \ SeenPaths : n # Root \/ handler.job # Root => entries'[n] = entries[n]
         /\ handler.job = Root => entries'[Root] = [kind |-> "dir", skip |-> FALSE, gen |-> handler.gen]
  <1> USE TypeFacts, PathTypes
  <1>1. handler.at = "batch" /\ handler.job \in Paths /\ SeenPaths \subseteq Children(handler.job)
    BY DEF CommitScan, HandlerInv
  <1>2. /\ jobs' = JobsAfter(handler.job) /\ entries' = Upserted(handler.job)
        /\ handler' = NoHandler /\ UNCHANGED <<disk, stream, quiet>>
        /\ retire' = StaleProofs
        /\ dirs' = [dirs EXCEPT ![handler.job] =
                       [known |-> TRUE, gen |-> handler.gen, complete |-> handler.complete,
                        fault |-> FALSE]]
        /\ reconcile' = IF handler.complete
                        THEN [reconcile EXCEPT ![handler.job] = [gen |-> handler.gen, cursor |-> 0]]
                        ELSE reconcile
        /\ certified' = [certified EXCEPT ![handler.job] = handler.names]
    BY DEF CommitScan
  <1>3. \A n : n \in SeenPaths <=> Seen(n)
    BY DEF SeenPaths, Seen
  <1>4. ASSUME NEW n \in SeenPaths
        PROVE  \E o \in handler.seen :
                 /\ o.path = n
                 /\ entries'[n] = [kind |-> o.kind, skip |-> o.skip, gen |-> handler.gen]
                 /\ o \in Observed
    <2>1. Seen(n) /\ n \in Paths
      BY <1>1, <1>3
    <2>2. SeenAt(n) \in handler.seen /\ SeenAt(n).path = n
      BY <2>1 DEF Seen, SeenAt
    <2>3. SeenAt(n) \in Observed
      BY <2>2 DEF Handlers
    <2>4. entries'[n] = [kind |-> SeenAt(n).kind, skip |-> SeenAt(n).skip, gen |-> handler.gen]
      BY <1>2, <2>1 DEF Upserted
    <2> QED BY <2>2, <2>3, <2>4
  <1>5. ASSUME NEW n \in Paths \ SeenPaths, n # Root \/ handler.job # Root
        PROVE  entries'[n] = entries[n]
    BY <1>2, <1>3, <1>5 DEF Upserted
  <1>6. handler.job = Root => entries'[Root] = [kind |-> "dir", skip |-> FALSE, gen |-> handler.gen]
    <2>1. Root \notin SeenPaths
      BY <1>1
    <2> QED BY <1>2, <1>3, <2>1 DEF Upserted
  <1> QED BY <1>1, <1>2, <1>4, <1>5, <1>6

\* A batch adds the names observed to what its listing has committed, and
\* leaves the other listings alone.
LEMMA CommitListed ==
  ASSUME TypeInv, HandlerInv, CommitScan
  PROVE  /\ \A g : {c \in Children(handler.job) : SavedEntry(c)' /\ entries'[c].gen = g} =
                     IF g = handler.gen THEN Listed(handler.job, g) \cup SeenPaths
                     ELSE Listed(handler.job, g) \ SeenPaths
         /\ \A p \in Paths \ {handler.job} : \A g :
               {c \in Children(p) : SavedEntry(c)' /\ entries'[c].gen = g} = Listed(p, g)
  <1> USE PathTypes, CommitFields
  <1>1. ASSUME NEW c \in SeenPaths PROVE SavedEntry(c)' /\ entries'[c].gen = handler.gen
    <2>1. PICK o \in handler.seen : /\ entries'[c] = [kind |-> o.kind, skip |-> o.skip, gen |-> handler.gen]
                                    /\ o \in Observed
      OBVIOUS
    <2> QED BY <2>1 DEF SavedEntry, Observed
  <1>2. ASSUME NEW p \in Paths, NEW c \in Children(p), c \notin SeenPaths
        PROVE  entries'[c] = entries[c]
    BY <1>2
  <1>3. ASSUME NEW p \in Paths \ {handler.job}, NEW c \in Children(p) PROVE c \notin SeenPaths
    OBVIOUS
  <1> QED BY <1>1, <1>2, <1>3 DEF Listed, SavedEntry

\* The stream of a directory that is opened: the retained one, or a new one.
LEMMA OpenedFields ==
  ASSUME TypeInv, StreamInv, NEW p \in Paths, SeenPaths = {}
  PROVE  LET t == OpenedStream(p)
         IN /\ t \in Streams /\ t.job = p /\ t.gen # 0 /\ ~t.changed
            /\ t.pending \cup t.left \subseteq Children(p)
            /\ t.eof => t.left = {}
            /\ Listed(p, t.gen) \cup t.pending \cup t.left = OnDisk(p)
  <1> USE TypeFacts, PathTypes
  <1>1. CASE Kept(p)
    BY <1>1 DEF OpenedStream, Kept, StreamInv
  <1>2. CASE ~Kept(p)
    <2> DEFINE t == [NoStream EXCEPT !.job = p, !.gen = NewGeneration, !.left = OnDisk(p)]
    <2>1. OpenedStream(p) = t
      BY <1>2 DEF OpenedStream
    <2>2. /\ t.job = p /\ t.gen = NewGeneration /\ t.left = OnDisk(p) /\ t.pending = {}
          /\ t.eof = FALSE /\ t.changed = FALSE
      BY DEF NoStream
    <2>3. /\ NewGeneration \in Generations /\ NewGeneration # 0
          /\ \A c \in Paths : entries[c].gen # NewGeneration
      BY FreshGeneration DEF Generations
    <2>4. OnDisk(p) \subseteq Children(p) /\ OnDisk(p) \subseteq Paths
      BY DEF OnDisk
    <2>5. t \in Streams
      BY <2>3, <2>4 DEF Streams, NoStream
    <2>6. Listed(p, NewGeneration) = {}
      BY <2>3 DEF Listed
    <2> HIDE DEF t
    <2> QED BY <2>1, <2>2, <2>3, <2>4, <2>5, <2>6
  <1> QED BY <1>1, <1>2

LEMMA ListingStep ==
  ASSUME TypeInv, ListingInv, [Next]_vars
  PROVE  ListingInv'
  <1> USE TypeFacts
  <1>0. StreamInv /\ HandlerInv
    BY DEF ListingInv
  <1>1. CASE UNCHANGED vars
    BY <1>1 DEF vars, saved, memory, ghosts, ListingInv, StreamInv, HandlerInv, HasJob, Listed,
       SeenPaths, SavedEntry, OnDisk
  <1>2. ASSUME NEW p \in Paths,
               (\E k \in Kinds[p] : Replace(p, k)) \/ Seal(p) \/ RootGone
        PROVE  ListingInv'
    <2>1. ~stream'.changed /\ stream.job # -1 => OnDisk(stream.job)' = OnDisk(stream.job)
      BY <1>2, FolderChanged DEF OnDisk
    <2>2. \A p_1, g : Listed(p_1, g)' = Listed(p_1, g)
      BY <1>2, FolderChanged DEF Listed, SavedEntry
    <2>3. StreamInv'
      BY <1>0, <1>2, <2>1, <2>2, FolderChanged DEF StreamInv, HasJob, SeenPaths
    <2>4. HandlerInv'
      BY <1>0, <1>2, <2>1, <2>2, FolderChanged DEF HandlerInv, SeenPaths
    <2> QED BY <2>3, <2>4 DEF ListingInv
  <1>3. CASE SeedInventory \/ RetireSubtrees
    <2>1. NoJobs /\ handler.at = "idle" /\ UNCHANGED <<stream, handler>>
      BY <1>3, RetireSteps DEF SeedInventory, Drained, memory
    <2>2. stream = NoStream /\ handler = NoHandler
      BY <1>0, <2>1, PathTypes DEF StreamInv, HandlerInv, NoJobs, Streams
    <2> QED BY <2>1, <2>2, NothingListed
  <1>4. ASSUME NEW p \in Paths, EnqueueJob(p) PROVE ListingInv'
    <2>1. \A q \in Paths : HasJob(q) => HasJob(q)'
      BY <1>4 DEF EnqueueJob, HasJob
    <2>2. UNCHANGED <<stream, handler, entries, disk>>
      BY <1>4 DEF EnqueueJob, memory
    <2>3. stream.job # -1 => stream.job \in Paths
      BY DEF Streams
    <2> QED BY <1>0, <2>1, <2>2, <2>3 DEF ListingInv, StreamInv, HandlerInv, Listed, SeenPaths, SavedEntry, OnDisk
  <1>5. ASSUME NEW p \in Paths, ClaimJob(p) PROVE ListingInv'
    <2>1. \A q \in Paths : HasJob(q) => HasJob(q)'
      BY <1>5 DEF ClaimJob, HasJob, JobRows
    <2>2. UNCHANGED <<stream, entries, disk>>
      BY <1>5 DEF ClaimJob
    <2>3. stream.job # -1 => stream.job \in Paths
      BY DEF Streams
    <2>4. handler'.at = "claimed" /\ handler'.job = p /\ handler'.seen = {} /\ handler.seen = {}
      BY <1>0, <1>5, NothingFields DEF ClaimJob, NoHandler, HandlerInv
    <2>5. SeenPaths = {} /\ SeenPaths' = {}
      BY <2>4 DEF SeenPaths
    <2> QED BY <1>0, <2>1, <2>2, <2>3, <2>4, <2>5 DEF ListingInv, StreamInv, HandlerInv, Listed, SavedEntry, OnDisk
  <1>6. CASE CommitFault \/ InterruptListing \/ Crash
    BY <1>0, <1>6, NothingListed DEF CommitFault, InterruptListing, Crash, HandlerInv
  <1>7. CASE OpenDirectory
    <2> DEFINE p == handler.job
               t == OpenedStream(p)
    <2>1. /\ p \in Paths /\ handler.seen = {} /\ handler'.job = p
          /\ UNCHANGED <<disk, entries, jobs>> /\ HasJob(p)
      BY <1>0, <1>7, OpenFields DEF HandlerInv, TypeInv, TypeOK, HasJob
    <2>2. SeenPaths = {}
      BY <2>1 DEF SeenPaths
    <2>3. CASE Openable(p)
      <3>1. handler'.at = "listing" /\ handler'.seen = {} /\ stream' \in ReadNames(t)
        BY <1>7, <2>1, <2>3, OpenFields
      <3>2. /\ t \in Streams /\ t.job = p /\ t.gen # 0 /\ ~t.changed
            /\ t.pending \cup t.left \subseteq Children(p)
            /\ t.eof => t.left = {}
            /\ Listed(p, t.gen) \cup t.pending \cup t.left = OnDisk(p)
        BY <1>0, <2>1, <2>2, OpenedFields
      <3> HIDE DEF t
      <3>3. /\ stream'.job = p /\ stream'.gen # 0 /\ ~stream'.changed
            /\ stream'.pending \cup stream'.left \subseteq Children(p)
            /\ stream'.eof => stream'.left = {}
            /\ Listed(p, stream'.gen) \cup stream'.pending \cup stream'.left = OnDisk(p)
        BY <3>1, <3>2, NamesMoved
      <3>4. SeenPaths' = {}
        BY <3>1 DEF SeenPaths
      <3>5. StreamInv'
        BY <2>1, <3>3, <3>4, PathTypes DEF StreamInv, HasJob, Listed, SavedEntry, OnDisk
      <3>6. HandlerInv'
        BY <2>1, <3>1, <3>3, <3>4, NothingFields DEF HandlerInv
      <3> QED BY <3>5, <3>6 DEF ListingInv
    <2>4. CASE ~Openable(p)
      <3>1. handler'.at = "fault" /\ handler'.seen = {} /\ stream' = NoStream
        BY <1>7, <2>4, OpenFields
      <3> QED BY <2>1, <3>1, NothingFields DEF ListingInv, StreamInv, HandlerInv, SeenPaths
    <2> QED BY <2>3, <2>4
  <1>8. ASSUME NEW n \in Paths, InspectName(n) PROVE ListingInv'
    <2>1. /\ handler.at = "listing" /\ handler'.job = handler.job /\ n \in stream.pending
          /\ UNCHANGED <<disk, entries, jobs>> /\ stream.job = handler.job /\ handler.job \in Paths
      BY <1>0, <1>8, InspectFields DEF HandlerInv
    <2>2. CASE /\ handler'.at = "listing" /\ handler'.seen = handler.seen \cup {Observation(n)}
               /\ stream' = [stream EXCEPT !.pending = @ \ {n}]
      <3>1. /\ stream'.job = stream.job /\ stream'.gen = stream.gen /\ stream'.left = stream.left
            /\ stream'.pending = stream.pending \ {n} /\ stream'.eof = stream.eof
            /\ stream'.changed = stream.changed
        BY <2>2 DEF Streams
      <3>2. SeenPaths' = SeenPaths \cup {n}
        <4>1. Observation(n).path = n
          BY DEF Observation
        <4> QED BY <2>2, <4>1 DEF SeenPaths
      <3>3. n \in Children(handler.job)
        BY <1>0, <2>1, PathTypes DEF StreamInv
      <3>4. StreamInv'
        BY <1>0, <2>1, <3>1, <3>2, PathTypes DEF StreamInv, HasJob, Listed, SavedEntry, OnDisk
      <3>5. HandlerInv'
        BY <1>0, <2>1, <2>2, <3>1, <3>2, <3>3 DEF HandlerInv
      <3> QED BY <3>4, <3>5 DEF ListingInv
    <2>3. CASE handler'.at = "fault" /\ handler'.seen = {} /\ stream' = NoStream
      BY <2>1, <2>3, NothingFields DEF ListingInv, StreamInv, HandlerInv, SeenPaths
    <2> QED BY <1>8, <2>2, <2>3, InspectFields
  <1>9. CASE ValidateListing
    <2>1. /\ handler.at = "listing" /\ handler'.job = handler.job
          /\ UNCHANGED <<disk, entries, jobs>> /\ stream.job = handler.job /\ handler.job \in Paths
      BY <1>0, <1>9, ValidateFields DEF HandlerInv
    <2>2. CASE /\ Openable(handler.job) /\ ~stream.changed
               /\ handler'.at = "batch" /\ handler'.seen = handler.seen
               /\ handler'.complete = (stream.eof /\ stream.pending = {})
               /\ handler'.gen = stream.gen /\ handler'.names = OnDisk(handler.job)
               /\ stream' = IF stream.eof /\ stream.pending = {} THEN NoStream ELSE stream
      <3>1. /\ stream.gen # 0 /\ (stream.eof => stream.left = {})
            /\ Listed(handler.job, stream.gen) \cup SeenPaths \cup stream.pending \cup stream.left
                 = OnDisk(handler.job)
        BY <1>0, <2>1, <2>2, PathTypes DEF StreamInv
      <3>2. SeenPaths' = SeenPaths
        BY <2>2 DEF SeenPaths
      <3>3. StreamInv'
        BY <1>0, <2>1, <2>2, <3>2, NothingFields DEF StreamInv, HasJob, Listed, SavedEntry, OnDisk
      <3>4. HandlerInv'
        BY <1>0, <2>1, <2>2, <3>1, <3>2 DEF HandlerInv, Listed, SavedEntry
      <3> QED BY <3>3, <3>4 DEF ListingInv
    <2>3. CASE handler'.at = "fault" /\ handler'.seen = {} /\ stream' = NoStream
      BY <2>1, <2>3, NothingFields DEF ListingInv, StreamInv, HandlerInv, SeenPaths
    <2> QED BY <1>9, <2>2, <2>3, ValidateFields
  <1>10. CASE CommitScan
    <2> DEFINE p == handler.job
    <2>1. /\ p \in Paths /\ handler.at = "batch" /\ handler' = NoHandler
          /\ UNCHANGED <<disk, stream>> /\ jobs' = JobsAfter(p)
      BY <1>0, <1>10, CommitFields
    <2>2. CASE stream = NoStream
      BY <2>1, <2>2, NothingListed
    <2>3. CASE stream # NoStream
      <3>1. stream.job = p /\ stream.gen = handler.gen /\ ~handler.complete /\ p # -1
        BY <1>0, <2>1, <2>3, PathTypes DEF HandlerInv
      <3>2. jobs'[p].status # "none"
        BY <2>1, <3>1 DEF JobsAfter
      <3>3. SeenPaths' = {}
        BY <2>1, NothingFields DEF SeenPaths
      <3>4. {c \in Children(p) : SavedEntry(c)' /\ entries'[c].gen = stream.gen} =
              Listed(p, stream.gen) \cup SeenPaths
        BY <1>0, <1>10, <3>1, CommitListed
      <3>5. Listed(stream.job, stream.gen)' = Listed(stream.job, stream.gen) \cup SeenPaths
        BY <2>1, <3>1, <3>4 DEF Listed
      <3>7. OnDisk(stream.job)' = OnDisk(stream.job) /\ HasJob(stream.job)'
        BY <2>1, <3>1, <3>2 DEF OnDisk, HasJob
      <3>8. StreamInv'
        BY <1>0, <2>1, <3>1, <3>3, <3>5, <3>7 DEF StreamInv
      <3>6. HandlerInv'
        BY <2>1, <3>3, NothingFields DEF HandlerInv
      <3> QED BY <3>6, <3>8 DEF ListingInv
    <2> QED BY <2>2, <2>3
  <1> QED BY <1>1, <1>2, <1>3, <1>4, <1>5, <1>6, <1>7, <1>8, <1>9, <1>10, NextCases

-----------------------------------------------------------------------------
(* The rows of the saved tables.                                            *)

\* Only a commit and maintenance change saved rows.
LEMMA RowsKept ==
  ASSUME TypeInv, [Next]_vars, ~CommitFault, ~CommitScan, ~RetireSubtrees
  PROVE  /\ UNCHANGED <<entries, dirs, reconcile, retire, certified>>
         /\ \A q \in Paths : /\ HasJob(q) => jobs'[q].status # "none"
                             /\ jobs'[q].status # "none" => HasJob(q) \/ q = Root \/ SavedEntry(q)
  <1> USE TypeFacts, PathTypes DEF HasJob, saved, ghosts
  <1>1. CASE UNCHANGED vars
    BY <1>1 DEF vars
  <1>2. ASSUME NEW p \in Paths, (\E k \in Kinds[p] : Replace(p, k)) \/ Seal(p) \/ RootGone
        PROVE  UNCHANGED <<entries, dirs, jobs, reconcile, retire, certified>>
    BY <1>2, FolderChanged
  <1>3. CASE SeedInventory
    BY <1>3 DEF SeedInventory
  <1>4. ASSUME NEW p \in Paths, EnqueueJob(p)
        PROVE  /\ UNCHANGED <<entries, dirs, reconcile, retire, certified>>
               /\ \A q \in Paths : /\ HasJob(q) => jobs'[q].status # "none"
                                   /\ jobs'[q].status # "none" => HasJob(q) \/ SavedEntry(q)
    BY <1>4 DEF EnqueueJob, SavedEntry
  <1>5. ASSUME NEW p \in Paths, ClaimJob(p)
        PROVE  /\ UNCHANGED <<entries, dirs, reconcile, retire, certified>>
               /\ \A q \in Paths : HasJob(q) <=> jobs'[q].status # "none"
    BY <1>5 DEF ClaimJob, Claimable, JobRows
  <1>6. CASE InterruptListing
    <2>1. handler.at # "idle"
      BY <1>6 DEF InterruptListing
    <2>2. \A q \in Paths : q # handler.job => jobs'[q] = jobs[q]
      BY <1>6 DEF InterruptListing
    <2>3. \A q \in Paths : q = handler.job => jobs[q].status = "running"
      BY <2>1 DEF TypeInv, TypeOK
    <2>4. \A q \in Paths : q = handler.job => jobs'[q].status = "pending"
      <3>1. PICK f \in BOOLEAN :
               jobs' = [jobs EXCEPT ![handler.job] = [status |-> "pending", first |-> f]]
        BY <1>6 DEF InterruptListing
      <3> QED BY <3>1
    <2> QED BY <1>6, <2>2, <2>3, <2>4 DEF InterruptListing
  <1>7. CASE Crash
    <2>1. \A q \in Paths : [jobs[q] EXCEPT !.status = "pending"].status = "pending"
      BY DEF JobRows
    <2>2. \A q \in Paths : HasJob(q) <=> jobs'[q].status # "none"
      BY <1>7, <2>1, NothingFields DEF Crash
    <2> QED BY <1>7, <2>2 DEF Crash
  <1>8. CASE OpenDirectory \/ ValidateListing \/ \E p \in Paths : InspectName(p)
    BY <1>8, OpenFields, ValidateFields, InspectFields
  <1> QED BY <1>1, <1>2, <1>3, <1>4, <1>5, <1>6, <1>7, <1>8, NextCases

LEMMA StaleFields ==
  ASSUME TypeInv, retire' = StaleProofs
  PROVE  \A q \in Paths : retire'[q].phase = retire[q].phase /\ ~retire'[q].current
                          /\ retire'[q].preserve = retire[q].preserve
  BY TypeFacts DEF StaleProofs, RetireRows

\* The job of a batch is for the root or for a saved directory.
LEMMA JobAnchored ==
  ASSUME TypeInv, AnchorInv, handler.at # "idle", handler.job \in Paths
  PROVE  /\ HasJob(handler.job)
         /\ handler.job # Root => SavedEntry(handler.job) /\ SavedEntry(Parent[handler.job])
  BY PathTypes DEF TypeInv, TypeOK, HasJob, AnchorInv

LEMMA FaultFields ==
  ASSUME TypeInv, CommitFault, handler.job \in Paths
  PROVE  /\ handler.at = "fault" /\ handler' = NoHandler /\ retire' = StaleProofs
         /\ UNCHANGED <<disk, entries, reconcile, stream, certified, quiet, disturbances>>
         /\ \A q \in Paths : q # handler.job => dirs'[q] = dirs[q] /\ jobs'[q] = jobs[q]
         /\ dirs'[handler.job].known /\ dirs'[handler.job].fault
         /\ dirs'[handler.job].gen = dirs[handler.job].gen
         /\ dirs'[handler.job].complete = dirs[handler.job].complete
         /\ jobs'[handler.job].status = "pending"
  BY TypeFacts DEF CommitFault, ghosts, DirRows

\* Everything below an unsaved path is unsaved.
LEMMA AnchorChain ==
  ASSUME AnchorInv, NEW q \in Paths, NEW p \in Below[q], SavedEntry(p)
  PROVE  SavedEntry(q)
  <1> DEFINE S == {x \in Paths : ~SavedEntry(x)}
  <1>1. SUFFICES ASSUME ~SavedEntry(q) PROVE FALSE
    OBVIOUS
  <1>2. \A c \in 1..LastPath : Parent[c] = q \/ Parent[c] \in S => c \in S
    BY <1>1, PathTypes DEF AnchorInv
  <1>3. ClosedBelow(q, S) /\ S \in SUBSET Paths
    BY <1>2, PathTypes DEF ClosedBelow, Children
  <1> QED BY <1>3, BelowLeast

\* A purge takes no anchor away from a row that stays.
LEMMA PurgedAnchors ==
  ASSUME TypeInv, AnchorInv, PurgeInv, NEW q \in Paths, Retiring(q), retire[q].current,
         PurgeEntries(q)
  PROVE  LET gone == PurgedRows(q, "entries")
         IN /\ \A x \in gone : x \in Paths /\ x # Root /\ ~dirs[x].known /\ ~Reconciling(x)
            /\ \A p \in Paths \ {Root} : SavedEntry(p) /\ p \notin gone => Parent[p] \notin gone
  <1> DEFINE gone == PurgedRows(q, "entries")
  <1> USE PathTypes
  <1>1. /\ gone \subseteq Below[q] \cup {q}
        /\ q \in gone => \A x \in Below[q] : ~HasRow("entries", x)
        /\ \A x, y \in Below[q] : x \in gone /\ x < y /\ HasRow("entries", y) => y \in gone
    BY PurgedTable
  <1> HIDE DEF gone
  <1>2. \A x : HasRow("entries", x) <=> SavedEntry(x)
    BY DEF HasRow
  <1>3. q # Root /\ \A x \in Below[q] : x \in Paths /\ x # Root
    BY BelowLarger DEF PurgeInv
  <1>4. retire[q].phase = 2
    BY DEF PurgeEntries
  <1>5. \A x \in Below[q] \cup {q} : ~dirs[x].known /\ ~Reconciling(x)
    BY <1>4 DEF PurgeInv
  <1>6. ASSUME NEW p \in Paths \ {Root}, SavedEntry(p), p \notin gone, Parent[p] \in gone PROVE FALSE
    <2>1. p \in Below[q]
      BY <1>1, <1>6, BelowClosed
    <2>2. CASE Parent[p] = q
      BY <1>1, <1>2, <1>6, <2>1, <2>2
    <2>3. CASE Parent[p] \in Below[q]
      BY <1>1, <1>2, <1>6, <2>1, <2>3
    <2> QED BY <1>1, <1>6, <2>2, <2>3
  <1>7. \A x \in gone : x \in Paths /\ x # Root /\ ~dirs[x].known /\ ~Reconciling(x)
    BY <1>1, <1>3, <1>5
  <1> QED BY <1>6, <1>7 DEF gone

\* What a maintenance step does to the rows of one path.
LEMMA ClearedRow ==
  ASSUME NEW rows, NEW none, NEW gone, NEW x \in Paths
  PROVE  Cleared(rows, none, gone)[x] = IF x \in gone THEN none ELSE rows[x]
  BY DEF Cleared

LEMMA AnchorStep ==
  ASSUME TypeInv, ListingInv, AnchorInv, PurgeInv, [Next]_vars
  PROVE  AnchorInv'
  <1> USE PathTypes
  <1>0. HandlerInv
    BY DEF ListingInv
  <1>1. CASE ~CommitFault /\ ~CommitScan /\ ~RetireSubtrees
    <2>1. UNCHANGED <<entries, dirs, reconcile>>
          /\ \A q \in Paths : jobs'[q].status # "none" => HasJob(q) \/ q = Root \/ SavedEntry(q)
      BY <1>1, RowsKept
    <2> QED BY <2>1 DEF AnchorInv, SavedEntry, Reconciling, HasJob
  <1>2. CASE CommitFault
    <2> DEFINE j == handler.job
    <2>1. j \in Paths /\ handler.at # "idle"
      BY <1>0, <1>2 DEF HandlerInv, CommitFault
    <2>2. HasJob(j) /\ (j # Root => SavedEntry(j) /\ SavedEntry(Parent[j]))
      BY <2>1, JobAnchored
    <2>3. /\ UNCHANGED <<entries, reconcile>>
          /\ \A q \in Paths : /\ q # j => dirs'[q] = dirs[q] /\ jobs'[q] = jobs[q]
                              /\ dirs'[q].gen = dirs[q].gen /\ dirs'[q].complete = dirs[q].complete
                              /\ dirs[q].known => dirs'[q].known
      BY <1>2, <2>1, FaultFields
    <2> HIDE DEF j
    <2> QED BY <2>1, <2>2, <2>3 DEF AnchorInv, SavedEntry, Reconciling, HasJob
  <1>3. CASE CommitScan
    <2> DEFINE j == handler.job
    <2>1. j \in Paths /\ handler.at = "batch" /\ SeenPaths \subseteq Children(j)
      BY <1>0, <1>3, CommitFields
    <2>2. HasJob(j) /\ (j # Root => SavedEntry(j) /\ SavedEntry(Parent[j]))
      BY <2>1, JobAnchored
    <2>3. /\ \A n \in SeenPaths : entries'[n].kind # "absent" /\ entries'[n].gen = handler.gen
          /\ \A n \in Paths \ SeenPaths : n # Root \/ j # Root => entries'[n] = entries[n]
          /\ j = Root => entries'[Root].kind = "dir"
      <3>1. ASSUME NEW n \in SeenPaths
            PROVE  entries'[n].kind # "absent" /\ entries'[n].gen = handler.gen
        <4>1. PICK o \in Observed :
                 entries'[n] = [kind |-> o.kind, skip |-> o.skip, gen |-> handler.gen]
          BY <1>0, <1>3, CommitFields
        <4> QED BY <4>1 DEF Observed
      <3> QED BY <1>0, <1>3, <3>1, CommitFields
    <2>4. \A n \in Paths : SavedEntry(n) => entries'[n].kind # "absent"
      BY <2>1, <2>3 DEF SavedEntry
    <2>5. entries'[j].kind # "absent" /\ \A n \in SeenPaths : n # Root /\ Parent[n] = j
      BY <2>1, <2>2, <2>3, <2>4
    <2>6. /\ \A q \in Paths : q # j => dirs'[q] = dirs[q] /\ reconcile'[q] = reconcile[q]
          /\ dirs'[j].complete = handler.complete /\ dirs'[j].known /\ dirs'[j].gen = handler.gen
          /\ handler.gen # 0
      BY <1>0, <1>3, <2>1, TypeFacts, CommitFields DEF HandlerInv
    <2>7. \A q \in Paths : jobs'[q].status # "none" => HasJob(q) \/ q = j \/ q \in SeenPaths
      <3>1. \A q \in Paths : jobs'[q] = JobsAfter(j)[q]
        BY <1>0, <1>3, CommitFields
      <3>2. \A q : Seen(q) => q \in SeenPaths
        BY DEF Seen, SeenPaths
      <3> QED BY <3>1, <3>2 DEF JobsAfter, HasJob
    <2>8. \A p \in Paths \ {Root} :
             (entries'[p].kind # "absent" \/ dirs'[p].known \/ reconcile'[p].gen # 0) =>
                entries'[p].kind # "absent" /\ entries'[Parent[p]].kind # "absent"
      <3> SUFFICES ASSUME NEW p \in Paths \ {Root},
                          entries'[p].kind # "absent" \/ dirs'[p].known \/ reconcile'[p].gen # 0
                   PROVE  entries'[p].kind # "absent" /\ entries'[Parent[p]].kind # "absent"
        OBVIOUS
      <3>1. CASE p \in SeenPaths
        BY <2>3, <2>5, <3>1
      <3>2. CASE p = j
        BY <2>2, <2>4, <2>5, <3>2
      <3>3. CASE p \notin SeenPaths /\ p # j
        <4>1. SavedEntry(p) \/ dirs[p].known \/ Reconciling(p)
          BY <2>3, <2>6, <3>3 DEF SavedEntry, Reconciling
        <4>2. SavedEntry(p) /\ SavedEntry(Parent[p])
          BY <4>1 DEF AnchorInv
        <4> QED BY <2>4, <4>2
      <3> QED BY <3>1, <3>2, <3>3
    <2>9. \A p \in Paths \ {Root} : jobs'[p].status # "none" => entries'[p].kind # "absent"
      BY <2>3, <2>4, <2>5, <2>7 DEF AnchorInv
    <2>10. entries'[Root].kind \in {"absent", "dir"} /\ (dirs'[Root].complete => entries'[Root].kind # "absent")
      <3>1. Root \notin SeenPaths
        BY <2>5
      <3>2. CASE j = Root
        BY <2>3, <3>2
      <3>3. CASE j # Root
        BY <2>3, <2>6, <3>1, <3>3 DEF AnchorInv, SavedEntry
      <3> QED BY <3>2, <3>3
    <2>11. \A p \in Paths : dirs'[p].complete => dirs'[p].known /\ dirs'[p].gen # 0
      BY <2>6 DEF AnchorInv
    <2> HIDE DEF j
    <2> QED BY <2>8, <2>9, <2>10, <2>11 DEF AnchorInv, SavedEntry, Reconciling, HasJob
  <1>4. CASE RetireSubtrees
    <2>0. NoJobs /\ UNCHANGED jobs
      BY <1>4, RetireSteps
    <2>1. ASSUME NEW q \in Paths, Retiring(q), DropStaleProof(q) PROVE AnchorInv'
      BY <2>0, <2>1 DEF DropStaleProof, AnchorInv, SavedEntry, Reconciling, HasJob
    <2>2. ASSUME NEW q \in Paths, Retiring(q), PurgeSubtree(q) PROVE AnchorInv'
      <3>0. retire[q].current
        BY <2>2, PurgeSteps
      <3>1. CASE PurgeDirectories(q)
        <4> DEFINE gone == PurgedRows(q, "directories")
        <4>2. dirs' = Cleared(dirs, NoDir, gone) /\ UNCHANGED <<entries, reconcile>>
          BY <3>1 DEF PurgeDirectories
        <4> HIDE DEF gone
        <4>1. /\ UNCHANGED <<entries, reconcile>>
              /\ \A x \in Paths : dirs'[x] \in {NoDir, dirs[x]}
          BY <4>2, ClearedRow
        <4> QED BY <2>0, <4>1, NothingFields DEF AnchorInv, SavedEntry, Reconciling, HasJob
      <3>2. CASE PurgeReconcile(q)
        <4> DEFINE gone == PurgedRows(q, "subtree_reconcile")
        <4>2. reconcile' = Cleared(reconcile, NoReconcile, gone) /\ UNCHANGED <<entries, dirs>>
          BY <3>2 DEF PurgeReconcile
        <4> HIDE DEF gone
        <4>1. /\ UNCHANGED <<entries, dirs>>
              /\ \A x \in Paths : reconcile'[x] \in {NoReconcile, reconcile[x]}
          BY <4>2, ClearedRow
        <4> QED BY <2>0, <4>1, NothingFields DEF AnchorInv, SavedEntry, Reconciling, HasJob
      <3>3. CASE PurgeEntries(q)
        <4> DEFINE gone == PurgedRows(q, "entries")
        <4>1. /\ \A x \in gone : x \in Paths /\ x # Root /\ ~dirs[x].known /\ ~Reconciling(x)
              /\ \A p \in Paths \ {Root} : SavedEntry(p) /\ p \notin gone => Parent[p] \notin gone
          BY <2>2, <3>0, <3>3, PurgedAnchors
        <4>2. /\ UNCHANGED <<dirs, reconcile>>
              /\ \A x \in Paths : entries'[x] = IF x \in gone THEN NoEntry ELSE entries[x]
          BY <3>3, ClearedRow DEF PurgeEntries
        <4> HIDE DEF gone
        <4>3. \A p \in Paths : ~HasJob(p) /\ jobs'[p].status = "none"
          BY <2>0 DEF NoJobs, HasJob
        <4>4. entries'[Root] = entries[Root]
          BY <4>1, <4>2
        <4>5. ASSUME NEW p \in Paths \ {Root},
                     entries'[p].kind # "absent" \/ dirs'[p].known \/ reconcile'[p].gen # 0
              PROVE  entries'[p].kind # "absent" /\ entries'[Parent[p]].kind # "absent"
          <5>1. p \notin gone
            BY <4>1, <4>2, <4>5, NothingFields DEF Reconciling
          <5>2. SavedEntry(p) /\ SavedEntry(Parent[p])
            BY <4>2, <4>5, <5>1 DEF AnchorInv, SavedEntry, Reconciling
          <5>3. Parent[p] \notin gone
            BY <4>1, <5>1, <5>2
          <5> QED BY <4>2, <5>1, <5>2, <5>3 DEF SavedEntry
        <4> QED BY <4>2, <4>3, <4>4, <4>5 DEF AnchorInv, SavedEntry, Reconciling, HasJob
      <3>4. CASE PurgeRetirement(q) \/ PurgeEnds(q)
        <4>1. UNCHANGED <<entries, dirs, reconcile>>
          BY <3>4 DEF PurgeRetirement, PurgeEnds
        <4> QED BY <2>0, <4>1 DEF AnchorInv, SavedEntry, Reconciling, HasJob
      <3> QED BY <2>2, <3>1, <3>2, <3>3, <3>4, PurgeSteps
    <2>3. ASSUME NEW p \in Paths, ReconcileSubtree(p) PROVE AnchorInv'
      <3>1. UNCHANGED <<entries, dirs>>
        BY <2>3, ReconcileSteps DEF ReconcileEnds, ReconcileBatch
      <3>2. \A x \in Paths : reconcile'[x].gen \in {0, reconcile[x].gen}
        <4>1. CASE ReconcileEnds(p)
          BY <4>1, TypeFacts, NothingFields DEF ReconcileEnds
        <4>2. CASE ReconcileBatch(p)
          BY <4>2, TypeFacts DEF ReconcileBatch, ReconcileRows
        <4> QED BY <2>3, <4>1, <4>2, ReconcileSteps
      <3> QED BY <2>0, <3>1, <3>2 DEF AnchorInv, SavedEntry, Reconciling, HasJob
    <2> QED BY <1>4, <2>1, <2>2, <2>3, RetireSteps
  <1> QED BY <1>1, <1>2, <1>3, <1>4

\* A listing marked complete stays what was on disk when it was validated.
LEMMA CompleteStep ==
  ASSUME TypeInv, ListingInv, AnchorInv, PurgeInv, CompleteListingExact, [Next]_vars
  PROVE  CompleteListingExact'
  <1> USE PathTypes
  <1>0. HandlerInv /\ \A p \in Paths : dirs[p].complete => Listed(p, dirs[p].gen) = certified[p]
    BY DEF ListingInv, CompleteListingExact, Listed
  <1>1. CASE ~CommitFault /\ ~CommitScan /\ ~RetireSubtrees
    <2>1. UNCHANGED <<entries, dirs, certified>>
      BY <1>1, RowsKept
    <2> QED BY <2>1 DEF CompleteListingExact, SavedEntry
  <1>2. CASE CommitFault
    <2>1. handler.job \in Paths
      BY <1>0, <1>2 DEF HandlerInv, CommitFault
    <2>2. /\ UNCHANGED <<entries, certified>>
          /\ \A q \in Paths : dirs'[q].gen = dirs[q].gen /\ dirs'[q].complete = dirs[q].complete
      BY <1>2, <2>1, FaultFields
    <2> QED BY <2>2 DEF CompleteListingExact, SavedEntry
  <1>3. CASE CommitScan
    <2> DEFINE j == handler.job
    <2>1. j \in Paths /\ handler.at = "batch"
      BY <1>0, <1>3, CommitFields
    <2>2. /\ \A q \in Paths : q # j => dirs'[q] = dirs[q] /\ certified'[q] = certified[q]
          /\ dirs'[j].complete = handler.complete /\ dirs'[j].gen = handler.gen
          /\ certified'[j] = handler.names
      <3>1. certified \in [Paths -> SUBSET Paths]
        BY DEF TypeInv
      <3> QED BY <1>0, <1>3, <2>1, <3>1, TypeFacts, CommitFields
    <2>3. handler.complete => Listed(j, handler.gen) \cup SeenPaths = handler.names
      BY <1>0, <2>1 DEF HandlerInv
    <2>4. {c \in Children(j) : SavedEntry(c)' /\ entries'[c].gen = handler.gen} =
            Listed(j, handler.gen) \cup SeenPaths
      BY <1>0, <1>3, CommitListed
    <2>5. \A p \in Paths \ {j} : \A g :
             {c \in Children(p) : SavedEntry(c)' /\ entries'[c].gen = g} = Listed(p, g)
      BY <1>0, <1>3, CommitListed
    <2> HIDE DEF j
    <2> SUFFICES ASSUME NEW p \in Paths, dirs'[p].complete
                 PROVE  {c \in Children(p) : SavedEntry(c)' /\ entries'[c].gen = dirs'[p].gen}
                          = certified'[p]
      BY DEF CompleteListingExact
    <2>6. CASE p = j
      BY <2>2, <2>3, <2>4, <2>6
    <2>7. CASE p # j
      BY <1>0, <2>2, <2>5, <2>7
    <2> QED BY <2>6, <2>7
  <1>4. CASE RetireSubtrees
    <2>0. UNCHANGED certified
      BY <1>4, RetireSteps
    <2>1. ASSUME UNCHANGED <<entries, dirs>> PROVE CompleteListingExact'
      BY <2>0, <2>1 DEF CompleteListingExact, SavedEntry
    <2>2. ASSUME NEW q \in Paths, Retiring(q), PurgeSubtree(q) PROVE CompleteListingExact'
      <3>0. retire[q].current
        BY <2>2, PurgeSteps
      <3>1. CASE PurgeDirectories(q)
        <4> DEFINE gone == PurgedRows(q, "directories")
        <4>1. dirs' = Cleared(dirs, NoDir, gone) /\ UNCHANGED entries
          BY <3>1 DEF PurgeDirectories
        <4> HIDE DEF gone
        <4>2. \A x \in Paths : dirs'[x] \in {NoDir, dirs[x]}
          BY <4>1, ClearedRow
        <4>3. \A x \in Paths : dirs'[x].complete => dirs'[x] = dirs[x]
          BY <4>2, NothingFields
        <4> QED BY <2>0, <4>1, <4>3 DEF CompleteListingExact, SavedEntry
      <3>2. CASE PurgeEntries(q)
        <4> DEFINE gone == PurgedRows(q, "entries")
        <4>0. /\ UNCHANGED dirs /\ retire[q].phase = 2
              /\ entries' = Cleared(entries, NoEntry, gone)
          BY <3>2 DEF PurgeEntries
        <4>2. /\ gone \subseteq Below[q] \cup {q}
              /\ q \in gone => SavedEntry(q) /\ ~retire[q].preserve
          BY PurgedTable DEF HasRow
        <4> HIDE DEF gone
        <4>1. /\ UNCHANGED dirs /\ retire[q].phase = 2
              /\ \A x \in Paths : entries'[x] = IF x \in gone THEN NoEntry ELSE entries[x]
          BY <4>0, ClearedRow
        <4>3. \A x \in Below[q] \cup {q} : ~dirs[x].known
          BY <2>2, <3>0, <4>1 DEF PurgeInv, Retiring
        <4>4. ASSUME NEW p \in Paths, dirs[p].complete, NEW c \in Children(p), c \in gone
              PROVE  entries[c].gen # dirs[p].gen
          <5>1. CASE c = q
            BY <2>2, <3>0, <4>2, <4>4, <5>1 DEF PurgeInv, Retiring
          <5>2. CASE c \in Below[q]
            <6>1. p = q \/ p \in Below[q]
              BY <4>4, <5>2, BelowParent
            <6> QED BY <4>3, <4>4, <6>1 DEF AnchorInv
          <5> QED BY <4>2, <4>4, <5>1, <5>2
        <4>5. ASSUME NEW p \in Paths, dirs[p].complete
              PROVE  {c \in Children(p) : entries'[c].kind # "absent" /\ entries'[c].gen = dirs[p].gen}
                       = Listed(p, dirs[p].gen)
          <5>1. \A c \in Children(p) : c \in Paths
            OBVIOUS
          <5> QED BY <4>1, <4>4, <4>5, <5>1, NothingFields DEF Listed, SavedEntry
        <4> QED BY <1>0, <2>0, <4>1, <4>5 DEF CompleteListingExact, SavedEntry
      <3> QED BY <2>1, <2>2, <3>1, <3>2, PurgeSteps DEF PurgeReconcile, PurgeRetirement, PurgeEnds
    <2>3. ASSUME NEW p \in Paths, ReconcileSubtree(p) PROVE UNCHANGED <<entries, dirs>>
      BY <2>3, ReconcileSteps DEF ReconcileEnds, ReconcileBatch
    <2> QED BY <1>4, <2>1, <2>2, <2>3, RetireSteps DEF DropStaleProof
  <1> QED BY <1>1, <1>2, <1>3, <1>4

-----------------------------------------------------------------------------
(* The proofs that maintenance acts on.                                     *)

\* What a purge of the subtree at q may rely on.
Proved(q) ==
  retire[q].phase # -1 /\ retire[q].current =>
     /\ retire[q].phase >= 1 => \A x \in Below[q] \cup {q} : ~dirs[x].known
     /\ retire[q].phase >= 2 => \A x \in Below[q] \cup {q} : ~Reconciling(x)
     /\ retire[q].phase >= 3 => /\ \A x \in Below[q] : ~SavedEntry(x)
                                /\ retire[q].preserve \/ ~SavedEntry(q)
     /\ SavedEntry(q) =>
          /\ dirs[Parent[q]].complete /\ ~dirs[Parent[q]].fault
          /\ IF retire[q].preserve THEN entries[q].kind # "dir"
             ELSE entries[q].gen # dirs[Parent[q]].gen
Siblings ==
  \A q, r \in Paths : Retiring(q) /\ Retiring(r) =>
     q # Root /\ r # Root /\ Parent[q] = Parent[r]

LEMMA PurgeParts == PurgeInv <=> Siblings /\ \A q \in Paths : Proved(q)
  BY DEF PurgeInv, Siblings, Proved

LEMMA PurgePartsNext == PurgeInv' <=> Siblings' /\ \A q \in Paths : Proved(q)'
  BY DEF PurgeInv, Siblings, Proved

\* Removing rows takes nothing away from a proof whose parent listing stays.
LEMMA ProofKept ==
  ASSUME TypeInv, NEW r \in Paths, Proved(r), r # Root,
         \A x \in Paths : dirs'[x] \in {NoDir, dirs[x]} /\ reconcile'[x] \in {NoReconcile, reconcile[x]}
                          /\ entries'[x] \in {NoEntry, entries[x]},
         dirs'[Parent[r]] = dirs[Parent[r]],
         retire'[r] = retire[r]
  PROVE  Proved(r)'
  <1> USE PathTypes, BelowClosed
  <1>1. \A x \in Below[r] \cup {r} : x \in Paths
    OBVIOUS
  <1>2. \A x \in Paths : /\ ~dirs[x].known => ~dirs'[x].known
                         /\ reconcile[x].gen = 0 => reconcile'[x].gen = 0
                         /\ entries[x].kind = "absent" => entries'[x].kind = "absent"
                         /\ entries'[x].kind # "absent" => entries'[x] = entries[x]
    BY NothingFields
  <1> QED BY <1>1, <1>2 DEF Proved, Reconciling, SavedEntry

LEMMA PurgeStep ==
  ASSUME TypeInv, ListingInv, AnchorInv, PurgeInv, [Next]_vars
  PROVE  PurgeInv'
  <1> USE PathTypes
  <1>0. HandlerInv /\ Siblings /\ \A q \in Paths : Proved(q)
    BY PurgeParts DEF ListingInv
  <1>1. CASE ~CommitFault /\ ~CommitScan /\ ~RetireSubtrees
    <2>1. UNCHANGED <<entries, dirs, reconcile, retire>>
      BY <1>1, RowsKept
    <2> QED BY <2>1 DEF PurgeInv, SavedEntry, Reconciling, Retiring
  <1>2. CASE CommitFault \/ CommitScan
    <2>1. retire' = StaleProofs
      BY <1>2 DEF CommitFault, CommitScan
    <2>2. \A q \in Paths : retire'[q].phase = retire[q].phase /\ ~retire'[q].current
      BY <2>1, StaleFields
    <2>3. Siblings'
      BY <1>0, <2>2 DEF Siblings, Retiring
    <2>4. \A q \in Paths : Proved(q)'
      BY <2>2 DEF Proved
    <2> QED BY <2>3, <2>4, PurgePartsNext
  <1>3. CASE RetireSubtrees
    <2>1. ASSUME NEW q \in Paths, Retiring(q), DropStaleProof(q) PROVE PurgeInv'
      <3>1. UNCHANGED <<entries, dirs, reconcile>> /\ \A r \in Paths : retire'[r] \in {NoRetire, retire[r]}
        BY <2>1, TypeFacts DEF DropStaleProof
      <3>2. Siblings'
        BY <1>0, <3>1, NothingFields DEF Siblings, Retiring
      <3>3. \A r \in Paths : Proved(r)'
        BY <1>0, <3>1, NothingFields DEF Proved, SavedEntry, Reconciling
      <3> QED BY <3>2, <3>3, PurgePartsNext
    <2>2. ASSUME NEW q \in Paths, Retiring(q), PurgeSubtree(q) PROVE PurgeInv'
      <3>0. retire[q].current /\ retire[q].phase # -1 /\ q # Root /\ Proved(q)
            /\ Parent[q] \in Paths /\ Parent[q] # q /\ Parent[q] \notin Below[q]
        <4>1. q # Root /\ Parent[q] < q /\ q \in Nat /\ Parent[q] \in Nat
          BY <1>0, <2>2 DEF Siblings
        <4>2. \A x \in Below[q] : q < x /\ x \in Nat
          BY BelowLarger
        <4> QED BY <1>0, <2>2, <4>1, <4>2, PurgeSteps DEF Retiring
      <3>1. \A r \in Paths : Retiring(r) => r # Root /\ Parent[r] = Parent[q]
        BY <1>0, <2>2 DEF Siblings
      <3>2. \A x \in Below[q] \cup {q} : x \in Paths
        BY BelowClosed
      <3>3. ASSUME retire' = Advanced(q) PROVE
               /\ retire'[q].phase = retire[q].phase + 1 /\ retire'[q].current = retire[q].current
               /\ retire'[q].preserve = retire[q].preserve
               /\ \A r \in Paths : r # q => retire'[r] = retire[r]
        BY <3>3, TypeFacts DEF Advanced, RetireRows
      <3>4. retire[q].phase \in 0..4
        BY <3>0, TypeFacts DEF RetireRows
      <3>5. ASSUME NEW gone, gone \subseteq Below[q] \cup {q},
                   \/ dirs' = Cleared(dirs, NoDir, gone) /\ UNCHANGED <<entries, reconcile>>
                   \/ reconcile' = Cleared(reconcile, NoReconcile, gone) /\ UNCHANGED <<entries, dirs>>
                   \/ entries' = Cleared(entries, NoEntry, gone) /\ UNCHANGED <<dirs, reconcile>>
            PROVE  /\ \A x \in Paths : dirs'[x] \in {NoDir, dirs[x]}
                                       /\ reconcile'[x] \in {NoReconcile, reconcile[x]}
                                       /\ entries'[x] \in {NoEntry, entries[x]}
                   /\ dirs'[Parent[q]] = dirs[Parent[q]]
                   /\ gone = {} => UNCHANGED <<dirs, reconcile, entries>>
        <4>1. \A x \in Paths : dirs'[x] \in {NoDir, dirs[x]}
                               /\ reconcile'[x] \in {NoReconcile, reconcile[x]}
                               /\ entries'[x] \in {NoEntry, entries[x]}
          BY <3>5, ClearedRow
        <4>2. dirs'[Parent[q]] = dirs[Parent[q]]
          <5>1. Parent[q] \notin gone
            BY <3>0, <3>5
          <5>2. Cleared(dirs, NoDir, gone)[Parent[q]] = dirs[Parent[q]]
            BY <3>0, <5>1, ClearedRow
          <5> QED BY <3>5, <5>2
        <4>3. gone = {} => /\ Cleared(dirs, NoDir, gone) = dirs
                           /\ Cleared(reconcile, NoReconcile, gone) = reconcile
                           /\ Cleared(entries, NoEntry, gone) = entries
          BY TypeFacts DEF Cleared
        <4> QED BY <3>5, <4>1, <4>2, <4>3
      <3>6. ASSUME NEW gone, gone \subseteq Below[q] \cup {q}, UNCHANGED retire,
                   \/ dirs' = Cleared(dirs, NoDir, gone) /\ UNCHANGED <<entries, reconcile>>
                   \/ reconcile' = Cleared(reconcile, NoReconcile, gone) /\ UNCHANGED <<entries, dirs>>
                   \/ entries' = Cleared(entries, NoEntry, gone) /\ UNCHANGED <<dirs, reconcile>>
            PROVE  PurgeInv'
        <4>1. Siblings'
          BY <1>0, <3>6 DEF Siblings, Retiring
        <4>2. \A r \in Paths : Retiring(r) => Proved(r)'
          BY <1>0, <3>1, <3>5, <3>6, ProofKept
        <4>3. \A r \in Paths : ~Retiring(r) => Proved(r)'
          BY <3>6 DEF Proved, Retiring
        <4> QED BY <4>1, <4>2, <4>3, PurgePartsNext
      <3>7. ASSUME retire' = Advanced(q), UNCHANGED <<dirs, reconcile, entries>>, Proved(q)'
            PROVE  PurgeInv'
        <4>1. \A r \in Paths : r # q => Proved(r)'
          BY <1>0, <3>3, <3>7 DEF Proved, SavedEntry, Reconciling
        <4>2. Siblings'
          BY <1>0, <2>2, <3>3, <3>7 DEF Siblings, Retiring
        <4> QED BY <3>7, <4>1, <4>2, PurgePartsNext
      <3>8. CASE PurgeDirectories(q)
        <4> DEFINE gone == PurgedRows(q, "directories")
        <4>1. gone \subseteq Below[q] \cup {q}
              /\ (gone = {} => \A x \in Below[q] \cup {q} : ~dirs[x].known)
          BY PurgedTable DEF HasRow
        <4>2. /\ dirs' = Cleared(dirs, NoDir, gone) /\ UNCHANGED <<reconcile, entries>>
              /\ retire' = IF gone = {} THEN Advanced(q) ELSE retire
              /\ retire[q].phase = 0
          BY <3>8 DEF PurgeDirectories
        <4> HIDE DEF gone
        <4>3. CASE gone # {}
          BY <3>6, <4>1, <4>2, <4>3
        <4>4. CASE gone = {}
          <5>1. retire' = Advanced(q) /\ UNCHANGED <<dirs, reconcile, entries>>
            BY <3>5, <4>1, <4>2, <4>4
          <5>2. Proved(q)'
            BY <3>0, <3>3, <4>1, <4>2, <4>4, <5>1 DEF Proved, SavedEntry, Reconciling
          <5> QED BY <3>7, <5>1, <5>2
        <4> QED BY <4>3, <4>4
      <3>9. CASE PurgeReconcile(q)
        <4> DEFINE gone == PurgedRows(q, "subtree_reconcile")
        <4>1. gone \subseteq Below[q] \cup {q}
              /\ (gone = {} => \A x \in Below[q] \cup {q} : ~Reconciling(x))
          BY PurgedTable DEF HasRow
        <4>2. /\ reconcile' = Cleared(reconcile, NoReconcile, gone) /\ UNCHANGED <<dirs, entries>>
              /\ retire' = IF gone = {} THEN Advanced(q) ELSE retire
              /\ retire[q].phase = 1
          BY <3>9 DEF PurgeReconcile
        <4> HIDE DEF gone
        <4>3. CASE gone # {}
          BY <3>6, <4>1, <4>2, <4>3
        <4>4. CASE gone = {}
          <5>1. retire' = Advanced(q) /\ UNCHANGED <<dirs, reconcile, entries>>
            BY <3>5, <4>1, <4>2, <4>4
          <5>2. Proved(q)'
            BY <3>0, <3>3, <4>1, <4>2, <4>4, <5>1 DEF Proved, SavedEntry, Reconciling
          <5> QED BY <3>7, <5>1, <5>2
        <4> QED BY <4>3, <4>4
      <3>10. CASE PurgeEntries(q)
        <4> DEFINE gone == PurgedRows(q, "entries")
        <4>1. gone \subseteq Below[q] \cup {q}
              /\ (gone = {} => /\ \A x \in Below[q] : ~SavedEntry(x)
                               /\ retire[q].preserve \/ ~SavedEntry(q))
          BY PurgedTable DEF HasRow
        <4>2. /\ entries' = Cleared(entries, NoEntry, gone) /\ UNCHANGED <<dirs, reconcile>>
              /\ retire' = IF gone = {} THEN Advanced(q) ELSE retire
              /\ retire[q].phase = 2
          BY <3>10 DEF PurgeEntries
        <4> HIDE DEF gone
        <4>3. CASE gone # {}
          BY <3>6, <4>1, <4>2, <4>3
        <4>4. CASE gone = {}
          <5>1. retire' = Advanced(q) /\ UNCHANGED <<dirs, reconcile, entries>>
            BY <3>5, <4>1, <4>2, <4>4
          <5>2. Proved(q)'
            BY <3>0, <3>3, <4>1, <4>2, <4>4, <5>1 DEF Proved, SavedEntry, Reconciling
          <5> QED BY <3>7, <5>1, <5>2
        <4> QED BY <4>3, <4>4
      <3>11. CASE PurgeRetirement(q)
        <4> DEFINE gone == PurgedRows(q, "subtree_retirement")
        <4>1. /\ retire' = IF gone = {} THEN Advanced(q) ELSE Cleared(retire, NoRetire, gone)
              /\ UNCHANGED <<dirs, reconcile, entries>> /\ retire[q].phase = 3
          BY <3>11 DEF PurgeRetirement
        <4> HIDE DEF gone
        <4>2. CASE gone = {}
          <5>1. Proved(q)'
            BY <3>0, <3>3, <4>1, <4>2 DEF Proved, SavedEntry, Reconciling
          <5> QED BY <3>7, <4>1, <4>2, <5>1
        <4>3. CASE gone # {}
          <5>1. \A r \in Paths : retire'[r] \in {NoRetire, retire[r]}
            <6>1. retire' = Cleared(retire, NoRetire, gone)
              BY <4>1, <4>3
            <6> QED BY <6>1, ClearedRow
          <5>2. Siblings'
            BY <1>0, <5>1, NothingFields DEF Siblings, Retiring
          <5>3. \A r \in Paths : Proved(r)'
            BY <1>0, <4>1, <5>1, NothingFields DEF Proved, SavedEntry, Reconciling
          <5> QED BY <5>2, <5>3, PurgePartsNext
        <4> QED BY <4>2, <4>3
      <3>12. CASE PurgeEnds(q)
        <4>1. UNCHANGED <<entries, dirs, reconcile>> /\ \A r \in Paths : retire'[r] \in {NoRetire, retire[r]}
          BY <3>12, TypeFacts DEF PurgeEnds
        <4>2. Siblings'
          BY <1>0, <4>1, NothingFields DEF Siblings, Retiring
        <4>3. \A r \in Paths : Proved(r)'
          BY <1>0, <4>1, NothingFields DEF Proved, SavedEntry, Reconciling
        <4> QED BY <4>2, <4>3, PurgePartsNext
      <3> QED BY <2>2, <3>8, <3>9, <3>10, <3>11, <3>12, PurgeSteps
    <2>3. ASSUME NEW p \in Paths, ReconcileSubtree(p), \A q \in Paths : ~Retiring(q) PROVE PurgeInv'
      <3>1. CASE ReconcileEnds(p)
        <4>1. \A q \in Paths : retire'[q].phase = -1
          BY <2>3, <3>1 DEF ReconcileEnds, Retiring
        <4> QED BY <4>1 DEF PurgeInv, Retiring
      <3>2. CASE ReconcileBatch(p)
        <4>1. UNCHANGED <<entries, dirs>> /\ dirs[p].complete /\ ~dirs[p].fault
              /\ reconcile[p].gen = dirs[p].gen
          BY <3>2 DEF ReconcileBatch
        <4>2. ASSUME NEW c \in Paths, retire'[c].phase # -1
              PROVE  /\ c \in Children(p) /\ ToRetire(p, c) /\ retire'[c].phase = 0
                     /\ retire'[c].preserve = ~Absent(p, c)
          <5>1. retire'[c] = IF c \in BatchOf(p) /\ ToRetire(p, c)
                             THEN [phase |-> 0, preserve |-> ~Absent(p, c), current |-> TRUE]
                             ELSE retire[c]
            BY <3>2 DEF ReconcileBatch
          <5>2. c \in BatchOf(p) /\ ToRetire(p, c)
            BY <2>3, <4>2, <5>1 DEF Retiring
          <5>3. c \in Children(p)
            BY <3>2, <5>2 DEF ReconcileBatch, RestOf
          <5> QED BY <5>1, <5>2, <5>3
        <4>3. Siblings'
          BY <4>2 DEF Siblings, Retiring
        <4>4. ASSUME NEW c \in Paths PROVE Proved(c)'
          <5>1. CASE retire'[c].phase = -1
            BY <5>1 DEF Proved
          <5>2. CASE retire'[c].phase # -1
            <6>1. /\ Parent[c] = p /\ ToRetire(p, c) /\ retire'[c].phase = 0
                  /\ retire'[c].preserve = ~Absent(p, c)
              BY <4>2, <5>2
            <6>2. IF retire'[c].preserve THEN entries[c].kind # "dir"
                  ELSE entries[c].gen # dirs[Parent[c]].gen
              BY <4>1, <6>1 DEF ToRetire, Absent
            <6> QED BY <4>1, <6>1, <6>2 DEF Proved
          <5> QED BY <5>1, <5>2
        <4> QED BY <4>3, <4>4, PurgePartsNext
      <3> QED BY <2>3, <3>1, <3>2, ReconcileSteps
    <2> QED BY <1>3, <2>1, <2>2, <2>3, RetireSteps
  <1> QED BY <1>1, <1>2, <1>3

-----------------------------------------------------------------------------
(* The saved tables in every state.                                         *)

LEMMA SavedInit == Init => SavedInv
  <1> SUFFICES ASSUME Init PROVE SavedInv
    OBVIOUS
  <1> USE PathTypes, NothingFields DEF Init
  <1>1. TypeInv
    BY InitTyped, TypeParts
  <1>2. ListingInv
    BY NothingListed
  <1>3. AnchorInv
    BY DEF AnchorInv, SavedEntry, Reconciling, HasJob
  <1>4. CompleteListingExact
    BY DEF CompleteListingExact
  <1>5. PurgeInv
    BY DEF PurgeInv, Retiring
  <1> QED BY <1>1, <1>2, <1>3, <1>4, <1>5 DEF SavedInv, ListingInv

LEMMA SavedStep == SavedInv /\ [Next]_vars => SavedInv'
  <1> SUFFICES ASSUME SavedInv, [Next]_vars PROVE SavedInv'
    OBVIOUS
  <1>1. TypeInv /\ ListingInv /\ AnchorInv /\ CompleteListingExact /\ PurgeInv
    BY DEF SavedInv, ListingInv
  <1>2. handler.at # "idle" => handler.job \in Paths
    BY <1>1 DEF ListingInv, HandlerInv
  <1>3. TypeInv'
    BY <1>1, <1>2, TypeStep
  <1>4. ListingInv' /\ AnchorInv' /\ CompleteListingExact' /\ PurgeInv'
    BY <1>1, ListingStep, AnchorStep, CompleteStep, PurgeStep
  <1> QED BY <1>3, <1>4 DEF SavedInv, ListingInv

\* The tables of a root, the stream and the batch of its scanner and the proofs
\* of its maintenance stay consistent with each other in every state.
THEOREM SavedInvariant == Spec => []SavedInv
  <1>1. Init => SavedInv
    BY SavedInit
  <1>2. SavedInv /\ [Next]_vars => SavedInv'
    BY SavedStep
  <1> QED BY <1>1, <1>2, PTL DEF Spec

\* No saved row loses the entries it hangs from, wherever a purge stops.
THEOREM AnchorsStay == Spec => []AnchorsKept
  <1>1. SavedInv => AnchorsKept
    BY DEF SavedInv, TypeInv, AnchorInv, AnchorsKept
  <1> QED BY <1>1, SavedInvariant, PTL

\* A directory marked complete carries exactly the names that were on disk when
\* its listing was validated, whatever restarted that listing.
THEOREM CompleteListings == Spec => []CompleteListingExact
  <1>1. SavedInv => CompleteListingExact
    BY DEF SavedInv
  <1> QED BY <1>1, SavedInvariant, PTL

\* A commit takes no entry away.
LEMMA CommitKeepsEntries ==
  ASSUME TypeInv, HandlerInv, CommitScan, NEW p \in Paths, SavedEntry(p)
  PROVE  entries'[p].kind # "absent"
  <1>1. CASE p \in SeenPaths
    <2>1. PICK o \in Observed :
             entries'[p] = [kind |-> o.kind, skip |-> o.skip, gen |-> handler.gen]
      BY <1>1, CommitFields
    <2> QED BY <2>1 DEF Observed
  <1>2. CASE p \notin SeenPaths /\ (p # Root \/ handler.job # Root)
    BY <1>2, CommitFields DEF SavedEntry
  <1>3. CASE p = Root /\ handler.job = Root
    BY <1>3, CommitFields
  <1> QED BY <1>1, <1>2, <1>3

\* Maintenance removes an entry only below what the latest complete listing of
\* its parent disproves.
THEOREM PurgesProved == Spec => PurgeProved
  <1> DEFINE Allowed ==
        \A p \in Paths : SavedEntry(p) /\ entries'[p].kind = "absent" =>
          \/ Disproved(p) /\ entries[p].gen # dirs[Parent[p]].gen
          \/ \E q \in Above[p] : Disproved(q)
  <1>1. ASSUME SavedInv, [Next]_vars PROVE Allowed
    <2>0. TypeInv /\ HandlerInv /\ AnchorInv /\ PurgeInv
      BY <1>1 DEF SavedInv
    <2>1. ASSUME UNCHANGED entries PROVE Allowed
      BY <2>1 DEF SavedEntry
    <2>2. CASE CommitScan
      BY <2>0, <2>2, CommitKeepsEntries
    <2>3. CASE ~CommitFault /\ ~CommitScan /\ ~RetireSubtrees
      BY <1>1, <2>0, <2>1, <2>3, RowsKept
    <2>4. CASE CommitFault
      BY <2>1, <2>4 DEF CommitFault
    <2>5. CASE RetireSubtrees
      <3>1. ASSUME NEW q \in Paths, Retiring(q), PurgeSubtree(q) PROVE Allowed
        <4>0. retire[q].current /\ retire[q].phase # -1
          BY <2>0, <3>1, PurgeSteps DEF Retiring
        <4>1. CASE PurgeEntries(q)
          <5> DEFINE gone == PurgedRows(q, "entries")
          <5>1. entries' = Cleared(entries, NoEntry, gone)
            BY <4>1 DEF PurgeEntries
          <5>2. /\ gone \subseteq Below[q] \cup {q}
                /\ q \in gone => ~retire[q].preserve
            BY PurgedTable
          <5> HIDE DEF gone
          <5>3. SUFFICES ASSUME NEW p \in Paths, SavedEntry(p), entries'[p].kind = "absent"
                         PROVE  \/ Disproved(p) /\ entries[p].gen # dirs[Parent[p]].gen
                                \/ \E x \in Above[p] : Disproved(x)
            OBVIOUS
          <5>4. p \in gone
            BY <5>1, <5>3, ClearedRow DEF SavedEntry
          <5>5. /\ q # Root
                /\ SavedEntry(q) =>
                     /\ dirs[Parent[q]].complete /\ ~dirs[Parent[q]].fault
                     /\ IF retire[q].preserve THEN entries[q].kind # "dir"
                        ELSE entries[q].gen # dirs[Parent[q]].gen
            BY <2>0, <3>1, <4>0 DEF PurgeInv, Retiring
          <5>6. CASE p = q
            BY <5>2, <5>3, <5>4, <5>5, <5>6 DEF Disproved
          <5>7. CASE p \in Below[q]
            <6>1. SavedEntry(q)
              BY <2>0, <5>3, <5>7, AnchorChain
            <6>2. Disproved(q)
              BY <5>5, <6>1 DEF Disproved
            <6>3. q \in Above[p]
              BY <5>7, AboveBelow
            <6> QED BY <6>2, <6>3
          <5> QED BY <5>2, <5>4, <5>6, <5>7
        <4> QED BY <2>0, <2>1, <3>1, <4>1, PurgeSteps
                DEF PurgeDirectories, PurgeReconcile, PurgeRetirement, PurgeEnds
      <3>2. ASSUME NEW p \in Paths, ReconcileSubtree(p) PROVE Allowed
        BY <2>1, <3>2, ReconcileSteps DEF ReconcileEnds, ReconcileBatch
      <3> QED BY <2>1, <2>5, <3>1, <3>2, RetireSteps DEF DropStaleProof
    <2> QED BY <2>2, <2>3, <2>4, <2>5
  <1>2. SavedInv /\ [Next]_vars => [Allowed]_vars
    BY <1>1
  <1> QED BY <1>2, SavedInvariant, PTL DEF Spec, PurgeProved

-----------------------------------------------------------------------------
(* A pass that nothing outside touches.                                     *)

LEMMA AboveChild ==
  ASSUME NEW j \in Paths, NEW c \in Children(j)
  PROVE  Above[c] = Above[j] \cup {j}
  <1> USE PathTypes
  <1>1. c \in Paths /\ c \in 1..LastPath /\ Parent[c] = j
    OBVIOUS
  <1>2. \A a \in Paths : c \in Below[a] <=> a = j \/ j \in Below[a]
    BY <1>1, BelowClosed, BelowParent
  <1>3. \A a : /\ a \in Above[c] <=> a \in Paths /\ c \in Below[a]
               /\ a \in Above[j] <=> a \in Paths /\ j \in Below[a]
    BY <1>1, AboveBelow
  <1>4. \A a : a \in Above[c] <=> a \in Above[j] \cup {j}
    BY <1>2, <1>3
  <1> QED BY <1>4, Zenon

LEMMA AboveTrans ==
  ASSUME NEW p \in Paths, NEW b \in Above[p], NEW a \in Above[b]
  PROVE  a \in Above[p]
  <1>1. b \in Paths /\ p \in Below[b]
    BY AboveBelow
  <1>2. a \in Paths /\ b \in Below[a]
    BY <1>1, AboveBelow
  <1>3. p \in Below[a]
    BY <1>1, <1>2, BelowTrans
  <1> QED BY <1>2, <1>3, AboveBelow

\* A directory can be opened when those above it can.
LEMMA OpenableUp ==
  ASSUME NEW p \in Paths, Openable(p), NEW a \in Above[p]
  PROVE  a \in Paths /\ Openable(a) /\ disk[a] = "dir"
  BY AboveTrans, AboveBelow DEF Openable

LEMMA OpenableChild ==
  ASSUME NEW j \in Paths, NEW c \in Children(j)
  PROVE  Openable(c) <=> Openable(j) /\ disk[c] = "dir"
  BY AboveChild DEF Openable

LEMMA OpenableRoot ==
  ASSUME NEW p \in Paths, Openable(p)
  PROVE  Openable(Root) /\ disk[Root] = "dir"
  <1>1. p # Root => Root \in Above[p]
    BY BelowRoot, AboveBelow, PathTypes
  <1>2. CASE p = Root
    BY <1>2 DEF Openable
  <1>3. CASE p # Root
    BY <1>1, <1>3, OpenableUp
  <1> QED BY <1>2, <1>3

\* Nothing is on disk below what is not a directory.
LEMMA DiskStep ==
  ASSUME TypeInv, DiskInv, [Next]_vars
  PROVE  DiskInv'
  <1> USE PathTypes
  <1>1. ASSUME UNCHANGED disk PROVE DiskInv'
    BY <1>1 DEF DiskInv
  <1>2. ASSUME NEW p \in Paths, NEW k \in Kinds[p], Replace(p, k) PROVE DiskInv'
    <2>1. p \in 1..LastPath /\ Parent[p] \in Paths /\ Parent[p] < p /\ disk[Parent[p]] = "dir"
      BY <1>2 DEF Replace, Openable
    <2>2. \A q \in Paths : disk'[q] = IF q = p THEN k ELSE IF q \in Below[p] THEN "absent" ELSE disk[q]
      BY <1>2 DEF Replace
    <2>3. SUFFICES ASSUME NEW c \in 1..LastPath, disk'[c] # "absent", Parent[c] # Root
                   PROVE  disk'[Parent[c]] \in {"dir", "sealed"}
      BY DEF DiskInv
    <2>4. CASE c = p
      <3>1. Parent[p] # p /\ Parent[p] \notin Below[p]
        <4>1. \A x \in Below[p] : p < x /\ x \in Nat
          BY BelowLarger
        <4>2. p \in Nat /\ Parent[p] \in Nat
          BY <2>1
        <4> QED BY <2>1, <4>1, <4>2
      <3> QED BY <2>1, <2>2, <2>4, <3>1
    <2>5. CASE c # p
      <3>1. c \notin Below[p] /\ disk[c] # "absent"
        BY <2>2, <2>3, <2>5
      <3>2. Parent[c] # p /\ Parent[c] \notin Below[p]
        BY <3>1, BelowClosed
      <3> QED BY <2>2, <2>3, <3>1, <3>2 DEF DiskInv
    <2> QED BY <2>4, <2>5
  <1>3. ASSUME NEW p \in Paths, Seal(p) PROVE DiskInv'
    <2>1. /\ disk[p] \in {"dir", "sealed"} /\ disk'[p] \in {"dir", "sealed"}
          /\ \A q \in Paths : q # p => disk'[q] = disk[q]
      BY <1>3 DEF Seal, TypeInv, TypeOK
    <2> QED BY <2>1 DEF DiskInv
  <1>4. CASE RootGone
    <2>1. \A q \in Paths : q # Root => disk'[q] = disk[q]
      BY <1>4 DEF RootGone, TypeInv, TypeOK
    <2> QED BY <2>1 DEF DiskInv
  <1>5. CASE \/ OpenDirectory \/ ValidateListing \/ \E p \in Paths : InspectName(p)
             \/ CommitFault \/ CommitScan \/ InterruptListing \/ Crash \/ RetireSubtrees
             \/ SeedInventory \/ \E p \in Paths : EnqueueJob(p) \/ ClaimJob(p)
    BY <1>1, <1>5 DEF OpenDirectory, ValidateListing, InspectName, CommitFault, CommitScan,
       InterruptListing, Crash, RetireSubtrees, SeedInventory, EnqueueJob, ClaimJob
  <1>6. CASE UNCHANGED vars
    BY <1>1, <1>6 DEF vars
  <1> QED BY <1>2, <1>3, <1>4, <1>5, <1>6, NextCases

\* Steps that neither commit, nor maintain, nor come from outside.
Inside ==
  \/ UNCHANGED vars \/ \E p \in Paths : InspectName(p) \/ ClaimJob(p)
  \/ OpenDirectory \/ ValidateListing \/ InterruptListing \/ Crash

LEMMA InsideKeeps ==
  ASSUME TypeInv, Inside
  PROVE  /\ UNCHANGED <<disk, entries, dirs, reconcile, retire, certified, quiet>>
         /\ \A q \in Paths : HasJob(q)' <=> HasJob(q)
         /\ NoJobs' <=> NoJobs
  <1> USE TypeFacts DEF HasJob, NoJobs
  <1>1. CASE UNCHANGED vars
    BY <1>1 DEF vars, saved, ghosts
  <1>2. CASE OpenDirectory \/ ValidateListing \/ \E p \in Paths : InspectName(p)
    BY <1>2, OpenFields, ValidateFields, InspectFields
  <1>3. ASSUME NEW p \in Paths, ClaimJob(p)
        PROVE  /\ UNCHANGED <<disk, entries, dirs, reconcile, retire, certified, quiet>>
               /\ \A q \in Paths : HasJob(q)' <=> HasJob(q)
    BY <1>3 DEF ClaimJob, Claimable, JobRows, ghosts
  <1>4. CASE InterruptListing
    <2>1. \A q \in Paths : q = handler.job => jobs[q].status = "running"
      BY <1>4 DEF TypeInv, TypeOK, InterruptListing
    <2>2. PICK f \in BOOLEAN :
             jobs' = [jobs EXCEPT ![handler.job] = [status |-> "pending", first |-> f]]
      BY <1>4 DEF InterruptListing
    <2>3. \A q \in Paths : HasJob(q)' <=> HasJob(q)
      BY <2>1, <2>2
    <2> QED BY <1>4, <2>3 DEF InterruptListing, ghosts
  <1>5. CASE Crash
    <2>1. \A q \in Paths : [jobs[q] EXCEPT !.status = "pending"].status = "pending"
      BY DEF JobRows
    <2>2. \A q \in Paths : HasJob(q)' <=> HasJob(q)
      BY <1>5, <2>1, NothingFields DEF Crash
    <2> QED BY <1>5, <2>2 DEF Crash, ghosts
  <1> QED BY <1>1, <1>2, <1>3, <1>4, <1>5 DEF Inside

\* Without a job there is neither a stream nor a batch.
LEMMA NoJobsIdle ==
  ASSUME TypeInv, ListingInv, NoJobs
  PROVE  stream = NoStream /\ handler = NoHandler
  <1>1. stream.job = -1
    BY TypeFacts DEF ListingInv, StreamInv, NoJobs, Streams
  <1>2. handler.at = "idle"
    BY DEF ListingInv, HandlerInv, TypeInv, TypeOK, NoJobs, HasJob
  <1> QED BY <1>1, <1>2 DEF ListingInv, StreamInv, HandlerInv

\* Inside steps keep what the listing in progress has seen.
LEMMA ScanKept ==
  ASSUME TypeInv, ListingInv, ScanInv, Inside
  PROVE  ScanInv'
  <1> USE TypeFacts, PathTypes
  <1>0. StreamInv /\ HandlerInv
    BY DEF ListingInv
  <1>1. /\ UNCHANGED <<disk, entries>>
        /\ \A q \in Paths : HasJob(q)' <=> HasJob(q)
    BY InsideKeeps
  <1>2. /\ \A c \in Paths : Confirmed(c)' <=> Confirmed(c)
        /\ \A p, g : Listed(p, g)' = Listed(p, g)
        /\ \A p : (Openable(p)' <=> Openable(p)) /\ OnDisk(p)' = OnDisk(p)
        /\ \A c : Observation(c)' = Observation(c)
    BY <1>1 DEF Confirmed, Matches, Listed, SavedEntry, Openable, OnDisk, Observation
  <1>3. \A p, g : Listed(p, g) \subseteq Paths
    BY DEF Listed
  <1>4. \A j \in Paths : HasJob(j)' /\ j # Root => Openable(j)'
    BY <1>1, <1>2 DEF ScanInv
  <1>5. CASE stream' = NoStream /\ handler' = NoHandler
    BY <1>4, <1>5, NothingFields DEF ScanInv
  <1>6. CASE UNCHANGED vars
    <2>1. UNCHANGED <<stream, handler>>
      BY <1>6 DEF vars, memory
    <2> QED BY <1>1, <1>2, <1>3, <1>4, <2>1 DEF ScanInv
  <1>7. ASSUME NEW p \in Paths, ClaimJob(p) PROVE ScanInv'
    <2>1. UNCHANGED stream /\ handler'.at = "claimed" /\ handler'.seen = {}
      BY <1>7, NothingFields DEF ClaimJob, NoHandler
    <2> QED BY <1>2, <1>3, <1>4, <2>1 DEF ScanInv
  <1>8. CASE OpenDirectory
    <2> DEFINE p == handler.job
               t == OpenedStream(p)
    <2>1. p \in Paths /\ handler.seen = {} /\ handler'.job = p
      BY <1>0, <1>8, OpenFields DEF HandlerInv
    <2>2. CASE Openable(p)
      <3>1. handler'.at = "listing" /\ handler'.seen = {} /\ stream' \in ReadNames(t)
        BY <1>8, <2>1, <2>2, OpenFields
      <3>2. t \in Streams /\ t.job = p /\ ~t.changed
        <4>1. SeenPaths = {}
          BY <2>1 DEF SeenPaths
        <4> QED BY <1>0, <2>1, <4>1, OpenedFields
      <3>3. \A c \in Listed(p, t.gen) : Confirmed(c)
        <4>1. CASE Kept(p)
          BY <2>1, <4>1 DEF OpenedStream, Kept, ScanInv
        <4>2. CASE ~Kept(p)
          <5>1. t.gen = NewGeneration
            BY <4>2 DEF OpenedStream, NoStream
          <5>2. \A c \in Paths : entries[c].gen # NewGeneration
            BY FreshGeneration
          <5> HIDE DEF t
          <5> QED BY <5>1, <5>2 DEF Listed
        <4> QED BY <4>1, <4>2
      <3> HIDE DEF t
      <3>4. stream'.job = p /\ stream'.gen = t.gen /\ ~stream'.changed
        BY <3>1, <3>2, NamesMoved
      <3>5. \A c \in Listed(stream'.job, stream'.gen) : Confirmed(c)
        BY <3>3, <3>4
      <3> QED BY <1>2, <1>3, <1>4, <3>1, <3>4, <3>5 DEF ScanInv
    <2>3. CASE ~Openable(p)
      <3>1. handler'.at = "fault" /\ handler'.seen = {} /\ stream' = NoStream
        BY <1>8, <2>3, OpenFields
      <3> QED BY <1>2, <1>4, <2>1, <2>3, <3>1, NothingFields DEF ScanInv
    <2> QED BY <2>2, <2>3
  <1>9. ASSUME NEW n \in Paths, InspectName(n) PROVE ScanInv'
    <2>1. /\ handler.at = "listing" /\ n \in stream.pending /\ stream.job = handler.job
          /\ handler.job \in Paths /\ stream.job # -1
      BY <1>0, <1>9, InspectFields DEF HandlerInv
    <2>2. disk[n] # "absent"
      <3>1. stream.pending \subseteq OnDisk(stream.job)
        BY <1>0, <2>1 DEF StreamInv, ScanInv
      <3> QED BY <2>1, <3>1 DEF OnDisk
    <2>3. /\ handler'.at = "listing" /\ handler'.seen = handler.seen \cup {Observation(n)}
          /\ stream' = [stream EXCEPT !.pending = @ \ {n}]
      BY <1>9, <2>2, InspectFields
    <2>4. /\ stream'.job = stream.job /\ stream'.gen = stream.gen
          /\ stream'.changed = stream.changed
      BY <2>3 DEF Streams
    <2>5. \A o \in handler'.seen : disk[o.path] # "absent" /\ o = Observation(o.path)
      <3>1. Observation(n).path = n
        BY DEF Observation
      <3> QED BY <2>2, <2>3, <3>1 DEF ScanInv
    <2> QED BY <1>1, <1>2, <1>3, <1>4, <2>3, <2>4, <2>5 DEF ScanInv
  <1>10. CASE ValidateListing
    <2>1. /\ handler.at = "listing" /\ handler'.job = handler.job /\ stream.job = handler.job
          /\ handler.job \in Paths /\ stream.job # -1 /\ ~stream.changed
      BY <1>0, <1>10, ValidateFields DEF HandlerInv, ScanInv
    <2>2. CASE /\ Openable(handler.job)
               /\ handler'.at = "batch" /\ handler'.seen = handler.seen
               /\ handler'.gen = stream.gen /\ handler'.names = OnDisk(handler.job)
               /\ stream' \in {NoStream, stream}
      <3>1. \A c \in Listed(handler'.job, handler'.gen) : Confirmed(c)
        BY <2>1, <2>2 DEF ScanInv
      <3>2. stream'.job # -1 => stream' = stream
        BY <2>2, NothingFields
      <3> QED BY <1>1, <1>2, <1>3, <1>4, <2>1, <2>2, <3>1, <3>2 DEF ScanInv
    <2>3. CASE /\ ~Openable(handler.job)
               /\ handler'.at = "fault" /\ handler'.seen = {} /\ stream' = NoStream
      BY <1>2, <1>4, <2>1, <2>3, NothingFields DEF ScanInv
    <2> QED BY <1>10, <2>1, <2>2, <2>3, ValidateFields
  <1> QED BY <1>5, <1>6, <1>7, <1>8, <1>9, <1>10 DEF Inside, InterruptListing, Crash

LEMMA DoneKept ==
  ASSUME TypeInv, DoneInv, Inside
  PROVE  DoneInv'
  <1>1. /\ UNCHANGED <<disk, entries, dirs, reconcile, retire>>
        /\ \A q \in Paths : HasJob(q)' <=> HasJob(q)
        /\ NoJobs' <=> NoJobs
    BY InsideKeeps
  <1>2. \A p \in Paths : /\ Openable(p)' <=> Openable(p)
                         /\ Done(p)' <=> Done(p)
    BY <1>1 DEF Openable, Done, Listed, SavedEntry, OnDisk, Matches, LeftOver, ToldOf, Retiring,
       HasDirectoryState
  <1>3. \A p \in Paths : Covered(p)' <=> Covered(p)
    BY <1>1, AboveBelow DEF Covered
  <1>4. Root \in Paths
    BY PathTypes
  <1> QED BY <1>1, <1>2, <1>3, <1>4 DEF DoneInv, Retiring

\* What a directory that a batch is for hides, it hid before.
LEMMA DoneElsewhere ==
  ASSUME TypeInv, ListingInv, ScanInv, CommitScan, \A q \in Paths : ~Retiring(q),
         NEW p \in Paths, p # handler.job, Done(p)
  PROVE  Done(p)'
  <1> DEFINE j == handler.job
  <1> USE TypeFacts, PathTypes
  <1>0. HandlerInv /\ j \in Paths /\ handler.at = "batch" /\ SeenPaths \subseteq Children(j)
    BY CommitFields DEF ListingInv
  <1>1. Openable(j) /\ disk[j] = "dir"
    BY <1>0 DEF ScanInv, Openable
  <1>2. /\ UNCHANGED disk /\ dirs'[p] = dirs[p] /\ reconcile'[p] = reconcile[p]
        /\ \A x \in Paths : x # j => dirs'[x] = dirs[x]
    BY <1>0, CommitFields
  <1>3. {c \in Children(p) : SavedEntry(c)' /\ entries'[c].gen = dirs[p].gen} = Listed(p, dirs[p].gen)
    BY <1>0, CommitListed
  <1>4. \A c \in Children(p) : entries'[c] = entries[c]
    BY <1>0, CommitFields
  <1>5. \A x \in Paths : x # Root => x \in SeenPaths \/ entries'[x] = entries[x]
    BY <1>0, CommitFields
  <1>6. ASSUME NEW c \in Children(p), HasDirectoryState(c)', ~HasDirectoryState(c)
        PROVE  disk[c] = "dir"
    <2>1. CASE c = j
      BY <1>1, <2>1
    <2>2. CASE c # j
      <3>1. PICK x \in Below[c] : entries'[x].kind # "absent" /\ entries[x].kind = "absent"
        BY <1>2, <1>6, <2>2 DEF HasDirectoryState, SavedEntry
      <3>2. x \in SeenPaths
        BY <1>5, <3>1, BelowLarger
      <3>3. j \in Below[c]
        BY <1>0, <2>2, <3>1, <3>2, BelowParent
      <3>4. c \in Above[j]
        BY <1>0, <3>3, AboveBelow
      <3> QED BY <1>0, <1>1, <3>4, OpenableUp
    <2> QED BY <2>1, <2>2
  <1>7. ASSUME NEW c \in Children(p), LeftOver(p, c)' PROVE ToldOf(p, c)'
    <2>1. SavedEntry(c) /\ entries'[c] = entries[c] /\ dirs'[p].gen = dirs[p].gen
      BY <1>2, <1>4, <1>7 DEF LeftOver, SavedEntry
    <2>2. LeftOver(p, c)
      <3>1. CASE entries[c].gen # dirs[p].gen
        BY <2>1, <3>1 DEF LeftOver
      <3>2. CASE entries[c].gen = dirs[p].gen
        <4>1. entries[c].kind # "dir" /\ HasDirectoryState(c)'
          BY <1>7, <2>1, <3>2 DEF LeftOver
        <4>2. c \in OnDisk(p)
          BY <2>1, <3>2 DEF Done, Listed
        <4>3. disk[c] # "dir"
          BY <4>1, <4>2 DEF Done, Matches
        <4>4. HasDirectoryState(c)
          BY <1>6, <4>1, <4>3
        <4> QED BY <2>1, <4>1, <4>4 DEF LeftOver
      <3> QED BY <3>1, <3>2
    <2>3. reconcile[p].gen = dirs[p].gen /\ reconcile[p].cursor < c
      BY <2>2 DEF Done, ToldOf
    <2> QED BY <1>2, <2>3 DEF ToldOf
  <1>8. Listed(p, dirs[p].gen)' = OnDisk(p)' /\ \A c \in OnDisk(p)' : Matches(c)'
    <2>1. OnDisk(p)' = OnDisk(p) /\ OnDisk(p) \subseteq Children(p)
      BY <1>2 DEF OnDisk
    <2>2. Listed(p, dirs[p].gen)' = OnDisk(p)
      BY <1>2, <1>3 DEF Listed, Done
    <2>3. \A c \in OnDisk(p) : Matches(c)'
      BY <1>2, <1>4, <2>1 DEF Matches, Done
    <2> QED BY <2>1, <2>2, <2>3
  <1> QED BY <1>2, <1>7, <1>8 DEF Done

LEMMA ObservationFields ==
  ASSUME NEW n
  PROVE  /\ Observation(n).path = n
         /\ Observation(n).kind = IF disk[n] = "file" THEN "file" ELSE "dir"
         /\ Observation(n).skip = (disk[n] = "sealed")
  BY DEF Observation

\* A committed batch leaves its names confirmed and every directory among them
\* with a job.
LEMMA CommitConfirmed ==
  ASSUME TypeInv, ListingInv, ScanInv, CommitScan, NEW j, j = handler.job
  PROVE  /\ \A c \in Listed(j, handler.gen) \cup SeenPaths : Confirmed(c)'
         /\ \A q \in Paths : q # j /\ HasJob(q) => HasJob(q)'
         /\ \A q \in Paths : HasJob(q)' => \/ HasJob(q)
                                           \/ q \in SeenPaths /\ disk[q] = "dir"
                                           \/ q = j /\ ~handler.complete
         /\ ~handler.complete => HasJob(j)'
  <1> USE TypeFacts, PathTypes
  <1>0. HandlerInv /\ j \in Paths /\ handler.at = "batch" /\ SeenPaths \subseteq Children(j)
    BY CommitFields DEF ListingInv
  <1>1. UNCHANGED disk /\ jobs' = JobsAfter(j)
    BY <1>0, CommitFields
  <1>2. \A n : Seen(n) <=> n \in SeenPaths
    BY DEF Seen, SeenPaths
  <1>3. ASSUME NEW n \in SeenPaths
        PROVE  /\ disk[n] # "absent" /\ SeenAt(n) = Observation(n)
               /\ n # j /\ n \in Paths
               /\ \E o \in handler.seen : o = Observation(n)
                    /\ entries'[n] = [kind |-> o.kind, skip |-> o.skip, gen |-> handler.gen]
    <2>1. SeenAt(n) \in handler.seen /\ SeenAt(n).path = n
      BY <1>2 DEF Seen, SeenAt
    <2>2. disk[n] # "absent" /\ SeenAt(n) = Observation(n)
      BY <2>1 DEF ScanInv
    <2>3. PICK o \in handler.seen :
             /\ o.path = n
             /\ entries'[n] = [kind |-> o.kind, skip |-> o.skip, gen |-> handler.gen]
      BY <1>0, CommitFields
    <2>4. o = Observation(n)
      BY <2>3 DEF ScanInv
    <2> QED BY <1>0, <2>2, <2>3, <2>4
  <1>4. \A q \in Paths : q # j /\ HasJob(q) => HasJob(q)'
    BY <1>1 DEF JobsAfter, HasJob
  <1>5. ASSUME NEW q \in Paths, HasJob(q)'
        PROVE  HasJob(q) \/ (q \in SeenPaths /\ disk[q] = "dir") \/ (q = j /\ ~handler.complete)
    <2>1. CASE q = j
      BY <1>1, <1>5, <2>1, NothingFields DEF JobsAfter, HasJob
    <2>2. CASE q # j
      <3>1. HasJob(q) \/ (Seen(q) /\ SeenAt(q).kind = "dir" /\ ~SeenAt(q).skip)
        BY <1>1, <1>5, <2>2 DEF JobsAfter, HasJob
      <3>2. ASSUME Seen(q), SeenAt(q).kind = "dir", ~SeenAt(q).skip
            PROVE  q \in SeenPaths /\ disk[q] = "dir"
        <4>1. q \in SeenPaths /\ SeenAt(q) = Observation(q) /\ disk[q] # "absent"
          BY <1>2, <1>3, <3>2
        <4>2. disk[q] \in {"absent", "file", "dir", "sealed"}
          BY DEF TypeInv, TypeOK
        <4> QED BY <3>2, <4>1, <4>2, ObservationFields
      <3> QED BY <3>1, <3>2
    <2> QED BY <2>1, <2>2
  <1>6. ~handler.complete => HasJob(j)'
    BY <1>0, <1>1 DEF JobsAfter, HasJob
  <1>7. ASSUME NEW n \in SeenPaths PROVE Confirmed(n)'
    <2>1. /\ entries'[n].kind = Observation(n).kind /\ entries'[n].skip = Observation(n).skip
          /\ disk[n] # "absent"
      <3>1. PICK o \in handler.seen : o = Observation(n)
               /\ entries'[n] = [kind |-> o.kind, skip |-> o.skip, gen |-> handler.gen]
        BY <1>3
      <3>2. entries'[n].kind = o.kind /\ entries'[n].skip = o.skip
        BY <3>1
      <3> QED BY <1>3, <3>1, <3>2
    <2>2. Matches(n)'
      BY <1>1, <2>1, ObservationFields DEF Matches
    <2>3. ASSUME disk[n] = "dir" PROVE HasJob(n)'
      <3>1. Seen(n) /\ SeenAt(n).kind = "dir" /\ ~SeenAt(n).skip /\ n # j /\ n \in Paths
        <4>1. Observation(n).kind = "dir" /\ Observation(n).skip = FALSE
          <5>1. (disk[n] = "sealed") = FALSE
            BY <2>3
          <5> QED BY <2>3, <5>1, ObservationFields
        <4>2. SeenAt(n) = Observation(n)
          BY <1>3
        <4>3. Seen(n) /\ n # j /\ n \in Paths
          BY <1>2, <1>3
        <4> QED BY <4>1, <4>2, <4>3
      <3> QED BY <1>1, <3>1 DEF JobsAfter, HasJob
    <2> QED BY <1>1, <2>1, <2>2, <2>3 DEF Confirmed
  <1>8. ASSUME NEW c \in Listed(j, handler.gen), c \notin SeenPaths PROVE Confirmed(c)'
    <2>1. c \in Paths /\ c # Root /\ c # j /\ Confirmed(c)
      BY <1>0 DEF Listed, ScanInv
    <2>2. entries'[c] = entries[c]
      BY <1>0, <1>8, <2>1, CommitFields
    <2> QED BY <1>1, <1>4, <2>1, <2>2 DEF Confirmed, Matches
  <1> QED BY <1>4, <1>5, <1>6, <1>7, <1>8

LEMMA CommitQuiet ==
  ASSUME TypeInv, ListingInv, AnchorInv, ScanInv, DoneInv, CommitScan,
         NEW j, j = handler.job, NEW g, g = handler.gen
  PROVE  ScanInv' /\ DoneInv'
  <1> USE TypeFacts, PathTypes
  <1>0. /\ HandlerInv /\ j \in Paths /\ handler.at = "batch" /\ SeenPaths \subseteq Children(j)
        /\ handler' = NoHandler /\ UNCHANGED <<disk, stream>>
    BY CommitFields DEF ListingInv
  <1>1. /\ \A c \in Listed(j, g) \cup SeenPaths : Confirmed(c)'
        /\ \A q \in Paths : q # j /\ HasJob(q) => HasJob(q)'
        /\ \A q \in Paths : HasJob(q)' => \/ HasJob(q)
                                          \/ q \in SeenPaths /\ disk[q] = "dir"
                                          \/ q = j /\ ~handler.complete
        /\ ~handler.complete => HasJob(j)'
    BY CommitConfirmed
  <1>2. Openable(j) /\ HasJob(j) /\ \A p : Openable(p)' <=> Openable(p)
    BY <1>0, JobAnchored DEF ScanInv, Openable
  <1>3. {c \in Children(j) : SavedEntry(c)' /\ entries'[c].gen = g} = Listed(j, g) \cup SeenPaths
    BY <1>0, CommitListed
  <1>4. ScanInv'
    <2>1. \A q \in Paths : HasJob(q)' /\ q # Root => Openable(q)'
      <3>1. \A q \in SeenPaths : disk[q] = "dir" => Openable(q)
        BY <1>0, <1>2, OpenableChild
      <3> QED BY <1>1, <1>2, <3>1 DEF ScanInv
    <2>2. stream.job # -1 => /\ ~stream.changed
                             /\ Listed(stream.job, stream.gen)' = Listed(j, g) \cup SeenPaths
      <3>1. ASSUME stream.job # -1 PROVE stream.job = j /\ stream.gen = g
        BY <1>0, <3>1, NothingFields DEF HandlerInv
      <3>2. stream.job # -1 => Listed(stream.job, stream.gen)' = Listed(j, g) \cup SeenPaths
        BY <1>0, <1>3, <3>1 DEF Listed
      <3> QED BY <3>2 DEF ScanInv
    <2> QED BY <1>0, <1>1, <2>1, <2>2, NothingFields DEF ScanInv
  <1>5. \A q \in Paths : ~Retiring(q) /\ ~Retiring(q)'
    <2>1. retire' = StaleProofs /\ ~NoJobs
      BY <1>0, <1>2, CommitFields DEF NoJobs
    <2>2. \A q \in Paths : ~Retiring(q)
      BY <2>1 DEF DoneInv
    <2> QED BY <2>1, <2>2, StaleFields DEF Retiring
  <1>6. Openable(Root)'
    BY <1>0, <1>2, OpenableRoot
  <1>7. ASSUME handler.complete PROVE Done(j)'
    <2>1. /\ dirs'[j] = [known |-> TRUE, gen |-> g, complete |-> TRUE, fault |-> FALSE]
          /\ reconcile'[j] = [gen |-> g, cursor |-> 0]
      BY <1>0, <1>7, CommitFields
    <2>2. Listed(j, g) \cup SeenPaths = OnDisk(j)
      BY <1>0, <1>7 DEF HandlerInv, ScanInv
    <2>3. Listed(j, g)' = OnDisk(j)'
      BY <1>0, <1>3, <2>2 DEF Listed, OnDisk
    <2>4. OnDisk(j)' = OnDisk(j)
      BY <1>0 DEF OnDisk
    <2>5. \A c \in OnDisk(j)' : Matches(c)'
      BY <1>1, <2>2, <2>4 DEF Confirmed
    <2>6. \A c \in Children(j) : ToldOf(j, c)'
      <3>1. \A c \in Children(j) : 0 < c
        OBVIOUS
      <3> QED BY <2>1, <3>1 DEF ToldOf
    <2> QED BY <2>1, <2>3, <2>5, <2>6 DEF Done
  <1>8. ASSUME NEW p \in Paths, Openable(p) PROVE Covered(p)' \/ Done(p)'
    <2>1. Covered(p) \/ Done(p)
      BY <1>8 DEF DoneInv
    <2>2. CASE p = j
      BY <1>1, <1>7, <2>2 DEF Covered
    <2>3. CASE p # j /\ Done(p)
      BY <1>5, <2>3, DoneElsewhere
    <2>4. ASSUME p # j, NEW a \in Above[p] \cup {p}, HasJob(a) PROVE Covered(p)'
      <3>0. a \in Paths
        BY <2>4, AboveBelow
      <3>1. CASE a # j \/ ~handler.complete
        BY <1>1, <2>4, <3>0, <3>1 DEF Covered
      <3>2. CASE a = j /\ handler.complete
        <4>1. p \in Below[j]
          BY <2>4, <3>2, AboveBelow
        <4>2. PICK c \in Children(j) : p = c \/ p \in Below[c]
          BY <1>0, <4>1, BelowVia
        <4>3. c \in Above[p] \cup {p}
          BY <4>2, AboveBelow
        <4>4. disk[c] = "dir"
          BY <1>8, <4>3 DEF Openable
        <4>5. c \in Listed(j, g) \cup SeenPaths
          BY <1>0, <3>2, <4>4 DEF OnDisk, HandlerInv, ScanInv
        <4>6. HasJob(c)'
          BY <1>0, <1>1, <4>4, <4>5 DEF Confirmed
        <4> QED BY <4>3, <4>6 DEF Covered
      <3> QED BY <3>1, <3>2
    <2> QED BY <2>1, <2>2, <2>3, <2>4 DEF Covered
  <1>9. DoneInv'
    BY <1>2, <1>5, <1>6, <1>8 DEF DoneInv
  <1> QED BY <1>4, <1>9

\* Without jobs every directory that can be opened is done.
LEMMA DoneIdle ==
  ASSUME DoneInv, NoJobs, NEW p \in Paths, Openable(p)
  PROVE  Done(p)
  BY AboveBelow DEF DoneInv, Covered, NoJobs

\* In a quiet pass maintenance leaves alone every directory that can be opened.
LEMMA PurgeElsewhere ==
  ASSUME TypeInv, AnchorInv, PurgeInv, DoneInv, NoJobs,
         NEW q \in Paths, Retiring(q), NEW p \in Paths, Openable(p)
  PROVE  /\ p \notin Below[q] \cup {q}
         /\ \A c \in Children(p) : c \notin Below[q]
         /\ q # Root
  <1> USE PathTypes
  <1>1. q # Root /\ retire[q].current /\ retire[q].phase # -1 /\ q \in Children(Parent[q])
        /\ Parent[q] \in Paths
    BY DEF PurgeInv, DoneInv, Retiring
  <1>2. ASSUME p \in Below[q] \cup {q} PROVE FALSE
    <2>1. Openable(q)
      BY <1>2, OpenableUp, AboveBelow
    <2>2. Openable(Parent[q]) /\ disk[q] = "dir"
      BY <1>1, <2>1, OpenableChild
    <2>3. Done(Parent[q])
      BY <1>1, <2>2, AboveBelow DEF DoneInv, Covered, NoJobs
    <2>4. q \in OnDisk(Parent[q])
      BY <1>1, <2>2 DEF OnDisk
    <2>5. /\ SavedEntry(q) /\ entries[q].gen = dirs[Parent[q]].gen
          /\ entries[q].kind = "dir"
      BY <2>2, <2>3, <2>4 DEF Done, Listed, Matches
    <2> QED BY <1>1, <2>5 DEF PurgeInv
  <1>3. \A c \in Children(p) : c \notin Below[q]
    BY <1>2, BelowParent
  <1> QED BY <1>1, <1>2, <1>3

\* A done directory stays done when rows are removed elsewhere.
LEMMA DoneRemoved ==
  ASSUME NEW p \in Paths, Done(p), UNCHANGED disk,
         dirs'[p] = dirs[p], reconcile'[p] = reconcile[p],
         \A x \in Paths : dirs'[x] \in {NoDir, dirs[x]} /\ entries'[x] \in {NoEntry, entries[x]},
         \A c \in OnDisk(p) : entries'[c] = entries[c],
         \A c \in Children(p) : LeftOver(p, c)' /\ Retiring(c) =>
             Retiring(c)' /\ retire'[c].preserve = retire[c].preserve
  PROVE  Done(p)'
  <1> USE PathTypes
  <1>1. \A x \in Paths : /\ dirs'[x].known => dirs[x].known
                         /\ entries'[x].kind # "absent" => entries'[x] = entries[x]
    BY NothingFields
  <1>2. OnDisk(p)' = OnDisk(p) /\ OnDisk(p) \subseteq Children(p)
    BY DEF OnDisk
  <1>3. ASSUME NEW c \in Children(p), LeftOver(p, c)' PROVE ToldOf(p, c)'
    <2>1. c \in Paths /\ entries'[c].kind # "absent" /\ entries'[c] = entries[c]
      BY <1>1, <1>3 DEF LeftOver, SavedEntry
    <2>2. HasDirectoryState(c)' => HasDirectoryState(c)
      <3>1. \A x \in Below[c] : x \in Paths
        BY <2>1, BelowClosed
      <3>2. ASSUME NEW x \in Below[c], SavedEntry(x)' PROVE SavedEntry(x)
        BY <1>1, <3>1, <3>2 DEF SavedEntry
      <3>3. dirs'[c].known => dirs[c].known
        BY <1>1, <2>1
      <3> QED BY <3>2, <3>3 DEF HasDirectoryState
    <2>3. LeftOver(p, c)
      BY <1>3, <2>1, <2>2 DEF LeftOver, SavedEntry
    <2>4. ToldOf(p, c)
      BY <2>3 DEF Done
    <2> QED BY <1>3, <2>1, <2>4 DEF ToldOf
  <1>4. {c \in Children(p) : SavedEntry(c)' /\ entries'[c].gen = dirs[p].gen} = Listed(p, dirs[p].gen)
    <2>1. ASSUME NEW c \in Children(p), entries'[c].kind # "absent", entries'[c].gen = dirs[p].gen
          PROVE  c \in Listed(p, dirs[p].gen)
      BY <1>1, <2>1 DEF Listed, SavedEntry
    <2>2. ASSUME NEW c \in Listed(p, dirs[p].gen)
          PROVE  entries'[c].kind # "absent" /\ entries'[c].gen = dirs[p].gen
      BY DEF Done, Listed, SavedEntry
    <2> QED BY <2>1, <2>2 DEF Listed, SavedEntry
  <1>5. Listed(p, dirs[p].gen)' = OnDisk(p)
    BY <1>4 DEF Listed, Done
  <1>6. \A c \in OnDisk(p) : Matches(c)'
    BY <1>2 DEF Done, Matches
  <1> QED BY <1>2, <1>3, <1>5, <1>6 DEF Done

LEMMA PurgeQuiet ==
  ASSUME TypeInv, AnchorInv, PurgeInv, DoneInv, NoJobs, UNCHANGED disk,
         NEW q \in Paths, Retiring(q), PurgeSubtree(q), NEW p \in Paths, Openable(p)
  PROVE  Done(p)' /\ \A x \in Paths : Retiring(x)' => retire'[x].current
  <1> USE PathTypes, TypeFacts
  <1>1. /\ p \notin Below[q] \cup {q}
        /\ \A c \in Children(p) : c \notin Below[q]
        /\ q # Root /\ retire[q].phase # -1 /\ retire[q].current
        /\ \A x \in Paths : Retiring(x) => retire[x].current
    BY PurgeElsewhere DEF DoneInv, Retiring
  <1>2. Done(p) /\ \A c \in OnDisk(p) : SavedEntry(c) /\ entries[c].gen = dirs[p].gen
    <2>1. Done(p)
      BY DoneIdle
    <2> QED BY <2>1 DEF Done, Listed
  <1>3. ASSUME NEW x \in Paths, Advanced(q)[x] # retire[x]
        PROVE  x = q
    BY <1>3 DEF Advanced
  <1>4. ASSUME retire' = Advanced(q)
        PROVE  /\ \A x \in Paths : retire'[x].preserve = retire[x].preserve
                                   /\ retire'[x].current = retire[x].current
                                   /\ (Retiring(x)' <=> Retiring(x))
    <2>1. /\ retire'[q].phase = retire[q].phase + 1 /\ retire'[q].current = retire[q].current
          /\ retire'[q].preserve = retire[q].preserve
      BY <1>4 DEF Advanced, RetireRows
    <2>2. retire'[q].phase # -1
      <3>1. retire[q].phase \in 0..4
        BY <1>1 DEF RetireRows
      <3> QED BY <2>1, <3>1
    <2>3. \A x \in Paths : x # q => retire'[x] = retire[x]
      BY <1>4 DEF Advanced
    <2> QED BY <1>1, <2>1, <2>2, <2>3 DEF Retiring
  <1>5. ASSUME NEW gone, gone \subseteq Below[q] \cup {q},
               retire' = IF gone = {} THEN Advanced(q) ELSE retire,
               \/ dirs' = Cleared(dirs, NoDir, gone) /\ UNCHANGED <<entries, reconcile>>
               \/ reconcile' = Cleared(reconcile, NoReconcile, gone) /\ UNCHANGED <<entries, dirs>>
               \/ /\ entries' = Cleared(entries, NoEntry, gone) /\ UNCHANGED <<dirs, reconcile>>
                  /\ q \in gone => ~retire[q].preserve /\ SavedEntry(q)
        PROVE  Done(p)' /\ \A x \in Paths : Retiring(x)' => retire'[x].current
    <2>1. \A x \in Paths : retire'[x].preserve = retire[x].preserve
                           /\ retire'[x].current = retire[x].current
                           /\ (Retiring(x)' <=> Retiring(x))
      BY <1>4, <1>5 DEF Retiring
    <2>2. p \notin gone
      BY <1>1, <1>5
    <2>3. dirs'[p] = dirs[p] /\ reconcile'[p] = reconcile[p]
      BY <1>5, <2>2, ClearedRow
    <2>4. \A x \in Paths : dirs'[x] \in {NoDir, dirs[x]} /\ entries'[x] \in {NoEntry, entries[x]}
      BY <1>5, ClearedRow
    <2>5. ASSUME NEW c \in OnDisk(p) PROVE entries'[c] = entries[c]
      <3>1. c \in Paths /\ c \in Children(p) /\ SavedEntry(c) /\ entries[c].gen = dirs[p].gen
        BY <1>2 DEF OnDisk
      <3>2. CASE UNCHANGED entries
        BY <3>2
      <3>3. CASE /\ entries' = Cleared(entries, NoEntry, gone)
                 /\ q \in gone => ~retire[q].preserve /\ SavedEntry(q)
        <4>1. c \in gone => c = q
          BY <1>1, <1>5, <3>1
        <4>2. c = q /\ c \in gone => entries[q].gen # dirs[p].gen
          BY <1>1, <3>1, <3>3 DEF PurgeInv
        <4>3. c \notin gone
          BY <3>1, <4>1, <4>2
        <4> QED BY <3>1, <3>3, <4>3, ClearedRow
      <3> QED BY <1>5, <3>2, <3>3
    <2>6. Done(p)'
      BY <1>2, <2>1, <2>3, <2>4, <2>5, DoneRemoved
    <2> QED BY <1>1, <2>1, <2>6
  <1>6. CASE PurgeDirectories(q)
    <2> DEFINE gone == PurgedRows(q, "directories")
    <2>1. gone \subseteq Below[q] \cup {q}
      BY PurgedTable
    <2>2. /\ dirs' = Cleared(dirs, NoDir, gone) /\ UNCHANGED <<entries, reconcile>>
          /\ retire' = IF gone = {} THEN Advanced(q) ELSE retire
      BY <1>6 DEF PurgeDirectories
    <2> HIDE DEF gone
    <2> QED BY <1>5, <2>1, <2>2
  <1>7. CASE PurgeReconcile(q)
    <2> DEFINE gone == PurgedRows(q, "subtree_reconcile")
    <2>1. gone \subseteq Below[q] \cup {q}
      BY PurgedTable
    <2>2. /\ reconcile' = Cleared(reconcile, NoReconcile, gone) /\ UNCHANGED <<entries, dirs>>
          /\ retire' = IF gone = {} THEN Advanced(q) ELSE retire
      BY <1>7 DEF PurgeReconcile
    <2> HIDE DEF gone
    <2> QED BY <1>5, <2>1, <2>2
  <1>8. CASE PurgeEntries(q)
    <2> DEFINE gone == PurgedRows(q, "entries")
    <2>1. gone \subseteq Below[q] \cup {q} /\ (q \in gone => ~retire[q].preserve /\ SavedEntry(q))
      BY PurgedTable DEF HasRow
    <2>2. /\ entries' = Cleared(entries, NoEntry, gone) /\ UNCHANGED <<dirs, reconcile>>
          /\ retire' = IF gone = {} THEN Advanced(q) ELSE retire
      BY <1>8 DEF PurgeEntries
    <2> HIDE DEF gone
    <2> QED BY <1>5, <2>1, <2>2
  <1>9. CASE PurgeRetirement(q)
    <2> DEFINE gone == PurgedRows(q, "subtree_retirement")
    <2>1. gone \subseteq Below[q]
      BY PurgedTable
    <2>2. /\ UNCHANGED <<dirs, reconcile, entries>>
          /\ retire' = IF gone = {} THEN Advanced(q) ELSE Cleared(retire, NoRetire, gone)
      BY <1>9 DEF PurgeRetirement
    <2> HIDE DEF gone
    <2>3. \A x \in Paths : /\ Retiring(x)' => Retiring(x) /\ retire'[x].current = retire[x].current
                           /\ Retiring(x) /\ x \notin gone =>
                                Retiring(x)' /\ retire'[x].preserve = retire[x].preserve
      <3>1. CASE gone = {}
        BY <1>4, <2>2, <3>1
      <3>2. CASE gone # {}
        <4>1. \A x \in Paths : retire'[x] = IF x \in gone THEN NoRetire ELSE retire[x]
          BY <2>2, <3>2, ClearedRow
        <4> QED BY <4>1, NothingFields DEF Retiring
      <3> QED BY <3>1, <3>2
    <2>4. Done(p)'
      BY <1>1, <1>2, <2>1, <2>2, <2>3, DoneRemoved DEF OnDisk
    <2> QED BY <1>1, <2>3, <2>4
  <1>10. CASE PurgeEnds(q)
    <2>1. /\ UNCHANGED <<dirs, reconcile, entries>>
          /\ \A x \in Paths : retire'[x] = IF x = q THEN NoRetire ELSE retire[x]
          /\ retire[q].phase = 4
      BY <1>10 DEF PurgeEnds
    <2>2. \A x \in Paths : Retiring(x)' => retire'[x].current
      BY <1>1, <2>1, NothingFields DEF Retiring
    <2>3. ASSUME q \in Children(p), LeftOver(p, q), retire[q].preserve = (entries[q].gen = dirs[p].gen)
          PROVE  FALSE
      <3>1. /\ ~dirs[q].known /\ \A x \in Below[q] : ~SavedEntry(x)
            /\ retire[q].preserve \/ ~SavedEntry(q)
        BY <1>1, <2>1 DEF PurgeInv
      <3>2. ~HasDirectoryState(q)
        BY <3>1 DEF HasDirectoryState
      <3> QED BY <2>3, <3>1, <3>2 DEF LeftOver
    <2>4. ASSUME NEW c \in Children(p), LeftOver(p, c)' PROVE ToldOf(p, c)'
      <3>1. LeftOver(p, c) /\ c \in Paths
        BY <2>1, <2>4 DEF LeftOver, SavedEntry, HasDirectoryState
      <3>2. ToldOf(p, c)
        BY <1>2, <3>1 DEF Done
      <3>3. CASE reconcile[p].gen = dirs[p].gen /\ reconcile[p].cursor < c
        BY <2>1, <3>3 DEF ToldOf
      <3>4. CASE Retiring(c) /\ retire[c].preserve = (entries[c].gen = dirs[p].gen)
        <4>1. c # q
          BY <2>3, <3>1, <3>4
        <4>2. retire'[c] = retire[c]
          BY <2>1, <3>1, <4>1
        <4> QED BY <2>1, <3>4, <4>2 DEF ToldOf, Retiring
      <3> QED BY <3>2, <3>3, <3>4 DEF ToldOf
    <2>5. Done(p)'
      BY <1>2, <2>1, <2>4 DEF Done, Listed, SavedEntry, OnDisk, Matches
    <2> QED BY <2>2, <2>5
  <1> QED BY <1>6, <1>7, <1>8, <1>9, <1>10, PurgeSteps

LEMMA ReconcileQuiet ==
  ASSUME TypeInv, DoneInv, NoJobs, UNCHANGED disk, \A q \in Paths : ~Retiring(q),
         NEW s \in Paths, ReconcileSubtree(s), NEW p \in Paths, Openable(p)
  PROVE  Done(p)' /\ \A x \in Paths : Retiring(x)' => retire'[x].current
  <1> USE PathTypes, TypeFacts
  <1>1. Done(p) /\ UNCHANGED <<entries, dirs>>
    BY DoneIdle, ReconcileSteps DEF ReconcileEnds, ReconcileBatch
  <1>2. \A c \in Children(p) : /\ c \in Paths /\ (LeftOver(p, c)' <=> LeftOver(p, c))
                               /\ LeftOver(p, c) => /\ reconcile[p].gen = dirs[p].gen
                                                    /\ reconcile[p].cursor < c /\ SavedEntry(c)
    <2>1. \A c \in Children(p) : LeftOver(p, c)' <=> LeftOver(p, c)
      BY <1>1 DEF LeftOver, SavedEntry, HasDirectoryState
    <2> QED BY <1>1, <2>1 DEF Done, ToldOf, LeftOver
  <1>3. ASSUME \A c \in Children(p) : LeftOver(p, c) => ToldOf(p, c)'
        PROVE  Done(p)'
    BY <1>1, <1>2, <1>3 DEF Done, Listed, SavedEntry, OnDisk, Matches
  <1>4. CASE ReconcileEnds(s)
    <2>1. UNCHANGED retire /\ \A x \in Paths : x # s => reconcile'[x] = reconcile[x]
      BY <1>4 DEF ReconcileEnds
    <2>2. \A x \in Paths : ~Retiring(x)'
      BY <2>1 DEF Retiring
    <2>3. CASE p # s
      BY <1>1, <1>2, <1>3, <2>1, <2>2, <2>3 DEF ToldOf
    <2>4. CASE p = s
      <3>1. ASSUME NEW c \in Children(p), LeftOver(p, c) PROVE FALSE
        <4>1. c \in RestOf(p)
          <5>1. c \in Nat /\ reconcile[p].cursor \in Nat
            BY DEF ReconcileRows
          <5> QED BY <1>2, <3>1, <5>1 DEF RestOf
        <4> QED BY <1>1, <1>2, <1>4, <2>4, <3>1, <4>1 DEF ReconcileEnds, Done
      <3> QED BY <1>3, <2>2, <3>1
    <2> QED BY <2>2, <2>3, <2>4
  <1>5. CASE ReconcileBatch(s)
    <2>1. PICK last \in Paths :
            /\ \A c \in RestOf(s) : c <= last => c \in BatchOf(s)
            /\ reconcile' = [reconcile EXCEPT ![s].cursor = last]
      BY <1>5 DEF ReconcileBatch, RestOf
    <2>2. \A c \in Paths : retire'[c] = IF c \in BatchOf(s) /\ ToRetire(s, c)
                             THEN [phase |-> 0, preserve |-> ~Absent(s, c), current |-> TRUE]
                             ELSE retire[c]
      BY <1>5 DEF ReconcileBatch
    <2>3. ASSUME NEW x \in Paths, Retiring(x)' PROVE retire'[x].current
      <3>1. CASE x \in BatchOf(s) /\ ToRetire(s, x)
        <4>1. retire'[x] = [phase |-> 0, preserve |-> ~Absent(s, x), current |-> TRUE]
          BY <2>2, <3>1
        <4>2. retire'[x].current = TRUE
          BY <4>1
        <4> QED BY <4>2
      <3>2. CASE ~(x \in BatchOf(s) /\ ToRetire(s, x))
        <4>1. retire'[x] = retire[x] /\ ~Retiring(x)
          BY <2>2, <3>2
        <4> QED BY <2>3, <4>1 DEF Retiring
      <3> QED BY <3>1, <3>2
    <2>4. CASE p # s
      <3>1. reconcile'[p] = reconcile[p]
        BY <2>1, <2>4
      <3> QED BY <1>1, <1>2, <1>3, <2>3, <3>1 DEF ToldOf
    <2>5. CASE p = s
      <3>1. reconcile'[p].gen = reconcile[p].gen /\ reconcile'[p].cursor = last
        BY <2>1, <2>5 DEF ReconcileRows
      <3>2. ASSUME NEW c \in Children(p), LeftOver(p, c) PROVE ToldOf(p, c)'
        <4>1. c \in Nat /\ reconcile[p].cursor \in Nat /\ last \in Nat /\ c \in Paths
          BY DEF ReconcileRows
        <4>2. c \in RestOf(p) /\ reconcile[p].gen = dirs[p].gen
          BY <1>2, <3>2, <4>1 DEF RestOf
        <4>3. CASE last < c
          BY <1>1, <3>1, <4>2, <4>3 DEF ToldOf
        <4>4. CASE ~(last < c)
          <5>1. c \in BatchOf(p)
            BY <2>1, <2>5, <4>1, <4>2, <4>4
          <5>2. ToRetire(p, c) /\ (Absent(p, c) <=> entries[c].gen # dirs[p].gen)
            BY <3>2, <4>2 DEF LeftOver, ToRetire, Absent
          <5>3. retire'[c] = [phase |-> 0, preserve |-> ~Absent(p, c), current |-> TRUE]
            BY <2>2, <2>5, <4>1, <5>1, <5>2
          <5>4. retire'[c].phase = 0 /\ retire'[c].preserve = (entries[c].gen = dirs[p].gen)
            BY <5>2, <5>3
          <5> QED BY <1>1, <5>4 DEF ToldOf, Retiring
        <4> QED BY <4>3, <4>4
      <3> QED BY <1>3, <2>3, <3>2
    <2> QED BY <2>3, <2>4, <2>5
  <1> QED BY <1>4, <1>5, ReconcileSteps

LEMMA RetireQuiet ==
  ASSUME TypeInv, ListingInv, AnchorInv, PurgeInv, ScanInv, DoneInv, RetireSubtrees
  PROVE  ScanInv' /\ DoneInv'
  <1>1. /\ UNCHANGED <<disk, jobs, stream, handler, quiet>> /\ NoJobs
        /\ stream = NoStream /\ handler = NoHandler
    BY RetireSteps, NoJobsIdle
  <1>2. /\ \A p \in Paths : ~HasJob(p)'
        /\ NoJobs'
        /\ \A p : Openable(p)' <=> Openable(p)
    BY <1>1 DEF NoJobs, HasJob, Openable
  <1>3. ScanInv'
    BY <1>1, <1>2, NothingFields DEF ScanInv
  <1>4. Openable(Root)'
    BY <1>1, <1>2, PathTypes DEF DoneInv, NoJobs
  <1>5. ASSUME NEW p \in Paths, Openable(p)
        PROVE  Done(p)' /\ \A x \in Paths : Retiring(x)' => retire'[x].current
    <2>1. ASSUME NEW q \in Paths, Retiring(q), DropStaleProof(q) PROVE FALSE
      BY <2>1 DEF DropStaleProof, DoneInv
    <2>2. ASSUME NEW q \in Paths, Retiring(q), PurgeSubtree(q)
          PROVE  Done(p)' /\ \A x \in Paths : Retiring(x)' => retire'[x].current
      BY <1>1, <1>5, <2>2, PurgeQuiet
    <2>3. ASSUME \A q \in Paths : ~Retiring(q), NEW q \in Paths, ReconcileSubtree(q)
          PROVE  Done(p)' /\ \A x \in Paths : Retiring(x)' => retire'[x].current
      BY <1>1, <1>5, <2>3, ReconcileQuiet
    <2> QED BY <2>1, <2>2, <2>3, RetireSteps
  <1>6. \A x \in Paths : Retiring(x)' => retire'[x].current
    <2>1. Root \in Paths /\ Openable(Root)
      BY <1>2, <1>4, PathTypes
    <2> QED BY <1>5, <2>1
  <1>7. DoneInv'
    BY <1>2, <1>4, <1>5, <1>6 DEF DoneInv
  <1> QED BY <1>3, <1>7

\* A new pass starts with a job for the root, and nothing left to maintain.
LEMMA SeedQuiet ==
  ASSUME TypeInv, ListingInv, SeedInventory
  PROVE  ScanInv' /\ DoneInv'
  <1> USE PathTypes, TypeFacts
  <1>1. /\ NoJobs /\ \A q \in Paths : ~Retiring(q)
        /\ UNCHANGED <<disk, entries, dirs, reconcile, retire, stream, handler>>
        /\ jobs' = [jobs EXCEPT ![Root] = [status |-> "pending", first |-> FALSE]]
    BY DEF SeedInventory, Drained, memory
  <1>2. stream = NoStream /\ handler = NoHandler
    BY <1>1, NoJobsIdle
  <1>3. HasJob(Root)' /\ \A q \in Paths : q # Root => ~HasJob(q)'
    BY <1>1 DEF HasJob, NoJobs
  <1>4. ScanInv'
    BY <1>1, <1>2, <1>3, NothingFields DEF ScanInv
  <1>5. ASSUME NEW p \in Paths PROVE Covered(p)'
    <2>1. Root \in Above[p] \cup {p}
      BY BelowRoot, AboveBelow
    <2> QED BY <1>3, <2>1 DEF Covered
  <1>6. \A q \in Paths : ~Retiring(q)'
    BY <1>1 DEF Retiring
  <1>7. DoneInv'
    BY <1>3, <1>5, <1>6 DEF DoneInv
  <1> QED BY <1>4, <1>7

\* In a quiet pass only the root can turn out to be away.
LEMMA FaultQuiet ==
  ASSUME TypeInv, ListingInv, ScanInv, DoneInv, CommitFault
  PROVE  ScanInv' /\ DoneInv'
  <1> USE PathTypes, TypeFacts
  <1>1. handler.at = "fault" /\ handler.job \in Paths /\ stream = NoStream
    BY DEF ListingInv, HandlerInv, CommitFault
  <1>2. handler.job = Root /\ HasJob(Root)
    BY <1>1 DEF ScanInv, TypeInv, TypeOK, HasJob
  <1>3. /\ handler' = NoHandler /\ UNCHANGED <<disk, entries, reconcile, stream>>
        /\ retire' = StaleProofs /\ jobs'[Root].status = "pending"
        /\ \A q \in Paths : q # Root => jobs'[q] = jobs[q]
    BY <1>1, <1>2, FaultFields
  <1>4. \A p \in Paths : ~Openable(p) /\ ~Openable(p)'
    <2>1. \A p \in Paths : ~Openable(p)
      BY <1>1, <1>2, OpenableRoot DEF ScanInv
    <2> QED BY <1>3, <2>1 DEF Openable
  <1>5. \A q \in Paths : HasJob(q)' /\ q # Root => HasJob(q)
    BY <1>3 DEF HasJob
  <1>6. ScanInv'
    BY <1>1, <1>3, <1>4, <1>5, NothingFields DEF ScanInv
  <1>7. \A q \in Paths : ~Retiring(q)'
    <2>1. \A q \in Paths : ~Retiring(q)
      BY <1>2 DEF DoneInv, NoJobs
    <2> QED BY <1>3, <2>1, StaleFields DEF Retiring
  <1>8. DoneInv'
    BY <1>3, <1>4, <1>7 DEF DoneInv, HasJob
  <1> QED BY <1>6, <1>8

LEMMA QuietStep ==
  ASSUME SavedInv, QuietInv, [Next]_vars
  PROVE  QuietInv'
  <1>0. TypeInv /\ ListingInv /\ AnchorInv /\ PurgeInv /\ quiet \in BOOLEAN
    BY DEF SavedInv, ListingInv, TypeInv
  <1>1. ASSUME NEW p \in Paths,
               (\E k \in Kinds[p] : Replace(p, k)) \/ Seal(p) \/ RootGone \/ EnqueueJob(p)
        PROVE  QuietInv'
    BY <1>1 DEF Replace, Seal, RootGone, Changed, EnqueueJob, QuietInv
  <1>2. CASE SeedInventory
    BY <1>0, <1>2, SeedQuiet DEF QuietInv
  <1>3. CASE Inside
    <2>1. UNCHANGED quiet
      BY <1>0, <1>3, InsideKeeps
    <2> QED BY <1>0, <1>3, <2>1, ScanKept, DoneKept DEF QuietInv
  <1>4. CASE CommitFault
    BY <1>0, <1>4, FaultQuiet DEF QuietInv, CommitFault, ghosts
  <1>5. CASE CommitScan
    BY <1>0, <1>5, CommitQuiet DEF QuietInv, CommitScan
  <1>6. CASE RetireSubtrees
    BY <1>0, <1>6, RetireQuiet DEF QuietInv, RetireSubtrees, ghosts
  <1> QED BY <1>1, <1>2, <1>3, <1>4, <1>5, <1>6, NextCases DEF Inside

\* In a pass that nothing outside touches, every directory that can be opened is
\* listed as it is or still waits for a job.
THEOREM PassInvariant == Spec => []PassInv
  <1>1. Init => PassInv
    <2> SUFFICES ASSUME Init PROVE PassInv
      OBVIOUS
    <2>1. SavedInv
      BY SavedInit
    <2>2. DiskInv
      BY PathTypes, StartsAssumption DEF Init, DiskInv
    <2>3. QuietInv
      BY DEF Init, QuietInv
    <2> QED BY <2>1, <2>2, <2>3 DEF PassInv
  <1>2. PassInv /\ [Next]_vars => PassInv'
    <2> SUFFICES ASSUME PassInv, [Next]_vars PROVE PassInv'
      OBVIOUS
    <2>1. SavedInv' /\ TypeInv
      BY SavedStep DEF PassInv, SavedInv
    <2> QED BY <2>1, DiskStep, QuietStep DEF PassInv
  <1> QED BY <1>1, <1>2, PTL DEF Spec

\* Nothing is on disk below a path that is not a directory.
LEMMA DiskChain ==
  ASSUME DiskInv, NEW a \in Paths, disk[a] \in {"absent", "file"}, disk[Root] = "dir", NEW p \in Below[a]
  PROVE  disk[p] = "absent"
  <1> DEFINE S == {x \in Paths : disk[x] = "absent"}
  <1> USE PathTypes
  <1>1. ASSUME NEW c \in 1..LastPath, Parent[c] = a \/ Parent[c] \in S PROVE c \in S
    <2>1. disk[Parent[c]] \in {"absent", "file"} /\ Parent[c] # Root
      BY <1>1
    <2> QED BY <2>1 DEF DiskInv
  <1>2. ClosedBelow(a, S) /\ S \in SUBSET Paths
    BY <1>1 DEF ClosedBelow, Children
  <1> QED BY <1>2, BelowLeast

\* A child of a done directory with nothing left to maintenance is saved as it is.
LEMMA ChildExact ==
  ASSUME AnchorInv, Drained, NEW p \in Paths, Done(p), NEW c \in Children(p)
  PROVE  /\ disk[c] = "absent" => ~SavedEntry(c)
         /\ disk[c] # "absent" => Matches(c)
         /\ disk[c] = "file" => ~HasDirectoryState(c)
  <1>1. ~LeftOver(p, c)
    <2>1. c \in Paths
      BY PathTypes
    <2>2. ~Reconciling(p) /\ ~Retiring(c)
      BY <2>1 DEF Drained
    <2>3. dirs[p].gen # 0 /\ reconcile[p].gen = 0
      BY <2>2 DEF Done, AnchorInv, Reconciling
    <2> QED BY <2>2, <2>3 DEF Done, ToldOf
  <1>2. ASSUME disk[c] = "absent" PROVE ~SavedEntry(c)
    BY <1>1, <1>2 DEF Done, Listed, OnDisk, LeftOver
  <1>3. ASSUME disk[c] # "absent" PROVE c \in OnDisk(p) /\ Matches(c)
    BY <1>3 DEF Done, OnDisk
  <1>4. ASSUME disk[c] = "file" PROVE ~HasDirectoryState(c)
    <2>1. SavedEntry(c) /\ entries[c].kind # "dir"
      BY <1>3, <1>4 DEF Done, Listed, Matches
    <2> QED BY <1>1, <2>1 DEF LeftOver
  <1> QED BY <1>2, <1>3, <1>4

\* Once a pass over an unchanging folder has drained, the saved inventory is the
\* folder, but for what is below directories that cannot be read.
THEOREM QuietPassExact == Spec => []PassExact
  <1>1. PassInv => PassExact
    <2> SUFFICES ASSUME PassInv, quiet, Drained, NEW p \in Paths, ~Hidden(p)
                 PROVE  entries[p].kind = CASE disk[p] = "sealed" -> "dir" [] OTHER -> disk[p]
      BY DEF PassExact, SavedMatchesDisk
    <2> USE PathTypes
    <2>1. TypeInv /\ AnchorInv /\ DoneInv /\ DiskInv /\ NoJobs
      BY DEF PassInv, SavedInv, QuietInv, Drained
    <2>2. /\ disk \in [Paths -> {"absent", "file", "dir", "sealed"}]
          /\ entries \in [Paths -> EntryRows]
      BY <2>1 DEF TypeInv, TypeOK
    <2>3. Openable(Root) /\ disk[Root] = "dir"
      BY <2>1, OpenableRoot DEF DoneInv, NoJobs
    <2>4. \A x \in Paths : Openable(x) => Done(x)
      BY <2>1, DoneIdle
    <2>5. ASSUME NEW x \in Paths, disk[x] # "absent", Matches(x)
          PROVE  entries[x].kind = CASE disk[x] = "sealed" -> "dir" [] OTHER -> disk[x]
      BY <2>2, <2>5 DEF Matches
    <2>6. CASE p = Root
      <3>1. dirs[Root].complete
        BY <2>3, <2>4 DEF Done
      <3>2. entries[Root].kind = "dir"
        BY <2>1, <3>1 DEF AnchorInv, SavedEntry
      <3> QED BY <2>3, <2>6, <3>2
    <2>7. CASE p # Root /\ Openable(Parent[p])
      <3>1. p \in Children(Parent[p]) /\ Done(Parent[p]) /\ Parent[p] \in Paths
        BY <2>4, <2>7
      <3>2. CASE disk[p] = "absent"
        BY <3>1, <3>2, <2>1, ChildExact DEF SavedEntry
      <3>3. CASE disk[p] # "absent"
        BY <2>5, <3>1, <3>3, <2>1, ChildExact
      <3> QED BY <3>2, <3>3
    <2>8. CASE p # Root /\ ~Openable(Parent[p])
      <3> DEFINE S == {x \in Above[p] : ~Openable(x)}
                 t == Min(S)
      <3>1. p \in Children(Parent[p]) /\ Parent[p] \in Paths /\ Parent[p] \in Above[p]
        <4>1. p \in Children(Parent[p]) /\ Parent[p] \in Paths
          BY <2>8
        <4>2. Above[p] = Above[Parent[p]] \cup {Parent[p]}
          BY <4>1, AboveChild
        <4> QED BY <4>1, <4>2
      <3>2. S \subseteq Paths /\ S # {} /\ S \subseteq Nat
        BY <2>8, <3>1, AboveBelow
      <3>3. t \in S /\ \A y \in S : t <= y
        <4> HIDE DEF S
        <4> QED BY <3>2, FirstPath
      <3> HIDE DEF t
      <3>4. t \in Paths /\ t \in Above[p] /\ ~Openable(t) /\ t # Root /\ p \in Below[t]
        BY <2>3, <3>2, <3>3, AboveBelow
      <3>5. t \in Children(Parent[t]) /\ Parent[t] \in Paths /\ Parent[t] < t
        BY <3>4
      <3>6. Parent[t] \in Above[p]
        <4>1. Parent[t] \in Above[t]
          <5>1. Above[t] = Above[Parent[t]] \cup {Parent[t]}
            BY <3>5, AboveChild
          <5> QED BY <5>1
        <4> QED BY <3>4, <4>1, AboveTrans
      <3>7. Openable(Parent[t])
        <4>1. ~(t <= Parent[t])
          <5>1. t \in Nat /\ Parent[t] \in Nat
            BY <3>4, <3>5
          <5> QED BY <3>5, <5>1
        <4> QED BY <3>3, <3>6, <4>1
      <3>8. disk[t] \in {"absent", "file"}
        <4>1. disk[t] # "dir"
          BY <3>4, <3>5, <3>7, OpenableChild
        <4>2. disk[t] # "sealed"
          BY <3>4 DEF Hidden
        <4> QED BY <2>2, <3>4, <4>1, <4>2
      <3>9. disk[p] = "absent"
        BY <2>1, <2>3, <3>4, <3>8, DiskChain
      <3>10. ~SavedEntry(p)
        <4>1. Done(Parent[t])
          BY <2>4, <3>5, <3>7
        <4>2. CASE disk[t] = "absent"
          <5>1. ~SavedEntry(t)
            BY <3>5, <4>1, <4>2, <2>1, ChildExact
          <5> QED BY <2>1, <3>4, <5>1, AnchorChain
        <4>3. CASE disk[t] = "file"
          <5>1. ~HasDirectoryState(t)
            BY <3>5, <4>1, <4>3, <2>1, ChildExact
          <5> QED BY <3>4, <5>1 DEF HasDirectoryState
        <4> QED BY <3>8, <4>2, <4>3
      <3> QED BY <3>9, <3>10 DEF SavedEntry
    <2> QED BY <2>6, <2>7, <2>8
  <1> QED BY <1>1, PassInvariant, PTL

-----------------------------------------------------------------------------
(* The receipt of a refresh.                                               *)

Slots == [gen: Nat, mode: BOOLEAN, phase: {"none", "pending", "active", "completed", "unknown"},
          observed: Nat, eof: BOOLEAN]
Queues == [root: {"none", "ready", "late"}, ready: Nat, late: Nat, upkeep: BOOLEAN]
Listings == [gen: Nat, complete: BOOLEAN, fault: BOOLEAN]
Runs == [op: {"none", "scan", "refresh"}, pc: {"down", "configure", "seed", "request", "loop"},
         want: BOOLEAN, stream: Nat, pass: Nat, fresh: BOOLEAN]
Passes == [gen: Nat, request: Nat, eof: BOOLEAN, drained: BOOLEAN]

\* The saved rows, the command and the history have their types.
RefreshTypeOK ==
  /\ slot \in Slots /\ mode \in BOOLEAN /\ queue \in Queues /\ dir \in Listings
  /\ run \in Runs /\ passes \in [1..MaxPasses -> Passes]

\* Listings are numbered in the order they start: the next number is free.
Numbered(n) ==
  \A p \in 1..MaxPasses : IF p <= n THEN passes[p].gen # 0 ELSE passes[p] = NoPass

\* An open stream belongs to a listing that was started under the receipt that
\* is still saved and has not ended.
RefreshStreamInv ==
  run.stream # 0 =>
    /\ run.pc = "loop" /\ run.pass \in 1..MaxPasses
    /\ passes[run.pass].gen = run.stream /\ passes[run.pass].request = slot.gen
    /\ ~passes[run.pass].eof

\* The work of a listing that ended is done, or maintenance is still due.
UpkeepInv ==
  \A p \in 1..MaxPasses : passes[p].eof => passes[p].drained \/ queue.upkeep

\* The listing a receipt saw end.
WitnessInv ==
  /\ slot.phase = "completed" => slot.eof
  /\ slot.eof => \E p \in 1..MaxPasses :
       passes[p].gen = slot.observed /\ passes[p].request = slot.gen
       /\ passes[p].eof /\ passes[p].gen # 0

\* A completed receipt's listing is also drained.
CompletedInv ==
  slot.phase = "completed" => \E p \in 1..MaxPasses :
    passes[p].gen = slot.observed /\ passes[p].request = slot.gen
    /\ passes[p].eof /\ passes[p].drained /\ passes[p].gen # 0

RefreshInv ==
  /\ RefreshTypeOK
  /\ \E n \in 0..MaxPasses : Numbered(n)
  /\ RefreshStreamInv /\ UpkeepInv /\ WitnessInv /\ CompletedInv

-----------------------------------------------------------------------------
LEMMA NoPassType == NoPass \in Passes /\ NoPass.gen = 0
  BY DEF NoPass, Pass, Passes

\* Pass: a new listing is told from none by its generation.
LEMMA NewPass ==
  ASSUME NEW gen \in ClockReadings, NEW request \in Nat
  PROVE  /\ Pass(gen, request) \in Passes /\ Pass(gen, request).gen = gen /\ gen # 0
         /\ gen \in Nat /\ Pass(gen, request).request = request
         /\ ~Pass(gen, request).eof
  BY ClockReadingsAssumption DEF Pass, Passes

\* The number OpenRoot gives to a listing is one that none has had.
LEMMA FreeNumber ==
  ASSUME RefreshTypeOK, NEW n \in 0..MaxPasses, Numbered(n)
  PROVE  Cardinality(Started) = n
  <1>1. Started = 1..n
    <2>1. \A p \in 1..MaxPasses : passes[p] # NoPass <=> p <= n
      BY NoPassType, RefreshBoundsAssumption DEF Numbered
    <2> QED BY <2>1, RefreshBoundsAssumption DEF Started
  <1>2. Cardinality(1..n) = n
    BY FS_Interval, RefreshBoundsAssumption
  <1> QED BY <1>1, <1>2

\* OpenRoot, in terms of that number.
LEMMA OpenRootNumbers ==
  ASSUME RefreshInv, OpenRoot
  PROVE  \E gen \in ClockReadings, n \in 0..MaxPasses :
           /\ n < MaxPasses /\ Numbered(n)
           /\ passes' = [passes EXCEPT ![n + 1] = Pass(gen, slot.gen)]
           /\ run' = [run EXCEPT !.stream = gen, !.pass = n + 1]
  <1>1. PICK n \in 0..MaxPasses : Numbered(n)
    BY DEF RefreshInv
  <1>2. Cardinality(Started) = n
    BY <1>1, FreeNumber DEF RefreshInv
  <1>3. PICK gen \in ClockReadings :
          /\ passes' = [passes EXCEPT ![Cardinality(Started) + 1] = Pass(gen, slot.gen)]
          /\ run' = [run EXCEPT !.stream = gen, !.pass = Cardinality(Started) + 1]
    BY DEF OpenRoot
  <1>4. n < MaxPasses
    BY <1>2 DEF OpenRoot
  <1> QED BY <1>1, <1>2, <1>3, <1>4

\* A step that leaves the history, the receipt and the open stream alone and
\* finishes no maintenance.
LEMMA Aside ==
  ASSUME RefreshInv, RefreshTypeOK', UNCHANGED <<slot, passes>>,
         queue.upkeep => queue'.upkeep,
         run'.stream = 0 \/ (run'.stream = run.stream /\ run'.pass = run.pass
                              /\ run'.pc = run.pc)
  PROVE  RefreshInv'
  <1>1. \E n \in 0..MaxPasses : Numbered(n)'
    BY DEF RefreshInv, Numbered
  <1>2. RefreshStreamInv'
    BY DEF RefreshInv, RefreshStreamInv
  <1>3. UpkeepInv' /\ WitnessInv' /\ CompletedInv'
    BY DEF RefreshInv, UpkeepInv, WitnessInv, CompletedInv
  <1> QED BY <1>1, <1>2, <1>3 DEF RefreshInv

LEMMA RefreshInitInv == RefreshInit => RefreshInv
  <1> SUFFICES ASSUME RefreshInit PROVE RefreshInv
    OBVIOUS
  <1>1. RefreshTypeOK
    BY NoPassType DEF RefreshInit, RefreshTypeOK, NoSlot, NoWork, Down, Slots, Queues, Listings, Runs
  <1>2. \A p \in 1..MaxPasses : passes[p] = NoPass /\ ~passes[p].eof
    BY DEF RefreshInit, NoPass, Pass
  <1>3. 0 \in 0..MaxPasses /\ Numbered(0)
    BY <1>2, RefreshBoundsAssumption DEF Numbered
  <1>4. RefreshStreamInv /\ UpkeepInv /\ WitnessInv /\ CompletedInv
    BY <1>2 DEF RefreshInit, RefreshStreamInv, UpkeepInv, WitnessInv, CompletedInv, Down, NoSlot
  <1> QED BY <1>1, <1>3, <1>4 DEF RefreshInv

\* Rewritten fields leave a queue a queue and a receipt a receipt.
LEMMA QueueType ==
  ASSUME NEW q \in Queues, NEW r \in {"none", "ready", "late"}, NEW n \in Nat, NEW l \in Nat,
         NEW u \in BOOLEAN
  PROVE  /\ [q EXCEPT !.root = r, !.ready = n, !.upkeep = u] \in Queues
         /\ [q EXCEPT !.ready = n, !.late = l, !.upkeep = u] \in Queues
         /\ [q EXCEPT !.ready = n, !.late = l, !.root = r] \in Queues
         /\ [q EXCEPT !.root = r] \in Queues
  BY DEF Queues

LEMMA SlotType ==
  ASSUME NEW x \in Slots, NEW n \in Nat, NEW m \in BOOLEAN
  PROVE  /\ [NoSlot EXCEPT !.gen = n, !.mode = m, !.phase = "pending"] \in Slots
         /\ [x EXCEPT !.phase = "unknown"] \in Slots
         /\ [x EXCEPT !.phase = "active"] \in Slots
  BY DEF NoSlot, Slots

LEMMA RefreshType ==
  ASSUME RefreshInv, [RefreshNext]_refreshVars
  PROVE  RefreshTypeOK'
  <1> USE DEF RefreshInv, RefreshTypeOK
  <1>0. Down \in Runs
    BY DEF Down, Runs
  <1>1. ASSUME NEW want \in BOOLEAN, Preflight(want) \/ BeginScan(want) PROVE RefreshTypeOK'
    BY <1>0, <1>1 DEF Preflight, BeginScan, Runs
  <1>2. CASE ConfigureCompact \/ SeedRoot \/ Adopt
    <2>1. run' \in Runs
      BY <1>0, <1>2 DEF ConfigureCompact, SeedRoot, Adopt, Stop, Runs
    <2>2. queue' \in Queues
      BY <1>2 DEF ConfigureCompact, SeedRoot, Adopt, Queues
    <2>3. mode' \in BOOLEAN
      BY <1>2 DEF ConfigureCompact, SeedRoot, Adopt, Runs
    <2> QED BY <1>2, <2>1, <2>2, <2>3 DEF ConfigureCompact, SeedRoot, Adopt
  <1>3. CASE LoseLineage \/ RequestManualRefresh
    <2>1. run' \in Runs
      BY <1>0, <1>3 DEF LoseLineage, RequestManualRefresh, Stop, Runs
    <2>2. slot' \in Slots
      <3>1. slot.gen + 1 \in Nat
        BY DEF Slots
      <3> QED BY <1>3, <3>1, SlotType DEF LoseLineage, RequestManualRefresh
    <2> QED BY <1>3, <2>1, <2>2 DEF LoseLineage, RequestManualRefresh
  <1>4. CASE TryActivate \/ RootFault
    <2>1. slot' \in Slots /\ queue' \in Queues
      BY <1>4, SlotType, QueueType DEF TryActivate, RootFault
    <2>2. run' \in Runs
      <3>1. /\ [run EXCEPT !.fresh = TRUE] \in Runs
            /\ [run EXCEPT !.stream = 0, !.pass = 0] \in Runs
        BY DEF Runs
      <3> QED BY <1>4, <3>1 DEF TryActivate, RootFault
    <2>3. dir' \in Listings
      BY <1>4 DEF TryActivate, RootFault, Listings
    <2> QED BY <1>4, <2>1, <2>2, <2>3 DEF TryActivate, RootFault
  <1>5. CASE OpenRoot
    <2>1. PICK gen \in ClockReadings, n \in 0..MaxPasses :
            /\ n < MaxPasses /\ Numbered(n)
            /\ passes' = [passes EXCEPT ![n + 1] = Pass(gen, slot.gen)]
            /\ run' = [run EXCEPT !.stream = gen, !.pass = n + 1]
      BY <1>5, OpenRootNumbers
    <2>2. Pass(gen, slot.gen) \in Passes /\ gen \in Nat /\ n + 1 \in Nat
      BY NewPass DEF Slots
    <2> QED BY <1>5, <2>1, <2>2 DEF OpenRoot, Runs
  <1>6. ASSUME NEW complete \in BOOLEAN, NEW children \in 0..MaxChildren,
               RootBatch(complete, children)
        PROVE  RefreshTypeOK'
    <2>1. children \in Nat /\ run.stream \in Nat
      BY RefreshBoundsAssumption DEF Runs
    <2>2. [passes EXCEPT ![run.pass].eof = complete] \in [1..MaxPasses -> Passes]
      BY DEF Passes
    <2>3. Recorded(complete) \in Slots
      BY <2>1 DEF Recorded, Slots
    <2>4. run' \in Runs
      <3>1. [run EXCEPT !.stream = 0, !.pass = 0, !.fresh = FALSE] \in Runs
        BY DEF Runs
      <3> QED BY <1>0, <1>6, <3>1 DEF RootBatch, Stop
    <2>5. passes' \in [1..MaxPasses -> Passes]
      BY <1>6, <2>2 DEF RootBatch
    <2>6. queue' \in Queues
      <3>1. [queue EXCEPT !.root = IF complete THEN "none" ELSE @, !.ready = @ + children,
                          !.upkeep = @ \/ complete] \in Queues
        <4>1. (queue.upkeep \/ complete) \in BOOLEAN /\ queue.ready + children \in Nat
              /\ (IF complete THEN "none" ELSE queue.root) \in {"none", "ready", "late"}
          BY <2>1 DEF Queues
        <4> QED BY <4>1, QueueType
      <3> QED BY <1>6, <3>1 DEF RootBatch
    <2>7. dir' \in Listings
      <3>1. [gen |-> run.stream, complete |-> complete, fault |-> FALSE] \in Listings
        BY <2>1 DEF Listings
      <3> QED BY <1>6, <3>1 DEF RootBatch
    <2>8. slot' \in Slots
      BY <1>6, <2>3 DEF RootBatch
    <2>9. mode' \in BOOLEAN
      BY <1>6 DEF RootBatch
    <2> QED BY <2>4, <2>5, <2>6, <2>7, <2>8, <2>9
  <1>7. ASSUME NEW done \in BOOLEAN, ChildBatch(done) PROVE RefreshTypeOK'
    <2>1. /\ queue.ready - 1 \in Nat /\ (IF done THEN queue.late ELSE queue.late + 1) \in Nat
          /\ (queue.upkeep \/ done) \in BOOLEAN
      BY <1>7 DEF ChildBatch, Queues
    <2>2. queue' \in Queues
      BY <1>7, <2>1, QueueType DEF ChildBatch
    <2> QED BY <1>7, <2>2 DEF ChildBatch
  <1>8. CASE Maintain
    <2>1. queue' \in Queues
      BY <1>8 DEF Maintain, Queues
    <2>2. passes' \in [1..MaxPasses -> Passes]
      BY <1>8 DEF Maintain, Settled, Passes
    <2> QED BY <1>8, <2>1, <2>2 DEF Maintain
  <1>9. CASE FinalizeManualRefresh
    <2>1. slot' \in Slots
      BY <1>9 DEF FinalizeManualRefresh, Slots
    <2> QED BY <1>0, <1>9, <2>1 DEF FinalizeManualRefresh, Stop
  <1>10. CASE FinishScan \/ End \/ RetryDue
    <2>1. queue' \in Queues
      <3>1. /\ queue.ready + queue.late \in Nat
            /\ (IF queue.root = "late" THEN "ready" ELSE queue.root) \in {"none", "ready", "late"}
        BY DEF Queues
      <3>2. [queue EXCEPT !.ready = @ + queue.late, !.late = 0,
                          !.root = IF @ = "late" THEN "ready" ELSE @] \in Queues
        BY <3>1, QueueType
      <3> QED BY <1>10, <3>2 DEF FinishScan, End, RetryDue
    <2> QED BY <1>0, <1>10, <2>1 DEF FinishScan, End, RetryDue, Stop
  <1>11. CASE UNCHANGED refreshVars
    BY <1>11 DEF refreshVars
  <1> QED
    BY <1>1, <1>2, <1>3, <1>4, <1>5, <1>6, <1>7, <1>8, <1>9, <1>10, <1>11 DEF RefreshNext

\* OpenRoot: a listing starts under the saved receipt, with a number of its own.
LEMMA OpenRootStep ==
  ASSUME RefreshInv, RefreshTypeOK', OpenRoot
  PROVE  RefreshInv'
  <1> USE DEF RefreshInv, RefreshTypeOK
  <1>1. PICK gen \in ClockReadings, n \in 0..MaxPasses :
          /\ n < MaxPasses /\ Numbered(n)
          /\ passes' = [passes EXCEPT ![n + 1] = Pass(gen, slot.gen)]
          /\ run' = [run EXCEPT !.stream = gen, !.pass = n + 1]
    BY OpenRootNumbers
  <1>2. /\ n + 1 \in 1..MaxPasses /\ run.pc = "loop" /\ UNCHANGED <<slot, queue>>
        /\ passes[n + 1] = NoPass
    BY <1>1, RefreshBoundsAssumption DEF OpenRoot, Numbered
  <1>3. /\ passes'[n + 1].gen = gen /\ gen # 0 /\ passes'[n + 1].request = slot.gen
        /\ ~passes'[n + 1].eof
        /\ \A p \in 1..MaxPasses : p # n + 1 => passes'[p] = passes[p]
    BY <1>1, <1>2, NewPass DEF Slots
  <1>4. run'.stream = gen /\ run'.pass = n + 1 /\ run'.pc = "loop"
    BY <1>1, <1>2 DEF Runs
  <1>5. n + 1 \in 0..MaxPasses /\ Numbered(n + 1)'
    BY <1>1, <1>2, <1>3, RefreshBoundsAssumption DEF Numbered
  <1>6. ~passes[n + 1].eof
    BY <1>2 DEF NoPass, Pass
  <1>7. RefreshStreamInv' /\ UpkeepInv'
    BY <1>2, <1>3, <1>4 DEF RefreshStreamInv, UpkeepInv
  <1>8. WitnessInv' /\ CompletedInv'
    BY <1>2, <1>3, <1>6 DEF WitnessInv, CompletedInv
  <1> QED BY <1>5, <1>7, <1>8

\* CommitScan and CommitManualRefreshScan of a root batch: the receipt records
\* the end of exactly the listing that ends.
LEMMA RootBatchStep ==
  ASSUME RefreshInv, RefreshTypeOK', NEW complete \in BOOLEAN, NEW children \in 0..MaxChildren,
         RootBatch(complete, children)
  PROVE  RefreshInv'
  <1> USE DEF RefreshInv, RefreshTypeOK
  <1>1. CASE Witnessing /\ ~SameListing
    BY <1>1, Aside DEF RootBatch, Stop, Down
  <1>2. CASE ~(Witnessing /\ ~SameListing)
    <2> DEFINE p == run.pass
    <2>1. /\ run.stream # 0 /\ run.pc = "loop" /\ p \in 1..MaxPasses
          /\ passes[p].gen = run.stream /\ passes[p].request = slot.gen /\ ~passes[p].eof
      BY DEF RootBatch, RefreshStreamInv
    <2> HIDE DEF p
    <2>2. /\ passes' = [passes EXCEPT ![p].eof = complete]
          /\ slot' = IF Witnessing THEN Recorded(complete) ELSE slot
          /\ run' = IF complete THEN [run EXCEPT !.stream = 0, !.pass = 0, !.fresh = FALSE]
                    ELSE run
          /\ queue'.upkeep = (queue.upkeep \/ complete)
      BY <1>2 DEF RootBatch, p, Queues
    <2>3. /\ passes'[p].gen = run.stream /\ passes'[p].request = slot.gen
          /\ passes'[p].eof = complete /\ passes'[p].drained = passes[p].drained
          /\ \A q \in 1..MaxPasses : q # p => passes'[q] = passes[q]
      BY <2>1, <2>2 DEF Passes
    <2>4. PICK n \in 0..MaxPasses : Numbered(n)
      OBVIOUS
    <2>5. Numbered(n)'
      BY <2>1, <2>3, <2>4, NoPassType DEF Numbered
    <2>6. slot'.gen = slot.gen /\ slot'.phase = slot.phase
      BY <2>2 DEF Recorded, Slots
    <2>7. RefreshStreamInv'
      BY <2>1, <2>2, <2>3, <2>6 DEF RefreshStreamInv, Runs, p
    <2>8. UpkeepInv'
      BY <2>1, <2>2, <2>3 DEF UpkeepInv
    <2>9. CASE Witnessing
      <3>1. slot'.observed = run.stream /\ slot'.eof = complete /\ ~slot.eof
        BY <1>2, <2>2, <2>9 DEF Recorded, Slots, SameListing, Witnessing
      <3>2. slot.phase # "completed"
        BY <3>1 DEF WitnessInv
      <3>3. WitnessInv' /\ CompletedInv'
        BY <2>1, <2>3, <2>6, <3>1, <3>2 DEF WitnessInv, CompletedInv
      <3> QED BY <2>5, <2>7, <2>8, <3>3
    <2>10. CASE ~Witnessing
      <3>1. slot' = slot
        BY <2>2, <2>10
      <3>2. WitnessInv' /\ CompletedInv'
        BY <2>1, <2>3, <3>1 DEF WitnessInv, CompletedInv
      <3> QED BY <2>5, <2>7, <2>8, <3>2
    <2> QED BY <2>9, <2>10
  <1> QED BY <1>1, <1>2

\* Maintenance of the last job drains every listing that ended.
LEMMA MaintainStep ==
  ASSUME RefreshInv, RefreshTypeOK', Maintain
  PROVE  RefreshInv'
  <1> USE DEF RefreshInv, RefreshTypeOK
  <1>1. WorkDrained(queue') /\ UNCHANGED <<slot, run>>
    BY DEF Maintain, NothingDue, WorkDrained, Queues
  <1>2. \A p \in 1..MaxPasses :
          /\ passes'[p].gen = passes[p].gen /\ passes'[p].request = passes[p].request
          /\ passes'[p].eof = passes[p].eof
          /\ passes[p].eof => passes'[p].drained
          /\ passes[p].drained => passes'[p].drained
          /\ ~passes[p].eof => passes'[p] = passes[p]
    BY <1>1 DEF Maintain, Settled, Passes
  <1>3. PICK n \in 0..MaxPasses : Numbered(n)
    OBVIOUS
  <1>4. \A p \in 1..MaxPasses : passes[p] = NoPass => ~passes[p].eof
    BY DEF NoPass, Pass
  <1>5. Numbered(n)'
    BY <1>2, <1>3, <1>4 DEF Numbered
  <1>6. RefreshStreamInv' /\ UpkeepInv' /\ WitnessInv' /\ CompletedInv'
    BY <1>1, <1>2 DEF RefreshStreamInv, UpkeepInv, WitnessInv, CompletedInv
  <1> QED BY <1>5, <1>6

\* A step that rewrites the receipt between two passes, or ends it.
LEMMA ReceiptStep ==
  ASSUME RefreshInv, RefreshTypeOK',
         LoseLineage \/ RequestManualRefresh \/ TryActivate \/ FinalizeManualRefresh
  PROVE  RefreshInv'
  <1> USE DEF RefreshInv, RefreshTypeOK
  <1>1. passes' = passes /\ (queue.upkeep => queue'.upkeep)
    BY DEF LoseLineage, RequestManualRefresh, TryActivate, FinalizeManualRefresh, Queues
  <1>2. UpkeepInv' /\ \E n \in 0..MaxPasses : Numbered(n)'
    BY <1>1 DEF UpkeepInv, Numbered
  <1>3. CASE LoseLineage
    <2>1. slot'.phase = "unknown" /\ ~slot'.eof /\ run'.stream = 0
      BY <1>3 DEF LoseLineage, Lost, Stop, Down, Slots
    <2> QED BY <1>2, <2>1 DEF RefreshStreamInv, WitnessInv, CompletedInv
  <1>4. CASE RequestManualRefresh
    <2>1. run.stream = 0
      BY <1>4 DEF RequestManualRefresh, At, RefreshStreamInv
    <2>2. run'.stream = 0
      BY <1>4, <2>1 DEF RequestManualRefresh, Stop, Down, Runs
    <2>3. slot' = slot \/ (slot'.phase = "pending" /\ ~slot'.eof)
      BY <1>4 DEF RequestManualRefresh, NoSlot
    <2> QED BY <1>1, <1>2, <2>2, <2>3 DEF RefreshStreamInv, WitnessInv, CompletedInv
  <1>5. CASE TryActivate
    <2>1. /\ slot'.phase = "active" /\ slot'.eof = slot.eof /\ slot'.gen = slot.gen
          /\ slot'.observed = slot.observed
          /\ run'.stream = run.stream /\ run'.pass = run.pass /\ run'.pc = run.pc
      BY <1>5 DEF TryActivate, Slots, Runs
    <2> QED BY <1>1, <1>2, <2>1 DEF RefreshStreamInv, WitnessInv, CompletedInv
  <1>6. CASE FinalizeManualRefresh
    <2>1. /\ run'.stream = 0 /\ slot'.eof = slot.eof /\ slot'.gen = slot.gen
          /\ slot'.observed = slot.observed
      BY <1>6 DEF FinalizeManualRefresh, Stop, Down, Slots
    <2>2. slot'.phase = "completed" /\ slot.phase # "completed" => slot.eof /\ ~queue.upkeep
      BY <1>6 DEF FinalizeManualRefresh, WorkDrained, Slots
    <2>3. RefreshStreamInv' /\ WitnessInv'
      BY <1>1, <2>1, <2>2 DEF RefreshStreamInv, WitnessInv
    <2>4. CompletedInv'
      BY <1>1, <2>1, <2>2 DEF CompletedInv, WitnessInv, UpkeepInv
    <2> QED BY <1>2, <2>3, <2>4
  <1> QED BY <1>3, <1>4, <1>5, <1>6

LEMMA RefreshStep == RefreshInv /\ [RefreshNext]_refreshVars => RefreshInv'
  <1> SUFFICES ASSUME RefreshInv, [RefreshNext]_refreshVars PROVE RefreshInv'
    OBVIOUS
  <1>0. RefreshTypeOK' /\ RefreshTypeOK /\ RefreshStreamInv
    BY RefreshType DEF RefreshInv
  <1> USE DEF RefreshTypeOK
  <1>1. ASSUME NEW want \in BOOLEAN, Preflight(want) \/ BeginScan(want) PROVE RefreshInv'
    BY <1>0, <1>1, Aside DEF Preflight, BeginScan, Down
  <1>2. CASE ConfigureCompact \/ SeedRoot \/ Adopt
    <2>1. run.stream = 0 /\ run'.stream = 0
      BY <1>0, <1>2 DEF ConfigureCompact, SeedRoot, Adopt, At, Stop, Down, Runs, RefreshStreamInv
    <2> QED BY <1>0, <1>2, <2>1, Aside DEF ConfigureCompact, SeedRoot, Adopt, Queues
  <1>3. CASE RootFault \/ RetryDue \/ FinishScan \/ End
    <2>1. queue'.upkeep = queue.upkeep
      BY <1>0, <1>3 DEF RootFault, RetryDue, FinishScan, End, Queues
    <2>2. run' = run \/ run'.stream = 0
      <3>1. Down.stream = 0 /\ [run EXCEPT !.stream = 0, !.pass = 0].stream = 0
        BY <1>0 DEF Down, Runs
      <3> QED BY <1>3, <3>1 DEF RootFault, RetryDue, FinishScan, End, Stop
    <2> QED BY <1>0, <1>3, <2>1, <2>2, Aside DEF RootFault, RetryDue, FinishScan, End
  <1>4. ASSUME NEW done \in BOOLEAN, ChildBatch(done) PROVE RefreshInv'
    BY <1>0, <1>4, Aside DEF ChildBatch, Queues
  <1>5. CASE UNCHANGED refreshVars
    BY <1>0, <1>5, Aside DEF refreshVars
  <1> QED
    BY <1>0, <1>1, <1>2, <1>3, <1>4, <1>5, OpenRootStep, RootBatchStep, MaintainStep,
       ReceiptStep DEF RefreshNext

\* The inductive invariant of the receipt, its queue and its listings.
THEOREM RefreshInvariant == RefreshSpec => []RefreshInv
  <1> QED BY RefreshInitInv, RefreshStep, PTL DEF RefreshSpec

\* FinalizeManualRefresh: a completed receipt is about one listing that started
\* after the request, ran to its end and whose work is done, however often
\* commands stop and generations repeat.
THEOREM CompletedReceiptsTrue == RefreshSpec => []CompletedPass
  <1>1. RefreshInv => CompletedPass
    <2> SUFFICES ASSUME RefreshInv, slot.phase = "completed" PROVE CompletedPass
      BY DEF CompletedPass
    <2>1. PICK p \in 1..MaxPasses :
            /\ passes[p].gen = slot.observed /\ passes[p].request = slot.gen
            /\ passes[p].eof /\ passes[p].drained /\ passes[p].gen # 0
      BY DEF RefreshInv, CompletedInv
    <2>2. p \in Started
      BY <2>1, NoPassType DEF Started
    <2> QED BY <2>1, <2>2 DEF CompletedPass
  <1> QED BY <1>1, RefreshInvariant, PTL
=============================================================================
