------------------------- MODULE SourceLocksProofs -------------------------
(***************************************************************************)
(* The files of a project and its locks, for every set of packs, profiles  *)
(* and sources.  A lock file that is not stale says what was compiled: the *)
(* invariant does not speak of the files at all, for what was compiled     *)
(* last is a function of what the lock file recorded (FreshInv).  The      *)
(* shared file holds what was asked for (AskedInv), a materialized one     *)
(* decides alone (CopiedInv), a clone that was brought up to date is where *)
(* its entry says, until it is moved (SyncInv, over LayersInv and          *)
(* HeldInv), and the shared lock loses no entry (EntriesStay).             *)
(***************************************************************************)
EXTENDS SourceLocks, TLAPS

\* The layer of a profile, from its name and the text of its file.
LayerFrom(name, file) ==
    IF name = Unset THEN EmptyLayer ELSE FirstSet(file, FirstSet(Template[name], EmptyLayer))

Recorded == Selection(Merged(LayerFrom(lock.name, lock.profile), lock.config, lock.local))

LockShape ==
    DOMAIN lock = {"targets", "config", "name", "profile", "local", "sources"}

LockDescribes == lock.targets # {} /\ ~vouched => compiled = Recorded

FreshInv == LockShape /\ LockDescribes

\* A step that changes no more of the lock file than its source entries.
KeepsRecord ==
    /\ lock' = lock \/ \E entries : lock' = [lock EXCEPT !.sources = entries]
    /\ UNCHANGED <<compiled, vouched>>

LEMMA KeptRecord ==
  ASSUME FreshInv, KeepsRecord
  PROVE  FreshInv'
<1>1. CASE lock' = lock
  BY <1>1 DEF FreshInv, LockShape, LockDescribes, Recorded, KeepsRecord
<1>2. ASSUME NEW entries, lock' = [lock EXCEPT !.sources = entries]
      PROVE  FreshInv'
  <2>1. /\ DOMAIN lock' = DOMAIN lock
        /\ lock'.targets = lock.targets /\ lock'.config = lock.config
        /\ lock'.name = lock.name /\ lock'.profile = lock.profile
        /\ lock'.local = lock.local
    BY <1>2 DEF FreshInv, LockShape
  <2> QED
    BY <2>1 DEF FreshInv, LockShape, LockDescribes, Recorded, KeepsRecord
<1> QED
  BY <1>1, <1>2 DEF KeepsRecord

\* What a compile records is what it compiled.
LEMMA CompileRecords ==
  ASSUME FreshInv, NEW call, NEW known, CompileAll(call, known)
  PROVE  FreshInv'
<1>1. /\ DOMAIN lock' = DOMAIN lock
      /\ lock'.config = shared /\ lock'.name = Active(call)
      /\ lock'.profile = ProfileFile(Active(call)) /\ lock'.local = local
  BY DEF CompileAll, FreshInv, LockShape
<1>2. compiled' = Selection(Config(call))
  BY DEF CompileAll
<1>3. ProfileLayer(Active(call), profiles) = LayerFrom(Active(call), ProfileFile(Active(call)))
  BY DEF ProfileLayer, LayerFrom, ProfileFile
<1>4. compiled' = Recorded'
  BY <1>1, <1>2, <1>3 DEF Config, Recorded
<1> QED
  BY <1>1, <1>4 DEF FreshInv, LockShape, LockDescribes

\* A lock file without targets says nothing.
LEMMA EmptiedLock ==
  ASSUME LockShape', lock'.targets = {}
  PROVE  FreshInv'
BY DEF FreshInv, LockDescribes

LEMMA FreshStart == SInit => FreshInv
BY DEF SInit, FreshInv, LockShape, LockDescribes, EmptyLock

LEMMA FreshStep ==
  ASSUME FreshInv, [SNext]_vars
  PROVE  FreshInv'
<1>1. CASE UNCHANGED vars
  <2>1. KeepsRecord
    BY <1>1 DEF vars, svars, fvars, hvars, KeepsRecord
  <2> QED
    BY <2>1, KeptRecord
<1>2. CASE NewProject
  <2>1. ASSUME NEW call, NEW targets, NEW role, NEW detect, NEW bind,
               Init_(call, targets, role, detect, bind) \/ Setup(call, targets, bind)
        PROVE  KeepsRecord
    BY <2>1 DEF Init_, Setup, KeepsRecord
  <2>2. ASSUME InitLock
        PROVE  FreshInv'
    <3>1. LockShape' /\ lock'.targets = {}
      BY <2>2 DEF InitLock, EmptyLock, LockShape
    <3> QED
      BY <3>1, EmptiedLock
  <2>3. ASSUME SetPolicy \/ PolicyConfig \/ ImportFiles
        PROVE  KeepsRecord
    BY <2>3 DEF SetPolicy, PolicyConfig, ImportFiles, fvars, hvars, KeepsRecord
  <2>4. ASSUME PolicyLock
        PROVE  FreshInv'
    <3>1. /\ DOMAIN lock' = DOMAIN lock
          /\ lock'.targets = lock.targets /\ lock'.config = shared
          /\ lock'.name = lock.name /\ lock'.profile = lock.profile
          /\ lock'.local = lock.local
      BY <2>4 DEF PolicyLock, FreshInv, LockShape
    <3>2. /\ compiled' = compiled
          /\ vouched' = (vouched \/ (lock.targets # {} /\ lock.config # shared))
      BY <2>4 DEF PolicyLock
    <3>3. lock'.targets # {} /\ ~vouched' => lock'.config = lock.config /\ ~vouched
      BY <3>1, <3>2
    <3> QED
      BY <3>1, <3>2, <3>3 DEF FreshInv, LockShape, LockDescribes, Recorded
  <2>5. ASSUME NEW opt, NEW how, Import(opt, how) \/ Convert(how)
        PROVE  KeepsRecord
    BY <2>5 DEF Import, Convert, KeepsRecord
  <2>6. ASSUME ImportLock
        PROVE  FreshInv'
    <3>1. LockShape' /\ lock'.targets = {}
      BY <2>6 DEF ImportLock, FreshInv, LockShape
    <3> QED
      BY <3>1, EmptiedLock
  <2> QED
    BY <1>2, <2>1, <2>2, <2>3, <2>4, <2>5, <2>6, KeptRecord DEF NewProject
<1>3. CASE Profiles
  <2>1. KeepsRecord
    BY <1>3 DEF Profiles, ProjectLink, EditProfile, SetDefault, LibraryInit, EditLocal,
                KeepsRecord
  <2> QED
    BY <2>1, KeptRecord
<1>4. CASE Packs
  <2>1. ASSUME NEW after, NEW p, NEW known, NEW isLocal, NEW ts,
               \/ Add(Plain, p, known, after) \/ Use(p, isLocal, known, after)
               \/ Remove(p, after) \/ TargetAdd(ts, after) \/ TargetRemove(ts, after)
        PROVE  KeepsRecord
    BY <2>1 DEF Add, Use, Remove, TargetAdd, TargetRemove, WriteShared, fvars, hvars,
                KeepsRecord
  <2> QED
    BY <1>4, <2>1, KeptRecord DEF Packs
<1>5. CASE Compiles
  BY <1>5, CompileRecords DEF Compiles, Compile
<1>6. CASE Crash
  <2>1. KeepsRecord
    BY <1>6 DEF Crash, fvars, hvars, KeepsRecord
  <2> QED
    BY <2>1, KeptRecord
<1>7. CASE Sources
  <2>1. ASSUME NEW s, SourceAdd(s) \/ SourceRemove(s.id)
        PROVE  KeepsRecord
    BY <2>1 DEF SourceAdd, SourceRemove, hvars, KeepsRecord
  <2>2. ASSUME NEW call, NEW chosen, NEW force,
               SourceSync(call, chosen, force) \/ SourceSyncFails(call, chosen, force)
        PROVE  KeepsRecord
    BY <2>2 DEF SourceSync, SourceSyncFails, fvars, hvars, KeepsRecord
  <2>3. ASSUME PublicLock
        PROVE  KeepsRecord
    BY <2>3 DEF PublicLock, hvars, KeepsRecord
  <2>4. ASSUME NEW call, NEW strict, NEW u, NEW id,
               \/ PrivateLock \/ Sync(call, strict) \/ SyncIsExposed \/ SyncStops
               \/ UpstreamMoves(u) \/ EditCache(id)
        PROVE  KeepsRecord
    BY <2>4 DEF PrivateLock, Sync, SyncIsExposed, SyncStops, UpstreamMoves, EditCache,
                fvars, hvars, KeepsRecord
  <2>5. ASSUME SyncPasses
        PROVE  FreshInv'
    BY <2>5, CompileRecords DEF SyncPasses
  <2> QED
    BY <1>7, <2>1, <2>2, <2>3, <2>4, <2>5, KeptRecord DEF Sources
<1> QED
  BY <1>1, <1>2, <1>3, <1>4, <1>5, <1>6, <1>7 DEF SNext

\* A lock file that agrees with the files agrees with the compile.
LEMMA FreshIsCurrent == FreshInv => FreshLockIsCurrent
<1> SUFFICES ASSUME FreshInv, NEW call \in Calls,
                    HasConfig, lock.targets # {}, ~Stale(call), ~vouched
             PROVE  compiled = Selection(Config(call))
  BY DEF FreshLockIsCurrent
<1>1. /\ lock.config = shared /\ lock.name = Active(call) /\ lock.local = local
      /\ lock.profile = ProfileFile(Active(call))
  BY DEF Stale
<1>2. ProfileLayer(Active(call), profiles) = LayerFrom(Active(call), ProfileFile(Active(call)))
  BY DEF ProfileLayer, LayerFrom, ProfileFile
<1>3. compiled = Recorded
  BY DEF FreshInv, LockDescribes
<1> QED
  BY <1>1, <1>2, <1>3 DEF Config, Recorded

\* In every reachable state a lock file that lock_is_stale passes selects what
\* was compiled last, whichever way a command is called.
THEOREM FreshLocks == SetupSpec => []FreshLockIsCurrent
<1>1. SInit => FreshInv
  BY FreshStart
<1>2. FreshInv /\ [SNext]_vars => FreshInv'
  BY FreshStep
<1>3. FreshInv => FreshLockIsCurrent
  BY FreshIsCurrent
<1> QED
  BY <1>1, <1>2, <1>3, PTL DEF SetupSpec

-----------------------------------------------------------------------------
(* What is in metactl.yaml                                                 *)

FileShape == HasConfig => DOMAIN shared = Fields

AskedInv == FileShape /\ SharedHoldsOnlyAsked

\* A step that gives the file no pack and no source, or only those it is
\* asked for.
WritesAsked ==
    /\ DOMAIN shared' = Fields
    /\ \E packs, sources :
          /\ shared'.packs \subseteq (IF HasConfig THEN shared.packs ELSE {}) \union packs
          /\ shared'.sources \subseteq (IF HasConfig THEN shared.sources ELSE {}) \union sources
          /\ asked'.packs = asked.packs \union packs
          /\ asked'.sources = asked.sources \union sources

LEMMA AskedWritten ==
  ASSUME AskedInv, WritesAsked
  PROVE  AskedInv'
BY DEF AskedInv, FileShape, SharedHoldsOnlyAsked, HasConfig, WritesAsked

LEMMA AskedKept ==
  ASSUME AskedInv, UNCHANGED <<shared, asked>>
  PROVE  AskedInv'
BY DEF AskedInv, FileShape, SharedHoldsOnlyAsked, HasConfig

LEMMA InitWrites ==
  ASSUME NEW call, NEW targets, NEW role, NEW detect, NEW bind, NEW after,
         InitConfig(call, targets, role, detect, bind, after)
  PROVE  WritesAsked
<1> DEFINE p == ProfileForInit(call, default)
           layer == ProfileLayer(p, profiles)
           chosen == FirstSet(role, FirstSet(layer.role, Builder))
           packs == IF layer.packs = {} THEN RolePacks[chosen] ELSE {}
<1>1. /\ DOMAIN shared' = Fields
      /\ shared'.packs = packs /\ shared'.sources = {}
  BY DEF InitConfig, InitLayer, Fields
<1>2. /\ asked'.packs = asked.packs \union packs
      /\ asked'.sources = asked.sources \union {}
  BY DEF InitConfig, Asks
<1> QED
  BY <1>1, <1>2 DEF WritesAsked

\* An import adds what it projects to the file, or puts it in its place.
LEMMA ImportWrites ==
  ASSUME AskedInv, NEW new, NEW fields, NEW how, NEW packs, NEW sources,
         DOMAIN new = Fields, new.packs \subseteq packs, new.sources \subseteq sources,
         WriteImport(new, fields, how), Asks(packs, sources)
  PROVE  WritesAsked
<1>1. /\ asked'.packs = asked.packs \union packs
      /\ asked'.sources = asked.sources \union sources
  BY DEF Asks
<1>2. CASE shared = Unset
  <2>1. shared' = new
    BY <1>2 DEF WriteImport
  <2> QED
    BY <1>1, <2>1 DEF WritesAsked
<1>3. CASE shared # Unset /\ how = "merge"
  <2>1. shared' = MergeImport(shared, new, fields)
    BY <1>3 DEF WriteImport
  <2>2. /\ DOMAIN shared' = Fields
        /\ shared'.packs \subseteq shared.packs \union packs
        /\ shared'.sources \subseteq shared.sources \union sources
    BY <2>1 DEF MergeImport, Fields
  <2> QED
    BY <1>1, <1>3, <2>2 DEF WritesAsked, HasConfig
<1>4. CASE shared # Unset /\ how # "merge"
  <2>1. shared' = ReplaceImport(shared, new, fields)
    BY <1>4 DEF WriteImport
  <2>2. DOMAIN shared' = Fields /\ \A f \in Fields : shared'[f] \in {new[f], shared[f]}
    BY <2>1 DEF ReplaceImport
  <2>3. shared'.packs \in {new.packs, shared.packs} /\ shared'.sources \in {new.sources, shared.sources}
    BY <2>2 DEF Fields
  <2> QED
    BY <1>1, <1>4, <2>2, <2>3 DEF WritesAsked, HasConfig
<1> QED
  BY <1>2, <1>3, <1>4

\* A command that changes one list of the file.
LEMMA EditWrites ==
  ASSUME AskedInv, HasConfig, NEW field \in Fields, NEW value, NEW packs, NEW sources,
         shared' = [shared EXCEPT ![field] = value], Asks(packs, sources),
         field = "packs" => value \subseteq shared.packs \union packs,
         field = "sources" => value \subseteq shared.sources \union sources
  PROVE  WritesAsked
<1>1. /\ DOMAIN shared' = Fields
      /\ \A f \in Fields : shared'[f] = IF f = field THEN value ELSE shared[f]
  BY DEF AskedInv, FileShape
<1>2. /\ shared'.packs \subseteq shared.packs \union packs
      /\ shared'.sources \subseteq shared.sources \union sources
  BY <1>1 DEF Fields
<1>3. /\ asked'.packs = asked.packs \union packs
      /\ asked'.sources = asked.sources \union sources
  BY DEF Asks
<1> QED
  BY <1>1, <1>2, <1>3 DEF WritesAsked

LEMMA AskedStart == SInit => AskedInv
<1> SUFFICES ASSUME SInit
             PROVE  AskedInv
  OBVIOUS
<1>1. CASE shared = Unset
  BY <1>1 DEF AskedInv, FileShape, SharedHoldsOnlyAsked, HasConfig
<1>2. CASE shared # Unset
  <2>1. DOMAIN shared = Fields
    BY <1>2, SourceAssumption DEF SInit, Layer, Fields
  <2>2. shared.packs = asked.packs /\ shared.sources = asked.sources
    BY <1>2 DEF SInit
  <2> QED
    BY <2>1, <2>2 DEF AskedInv, FileShape, SharedHoldsOnlyAsked
<1> QED
  BY <1>1, <1>2

LEMMA AskedStep ==
  ASSUME AskedInv, [SNext]_vars
  PROVE  AskedInv'
<1>1. ASSUME UNCHANGED vars \/ Crash
      PROVE  UNCHANGED <<shared, asked>>
  BY <1>1 DEF Crash, vars, svars, fvars, hvars
<1>2. CASE NewProject
  <2>1. ASSUME NEW call, NEW targets, NEW role, NEW detect, NEW bind,
               Init_(call, targets, role, detect, bind) \/ Setup(call, targets, bind)
        PROVE  WritesAsked
    BY <2>1, InitWrites DEF Init_, Setup
  <2>2. ASSUME InitLock \/ SetPolicy \/ PolicyLock \/ ImportFiles \/ ImportLock
        PROVE  UNCHANGED <<shared, asked>>
    BY <2>2 DEF InitLock, SetPolicy, PolicyLock, ImportFiles, ImportLock, fvars, hvars
  <2>3. ASSUME PolicyConfig
        PROVE  WritesAsked
    <3>1. /\ HasConfig /\ Asks({Steward}, {})
          /\ shared' = [shared EXCEPT !["packs"] = shared.packs \union {Steward}]
      BY <2>3 DEF PolicyConfig
    <3> QED
      BY <3>1, EditWrites DEF Fields
  <2>4. ASSUME NEW opt, NEW how, Import(opt, how)
        PROVE  WritesAsked
    <3> DEFINE from == IF opt.mode = "materialize" THEN DonorConfig ELSE Donor.raw
               new == Projected(opt, Donor.raw, DonorConfig)
               sources == {s \in from.sources : s.private => opt.private}
    <3>1. WriteImport(new, FieldsOf(opt), how) /\ Asks(from.packs, sources)
      BY <2>4 DEF Import
    <3>2. DOMAIN new = Fields /\ new.packs \subseteq from.packs
      BY DEF Projected, Fields
    <3>3. new.sources = CopiedSources(opt, from.sources)
      BY DEF Projected
    <3>4. new.sources \subseteq sources
      BY <3>3 DEF CopiedSources
    <3> QED
      BY <3>1, <3>2, <3>4, ImportWrites
  <2>5. ASSUME NEW how, Convert(how)
        PROVE  WritesAsked
    <3> DEFINE new == [EmptyLayer EXCEPT !.packs = {Imported}, !.sources = {ImportedFrom}]
    <3>1. WriteImport(new, {"packs", "sources"}, how) /\ Asks({Imported}, {ImportedFrom})
      BY <2>5 DEF Convert
    <3>2. DOMAIN new = Fields /\ new.packs = {Imported} /\ new.sources = {ImportedFrom}
      BY DEF EmptyLayer, Fields
    <3> QED
      BY <3>1, <3>2, ImportWrites
  <2> QED
    BY <1>2, <2>1, <2>2, <2>3, <2>4, <2>5, AskedWritten, AskedKept DEF NewProject
<1>3. CASE Profiles
  <2>1. ASSUME NEW p, ProjectLink(p)
        PROVE  WritesAsked
    <3>1. /\ shared' = [FirstSet(shared, EmptyLayer) EXCEPT !.extends = p]
          /\ asked' = asked
      BY <2>1 DEF ProjectLink
    <3>2. CASE shared = Unset
      BY <3>1, <3>2 DEF FirstSet, EmptyLayer, Fields, HasConfig, WritesAsked
    <3>3. CASE shared # Unset
      <4>1. /\ DOMAIN shared' = Fields
            /\ shared'.packs = shared.packs /\ shared'.sources = shared.sources
        BY <3>1, <3>3 DEF FirstSet, AskedInv, FileShape, HasConfig, Fields
      <4> QED
        BY <3>1, <3>3, <4>1 DEF HasConfig, WritesAsked
    <3> QED
      BY <3>2, <3>3
  <2>2. ASSUME NEW p, NEW setDefault,
               EditProfile(p) \/ SetDefault(p) \/ LibraryInit(p, setDefault) \/ EditLocal
        PROVE  UNCHANGED <<shared, asked>>
    BY <2>2 DEF EditProfile, SetDefault, LibraryInit, EditLocal
  <2> QED
    BY <1>3, <2>1, <2>2, AskedWritten, AskedKept DEF Profiles
<1>4. CASE Packs
  <2>1. ASSUME NEW field \in {"packs", "targets"}, NEW value, NEW packs,
               HasConfig, WriteShared([shared EXCEPT ![field] = value], packs),
               field = "packs" => value \subseteq shared.packs \union packs
        PROVE  WritesAsked
    <3>1. /\ shared' = [shared EXCEPT ![field] = value]
          /\ Asks(packs, {})
      BY <2>1 DEF WriteShared
    <3> QED
      BY <2>1, <3>1, EditWrites DEF Fields
  <2>2. ASSUME NEW after, NEW p, NEW known, Add(Plain, p, known, after)
        PROVE  WritesAsked \/ UNCHANGED <<shared, asked>>
    BY <2>1, <2>2 DEF Add, fvars, hvars
  <2>3. ASSUME NEW after, NEW p, NEW known, NEW isLocal, Use(p, isLocal, known, after)
        PROVE  WritesAsked \/ UNCHANGED <<shared, asked>>
    BY <2>1, <2>3 DEF Use, fvars, hvars
  <2>4. ASSUME NEW after, NEW p, Remove(p, after)
        PROVE  WritesAsked \/ UNCHANGED <<shared, asked>>
    BY <2>1, <2>4 DEF Remove, fvars, hvars
  <2>5. ASSUME NEW after, NEW ts, TargetAdd(ts, after) \/ TargetRemove(ts, after)
        PROVE  WritesAsked \/ UNCHANGED <<shared, asked>>
    BY <2>1, <2>5 DEF TargetAdd, TargetRemove, fvars, hvars
  <2> QED
    BY <1>4, <2>2, <2>3, <2>4, <2>5, AskedWritten, AskedKept DEF Packs
<1>5. CASE Compiles
  BY <1>5, AskedKept DEF Compiles, Compile, CompileAll
<1>6. CASE Sources
  <2>1. ASSUME NEW s, SourceAdd(s)
        PROVE  WritesAsked \/ UNCHANGED <<shared, asked>>
    <3>1. CASE \E t \in shared.sources : t.id = s.id
      BY <2>1, <3>1 DEF SourceAdd
    <3>2. CASE ~\E t \in shared.sources : t.id = s.id
      <4>1. /\ HasConfig /\ Asks({}, {s})
            /\ shared' = [shared EXCEPT !["sources"] = shared.sources \union {s}]
        BY <2>1, <3>2 DEF SourceAdd
      <4> QED
        BY <4>1, EditWrites DEF Fields
    <3> QED
      BY <3>1, <3>2
  <2>2. ASSUME NEW id, SourceRemove(id)
        PROVE  AskedInv'
    <3>1. /\ HasConfig /\ asked' = asked
          /\ shared' = [shared EXCEPT !.sources = {s \in shared.sources : s.id # id}]
      BY <2>2 DEF SourceRemove, hvars
    <3>2. /\ DOMAIN shared' = Fields
          /\ shared'.packs = shared.packs /\ shared'.sources \subseteq shared.sources
      BY <3>1 DEF AskedInv, FileShape, Fields
    <3> QED
      BY <3>1, <3>2 DEF AskedInv, FileShape, SharedHoldsOnlyAsked, HasConfig
  <2>3. ASSUME NEW call, NEW chosen, NEW force, NEW strict, NEW u, NEW id,
               \/ SourceSync(call, chosen, force) \/ SourceSyncFails(call, chosen, force)
               \/ PublicLock \/ PrivateLock \/ Sync(call, strict) \/ SyncIsExposed
               \/ SyncStops \/ SyncPasses \/ UpstreamMoves(u) \/ EditCache(id)
        PROVE  UNCHANGED <<shared, asked>>
    BY <2>3 DEF SourceSync, SourceSyncFails, PublicLock, PrivateLock, Sync, SyncIsExposed,
                SyncStops, SyncPasses, CompileAll, UpstreamMoves, EditCache, fvars, hvars
  <2> QED
    BY <1>6, <2>1, <2>2, <2>3, AskedWritten, AskedKept DEF Sources
<1> QED
  BY <1>1, <1>2, <1>3, <1>4, <1>5, <1>6, AskedKept DEF SNext

\* Whatever profiles, local files and other projects hold, the shared file of
\* a project has only the packs and sources that commands were asked for.
THEOREM NothingUnasked == SetupSpec => []SharedHoldsOnlyAsked
<1>1. SInit => AskedInv
  BY AskedStart
<1>2. AskedInv /\ [SNext]_vars => AskedInv'
  BY AskedStep
<1>3. AskedInv => SharedHoldsOnlyAsked
  BY DEF AskedInv
<1> QED
  BY <1>1, <1>2, <1>3, PTL DEF SetupSpec

-----------------------------------------------------------------------------
(* The files are layers.                                                   *)

File == Layer \union {Unset}
Name == Profile \union {Unset}

LayersInv ==
    /\ shared \in File /\ local \in File
    /\ profiles \in [Profile -> File] /\ default \in Name

LEMMA EmptyIsLayer == EmptyLayer \in Layer
BY DEF EmptyLayer, Layer

LEMMA OverlayIsLayer ==
  ASSUME NEW lower \in Layer, NEW upper \in Layer
  PROVE  Overlay(lower, upper) \in Layer
BY DEF Overlay, Layer, FirstSet, FirstGiven

LEMMA MergedIsLayer ==
  ASSUME NEW profile \in Layer, NEW project \in Layer, NEW own \in File
  PROVE  Merged(profile, project, own) \in Layer
<1>1. DefaultConfig \in Layer
  <2>1. EmptyLayer \in Layer /\ Builder \in Role /\ {Codex} \subseteq Target
    BY EmptyIsLayer, LayerAssumption
  <2> QED
    BY <2>1 DEF DefaultConfig, Layer
<1>2. (IF own = Unset THEN EmptyLayer ELSE own) \in Layer
  BY EmptyIsLayer DEF File
<1> QED
  BY <1>1, <1>2, OverlayIsLayer DEF Merged

LEMMA ProfileIsLayer ==
  ASSUME NEW p \in Name, NEW files \in [Profile -> File]
  PROVE  ProfileLayer(p, files) \in Layer
<1>1. CASE p = Unset
  BY <1>1, EmptyIsLayer DEF ProfileLayer
<1>2. CASE p # Unset
  <2>1. files[p] \in File /\ (Template[p] = Unset \/ Template[p] \in Layer)
    BY <1>2, LayerAssumption DEF Name
  <2> QED
    BY <1>2, <2>1, EmptyIsLayer DEF ProfileLayer, FirstSet, File
<1> QED
  BY <1>1, <1>2

LEMMA ConfigIsLayer ==
  ASSUME LayersInv, HasConfig, NEW call \in Calls
  PROVE  Active(call) \in Name /\ Config(call) \in Layer
<1>1. shared \in Layer /\ local \in File
  BY DEF LayersInv, HasConfig, File
<1>2. call.profile \in Name
  BY SetupAssumption DEF Call, Name
<1>3. shared.extends \in Name
  BY <1>1 DEF Layer, Name
<1>4. Active(call) \in Name
  BY <1>2, <1>3 DEF Active, ProfileOf, FirstSet, LayersInv, Name
<1>5. ProfileLayer(Active(call), profiles) \in Layer
  BY <1>4, ProfileIsLayer DEF LayersInv
<1> QED
  BY <1>1, <1>4, <1>5, MergedIsLayer DEF Config

LEMMA DonorIsLayer ==
  ASSUME LayersInv
  PROVE  Donor.raw \in Layer /\ DonorConfig \in Layer
<1>1. Donor.raw \in Layer /\ Donor.local \in File
  BY SetupAssumption DEF File
<1>2. Donor.raw.extends \in Name
  BY <1>1 DEF Layer, Name
<1>3. FirstSet(Donor.raw.extends, default) \in Name
  BY <1>2 DEF FirstSet, LayersInv
<1>4. ProfileLayer(FirstSet(Donor.raw.extends, default), profiles) \in Layer
  BY <1>3, ProfileIsLayer DEF LayersInv
<1> QED
  BY <1>1, <1>4, MergedIsLayer DEF DonorConfig

LEMMA InitIsLayer ==
  ASSUME NEW extends \in Name, NEW given, NEW role \in Role \union {Unset},
         NEW targets \in SUBSET Target, NEW profile \in Layer
  PROVE  InitLayer(extends, given, role, targets, profile) \in Layer
<1> DEFINE chosen == FirstSet(role, FirstSet(profile.role, Builder))
<1>1. profile.role \in Role \union {Unset}
  BY DEF Layer
<1>2. chosen \in Role
  BY <1>1, LayerAssumption DEF FirstSet
<1>3. RolePacks[chosen] \subseteq Pack
  BY <1>2, LayerAssumption
<1> QED
  BY <1>2, <1>3 DEF InitLayer, Layer, Name

LEMMA ProjectedIsLayer ==
  ASSUME NEW opt, NEW raw \in Layer, NEW config \in Layer
  PROVE  Projected(opt, raw, config) \in Layer
<1> DEFINE from == IF opt.mode = "materialize" THEN config ELSE raw
<1>1. from \in Layer
  OBVIOUS
<1>2. CopiedSources(opt, from.sources) \subseteq Source
  BY <1>1 DEF CopiedSources, Layer
<1> QED
  BY <1>1, <1>2 DEF Projected, Layer

LEMMA ImportIsLayer ==
  ASSUME LayersInv, NEW new \in Layer, NEW fields, NEW how, WriteImport(new, fields, how)
  PROVE  shared' \in Layer
<1>1. CASE shared = Unset
  BY <1>1 DEF WriteImport
<1>2. CASE shared # Unset /\ how = "merge"
  <2>1. shared \in Layer /\ shared' = MergeImport(shared, new, fields)
    BY <1>2 DEF WriteImport, LayersInv, File
  <2>2. \A held : {s \in new.sources : s.id \notin held} \subseteq Source
    BY DEF Layer
  <2> QED
    BY <2>1, <2>2 DEF MergeImport, Layer, FirstSet
<1>3. CASE shared # Unset /\ how # "merge"
  <2>1. shared \in Layer /\ shared' = ReplaceImport(shared, new, fields)
    BY <1>3 DEF WriteImport, LayersInv, File
  <2> QED
    BY <2>1 DEF ReplaceImport, Layer, Fields
<1> QED
  BY <1>1, <1>2, <1>3

LEMMA LayersInit == SInit => LayersInv
BY SourceAssumption DEF SInit, LayersInv, File, Name

\* A command that changes one list of the file.
LEMMA EditIsLayer ==
  ASSUME NEW f \in Layer
  PROVE  /\ \A ps \in SUBSET Pack : [f EXCEPT !.packs = ps] \in Layer
         /\ \A ts \in SUBSET Target : [f EXCEPT !.targets = ts] \in Layer
         /\ \A ss \in SUBSET Source : [f EXCEPT !.sources = ss] \in Layer
         /\ \A p \in Name : [f EXCEPT !.extends = p] \in Layer
BY DEF Layer, Name

LEMMA LayersStep == LayersInv /\ [SNext]_vars => LayersInv'
<1> SUFFICES ASSUME LayersInv, [SNext]_vars
             PROVE  LayersInv'
  OBVIOUS
<1>0. HasConfig => shared \in Layer
  BY DEF LayersInv, HasConfig, File
<1>1. ASSUME UNCHANGED <<shared, local, profiles, default>>
      PROVE  LayersInv'
  BY <1>1 DEF LayersInv
<1>2. ASSUME shared' \in Layer, UNCHANGED <<local, profiles, default>>
      PROVE  LayersInv'
  BY <1>2 DEF LayersInv, File
<1>3. CASE NewProject
  <2>1. ASSUME NEW call \in Calls, NEW targets \in SUBSET Target,
               NEW role \in Role \union {Unset}, NEW detect, NEW bind, NEW after,
               InitConfig(call, targets, role, detect, bind, after)
        PROVE  shared' \in Layer
    <3> DEFINE p == ProfileForInit(call, default)
               layer == ProfileLayer(p, profiles)
               chosen == InitTargets(targets, detect, layer, Detected)
               extends == IF call.profile # Unset \/ bind THEN p ELSE Unset
    <3>1. call.profile \in Name
      BY SetupAssumption DEF Call, Name
    <3>2. p \in Name
      BY <3>1 DEF ProfileForInit, FirstSet, LayersInv, Name
    <3>3. layer \in Layer
      BY <3>2, ProfileIsLayer DEF LayersInv
    <3>4. chosen \subseteq Target
      <4>1. layer.targets \subseteq Target
        BY <3>3 DEF Layer
      <4> HIDE DEF layer
      <4> QED
        BY <4>1, SetupAssumption DEF InitTargets
    <3>5. extends \in Name
      BY <3>2 DEF Name
    <3>6. shared' = InitLayer(extends, targets, role, chosen, layer)
      BY <2>1 DEF InitConfig
    <3> HIDE DEF p, layer, chosen, extends
    <3> QED
      BY <3>3, <3>4, <3>5, <3>6, InitIsLayer
  <2>2. ASSUME NEW call \in Calls, NEW targets \in Choices, NEW bind \in BOOLEAN,
               \/ \E role \in {Unset, Builder} : \E detect \in {FALSE, role = Unset} :
                    Init_(call, targets, role, detect, bind)
               \/ Setup(call, targets, bind)
        PROVE  LayersInv'
    <3>1. /\ targets \in SUBSET Target
          /\ \A found \in {Detected, {}} :
                FirstGiven(targets, FirstGiven(found, {Codex})) \in SUBSET Target
      BY SetupAssumption, LayerAssumption DEF Choices, FirstGiven
    <3>2. Builder \in Role
      BY LayerAssumption
    <3> QED
      BY <1>2, <2>1, <2>2, <3>1, <3>2 DEF Init_, Setup
  <2>3. ASSUME InitLock \/ SetPolicy \/ PolicyLock \/ ImportFiles \/ ImportLock
        PROVE  LayersInv'
    BY <1>1, <2>3 DEF InitLock, SetPolicy, PolicyLock, ImportFiles, ImportLock, fvars
  <2>4. ASSUME PolicyConfig
        PROVE  LayersInv'
    <3>1. shared \in Layer /\ shared.packs \union {Steward} \in SUBSET Pack
      BY <1>0, <2>4, SetupAssumption DEF PolicyConfig, Layer
    <3>2. shared' \in Layer
      BY <2>4, <3>1, EditIsLayer DEF PolicyConfig
    <3> QED
      BY <1>2, <2>4, <3>2 DEF PolicyConfig
  <2>5. ASSUME NEW opt, NEW how, Import(opt, how)
        PROVE  LayersInv'
    <3>1. shared' \in Layer
      BY <2>5, DonorIsLayer, ProjectedIsLayer, ImportIsLayer DEF Import
    <3> QED
      BY <1>2, <2>5, <3>1 DEF Import
  <2>6. ASSUME NEW how, Convert(how)
        PROVE  LayersInv'
    <3>1. [EmptyLayer EXCEPT !.packs = {Imported}, !.sources = {ImportedFrom}] \in Layer
      BY SetupAssumption DEF EmptyLayer, Layer
    <3>2. shared' \in Layer
      BY <2>6, <3>1, ImportIsLayer DEF Convert
    <3> QED
      BY <1>2, <2>6, <3>2 DEF Convert
  <2> QED
    BY <1>3, <2>2, <2>3, <2>4, <2>5, <2>6 DEF NewProject
<1>4. CASE Profiles
  <2>1. ASSUME NEW p \in Profile, ProjectLink(p)
        PROVE  LayersInv'
    <3>1. FirstSet(shared, EmptyLayer) \in Layer
      BY EmptyIsLayer DEF LayersInv, FirstSet, File
    <3>2. shared' \in Layer
      BY <2>1, <3>1, EditIsLayer DEF ProjectLink, Name
    <3> QED
      BY <1>2, <2>1, <3>2 DEF ProjectLink
  <2>2. ASSUME NEW p \in Profile, EditProfile(p)
        PROVE  LayersInv'
    BY <2>2, SetupAssumption DEF EditProfile, LayersInv, File
  <2>3. ASSUME NEW p \in Name, SetDefault(p)
        PROVE  LayersInv'
    BY <2>3 DEF SetDefault, LayersInv
  <2>4. ASSUME NEW p \in Profile, NEW setDefault, LibraryInit(p, setDefault)
        PROVE  LayersInv'
    BY <2>4, SetupAssumption DEF LibraryInit, LayersInv, File, Name
  <2>5. ASSUME EditLocal
        PROVE  LayersInv'
    BY <2>5, SetupAssumption DEF EditLocal, LayersInv, File
  <2> QED
    BY <1>4, <2>1, <2>2, <2>3, <2>4, <2>5 DEF Profiles, Name
<1>5. CASE Packs
  <2>1. ASSUME HasConfig, NEW ps, ps \subseteq Pack, NEW asking,
               WriteShared([shared EXCEPT !.packs = ps], asking)
        PROVE  LayersInv'
    BY <1>0, <1>2, <2>1, EditIsLayer DEF WriteShared
  <2>2. ASSUME HasConfig, NEW ts, ts \subseteq Target, NEW asking,
               WriteShared([shared EXCEPT !.targets = ts], asking)
        PROVE  LayersInv'
    BY <1>0, <1>2, <2>2, EditIsLayer DEF WriteShared
  <2>3. HasConfig => shared.packs \subseteq Pack /\ shared.targets \subseteq Target
    BY <1>0 DEF Layer
  <2>4. ASSUME NEW p \in Pack, NEW known, NEW after,
               Add(Plain, p, known, after) \/ Remove(p, after)
        PROVE  LayersInv'
    <3>1. HasConfig
      BY <2>4 DEF Add, Remove
    <3>2. shared.packs \union {p} \subseteq Pack /\ shared.packs \ {p} \subseteq Pack
      BY <2>3, <3>1
    <3> QED
      BY <1>1, <2>1, <2>4, <3>1, <3>2 DEF Add, Remove, fvars
  <2>5. ASSUME NEW p \in Pack, NEW isLocal, NEW known, NEW after, Use(p, isLocal, known, after)
        PROVE  LayersInv'
    <3>1. HasConfig
      BY <2>5 DEF Use
    <3>2. shared.packs \union {p} \subseteq Pack
      BY <2>3, <3>1
    <3>3. CASE isLocal
      <4>1. FirstSet(local, EmptyLayer) \in Layer
        BY EmptyIsLayer DEF LayersInv, FirstSet, File
      <4>2. FirstSet(local, EmptyLayer).packs \union {p} \in SUBSET Pack
        BY <4>1 DEF Layer
      <4>3. local' \in Layer
        BY <2>5, <3>3, <4>1, <4>2, EditIsLayer DEF Use
      <4> QED
        BY <2>5, <3>3, <4>3 DEF Use, LayersInv, File
    <3>4. CASE ~isLocal
      BY <1>1, <2>1, <2>5, <3>1, <3>2, <3>4 DEF Use, fvars
    <3> QED
      BY <3>3, <3>4
  <2>6. ASSUME NEW ts \in SUBSET Target, NEW after,
               TargetAdd(ts, after) \/ TargetRemove(ts, after)
        PROVE  LayersInv'
    <3>1. HasConfig
      BY <2>6 DEF TargetAdd, TargetRemove
    <3>2. shared.targets \union ts \subseteq Target /\ shared.targets \ ts \subseteq Target
      BY <2>3, <3>1
    <3> QED
      BY <1>1, <2>2, <2>6, <3>1, <3>2 DEF TargetAdd, TargetRemove, fvars
  <2>7. Choices \ {{}} \subseteq SUBSET Target
    BY DEF Choices
  <2> QED
    BY <1>5, <2>4, <2>5, <2>6, <2>7 DEF Packs
<1>6. CASE Sources
  <2>1. ASSUME NEW s \in Records, SourceAdd(s) \/ SourceRemove(s.id)
        PROVE  LayersInv'
    <3>1. shared \in Layer /\ s \in Source
      BY <1>0, <2>1, SourceAssumption DEF SourceAdd, SourceRemove
    <3>2. /\ shared.sources \union {s} \in SUBSET Source
          /\ {t \in shared.sources : t.id # s.id} \in SUBSET Source
      BY <3>1 DEF Layer
    <3>3. shared' \in Layer
      BY <2>1, <3>1, <3>2, EditIsLayer DEF SourceAdd, SourceRemove
    <3> QED
      BY <1>2, <2>1, <3>3 DEF SourceAdd, SourceRemove
  <2>2. ASSUME NEW call, NEW chosen, NEW force, NEW strict, NEW u, NEW id,
               \/ SourceSync(call, chosen, force) \/ SourceSyncFails(call, chosen, force)
               \/ PublicLock \/ PrivateLock \/ Sync(call, strict) \/ SyncIsExposed
               \/ SyncStops \/ SyncPasses \/ UpstreamMoves(u) \/ EditCache(id)
        PROVE  LayersInv'
    <3>1. UNCHANGED <<shared, local, profiles, default>>
      BY <2>2 DEF SourceSync, SourceSyncFails, PublicLock, PrivateLock, Sync, SyncIsExposed,
                  SyncStops, SyncPasses, CompileAll, UpstreamMoves, EditCache, fvars
    <3> QED
      BY <1>1, <3>1
  <2> QED
    BY <1>6, <2>1, <2>2 DEF Sources
<1>7. Compiles \/ Crash \/ UNCHANGED vars => UNCHANGED <<shared, local, profiles, default>>
  BY DEF Compiles, Compile, CompileAll, Crash, vars, svars, fvars
<1> QED
  BY <1>1, <1>3, <1>4, <1>5, <1>6, <1>7 DEF SNext

-----------------------------------------------------------------------------
(* What an import gives everybody.                                         *)

\* What was materialized decides alone: no file above it gives a role, packs or
\* targets, and what is below it is not asked.
CopiedInv ==
    copied # NoSelection =>
        /\ HasConfig /\ local = Unset
        /\ shared.role # Unset /\ shared.packs # {} /\ shared.targets # {}
        /\ copied.role = shared.role /\ copied.packs = shared.packs
        /\ copied.targets = shared.targets

\* A step that leaves alone what was materialized.
KeepsCopied ==
    /\ UNCHANGED <<copied, local>>
    /\ copied # NoSelection =>
          /\ shared' # Unset
          /\ shared'.role = shared.role /\ shared'.packs = shared.packs
          /\ shared'.targets = shared.targets

LEMMA CopiedKept ==
  ASSUME CopiedInv, KeepsCopied \/ copied' = NoSelection
  PROVE  CopiedInv'
BY DEF CopiedInv, KeepsCopied, HasConfig

\* Every configuration has a role and a target, if only the built-in ones.
LEMMA MergedHasAll ==
  ASSUME NEW profile, NEW project, NEW own
  PROVE  /\ Merged(profile, project, own).role # Unset
         /\ Merged(profile, project, own).targets # {}
<1>1. DefaultConfig.role # Unset /\ DefaultConfig.targets # {}
  BY LayerAssumption DEF DefaultConfig, EmptyLayer
<1>2. ASSUME NEW lower, NEW upper, lower.role # Unset, lower.targets # {}
      PROVE  Overlay(lower, upper).role # Unset /\ Overlay(lower, upper).targets # {}
  BY <1>2 DEF Overlay, FirstSet, FirstGiven
<1>3. Overlay(DefaultConfig, profile).role # Unset /\ Overlay(DefaultConfig, profile).targets # {}
  BY <1>1, <1>2
<1>4. /\ Overlay(Overlay(DefaultConfig, profile), project).role # Unset
      /\ Overlay(Overlay(DefaultConfig, profile), project).targets # {}
  BY <1>2, <1>3
<1> QED
  BY <1>2, <1>4 DEF Merged

LEMMA ImportCopies ==
  ASSUME LayersInv, NEW opt, NEW how, Import(opt, how)
  PROVE  CopiedInv'
<1> SUFFICES ASSUME copied' # NoSelection
             PROVE  CopiedInv'
  BY DEF CopiedInv
<1>1. /\ opt.mode = "materialize" /\ {"role", "packs", "targets"} \subseteq opt.fields
      /\ shared = Unset /\ local = Unset /\ DonorConfig.packs # {}
      /\ copied' = Selection(DonorConfig)
      /\ shared' = Projected(opt, Donor.raw, DonorConfig)
      /\ local' = local
  BY DEF Import, WriteImport
<1>2. /\ shared'.role = DonorConfig.role /\ shared'.packs = DonorConfig.packs
      /\ shared'.targets = DonorConfig.targets
  BY <1>1 DEF Projected
<1>3. DonorConfig.role # Unset /\ DonorConfig.targets # {}
  BY MergedHasAll DEF DonorConfig
<1>4. /\ copied'.role = DonorConfig.role /\ copied'.packs = DonorConfig.packs
      /\ copied'.targets = DonorConfig.targets
  BY <1>1 DEF Selection, FirstGiven
<1>5. shared' # Unset
  BY <1>1, DonorIsLayer, ProjectedIsLayer, LayerAssumption
<1> QED
  BY <1>1, <1>2, <1>3, <1>4, <1>5 DEF CopiedInv, HasConfig

LEMMA CopiedStep ==
  ASSUME LayersInv, LayersInv', CopiedInv, [SNext]_vars
  PROVE  CopiedInv'
<1>0. HasConfig => shared \in Layer
  BY DEF LayersInv, HasConfig, File
<1>1. ASSUME UNCHANGED <<shared, local, copied>>
      PROVE  CopiedInv'
  BY <1>1, CopiedKept DEF KeepsCopied, CopiedInv, HasConfig
<1>2. CASE NewProject
  <2>1. ASSUME NEW call, NEW targets, NEW role, NEW detect, NEW bind,
               Init_(call, targets, role, detect, bind) \/ Setup(call, targets, bind)
        PROVE  CopiedInv'
    BY <2>1, CopiedKept DEF Init_, Setup
  <2>2. ASSUME InitLock \/ SetPolicy \/ PolicyLock \/ ImportFiles \/ ImportLock
        PROVE  CopiedInv'
    BY <1>1, <2>2 DEF InitLock, SetPolicy, PolicyLock, ImportFiles, ImportLock, fvars, hvars
  <2>3. ASSUME NEW how, PolicyConfig \/ Convert(how)
        PROVE  CopiedInv'
    BY <2>3, CopiedKept DEF PolicyConfig, Convert
  <2> QED
    BY <1>2, <2>1, <2>2, <2>3, ImportCopies DEF NewProject
<1>3. CASE Profiles
  <2>1. ASSUME NEW p \in Profile, ProjectLink(p)
        PROVE  CopiedInv'
    <3>1. /\ shared' = [FirstSet(shared, EmptyLayer) EXCEPT !.extends = p]
          /\ UNCHANGED <<local, copied>>
      BY <2>1 DEF ProjectLink
    <3>2. ASSUME copied # NoSelection
          PROVE  /\ shared' # Unset
                 /\ shared'.role = shared.role /\ shared'.packs = shared.packs
                 /\ shared'.targets = shared.targets
      <4>1. HasConfig
        BY <3>2 DEF CopiedInv
      <4>2. shared \in Layer /\ FirstSet(shared, EmptyLayer) = shared
        BY <1>0, <4>1 DEF FirstSet, HasConfig
      <4>3. DOMAIN shared = Fields /\ DOMAIN shared' = Fields
        BY <3>1, <4>2 DEF Layer, Fields
      <4>4. /\ shared'.role = shared.role /\ shared'.packs = shared.packs
            /\ shared'.targets = shared.targets
        BY <3>1, <4>2, <4>3 DEF Fields
      <4>5. shared' # Unset
        BY <3>1, <4>2, EditIsLayer, LayerAssumption DEF Name
      <4> QED
        BY <4>4, <4>5
    <3> QED
      BY <3>1, <3>2, CopiedKept DEF KeepsCopied
  <2>2. ASSUME EditLocal
        PROVE  CopiedInv'
    BY <2>2, CopiedKept DEF EditLocal
  <2>3. ASSUME NEW p, NEW setDefault,
               EditProfile(p) \/ SetDefault(p) \/ LibraryInit(p, setDefault)
        PROVE  CopiedInv'
    BY <1>1, <2>3 DEF EditProfile, SetDefault, LibraryInit
  <2> QED
    BY <1>3, <2>1, <2>2, <2>3 DEF Profiles
<1>4. CASE Packs
  <2>1. ASSUME NEW after, NEW p, NEW known, NEW ts,
               \/ Add(Plain, p, known, after) \/ Remove(p, after)
               \/ TargetAdd(ts, after) \/ TargetRemove(ts, after)
               \/ Use(p, FALSE, known, after)
        PROVE  CopiedInv'
    BY <1>1, <2>1, CopiedKept DEF Add, Use, Remove, TargetAdd, TargetRemove, WriteShared,
                                  fvars, hvars
  <2>2. ASSUME NEW after, NEW p, NEW known, Use(p, TRUE, known, after)
        PROVE  CopiedInv'
    \* Without a local file there was nothing that this could repeat.
    <3>1. copied # NoSelection => copied' = NoSelection
      BY <2>2 DEF Use, CopiedInv, FirstSet, EmptyLayer
    <3>2. copied' \in {copied, NoSelection}
      BY <2>2 DEF Use
    <3> QED
      BY <3>1, <3>2, CopiedKept
  <2> QED
    BY <1>4, <2>1, <2>2 DEF Packs
<1>5. CASE Compiles
  BY <1>1, <1>5 DEF Compiles, Compile, CompileAll
<1>6. CASE Sources
  <2>1. ASSUME NEW s \in Records, SourceAdd(s) \/ SourceRemove(s.id)
        PROVE  CopiedInv'
    <3>0. shared \in Layer /\ shared.sources \subseteq Source /\ s \in Source
      BY <1>0, <2>1, SourceAssumption DEF SourceAdd, SourceRemove, Layer
    <3>1. /\ shared \in Layer /\ UNCHANGED <<local, copied>>
          /\ \/ shared' = shared
             \/ \E ss \in SUBSET Source : shared' = [shared EXCEPT !.sources = ss]
      BY <3>0, <2>1 DEF SourceAdd, SourceRemove, hvars
    <3>2. /\ shared'.role = shared.role /\ shared'.packs = shared.packs
          /\ shared'.targets = shared.targets /\ DOMAIN shared' = Fields
      BY <3>1 DEF Layer, Fields
    <3>3. shared' # Unset
      BY <3>1, EditIsLayer, LayerAssumption
    <3> QED
      BY <3>1, <3>2, <3>3, CopiedKept DEF KeepsCopied
  <2>2. ASSUME NEW call, NEW chosen, NEW force, NEW strict, NEW u, NEW id,
               \/ SourceSync(call, chosen, force) \/ SourceSyncFails(call, chosen, force)
               \/ PublicLock \/ PrivateLock \/ Sync(call, strict) \/ SyncIsExposed
               \/ SyncStops \/ SyncPasses \/ UpstreamMoves(u) \/ EditCache(id)
        PROVE  CopiedInv'
    BY <1>1, <2>2 DEF SourceSync, SourceSyncFails, PublicLock, PrivateLock, Sync, SyncIsExposed,
                      SyncStops, SyncPasses, CompileAll, UpstreamMoves, EditCache, fvars, hvars
  <2> QED
    BY <1>6, <2>1, <2>2 DEF Sources
<1>7. CASE Crash \/ UNCHANGED vars
  BY <1>1, <1>7 DEF Crash, vars, svars, fvars, hvars
<1> QED
  BY <1>2, <1>3, <1>4, <1>5, <1>6, <1>7 DEF SNext

\* A project made by a whole import that materializes has the role, the packs
\* and the targets of the project it came from, for everybody who runs a command
\* in it, whatever profiles and defaults they have, until one of them is edited.
THEOREM ImportsAreEquivalent == SetupSpec => []MaterializedIsEquivalent
<1>1. SInit => CopiedInv
  BY DEF SInit, CopiedInv
<1>2. CopiedInv => MaterializedIsEquivalent
  <2> SUFFICES ASSUME CopiedInv, copied # NoSelection, NEW call \in Calls,
                      NEW f \in {"role", "packs", "targets"}
               PROVE  Selection(Config(call))[f] = copied[f]
    BY DEF MaterializedIsEquivalent
  <2> DEFINE below == Overlay(DefaultConfig, ProfileLayer(Active(call), profiles))
  <2>1. Config(call) = Overlay(Overlay(below, shared), EmptyLayer)
    BY DEF CopiedInv, Config, Merged
  <2> HIDE DEF below
  <2>2. /\ Config(call).role = shared.role /\ Config(call).packs = shared.packs
        /\ Config(call).targets = shared.targets
    BY <2>1 DEF CopiedInv, Overlay, EmptyLayer, FirstSet, FirstGiven
  <2> QED
    BY <2>2 DEF CopiedInv, Selection, FirstGiven
<1> QED
  BY <1>1, <1>2, LayersInit, LayersStep, CopiedStep, PTL DEF SetupSpec

-----------------------------------------------------------------------------
(* Where the records of sources come from.                                 *)

\* The files that people write, and the sources that these and the commands
\* bring in.
Written ==
    ({Configured, Donor.raw, Donor.local, UserLayer} \union LocalEdits \union ProfileEdits
       \union {Template[p] : p \in Profile}) \ {Unset}

AllSources == Records \union {ImportedFrom} \union UNION {f.sources : f \in Written}

Distinct(sources) == \A s, t \in sources : s.id = t.id => s = t

\* No file that people write has two sources of one id.
NamedOnce == \A f \in Written : Distinct(f.sources)

Held(sources) == sources \subseteq AllSources /\ (NamedOnce => Distinct(sources))

HeldInv ==
    /\ shared # Unset => Held(shared.sources)
    /\ local # Unset => Held(local.sources)
    /\ \A p \in Profile : profiles[p] # Unset => Held(profiles[p].sources)

LEMMA HeldParts ==
  ASSUME NEW sources, Held(sources), NEW part \in SUBSET sources
  PROVE  Held(part)
BY DEF Held, Distinct

LEMMA WrittenIsHeld == \A f \in Written : Held(f.sources)
BY DEF Held, AllSources, NamedOnce

LEMMA NothingIsHeld == Held({})
BY DEF Held, Distinct

LEMMA AllAreSources == AllSources \subseteq Source
<1>1. \A f \in Written : f \in Layer
  BY SourceAssumption, SetupAssumption, LayerAssumption DEF Written
<1>2. \A f \in Layer : f.sources \subseteq Source
  BY DEF Layer
<1> QED
  BY <1>1, <1>2, SourceAssumption, SetupAssumption DEF AllSources

LEMMA OverlayIsHeld ==
  ASSUME NEW lower, NEW upper, Held(lower.sources), Held(upper.sources)
  PROVE  Held(Overlay(lower, upper).sources)
BY DEF Overlay, FirstGiven

LEMMA MergedIsHeld ==
  ASSUME NEW profile, NEW project, NEW own, Held(profile.sources), Held(project.sources),
         own # Unset => Held(own.sources)
  PROVE  Held(Merged(profile, project, own).sources)
<1>1. EmptyLayer.sources = {} /\ DefaultConfig.sources = {}
  BY DEF EmptyLayer, DefaultConfig
<1>2. Held(Overlay(Overlay(DefaultConfig, profile), project).sources)
  BY <1>1, NothingIsHeld, OverlayIsHeld
<1>3. Held((IF own = Unset THEN EmptyLayer ELSE own).sources)
  BY <1>1, NothingIsHeld
<1> QED
  BY <1>2, <1>3, OverlayIsHeld DEF Merged

LEMMA ProfileIsHeld ==
  ASSUME HeldInv, NEW p \in Name
  PROVE  Held(ProfileLayer(p, profiles).sources)
<1>1. EmptyLayer.sources = {}
  BY DEF EmptyLayer
<1>2. p # Unset /\ Template[p] # Unset => Held(Template[p].sources)
  BY WrittenIsHeld DEF Written, Name
<1> QED
  BY <1>1, <1>2, NothingIsHeld DEF ProfileLayer, FirstSet, HeldInv, Name

LEMMA ConfigIsHeld ==
  ASSUME LayersInv, HeldInv, HasConfig, NEW call \in Calls
  PROVE  Held(Config(call).sources) /\ Config(call).sources \subseteq Source
<1>1. Active(call) \in Name /\ Config(call) \in Layer
  BY ConfigIsLayer
<1>2. Held(ProfileLayer(Active(call), profiles).sources)
  BY <1>1, ProfileIsHeld
<1>3. Held(Config(call).sources)
  BY <1>2, MergedIsHeld DEF Config, HeldInv, HasConfig
<1> QED
  BY <1>1, <1>3 DEF Layer

LEMMA DonorIsHeld ==
  ASSUME LayersInv, HeldInv
  PROVE  Held(Donor.raw.sources) /\ Held(DonorConfig.sources)
<1>1. Held(Donor.raw.sources) /\ (Donor.local # Unset => Held(Donor.local.sources))
  <2>1. Donor.raw \in Written
    BY SetupAssumption, LayerAssumption DEF Written
  <2>2. Donor.local # Unset => Donor.local \in Written
    BY DEF Written
  <2> QED
    BY <2>1, <2>2, WrittenIsHeld
<1>2. FirstSet(Donor.raw.extends, default) \in Name
  <2>1. Donor.raw.extends \in Name
    BY SetupAssumption DEF Layer, Name
  <2> QED
    BY <2>1 DEF FirstSet, LayersInv
<1> QED
  BY <1>1, <1>2, ProfileIsHeld, MergedIsHeld DEF DonorConfig

\* An import adds no source of an id that is there, or replaces them all.
LEMMA ImportIsHeld ==
  ASSUME LayersInv, HeldInv, NEW new \in Layer, Held(new.sources),
         NEW fields, NEW how, WriteImport(new, fields, how)
  PROVE  Held(shared'.sources)
<1>1. CASE shared = Unset
  BY <1>1 DEF WriteImport
<1>2. CASE shared # Unset /\ how = "merge"
  <2> DEFINE added == IF "sources" \in fields
                        THEN {s \in new.sources : s.id \notin {t.id : t \in shared.sources}}
                        ELSE {}
  <2>1. shared' = MergeImport(shared, new, fields)
    BY <1>2 DEF WriteImport
  <2>2. shared'.sources = shared.sources \union added
    BY <2>1 DEF MergeImport
  <2>3. Held(shared.sources)
    BY <1>2 DEF HeldInv
  <2>4. added \subseteq new.sources /\ \A s \in added, t \in shared.sources : s.id # t.id
    OBVIOUS
  <2> HIDE DEF added
  <2> QED
    BY <2>2, <2>3, <2>4 DEF Held, Distinct
<1>3. CASE shared # Unset /\ how # "merge"
  <2>1. shared' = ReplaceImport(shared, new, fields)
    BY <1>3 DEF WriteImport
  <2>2. shared'.sources \in {new.sources, shared.sources}
    BY <2>1 DEF ReplaceImport, Fields
  <2> QED
    BY <1>3, <2>2 DEF HeldInv
<1> QED
  BY <1>1, <1>2, <1>3

LEMMA HeldInit == SInit => HeldInv
<1> SUFFICES ASSUME SInit
             PROVE  HeldInv
  OBVIOUS
<1>1. Configured # Unset => Held(Configured.sources)
  BY WrittenIsHeld DEF Written
<1> QED
  BY <1>1 DEF SInit, HeldInv

LEMMA HeldStep ==
  ASSUME LayersInv, HeldInv, [SNext]_vars
  PROVE  HeldInv'
<1>0. HasConfig => shared \in Layer /\ Held(shared.sources)
  BY DEF LayersInv, HeldInv, HasConfig, File
<1>1. ASSUME UNCHANGED <<shared, local, profiles>>
      PROVE  HeldInv'
  BY <1>1 DEF HeldInv
<1>2. ASSUME Held(shared'.sources), UNCHANGED <<local, profiles>>
      PROVE  HeldInv'
  BY <1>2 DEF HeldInv
<1>3. CASE NewProject
  <2>1. ASSUME NEW call, NEW targets, NEW role, NEW detect, NEW bind,
               Init_(call, targets, role, detect, bind) \/ Setup(call, targets, bind)
        PROVE  HeldInv'
    <3>1. /\ \E given, r, d, b, after : InitConfig(call, given, r, d, b, after)
          /\ UNCHANGED <<local, profiles>>
      BY <2>1 DEF Init_, Setup
    <3>2. shared'.sources = {}
      BY <3>1 DEF InitConfig, InitLayer
    <3> QED
      BY <1>2, <3>1, <3>2, NothingIsHeld
  <2>2. ASSUME InitLock \/ SetPolicy \/ PolicyLock \/ ImportFiles \/ ImportLock
        PROVE  HeldInv'
    BY <1>1, <2>2 DEF InitLock, SetPolicy, PolicyLock, ImportFiles, ImportLock, fvars
  <2>3. ASSUME PolicyConfig
        PROVE  HeldInv'
    <3>1. shared'.sources = shared.sources /\ UNCHANGED <<local, profiles>>
      BY <1>0, <2>3 DEF PolicyConfig, Layer
    <3> QED
      BY <1>0, <1>2, <2>3, <3>1 DEF PolicyConfig
  <2>4. ASSUME NEW opt, NEW how, Import(opt, how)
        PROVE  HeldInv'
    <3> DEFINE new == Projected(opt, Donor.raw, DonorConfig)
    <3>1. new \in Layer
      BY DonorIsLayer, ProjectedIsLayer
    <3>2. Held(new.sources)
      <4>1. \A sources : CopiedSources(opt, sources) \subseteq sources
        BY DEF CopiedSources
      <4>2. \/ new.sources = CopiedSources(opt, Donor.raw.sources)
            \/ new.sources = CopiedSources(opt, DonorConfig.sources)
        BY DEF Projected
      <4> QED
        BY <4>1, <4>2, DonorIsHeld, HeldParts
    <3> QED
      BY <1>2, <2>4, <3>1, <3>2, ImportIsHeld DEF Import
  <2>5. ASSUME NEW how, Convert(how)
        PROVE  HeldInv'
    <3> DEFINE new == [EmptyLayer EXCEPT !.packs = {Imported}, !.sources = {ImportedFrom}]
    <3>1. new \in Layer /\ new.sources = {ImportedFrom}
      BY SetupAssumption DEF EmptyLayer, Layer
    <3>2. Held({ImportedFrom})
      BY DEF Held, AllSources, Distinct
    <3> QED
      BY <1>2, <2>5, <3>1, <3>2, ImportIsHeld DEF Convert
  <2> QED
    BY <1>3, <2>1, <2>2, <2>3, <2>4, <2>5 DEF NewProject
<1>4. CASE Profiles
  <2>1. ASSUME NEW p, ProjectLink(p)
        PROVE  HeldInv'
    <3>1. Held(FirstSet(shared, EmptyLayer).sources) /\ FirstSet(shared, EmptyLayer) \in Layer
      <4>1. EmptyLayer.sources = {}
        BY DEF EmptyLayer
      <4> QED
        BY <1>0, <4>1, NothingIsHeld, EmptyIsLayer DEF FirstSet, HasConfig
    <3>2. shared'.sources = FirstSet(shared, EmptyLayer).sources
      BY <2>1, <3>1 DEF ProjectLink, Layer
    <3> QED
      BY <1>2, <2>1, <3>1, <3>2 DEF ProjectLink
  <2>2. ASSUME NEW p \in Profile, EditProfile(p)
        PROVE  HeldInv'
    <3>1. PICK text \in ProfileEdits : profiles' = [profiles EXCEPT ![p] = text]
      BY <2>2 DEF EditProfile
    <3>2. text # Unset => Held(text.sources)
      BY WrittenIsHeld DEF Written
    <3> QED
      BY <2>2, <3>1, <3>2 DEF EditProfile, HeldInv, LayersInv
  <2>3. ASSUME NEW p, SetDefault(p)
        PROVE  HeldInv'
    BY <1>1, <2>3 DEF SetDefault
  <2>4. ASSUME NEW p \in Profile, NEW setDefault, LibraryInit(p, setDefault)
        PROVE  HeldInv'
    <3>1. UserLayer # Unset => Held(UserLayer.sources)
      BY WrittenIsHeld DEF Written
    <3> QED
      BY <2>4, <3>1 DEF LibraryInit, HeldInv, LayersInv
  <2>5. ASSUME EditLocal
        PROVE  HeldInv'
    <3>1. PICK text \in LocalEdits : local' = text
      BY <2>5 DEF EditLocal
    <3>2. text # Unset => Held(text.sources)
      BY WrittenIsHeld DEF Written
    <3> QED
      BY <2>5, <3>1, <3>2 DEF EditLocal, HeldInv
  <2> QED
    BY <1>4, <2>1, <2>2, <2>3, <2>4, <2>5 DEF Profiles
<1>5. CASE Packs
  <2>1. ASSUME HasConfig, NEW new, NEW packs, WriteShared(new, packs),
               \E value : \/ new = [shared EXCEPT !.packs = value]
                          \/ new = [shared EXCEPT !.targets = value]
        PROVE  HeldInv'
    <3>1. new.sources = shared.sources
      BY <1>0, <2>1 DEF Layer
    <3> QED
      BY <1>0, <1>2, <2>1, <3>1 DEF WriteShared
  <2>2. ASSUME NEW after, NEW p, NEW known, NEW ts,
               \/ Add(Plain, p, known, after) \/ Remove(p, after)
               \/ TargetAdd(ts, after) \/ TargetRemove(ts, after)
               \/ Use(p, FALSE, known, after)
        PROVE  HeldInv'
    <3>1. \/ UNCHANGED <<shared, local, profiles>>
          \/ \E new, packs : /\ WriteShared(new, packs)
                             /\ \E value : \/ new = [shared EXCEPT !.packs = value]
                                           \/ new = [shared EXCEPT !.targets = value]
      BY <2>2 DEF Add, Use, Remove, TargetAdd, TargetRemove, fvars
    <3>2. HasConfig
      BY <2>2 DEF Add, Use, Remove, TargetAdd, TargetRemove
    <3> QED
      BY <1>1, <2>1, <3>1, <3>2
  <2>3. ASSUME NEW after, NEW p, NEW known, Use(p, TRUE, known, after)
        PROVE  HeldInv'
    <3>1. FirstSet(local, EmptyLayer) \in Layer /\ Held(FirstSet(local, EmptyLayer).sources)
      <4>1. EmptyLayer.sources = {}
        BY DEF EmptyLayer
      <4> QED
        BY <4>1, NothingIsHeld, EmptyIsLayer DEF FirstSet, LayersInv, HeldInv, File
    <3>2. local'.sources = FirstSet(local, EmptyLayer).sources
      BY <2>3, <3>1 DEF Use, Layer
    <3> QED
      BY <2>3, <3>1, <3>2 DEF Use, HeldInv
  <2> QED
    BY <1>5, <2>2, <2>3 DEF Packs
<1>6. CASE Sources
  <2>1. ASSUME NEW s \in Records, SourceAdd(s) \/ SourceRemove(s.id)
        PROVE  HeldInv'
    <3>1. /\ shared \in Layer /\ Held(shared.sources) /\ UNCHANGED <<local, profiles>>
      BY <1>0, <2>1 DEF SourceAdd, SourceRemove
    <3>2. CASE SourceAdd(s) /\ \E t \in shared.sources : t.id = s.id
      BY <1>1, <3>1, <3>2 DEF SourceAdd
    <3>3. CASE SourceAdd(s) /\ ~\E t \in shared.sources : t.id = s.id
      <4>1. shared'.sources = shared.sources \union {s}
        BY <3>1, <3>3 DEF SourceAdd, Layer
      <4>2. Held(shared'.sources)
        BY <3>1, <3>3, <4>1 DEF Held, Distinct, AllSources
      <4> QED
        BY <1>2, <3>1, <4>2
    <3>4. CASE SourceRemove(s.id)
      <4>1. shared'.sources = {t \in shared.sources : t.id # s.id}
        BY <3>1, <3>4 DEF SourceRemove, Layer
      <4>2. shared'.sources \subseteq shared.sources
        BY <4>1
      <4> QED
        BY <1>2, <3>1, <4>2, HeldParts
    <3> QED
      BY <2>1, <3>2, <3>3, <3>4
  <2>2. ASSUME NEW call, NEW chosen, NEW force, NEW strict, NEW u, NEW id,
               \/ SourceSync(call, chosen, force) \/ SourceSyncFails(call, chosen, force)
               \/ PublicLock \/ PrivateLock \/ Sync(call, strict) \/ SyncIsExposed
               \/ SyncStops \/ SyncPasses \/ UpstreamMoves(u) \/ EditCache(id)
        PROVE  HeldInv'
    BY <1>1, <2>2 DEF SourceSync, SourceSyncFails, PublicLock, PrivateLock, Sync, SyncIsExposed,
                      SyncStops, SyncPasses, CompileAll, UpstreamMoves, EditCache, fvars
  <2> QED
    BY <1>6, <2>1, <2>2 DEF Sources
<1>7. Compiles \/ Crash \/ UNCHANGED vars => UNCHANGED <<shared, local, profiles>>
  BY DEF Compiles, Compile, CompileAll, Crash, vars, svars, fvars
<1> QED
  BY <1>1, <1>3, <1>4, <1>5, <1>6, <1>7 DEF SNext

-----------------------------------------------------------------------------
(* What a sync leaves.                                                     *)

\* The clone is at the commit of the entry, the last one upstream, as it was
\* cloned or fetched.
AtEntry(s, e) ==
    s.git => /\ cache[s.id] # NoCache /\ cache[s.id].clean
             /\ cache[s.id].tracking = <<cache[s.id].url, upstream[cache[s.id].url]>>
             /\ cache[s.id].head = cache[s.id].tracking
             /\ e.commit = cache[s.id].head

\* An entry of the source t, as this machine's lock holds it.
EntryFits(t, e) ==
    /\ e \in Entry /\ e.git = t.git /\ e.hidden = t.hidden
    /\ t.git => e.commit \in Commit

\* The same as the shared lock holds it.
SharedFits(t, e) ==
    /\ e \in Entry /\ e.git = t.git /\ e.hidden = t.hidden
    /\ t.git /\ ~t.hidden => e.commit \in Commit

HasEntries(x) == x[1] \in {"entries", "privateLock"}

\* A step that is not about to write entries.
Elsewhere(x) ==
    ~HasEntries(x) /\ (x[1] = "init" => x[3] \in {<<"idle">>, <<"policy">>})

EntriesFit(pairs) == \A e \in pairs : \E t \in AllSources : e[1] = t.id /\ EntryFits(t, e[2])

\* The sources of a full sync, with the one entry that each of them has.
SyncedAll(sources, pairs) ==
    \A s \in sources :
        /\ s \in Source /\ s # ImportedFrom
        /\ \E e \in Entry : /\ <<s.id, e>> \in pairs
                            /\ \A x \in pairs : x[1] = s.id => x = <<s.id, e>>
                            /\ AtEntry(s, e)

CachesInv ==
    /\ cache \in [SourceId -> Cache \union {NoCache}]
    /\ upstream \in [Url -> 0..MaxCommits]

StepInv ==
    \/ Elsewhere(step)
    \/ /\ HasEntries(step) /\ DOMAIN step = 1..4 /\ EntriesFit(step[2])
       /\ NamedOnce /\ step[3] => SyncedAll(step[4], step[2])

LocksInv ==
    /\ \A id \in DOMAIN priv : \E t \in AllSources : t.id = id /\ EntryFits(t, priv[id])
    /\ \A id \in DOMAIN lock.sources :
          \E t \in AllSources : t.id = id /\ SharedFits(t, lock.sources[id])

ReadyInv ==
    NamedOnce => \A s \in ready :
        /\ s \in Source /\ s # ImportedFrom
        /\ s.id \in DOMAIN priv /\ priv[s.id] \in Entry /\ AtEntry(s, priv[s.id])

SyncInv == CachesInv /\ StepInv /\ LocksInv /\ ReadyInv

LEMMA SyncInit == SInit => SyncInv
<1> SUFFICES ASSUME SInit
             PROVE  SyncInv
  OBVIOUS
<1>1. CachesInv
  BY SourceAssumption DEF SInit, CachesInv
<1>2. StepInv
  BY DEF SInit, StepInv, Elsewhere, HasEntries
<1>3. DOMAIN priv = {} /\ DOMAIN lock.sources = {}
  BY DEF SInit, EmptyLock
<1>4. LocksInv /\ ReadyInv
  BY <1>3 DEF SInit, LocksInv, ReadyInv
<1> QED
  BY <1>1, <1>2, <1>4 DEF SyncInv

-----------------------------------------------------------------------------
(* Clones.                                                                 *)

LEMMA ClonedIsCache ==
  ASSUME CachesInv, NEW u \in Url
  PROVE  /\ Cloned(u) \in Cache /\ Cloned(u).clean /\ Cloned(u).head = Cloned(u).tracking
         /\ Cloned(u).tracking = <<Cloned(u).url, upstream[Cloned(u).url]>>
BY DEF Cloned, Cache, CachesInv, Commit

LEMMA FetchedIsCache ==
  ASSUME CachesInv, NEW c \in Cache
  PROVE  /\ Fetched(c) \in Cache /\ Fetched(c).clean = c.clean /\ Fetched(c).url = c.url
         /\ Fetched(c).head = c.head /\ Fetched(c).tracking = <<c.url, upstream[c.url]>>
<1>1. c.url \in Url /\ <<c.url, upstream[c.url]>> \in Commit
  BY DEF Cache, CachesInv, Commit
<1> QED
  BY <1>1 DEF Fetched, Cache

\* A source that is not refused is brought to the last commit.
LEMMA UpdatedIsCache ==
  ASSUME CachesInv, NEW s \in Source, s.git, NEW force, ~Blocked(s, force)
  PROVE  LET c == Updated(s, force)
         IN  /\ c \in Cache /\ c.clean /\ c.head = c.tracking
             /\ c.tracking = <<c.url, upstream[c.url]>>
<1>1. s.id \in SourceId /\ s.url \in Url
  BY DEF Source
<1>2. CASE cache[s.id] = NoCache \/ force
  BY <1>1, <1>2, ClonedIsCache DEF Updated
<1>3. CASE cache[s.id] # NoCache /\ ~force
  <2> DEFINE c == cache[s.id]
             g == Fetched(c)
  <2>1. c \in Cache /\ c.clean
    BY <1>1, <1>3 DEF Blocked, CachesInv
  <2>2. g \in Cache /\ g.clean /\ g.tracking = <<g.url, upstream[g.url]>>
    BY <2>1, FetchedIsCache
  <2>3. Updated(s, force) = [g EXCEPT !.head = g.tracking]
    BY <1>3 DEF Updated, CheckedOut
  <2> HIDE DEF g
  <2> QED
    BY <2>2, <2>3 DEF Cache
<1> QED
  BY <1>2, <1>3

-----------------------------------------------------------------------------
(* Steps.                                                                  *)

\* Steps that are not about sources take no more from the locks than the
\* entries of the shared one.
LEMMA OthersKeep ==
  ASSUME SyncInv, Elsewhere(step'), UNCHANGED <<cvars, ready>>,
         lock'.sources \in {lock.sources, EmptyLock.sources}
  PROVE  SyncInv'
<1>1. UNCHANGED <<cache, upstream, priv>>
  BY DEF cvars
<1>2. DOMAIN EmptyLock.sources = {}
  BY DEF EmptyLock
<1>3. LocksInv'
  BY <1>1, <1>2 DEF SyncInv, LocksInv
<1>4. ReadyInv'
  BY <1>1 DEF SyncInv, ReadyInv, AtEntry
<1> QED
  BY <1>1, <1>3, <1>4 DEF SyncInv, CachesInv, StepInv

LEMMA OthersStep ==
  ASSUME SyncInv, LockShape,
         (NewProject \/ Profiles \/ Packs \/ Compiles \/ Crash) /\ UNCHANGED <<cvars, ready>>
  PROVE  SyncInv'
<1>0. Elsewhere(<<"idle">>) /\ Elsewhere(<<"policy">>) /\ Elsewhere(<<"policyLock">>)
      /\ Elsewhere(<<"importLock">>) /\ Elsewhere(<<"importFiles">>)
      /\ \A p : Elsewhere(<<"init", p, <<"idle">>>>) /\ Elsewhere(<<"init", p, <<"policy">>>>)
  BY DEF Elsewhere, HasEntries
<1> SUFFICES Elsewhere(step') /\ lock'.sources \in {lock.sources, EmptyLock.sources}
  BY OthersKeep
<1>1. CASE NewProject
  <2>1. ASSUME NEW call, NEW targets, NEW role, NEW detect, NEW bind,
               Init_(call, targets, role, detect, bind) \/ Setup(call, targets, bind)
        PROVE  Elsewhere(step') /\ lock' = lock
    BY <1>0, <2>1 DEF Init_, Setup, InitConfig, Then
  <2>2. ASSUME InitLock
        PROVE  Elsewhere(step') /\ lock'.sources = EmptyLock.sources
    <3>1. step[3] \in {<<"idle">>, <<"policy">>}
      BY <2>2 DEF InitLock, SyncInv, StepInv, Elsewhere, HasEntries
    <3>2. lock'.sources = EmptyLock.sources
      BY <2>2 DEF InitLock, EmptyLock
    <3> QED
      BY <1>0, <2>2, <3>1, <3>2 DEF InitLock, Then
  <2>3. ASSUME NEW opt, NEW how,
               \/ SetPolicy \/ PolicyConfig \/ ImportFiles
               \/ Import(opt, how) \/ Convert(how)
        PROVE  Elsewhere(step') /\ lock' = lock
    BY <1>0, <2>3 DEF SetPolicy, PolicyConfig, ImportFiles, Import, Convert, Then, fvars
  <2>4. ASSUME PolicyLock \/ ImportLock
        PROVE  Elsewhere(step') /\ lock'.sources \in {lock.sources, EmptyLock.sources}
    BY <1>0, <2>4 DEF PolicyLock, ImportLock, Done, LockShape
  <2> QED
    BY <1>1, <2>1, <2>2, <2>3, <2>4 DEF NewProject
<1>2. CASE Profiles
  BY <1>0, <1>2 DEF Profiles, ProjectLink, EditProfile, SetDefault, LibraryInit, EditLocal, Done
<1>3. CASE Packs
  BY <1>0, <1>3 DEF Packs, Add, Use, Remove, TargetAdd, TargetRemove, WriteShared, Then, Alone, fvars
<1>4. CASE Compiles
  BY <1>0, <1>4 DEF Compiles, Compile, CompileAll, Done, LockShape
<1>5. CASE Crash
  BY <1>0, <1>5 DEF Crash, Done, fvars
<1> QED
  BY <1>1, <1>2, <1>3, <1>4, <1>5

LEMMA SourceSyncKeeps ==
  ASSUME SyncInv, NEW call, NEW chosen, NEW force, Held(chosen),
         chosen \subseteq Source, SourceSync(call, chosen, force)
  PROVE  SyncInv'
<1> DEFINE git == {s \in chosen : s.git}
           pairs == {<<s.id, EntryOf(s, cache'[s.id])>> : s \in chosen}
<1>1. /\ \A s \in chosen : ~Blocked(s, force) /\ s # ImportedFrom
      /\ cache' = [id \in SourceId |->
                      IF \E s \in git : s.id = id
                        THEN Updated(CHOOSE s \in git : s.id = id, force)
                        ELSE cache[id]]
      /\ step' = <<"entries", pairs, chosen = Config(call).sources, {s \in chosen : s.private}>>
      /\ ready' = {} /\ UNCHANGED <<lock, upstream, priv>>
  BY DEF SourceSync, Then, fvars
<1>2. ASSUME NEW s \in git
      PROVE  /\ s.id \in SourceId
             /\ \E t \in git : cache'[s.id] = Updated(t, force)
  <2>1. s.id \in SourceId
    BY DEF Source
  <2> DEFINE t == CHOOSE x \in git : x.id = s.id
  <2>2. t \in git /\ t.id = s.id
    OBVIOUS
  <2>3. cache'[s.id] = Updated(t, force)
    BY <1>1, <2>1
  <2> HIDE DEF t
  <2> QED
    BY <2>1, <2>2, <2>3
<1>3. ASSUME NEW s \in git
      PROVE  /\ cache'[s.id] \in Cache /\ cache'[s.id].clean
             /\ cache'[s.id].head = cache'[s.id].tracking
             /\ cache'[s.id].tracking = <<cache'[s.id].url, upstream[cache'[s.id].url]>>
  <2>1. PICK t \in git : cache'[s.id] = Updated(t, force)
    BY <1>2
  <2>2. t \in Source /\ t.git /\ ~Blocked(t, force)
    BY <1>1
  <2> QED
    BY <2>1, <2>2, UpdatedIsCache DEF SyncInv
<1>4. CachesInv'
  <2>1. ASSUME NEW id \in SourceId
        PROVE  cache'[id] \in Cache \union {NoCache}
    <3>1. CASE \E s \in git : s.id = id
      BY <1>3, <3>1
    <3>2. CASE ~\E s \in git : s.id = id
      BY <1>1, <3>2 DEF SyncInv, CachesInv
    <3> QED
      BY <3>1, <3>2
  <2> QED
    BY <1>1, <2>1 DEF SyncInv, CachesInv
<1>5. ASSUME NEW s \in chosen
      PROVE  EntryFits(s, EntryOf(s, cache'[s.id]))
  <2>1. s.git \in BOOLEAN /\ s.hidden \in BOOLEAN
    BY DEF Source
  <2>2. s.git => cache'[s.id].head \in Commit
    BY <1>3 DEF Cache
  <2> QED
    BY <2>1, <2>2 DEF EntryFits, EntryOf, Entry
<1>6. EntriesFit(pairs)
  <2>1. chosen \subseteq AllSources
    BY DEF Held
  <2> QED
    BY <1>5, <2>1 DEF EntriesFit
<1>7. ASSUME NamedOnce, NEW s \in chosen
      PROVE  /\ s \in Source /\ s # ImportedFrom
             /\ \E e \in Entry : /\ <<s.id, e>> \in pairs
                                 /\ \A x \in pairs : x[1] = s.id => x = <<s.id, e>>
                                 /\ AtEntry(s, e)'
  <2> DEFINE e == EntryOf(s, cache'[s.id])
  <2>1. e \in Entry /\ <<s.id, e>> \in pairs
    BY <1>5 DEF EntryFits
  <2>2. ASSUME NEW x \in pairs, x[1] = s.id
        PROVE  x = <<s.id, e>>
    <3>1. PICK t \in chosen : x = <<t.id, EntryOf(t, cache'[t.id])>>
      OBVIOUS
    <3>2. t = s
      BY <1>7, <2>2, <3>1 DEF Held, Distinct
    <3> QED
      BY <3>1, <3>2
  <2>3. ASSUME s.git
        PROVE  /\ cache'[s.id] # NoCache /\ cache'[s.id].clean
               /\ cache'[s.id].tracking
                    = <<cache'[s.id].url, upstream'[cache'[s.id].url]>>
               /\ cache'[s.id].head = cache'[s.id].tracking
               /\ e.commit = cache'[s.id].head
    <3>1. e.commit = cache'[s.id].head
      BY <2>3 DEF EntryOf
    <3>2. s \in git
      BY <2>3
    <3>3. /\ cache'[s.id] \in Cache /\ cache'[s.id].clean
          /\ cache'[s.id].head = cache'[s.id].tracking
          /\ cache'[s.id].tracking = <<cache'[s.id].url, upstream[cache'[s.id].url]>>
      BY <1>3, <3>2
    <3>4. upstream' = upstream
      BY <1>1
    <3> HIDE DEF e
    <3> QED
      BY <3>1, <3>3, <3>4, AbsenceAssumption
  <2> HIDE DEF e, pairs
  <2> QED
    BY <1>1, <2>1, <2>2, <2>3 DEF AtEntry
<1>8. StepInv'
  <2> HIDE DEF pairs
  <2>1. HasEntries(step)' /\ DOMAIN step' = 1..4 /\ EntriesFit(step[2])'
    BY <1>1, <1>6 DEF HasEntries, EntriesFit
  <2>2. NamedOnce => SyncedAll(step[4], step[2])'
    BY <1>1, <1>7 DEF SyncedAll
  <2> QED
    BY <2>1, <2>2 DEF StepInv
<1>9. LocksInv' /\ ReadyInv'
  BY <1>1 DEF SyncInv, LocksInv, ReadyInv
<1> QED
  BY <1>4, <1>8, <1>9 DEF SyncInv

LEMMA SyncFailsKeeps ==
  ASSUME SyncInv, NEW call, NEW chosen, NEW force, chosen \subseteq Source,
         SourceSyncFails(call, chosen, force)
  PROVE  SyncInv'
<1>1. PICK moved \in SUBSET {s \in chosen : s.git /\ ~Blocked(s, force)} :
        \E gone \in SUBSET moved :
          cache' = [id \in SourceId |->
                       IF \E s \in gone : s.id = id THEN NoCache
                       ELSE IF \E s \in moved : s.id = id
                         THEN Updated(CHOOSE s \in moved : s.id = id, force)
                       ELSE cache[id]]
  BY DEF SourceSyncFails
<1>2. PICK gone \in SUBSET moved :
          cache' = [id \in SourceId |->
                       IF \E s \in gone : s.id = id THEN NoCache
                       ELSE IF \E s \in moved : s.id = id
                         THEN Updated(CHOOSE s \in moved : s.id = id, force)
                       ELSE cache[id]]
  BY <1>1
<1>3. step' = <<"idle">> /\ ready' = {} /\ UNCHANGED <<lock, upstream, priv>>
  BY DEF SourceSyncFails, Done, fvars
<1>4. ASSUME NEW id \in SourceId
      PROVE  cache'[id] \in Cache \union {NoCache}
  <2>1. CASE \E s \in gone : s.id = id
    BY <1>2, <2>1
  <2>2. CASE (~\E s \in gone : s.id = id) /\ \E s \in moved : s.id = id
    <3> DEFINE t == CHOOSE s \in moved : s.id = id
    <3>1. t \in moved
      BY <2>2
    <3>2. cache'[id] = Updated(t, force)
      BY <1>2, <2>2
    <3> HIDE DEF t
    <3>3. t \in Source /\ t.git /\ ~Blocked(t, force)
      BY <3>1
    <3> QED
      BY <3>2, <3>3, UpdatedIsCache DEF SyncInv
  <2>3. CASE (~\E s \in gone : s.id = id) /\ ~\E s \in moved : s.id = id
    BY <1>2, <2>3 DEF SyncInv, CachesInv
  <2> QED
    BY <2>1, <2>2, <2>3
<1>5. CachesInv'
  BY <1>2, <1>3, <1>4 DEF SyncInv, CachesInv
<1>6. StepInv'
  BY <1>3 DEF StepInv, Elsewhere, HasEntries
<1>7. LocksInv' /\ ReadyInv'
  BY <1>3 DEF SyncInv, LocksInv, ReadyInv
<1> QED
  BY <1>5, <1>6, <1>7 DEF SyncInv

\* An entry as it gets into the shared lock.
LEMMA RedactedFits ==
  ASSUME NEW t, NEW e, EntryFits(t, e)
  PROVE  SharedFits(t, Redacted(e))
BY DEF EntryFits, SharedFits, Redacted, Entry

\* An entry that was collected is one that fits.
LEMMA EntriesAreOf ==
  ASSUME NEW pairs, EntriesFit(pairs), NEW id \in DOMAIN Entries(pairs)
  PROVE  /\ \E x \in pairs : x[1] = id /\ Entries(pairs)[id] = x[2]
         /\ \E t \in AllSources : t.id = id /\ EntryFits(t, Entries(pairs)[id])
<1> DEFINE x == CHOOSE p \in pairs : p[1] = id
<1>1. id \in {p[1] : p \in pairs}
  BY DEF Entries
<1>2. x \in pairs /\ x[1] = id
  BY <1>1
<1>3. Entries(pairs)[id] = x[2]
  BY <1>1 DEF Entries
<1> HIDE DEF x
<1> QED
  BY <1>2, <1>3 DEF EntriesFit

LEMMA PublicLockKeeps ==
  ASSUME SyncInv, LockShape, PublicLock
  PROVE  SyncInv'
<1> DEFINE new == Entries(step[2])
<1>0. DOMAIN step = 1..4
  BY DEF PublicLock, SyncInv, StepInv, Elsewhere, HasEntries
<1>1. /\ step[1] = "entries" /\ step' = [step EXCEPT ![1] = "privateLock"]
      /\ lock' = [lock EXCEPT !.sources = Upserted(lock.sources, new)]
      /\ UNCHANGED <<cache, upstream, priv, ready>>
  BY DEF PublicLock, Then, cvars
<1>2. EntriesFit(step[2]) /\ (NamedOnce /\ step[3] => SyncedAll(step[4], step[2]))
  BY <1>1 DEF SyncInv, StepInv, Elsewhere, HasEntries
<1>3. lock'.sources = Upserted(lock.sources, new)
  BY <1>1 DEF LockShape
<1>4. ASSUME NEW id \in DOMAIN lock'.sources
      PROVE  \E t \in AllSources : t.id = id /\ SharedFits(t, lock'.sources[id])
  <2>1. CASE id \in DOMAIN new
    <3>1. lock'.sources[id] = Redacted(new[id])
      BY <1>3, <2>1 DEF Upserted
    <3> QED
      BY <1>2, <2>1, <3>1, EntriesAreOf, RedactedFits
  <2>2. CASE id \notin DOMAIN new
    <3>1. id \in DOMAIN lock.sources /\ lock'.sources[id] = lock.sources[id]
      BY <1>3, <1>4, <2>2 DEF Upserted
    <3> QED
      BY <3>1 DEF SyncInv, LocksInv
  <2> QED
    BY <2>1, <2>2
<1>5. LocksInv'
  BY <1>1, <1>4 DEF SyncInv, LocksInv
<1>6. StepInv'
  <2>1. step'[1] = "privateLock" /\ step'[2] = step[2] /\ step'[3] = step[3] /\ step'[4] = step[4]
    BY <1>1, <1>0
  <2>2. DOMAIN step' = 1..4
    BY <1>1, <1>0
  <2>3. \A s, e : AtEntry(s, e)' <=> AtEntry(s, e)
    BY <1>1 DEF AtEntry
  <2>4. NamedOnce /\ step[3] => SyncedAll(step[4], step[2])'
    BY <1>2, <2>1, <2>3 DEF SyncedAll
  <2> QED
    BY <1>2, <2>1, <2>2, <2>4 DEF StepInv, HasEntries, EntriesFit
<1>7. CachesInv' /\ ReadyInv'
  BY <1>1 DEF SyncInv, CachesInv, ReadyInv, AtEntry
<1> QED
  BY <1>5, <1>6, <1>7 DEF SyncInv

LEMMA PrivateLockKeeps ==
  ASSUME SyncInv, PrivateLock
  PROVE  SyncInv'
<1>1. /\ step[1] = "privateLock" /\ step' = <<"idle">>
      /\ priv' = Entries(step[2]) /\ ready' = IF step[3] THEN step[4] ELSE {}
      /\ UNCHANGED <<lock, cache, upstream>>
  BY DEF PrivateLock, Done, fvars
<1>2. EntriesFit(step[2]) /\ (NamedOnce /\ step[3] => SyncedAll(step[4], step[2]))
  BY <1>1 DEF SyncInv, StepInv, Elsewhere, HasEntries
<1>3. LocksInv'
  <2>1. \A id \in DOMAIN priv' : \E t \in AllSources : t.id = id /\ EntryFits(t, priv'[id])
    BY <1>1, <1>2, EntriesAreOf
  <2> QED
    BY <1>1, <2>1 DEF SyncInv, LocksInv
<1>4. ReadyInv'
  <2> SUFFICES ASSUME NamedOnce, NEW s \in ready'
               PROVE  /\ s \in Source /\ s # ImportedFrom
                      /\ s.id \in DOMAIN priv' /\ priv'[s.id] \in Entry
                      /\ AtEntry(s, priv[s.id])'
    BY DEF ReadyInv
  <2>1. step[3] /\ s \in step[4]
    BY <1>1
  <2>2. s \in Source /\ s # ImportedFrom
    BY <1>2, <2>1 DEF SyncedAll
  <2>3. PICK e \in Entry : /\ <<s.id, e>> \in step[2]
                           /\ \A x \in step[2] : x[1] = s.id => x = <<s.id, e>>
                           /\ AtEntry(s, e)
    BY <1>2, <2>1 DEF SyncedAll
  <2>4. s.id \in DOMAIN priv'
    <3>1. <<s.id, e>>[1] = s.id
      OBVIOUS
    <3>2. s.id \in {x[1] : x \in step[2]}
      BY <2>3, <3>1
    <3> QED
      BY <1>1, <3>2 DEF Entries
  <2>5. priv'[s.id] = e
    <3>1. PICK x \in step[2] : x[1] = s.id /\ priv'[s.id] = x[2]
      BY <1>1, <1>2, <2>4, EntriesAreOf
    <3> QED
      BY <2>3, <3>1
  <2> QED
    BY <1>1, <2>2, <2>3, <2>4, <2>5 DEF AtEntry
<1>5. StepInv'
  BY <1>1 DEF StepInv, Elsewhere, HasEntries
<1>6. CachesInv'
  BY <1>1 DEF SyncInv, CachesInv
<1> QED
  BY <1>3, <1>4, <1>5, <1>6 DEF SyncInv

\* The fetches of the check move no clone, and what a clone that is ready
\* tracks is what they find.
LEMMA FetchKeeps ==
  ASSUME SyncInv, NEW sources, \A s \in sources : Checked(s), Fetch(sources),
         step' = <<"idle">>, lock'.sources = lock.sources, UNCHANGED <<upstream, priv, ready>>
  PROVE  SyncInv'
<1>1. ASSUME NEW id \in SourceId
      PROVE  \/ cache'[id] = cache[id]
             \/ /\ cache[id] \in Cache /\ cache'[id] = Fetched(cache[id])
  <2>1. \A s \in sources : cache[s.id] # NoCache
    BY DEF Checked, Present
  <2>2. cache[id] # NoCache => cache[id] \in Cache
    BY DEF SyncInv, CachesInv
  <2> QED
    BY <2>1, <2>2 DEF Fetch
<1>2. CachesInv'
  <2>1. \A id \in SourceId : cache'[id] \in Cache \union {NoCache}
    BY <1>1, FetchedIsCache DEF SyncInv, CachesInv
  <2> QED
    BY <2>1 DEF Fetch, SyncInv, CachesInv
<1>3. ReadyInv'
  <2> SUFFICES ASSUME NamedOnce, NEW s \in ready
               PROVE  /\ s \in Source /\ s # ImportedFrom
                      /\ s.id \in DOMAIN priv /\ priv[s.id] \in Entry
                      /\ AtEntry(s, priv[s.id])'
    BY DEF ReadyInv
  <2>1. /\ s \in Source /\ s # ImportedFrom
        /\ s.id \in DOMAIN priv /\ priv[s.id] \in Entry /\ AtEntry(s, priv[s.id])
    BY DEF SyncInv, ReadyInv
  <2>2. s.id \in SourceId
    BY <2>1 DEF Source
  <2>3. CASE cache'[s.id] = cache[s.id]
    BY <2>1, <2>3 DEF AtEntry
  <2>4. CASE cache[s.id] \in Cache /\ cache'[s.id] = Fetched(cache[s.id])
    <3>1. /\ Fetched(cache[s.id]) \in Cache
          /\ Fetched(cache[s.id]).clean = cache[s.id].clean
          /\ Fetched(cache[s.id]).url = cache[s.id].url
          /\ Fetched(cache[s.id]).head = cache[s.id].head
          /\ Fetched(cache[s.id]).tracking = <<cache[s.id].url, upstream[cache[s.id].url]>>
      BY <2>4, FetchedIsCache DEF SyncInv
    <3> QED
      BY <2>1, <2>4, <3>1, AbsenceAssumption DEF AtEntry
  <2> QED
    BY <1>1, <2>1, <2>2, <2>3, <2>4
<1>4. LocksInv'
  BY DEF SyncInv, LocksInv
<1>5. StepInv'
  BY DEF StepInv, Elsewhere, HasEntries
<1> QED
  BY <1>2, <1>3, <1>4, <1>5 DEF SyncInv

LEMMA UpstreamKeeps ==
  ASSUME SyncInv, NEW u \in Url, UpstreamMoves(u)
  PROVE  SyncInv'
<1>1. /\ upstream' = [upstream EXCEPT ![u] = upstream[u] + 1] /\ upstream[u] < MaxCommits
      /\ ready' = {s \in ready : s.git => cache[s.id].url # u}
      /\ step' = <<"idle">> /\ UNCHANGED <<cache, priv, lock>>
  BY DEF UpstreamMoves, Done, fvars
<1>2. CachesInv'
  BY <1>1, SourceAssumption DEF SyncInv, CachesInv
<1>3. ReadyInv'
  <2> SUFFICES ASSUME NamedOnce, NEW s \in ready'
               PROVE  /\ s \in Source /\ s # ImportedFrom
                      /\ s.id \in DOMAIN priv /\ priv[s.id] \in Entry
                      /\ AtEntry(s, priv[s.id])'
    BY <1>1 DEF ReadyInv
  <2>1. /\ s \in ready /\ (s.git => cache[s.id].url # u)
    BY <1>1
  <2>2. /\ s \in Source /\ s # ImportedFrom
        /\ s.id \in DOMAIN priv /\ priv[s.id] \in Entry /\ AtEntry(s, priv[s.id])
    BY <2>1 DEF SyncInv, ReadyInv
  <2>3. ASSUME s.git
        PROVE  upstream'[cache[s.id].url] = upstream[cache[s.id].url]
    <3>1. s.id \in SourceId
      BY <2>2 DEF Source
    <3>2. cache[s.id] \in Cache
      BY <2>2, <2>3, <3>1 DEF AtEntry, SyncInv, CachesInv
    <3>3. cache[s.id].url \in Url
      BY <3>2 DEF Cache
    <3> QED
      BY <1>1, <2>1, <2>3, <3>3 DEF SyncInv, CachesInv
  <2> QED
    BY <1>1, <2>2, <2>3 DEF AtEntry
<1>4. LocksInv' /\ StepInv'
  BY <1>1 DEF SyncInv, LocksInv, StepInv, Elsewhere, HasEntries
<1> QED
  BY <1>2, <1>3, <1>4 DEF SyncInv

LEMMA EditCacheKeeps ==
  ASSUME SyncInv, NEW id \in SourceId, EditCache(id)
  PROVE  SyncInv'
<1>1. /\ ready' = {s \in ready : s.id # id} /\ cache[id] # NoCache
      /\ \E c \in {NoCache, [cache[id] EXCEPT !.clean = FALSE],
                   [cache[id] EXCEPT !.head = <<cache[id].url, 0>>]} :
            cache' = [cache EXCEPT ![id] = c]
      /\ step' = <<"idle">> /\ UNCHANGED <<upstream, priv, lock>>
  BY DEF EditCache, Done, fvars
<1>2. cache[id] \in Cache
  BY <1>1 DEF SyncInv, CachesInv
<1>3. <<cache[id].url, 0>> \in Commit
  BY <1>2, SourceAssumption DEF Cache, Commit
<1>4. /\ [cache[id] EXCEPT !.clean = FALSE] \in Cache
      /\ [cache[id] EXCEPT !.head = <<cache[id].url, 0>>] \in Cache
  BY <1>2, <1>3 DEF Cache
<1>5. CachesInv'
  <2>1. PICK c \in Cache \union {NoCache} : cache' = [cache EXCEPT ![id] = c]
    BY <1>1, <1>4
  <2> QED
    BY <1>1, <2>1 DEF SyncInv, CachesInv
<1>6. \A other \in SourceId : other # id => cache'[other] = cache[other]
  BY <1>1 DEF SyncInv, CachesInv
<1>7. ReadyInv'
  <2> SUFFICES ASSUME NamedOnce, NEW s \in ready'
               PROVE  /\ s \in Source /\ s # ImportedFrom
                      /\ s.id \in DOMAIN priv /\ priv[s.id] \in Entry
                      /\ AtEntry(s, priv[s.id])'
    BY <1>1 DEF ReadyInv
  <2>1. s \in ready /\ s.id # id
    BY <1>1
  <2>2. /\ s \in Source /\ s # ImportedFrom
        /\ s.id \in DOMAIN priv /\ priv[s.id] \in Entry /\ AtEntry(s, priv[s.id])
    BY <2>1 DEF SyncInv, ReadyInv
  <2>3. cache'[s.id] = cache[s.id]
    BY <1>6, <2>1, <2>2 DEF Source
  <2> QED
    BY <1>1, <2>2, <2>3 DEF AtEntry
<1>8. LocksInv' /\ StepInv'
  BY <1>1 DEF SyncInv, LocksInv, StepInv, Elsewhere, HasEntries
<1> QED
  BY <1>5, <1>7, <1>8 DEF SyncInv

LEMMA SyncStep ==
  ASSUME LayersInv, HeldInv, LockShape, SyncInv, [SNext]_vars
  PROVE  SyncInv'
<1>1. CASE (NewProject \/ Profiles \/ Packs \/ Compiles \/ Crash) /\ UNCHANGED <<cvars, ready>>
  BY <1>1, OthersStep
<1>2. CASE Sources
  <2>1. ASSUME NEW s, SourceAdd(s) \/ SourceRemove(s.id)
        PROVE  SyncInv'
    <3>1. step' = <<"idle">> /\ lock' = lock /\ UNCHANGED <<cvars, ready>>
      BY <2>1 DEF SourceAdd, SourceRemove, Done
    <3> QED
      BY <3>1, OthersKeep DEF Elsewhere, HasEntries
  <2>2. ASSUME NEW call \in Calls, NEW force, HasConfig,
               NEW chosen \in {Config(call).sources} \union {{s} : s \in Config(call).sources},
               SourceSync(call, chosen, force) \/ SourceSyncFails(call, chosen, force)
        PROVE  SyncInv'
    <3>1. Held(Config(call).sources) /\ Config(call).sources \subseteq Source
      BY <2>2, ConfigIsHeld
    <3>2. chosen \subseteq Config(call).sources
      BY <2>2
    <3>3. Held(chosen) /\ chosen \subseteq Source
      BY <3>1, <3>2, HeldParts
    <3> QED
      BY <2>2, <3>3, SourceSyncKeeps, SyncFailsKeeps
  <2>3. ASSUME NEW call, NEW strict, Sync(call, strict) \/ SyncIsExposed
        PROVE  SyncInv'
    <3>1. Elsewhere(step') /\ lock' = lock /\ UNCHANGED <<cvars, ready>>
      BY <2>3 DEF Sync, SyncIsExposed, Then, Done, Elsewhere, HasEntries, fvars
    <3> QED
      BY <3>1, OthersKeep
  <2>4. ASSUME SyncStops
        PROVE  SyncInv'
    <3>1. PICK got \in SUBSET ToFetch(step[2]) : Fetch(got)
      BY <2>4 DEF SyncStops
    <3>2. \A s \in got : Checked(s)
      BY DEF ToFetch
    <3> QED
      BY <2>4, <3>1, <3>2, FetchKeeps DEF SyncStops, Done, fvars
  <2>5. ASSUME SyncPasses
        PROVE  SyncInv'
    <3>1. \A s \in ToFetch(step[2]) : Checked(s)
      BY DEF ToFetch
    <3>2. lock'.sources = lock.sources
      BY <2>5 DEF SyncPasses, CompileAll, LockShape
    <3> QED
      BY <2>5, <3>1, <3>2, FetchKeeps DEF SyncPasses, Done
  <2> QED
    BY <1>2, <2>1, <2>2, <2>3, <2>4, <2>5, PublicLockKeeps, PrivateLockKeeps,
       UpstreamKeeps, EditCacheKeeps DEF Sources
<1>3. CASE UNCHANGED vars
  <2>1. UNCHANGED <<lock, step, cache, upstream, priv, ready>>
    BY <1>3 DEF vars, svars, fvars, cvars
  <2>2. CachesInv' /\ LocksInv'
    BY <2>1 DEF SyncInv, CachesInv, LocksInv
  <2>3. StepInv' /\ ReadyInv'
    <3>1. ASSUME NEW s, NEW e
          PROVE  AtEntry(s, e)' <=> AtEntry(s, e)
      BY <2>1 DEF AtEntry
    <3>2. \A pairs, sources : SyncedAll(sources, pairs)' <=> SyncedAll(sources, pairs)
      BY <3>1 DEF SyncedAll
    <3> QED
      BY <2>1, <3>1, <3>2 DEF SyncInv, StepInv, Elsewhere, HasEntries, EntriesFit, ReadyInv
  <2> QED
    BY <2>2, <2>3 DEF SyncInv
<1> QED
  BY <1>1, <1>2, <1>3 DEF SNext

\* Everything the locks rest on.
SourcesInv == FreshInv /\ LayersInv /\ HeldInv /\ SyncInv

LEMMA SourcesInit == SInit => SourcesInv
BY FreshStart, LayersInit, HeldInit, SyncInit DEF SourcesInv

LEMMA SourcesStep == SourcesInv /\ [SNext]_vars => SourcesInv'
BY FreshStep, LayersStep, HeldStep, SyncStep DEF SourcesInv, FreshInv

\* Where no file names two sources of one id, a private source that a full
\* `source sync` has brought up to date passes the check before a sync, even a
\* strict one, until somebody moves it: whatever is synced, compiled, added and
\* removed in between, and wherever commands die.
THEOREM SyncedIsReady ==
  ASSUME NamedOnce
  PROVE  SetupSpec => []SyncAllReadies
<1>1. SourcesInv => SyncAllReadies
  <2> SUFFICES ASSUME SourcesInv, NEW s \in ready
               PROVE  Present(s) /\ ~Unlocked(s) /\ ~Behind(s)
    BY DEF SyncAllReadies
  <2>1. /\ s \in Source /\ s # ImportedFrom
        /\ s.id \in DOMAIN priv /\ priv[s.id] \in Entry /\ AtEntry(s, priv[s.id])
    BY NamedOnce DEF SourcesInv, SyncInv, ReadyInv
  <2>2. Locked(s.id) = priv[s.id] /\ priv[s.id] # NoEntry
    BY <2>1, AbsenceAssumption DEF Locked
  <2>3. Present(s)
    BY <2>1 DEF Present, AtEntry
  <2>4. CASE ~s.git
    BY <2>2, <2>3, <2>4 DEF Unlocked, Behind
  <2>5. CASE s.git
    <3>1. s.id \in SourceId
      BY <2>1 DEF Source
    <3>2. cache[s.id] \in Cache
      BY <2>1, <2>5, <3>1 DEF AtEntry, SourcesInv, SyncInv, CachesInv
    <3>3. /\ LockedCommit(s.id) = cache[s.id].head /\ cache[s.id].head \in Commit
      BY <2>1, <2>2, <2>5, <3>2 DEF LockedCommit, AtEntry, Cache
    <3>4. ~Unlocked(s)
      BY <2>5, <3>3, AbsenceAssumption DEF Unlocked
    <3>5. /\ Fetched(cache[s.id]).head = cache[s.id].head
          /\ Fetched(cache[s.id]).tracking = cache[s.id].tracking
      BY <2>1, <2>5, <3>2, FetchedIsCache DEF AtEntry, SourcesInv, SyncInv
    <3>6. cache[s.id].tracking = cache[s.id].head
      BY <2>1, <2>5 DEF AtEntry
    <3>7. ~Behind(s)
      BY <3>3, <3>5, <3>6 DEF Behind
    <3> QED
      BY <2>3, <3>4, <3>7
  <2> QED
    BY <2>4, <2>5
<1> QED
  BY <1>1, SourcesInit, SourcesStep, PTL DEF SetupSpec

\* No step takes an entry from the shared lock, but those that clear it.
LEMMA EntriesStay ==
  ASSUME LockShape, SNext
  PROVE  \/ DOMAIN lock.sources \subseteq DOMAIN lock'.sources
         \/ lock'.sources = EmptyLock.sources
<1>1. CASE NewProject
  <2>1. ASSUME NEW call, NEW targets, NEW role, NEW detect, NEW bind,
               Init_(call, targets, role, detect, bind) \/ Setup(call, targets, bind)
        PROVE  lock' = lock
    BY <2>1 DEF Init_, Setup
  <2>2. ASSUME NEW opt, NEW how,
               \/ SetPolicy \/ PolicyConfig \/ ImportFiles
               \/ Import(opt, how) \/ Convert(how)
        PROVE  lock' = lock
    BY <2>2 DEF SetPolicy, PolicyConfig, ImportFiles, Import, Convert, fvars
  <2>3. ASSUME InitLock \/ PolicyLock \/ ImportLock
        PROVE  lock'.sources \in {lock.sources, EmptyLock.sources}
    BY <2>3 DEF InitLock, PolicyLock, ImportLock, LockShape, EmptyLock
  <2> QED
    BY <1>1, <2>1, <2>2, <2>3 DEF NewProject
<1>2. CASE Profiles \/ Packs \/ Crash
  BY <1>2 DEF Profiles, ProjectLink, EditProfile, SetDefault, LibraryInit, EditLocal,
              Packs, Add, Use, Remove, TargetAdd, TargetRemove, WriteShared, Crash, fvars
<1>3. CASE Compiles
  BY <1>3 DEF Compiles, Compile, CompileAll, LockShape
<1>4. CASE Sources
  <2>1. ASSUME PublicLock
        PROVE  DOMAIN lock.sources \subseteq DOMAIN lock'.sources
    BY <2>1 DEF PublicLock, Upserted, LockShape
  <2>2. ASSUME SyncPasses
        PROVE  lock'.sources = lock.sources
    BY <2>2 DEF SyncPasses, CompileAll, LockShape
  <2>3. ASSUME NEW s, NEW call, NEW chosen, NEW force, NEW strict, NEW u, NEW id,
               \/ SourceAdd(s) \/ SourceRemove(s.id)
               \/ SourceSync(call, chosen, force) \/ SourceSyncFails(call, chosen, force)
               \/ PrivateLock \/ Sync(call, strict) \/ SyncIsExposed
               \/ SyncStops \/ UpstreamMoves(u) \/ EditCache(id)
        PROVE  lock' = lock
    BY <2>3 DEF SourceAdd, SourceRemove, SourceSync, SourceSyncFails, PrivateLock, Sync,
                SyncIsExposed, SyncStops, UpstreamMoves, EditCache, fvars
  <2> QED
    BY <1>4, <2>1, <2>2, <2>3 DEF Sources
<1> QED
  BY <1>1, <1>2, <1>3, <1>4 DEF SNext

\* What a source that may be shown is stays the same wherever its id is used.
OneOfItsId == \A s \in Shown, t \in AllSources : t.id = s.id => t.git = s.git /\ ~t.hidden

\* Where its id is that of no other source, a source that the shared lock file
\* may show, and has, stays locked whatever is synced, compiled, added or
\* removed, until init or an import clears the file.
THEOREM LocksAreKept ==
  ASSUME OneOfItsId
  PROVE  SetupSpec => LockedStaysLocked
<1>1. SourcesInv /\ SourcesInv' /\ [SNext]_vars =>
        [\A s \in Shown : s.id \in DOMAIN lock.sources
            => ~Unlocked(s)' \/ lock'.sources = EmptyLock.sources]_vars
  <2> SUFFICES ASSUME SourcesInv, SourcesInv', SNext, NEW s \in Shown,
                      s.id \in DOMAIN lock.sources, lock'.sources # EmptyLock.sources
               PROVE  ~Unlocked(s)'
    OBVIOUS
  <2>1. s.id \in DOMAIN lock'.sources
    BY EntriesStay DEF SourcesInv, FreshInv
  <2>2. \E t \in AllSources : t.id = s.id /\ SharedFits(t, lock'.sources[s.id])
    BY <2>1 DEF SourcesInv, SyncInv, LocksInv
  <2>3. ASSUME s.id \in DOMAIN priv'
        PROVE  \E t \in AllSources : t.id = s.id /\ EntryFits(t, priv'[s.id])
    BY <2>3 DEF SourcesInv, SyncInv, LocksInv
  <2>4. PICK t \in AllSources : t.id = s.id /\ SharedFits(t, Locked(s.id)')
    <3>1. CASE s.id \in DOMAIN priv'
      BY <2>3, <3>1 DEF Locked, SharedFits, EntryFits
    <3>2. CASE s.id \notin DOMAIN priv'
      BY <2>1, <2>2, <3>2 DEF Locked
    <3> QED
      BY <3>1, <3>2
  <2>5. t.git = s.git /\ ~t.hidden
    BY <2>4, OneOfItsId DEF OneOfItsId
  <2>6. Locked(s.id)' # NoEntry /\ (s.git => Locked(s.id)'.commit # NoCommit)
    BY <2>4, <2>5, AbsenceAssumption DEF SharedFits
  <2> QED
    BY <2>6 DEF Unlocked, LockedCommit
<1> QED
  BY <1>1, SourcesInit, SourcesStep, PTL DEF SetupSpec, LockedStaysLocked

=============================================================================
