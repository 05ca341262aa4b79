---------------------------- MODULE SourceLocks ----------------------------
(***************************************************************************)
(* The sources of packs of a project: source add, remove and sync          *)
(* (crates/metactl/src/cli_source.rs), and the check of the private ones   *)
(* that a sync makes before it compiles (main.rs), together with the       *)
(* commands of ProjectSetup.  A git source is cloned into a cache of the   *)
(* project.  What it was resolved to is written twice: in metactl.lock.json*)
(* , which the project shares, redacted if the source asks for it, and in  *)
(* full in a lock of this machine's.                                       *)
(***************************************************************************)
EXTENDS ProjectSetup

CONSTANTS
    Offers,     \* Offers[id]: the packs in the library of a source
    Records,    \* the source records people add
    Configured, \* a metactl.yaml a project may start with
    NoCache, NoCommit, NoEntry,
    MaxCommits  \* bound: commits upstream

ASSUME SourceAssumption ==
    /\ Offers \in [SourceId -> SUBSET Pack]
    /\ Records \subseteq Source
    /\ Configured \in Layer
    /\ MaxCommits \in Nat

VARIABLES
    cache,     \* cache[id]: the clone of a git source
    upstream,  \* upstream[u]: how many commits are at url u
    priv,      \* .metactl/private/source-lock.json
    ready      \* history: the private sources made ready by the last full source sync

cvars == <<cache, upstream, priv>>
vars == <<svars, cvars, ready>>

\* A commit is known by where it is and its number.
Commit == Url \X (0..MaxCommits)

\* The url a clone came from, what it has fetched from there, what is checked
\* out, and whether somebody has edited it.
Cache == [url : Url, tracking : Commit, head : Commit, clean : BOOLEAN]

\* A directory has no commit, and a redacted entry does not say it.
Entry == [hidden : BOOLEAN, git : BOOLEAN, commit : Commit \union {NoCommit}]

ASSUME AbsenceAssumption ==
    NoCache \notin Cache /\ NoCommit \notin Commit /\ NoEntry \notin Entry

Redacted(e) == IF e.hidden THEN [e EXCEPT !.commit = NoCommit] ELSE e

Cloned(u) == [url |-> u, tracking |-> <<u, upstream[u]>>, head |-> <<u, upstream[u]>>,
              clean |-> TRUE]
Fetched(c) == [c EXCEPT !.tracking = <<c.url, upstream[c.url]>>]
CheckedOut(c) == [c EXCEPT !.head = c.tracking]

Present(s) == IF s.git THEN cache[s.id] # NoCache ELSE s = ImportedFrom => converted

\* The packs a command can find.
Known(config) ==
    Starter \union UNION {IF s = ImportedFrom THEN {Imported} ELSE Offers[s.id] :
                          s \in {t \in config.sources : Present(t)}}

-----------------------------------------------------------------------------
(* source add, remove and sync                                             *)

\* An id that is there is left as it is.
SourceAdd(s) ==
    /\ Idle /\ Count /\ Done
    /\ HasConfig
    /\ IF \E t \in shared.sources : t.id = s.id THEN UNCHANGED <<shared, asked>>
       ELSE /\ shared' = [shared EXCEPT !.sources = @ \union {s}]
            /\ Asks({}, {s})
    /\ UNCHANGED <<local, profiles, default, lock, converted, compiled, vouched, copied,
                   cvars, ready>>

\* Lock entries and cache stay.
SourceRemove(id) ==
    /\ Idle /\ Count /\ Done
    /\ HasConfig
    /\ shared' = [shared EXCEPT !.sources = {s \in @ : s.id # id}]
    /\ UNCHANGED <<local, profiles, default, lock, converted, hvars, cvars, ready>>

\* A dirty clone is refused, unless forced.
Blocked(s, force) == s.git /\ cache[s.id] # NoCache /\ ~cache[s.id].clean /\ ~force

\* A clone that is there is fetched from where it came from.
Updated(s, force) ==
    IF cache[s.id] = NoCache \/ force THEN Cloned(s.url)
    ELSE CheckedOut(Fetched(cache[s.id]))

EntryOf(s, c) == [hidden |-> s.hidden, git |-> s.git, commit |-> IF s.git THEN c.head ELSE NoCommit]

\* The sources of a full sync, or the one that is named.
SourceSync(call, chosen, force) ==
    LET git == {s \in chosen : s.git}
    IN  /\ Idle /\ Count
        /\ HasConfig
        /\ chosen # {}
        /\ \A s \in chosen : ~Blocked(s, force) /\ s # ImportedFrom
        /\ cache' = [id \in SourceId |->
                        IF \E s \in git : s.id = id
                          THEN Updated(CHOOSE s \in git : s.id = id, force)
                          ELSE cache[id]]
        /\ Then(<<"entries", {<<s.id, EntryOf(s, cache'[s.id])>> : s \in chosen},
                  chosen = Config(call).sources, {s \in chosen : s.private}>>)
        /\ ready' = {}
        /\ UNCHANGED <<fvars, hvars, upstream, priv>>

\* It stops at a source that it cannot clone, fetch or use (an imported one
\* has no library.json): the clones before it, and its own, may have moved.
SourceSyncFails(call, chosen, force) ==
    /\ Idle /\ Count /\ Done
    /\ HasConfig
    /\ \E moved \in SUBSET {s \in chosen : s.git /\ ~Blocked(s, force)} :
          /\ moved # {}
          /\ \E gone \in SUBSET moved :
                /\ gone # {} => force /\ Cardinality(gone) = 1
                /\ cache' = [id \in SourceId |->
                       IF \E s \in gone : s.id = id THEN NoCache
                       ELSE IF \E s \in moved : s.id = id
                         THEN Updated(CHOOSE s \in moved : s.id = id, force)
                       ELSE cache[id]]
    /\ ready' = {}
    /\ UNCHANGED <<fvars, hvars, upstream, priv>>

Entries(pairs) ==
    [id \in {p[1] : p \in pairs} |-> (CHOOSE p \in pairs : p[1] = id)[2]]

\* Each replaces the entry of its id.
Upserted(entries, new) ==
    [id \in DOMAIN entries \union DOMAIN new |->
        IF id \in DOMAIN new THEN Redacted(new[id]) ELSE entries[id]]

\* The shared lock is written first.
PublicLock ==
    /\ step[1] = "entries"
    /\ lock' = [lock EXCEPT !.sources = Upserted(@, Entries(step[2]))]
    /\ Then([step EXCEPT ![1] = "privateLock"])
    /\ UNCHANGED <<shared, local, profiles, default, converted, steps, hvars, cvars, ready>>

\* Wrong: a full sync keeps one source only, as a named one does.
PrivateLock_OneOnly ==
    /\ step[1] = "privateLock"
    /\ \E p \in step[2] : priv' = Entries({p})
    /\ ready' = IF step[3] THEN step[4] ELSE {}
    /\ Done
    /\ UNCHANGED <<fvars, steps, hvars, cache, upstream>>

\* Then this machine's, which holds what was synced now and nothing else.
PrivateLock ==
    /\ step[1] = "privateLock"
    /\ priv' = Entries(step[2])
    /\ ready' = IF step[3] THEN step[4] ELSE {}
    /\ Done
    /\ UNCHANGED <<fvars, steps, hvars, cache, upstream>>

-----------------------------------------------------------------------------
(* The check before a sync                                                 *)

\* Wrong: only this machine's lock is looked at.
Locked_PrivateOnly(id) == IF id \in DOMAIN priv THEN priv[id] ELSE NoEntry

\* This machine's lock comes before the shared one.
Locked(id) ==
    IF id \in DOMAIN priv THEN priv[id]
    ELSE IF id \in DOMAIN lock.sources THEN lock.sources[id]
    ELSE NoEntry

LockedCommit(id) == IF Locked(id) = NoEntry THEN NoCommit ELSE Locked(id).commit

PrivateSources(call) == {s \in Config(call).sources : s.private}

Unlocked(s) == IF s.git THEN LockedCommit(s.id) = NoCommit ELSE Locked(s.id) = NoEntry

\* The clones that the check fetches into, and what it then compares.
Checked(s) == s.git /\ Present(s) /\ ~Unlocked(s) /\ cache[s.id].clean

Behind(s) ==
    /\ s.git /\ Present(s) /\ ~Unlocked(s)
    /\ LET c == IF Checked(s) THEN Fetched(cache[s.id]) ELSE cache[s.id]
       IN  {c.head, c.tracking} # {LockedCommit(s.id)}

\* The shared lock holds the path of a clone.
Exposed == \E id \in DOMAIN lock.sources : lock.sources[id].git /\ ~lock.sources[id].hidden

\* A source that is missing hides one that is behind.
Refused(call, strict) ==
    LET private == PrivateSources(call)
        missing == {s \in private : ~Present(s)}
    IN  \/ missing = {} /\ \E s \in private : Behind(s)
        \/ strict /\ (missing # {} \/ \E s \in private : Unlocked(s))

Sync(call, strict) ==
    /\ Idle /\ Count
    /\ HasConfig
    /\ Then(<<"sync", call, strict>>)
    /\ UNCHANGED <<fvars, hvars, cvars, ready>>

SyncIsExposed ==
    /\ step[1] = "sync" /\ Exposed
    /\ Done
    /\ UNCHANGED <<fvars, steps, hvars, cvars, ready>>

Fetch(sources) ==
    cache' = [id \in SourceId |-> IF \E s \in sources : s.id = id
                                THEN Fetched(cache[id]) ELSE cache[id]]

ToFetch(call) == {s \in PrivateSources(call) : Checked(s)}

\* A fetch fails after some of the others, the check refuses, or the compile
\* fails.
SyncStops ==
    /\ step[1] = "sync" /\ ~Exposed
    /\ \E got \in SUBSET ToFetch(step[2]) : Fetch(got)
    /\ Done
    /\ UNCHANGED <<fvars, steps, hvars, upstream, priv, ready>>

SyncPasses ==
    /\ step[1] = "sync" /\ ~Exposed
    /\ ~Refused(step[2], step[3])
    /\ Fetch(ToFetch(step[2]))
    /\ CompileAll(step[2], Known(Config(step[2])))
    /\ Done
    /\ UNCHANGED <<steps, upstream, priv, ready>>

-----------------------------------------------------------------------------
(* Outside                                                                 *)

UpstreamMoves(u) ==
    /\ Idle /\ Count /\ Done
    /\ upstream[u] < MaxCommits
    /\ upstream' = [upstream EXCEPT ![u] = @ + 1]
    /\ ready' = {s \in ready : s.git => cache[s.id].url # u}
    /\ UNCHANGED <<fvars, hvars, cache, priv>>

\* Somebody deletes a clone, edits it, or checks out another commit.
EditCache(id) ==
    /\ Idle /\ Count /\ Done
    /\ cache[id] # NoCache
    /\ \E c \in {NoCache, [cache[id] EXCEPT !.clean = FALSE],
                  [cache[id] EXCEPT !.head = <<cache[id].url, 0>>]} :
          cache' = [cache EXCEPT ![id] = c]
    /\ ready' = {s \in ready : s.id # id}
    /\ UNCHANGED <<fvars, hvars, upstream, priv>>

-----------------------------------------------------------------------------

SInit ==
    /\ shared \in {Unset, Configured}
    /\ local = Unset /\ profiles = [p \in Profile |-> Unset] /\ default = Unset
    /\ lock = EmptyLock /\ converted = FALSE
    /\ step = <<"idle">> /\ steps = 0
    /\ compiled = NoSelection /\ vouched = FALSE /\ copied = NoSelection
    /\ asked = IF shared = Unset THEN [packs |-> {}, sources |-> {}]
               ELSE [packs |-> shared.packs, sources |-> shared.sources]
    /\ cache = [id \in SourceId |-> NoCache] /\ upstream = [u \in Url |-> 0]
    /\ priv = EmptyLock.sources /\ ready = {}

\* Bound: a sync that a command may run at its end is one that starts next.
Alone == <<"idle">>

\* Bound: the commands that only edit a file are called without options.
Plain == [profile |-> Unset, noDefault |-> FALSE]

\* The targets a command is given, one at most.
Choices == {{}} \union {{t} : t \in Target}

NewProject ==
    \/ \E call \in Calls, targets \in Choices, bind \in BOOLEAN :
          \/ \* bound: --detect is tried without a role
             \E role \in {Unset, Builder} : \E detect \in {FALSE, role = Unset} :
                Init_(call, targets, role, detect, bind)
          \/ Setup(call, targets, bind)
    \/ InitLock \/ SetPolicy \/ PolicyConfig \/ PolicyLock
    \/ \E how \in {"create", "merge", "replace"} :
          \/ \E opt \in Options : Import(opt, how)
          \/ Convert(how)
    \/ ImportFiles \/ ImportLock

Profiles ==
    \/ \E p \in Profile :
          \/ ProjectLink(p) \/ EditProfile(p) \/ SetDefault(p)
          \/ \E setDefault \in BOOLEAN : LibraryInit(p, setDefault)
    \/ SetDefault(Unset) \/ EditLocal

Packs ==
    /\ HasConfig
    /\ \/ \E p \in Pack :
            \/ Add(Plain, p, Known(Config(Plain)), Alone)
            \/ \E isLocal \in BOOLEAN : Use(p, isLocal, Known(Config(Plain)), Alone)
            \/ Remove(p, Alone)
       \/ \E ts \in Choices \ {{}} :
            TargetAdd(ts, Alone) \/ TargetRemove(ts, Alone)

Compiles ==
    /\ HasConfig
    /\ \E call \in Calls, update \in BOOLEAN : Compile(call, update, Known(Config(call)))

Sources ==
    \/ \E s \in Records : SourceAdd(s) \/ SourceRemove(s.id)
    \/ /\ HasConfig
       /\ \E call \in Calls, force \in BOOLEAN :
            LET all == Config(call).sources
            IN  \E chosen \in {all} \union {{s} : s \in all} :
                  SourceSync(call, chosen, force) \/ SourceSyncFails(call, chosen, force)
    \/ PublicLock \/ PrivateLock
    \/ \E call \in Calls, strict \in BOOLEAN : Sync(call, strict)
    \/ SyncIsExposed \/ SyncStops \/ SyncPasses
    \/ \E u \in Url : UpstreamMoves(u)
    \/ \E id \in SourceId : EditCache(id)

SNext ==
    \/ (NewProject \/ Profiles \/ Packs \/ Compiles \/ Crash) /\ UNCHANGED <<cvars, ready>>
    \/ Sources

SetupSpec == SInit /\ [][SNext]_vars

-----------------------------------------------------------------------------
(* Properties                                                              *)

\* A lock file that is not stale says what was compiled: for every way to call
\* a command, the configuration it would work with selects what the last
\* compile did.  The commands that change a file, a profile, the default or the
\* lock itself must all leave lock_is_stale able to tell.  What setup vouches
\* for is excepted: it renews the digest of a metactl.yaml that nobody compiled.
FreshLockIsCurrent ==
    \A call \in Calls :
        HasConfig /\ lock.targets # {} /\ ~Stale(call) /\ ~vouched
            => compiled = Selection(Config(call))

\* What only a profile or metactl.local.yaml gives never gets into the shared
\* metactl.yaml: its packs and sources are those a command was asked for, and a
\* private source record of another project only with the flag that says so.
SharedHoldsOnlyAsked ==
    HasConfig => shared.packs \subseteq asked.packs /\ shared.sources \subseteq asked.sources

\* An import that materializes a project selects what that project does, for
\* everybody, whatever becomes of the profiles and the user's default.
MaterializedIsEquivalent ==
    copied # NoSelection => \A call \in Calls :
        LET selection == Selection(Config(call))
        IN  \A f \in {"role", "packs", "targets"} : selection[f] = copied[f]

\* After a full source sync the check before a sync has nothing against any
\* private source, even a strict one, until somebody moves the source: the
\* remedy that its refusals name is one.
SyncAllReadies == \A s \in ready : Present(s) /\ ~Unlocked(s) /\ ~Behind(s)

Shown == {s \in Records \union Configured.sources : ~s.hidden}

\* A source whose entry the shared lock file may show, and has, stays locked,
\* whichever sources are synced by name, until init or an import clears the
\* file: what this machine's lock forgets is still found there.
LockedStaysLocked ==
    [][\A s \in Shown : s.id \in DOMAIN lock.sources
            => ~Unlocked(s)' \/ lock'.sources = EmptyLock.sources]_vars

=============================================================================
