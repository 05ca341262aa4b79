---------------------------- MODULE LibraryStack ----------------------------
(***************************************************************************)
(* The library stack (crates/metactl/src/library_stack.rs): the read-only  *)
(* baselines of the active profile, in order, then its writable overlay,   *)
(* resolved to one supplier for every artifact they offer.  The code does  *)
(* it in two nested loops; here a step is an artifact or the next source.  *)
(***************************************************************************)
EXTENDS Naturals, Sequences, FiniteSets, SequencesExt

CONSTANTS
    Stacks,    \* the stacks to resolve: [sources, profiles, active]
    NoStack,   \* none is being resolved
    NoError

\* A source is [id, role, readOnly, writable, pinned, artifacts], an artifact
\* [id, locked, policy], a profile [id, baselines, overlay, explicit].

IsSequence(s) == s \in Seq(ToSet(s))

\* Lists are lists, and the absence of an error is no error.
ASSUME StackAssumption ==
    /\ \A st \in Stacks :
          /\ \A i \in DOMAIN st.profiles : IsSequence(st.profiles[i].baselines)
          /\ \A i \in DOMAIN st.sources : IsSequence(st.sources[i].artifacts)
    /\ NoError \notin {"duplicate_source", "profile", "overlay_not_found", "invalid_overlay",
                      "baseline_not_found", "invalid_baseline",
                      "locked_override", "accidental_collision", "baseline_conflict"}

VARIABLES
    stack,     \* the stack that is resolved
    lock,      \* the suppliers so far: [source, role, artifact, status] of an id
    at,        \* the loops: the source they are at, and how many of its
               \* artifacts have been looked at, [source, artifact]
    error      \* why it is refused

svars == <<stack, lock, at, error>>

Ids(seq) == {seq[i].id : i \in DOMAIN seq}
SourcesUnique(st) ==
    \A i, j \in DOMAIN st.sources :
       st.sources[i].id = st.sources[j].id => i = j
TheSource(st, id) == CHOOSE s \in ToSet(st.sources) : s.id = id

ActiveProfiles(st) == {i \in DOMAIN st.profiles : st.profiles[i].id = st.active}
ActiveProfile(st) == st.profiles[CHOOSE i \in ActiveProfiles(st) : TRUE]

ValidOverlay(s) == s.role = "overlay" /\ ~s.readOnly /\ s.writable
ValidBaseline(s) == s.role = "baseline" /\ s.readOnly /\ ~s.writable /\ s.pinned

\* Why the stack is refused before any artifact is looked at.
StackError(st) ==
    IF ~SourcesUnique(st) THEN "duplicate_source"
    ELSE IF Cardinality(ActiveProfiles(st)) # 1 THEN "profile"
    ELSE LET p == ActiveProfile(st) IN
         IF p.overlay \notin Ids(st.sources) THEN "overlay_not_found"
         ELSE IF ~ValidOverlay(TheSource(st, p.overlay)) THEN "invalid_overlay"
         ELSE IF ~ToSet(p.baselines) \subseteq Ids(st.sources) THEN "baseline_not_found"
         ELSE IF \E b \in ToSet(p.baselines) : ~ValidBaseline(TheSource(st, b))
              THEN "invalid_baseline" ELSE NoError

\* The sources of the active profile, each once, in their order.
ActiveSourceIds(st) ==
    LET p == ActiveProfile(st)
        Once(ids, id) == IF id \in ToSet(ids) THEN ids ELSE Append(ids, id)
    IN  FoldLeft(Once, <<>>, Append(p.baselines, p.overlay))

\* The baselines in the profile's order, then the overlay.
SourceOrder(st) == Append(ActiveProfile(st).baselines, ActiveProfile(st).overlay)
SourceAt(st, i) == TheSource(st, SourceOrder(st)[i])

Entry(source, artifact, status) ==
    [source |-> source.id, role |-> source.role, artifact |-> artifact, status |-> status]

\* Wrong: the lock of an artifact is not looked at.
CollisionError_IgnoresLock(profile, source, existing) ==
    IF source.role = "overlay"
    THEN IF existing.artifact.policy = "allow_overlay" THEN NoError ELSE "accidental_collision"
    ELSE IF profile.explicit /\ existing.artifact.policy = "allow_baseline_precedence"
         THEN NoError ELSE "baseline_conflict"

\* Why an artifact that has a supplier already cannot be offered again.
CollisionError(profile, source, existing) ==
    IF source.role = "overlay"
    THEN IF existing.artifact.locked THEN "locked_override"
         ELSE IF existing.artifact.policy = "allow_overlay" THEN NoError
         ELSE "accidental_collision"
    ELSE IF existing.role # "baseline" THEN "accidental_collision"
         ELSE IF profile.explicit /\ existing.artifact.policy = "allow_baseline_precedence"
         THEN NoError ELSE "baseline_conflict"

\* Wrong: a later baseline takes the artifact over.
Collided_LastWins(source, artifact, existing) == Entry(source, artifact, "overrode_baseline")

\* The overlay takes the artifact over; the first baseline keeps it.
Collided(source, artifact, existing) ==
    IF source.role = "overlay" THEN Entry(source, artifact, "overrode_baseline")
    ELSE [source |-> existing.source, role |-> existing.role,
          artifact |-> existing.artifact, status |-> "baseline_precedence"]

AtStart == at = [source |-> 1, artifact |-> 0]
StackIdle == stack = NoStack /\ lock = <<>> /\ AtStart /\ error = NoError

StackInit ==
    /\ stack \in Stacks
    /\ lock = <<>> /\ AtStart
    /\ error = StackError(stack)

Resolving == stack # NoStack /\ error = NoError /\ at.source \in DOMAIN SourceOrder(stack)

Supply(id, entry) ==
    lock' = [a \in DOMAIN lock \cup {id} |-> IF a = id THEN entry ELSE lock[a]]

\* Nobody has supplied the artifact yet, or its suppliers collide.
Merge(source, artifact) ==
    LET id == artifact.id IN
    IF id \notin DOMAIN lock
    THEN Supply(id, Entry(source, artifact, "none")) /\ error' = error
    ELSE LET why == CollisionError(ActiveProfile(stack), source, lock[id]) IN
         IF why # NoError THEN error' = why /\ lock' = lock
         ELSE Supply(id, Collided(source, artifact, lock[id])) /\ error' = error

\* The inner loop: the next artifact of the source.
MergeOffer ==
    /\ Resolving
    /\ LET source == SourceAt(stack, at.source)  k == at.artifact + 1 IN
       /\ k \in DOMAIN source.artifacts
       /\ Merge(source, source.artifacts[k])
       /\ at' = [source |-> at.source, artifact |-> k]
    /\ stack' = stack

\* The outer loop: the next source.
NextSource ==
    /\ Resolving
    /\ at.artifact + 1 \notin DOMAIN SourceAt(stack, at.source).artifacts
    /\ at' = [source |-> at.source + 1, artifact |-> 0]
    /\ UNCHANGED <<stack, lock, error>>

StackNext == MergeOffer \/ NextSource
StackSpec == StackInit /\ [][StackNext]_svars
-----------------------------------------------------------------------------
\* An artifact that its supplier has locked keeps this supplier, whichever
\* sources offer it again: resolve_collision, library_stack.rs:295.
LockedKeepsSupplier ==
    [][\A id \in DOMAIN lock : lock[id].artifact.locked =>
          id \in DOMAIN lock' /\ lock'[id].source = lock[id].source]_svars

\* An offer is a position of the loops: a source and one of its artifacts.
Offers(st) == UNION {{i} \X DOMAIN SourceAt(st, i).artifacts : i \in DOMAIN SourceOrder(st)}
OfferedAt(st, p) == SourceAt(st, p[1]).artifacts[p[2]].id
NotAfter(p, q) == p[1] < q[1] \/ (p[1] = q[1] /\ p[2] <= q[2])

\* `first` and `last` are the first and the last of the offers of an artifact.
Span(st, offers, id, first, last) ==
    /\ {first, last} \subseteq offers /\ OfferedAt(st, first) = id /\ OfferedAt(st, last) = id
    /\ \A p \in offers : OfferedAt(st, p) = id => NotAfter(first, p) /\ NotAfter(p, last)

FromOverlay(st, p) == SourceAt(st, p[1]).role = "overlay"

\* Of these offers every artifact has its supplier: the overlay if it offers it
\* and the first baseline if it does not; the status says which of the two.
SuppliedFrom(offers) ==
    /\ DOMAIN lock = {OfferedAt(stack, p) : p \in offers}
    /\ \A id \in DOMAIN lock : \E first, last \in offers :
          /\ Span(stack, offers, id, first, last)
          /\ lock[id].source = SourceAt(stack, IF FromOverlay(stack, last) THEN last[1] ELSE first[1]).id
          /\ lock[id].status = IF first = last THEN "none"
                               ELSE IF FromOverlay(stack, last) THEN "overrode_baseline"
                               ELSE "baseline_precedence"

\* A stack that resolves has a supplier for every artifact that is offered: the
\* overlay if it offers it and the first baseline in the profile's order if it
\* does not; and the status says which of the two happened.
SupplierByPrecedence ==
    (stack # NoStack /\ error = NoError /\ ~Resolving) => SuppliedFrom(Offers(stack))
=============================================================================
