---------------------------- MODULE LibraryProofs ----------------------------
(***************************************************************************)
(* For any libraries, texts, configurations and edits: what apply          *)
(* publishes is protected where it is private, current, asked for and not  *)
(* blocked, and apply takes what compile has just made; what search and    *)
(* route offer can be used; and a stack of libraries gives every artifact  *)
(* its supplier by the precedence it promises.                             *)
(*                                                                         *)
(* Privacy rests on a fact about Synthesize: each output speaks of the     *)
(* active packs only, and one that speaks of a private pack bears the      *)
(* label of a private pack or lies in the target's local file.  With what  *)
(* a graph and a manifest were made of (PipeInv) this decides what         *)
(* apply must find protected.                                              *)
(***************************************************************************)
EXTENDS LibraryPipeline, LibraryStack, FiniteSetTheorems, WellFoundedInduction, TLAPS

-----------------------------------------------------------------------------
(***************************************************************************)
(* The library stack: the loops keep to their positions, and the offers    *)
(* they have passed have their suppliers.                                  *)
(***************************************************************************)

\* An artifact its supplier has locked is not taken over.
THEOREM LocksHold == StackSpec => LockedKeepsSupplier
<1> DEFINE Kept(id) == id \in DOMAIN lock' /\ lock'[id].source = lock[id].source
<1>1. ASSUME StackNext, NEW id \in DOMAIN lock, lock[id].artifact.locked PROVE Kept(id)
  <2>1. CASE NextSource
    BY <2>1 DEF NextSource
  <2>2. CASE MergeOffer
    <3> DEFINE source == SourceAt(stack, at.source)
               artifact == source.artifacts[at.artifact + 1]
    <3>1. Merge(source, artifact)
      BY <2>2 DEF MergeOffer
    <3> HIDE DEF source, artifact
    <3>2. CASE artifact.id # id \/ lock' = lock
      BY <3>1, <3>2 DEF Merge, Supply
    <3>3. CASE artifact.id = id /\ lock' # lock
      <4>1. /\ CollisionError(ActiveProfile(stack), source, lock[id]) = NoError
            /\ Supply(id, Collided(source, artifact, lock[id]))
        BY <3>1, <3>3 DEF Merge
      <4>2. source.role # "overlay"
        BY <4>1, <1>1, StackAssumption DEF CollisionError
      <4> QED BY <4>1, <4>2 DEF Supply, Collided
    <3> QED BY <3>2, <3>3
  <2> QED BY <1>1, <2>1, <2>2 DEF StackNext
<1>2. [StackNext]_svars => [\A id \in DOMAIN lock : lock[id].artifact.locked =>
          id \in DOMAIN lock' /\ lock'[id].source = lock[id].source]_svars
  BY <1>1
<1> QED BY <1>2, PTL DEF StackSpec, LockedKeepsSupplier

\* What a stack that is resolved looks like.
Valid(st) == st \in Stacks /\ StackError(st) = NoError

\* A sequence has the domain of one.
LEMMA SequenceDomain ==
    ASSUME NEW s, IsSequence(s)
    PROVE  Len(s) \in Nat /\ DOMAIN s = 1..Len(s)
BY DEF IsSequence

\* The order of the sources and their lists of artifacts are sequences.
LEMMA StackShape ==
    ASSUME NEW st, Valid(st)
    PROVE  /\ IsSequence(SourceOrder(st))
           /\ \A i \in DOMAIN SourceOrder(st) : IsSequence(SourceAt(st, i).artifacts)
<1> DEFINE profile == ActiveProfile(st)
<1>1. PICK i \in DOMAIN st.profiles : profile = st.profiles[i]
  <2>1. Cardinality(ActiveProfiles(st)) = 1
    BY StackAssumption DEF Valid, StackError
  <2>2. ActiveProfiles(st) # {}
    BY <2>1, FS_EmptySet
  <2> QED BY <2>2 DEF ActiveProfile, ActiveProfiles
<1>2. IsSequence(profile.baselines)
  BY <1>1, StackAssumption DEF Valid
<1>3. profile.overlay \in Ids(st.sources) /\ ToSet(profile.baselines) \subseteq Ids(st.sources)
  BY StackAssumption DEF Valid, StackError
<1> HIDE DEF profile
<1>4. SourceOrder(st) = Append(profile.baselines, profile.overlay)
  BY DEF SourceOrder, profile
<1>5. IsSequence(SourceOrder(st))
  <2> DEFINE S == ToSet(profile.baselines) \cup {profile.overlay}
             order == SourceOrder(st)
  <2>1. profile.baselines \in Seq(S) /\ profile.overlay \in S
    BY <1>2 DEF IsSequence
  <2>2. order = Append(profile.baselines, profile.overlay) /\ order \in Seq(S)
    BY <2>1, <1>4
  <2> HIDE DEF order
  <2>3. Len(order) \in Nat /\ order \in [1..Len(order) -> S] /\ DOMAIN order = 1..Len(order)
    <3>1. order \in Seq(S)
      BY <2>2
    <3> HIDE DEF S
    <3> QED BY <3>1
  <2>4. order \in [1..Len(order) -> ToSet(order)]
    BY <2>3 DEF ToSet
  <2>5. order \in Seq(ToSet(order))
    BY <2>3, <2>4
  <2> QED BY <2>5 DEF IsSequence, order
<1>6. ASSUME NEW j \in DOMAIN SourceOrder(st) PROVE IsSequence(SourceAt(st, j).artifacts)
  <2>1. SourceOrder(st)[j] \in Ids(st.sources)
    BY <1>2, <1>3, <1>4 DEF IsSequence, ToSet
  <2>2. SourceAt(st, j) \in ToSet(st.sources)
    BY <2>1 DEF SourceAt, TheSource, Ids, ToSet
  <2> QED BY <2>2, StackAssumption DEF Valid, ToSet
<1> QED BY <1>5, <1>6

\* The offers the loops have passed.
Passed == {p \in Offers(stack) : p[1] < at.source \/ (p[1] = at.source /\ p[2] <= at.artifact)}

\* An entry names the source of one of these offers and its role.
SuppliedBy(st, offers, id, entry) == \E first, final \in offers :
    /\ Span(st, offers, id, first, final)
    /\ LET from == SourceAt(st, IF FromOverlay(st, final) THEN final[1] ELSE first[1])
       IN  entry.source = from.id /\ entry.role = from.role
    /\ entry.status = IF first = final THEN "none"
                      ELSE IF FromOverlay(st, final) THEN "overrode_baseline"
                      ELSE "baseline_precedence"

StackInv ==
    /\ stack \in Stacks
    /\ at \in [source : Nat \ {0}, artifact : Nat]
    /\ error = NoError =>
         /\ Valid(stack)
         /\ at.source <= Len(SourceOrder(stack)) + 1
         /\ DOMAIN lock = {OfferedAt(stack, p) : p \in Passed}
         /\ \A id \in DOMAIN lock : SuppliedBy(stack, Passed, id, lock[id])

\* Offers are pairs of places in the loops.
LEMMA OfferShape ==
    ASSUME NEW st, Valid(st)
    PROVE  /\ Len(SourceOrder(st)) \in Nat
           /\ DOMAIN SourceOrder(st) = 1..Len(SourceOrder(st))
           /\ \A i \in DOMAIN SourceOrder(st) :
                 /\ Len(SourceAt(st, i).artifacts) \in Nat
                 /\ DOMAIN SourceAt(st, i).artifacts = 1..Len(SourceAt(st, i).artifacts)
           /\ \A p \in Offers(st) : /\ p = <<p[1], p[2]>>
                                    /\ p[1] \in DOMAIN SourceOrder(st)
                                    /\ p[2] \in DOMAIN SourceAt(st, p[1]).artifacts
                                    /\ p[1] \in Nat \ {0} /\ p[2] \in Nat \ {0}
           /\ \A i \in DOMAIN SourceOrder(st) : \A k \in DOMAIN SourceAt(st, i).artifacts :
                 <<i, k>> \in Offers(st)
<1>1. /\ Len(SourceOrder(st)) \in Nat
      /\ DOMAIN SourceOrder(st) = 1..Len(SourceOrder(st))
  BY StackShape, SequenceDomain
<1>2. \A i \in DOMAIN SourceOrder(st) :
         /\ Len(SourceAt(st, i).artifacts) \in Nat
         /\ DOMAIN SourceAt(st, i).artifacts = 1..Len(SourceAt(st, i).artifacts)
  BY StackShape, SequenceDomain
<1>3. ASSUME NEW p \in Offers(st)
      PROVE  /\ p = <<p[1], p[2]>>
             /\ p[1] \in DOMAIN SourceOrder(st)
             /\ p[2] \in DOMAIN SourceAt(st, p[1]).artifacts
  BY DEF Offers
<1>4. \A i \in DOMAIN SourceOrder(st) : \A k \in DOMAIN SourceAt(st, i).artifacts :
         <<i, k>> \in Offers(st)
  BY DEF Offers
<1>5. \A p \in Offers(st) : p[1] \in Nat \ {0} /\ p[2] \in Nat \ {0}
  BY <1>1, <1>2, <1>3
<1> QED BY <1>1, <1>2, <1>3, <1>4, <1>5

\* Before the loops no offer is passed.
LEMMA StackInitInv == StackInit => StackInv
<1> SUFFICES ASSUME StackInit PROVE StackInv
  OBVIOUS
<1>1. stack \in Stacks /\ at = [source |-> 1, artifact |-> 0] /\ lock = <<>>
  BY DEF StackInit, AtStart
<1>2. ASSUME error = NoError PROVE Valid(stack)
  BY <1>1, <1>2 DEF StackInit, Valid
<1>3. ASSUME Valid(stack) PROVE Passed = {} /\ at.source <= Len(SourceOrder(stack)) + 1
  BY <1>1, <1>3, OfferShape DEF Passed
<1>4. DOMAIN lock = {}
  BY <1>1
<1> QED BY <1>1, <1>2, <1>3, <1>4 DEF StackInv

\* q is a later offer than these.
Follows(st, offers, q) ==
    /\ Valid(st) /\ offers \subseteq Offers(st) /\ q \in Offers(st)
    /\ \A p \in offers : p[1] < q[1] \/ (p[1] = q[1] /\ p[2] < q[2])

\* The supplier of an artifact that q does not offer stays.
LEMMA SupplierStays ==
    ASSUME NEW st, NEW offers, NEW q, NEW id, NEW entry, Follows(st, offers, q),
           OfferedAt(st, q) # id, SuppliedBy(st, offers, id, entry)
    PROVE  SuppliedBy(st, offers \cup {q}, id, entry)
BY DEF SuppliedBy, Span

\* The first offer of an artifact is its supplier.
LEMMA FirstSupplies ==
    ASSUME NEW st, NEW offers, NEW q, NEW id, NEW artifact, Follows(st, offers, q),
           OfferedAt(st, q) = id, \A p \in offers : OfferedAt(st, p) # id
    PROVE  SuppliedBy(st, offers \cup {q}, id, Entry(SourceAt(st, q[1]), artifact, "none"))
<1>1. NotAfter(q, q)
  BY OfferShape DEF Follows, NotAfter
<1>2. Span(st, offers \cup {q}, id, q, q)
  BY <1>1 DEF Span
<1> QED BY <1>2 DEF SuppliedBy, Entry

\* After a collision that is allowed, the overlay or the first baseline supplies.
LEMMA CollisionSupplies ==
    ASSUME NEW st, NEW offers, NEW q, NEW id, NEW artifact, NEW entry, NEW profile,
           Follows(st, offers, q), OfferedAt(st, q) = id, SuppliedBy(st, offers, id, entry),
           CollisionError(profile, SourceAt(st, q[1]), entry) = NoError
    PROVE  SuppliedBy(st, offers \cup {q}, id, Collided(SourceAt(st, q[1]), artifact, entry))
<1> DEFINE source == SourceAt(st, q[1])
           new == Collided(source, artifact, entry)
<1>1. PICK first, final \in offers :
         /\ Span(st, offers, id, first, final)
         /\ LET from == SourceAt(st, IF FromOverlay(st, final) THEN final[1] ELSE first[1])
            IN  entry.source = from.id /\ entry.role = from.role
  BY DEF SuppliedBy
<1>2. Span(st, offers \cup {q}, id, first, q)
  <2>1. NotAfter(first, q) /\ NotAfter(q, q)
    BY <1>1, OfferShape DEF Follows, NotAfter
  <2>2. \A p \in offers : NotAfter(p, q)
    BY OfferShape DEF Follows, NotAfter
  <2> QED BY <1>1, <2>1, <2>2 DEF Span
<1>3. first # q
  BY <1>1, OfferShape DEF Follows
<1>4. /\ new.source = (SourceAt(st, IF FromOverlay(st, q) THEN q[1] ELSE first[1])).id
      /\ new.role = (SourceAt(st, IF FromOverlay(st, q) THEN q[1] ELSE first[1])).role
      /\ new.status = IF FromOverlay(st, q) THEN "overrode_baseline" ELSE "baseline_precedence"
  <2>1. CASE source.role = "overlay"
    BY <2>1 DEF Collided, Entry, FromOverlay
  <2>2. CASE source.role # "overlay"
    <3>1. entry.role = "baseline"
      BY <2>2, StackAssumption DEF CollisionError
    <3>2. ~FromOverlay(st, final)
      BY <1>1, <3>1 DEF FromOverlay
    <3> QED BY <1>1, <2>2, <3>2 DEF Collided, FromOverlay
  <2> QED BY <2>1, <2>2
<1>5. SuppliedBy(st, offers \cup {q}, id, new)
  <2>1. first \in offers \cup {q} /\ q \in offers \cup {q}
    OBVIOUS
  <2> HIDE DEF new
  <2> QED BY <1>2, <1>3, <1>4, <2>1 DEF SuppliedBy
<1> QED BY <1>5 DEF new

\* The loops pass one offer after another, in order.
LEMMA StackInvStep == StackInv /\ [StackNext]_svars => StackInv'
<1> SUFFICES ASSUME StackInv, [StackNext]_svars PROVE StackInv'
  OBVIOUS
<1>1. CASE UNCHANGED svars
  BY <1>1 DEF svars, StackInv, Passed
<1>2. CASE NextSource
  <2>1. /\ Valid(stack) /\ stack \in Stacks /\ at \in [source : Nat \ {0}, artifact : Nat]
        /\ at.source \in DOMAIN SourceOrder(stack)
        /\ at.artifact + 1 \notin DOMAIN SourceAt(stack, at.source).artifacts
        /\ at' = [source |-> at.source + 1, artifact |-> 0]
        /\ stack' = stack /\ lock' = lock /\ error' = error
    BY <1>2 DEF NextSource, Resolving, StackInv
  <2>2. at' \in [source : Nat \ {0}, artifact : Nat] /\ at'.source <= Len(SourceOrder(stack)) + 1
    BY <2>1, OfferShape
  <2>3. Passed' = Passed
    <3>1. ASSUME NEW p \in Offers(stack)
          PROVE  (p[1] < at.source \/ (p[1] = at.source /\ p[2] <= at.artifact))
                 <=> (p[1] < at.source + 1 \/ (p[1] = at.source + 1 /\ p[2] <= 0))
      <4>1. p[1] \in Nat /\ p[2] \in Nat \ {0} /\ at.source \in Nat /\ at.artifact \in Nat
        BY <2>1, OfferShape
      <4>2. p[1] = at.source => p[2] <= at.artifact
        BY <2>1, OfferShape
      <4> QED BY <4>1, <4>2
    <3> QED BY <2>1, <3>1 DEF Passed
  <2> QED BY <2>1, <2>2, <2>3 DEF StackInv
<1>3. CASE MergeOffer
  <2> DEFINE k == at.artifact + 1
             q == <<at.source, k>>
             source == SourceAt(stack, at.source)
             artifact == source.artifacts[k]
  <2>1. /\ Valid(stack) /\ stack \in Stacks /\ at \in [source : Nat \ {0}, artifact : Nat]
        /\ at.source \in DOMAIN SourceOrder(stack)
        /\ k \in DOMAIN source.artifacts
        /\ Merge(source, artifact)
        /\ at' = [source |-> at.source, artifact |-> k]
        /\ stack' = stack
        /\ at.source <= Len(SourceOrder(stack)) + 1
        /\ DOMAIN lock = {OfferedAt(stack, p) : p \in Passed}
        /\ \A id \in DOMAIN lock : SuppliedBy(stack, Passed, id, lock[id])
    BY <1>3 DEF MergeOffer, Resolving, StackInv
  <2>2. q \in Offers(stack) /\ at' \in [source : Nat \ {0}, artifact : Nat]
    BY <2>1, OfferShape
  <2>3. Passed' = Passed \cup {q}
    <3>1. ASSUME NEW p \in Offers(stack)
          PROVE  (p[1] < at.source \/ (p[1] = at.source /\ p[2] <= k))
                 <=> (\/ p[1] < at.source \/ (p[1] = at.source /\ p[2] <= at.artifact)
                      \/ p = q)
      <4>1. p[1] \in Nat /\ p[2] \in Nat /\ p = <<p[1], p[2]>>
        BY <2>1, OfferShape
      <4>2. at.source \in Nat /\ at.artifact \in Nat
        BY <2>1
      <4>3. p = q <=> p[1] = at.source /\ p[2] = k
        BY <4>1
      <4> QED BY <4>1, <4>2, <4>3
    <3> QED BY <2>1, <2>2, <3>1 DEF Passed
  <2>4. Follows(stack, Passed, q)
    <3>1. ASSUME NEW p \in Passed
          PROVE  p[1] < q[1] \/ (p[1] = q[1] /\ p[2] < q[2])
      BY <2>1, OfferShape DEF Passed
    <3> QED BY <2>1, <2>2, <3>1 DEF Follows, Passed
  <2>5. OfferedAt(stack, q) = artifact.id
    BY DEF OfferedAt
  <2> DEFINE id == artifact.id
  <2> HIDE DEF q, k, artifact
  <2>6. source = SourceAt(stack, q[1])
    BY DEF q
  <2>7. error' = NoError =>
           /\ DOMAIN lock' = DOMAIN lock \cup {id}
           /\ \A other \in DOMAIN lock \ {id} : lock'[other] = lock[other]
           /\ SuppliedBy(stack, Passed \cup {q}, id, lock'[id])
    <3>1. CASE id \notin DOMAIN lock
      <4>1. Supply(id, Entry(source, artifact, "none"))
        BY <2>1, <3>1 DEF Merge
      <4>2. \A p \in Passed : OfferedAt(stack, p) # id
        BY <2>1, <3>1
      <4>3. SuppliedBy(stack, Passed \cup {q}, id, Entry(source, artifact, "none"))
        BY <2>4, <2>5, <2>6, <4>2, FirstSupplies
      <4> QED BY <4>1, <4>3 DEF Supply
    <3>2. CASE id \in DOMAIN lock
      <4> SUFFICES ASSUME error' = NoError
                   PROVE  /\ DOMAIN lock' = DOMAIN lock \cup {id}
                          /\ \A other \in DOMAIN lock \ {id} : lock'[other] = lock[other]
                          /\ SuppliedBy(stack, Passed \cup {q}, id, lock'[id])
        OBVIOUS
      <4>1. /\ CollisionError(ActiveProfile(stack), source, lock[id]) = NoError
            /\ Supply(id, Collided(source, artifact, lock[id]))
        BY <2>1, <3>2 DEF Merge
      <4>2. SuppliedBy(stack, Passed \cup {q}, id, Collided(source, artifact, lock[id]))
        BY <2>1, <2>4, <2>5, <2>6, <3>2, <4>1, CollisionSupplies
      <4> QED BY <4>1, <4>2 DEF Supply
    <3> QED BY <3>1, <3>2
  <2>8. error' = NoError =>
           \A other \in DOMAIN lock' : SuppliedBy(stack, Passed \cup {q}, other, lock'[other])
    <3> SUFFICES ASSUME error' = NoError, NEW other \in DOMAIN lock'
                 PROVE  SuppliedBy(stack, Passed \cup {q}, other, lock'[other])
      OBVIOUS
    <3>1. CASE other = id
      BY <2>7, <3>1
    <3>2. CASE other # id
      <4>1. other \in DOMAIN lock /\ lock'[other] = lock[other]
        BY <2>7, <3>2
      <4>2. OfferedAt(stack, q) # other
        BY <2>5, <3>2
      <4> QED BY <2>1, <2>4, <4>1, <4>2, SupplierStays
    <3> QED BY <3>1, <3>2
  <2>9. error' = NoError => DOMAIN lock' = {OfferedAt(stack, p) : p \in Passed \cup {q}}
    BY <2>1, <2>5, <2>7
  <2>10. at'.source <= Len(SourceOrder(stack)) + 1
    BY <2>1
  <2> QED BY <2>1, <2>2, <2>3, <2>8, <2>9, <2>10 DEF StackInv
<1> QED BY <1>1, <1>2, <1>3 DEF StackNext

\* When the loops are done they have passed every offer.
LEMMA StackInvImplies == StackInv => SupplierByPrecedence
<1> SUFFICES ASSUME StackInv, error = NoError, ~Resolving, stack # NoStack
             PROVE  SuppliedFrom(Offers(stack))
  BY DEF SupplierByPrecedence
<1>1. /\ Valid(stack) /\ at \in [source : Nat \ {0}, artifact : Nat]
      /\ at.source <= Len(SourceOrder(stack)) + 1
      /\ at.source \notin DOMAIN SourceOrder(stack)
      /\ DOMAIN lock = {OfferedAt(stack, p) : p \in Passed}
      /\ \A id \in DOMAIN lock : SuppliedBy(stack, Passed, id, lock[id])
  BY DEF StackInv, Resolving
<1>2. Passed = Offers(stack)
  <2>1. ASSUME NEW p \in Offers(stack) PROVE p[1] < at.source
    BY <1>1, OfferShape
  <2> QED BY <2>1 DEF Passed
<1>3. ASSUME NEW id \in DOMAIN lock
      PROVE \E first, final \in Offers(stack) :
              /\ Span(stack, Offers(stack), id, first, final)
              /\ lock[id].source = SourceAt(stack, IF FromOverlay(stack, final) THEN final[1] ELSE first[1]).id
              /\ lock[id].status = IF first = final THEN "none"
                                   ELSE IF FromOverlay(stack, final) THEN "overrode_baseline"
                                   ELSE "baseline_precedence"
  BY <1>1, <1>2 DEF SuppliedBy
<1> QED BY <1>1, <1>2, <1>3 DEF SuppliedFrom

\* A stack that resolves gives every artifact to its overlay or its first baseline.
THEOREM PrecedenceHolds == StackSpec => []SupplierByPrecedence
BY StackInitInv, StackInvStep, StackInvImplies, PTL DEF StackSpec

-----------------------------------------------------------------------------
(***************************************************************************)
(* Least elements of sets of naturals.                                     *)
(***************************************************************************)

\* A set of naturals has a least element.
LEMMA LeastNatural ==
    ASSUME NEW T \in SUBSET Nat, T # {}
    PROVE  Min(T) \in T
<1> DEFINE R == StrictSubsetOrdering(Nat)
           Downs == {U \in FiniteSubsetsOf(Nat) : \E n \in T : U = 0..n}
<1>1. \A n \in Nat : 0..n \in FiniteSubsetsOf(Nat)
  BY FS_Interval DEF FiniteSubsetsOf
<1>2. Downs # {}
  BY <1>1
<1>3. \E U \in Downs : \A V \in Downs : <<V, U>> \notin R
  <2>1. IsWellFoundedOn(R, FiniteSubsetsOf(Nat))
    BY FS_StrictSubsetOrderingWellFounded
  <2>2. Downs \subseteq FiniteSubsetsOf(Nat)
    OBVIOUS
  <2> HIDE DEF R, Downs
  <2> QED BY <2>1, <2>2, <1>2, WFMin
<1>4. PICK U \in Downs : \A V \in Downs : <<V, U>> \notin R
  BY <1>3
<1>5. PICK n \in T : U = 0..n
  OBVIOUS
<1>6. ASSUME NEW m \in T, m < n PROVE FALSE
  <2>1. 0..m \in Downs
    BY <1>1
  <2>2. 0..m \subseteq 0..n /\ 0..m # 0..n
    BY <1>6
  <2>3. <<0..m, 0..n>> \in R
    BY <2>2 DEF StrictSubsetOrdering
  <2> QED BY <2>1, <2>3, <1>4, <1>5
<1>7. \A m \in T : n =< m
  BY <1>6
<1> QED BY <1>7 DEF Min

-----------------------------------------------------------------------------
(***************************************************************************)
(* Instruction indexes: an index says something of its own packs only.     *)
(***************************************************************************)

\* Every line is of one of these packs or of none.
LinesOf(lines, packs) == \A i \in DOMAIN lines :
    lines[i].pack = NoPack \/ \E k \in DOMAIN packs : lines[i].pack = packs[k].id

\* A text says something of these packs only.
Speaks(text, packs) == \A t \in text :
    t[1] = NoPack \/ \E k \in DOMAIN packs : t[1] = packs[k].id

\* The lines of an index are of its packs,
LEMMA IndexLinesOf ==
    ASSUME NEW packs, NEW g, NEW policy, NEW target, NEW ct, NEW view
    PROVE  LinesOf(IndexLines(packs, g, policy, target, ct, view), packs)
<1> DEFINE ids == {packs[i].id : i \in DOMAIN packs}
           gaps == SetToSeq(UNION {GapLine(h, policy, target, ids) : h \in g.gaps})
           final == After(packs)
           places == DOMAIN packs \cup {final + k : k \in DOMAIN gaps}
           lines == [i \in places |->
                       IF i \in DOMAIN packs THEN PackLine(packs[i], target, ct, view)
                       ELSE [kind |-> "gap", pack |-> NoPack, size |-> 1, text |-> {gaps[i - final]}]]
<1>1. IndexLines(packs, g, policy, target, ct, view) = lines
  BY DEF IndexLines
<1>2. \A i \in DOMAIN packs : PackLine(packs[i], target, ct, view).pack = packs[i].id
  BY DEF PackLine, Line
<1> HIDE DEF ids, gaps, final, places
<1>3. LinesOf(lines, packs)
  BY <1>2 DEF LinesOf
<1> QED BY <1>1, <1>3

\* cut to their names,
LEMMA CutLinesOf ==
    ASSUME NEW lines, NEW packs, LinesOf(lines, packs)
    PROVE  LinesOf(CutLines(lines), packs)
<1>1. ASSUME NEW cut PROVE LinesOf(Shortened(lines, cut), packs)
  BY DEF LinesOf, Shortened
<1> QED BY <1>1 DEF CutLines

\* dropped,
LEMMA DropLinesOf ==
    ASSUME NEW lines, NEW packs, LinesOf(lines, packs)
    PROVE  LinesOf(DropLines(lines), packs)
<1>1. ASSUME NEW dropped PROVE LinesOf(Without(lines, dropped), packs)
  BY DEF LinesOf, Without, Restrict
<1> QED BY <1>1 DEF DropLines

\* or with a pointer to the rest.
LEMMA WithPointerOf ==
    ASSUME NEW lines, NEW packs, LinesOf(lines, packs)
    PROVE  LinesOf(WithPointer(lines), packs)
<1> DEFINE longer == [i \in DOMAIN lines \cup {After(lines) + 1} |->
                        IF i \in DOMAIN lines THEN lines[i] ELSE PointerLine]
<1>1. LinesOf(longer, packs)
  BY DEF LinesOf, PointerLine
<1>2. LinesOf(DropLines(longer), packs)
  <2> HIDE DEF longer
  <2> QED BY <1>1, DropLinesOf
<1> QED BY <1>2 DEF WithPointer

\* However it is shortened, an index says something of its own packs only.
LEMMA IndexSpeaks ==
    ASSUME NEW packs, NEW g, NEW policy, NEW target, NEW ct, NEW view,
           IndexText(packs, g, policy, target, ct, view) # Failed
    PROVE  Speaks(IndexText(packs, g, policy, target, ct, view), packs)
<1> DEFINE lines == IndexLines(packs, g, policy, target, ct, view)
           index == Budgeted(lines)
<1>1. LinesOf(index, packs)
  <2>1. LinesOf(lines, packs)
    BY IndexLinesOf
  <2> HIDE DEF lines
  <2> QED BY <2>1, CutLinesOf, DropLinesOf, WithPointerOf DEF Budgeted
<1> HIDE DEF index
<1>2. TextOf(index) # Failed => Speaks(TextOf(index), packs)
  BY <1>1 DEF TextOf, Speaks, LinesOf
<1>3. IndexText(packs, g, policy, target, ct, view) = TextOf(index)
  BY DEF IndexText, index
<1> QED BY <1>2, <1>3

-----------------------------------------------------------------------------
(***************************************************************************)
(* Outputs: whose they are, what they say, and which surface they are of.  *)
(***************************************************************************)

\* An output says something of these packs and is labelled with one of them or none.
OwnedBy(o, packs) ==
    /\ Speaks(o.text, packs)
    /\ o.pack = NoPack \/ \E i \in DOMAIN packs : o.pack = RefTo(packs[i])

\* An output of no pack says something of shared packs only, or lies in the
\* target's local file; another is of one pack or carries a private pack's label.
Shows(o, packs, target) ==
    \/ o.pack = NoPack /\ Speaks(o.text, OfVis(packs, "shared"))
    \/ HasLocal(target) /\ o.dest = target.local.surface
    \/ \E i \in DOMAIN packs :
          /\ o.pack = RefTo(packs[i])
          /\ packs[i].vis # "shared" \/ \A t \in o.text : t[1] = packs[i].id

\* An output of a surface is of one that the selection emits.
OfEmitted(o, packs, target, auto, override, view) ==
    o.surface = NoSurface
      \/ \E i \in DOMAIN packs, ct \in ToSet(target.compile) :
           \E s \in Range(EmittedSurfaces(packs[i], view, EffectiveSelection(ct, override), auto)) :
              o.surface = s.id

\* The label of what several packs make.
LEMMA PrivateLabel ==
    ASSUME NEW packs, DOMAIN packs \subseteq Nat
    PROVE  \/ /\ PrivateContributor(packs) = NoPack
              /\ \A i \in DOMAIN packs : packs[i].vis = "shared"
           \/ \E i \in DOMAIN packs :
                 PrivateContributor(packs) = RefTo(packs[i]) /\ packs[i].vis # "shared"
<1> DEFINE private == {i \in DOMAIN packs : packs[i].vis # "shared"}
<1>1. private # {} => Min(private) \in private
  <2>1. private \in SUBSET Nat
    OBVIOUS
  <2> HIDE DEF private
  <2> QED BY <2>1, LeastNatural
<1> QED BY <1>1 DEF PrivateContributor

\* The shared packs are among the packs, with what they are.
LEMMA SharedPacks ==
    ASSUME NEW packs
    PROVE  /\ DOMAIN OfVis(packs, "shared") = {i \in DOMAIN packs : packs[i].vis = "shared"}
           /\ \A i \in DOMAIN OfVis(packs, "shared") : OfVis(packs, "shared")[i] = packs[i]
BY DEF OfVis, Restrict

\* The runtime's text is of the packs, and the shared packs' own if all are shared.
LEMMA RuntimeSpeaks ==
    ASSUME NEW target, NEW packs, NEW view
    PROVE  /\ Speaks(RuntimeText(target, packs, view), packs)
           /\ (\A i \in DOMAIN packs : packs[i].vis = "shared") =>
                RuntimeText(target, packs, view) = RuntimeText(target, OfVis(packs, "shared"), view)
<1> DEFINE shared == OfVis(packs, "shared")
<1>1. Speaks(RuntimeText(target, packs, view), packs)
  BY DEF Speaks, RuntimeText, HookText
<1>2. ASSUME \A i \in DOMAIN packs : packs[i].vis = "shared"
      PROVE  RuntimeText(target, packs, view) = RuntimeText(target, shared, view)
  <2>1. DOMAIN shared = DOMAIN packs /\ \A i \in DOMAIN packs : shared[i] = packs[i]
    BY <1>2, SharedPacks
  <2> HIDE DEF shared
  <2>2. HookText(target, packs, view) = HookText(target, shared, view)
    <3> DEFINE Hooks(p) == {<<p.id, <<"hook", view[r.path].body>>>> :
                              r \in {w \in Wirings(p) : For(view[w.path].wiring, target)}}
    <3>1. {Hooks(packs[i]) : i \in DOMAIN packs} = {Hooks(shared[i]) : i \in DOMAIN shared}
      <4> HIDE DEF Hooks
      <4> QED BY <2>1
    <3> QED BY <3>1 DEF HookText
  <2>3. {<<packs[i].id, <<"active">>>> : i \in DOMAIN packs}
          = {<<shared[i].id, <<"active">>>> : i \in DOMAIN shared}
    BY <2>1
  <2> QED BY <2>2, <2>3 DEF RuntimeText
<1> QED BY <1>1, <1>2

\* What is said of some of the packs is said of the packs.
LEMMA SpeaksOfAll ==
    ASSUME NEW packs, NEW vis, NEW text, Speaks(text, OfVis(packs, vis))
    PROVE  Speaks(text, packs)
BY DEF Speaks, OfVis, Restrict

\* The configuration of the runtime.
LEMMA RuntimeShows ==
    ASSUME NEW target, NEW packs, DOMAIN packs \subseteq Nat, NEW view,
           NEW outputs, outputs # Failed,
           outputs = RuntimeOutputs(target, packs, OfVis(packs, "shared"), view),
           NEW o \in outputs
    PROVE  OwnedBy(o, packs) /\ Shows(o, packs, target) /\ o.surface = NoSurface
<1> DEFINE shared == OfVis(packs, "shared")
           text == RuntimeText(target, packs, view)
           label == IF text # RuntimeText(target, shared, view) THEN PrivateContributor(packs) ELSE NoPack
<1>1. o = Output(target.runtime.dest, "runtime", label, NoSurface, text)
  BY DEF RuntimeOutputs
<1>2. o.pack = label /\ o.surface = NoSurface /\ o.text = text
  BY <1>1 DEF Output
<1>3. Speaks(text, packs)
  BY RuntimeSpeaks
<1>4. CASE text = RuntimeText(target, shared, view)
  <2>1. Speaks(text, shared)
    BY <1>4, RuntimeSpeaks
  <2> QED BY <1>2, <1>4, <1>3, <2>1 DEF OwnedBy, Shows
<1>5. CASE text # RuntimeText(target, shared, view)
  <2>1. PICK i \in DOMAIN packs : PrivateContributor(packs) = RefTo(packs[i]) /\ packs[i].vis # "shared"
    BY <1>5, PrivateLabel, RuntimeSpeaks
  <2> QED BY <1>2, <1>5, <1>3, <2>1 DEF OwnedBy, Shows
<1> QED BY <1>4, <1>5

\* The configuration of MCP servers.
LEMMA McpShows ==
    ASSUME NEW target, NEW ct, NEW packs, DOMAIN packs \subseteq Nat,
           NEW o, o = McpOutput(ct, packs)
    PROVE  OwnedBy(o, packs) /\ Shows(o, packs, target) /\ o.surface = NoSurface
<1> DEFINE shared == OfVis(packs, "shared")
<1>1. /\ o.pack = PrivateContributor(packs) /\ o.surface = NoSurface
      /\ o.text = {<<packs[i].id, <<"active">>>> : i \in DOMAIN packs}
  BY DEF McpOutput, Output
<1>2. Speaks(o.text, packs)
  BY <1>1 DEF Speaks
<1>3. CASE o.pack = NoPack /\ \A i \in DOMAIN packs : packs[i].vis = "shared"
  <2>1. DOMAIN shared = DOMAIN packs /\ \A i \in DOMAIN packs : shared[i] = packs[i]
    BY <1>3, SharedPacks
  <2> HIDE DEF shared
  <2>2. Speaks(o.text, shared)
    BY <1>1, <2>1 DEF Speaks
  <2> QED BY <1>1, <1>2, <1>3, <2>2 DEF OwnedBy, Shows, shared
<1>4. CASE \E i \in DOMAIN packs : o.pack = RefTo(packs[i]) /\ packs[i].vis # "shared"
  BY <1>1, <1>2, <1>4 DEF OwnedBy, Shows
<1> QED BY <1>1, <1>3, <1>4, PrivateLabel

\* An output that is a pack's own: its text, and its surface or none.
Own(o, pack, surfaces) ==
    /\ o.pack = RefTo(pack)
    /\ \A t \in o.text : t[1] = pack.id
    /\ o.surface = NoSurface \/ \E s \in surfaces : o.surface = s.id

\* The resources a surface packages are its own.
LEMMA PackagesOwn ==
    ASSUME NEW ct, NEW pack, NEW surfaces, NEW surface \in surfaces, NEW path, NEW view,
           NEW o \in PackageOutputs(ct, pack, surface, path, view)
    PROVE  Own(o, pack, surfaces)
<1>1. PICK r \in Packaged(ct, surface) :
         o = Output(<<path[1], path[2], path[3] \o <<r.dir, r.file>>>>, "resource_file",
                    RefTo(pack), surface.id, {<<pack.id, <<"body", view[r.path].body>>>>})
  BY DEF PackageOutputs
<1>2. /\ o.pack = RefTo(pack) /\ o.surface = surface.id
      /\ o.text = {<<pack.id, <<"body", view[r.path].body>>>>}
  BY <1>1 DEF Output
<1> QED BY <1>2 DEF Own

\* Skills.
LEMMA SkillsOwn ==
    ASSUME NEW target, NEW ct, NEW pack, NEW surfaces, DOMAIN surfaces # {}, NEW view,
           NEW o \in SkillOutputs(target, ct, pack, surfaces, view)
    PROVE  Own(o, pack, Range(surfaces))
<1> DEFINE OwnPath(s) == Path(ct.path, pack, s.slug)
           bundle == Path(ct.path, pack, <<>>)
           body == IF Instructions(pack) = <<>> THEN {<<"name">>} ELSE Snippet(pack, view)
           one == IF Several(surfaces) THEN NoSurface
                  ELSE surfaces[CHOOSE i \in DOMAIN surfaces : TRUE].id
           Single(s) == Output(OwnPath(s), "skill_folder", RefTo(pack), s.id, SkillText(pack, s))
           merged == Output(bundle, "skill_folder", RefTo(pack), one, {<<pack.id, t>> : t \in body})
<1>1. ASSUME NEW s \in Range(surfaces) PROVE Own(Single(s), pack, Range(surfaces))
  BY DEF Own, Output, SkillText
<1>2. Own(merged, pack, Range(surfaces))
  <2>1. one = NoSurface \/ \E s \in Range(surfaces) : one = s.id
    BY DEF Range
  <2> HIDE DEF one
  <2> QED BY <2>1 DEF Own, Output
<1>3. CASE Separate(target, ct, surfaces)
  <2>1. PICK s \in Range(surfaces) : o = Single(s) \/ o \in PackageOutputs(ct, pack, s, OwnPath(s), view)
    BY <1>3 DEF SkillOutputs
  <2> QED BY <2>1, <1>1, PackagesOwn
<1>4. CASE ~Separate(target, ct, surfaces)
  <2>1. o = merged \/ \E s \in Range(surfaces) : o \in PackageOutputs(ct, pack, s, bundle, view)
    BY <1>4 DEF SkillOutputs
  <2> HIDE DEF merged, bundle
  <2> QED BY <2>1, <1>2, PackagesOwn
<1> QED BY <1>3, <1>4

\* Resources and manifests of extensions.
LEMMA ResourcesOwn ==
    ASSUME NEW ct, NEW pack, NEW view,
           NEW o, o \in ResourceOutputs(ct, pack, view) \/ o = ManifestOutput(ct, pack)
    PROVE  Own(o, pack, {})
<1>1. \E dest, kind, what : o = Output(dest, kind, RefTo(pack), NoSurface, {<<pack.id, what>>})
  BY DEF ResourceOutputs, ManifestOutput
<1>2. PICK what : o.pack = RefTo(pack) /\ o.surface = NoSurface /\ o.text = {<<pack.id, what>>}
  BY <1>1 DEF Output
<1> QED BY <1>2 DEF Own

\* What is a pack's own is shown as such.
LEMMA OwnShows ==
    ASSUME NEW packs, NEW i \in DOMAIN packs, NEW o, NEW surfaces, Own(o, packs[i], surfaces),
           NEW target
    PROVE  OwnedBy(o, packs) /\ Shows(o, packs, target)
BY DEF Own, OwnedBy, Shows, Speaks

\* Instruction files: of the shared packs.
LEMMA IndexShows ==
    ASSUME NEW packs, NEW g, NEW policy, NEW target, NEW ct, NEW applyMode, NEW view,
           NEW outputs, outputs # Failed,
           outputs = IndexOutputs(ct, IndexText(OfVis(packs, "shared"), g, policy, target, ct, view), applyMode),
           NEW o \in outputs
    PROVE  OwnedBy(o, packs) /\ Shows(o, packs, target) /\ o.surface = NoSurface
<1> DEFINE shared == OfVis(packs, "shared")
           text == IndexText(shared, g, policy, target, ct, view)
           said == IF applyMode = "import_stub" THEN {<<NoPack, <<"import", ct.stub>>>>} ELSE text
<1>1. text # Failed
  BY DEF IndexOutputs
<1>2. Speaks(text, shared)
  BY <1>1, IndexSpeaks
<1> HIDE DEF text
<1>3. o = Output(<<ct.path.base, NoPack, <<>>>>, "instruction_file", NoPack, NoSurface, said)
  BY <1>1 DEF IndexOutputs, text
<1>4. Speaks(said, shared) /\ Speaks(said, packs)
  BY <1>2, SpeaksOfAll DEF Speaks
<1> HIDE DEF said, shared
<1>5. o.pack = NoPack /\ o.surface = NoSurface /\ o.text = said
  BY <1>3 DEF Output
<1> QED BY <1>4, <1>5 DEF OwnedBy, Shows, shared

\* The private packs' instruction file is the target's local file.
LEMMA LocalShows ==
    ASSUME NEW packs, NEW g, NEW policy, NEW target, NEW view, NEW outputs, outputs # Failed,
           outputs = LocalOutputs(OfVis(packs, "private"), g, policy, target, view),
           NEW o \in outputs
    PROVE  OwnedBy(o, packs) /\ Shows(o, packs, target) /\ o.surface = NoSurface
<1> DEFINE private == OfVis(packs, "private")
           indexes == SelectSeq(target.compile, LAMBDA ct : ct.kind \in IndexKinds)
           text == IndexText(private, g, policy, target, Head(indexes), view)
<1>1. HasLocal(target) /\ outputs = LocalIndex(target, text)
  BY DEF LocalOutputs
<1>2. text # Failed => Speaks(text, packs)
  BY IndexSpeaks, SpeaksOfAll
<1> HIDE DEF text
<1>3. Speaks(text, packs)
  BY <1>1, <1>2 DEF LocalIndex
<1>4. o = Output(target.local.surface, "instruction_file", NoPack, NoSurface, text)
  BY <1>1 DEF LocalIndex
<1>5. o.pack = NoPack /\ o.surface = NoSurface /\ o.dest = target.local.surface /\ o.text = text
  BY <1>4 DEF Output
<1> QED BY <1>1, <1>3, <1>5 DEF OwnedBy, Shows

\* What one entry of a target generates.
LEMMA EntryShows ==
    ASSUME NEW target, NEW ct \in ToSet(target.compile), NEW packs, DOMAIN packs \subseteq Nat,
           NEW g, NEW policy, NEW applyMode, NEW override, NEW view,
           NEW outputs, outputs # Failed,
           outputs = OutputsOf(ct, packs, OfVis(packs, "shared"), g, policy, target,
                               applyMode, override, view),
           NEW o \in outputs
    PROVE  /\ OwnedBy(o, packs) /\ Shows(o, packs, target)
           /\ OfEmitted(o, packs, target, g.auto, override, view)
<1> DEFINE shared == OfVis(packs, "shared")
           index == IndexText(shared, g, policy, target, ct, view)
           Surfaces(p) == EmittedSurfaces(p, view, EffectiveSelection(ct, override), g.auto)
           emitted == [p \in Range(packs) |-> Surfaces(p)]
<1>1. CASE ct.kind \in IndexKinds
  <2>1. outputs = IndexOutputs(ct, index, applyMode)
    BY <1>1 DEF OutputsOf, IndexKinds
  <2> QED BY <2>1, IndexShows DEF OfEmitted
<1>2. CASE ct.kind = "codex_skill"
  <2>1. outputs = AllSkills(target, ct, Range(packs), emitted, view)
    BY <1>2 DEF OutputsOf, IndexKinds
  <2>2. PICK p \in Range(packs) : /\ DOMAIN Surfaces(p) # {}
                                 /\ o \in SkillOutputs(target, ct, p, Surfaces(p), view)
    <3> HIDE DEF Surfaces
    <3> QED BY <2>1 DEF AllSkills
  <2>3. PICK i \in DOMAIN packs : p = packs[i]
    BY DEF Range
  <2>4. Own(o, packs[i], Range(Surfaces(packs[i])))
    <3> HIDE DEF Surfaces
    <3> QED BY <2>2, <2>3, SkillsOwn
  <2>5. OfEmitted(o, packs, target, g.auto, override, view)
    BY <2>4 DEF Own, OfEmitted
  <2> QED BY <2>4, <2>5, OwnShows
<1>3. CASE ct.kind \in {"pack_resource", "pack_extension_manifest"}
  <2>1. PICK p \in Range(packs) : o \in ResourceOutputs(ct, p, view) \/ o = ManifestOutput(ct, p)
    BY <1>3 DEF OutputsOf, IndexKinds
  <2>2. PICK i \in DOMAIN packs : p = packs[i]
    BY DEF Range
  <2>3. Own(o, packs[i], {})
    BY <2>1, <2>2, ResourcesOwn
  <2>4. OfEmitted(o, packs, target, g.auto, override, view)
    BY <2>3 DEF Own, OfEmitted
  <2> QED BY <2>3, <2>4, OwnShows
<1>4. CASE ct.kind = "mcp_config"
  <2>1. o = McpOutput(ct, packs)
    BY <1>4 DEF OutputsOf, IndexKinds
  <2> QED BY <2>1, McpShows DEF OfEmitted
<1>5. CASE ct.kind \notin IndexKinds \cup {"codex_skill", "pack_resource", "pack_extension_manifest", "mcp_config"}
  BY <1>5 DEF OutputsOf
<1> QED BY <1>1, <1>2, <1>3, <1>4, <1>5

\* Everything that is generated.
LEMMA SynthesisShows ==
    ASSUME NEW target, NEW packs, DOMAIN packs \subseteq Nat,
           NEW g, NEW policy, NEW applyMode, NEW override, NEW view,
           NEW outputs, outputs # Failed,
           outputs = Synthesize(packs, g, policy, target, applyMode, override, view),
           NEW o \in outputs
    PROVE  /\ OwnedBy(o, packs) /\ Shows(o, packs, target)
           /\ OfEmitted(o, packs, target, g.auto, override, view)
<1> DEFINE shared == OfVis(packs, "shared")
           private == OfVis(packs, "private")
           local == LocalOutputs(private, g, policy, target, view)
           runtime == RuntimeOutputs(target, packs, shared, view)
           Of(ct) == OutputsOf(ct, packs, shared, g, policy, target, applyMode, override, view)
           parts == {local, runtime} \cup {Of(ct) : ct \in ToSet(target.compile)}
<1>1. outputs = AllOf(parts)
  BY DEF Synthesize
<1>2. /\ local # Failed /\ runtime # Failed
      /\ \A ct \in ToSet(target.compile) : Of(ct) # Failed
      /\ o \in local \/ o \in runtime \/ \E ct \in ToSet(target.compile) : o \in Of(ct)
  <2> HIDE DEF local, runtime, Of
  <2> QED BY <1>1 DEF AllOf
<1>3. CASE o \in local
  BY <1>2, <1>3, LocalShows DEF OfEmitted
<1>4. CASE o \in runtime
  BY <1>2, <1>4, RuntimeShows DEF OfEmitted
<1>5. ASSUME NEW ct \in ToSet(target.compile), o \in Of(ct)
      PROVE  /\ OwnedBy(o, packs) /\ Shows(o, packs, target)
             /\ OfEmitted(o, packs, target, g.auto, override, view)
  BY <1>2, <1>5, EntryShows
<1> QED BY <1>2, <1>3, <1>4, <1>5

-----------------------------------------------------------------------------
(***************************************************************************)
(* The registry: what is found under an id has that id.                    *)
(***************************************************************************)

\* What a registry finds under an id is a manifest of the library with this id.
LEMMA RegistryShape ==
    ASSUME NEW l \in DOMAIN Registry
    PROVE  /\ l \in DOMAIN Libraries /\ Registry[l] = Load(Libraries[l])
           /\ \A id \in DOMAIN Registry[l].packs :
                 /\ Registry[l].packs[id].id = id
                 /\ Registry[l].packs[id] \in Range(PacksOf(Libraries[l]))
           /\ \A id \in DOMAIN Registry[l].roles :
                 DOMAIN Registry[l].roles[id].defaults \subseteq Nat
           /\ \A id \in DOMAIN Registry[l].targets : Registry[l].targets[id].id = id
<1> DEFINE roots == Libraries[l]
<1>1. l \in DOMAIN Libraries /\ Registry[l] = Load(roots)
  BY DEF Registry
<1>2. ASSUME NEW all, NEW id \in DOMAIN Table(all)
      PROVE  Table(all)[id].id = id /\ Table(all)[id] \in Range(all)
  BY DEF Table, Range
<1>3. /\ Registry[l].packs = Table(PacksOf(roots))
      /\ Registry[l].roles = Table(Everything(roots, "roles"))
  BY <1>1 DEF Load
<1>4. ASSUME NEW id \in DOMAIN Registry[l].targets PROVE Registry[l].targets[id].id = id
  <2> DEFINE targets == Table(Everything(roots, "targets"))
  <2>1. id \in DOMAIN targets /\ Registry[l].targets[id] = WithBundledDefaults(targets[id])
    BY <1>1 DEF Load
  <2>2. targets[id].id = id /\ targets[id] \in Range(Everything(roots, "targets"))
    BY <1>2, <2>1
  <2>3. "id" \in DOMAIN targets[id]
    BY <1>1, <2>2, LibraryAssumption
  <2> HIDE DEF targets
  <2> QED BY <2>1, <2>2, <2>3 DEF WithBundledDefaults
<1>5. \A id \in DOMAIN Registry[l].roles : DOMAIN Registry[l].roles[id].defaults \subseteq Nat
  BY <1>1, <1>2, <1>3, LibraryAssumption
<1> QED BY <1>1, <1>2, <1>3, <1>4, <1>5

\* The outputs a graph has, when it has them: of packs that are known, each
\* under its own id, and that are as visible as the graph says.
LEMMA OutputsShape ==
    ASSUME NEW l \in DOMAIN Registry, NEW g, NEW target, NEW mode, NEW override, NEW view,
           NEW outputs, outputs # Failed,
           outputs = Outputs(Registry[l], g, target, mode, override, view)
    PROVE  /\ outputs = Synthesize(Active(Registry[l], g), g,
                            Registry[l].policies[g.policy.id], target, mode, override, view)
           /\ ValidPrivacyGraph(Registry[l], g)
           /\ DOMAIN Active(Registry[l], g) = DOMAIN g.activated
           /\ \A i \in DOMAIN g.activated : LET pack == Active(Registry[l], g)[i] IN
                 /\ pack.id \in DOMAIN Registry[l].packs /\ pack = Registry[l].packs[pack.id]
                 /\ RefMatches(g.activated[i], pack.version)
                 /\ pack.id \in DOMAIN g.visibility /\ g.visibility[pack.id] = pack.vis
                 /\ RefTo(pack) # NoPack /\ RefTo(pack).id = pack.id
                 /\ SharedPack(Registry[l], RefTo(pack)) <=> pack.vis = "shared"
<1> DEFINE reg == Registry[l]
<1>1. ValidPrivacyGraph(reg, g)
  BY DEF Outputs
<1>2. ASSUME NEW i \in DOMAIN g.activated
      PROVE  LET pack == Active(reg, g)[i] IN
                 /\ pack.id \in DOMAIN reg.packs /\ pack = reg.packs[pack.id]
                 /\ RefMatches(g.activated[i], pack.version)
                 /\ pack.id \in DOMAIN g.visibility /\ g.visibility[pack.id] = pack.vis
                 /\ RefTo(pack) # NoPack /\ RefTo(pack).id = pack.id
                 /\ SharedPack(reg, RefTo(pack)) <=> pack.vis = "shared"
  <2> DEFINE r == g.activated[i]
             pack == Active(reg, g)[i]
  <2>1. r \in Range(g.activated) /\ pack = reg.packs[r.id]
    BY DEF Active, Range
  <2>2. /\ r.id \in DOMAIN reg.packs /\ RefMatches(r, pack.version)
        /\ r.id \in DOMAIN g.visibility /\ g.visibility[r.id] = pack.vis
    BY <1>1, <2>1 DEF ValidPrivacyGraph, Known
  <2>3. pack.id = r.id /\ RefTo(pack) # NoPack
    BY <2>1, <2>2, RegistryShape, LibraryAssumption
  <2>4. RefTo(pack).id = pack.id /\ RefTo(pack).version = pack.version
    BY DEF RefTo, Ref
  <2> HIDE DEF r, pack, reg
  <2>5. SharedPack(reg, RefTo(pack)) <=> pack.vis = "shared"
    BY <2>1, <2>2, <2>3, <2>4 DEF SharedPack, Known, RefMatches
  <2> QED BY <2>1, <2>2, <2>3, <2>4, <2>5 DEF pack, r
<1> QED BY <1>1, <1>2 DEF Outputs, Active

-----------------------------------------------------------------------------
(***************************************************************************)
(* The pipeline: where its graph and its manifest come from.               *)
(***************************************************************************)

\* A graph's packs are in an order, and its selection is a project's.
Made(g) == g # NoGraph =>
    /\ DOMAIN g.activated \subseteq Nat
    /\ \E c \in Configs : g.auto = c.auto

BlockedOut(m) == (m.graph # NoGraph /\ m.selection = "auto" /\ m.graph.auto # NoRef) =>
    \A o \in m.outputs : o.surface \notin m.graph.auto.blocked

PipeInv ==
    /\ cfg \in Configs
    /\ Running => proc.lib \in DOMAIN Registry
    /\ Made(graph)
    /\ manifest # NoManifest => Made(manifest.graph) /\ BlockedOut(manifest)

\* A graph takes the order of its packs and its selection from the configuration.
LEMMA ResolveMakes ==
    ASSUME NEW l \in DOMAIN Registry, cfg \in Configs, NEW overlay,
           Answerable(Registry[l], cfg, overlay), NEW surfacesOf
    PROVE  Made(Resolve(Registry[l], cfg, overlay, surfacesOf))
<1> DEFINE requested == Requested(Registry[l], cfg)
           g == Resolve(Registry[l], cfg, overlay, surfacesOf)
<1>1. DOMAIN requested \subseteq Nat
  BY RegistryShape, ProjectAssumption DEF Requested, Answerable, Known
<1>2. g.auto = cfg.auto /\ DOMAIN g.activated \subseteq DOMAIN requested
  BY DEF Resolve
<1> HIDE DEF g, requested
<1> QED BY <1>1, <1>2 DEF Made, g

\* What a compile stores.
Stored(target, m, override) == \E outputs \in {Outputs(Reg, graph, Reg.targets[target], m,
                                   SelectionFor(Reg.targets[target], override), View(proc.cache))} :
    /\ target \in DOMAIN Reg.targets /\ outputs # Failed
    /\ Storable(Reg, Reg.targets[target], outputs)
    /\ Store(Reg, Reg.targets[target], SelectionFor(Reg.targets[target], override),
             outputs, View(proc.cache))
    /\ settled' = IF proc.lib = lib /\ View(proc.cache) = Disk THEN m ELSE NoRef

\* Compile stores a manifest or changes nothing.
LEMMA CompileStores ==
    ASSUME NEW target, NEW m, NEW override, Compile(target, m, override)
    PROVE  /\ Running /\ graph # NoGraph
           /\ UNCHANGED <<project, graph, consent>>
           /\ \/ Stored(target, m, override)
              \/ Ends(<<"compile", "refused">>) /\ UNCHANGED <<manifest, settled>>
BY DEF Compile, Stored, Views, Running

\* A blocked surface is not emitted under the automatic selection.
LEMMA BlockedNotEmitted ==
    ASSUME NEW pack, NEW view, NEW auto, auto # NoRef,
           NEW s \in Range(EmittedSurfaces(pack, view, "auto", auto))
    PROVE  s.id \notin auto.blocked
<1>1. Emitted(s, "auto", auto)
  BY DEF EmittedSurfaces, Restrict, Range
<1> QED BY <1>1 DEF Emitted

\* No output of an automatic selection is of a blocked surface.
LEMMA SynthesisBlocks ==
    ASSUME NEW packs, DOMAIN packs \subseteq Nat, NEW g, NEW c \in Configs, g.auto = c.auto,
           g.auto # NoRef, NEW policy, NEW target, NEW mode, NEW view, NEW outputs, outputs # Failed,
           outputs = Synthesize(packs, g, policy, target, mode, "auto", view), NEW o \in outputs
    PROVE  o.surface \notin g.auto.blocked
<1>1. OfEmitted(o, packs, target, g.auto, "auto", view)
  BY SynthesisShows
<1>2. NoSurface \notin g.auto.blocked
  BY ProjectAssumption
<1>3. \A ct : EffectiveSelection(ct, "auto") = "auto"
  BY SynthesisAssumption DEF EffectiveSelection
<1> QED BY <1>1, <1>2, <1>3, BlockedNotEmitted DEF OfEmitted

\* What a manifest has when compile has stored it.
LEMMA StoredShape ==
    ASSUME NEW target, NEW m, NEW override, Stored(target, m, override), Running, PipeInv
    PROVE  LET t == Reg.targets[target] IN
           /\ proc.lib \in DOMAIN Registry /\ target \in DOMAIN Reg.targets /\ t.id = target
           /\ manifest'.graph = graph /\ manifest'.target = graph.target
           /\ graph.target = RefTo(t) /\ RefTo(t).id = target
           /\ manifest'.selection = SelectionFor(t, override)
           /\ manifest'.outputs # Failed
           /\ manifest'.outputs = Outputs(Reg, graph, t, m, manifest'.selection, View(proc.cache))
           /\ Protected(PrivatePaths(Reg, manifest'.outputs, graph, t))
<1> DEFINE t == Reg.targets[target]
<1>1. proc.lib \in DOMAIN Registry /\ target \in DOMAIN Reg.targets
  BY DEF PipeInv, Stored
<1>2. t.id = target
  BY <1>1, RegistryShape DEF Reg
<1>3. RefTo(t).id = target
  BY <1>2 DEF RefTo, Ref
<1> HIDE DEF t
<1> QED BY <1>1, <1>2, <1>3 DEF Stored, Storable, Store, t

\* What compile stores keeps to the blocks.
LEMMA StoredBlocks ==
    ASSUME NEW target, NEW m, NEW override, Stored(target, m, override),
           Running, graph # NoGraph, PipeInv
    PROVE  Made(manifest'.graph) /\ BlockedOut(manifest')
<1> DEFINE t == Reg.targets[target]
           packs == Active(Reg, graph)
           outputs == manifest'.outputs
           policy == Reg.policies[graph.policy.id]
<1>1. Made(manifest'.graph)
  BY StoredShape DEF PipeInv
<1>2. ASSUME manifest'.selection = "auto", graph.auto # NoRef, NEW o \in outputs
      PROVE  o.surface \notin graph.auto.blocked
  <2>1. /\ outputs # Failed
        /\ outputs = Synthesize(packs, graph, policy, t, m, "auto", View(proc.cache))
        /\ DOMAIN packs = DOMAIN graph.activated
    BY StoredShape, OutputsShape, <1>2 DEF Reg
  <2>2. PICK c \in Configs : graph.auto = c.auto
    BY DEF PipeInv, Made
  <2>3. DOMAIN packs \subseteq Nat
    BY <2>1 DEF PipeInv, Made
  <2> HIDE DEF outputs, packs, t, policy
  <2> QED BY <1>2, <2>1, <2>2, <2>3, SynthesisBlocks
<1> QED BY <1>1, <1>2, StoredShape DEF BlockedOut

\* Before the first command there is no graph.
LEMMA PipeInitInv == Init => PipeInv
BY ProjectAssumption DEF Init, PipeInv, Made, BlockedOut, Running

\* Every command keeps where graph and manifest come from.
LEMMA PipeInvStep == PipeInv /\ [Next]_vars => PipeInv'
<1> SUFFICES ASSUME PipeInv, [Next]_vars PROVE PipeInv'
  OBVIOUS
<1> USE DEF Running
<1>1. CASE UNCHANGED vars
  BY <1>1 DEF vars, PipeInv, Registry
<1>2. CASE Start
  BY <1>2 DEF Start, project, results, PipeInv, Registry
<1>3. CASE Exit
  BY <1>3 DEF Exit, Ends, project, results, PipeInv, Registry
<1>4. CASE Edit
  BY <1>4 DEF Edit, PipeInv, Registry
<1>5. ASSUME NEW overlay, ResolveCommand(overlay) PROVE PipeInv'
  <2>1. CASE proc' = NoProc /\ UNCHANGED <<project, results>>
    BY <2>1 DEF project, results, PipeInv
  <2>2. CASE /\ Running /\ Answerable(Reg, cfg, overlay) /\ UNCHANGED <<project, manifest, proc>>
             /\ \E view \in Views : graph' = Resolve(Reg, cfg, overlay,
                    [id \in DOMAIN Reg.packs |-> SurfaceIds(Reg.packs[id], view)])
    <3>1. Made(graph')
      BY <2>2, ResolveMakes DEF PipeInv, Reg
    <3> QED BY <2>2, <3>1 DEF project, PipeInv, Registry
  <2> QED BY <1>5, <2>1, <2>2 DEF ResolveCommand, Ends, results
<1>6. ASSUME NEW target, NEW m, NEW override, Compile(target, m, override) PROVE PipeInv'
  <2>1. Running /\ graph # NoGraph /\ UNCHANGED <<project, graph, consent>>
    BY <1>6, CompileStores
  <2>2. CASE Ends(<<"compile", "refused">>) /\ UNCHANGED <<manifest, settled>>
    BY <2>1, <2>2 DEF Ends, project, PipeInv
  <2>3. CASE Stored(target, m, override)
    <3>1. Made(manifest'.graph) /\ BlockedOut(manifest')
      BY <2>1, <2>3, StoredBlocks
    <3>2. proc'.lib = proc.lib
      BY <2>3 DEF Stored, Store
    <3> QED BY <2>1, <3>1, <3>2 DEF project, PipeInv, Registry
  <2> QED BY <1>6, <2>2, <2>3, CompileStores
<1>7. ASSUME NEW m, Apply(m) PROVE PipeInv'
  BY <1>7 DEF Apply, Ends, project, results, PipeInv
<1>8. ASSUME NEW staged, NEW drift, Validate(staged, drift) PROVE PipeInv'
  BY <1>8 DEF Validate, Ends, project, results, PipeInv
<1> QED BY <1>1, <1>2, <1>3, <1>4, <1>5, <1>6, <1>7, <1>8 DEF Next

\* Graph and manifest always come from there.
LEMMA PipeInvHolds == Spec => []PipeInv
BY PipeInitInv, PipeInvStep, PTL DEF Spec

\* A blocked surface stays out of what is compiled automatically, whatever was
\* pinned or selected with it.
THEOREM BlockedHolds == Spec => []BlockedStaysOut
<1>1. PipeInv => BlockedStaysOut
  BY DEF PipeInv, BlockedOut, BlockedStaysOut
<1> QED BY <1>1, PipeInvHolds, PTL

-----------------------------------------------------------------------------
(***************************************************************************)
(* What apply publishes.                                                   *)
(***************************************************************************)

\* Only an apply that admits the manifest publishes it.
LEMMA Published ==
    ASSUME Next, Publishes
    PROVE  /\ Running /\ manifest # NoManifest
           /\ \E m \in ApplyModes : Admitted(m) /\ last'[3] = m
<1>1. ~Start /\ ~Exit /\ ~Edit
  BY DEF Publishes, Start, Exit, Edit, Ends
<1>2. ASSUME NEW overlay, ResolveCommand(overlay) PROVE FALSE
  <2>1. last' = <<"resolve", "refused">> \/ last' = <<"resolve", "ok", WhatIsActive(graph')>>
    BY <1>2 DEF ResolveCommand, Ends
  <2> HIDE DEF WhatIsActive
  <2> QED BY <2>1 DEF Publishes
<1>3. ASSUME NEW target, NEW m, NEW override, Compile(target, m, override) PROVE FALSE
  <2>1. last' = <<"compile", "ok">> \/ last' = <<"compile", "refused">>
    BY <1>3, CompileStores DEF Stored, Store, Ends
  <2> QED BY <2>1 DEF Publishes
<1>4. ASSUME NEW staged, NEW drift PROVE ~Validate(staged, drift)
  BY DEF Publishes, Validate, Ends
<1>5. PICK m \in ApplyModes : Apply(m)
  BY <1>1, <1>2, <1>3, <1>4 DEF Next
<1>6. last' = <<"apply", IF Admitted(m) THEN "ok" ELSE "refused", m>>
  BY <1>5 DEF Apply, Ends
<1>7. Running /\ manifest # NoManifest
  BY <1>5 DEF Apply
<1> HIDE DEF Admitted
<1>8. Admitted(m) /\ last'[3] = m
  BY <1>6 DEF Publishes
<1> QED BY <1>7, <1>8

\* Apply finds everything in what it makes itself of the manifest's graph.
LEMMA PublishedProved ==
    ASSUME Next, Publishes, manifest.graph # NoGraph
    PROVE  LET t == Reg.targets[manifest.target.id]
               now == Outputs(Reg, manifest.graph, t, last'[3], manifest.selection, View(proc.cache))
           IN  /\ Running /\ manifest.target.id \in DOMAIN Reg.targets
               /\ now # Failed /\ manifest.outputs \subseteq now
               /\ Protected(MustProtect(Reg, manifest))
<1>1. PICK m \in ApplyModes : Admitted(m) /\ last'[3] = m
  BY Published
<1>2. Running
  BY Published
<1>3. LET proofs == Proofs(Reg, manifest, m, View(proc.cache)) IN
      /\ proofs # Failed /\ manifest.outputs \subseteq proofs
      /\ Protected(MustProtect(Reg, manifest))
  BY <1>1, <1>2 DEF Admitted, Views, Running
<1> QED BY <1>1, <1>2, <1>3 DEF Proofs

\* What apply publishes is what the library on disk gives, unless a change of
\* a text hides behind an unchanged size and time.
THEOREM CurrentHolds == Spec => PublishedIsCurrent
<1> DEFINE Told == \A p \in DOMAIN proc.cache :
                OnDisk(p).stamp = Files[p][proc.cache[p]].stamp => OnDisk(p) = Files[p][proc.cache[p]]
<1>1. ASSUME Told PROVE View(proc.cache) = Disk
  BY <1>1 DEF View, Disk, Read
<1>2. ASSUME Next, Publishes, manifest.graph # NoGraph, Told
      PROVE  \E now \in {Outputs(Reg, manifest.graph, Reg.targets[manifest.target.id],
                                 last'[3], manifest.selection, Disk)} :
                now # Failed /\ manifest.outputs \subseteq now
  BY <1>1, <1>2, PublishedProved
<1>3. [Next]_vars => [Publishes /\ manifest.graph # NoGraph /\ proc.lib = lib /\ Told =>
          \E now \in {Outputs(Reg, manifest.graph, Reg.targets[manifest.target.id],
                                 last'[3], manifest.selection, Disk)} :
              now # Failed /\ manifest.outputs \subseteq now]_vars
  BY <1>2
<1> QED BY <1>3, PTL DEF Spec, PublishedIsCurrent

\* What must be found protected covers every output that shows something of a
\* pack that is not known to be shared.
LEMMA ShownIsExposed ==
    ASSUME NEW l \in DOMAIN Registry, NEW m, m.graph # NoGraph, Made(m.graph),
           m.target.id \in DOMAIN Registry[l].targets,
           NEW mode, NEW view, NEW outputs, outputs # Failed,
           outputs = Outputs(Registry[l], m.graph, Registry[l].targets[m.target.id],
                             mode, m.selection, view),
           NEW o \in outputs, NEW id \in About(o),
           id \notin DOMAIN Registry[l].packs \/ Registry[l].packs[id].vis = "private"
    PROVE  Exposes(Registry[l], m, o)
<1> DEFINE reg == Registry[l]
           g == m.graph
           target == reg.targets[m.target.id]
           packs == Active(reg, g)
           policy == reg.policies[g.policy.id]
<1>1. /\ outputs = Synthesize(packs, g, policy, target, mode, m.selection, view)
      /\ DOMAIN packs = DOMAIN g.activated
      /\ \A i \in DOMAIN packs :
            /\ packs[i].id \in DOMAIN reg.packs /\ packs[i] = reg.packs[packs[i].id]
            /\ RefTo(packs[i]) # NoPack
            /\ SharedPack(reg, RefTo(packs[i])) <=> packs[i].vis = "shared"
  BY OutputsShape
<1>2. DOMAIN packs \subseteq Nat
  BY <1>1 DEF Made
<1>3. Shows(o, packs, target)
  <2> HIDE DEF packs, target, policy
  <2> QED BY <1>1, <1>2, SynthesisShows
<1>4. PICK t \in o.text : t[1] = id /\ id # NoPack
  BY DEF About
<1>5. \A i \in DOMAIN packs : packs[i].id = id => packs[i].vis # "shared"
  BY <1>1
<1> HIDE DEF packs, policy
<1>6. CASE o.pack = NoPack /\ Speaks(o.text, OfVis(packs, "shared"))
  <2>1. PICK k \in DOMAIN OfVis(packs, "shared") : id = OfVis(packs, "shared")[k].id
    BY <1>4, <1>6 DEF Speaks
  <2>2. k \in DOMAIN packs /\ packs[k].vis = "shared" /\ id = packs[k].id
    BY <2>1 DEF OfVis, Restrict
  <2> QED BY <1>5, <2>2
<1>7. CASE HasLocal(target) /\ o.dest = target.local.surface
  BY <1>7 DEF HasLocal, Exposes, PrivateOutput
<1>8. ASSUME NEW i \in DOMAIN packs, o.pack = RefTo(packs[i]),
             packs[i].vis # "shared" \/ \A s \in o.text : s[1] = packs[i].id
      PROVE  Exposes(reg, m, o)
  <2>1. packs[i].vis # "shared"
    BY <1>4, <1>5, <1>8
  <2>2. o.pack # NoPack /\ ~SharedPack(reg, o.pack)
    BY <1>1, <1>8, <2>1
  <2> QED BY <2>2 DEF Exposes
<1> QED BY <1>3, <1>6, <1>7, <1>8 DEF Shows

\* Nothing of a private pack is published where it can be committed.
THEOREM PrivacyHolds == Spec => PrivateStaysProtected
<1> DEFINE Kept == \A o \in manifest.outputs : \A id \in About(o) :
                     (id \notin DOMAIN Reg.packs \/ Reg.packs[id].vis = "private")
                        => {o.dest, State} \subseteq guard
<1>1. ASSUME PipeInv, Next, Publishes, manifest.graph # NoGraph PROVE Kept
  <2> SUFFICES ASSUME NEW o \in manifest.outputs, NEW id \in About(o),
                      id \notin DOMAIN Reg.packs \/ Reg.packs[id].vis = "private"
               PROVE  {o.dest, State} \subseteq guard
    OBVIOUS
  <2> DEFINE t == Reg.targets[manifest.target.id]
             now == Outputs(Reg, manifest.graph, t, last'[3], manifest.selection, View(proc.cache))
  <2>1. /\ Running /\ manifest.target.id \in DOMAIN Reg.targets
        /\ now # Failed /\ manifest.outputs \subseteq now
        /\ Protected(MustProtect(Reg, manifest))
    BY <1>1, PublishedProved
  <2>2. proc.lib \in DOMAIN Registry /\ Made(manifest.graph)
    BY <1>1, <2>1, Published DEF PipeInv
  <2>3. o \in now
    BY <2>1
  <2>4. Exposes(Reg, manifest, o)
    <3> DEFINE outputs == now
    <3>1. outputs # Failed /\ o \in outputs
      BY <2>1, <2>3
    <3> QED BY <1>1, <2>1, <2>2, <3>1, ShownIsExposed DEF Reg
  <2>5. {o.dest, State} \subseteq MustProtect(Reg, manifest)
    BY <2>4 DEF MustProtect
  <2> QED BY <2>1, <2>5 DEF Protected
<1>2. PipeInv /\ [Next]_vars => [Publishes /\ manifest.graph # NoGraph => Kept]_vars
  BY <1>1
<1> QED BY <1>2, PipeInvHolds, PTL DEF Spec, PrivateStaysProtected

-----------------------------------------------------------------------------
(***************************************************************************)
(* Apply after its own compile.                                            *)
(***************************************************************************)

\* The manifest is what the process would make of its graph now.
SettledInv == settled # NoRef =>
    /\ manifest.graph # NoGraph /\ manifest.graph.target = manifest.target
    /\ lib \in DOMAIN Registry
    /\ LET reg == Registry[lib]  t == reg.targets[manifest.target.id] IN
         /\ manifest.target.id \in DOMAIN reg.targets
         /\ manifest.outputs # Failed
         /\ manifest.outputs = Outputs(reg, manifest.graph, t, settled, manifest.selection, Disk)
         /\ Protected(PrivatePaths(reg, manifest.outputs, manifest.graph, t))
    /\ Running => proc.lib = lib /\ View(proc.cache) = Disk

\* Reading on through a cache that tells the truth keeps it so.
LEMMA CacheStaysTrue ==
    ASSUME NEW cache, View(cache) = Disk, NEW paths
    PROVE  View(Cached(cache, paths)) = Disk
<1> DEFINE new == Cached(cache, paths)
<1>1. ASSUME NEW p \in Paths PROVE Read(new, p) = Read(<<>>, p)
  <2>1. Read(cache, p) = Read(<<>>, p)
    BY DEF View, Disk
  <2>2. /\ p \in DOMAIN new <=> p \in DOMAIN cache \/ (p \in paths /\ OnDisk(p).exists)
        /\ p \in DOMAIN new => new[p] = files[p] \/ (p \in DOMAIN cache /\ new[p] = cache[p])
    BY DEF Cached
  <2> HIDE DEF new
  <2>3. CASE p \in DOMAIN new /\ new[p] = files[p]
    BY <2>3 DEF Read, OnDisk
  <2>4. CASE p \notin DOMAIN new
    BY <2>4 DEF Read
  <2>5. CASE p \in DOMAIN new /\ p \in DOMAIN cache /\ new[p] = cache[p]
    BY <2>1, <2>5 DEF Read
  <2> QED BY <2>2, <2>3, <2>4, <2>5
<1> QED BY <1>1 DEF View, Disk

\* Compile and apply agree about what is private.
LEMMA ExposedIsPrivate ==
    ASSUME NEW l \in DOMAIN Registry, NEW m, m.graph # NoGraph, Made(m.graph),
           m.target.id \in DOMAIN Registry[l].targets,
           NEW mode, NEW view, NEW outputs, outputs # Failed,
           outputs = Outputs(Registry[l], m.graph, Registry[l].targets[m.target.id],
                             mode, m.selection, view),
           NEW o \in outputs, Exposes(Registry[l], m, o)
    PROVE  PrivateOutput(o, m.graph, Registry[l].targets[m.target.id])
<1> DEFINE reg == Registry[l]
           g == m.graph
           target == reg.targets[m.target.id]
           packs == Active(reg, g)
           policy == reg.policies[g.policy.id]
<1>1. /\ outputs = Synthesize(packs, g, policy, target, mode, m.selection, view)
      /\ DOMAIN packs = DOMAIN g.activated
      /\ \A i \in DOMAIN packs :
            /\ packs[i].id \in DOMAIN g.visibility /\ g.visibility[packs[i].id] = packs[i].vis
            /\ RefTo(packs[i]) # NoPack /\ RefTo(packs[i]).id = packs[i].id
            /\ SharedPack(reg, RefTo(packs[i])) <=> packs[i].vis = "shared"
  BY OutputsShape
<1>2. DOMAIN packs \subseteq Nat
  BY <1>1 DEF Made
<1>3. OwnedBy(o, packs)
  <2> HIDE DEF packs, target, policy
  <2> QED BY <1>1, <1>2, SynthesisShows
<1>4. CASE o.pack # NoPack /\ ~SharedPack(reg, o.pack)
  <2>1. PICK i \in DOMAIN packs : o.pack = RefTo(packs[i])
    BY <1>3, <1>4 DEF OwnedBy
  <2>2. packs[i].vis # "shared" /\ g.visibility[o.pack.id] # "shared"
    BY <1>1, <1>4, <2>1
  <2> QED BY <1>4, <2>2 DEF PrivateOutput
<1> QED BY <1>4 DEF Exposes

\* A manifest that is settled is admitted.
LEMMA SettledApplies ==
    ASSUME PipeInv, SettledInv, Running, manifest # NoManifest, NEW m, settled = m, m # NoRef
    PROVE  Admitted(m)
<1> DEFINE reg == Registry[lib]
           g == manifest.graph
           t == reg.targets[manifest.target.id]
<1>1. /\ proc.lib = lib /\ Reg = reg /\ lib \in DOMAIN Registry
      /\ View(proc.cache) = Disk
      /\ g # NoGraph /\ g.target = manifest.target /\ Made(g)
      /\ manifest.target.id \in DOMAIN reg.targets
      /\ manifest.outputs # Failed
      /\ manifest.outputs = Outputs(reg, g, t, m, manifest.selection, Disk)
      /\ Protected(PrivatePaths(reg, manifest.outputs, g, t))
  BY DEF SettledInv, PipeInv, Reg
<1>2. Proofs(Reg, manifest, m, View(proc.cache)) = manifest.outputs
  BY <1>1 DEF Proofs
<1>3. \A o \in manifest.outputs : Exposes(reg, manifest, o) => PrivateOutput(o, g, t)
  <2> DEFINE outputs == manifest.outputs
  <2>1. outputs # Failed /\ outputs = Outputs(reg, g, t, m, manifest.selection, Disk)
    BY <1>1
  <2> HIDE DEF outputs
  <2>2. \A o \in outputs : Exposes(reg, manifest, o) => PrivateOutput(o, g, t)
    BY <1>1, <2>1, ExposedIsPrivate
  <2> QED BY <2>2 DEF outputs
<1>4. MustProtect(reg, manifest) \subseteq PrivatePaths(reg, manifest.outputs, g, t)
  BY <1>1, <1>3 DEF MustProtect, PrivatePaths
<1>5. Protected(MustProtect(Reg, manifest))
  BY <1>1, <1>4 DEF Protected
<1>6. View(proc.cache) \in Views
  BY DEF Views, Running
<1> QED BY <1>1, <1>2, <1>5, <1>6 DEF Admitted

AppliesInv == SettledInv /\ OwnCompileApplies

\* Nothing is settled before the first compile.
LEMMA AppliesInitInv == Init => AppliesInv
BY DEF Init, AppliesInv, SettledInv, OwnCompileApplies

\* The same files read the same through the same cache.
LEMMA SameView ==
    ASSUME UNCHANGED files, NEW cache, proc'.cache = cache
    PROVE  Disk' = Disk /\ View(proc.cache)' = View(cache)
BY DEF Disk, View, Read, OnDisk

\* A command that ends the process changes nothing that is settled.
LEMMA SettledKeeps ==
    ASSUME SettledInv, proc' = NoProc \/ proc' = [lib |-> lib, cache |-> <<>>], UNCHANGED project,
           UNCHANGED <<manifest, settled>>
    PROVE  SettledInv'
<1>1. UNCHANGED <<files, lib, guard>>
  BY DEF project
<1>2. Disk' = Disk
  BY <1>1 DEF Disk, View, Read, OnDisk
<1>3. Running' => proc'.lib = lib' /\ View(proc.cache)' = Disk'
  <2>1. Running' => proc' = [lib |-> lib, cache |-> <<>>]
    BY DEF Running
  <2>2. proc' = [lib |-> lib, cache |-> <<>>] => View(proc.cache)' = Disk'
    BY <1>1, <1>2, SameView DEF Disk
  <2> QED BY <1>1, <2>1, <2>2
<1> QED BY <1>1, <1>2, <1>3 DEF SettledInv, Protected

\* A compile that stores settles the manifest, if what it has read is on disk.
LEMMA StoredSettles ==
    ASSUME NEW target, NEW m, NEW override, Stored(target, m, override),
           Running, graph # NoGraph, PipeInv, UNCHANGED project
    PROVE  SettledInv'
<1> DEFINE t == Reg.targets[target]
           paths == ReadPaths(Active(Reg, graph), t)
<1> SUFFICES ASSUME settled' # NoRef PROVE SettledInv'
  BY DEF SettledInv
<1>1. UNCHANGED <<files, lib, guard>>
  BY DEF project
<1>2. proc.lib = lib /\ View(proc.cache) = Disk /\ settled' = m
  BY DEF Stored
<1>3. proc' = [lib |-> proc.lib, cache |-> Cached(proc.cache, paths)]
  BY DEF Stored, Store
<1>4. Disk' = Disk /\ View(proc.cache)' = Disk
  <2> DEFINE cache == Cached(proc.cache, paths)
  <2>1. View(cache) = Disk
    BY <1>2, CacheStaysTrue
  <2>2. proc'.cache = cache
    BY <1>3
  <2> HIDE DEF cache
  <2> QED BY <1>1, <2>1, <2>2, SameView
<1>5. /\ lib \in DOMAIN Registry /\ Reg = Registry[lib] /\ target \in DOMAIN Reg.targets
      /\ manifest'.graph = graph /\ manifest'.target = graph.target /\ graph.target.id = target
      /\ manifest'.outputs # Failed
      /\ manifest'.outputs = Outputs(Reg, graph, t, m, manifest'.selection, View(proc.cache))
      /\ Protected(PrivatePaths(Reg, manifest'.outputs, graph, t))
  BY <1>2, StoredShape DEF Reg
<1>6. proc'.lib = lib
  BY <1>2, <1>3
<1> QED BY <1>1, <1>2, <1>4, <1>5, <1>6 DEF SettledInv, Protected

\* A manifest stays settled until somebody edits something.
LEMMA AppliesInvStep == PipeInv /\ AppliesInv /\ [Next]_vars => AppliesInv'
<1> SUFFICES ASSUME PipeInv, AppliesInv, [Next]_vars PROVE AppliesInv'
  OBVIOUS
<1> DEFINE Refused(x) == x[1] = "apply" /\ x[2] = "refused"
<1>0. ASSUME SettledInv', ~Refused(last') PROVE AppliesInv'
  BY <1>0 DEF AppliesInv, OwnCompileApplies
<1>1. CASE UNCHANGED vars
  BY <1>1 DEF vars, AppliesInv, SettledInv, OwnCompileApplies, Running, Protected,
              Disk, View, Read, OnDisk
<1>2. CASE Start
  <2>1. proc' = NoProc \/ proc' = [lib |-> lib, cache |-> <<>>]
    BY <1>2 DEF Start
  <2>2. SettledInv'
    BY <1>2, <2>1, SettledKeeps DEF Start, results, AppliesInv
  <2>3. ~Refused(last')
    BY <1>2 DEF Start
  <2> QED BY <2>2, <2>3, <1>0
<1>3. CASE Exit
  <2>1. SettledInv'
    BY <1>3, SettledKeeps DEF Exit, Ends, results, AppliesInv
  <2>2. ~Refused(last')
    BY <1>3 DEF Exit, Ends
  <2> QED BY <2>1, <2>2, <1>0
<1>4. CASE Edit
  <2>1. SettledInv' /\ ~Refused(last')
    BY <1>4 DEF Edit, SettledInv
  <2> QED BY <2>1, <1>0
<1>5. ASSUME NEW overlay, ResolveCommand(overlay) PROVE AppliesInv'
  <2>1. settled' = NoRef \/ (proc' = NoProc /\ UNCHANGED <<project, manifest, settled>>)
    BY <1>5 DEF ResolveCommand, Ends
  <2>2. SettledInv'
    <3>1. CASE settled' = NoRef
      BY <3>1 DEF SettledInv
    <3> QED BY <2>1, <3>1, SettledKeeps DEF AppliesInv
  <2>3. last' = <<"resolve", "refused">> \/ last' = <<"resolve", "ok", WhatIsActive(graph')>>
    BY <1>5 DEF ResolveCommand, Ends
  <2> HIDE DEF WhatIsActive
  <2>4. ~Refused(last')
    BY <2>3
  <2> QED BY <2>2, <2>4, <1>0
<1>6. ASSUME NEW target, NEW m, NEW override, Compile(target, m, override) PROVE AppliesInv'
  <2>1. Running /\ graph # NoGraph /\ UNCHANGED project
    BY <1>6, CompileStores
  <2>2. last' = <<"compile", "ok">> \/ last' = <<"compile", "refused">>
    BY <1>6, CompileStores DEF Stored, Store, Ends
  <2>3. SettledInv'
    <3>1. CASE Stored(target, m, override)
      BY <2>1, <3>1, StoredSettles
    <3>2. CASE Ends(<<"compile", "refused">>) /\ UNCHANGED <<manifest, settled>>
      BY <2>1, <3>2, SettledKeeps DEF Ends, AppliesInv
    <3> QED BY <1>6, <3>1, <3>2, CompileStores
  <2>4. ~Refused(last')
    BY <2>2
  <2> QED BY <2>3, <2>4, <1>0
<1>7. ASSUME NEW m, Apply(m) PROVE AppliesInv'
  <2>1. /\ Running /\ manifest # NoManifest
        /\ proc' = NoProc /\ UNCHANGED <<project, manifest, settled>>
        /\ last' = <<"apply", IF Admitted(m) THEN "ok" ELSE "refused", m>>
    BY <1>7 DEF Apply, Ends, results
  <2>2. SettledInv'
    BY <2>1, SettledKeeps DEF AppliesInv
  <2>3. settled # NoRef /\ settled = m => Admitted(m)
    BY <2>1, SettledApplies DEF AppliesInv
  <2> HIDE DEF Admitted
  <2>4. OwnCompileApplies'
    BY <2>1, <2>3 DEF OwnCompileApplies
  <2> QED BY <2>2, <2>4 DEF AppliesInv
<1>8. ASSUME NEW staged, NEW drift, Validate(staged, drift) PROVE AppliesInv'
  <2>1. /\ proc' = NoProc /\ UNCHANGED <<project, manifest, settled>>
        /\ last'[1] = "validate"
    BY <1>8 DEF Validate, Ends, results
  <2>2. SettledInv'
    BY <2>1, SettledKeeps DEF AppliesInv
  <2> QED BY <2>1, <2>2, <1>0
<1> QED BY <1>1, <1>2, <1>3, <1>4, <1>5, <1>6, <1>7, <1>8 DEF Next

\* Apply does not refuse what compile has just made.
THEOREM OwnCompileHolds == Spec => []OwnCompileApplies
<1>1. PipeInv /\ AppliesInv /\ [Next]_vars => AppliesInv'
  BY AppliesInvStep
<1>2. AppliesInv => OwnCompileApplies
  BY DEF AppliesInv
<1> QED BY <1>1, <1>2, AppliesInitInv, PipeInvHolds, PTL DEF Spec

-----------------------------------------------------------------------------
(***************************************************************************)
(* Candidates.                                                             *)
(***************************************************************************)

\* Only imports have the version that imports get.
VersionsTell == \A l \in DOMAIN Libraries : \A pack \in Range(PacksOf(Libraries[l])) :
    pack.version = CandidateVersion => IsCandidate(pack)

Asked == consent \in {"candidate_search", "exploratory"}

\* Versions a candidate may be known by are in the graph only if it was asked for.
ConsentInv == graph # NoGraph => \A i \in DOMAIN graph.activated :
    graph.activated[i].version \in {AnyVersion, CandidateVersion} => Asked

\* A candidate has the version that imports get.
LEMMA CandidateVersions ==
    ASSUME NEW l \in DOMAIN Registry, NEW id \in DOMAIN Registry[l].packs,
           IsCandidate(Registry[l].packs[id])
    PROVE  Registry[l].packs[id].version = CandidateVersion
<1> DEFINE roots == Libraries[l]
           pack == Registry[l].packs[id]
<1>1. pack \in Range(PacksOf(roots))
  BY RegistryShape
<1>2. PICK p \in DOMAIN PacksOf(roots) : pack = PacksOf(roots)[p]
  BY <1>1 DEF Range
<1>3. (\A d, s : AsDeclared(d, s).status = "promoted")
      /\ \A d : NormalizeCandidate(d).version = CandidateVersion
  BY DEF AsDeclared, NormalizeCandidate
<1>4. (\E d, s : pack = AsDeclared(d, s)) \/ \E d : pack = NormalizeCandidate(d)
  BY <1>2 DEF PacksOf
<1> HIDE DEF pack
<1>5. IsCandidate(pack)
  BY DEF pack
<1>6. pack.version = CandidateVersion
  BY <1>3, <1>4, <1>5 DEF IsCandidate
<1> QED BY <1>6 DEF pack

\* What resolve activates is known, by its own version and not withheld.
LEMMA ActivatedShape ==
    ASSUME NEW l \in DOMAIN Registry, NEW overlay, NEW surfacesOf,
           NEW i \in DOMAIN Resolve(Registry[l], cfg, overlay, surfacesOf).activated
    PROVE  LET ref == Requested(Registry[l], cfg)[i]
               pack == Registry[l].packs[ref.id]
           IN  /\ Withheld(Registry[l], cfg, overlay, ref) = <<>>
               /\ Known(Registry[l].packs, ref)
               /\ Resolve(Registry[l], cfg, overlay, surfacesOf).activated[i] = RefTo(pack)
<1> DEFINE ref == Requested(Registry[l], cfg)[i]
           g == Resolve(Registry[l], cfg, overlay, surfacesOf)
<1>1. /\ Withheld(Registry[l], cfg, overlay, ref) = <<>>
      /\ g.activated[i] = Recorded(Registry[l], ref)
  BY DEF Resolve
<1>2. Known(Registry[l].packs, ref)
  BY <1>1 DEF Withheld
<1> QED BY <1>1, <1>2 DEF Recorded

\* Resolve activates a candidate's version only if candidates are asked for.
LEMMA ResolveAsks ==
    ASSUME VersionsTell, NEW l \in DOMAIN Registry, NEW overlay, NEW surfacesOf,
           NEW g, g = Resolve(Registry[l], cfg, overlay, surfacesOf),
           NEW i \in DOMAIN g.activated,
           g.activated[i].version \in {AnyVersion, CandidateVersion}
    PROVE  EffectiveMode(cfg, Registry[l].policies[cfg.policy.id]) \in {"candidate_search", "exploratory"}
<1> DEFINE reg == Registry[l]
           ref == Requested(reg, cfg)[i]
           pack == reg.packs[ref.id]
           policy == reg.policies[cfg.policy.id]
<1>1. /\ Withheld(reg, cfg, overlay, ref) = <<>> /\ Known(reg.packs, ref)
      /\ g.activated[i] = RefTo(pack)
  BY ActivatedShape
<1>2. pack \in Range(PacksOf(Libraries[l])) /\ l \in DOMAIN Libraries
  BY <1>1, RegistryShape DEF Known
<1>3. g.activated[i].version = pack.version
  BY <1>1 DEF RefTo, Ref
<1>4. IsCandidate(pack)
  BY <1>2, <1>3, LibraryAssumption DEF VersionsTell
<1>5. SuppressionReason(pack, reg.roles[cfg.role.id], policy,
          RefTo(reg.targets[SelectedTarget(cfg, overlay).id]), EffectiveMode(cfg, policy)) = <<>>
  BY <1>1 DEF Withheld
<1> QED BY <1>4, <1>5 DEF SuppressionReason

\* The versions a graph records still say that a candidate was asked for.
LEMMA CandidateAsked ==
    ASSUME NEW l \in DOMAIN Registry, NEW g, Made(g), g # NoGraph,
           NEW target, NEW mode, NEW override, NEW view, NEW outputs, outputs # Failed,
           outputs = Outputs(Registry[l], g, target, mode, override, view),
           NEW o \in outputs, NEW id \in About(o) \cap DOMAIN Registry[l].packs,
           IsCandidate(Registry[l].packs[id])
    PROVE  \E i \in DOMAIN g.activated : g.activated[i].version \in {AnyVersion, CandidateVersion}
<1> DEFINE reg == Registry[l]
           packs == Active(reg, g)
           policy == reg.policies[g.policy.id]
<1>1. /\ outputs = Synthesize(packs, g, policy, target, mode, override, view)
      /\ DOMAIN packs = DOMAIN g.activated
      /\ \A i \in DOMAIN packs : /\ packs[i] = reg.packs[packs[i].id]
                                 /\ RefMatches(g.activated[i], packs[i].version)
  BY OutputsShape
<1>2. DOMAIN packs \subseteq Nat
  BY <1>1 DEF Made
<1>3. OwnedBy(o, packs)
  <2> HIDE DEF packs, policy
  <2> QED BY <1>1, <1>2, SynthesisShows
<1>4. PICK i \in DOMAIN packs : packs[i].id = id
  <2> HIDE DEF packs
  <2> QED BY <1>3 DEF OwnedBy, Speaks, About
<1>5. packs[i].version = CandidateVersion
  BY <1>1, <1>4, CandidateVersions
<1> QED BY <1>1, <1>4, <1>5 DEF RefMatches

\* The versions and the mode are those of one graph.
LEMMA ConsentInvStep ==
    ASSUME VersionsTell, PipeInv, ConsentInv, [Next]_vars
    PROVE  ConsentInv'
<1>1. CASE UNCHANGED <<graph, consent>>
  BY <1>1 DEF ConsentInv, Asked
<1>2. ASSUME NEW overlay, ResolveCommand(overlay) PROVE ConsentInv'
  <2>1. CASE UNCHANGED <<graph, consent>>
    BY <1>1, <2>1
  <2>2. CASE /\ Running /\ consent' = EffectiveMode(cfg, Reg.policies[cfg.policy.id])
             /\ \E surfacesOf : graph' = Resolve(Reg, cfg, overlay, surfacesOf)
    <3>1. PICK surfacesOf : graph' = Resolve(Reg, cfg, overlay, surfacesOf)
      BY <2>2
    <3>2. proc.lib \in DOMAIN Registry
      BY <2>2 DEF PipeInv
    <3>3. \A i \in DOMAIN graph'.activated :
             graph'.activated[i].version \in {AnyVersion, CandidateVersion}
               => consent' \in {"candidate_search", "exploratory"}
      BY <2>2, <3>1, <3>2, ResolveAsks DEF Reg
    <3> QED BY <3>3 DEF ConsentInv, Asked
  <2>3. (graph' = graph /\ consent' = consent)
        \/ (/\ Running /\ consent' = EffectiveMode(cfg, Reg.policies[cfg.policy.id])
            /\ \E view \in Views : graph' = Resolve(Reg, cfg, overlay,
                   [id \in DOMAIN Reg.packs |-> SurfaceIds(Reg.packs[id], view)]))
    BY <1>2 DEF ResolveCommand
  <2> QED BY <2>1, <2>2, <2>3
<1>3. ASSUME NEW target, NEW m, NEW override, Compile(target, m, override) PROVE ConsentInv'
  BY <1>1, <1>3, CompileStores
<1>4. CASE Start \/ Exit \/ Edit \/ UNCHANGED vars
  BY <1>1, <1>4 DEF Start, Exit, Ends, Edit, results, vars
<1>5. ASSUME NEW m, Apply(m) PROVE ConsentInv'
  BY <1>1, <1>5 DEF Apply, results
<1>6. ASSUME NEW staged, NEW drift, Validate(staged, drift) PROVE ConsentInv'
  BY <1>1, <1>6 DEF Validate, results
<1> QED BY <1>2, <1>3, <1>4, <1>5, <1>6 DEF Next

\* A quarantined candidate is published only from a graph that asked for one.
THEOREM ConsentHolds ==
    ASSUME VersionsTell
    PROVE  Spec => CandidatesNeedConsent
<1> DEFINE AskedFor == \A o \in manifest.outputs : \A id \in About(o) \cap DOMAIN Reg.packs :
                         IsCandidate(Reg.packs[id]) => consent \in {"candidate_search", "exploratory"}
<1>1. Init => ConsentInv
  BY DEF Init, ConsentInv
<1>2. PipeInv /\ ConsentInv /\ [Next]_vars => ConsentInv'
  BY ConsentInvStep
<1>3. ASSUME PipeInv, ConsentInv, Next, Publishes, manifest.graph # NoGraph, manifest.graph = graph
      PROVE  AskedFor
  <2> SUFFICES ASSUME NEW o \in manifest.outputs, NEW id \in About(o) \cap DOMAIN Reg.packs,
                      IsCandidate(Reg.packs[id])
               PROVE  Asked
    BY DEF Asked
  <2> DEFINE t == Reg.targets[manifest.target.id]
             now == Outputs(Reg, graph, t, last'[3], manifest.selection, View(proc.cache))
  <2>1. Running /\ now # Failed /\ o \in now
    BY <1>3, PublishedProved
  <2>2. proc.lib \in DOMAIN Registry /\ Made(graph) /\ graph # NoGraph
    BY <1>3, <2>1 DEF PipeInv
  <2>3. \E i \in DOMAIN graph.activated :
           graph.activated[i].version \in {AnyVersion, CandidateVersion}
    <3> DEFINE outputs == now
    <3>1. outputs # Failed /\ o \in outputs
      BY <2>1
    <3> QED BY <2>2, <3>1, CandidateAsked DEF Reg
  <2> QED BY <1>3, <2>2, <2>3 DEF ConsentInv
<1>4. PipeInv /\ ConsentInv /\ [Next]_vars
        => [Publishes /\ manifest.graph # NoGraph /\ manifest.graph = graph => AskedFor]_vars
  BY <1>3
<1> QED BY <1>1, <1>2, <1>4, PipeInvHolds, PTL DEF Spec, CandidatesNeedConsent

-----------------------------------------------------------------------------
(***************************************************************************)
(* Finite sets in order: what InOrder asks for exists.                     *)
(***************************************************************************)

\* R is an order: what it relates to nothing and to what follows.
StrictOrder(R, U) ==
    /\ \A a \in U : <<a, a>> \notin R
    /\ \A a, b, c \in U : <<a, b>> \in R /\ <<b, c>> \in R => <<a, c>> \in R

Ordering(R, S, s) ==
    /\ s \in [1..Cardinality(S) -> S]
    /\ IsInjective(s)
    /\ \A i, j \in DOMAIN s : i < j => <<s[j], s[i]>> \notin R

\* A finite set that is not empty has an element that comes before no other.
LEMMA LastElement ==
    ASSUME NEW U, NEW R, StrictOrder(R, U), NEW T \in FiniteSubsetsOf(U), T # {}
    PROVE  \E x \in T : \A y \in T : <<x, y>> \notin R
<1> DEFINE Behind(x) == {y \in T : <<x, y>> \in R}
           Sets == {Behind(x) : x \in T}
           Less == StrictSubsetOrdering(U)
<1>1. Sets \subseteq FiniteSubsetsOf(U) /\ Sets # {}
  <2>1. ASSUME NEW x \in T PROVE Behind(x) \in FiniteSubsetsOf(U)
    <3>1. Behind(x) \subseteq T /\ IsFiniteSet(T) /\ T \subseteq U
      BY DEF FiniteSubsetsOf
    <3>2. IsFiniteSet(Behind(x))
      <4> HIDE DEF Behind
      <4> QED BY <3>1, FS_Subset
    <3> QED BY <3>1, <3>2 DEF FiniteSubsetsOf
  <2> HIDE DEF Behind
  <2> QED BY <2>1
<1>2. \E A \in Sets : \A B \in Sets : <<B, A>> \notin Less
  <2> HIDE DEF Sets, Less
  <2>1. IsWellFoundedOn(Less, FiniteSubsetsOf(U))
    BY FS_StrictSubsetOrderingWellFounded DEF Less
  <2> QED BY <1>1, <2>1, WFMin
<1>3. PICK x \in T : \A y \in T : <<Behind(y), Behind(x)>> \notin Less
  BY <1>2
<1>4. ASSUME NEW y \in T, <<x, y>> \in R PROVE FALSE
  <2>1. T \subseteq U
    BY DEF FiniteSubsetsOf
  <2>2. Behind(y) \subseteq Behind(x)
    BY <1>4, <2>1 DEF StrictOrder
  <2>3. y \in Behind(x) /\ y \notin Behind(y)
    BY <1>4, <2>1 DEF StrictOrder
  <2>4. <<Behind(y), Behind(x)>> \in Less
    BY <2>1, <2>2, <2>3 DEF StrictSubsetOrdering
  <2> QED BY <1>3, <2>4
<1> QED BY <1>4

\* It comes last in an order of them all.
LEMMA OrderingGrows ==
    ASSUME NEW R, NEW T, IsFiniteSet(T), NEW x \in T, \A y \in T : <<x, y>> \notin R,
           NEW s, Ordering(R, T \ {x}, s)
    PROVE  \E new : Ordering(R, T, new)
<1> DEFINE n == Cardinality(T)
           new == [i \in 1..n |-> IF i = n THEN x ELSE s[i]]
<1>1. n \in Nat \ {0} /\ Cardinality(T \ {x}) = n - 1
  <2>1. n \in Nat /\ Cardinality(T \ {x}) = n - 1
    BY FS_CardinalityType, FS_RemoveElement
  <2>2. n # 0
    BY FS_EmptySet
  <2> QED BY <2>1, <2>2
<1> HIDE DEF n
<1>2. s \in [1..(n - 1) -> T \ {x}] /\ IsInjective(s)
      /\ \A i, j \in 1..(n - 1) : i < j => <<s[j], s[i]>> \notin R
  BY <1>1 DEF Ordering
<1>3. \A i \in 1..n : i # n => i \in 1..(n - 1) /\ new[i] = s[i] /\ s[i] \in T \ {x}
  BY <1>1, <1>2
<1>4. DOMAIN new = 1..n /\ new[n] = x /\ n \in 1..n
  BY <1>1
<1>5. new \in [1..n -> T]
  BY <1>3, <1>4
<1> HIDE DEF new
<1>6. IsInjective(new)
  BY <1>2, <1>3, <1>4 DEF IsInjective
<1>7. ASSUME NEW i \in 1..n, NEW j \in 1..n, i < j PROVE <<new[j], new[i]>> \notin R
  <2>1. i # n
    BY <1>1, <1>7
  <2>2. CASE j = n
    BY <1>3, <1>4, <2>1, <2>2
  <2>3. CASE j # n
    BY <1>2, <1>3, <1>7, <2>1, <2>3
  <2> QED BY <2>2, <2>3
<1> QED BY <1>4, <1>5, <1>6, <1>7 DEF Ordering, n

\* Every finite set can be put in order.
LEMMA OrderingExists ==
    ASSUME NEW R, NEW S, IsFiniteSet(S), StrictOrder(R, S)
    PROVE  \E s : Ordering(R, S, s)
<1> DEFINE Less == StrictSubsetOrdering(S)
           Bad == {T \in FiniteSubsetsOf(S) : ~\E s : Ordering(R, T, s)}
<1> SUFFICES ASSUME Bad # {} PROVE FALSE
  BY DEF FiniteSubsetsOf
<1>1. PICK T \in Bad : \A V \in Bad : <<V, T>> \notin Less
  <2>1. IsWellFoundedOn(Less, FiniteSubsetsOf(S))
    BY FS_StrictSubsetOrderingWellFounded
  <2>2. Bad \subseteq FiniteSubsetsOf(S)
    OBVIOUS
  <2> HIDE DEF Bad, Less
  <2> QED BY <2>1, <2>2, WFMin
<1>2. T \in FiniteSubsetsOf(S) /\ T \subseteq S /\ IsFiniteSet(T)
  BY DEF FiniteSubsetsOf
<1>3. T # {}
  <2>1. ASSUME T = {} PROVE Ordering(R, T, <<>>)
    BY <2>1, FS_EmptySet DEF Ordering, IsInjective
  <2> QED BY <2>1
<1>4. PICK x \in T : \A y \in T : <<x, y>> \notin R
  BY <1>2, <1>3, LastElement
<1>5. T \ {x} \in FiniteSubsetsOf(S)
  BY <1>2, FS_RemoveElement DEF FiniteSubsetsOf
<1>6. <<T \ {x}, T>> \in Less
  BY <1>2 DEF StrictSubsetOrdering
<1>7. PICK s : Ordering(R, T \ {x}, s)
  BY <1>1, <1>5, <1>6
<1>8. \E new : Ordering(R, T, new)
  BY <1>2, <1>4, <1>7, OrderingGrows
<1> QED BY <1>8

\* The first of a list are a prefix of it.
LEMMA Truncated ==
    ASSUME NEW S, NEW n \in Nat, NEW s \in [1..n -> S], NEW limit \in {1, NoRef}
    PROVE  /\ ToSet(Truncate(s, limit)) \subseteq S
           /\ limit = NoRef => Truncate(s, limit) = s
           /\ IsPrefix(Truncate(s, limit), s)
<1>1. s \in Seq(S) /\ Len(s) = n /\ ToSet(s) \subseteq S
  BY DEF ToSet
<1>2. CASE Truncate(s, limit) = s
  BY <1>1, <1>2 DEF IsPrefix
<1>3. CASE Truncate(s, limit) # s
  <2>1. limit = 1 /\ limit # NoRef /\ n > 1 /\ Truncate(s, limit) = SubSeq(s, 1, 1)
    BY <1>1, <1>3 DEF Truncate
  <2>2. SubSeq(s, 1, 1) \in Seq(S) /\ Len(SubSeq(s, 1, 1)) = 1
    BY <1>1, <2>1
  <2>3. SubSeq(SubSeq(s, 1, 1), 1, 1) = SubSeq(s, 1, 1)
    BY <1>1, <2>1, <2>2
  <2> HIDE DEF Truncate
  <2>4. IsPrefix(SubSeq(s, 1, 1), s)
    BY <1>1, <2>1, <2>2, <2>3 DEF IsPrefix
  <2>5. ToSet(SubSeq(s, 1, 1)) \subseteq S
    BY <1>1, <2>1, <2>2 DEF ToSet
  <2> QED BY <2>1, <2>4, <2>5
<1>4. limit = NoRef => Truncate(s, limit) = s
  BY DEF Truncate
<1> QED BY <1>2, <1>3, <1>4, <1>1 DEF IsPrefix

\* What is in a table, of finitely many manifests, is finite.
LEMMA ImageFinite ==
    ASSUME NEW f, IsFiniteSet(DOMAIN f)
    PROVE  IsFiniteSet({f[x] : x \in DOMAIN f})
<1> DEFINE image == {f[x] : x \in DOMAIN f}
           same == [x \in DOMAIN f |-> f[x]]
<1>1. same \in Surjection(DOMAIN f, image)
  BY DEF Surjection
<1> HIDE DEF image, same
<1>2. IsFiniteSet(image)
  BY <1>1, FS_Surjection
<1> QED BY <1>2 DEF image

\* A library has finitely many packs.
LEMMA PacksFinite ==
    ASSUME NEW l \in DOMAIN Registry
    PROVE  IsFiniteSet(DOMAIN Registry[l].packs)
<1> DEFINE all == PacksOf(Libraries[l])
           ids == [p \in DOMAIN all |-> all[p].id]
<1>1. DOMAIN Registry[l].packs = {all[p].id : p \in DOMAIN all}
  <2>1. Registry[l].packs = Table(all)
    BY RegistryShape DEF Load
  <2> HIDE DEF all
  <2> QED BY <2>1 DEF Table
<1>2. IsFiniteSet(DOMAIN ids)
  BY RegistryShape, LibraryAssumption
<1>3. IsFiniteSet({ids[p] : p \in DOMAIN ids})
  <2> HIDE DEF ids
  <2> QED BY <1>2, ImageFinite
<1>4. {ids[p] : p \in DOMAIN ids} = {all[p].id : p \in DOMAIN all}
  <2> HIDE DEF all
  <2> QED OBVIOUS
<1> QED BY <1>1, <1>3, <1>4

\* Scores are numbers.
LEMMA ScoreIsNumber ==
    ASSUME NEW l \in DOMAIN Registry, NEW id \in DOMAIN Registry[l].packs,
           NEW query \in Queries, NEW view, NEW role, NEW target
    PROVE  RelevanceScore(Registry[l].packs[id], query, view, role, target) \in Int
<1> DEFINE pack == Registry[l].packs[id]
           haystack == UNION {pack.terms[f] : f \in DOMAIN pack.terms}
           fields == MatchedFields(pack, query)
           paths == MatchedPaths(pack, query, view)
<1>1. IsFiniteSet(query) /\ IsFiniteSet(ToSet(pack.resources)) /\ IsFiniteSet(DOMAIN pack.terms)
  BY RegistryShape, LibraryAssumption, ProjectAssumption
<1>2. Cardinality(query \cap haystack) \in Nat
  <2> HIDE DEF haystack
  <2> QED BY <1>1, FS_Intersection, FS_CardinalityType
<1>3. Cardinality(fields) \in Nat
  <2>1. fields \subseteq DOMAIN pack.terms
    BY DEF MatchedFields
  <2> HIDE DEF fields, pack
  <2> QED BY <1>1, <2>1, FS_Subset, FS_CardinalityType
<1>4. Cardinality(paths) \in Nat
  <2> DEFINE hits == {s \in ToSet(pack.resources) : /\ s.kind \in {"instruction", "example"}
                                                  /\ view[s.path].terms \cap query # {}}
             path == [r \in hits |-> r.path]
  <2>1. IsFiniteSet(hits)
    <3>1. hits \subseteq ToSet(pack.resources)
      OBVIOUS
    <3> HIDE DEF hits, pack
    <3> QED BY <1>1, <3>1, FS_Subset
  <2>2. paths = {path[r] : r \in DOMAIN path}
    BY DEF MatchedPaths
  <2>3. DOMAIN path = hits
    OBVIOUS
  <2> HIDE DEF path, hits, paths
  <2> QED BY <2>1, <2>2, <2>3, ImageFinite, FS_CardinalityType
<1> DEFINE a == Cardinality(query \cap haystack)
           b == Cardinality(paths)
           c == Cardinality(fields)
<1>5. a \in Nat /\ b \in Nat /\ c \in Nat
  BY <1>2, <1>3, <1>4
<1>6. RelevanceScore(pack, query, view, role, target)
        = 18 * a + 18 * b + 4 * c
          + (IF pack.roles = {} \/ role.id \in pack.roles THEN 15 ELSE 0)
          + (IF pack.targets = {} \/ target.id \in pack.targets THEN 10 ELSE 0)
          + (IF IsCandidate(pack) THEN 0 ELSE 10)
  BY DEF RelevanceScore
<1> HIDE DEF a, b, c, pack
<1>7. RelevanceScore(pack, query, view, role, target) \in Int
  BY <1>5, <1>6
<1> QED BY <1>7 DEF pack

\* A skill's score is a number.
LEMMA RouteScoreIsNumber ==
    ASSUME NEW card, NEW query \in Queries
    PROVE  RouteScore(card, query) \in Int
<1> DEFINE a == Cardinality(card.aliases \cap query)
           b == Cardinality(card.positive \cap query)
           c == Cardinality(card.negative \cap query)
<1>1. a \in Nat /\ b \in Nat /\ c \in Nat
  BY ProjectAssumption, FS_Intersection, FS_CardinalityType
<1> HIDE DEF a, b, c
<1>2. RouteScore(card, query) = (IF card.name \in query THEN 12 ELSE 0) + 10 * a + 6 * b - 20 * c
  BY DEF RouteScore, a, b, c
<1> QED BY <1>1, <1>2

-----------------------------------------------------------------------------
(***************************************************************************)
(* Searching and routing.                                                  *)
(***************************************************************************)

\* Search offers packs that are not withheld.
LEMMA SearchOffers ==
    ASSUME NEW l \in DOMAIN Registry, NEW query \in Queries, NEW view, NEW limit \in {1, NoRef},
           NEW id \in ToSet(Search(Registry[l], cfg, NoRef, query, {}, view, limit).matches)
    PROVE  /\ id \in DOMAIN Registry[l].packs
           /\ Withheld(Registry[l], cfg, NoRef, RefTo(Registry[l].packs[id])) = <<>>
<1> DEFINE reg == Registry[l]
           role == reg.roles[cfg.role.id]
           target == RefTo(reg.targets[SelectedTarget(cfg, NoRef).id])
           looked == {x \in DOMAIN reg.packs : {} = {} \/ RefTo(reg.packs[x]) \in {}}
           hidden == {x \in looked : SearchHides(reg, cfg, NoRef, x)}
           Score(x) == RelevanceScore(reg.packs[x], query, view, role, target)
           found == {x \in looked \ hidden : Score(x) > 0}
           Better(a, b) == Score(a) > Score(b)
           s == InOrder(found, Better)
           R == {p \in found \X found : Score(p[1]) > Score(p[2])}
<1>1. Search(reg, cfg, NoRef, query, {}, view, limit).matches = Truncate(s, limit)
  BY DEF Search
<1>2. \A x \in found : x \in DOMAIN reg.packs /\ Score(x) \in Int
  BY ScoreIsNumber
<1>3. \A x \in found : Withheld(reg, cfg, NoRef, RefTo(reg.packs[x])) = <<>>
  BY DEF SearchHides
<1>4. s = CHOOSE x \in [1..Cardinality(found) -> found] :
             IsInjective(x) /\ \A i, j \in DOMAIN x : i < j => ~(Score(x[j]) > Score(x[i]))
  BY DEF InOrder
<1>5. IsFiniteSet(found)
  <2>1. found \subseteq DOMAIN reg.packs
    BY <1>2
  <2> HIDE DEF found
  <2> QED BY <2>1, PacksFinite, FS_Subset
<1> HIDE DEF found, Score, s
<1>6. StrictOrder(R, found)
  BY <1>2 DEF StrictOrder
<1>7. PICK o : Ordering(R, found, o)
  BY <1>5, <1>6, OrderingExists
<1>8. /\ o \in [1..Cardinality(found) -> found]
      /\ IsInjective(o) /\ \A i, j \in DOMAIN o : i < j => ~(Score(o[j]) > Score(o[i]))
  BY <1>7 DEF Ordering
<1>9. s \in [1..Cardinality(found) -> found]
  BY <1>4, <1>8
<1>10. Cardinality(found) \in Nat
  BY <1>5, FS_CardinalityType
<1>11. id \in found
  BY <1>1, <1>9, <1>10, Truncated
<1> QED BY <1>2, <1>3, <1>11

\* A pack that is not withheld is activated when the configuration names it.
LEMMA NamedIsActivated ==
    ASSUME PipeInv, NEW l \in DOMAIN Registry, NEW id \in DOMAIN Registry[l].packs, NEW surfacesOf,
           Withheld(Registry[l], cfg, NoRef, RefTo(Registry[l].packs[id])) = <<>>
    PROVE  Resolve(Registry[l], [cfg EXCEPT !.packs = <<Ref(id, AnyVersion)>>], NoRef,
                   surfacesOf).activated # <<>>
<1> DEFINE reg == Registry[l]
           ref == Ref(id, AnyVersion)
           named == [cfg EXCEPT !.packs = <<ref>>]
           g == Resolve(reg, named, NoRef, surfacesOf)
<1>1. DOMAIN cfg = {"role", "policy", "packs", "targets", "mode", "auto"}
  BY ProjectAssumption DEF PipeInv
<1>2. /\ named.packs = <<ref>> /\ named.role = cfg.role /\ named.policy = cfg.policy
      /\ named.targets = cfg.targets /\ named.mode = cfg.mode
  BY <1>1
<1>3. ref.id = id /\ Known(reg.packs, ref)
  BY DEF Ref, Known, RefMatches
<1>4. /\ RefTo(reg.packs[id]).id = id
      /\ Known(reg.packs, RefTo(reg.packs[id]))
  BY RegistryShape DEF RefTo, Ref, Known, RefMatches
<1> HIDE DEF named, ref, reg
<1>5. Withheld(reg, named, NoRef, ref) = Withheld(reg, cfg, NoRef, RefTo(reg.packs[id]))
  BY <1>2, <1>3, <1>4 DEF Withheld, SelectedTarget, EffectiveMode
<1>6. Requested(reg, named) = <<ref>>
  BY <1>2 DEF Requested
<1>7. 1 \in DOMAIN g.activated
  <2>1. Withheld(reg, named, NoRef, ref) = <<>>
    BY <1>5 DEF reg
  <2> HIDE DEF Withheld
  <2>2. 1 \in {i \in DOMAIN <<ref>> : Withheld(reg, named, NoRef, <<ref>>[i]) = <<>>}
    BY <2>1
  <2> QED BY <1>6, <2>2 DEF Resolve
<1>8. g.activated # <<>>
  <2> HIDE DEF g
  <2> QED BY <1>7
<1> QED BY <1>8 DEF named, ref, reg

\* A skill that may be routed to.
LEMMA CandidateShape ==
    ASSUME NEW l \in DOMAIN Registry, NEW view, NEW query \in Queries, NEW target,
           NEW x \in RouteCandidates(Registry[l], view, query, target)
    PROVE  x.compatible \in BOOLEAN /\ x.score \in Int
<1> DEFINE packs == Registry[l].packs
           Skills(pack) == {r \in ToSet(pack.resources) :
                              r.file = "SKILL.md" /\ RouteScore(view[r.path].card, query) > 0}
           Declared(pack, r) == IF view[r.path].card.targets = {} THEN pack.targets
                                ELSE view[r.path].card.targets
           Taken(pack, r) == \/ target = NoRef
                             \/ Declared(pack, r) = {}
                             \/ target \in Declared(pack, r)
           Candidate(pack, r) ==
             [pack |-> pack.id, path |-> r.path, score |-> RouteScore(view[r.path].card, query),
              compatible |-> Taken(pack, r)]
           Of(id) == {Candidate(packs[id], r) : r \in Skills(packs[id])}
<1>1. PICK id \in DOMAIN packs : x \in Of(id)
  <2>1. RouteCandidates(Registry[l], view, query, target) = UNION {Of(id) : id \in DOMAIN packs}
    BY DEF RouteCandidates
  <2> HIDE DEF Of, packs
  <2> QED BY <2>1
<1>2. PICK r \in Skills(packs[id]) : x = Candidate(packs[id], r)
  <2> HIDE DEF Skills, Candidate, packs
  <2> QED BY <1>1
<1>3. Taken(packs[id], r) \in BOOLEAN
  OBVIOUS
<1> HIDE DEF Taken
<1>4. x.score = RouteScore(view[r.path].card, query) /\ x.compatible \in BOOLEAN
  BY <1>2, <1>3
<1> QED BY <1>4, RouteScoreIsNumber

\* Finitely many skills may be routed to.
LEMMA CandidatesFinite ==
    ASSUME NEW l \in DOMAIN Registry, NEW view, NEW query \in Queries, NEW target
    PROVE  IsFiniteSet(RouteCandidates(Registry[l], view, query, target))
<1> DEFINE reg == Registry[l]
           Skills(pack) == {r \in ToSet(pack.resources) :
                              r.file = "SKILL.md" /\ RouteScore(view[r.path].card, query) > 0}
           Declared(pack, r) == IF view[r.path].card.targets = {} THEN pack.targets
                                ELSE view[r.path].card.targets
           Candidate(pack, r) ==
             [pack |-> pack.id, path |-> r.path, score |-> RouteScore(view[r.path].card, query),
              compatible |-> \/ target = NoRef
                             \/ Declared(pack, r) = {}
                             \/ target \in Declared(pack, r)]
           Of(id) == {Candidate(reg.packs[id], r) : r \in Skills(reg.packs[id])}
           parts == [id \in DOMAIN reg.packs |-> Of(id)]
<1>1. RouteCandidates(reg, view, query, target) = UNION {Of(id) : id \in DOMAIN reg.packs}
  BY DEF RouteCandidates
<1>2. ASSUME NEW id \in DOMAIN reg.packs PROVE IsFiniteSet(Of(id))
  <2> DEFINE pack == reg.packs[id]
             skills == Skills(pack)
             each == [r \in skills |-> Candidate(pack, r)]
  <2>1. IsFiniteSet(skills)
    <3>1. IsFiniteSet(ToSet(pack.resources)) /\ skills \subseteq ToSet(pack.resources)
      BY RegistryShape, LibraryAssumption
    <3> HIDE DEF skills, pack
    <3> QED BY <3>1, FS_Subset
  <2>2. Of(id) = {each[r] : r \in DOMAIN each}
    <3> HIDE DEF Candidate, Skills
    <3> QED OBVIOUS
  <2>3. DOMAIN each = skills
    OBVIOUS
  <2> HIDE DEF each, skills, Of
  <2> QED BY <2>1, <2>2, <2>3, ImageFinite
<1> HIDE DEF Of
<1>3. DOMAIN parts = DOMAIN reg.packs /\ \A id \in DOMAIN reg.packs : parts[id] = Of(id)
  OBVIOUS
<1>4. IsFiniteSet(DOMAIN parts)
  BY <1>3, PacksFinite
<1> HIDE DEF parts
<1>5. IsFiniteSet({parts[id] : id \in DOMAIN parts})
  BY <1>4, ImageFinite
<1>6. {parts[id] : id \in DOMAIN parts} = {Of(id) : id \in DOMAIN reg.packs}
  BY <1>3
<1>7. IsFiniteSet(UNION {Of(id) : id \in DOMAIN reg.packs})
  BY <1>2, <1>5, <1>6, FS_UNION
<1> QED BY <1>1, <1>7

\* Route puts the skills that a target takes first, and says the same however
\* few are asked for.
LEMMA RouteOrder ==
    ASSUME NEW l \in DOMAIN Registry, NEW view, NEW query \in Queries, NEW target
    PROVE  LET way == RouteSkills(Registry[l], view, query, target, NoRef) IN
           /\ \A i, j \in DOMAIN way : i < j => way[i].compatible \/ ~way[j].compatible
           /\ IsPrefix(RouteSkills(Registry[l], view, query, target, 1), way)
<1> DEFINE S == RouteCandidates(Registry[l], view, query, target)
           Before(a, b) == \/ a.compatible /\ ~b.compatible
                           \/ a.compatible = b.compatible /\ a.score > b.score
           s == InOrder(S, Before)
           R == {p \in S \X S : Before(p[1], p[2])}
<1>1. \A limit : RouteSkills(Registry[l], view, query, target, limit) = Truncate(s, limit)
  BY DEF RouteSkills
<1>2. s = CHOOSE x \in [1..Cardinality(S) -> S] :
             IsInjective(x) /\ \A i, j \in DOMAIN x : i < j => ~Before(x[j], x[i])
  BY DEF InOrder
<1>3. IsFiniteSet(S) /\ Cardinality(S) \in Nat
  BY CandidatesFinite, FS_CardinalityType
<1>4. \A x \in S : x.compatible \in BOOLEAN /\ x.score \in Int
  BY CandidateShape
<1> HIDE DEF S, s
<1>5. StrictOrder(R, S)
  <2>1. \A a \in S : ~Before(a, a)
    BY <1>4
  <2>2. \A a, b, c \in S : Before(a, b) /\ Before(b, c) => Before(a, c)
    BY <1>4
  <2> HIDE DEF Before
  <2> QED BY <2>1, <2>2 DEF StrictOrder
<1>6. PICK o : Ordering(R, S, o)
  BY <1>3, <1>5, OrderingExists
<1>7. /\ o \in [1..Cardinality(S) -> S] /\ IsInjective(o)
      /\ \A i, j \in DOMAIN o : i < j => ~Before(o[j], o[i])
  <2> HIDE DEF Before
  <2> QED BY <1>6 DEF Ordering
<1>8. /\ s \in [1..Cardinality(S) -> S]
      /\ \A i, j \in DOMAIN s : i < j => ~Before(s[j], s[i])
  <2> HIDE DEF Before
  <2> QED BY <1>2, <1>7
<1>9. Truncate(s, NoRef) = s /\ IsPrefix(Truncate(s, 1), s)
  BY <1>3, <1>8, Truncated
<1>10. \A i, j \in DOMAIN s : i < j => s[i].compatible \/ ~s[j].compatible
  BY <1>8
<1> QED BY <1>1, <1>9, <1>10

\* What search offers can be used, and route prefers what the target takes.
THEOREM OffersHold == Spec => []OffersAreUsable
<1>1. PipeInv => OffersAreUsable
  <2> SUFFICES ASSUME PipeInv, Running, NEW view \in Views, NEW q \in Queries
               PROVE  /\ \A limit \in {1, NoRef} : \A id \in ToSet(Found(q, limit, view).matches) :
                            Resolve(Reg, [cfg EXCEPT !.packs = <<Ref(id, AnyVersion)>>], NoRef,
                                    [p \in DOMAIN Reg.packs |-> {}]).activated # <<>>
                      /\ \A t : LET way == Routed(q, t, NoRef, view) IN
                            /\ \A i, j \in DOMAIN way : i < j => way[i].compatible \/ ~way[j].compatible
                            /\ IsPrefix(Routed(q, t, 1, view), way)
    BY DEF OffersAreUsable
  <2>1. proc.lib \in DOMAIN Registry
    BY DEF PipeInv
  <2>2. ASSUME NEW limit \in {1, NoRef}, NEW id \in ToSet(Found(q, limit, view).matches)
        PROVE  Resolve(Reg, [cfg EXCEPT !.packs = <<Ref(id, AnyVersion)>>], NoRef,
                       [p \in DOMAIN Reg.packs |-> {}]).activated # <<>>
    <3>1. id \in DOMAIN Reg.packs /\ Withheld(Reg, cfg, NoRef, RefTo(Reg.packs[id])) = <<>>
      BY <2>1, <2>2, SearchOffers DEF Found, Reg
    <3> QED BY <2>1, <3>1, NamedIsActivated DEF Reg
  <2>3. ASSUME NEW t
        PROVE  LET way == Routed(q, t, NoRef, view) IN
                /\ \A i, j \in DOMAIN way : i < j => way[i].compatible \/ ~way[j].compatible
                /\ IsPrefix(Routed(q, t, 1, view), way)
    BY <2>1, RouteOrder DEF Routed, Reg
  <2> QED BY <2>2, <2>3
<1> QED BY <1>1, PipeInvHolds, PTL
==============================================================================
