---------------------- MODULE IgnorePublicationProofs ----------------------
(***************************************************************************)
(* What holds of `ignore install`, `ignore fix` and the evaluation before  *)
(* a publication, for any commands, start files, failures and number of    *)
(* edits by the user:                                                      *)
(*   1. no text of hers is lost (NoTextIsLost, by KeptInv): a text can     *)
(*      only be displaced by the publication of its file, which happens    *)
(*      once, while every text is still live, and by its rollback, at most *)
(*      once, while the second place for a displaced file is still free;   *)
(*   2. success means protection (SuccessIsProtected, by SafeInv): what    *)
(*      the evaluation has captured was true together at one moment,       *)
(*      because the files and the stamp of the index are read again;       *)
(*   3. what a command does that she does not disturb (QuietInv): the path *)
(*      stays hidden, a failure puts back what it replaced, and success    *)
(*      leaves nothing to fix.                                             *)
(***************************************************************************)
EXTENDS IgnorePublication, SequenceTheorems, TLAPS

Before == {"scope", "prepare", "classify", "capture", "enumerate", "read exclude",
           "read gitignore", "probe", "reread exclude", "reread gitignore", "reprobe",
           "revalidate", "judge"}
Writing == {"check", "swap", "link", "displaced", "sync"}
Undoing == {"undo", "relink"}

\* Every text of the user's is in one of three places.
Kept(f) == /\ authored[f] \subseteq {live[f], copies[f].backup, copies[f].second}
           /\ NoFile \notin authored[f]
\* The file has not been published: all texts are live, an editor holds it there.
Untouched(f) == authored[f] \subseteq {live[f]} /\ handle[f] \in {"live", "gone"}
\* The second place is free.
Movable(f) == authored[f] \subseteq {live[f], copies[f].backup} /\ handle[f] # "second"

KeptTypes ==
    /\ run \in Runs
    /\ live = [f \in File |-> live[f]]
    /\ copies = [f \in File |-> [s \in Slots |-> copies[f][s]]]
    /\ handle = [f \in File |-> handle[f]]
    /\ authored = [f \in File |-> authored[f]]
    /\ edits \in Nat
    /\ round \in {"plan", "after"}
    /\ pc \in Before \union Writing \union Undoing \union {"staging"} \union Ended
    /\ written \in Seq(File)
    /\ \A i, j \in DOMAIN written : written[i] = written[j] => i = j

\* Files from the one the publication is at have not been published.
Ahead ==
    pc \in Writing =>
        /\ at \in DOMAIN Order
        /\ \A j \in DOMAIN Order : at < j => Untouched(Order[j])
        /\ pc \in {"check", "swap"} => Untouched(Current)
        /\ \A j \in DOMAIN Order : at <= j =>
              \A k \in DOMAIN written : written[k] # Order[j]

\* Files that the rollback has not come to have not been moved aside.
Behind ==
    /\ pc \notin Undoing \union Ended => \A f \in File : Movable(f)
    /\ pc \in Undoing =>
         /\ at \in DOMAIN written
         /\ \A k \in DOMAIN written :
               k < at \/ (k = at /\ pc = "undo") => Movable(written[k])

KeptInv ==
    /\ KeptTypes
    /\ \A f \in File : Kept(f)
    /\ pc \in Before /\ round = "plan" => written = <<>> /\ \A f \in File : Untouched(f)
    /\ Ahead
    /\ Behind

-----------------------------------------------------------------------------
\* A scope has one or two files, each once.
LEMMA OrderIsSimple ==
    ASSUME run \in Runs
    PROVE  /\ Order \in Seq(File) /\ 1 \in DOMAIN Order
           /\ \A i, j \in DOMAIN Order : Order[i] = Order[j] => i = j
<1>1. run.scope \in {"local", "repo", "both"}
  BY PublicationAssumption DEF RunRecords
<1>2. CASE run.scope = "local"
  <2>1. Order = <<"exclude">>
    BY <1>2 DEF Order, ScopeFiles
  <2> QED BY <2>1 DEF File
<1>3. CASE run.scope = "repo"
  <2>1. Order = <<"gitignore">>
    BY <1>3 DEF Order, ScopeFiles
  <2> QED BY <2>1 DEF File
<1>4. CASE run.scope = "both"
  <2> DEFINE a == <<"exclude">>  b == <<"gitignore">>
  <2>1. Order = a \o b
    BY <1>4 DEF Order, ScopeFiles
  <2>2. /\ a \in Seq(File) /\ Len(a) = 1 /\ a[1] = "exclude"
        /\ b \in Seq(File) /\ Len(b) = 1 /\ b[1] = "gitignore"
    BY DEF File
  <2> HIDE DEF a, b
  <2>3. /\ Order \in Seq(File) /\ DOMAIN Order = 1..2
        /\ Order[1] = "exclude" /\ Order[2] = "gitignore"
    BY <2>1, <2>2, ConcatProperties
  <2> QED BY <2>3
<1> QED BY <1>1, <1>2, <1>3, <1>4

LEMMA InitKept == Init => KeptInv
<1> SUFFICES ASSUME Init PROVE KeptInv
  OBVIOUS
<1> USE DEF Init
<1>1. live = [f \in File |-> live[f]]
  BY PublicationAssumption
<1>2. \A f \in File : Kept(f) /\ Untouched(f) /\ Movable(f)
  BY DEF Kept, Untouched, Movable
<1>3. KeptTypes
  BY <1>1 DEF KeptTypes, Before, NoCopies
<1>4. pc \notin Writing \union Undoing
  BY DEF Writing, Undoing
<1> QED BY <1>2, <1>3, <1>4 DEF KeptInv, Ahead, Behind

\* What a step does that displaces no text.
Looks ==
    /\ UNCHANGED <<live, handle, authored, run>>
    /\ edits' \in Nat
    /\ copies' = [f \in File |-> [s \in Slots |-> copies'[f][s]]]
    /\ \A f \in File : /\ copies'[f].backup = copies[f].backup
                       /\ copies'[f].second = copies[f].second

LEMMA DiskLooks == KeptTypes /\ UNCHANGED <<disk, user, run>> => Looks
BY DEF KeptTypes, Looks, disk, user

LEMMA LooksKeep ==
    ASSUME Looks
    PROVE  /\ Order' = Order
           /\ \A f \in File : /\ Kept(f)' <=> Kept(f)
                              /\ Untouched(f)' <=> Untouched(f)
                              /\ Movable(f)' <=> Movable(f)
BY DEF Looks, Order, Kept, Untouched, Movable

\* The steps of the plan and of the evaluations, and a death.
LEMMA LooksInside ==
    ASSUME KeptInv, Looks, UNCHANGED <<round, written>>,
           \/ pc \in Before /\ pc' \in Before \union Ended
           \/ pc \notin Ended /\ pc' \in Ended
    PROVE  KeptInv'
<1>1. /\ pc' \notin Writing \union Undoing
      /\ pc' \in Before => pc \in Before
      /\ pc' \notin Ended => pc \notin Undoing \union Ended
  BY DEF KeptInv, KeptTypes, Before, Writing, Undoing, Ended
<1>2. KeptTypes'
  BY DEF KeptInv, KeptTypes, Looks
<1> QED BY <1>1, <1>2, LooksKeep DEF KeptInv, Ahead, Behind

\* A step that fails, when every file may still be moved aside.
Fallen ==
    /\ UNCHANGED <<round, written>>
    /\ \/ pc' \in {"failed", "refused"}
       \/ pc' = "undo" /\ written # <<>> /\ at' = Len(written)

LEMMA FallenKeeps ==
    ASSUME KeptTypes', \A f \in File : Kept(f)' /\ Movable(f)', written \in Seq(File), Fallen
    PROVE  KeptInv'
<1>1. pc' \notin Before \union Writing /\ (pc' \in Undoing => pc' = "undo")
  BY DEF Fallen, Before, Writing, Undoing
<1>2. pc' = "undo" => at' \in DOMAIN written'
  BY DEF Fallen
<1>3. \A k \in DOMAIN written' : Movable(written[k])'
  BY DEF Fallen
<1>4. \A k \in DOMAIN written' : written'[k] = written[k]
  BY DEF Fallen
<1>5. Behind'
  BY <1>1, <1>2, <1>3, <1>4 DEF Behind, Movable
<1> QED BY <1>1, <1>5 DEF KeptInv, Ahead

LEMMA LooksFall ==
    ASSUME KeptInv, pc \notin Undoing \union Ended, Looks, Fallen
    PROVE  KeptInv'
<1>1. KeptTypes'
  BY DEF KeptInv, KeptTypes, Looks, Fallen, Undoing, Ended
<1> QED BY <1>1, LooksKeep, FallenKeeps DEF KeptInv, Behind, KeptTypes

LEMMA FailIsFallen == Fail /\ written \in Seq(File) => Fallen
BY DEF Fail, Goto, Fallen

-----------------------------------------------------------------------------
(* The plan and the evaluations.                                           *)

LEMMA PlanKeeps ==
    ASSUME KeptInv, CheckScope \/ PrepareWrite \/ Classify
    PROVE  KeptInv'
<1>1. Looks
  BY DiskLooks DEF KeptInv, CheckScope, PrepareWrite, Classify, plan
<1>2. /\ UNCHANGED <<round, written>>
      /\ pc \in Before /\ pc' \in Before \union Ended
  BY DEF CheckScope, PrepareWrite, Classify, Refuse, Goto, Before, Ended
<1> QED BY <1>1, <1>2, LooksInside

LEMMA EvaluationKeeps == ASSUME KeptInv, Evaluation PROVE KeptInv'
<1> USE DEF Evaluate, Proceed, Goto
<1>1. Looks
  BY DiskLooks DEF KeptInv, plan, Evaluation, CaptureIndex, Enumerate, Probe, ProbeAgain,
     Revalidate, Judge, ReadSource, RereadSource
<1>2. /\ pc \in Before /\ pc \notin Undoing \union Ended
      /\ \/ Reject
         \/ UNCHANGED <<round, written>> /\ pc' \in Before \union Ended
         \/ pc = "judge" /\ round = "plan" /\ UNCHANGED <<round, written>>
              /\ pc' = "check" /\ at' = 1
  BY DEF Evaluation, CaptureIndex, Enumerate, Probe, ProbeAgain, Revalidate, Judge,
     ReadSource, RereadSource, Before, Undoing, Ended
<1>3. CASE Reject
  <2>1. Fallen
    BY <1>3 DEF Reject, Fallen
  <2> QED BY <1>1, <1>2, <2>1, LooksFall
<1>4. CASE UNCHANGED <<round, written>> /\ pc' \in Before \union Ended
  BY <1>1, <1>2, <1>4, LooksInside
<1>5. CASE pc = "judge" /\ round = "plan" /\ UNCHANGED <<round, written>>
             /\ pc' = "check" /\ at' = 1
  <2>1. written = <<>> /\ \A f \in File : Kept(f)' /\ Untouched(f)' /\ Movable(f)'
    BY <1>1, <1>2, <1>5, LooksKeep DEF KeptInv, Behind
  <2>2. KeptTypes' /\ pc' \notin Before \union Undoing \union Ended
    BY <1>1, <1>5 DEF KeptInv, KeptTypes, Looks, Writing, Before, Undoing, Ended
  <2>3. /\ Order' = Order /\ at' \in DOMAIN Order'
        /\ \A j \in DOMAIN Order : Order[j] \in File
    BY <1>1, <1>5, LooksKeep, OrderIsSimple DEF KeptInv, KeptTypes
  <2>4. Ahead'
    <3>1. \A j \in DOMAIN Order : Untouched(Order[j])'
      BY <2>1, <2>3
    <3> QED BY <1>5, <2>1, <2>3, <3>1 DEF Ahead, Untouched, Current
  <2> QED BY <2>1, <2>2, <2>4 DEF KeptInv, Behind
<1> QED BY <1>2, <1>3, <1>4, <1>5

-----------------------------------------------------------------------------
(* The publication.                                                        *)

\* Writing one slot of one file.
Wrote(g, t, v) == copies' = [copies EXCEPT ![g][t] = v]

LEMMA SlotWritten ==
    ASSUME copies = [f \in File |-> [s \in Slots |-> copies[f][s]]],
           NEW g \in File, NEW t \in Slots, NEW v, Wrote(g, t, v)
    PROVE  /\ copies' = [f \in File |-> [s \in Slots |-> copies'[f][s]]]
           /\ \A f \in File : \A s \in Slots :
                copies'[f][s] = IF f = g /\ s = t THEN v ELSE copies[f][s]
<1>1. copies' = [f \in File |-> IF f = g THEN [copies[g] EXCEPT ![t] = v] ELSE copies[f]]
  BY DEF Wrote
<1>2. [copies[g] EXCEPT ![t] = v] = [s \in Slots |-> IF s = t THEN v ELSE copies[g][s]]
  OBVIOUS
<1>3. \A f \in File :
         copies'[f] = [s \in Slots |-> IF f = g /\ s = t THEN v ELSE copies[f][s]]
  BY <1>1, <1>2
<1>4. \A f \in File : copies'[f] = [s \in Slots |-> copies'[f][s]]
  BY <1>3
<1> QED BY <1>1, <1>3, <1>4

LEMMA InPublication ==
    ASSUME KeptInv, pc \in Writing
    PROVE  /\ Order \in Seq(File) /\ at \in DOMAIN Order /\ Current \in File
           /\ \A j \in DOMAIN Order : Order[j] \in File
           /\ \A i, j \in DOMAIN Order : Order[i] = Order[j] => i = j
           /\ written \in Seq(File)
           /\ pc \notin Before \union Undoing \union Ended
           /\ \A f \in File : Kept(f) /\ Movable(f)
<1>1. /\ pc \notin Before \union Undoing \union Ended
      /\ Order \in Seq(File) /\ at \in DOMAIN Order
      /\ \A i, j \in DOMAIN Order : Order[i] = Order[j] => i = j
  BY OrderIsSimple DEF KeptInv, KeptTypes, Ahead, Writing, Before, Undoing, Ended
<1>2. \A j \in DOMAIN Order : Order[j] \in File
  BY <1>1
<1> QED BY <1>1, <1>2 DEF KeptInv, KeptTypes, Behind, Current

\* The next file, if there is one, has not been published.
LEMMA NextKeeps ==
    ASSUME KeptInv, pc \in Writing, Looks, NextFile,
           written' \in {written, Append(written, Current)}
    PROVE  KeptInv'
<1>0. /\ Order \in Seq(File) /\ at \in DOMAIN Order /\ Current \in File
      /\ \A i, j \in DOMAIN Order : Order[i] = Order[j] => i = j
      /\ written \in Seq(File)
      /\ \A f \in File : Kept(f) /\ Movable(f)
  BY InPublication
<1>8. \/ at = Len(Order) /\ pc' = "staging" /\ at' = 1
      \/ at # Len(Order) /\ pc' = "check" /\ at' = at + 1
  BY DEF NextFile, Goto
<1>1. pc' \in {"staging", "check"} /\ Order' = Order /\ UNCHANGED round
  BY <1>8, LooksKeep DEF NextFile
<1>2. \A f \in File : /\ Kept(f)' /\ Movable(f)'
                      /\ Untouched(f)' <=> Untouched(f)
  BY <1>0, LooksKeep
<1>3. /\ written' \in Seq(File)
      /\ \A k \in DOMAIN written' : \/ k \in DOMAIN written /\ written'[k] = written[k]
                                    \/ k = Len(written) + 1 /\ written'[k] = Current
      /\ DOMAIN written' \subseteq 1 .. Len(written) + 1
  <2>1. CASE written' = written
    BY <1>0, <2>1
  <2>2. CASE written' = Append(written, Current)
    BY <1>0, <2>2, AppendProperties
  <2> QED BY <2>1, <2>2
<1>4. \A k \in DOMAIN written : written[k] # Current
  BY <1>0 DEF KeptInv, Ahead, Current
<1>5. \A i, j \in DOMAIN written' : written'[i] = written'[j] => i = j
  BY <1>0, <1>3, <1>4 DEF KeptInv, KeptTypes
<1>6. KeptTypes'
  BY <1>1, <1>3, <1>5 DEF KeptInv, KeptTypes, Looks, Writing
<1>7. Ahead'
  <2>1. CASE at = Len(Order)
    BY <1>8, <2>1 DEF Ahead, Writing
  <2>2. CASE at # Len(Order)
    <3>1. at' = at + 1 /\ at' \in DOMAIN Order /\ at \in Nat
      BY <1>0, <1>8, <2>2
    <3>2. \A j \in DOMAIN Order : at < j => Untouched(Order[j])'
      <4>1. \A j \in DOMAIN Order : Order[j] \in File
        BY <1>0
      <4> QED BY <1>1, <1>2, <4>1 DEF KeptInv, Ahead, Untouched
    <3>3. \A j \in DOMAIN Order : at < j =>
             \A k \in DOMAIN written' : written'[k] # Order[j]
      BY <1>0, <1>3 DEF KeptInv, Ahead, Current
    <3>4. Untouched(Current)'
      BY <1>1, <3>1, <3>2 DEF Untouched, Current
    <3> QED BY <1>0, <1>1, <3>1, <3>2, <3>3, <3>4 DEF Ahead, Current, Untouched
  <2> QED BY <2>1, <2>2
<1> QED BY <1>1, <1>2, <1>6, <1>7 DEF KeptInv, Behind, Before, Undoing, Ended

LEMMA CheckFileKeeps == ASSUME KeptInv, CheckFile PROVE KeptInv'
<1>1. pc = "check" /\ pc \in Writing /\ UNCHANGED <<live, handle, authored, edits, run>>
  BY DEF CheckFile, Writing, StageInRecoveryDir, Publishing, plan, user, disk
<1>2. Looks
  <2>1. CASE UNCHANGED copies
    BY <1>1, <2>1 DEF Looks, KeptInv, KeptTypes
  <2>2. CASE copies' = [copies EXCEPT ![Current].staged = Updated(Current)]
    <3>1. Current \in File
      BY <1>1, InPublication
    <3>2. copies = [f \in File |-> [s \in Slots |-> copies[f][s]]] /\ edits \in Nat
      BY DEF KeptInv, KeptTypes
    <3>3. /\ copies' = [f \in File |-> [s \in Slots |-> copies'[f][s]]]
          /\ \A f \in File : \A s \in Slots : copies'[f][s] =
                IF f = Current /\ s = "staged" THEN Updated(Current) ELSE copies[f][s]
      <4>1. Wrote(Current, "staged", Updated(Current)) /\ "staged" \in Slots
        BY <2>2 DEF Wrote, Slots
      <4> QED BY <3>1, <3>2, <4>1, SlotWritten
    <3> QED BY <1>1, <3>2, <3>3 DEF Looks, Slots
  <2> QED BY <2>1, <2>2 DEF CheckFile, StageInRecoveryDir, disk
<1>3. CASE Fail
  BY <1>1, <1>2, <1>3, FailIsFallen, LooksFall, InPublication
<1>4. CASE NextFile /\ UNCHANGED written
  BY <1>1, <1>2, <1>4, NextKeeps
<1>5. CASE pc' = "swap" /\ UNCHANGED <<round, at, written>>
  <2>1. KeptTypes'
    BY <1>2, <1>5 DEF KeptInv, KeptTypes, Looks, Writing
  <2>2. Order' = Order /\ \A f \in File : Kept(f)' /\ Movable(f)' /\ (Untouched(f)' <=> Untouched(f))
    BY <1>1, <1>2, LooksKeep, InPublication
  <2>3. \A j \in DOMAIN Order : at <= j => Untouched(Order[j])'
    BY <1>1, <2>2, InPublication DEF KeptInv, Ahead, Current
  <2>4. Ahead'
    BY <1>1, <1>5, <2>2, <2>3, InPublication DEF KeptInv, Ahead, Current, Untouched
  <2> QED BY <1>5, <2>1, <2>2, <2>4 DEF KeptInv, Behind, Before, Undoing, Ended
<1> QED BY <1>3, <1>4, <1>5 DEF CheckFile, StageInRecoveryDir, Goto

\* A step that changes one file and its copies.
Elsewhere(f) ==
    /\ UNCHANGED <<authored, edits, run>>
    /\ live' = [g \in File |-> live'[g]]
    /\ handle' = [g \in File |-> handle'[g]]
    /\ copies' = [g \in File |-> [s \in Slots |-> copies'[g][s]]]
    /\ \A g \in File \ {f} : /\ live'[g] = live[g] /\ handle'[g] = handle[g]
                             /\ copies'[g] = copies[g]

LEMMA ElsewhereKeeps ==
    ASSUME NEW f \in File, Elsewhere(f)
    PROVE  /\ Order' = Order
           /\ \A g \in File \ {f} : /\ Kept(g)' <=> Kept(g)
                                    /\ Untouched(g)' <=> Untouched(g)
                                    /\ Movable(g)' <=> Movable(g)
BY DEF Elsewhere, Order, Kept, Untouched, Movable

LEMMA SwapKeeps ==
    ASSUME KeptInv, pc \in {"swap", "link"}, NEW f, f = Current, Elsewhere(f),
           Kept(f)', Movable(f)',
           \/ Fail
           \/ pc' \in {"link", "displaced", "sync"} /\ UNCHANGED <<round, at, written>>
    PROVE  KeptInv'
<1>1. pc \in Writing /\ f \in File
  BY InPublication DEF Writing
<1>2. /\ Order' = Order /\ \A j \in DOMAIN Order : Order[j] \in File
      /\ written \in Seq(File) /\ at \in DOMAIN Order
      /\ \A i, j \in DOMAIN Order : Order[i] = Order[j] => i = j
  BY <1>1, InPublication, ElsewhereKeeps
<1>3. \A g \in File : Kept(g)' /\ Movable(g)'
  BY <1>1, InPublication, ElsewhereKeeps
<1>4. ASSUME Fail PROVE KeptInv'
  <2>1. Fallen
    BY <1>2, <1>4, FailIsFallen
  <2>2. KeptTypes'
    BY <2>1 DEF KeptInv, KeptTypes, Elsewhere, Fallen, Undoing, Ended
  <2> QED BY <1>2, <1>3, <2>1, <2>2, FallenKeeps
<1>5. ASSUME pc' \in {"link", "displaced", "sync"}, UNCHANGED <<round, at, written>>
      PROVE  KeptInv'
  <2>1. KeptTypes'
    BY <1>5 DEF KeptInv, KeptTypes, Elsewhere, Writing
  <2>2. \A j \in DOMAIN Order : at < j => Untouched(Order[j])'
    <3> SUFFICES ASSUME NEW j \in DOMAIN Order, at < j PROVE Untouched(Order[j])'
      OBVIOUS
    <3>1. Order[j] \in File \ {f} /\ Untouched(Order[j])
      BY <1>1, <1>2 DEF KeptInv, Ahead, Current
    <3> QED BY <1>1, <1>2, <3>1, ElsewhereKeeps DEF Untouched
  <2>3. Ahead'
    BY <1>1, <1>2, <1>5, <2>2 DEF KeptInv, Ahead, Untouched
  <2>4. pc' \notin Before \union Undoing \union Ended
    BY <1>5 DEF Before, Undoing, Ended
  <2> QED BY <1>3, <2>1, <2>3, <2>4 DEF KeptInv, Behind
<1> QED BY <1>4, <1>5

LEMMA ExchangeKeeps == ASSUME KeptInv, Exchange PROVE KeptInv'
<1>1. pc = "swap" /\ pc \in Writing /\ UNCHANGED <<authored, edits, run>>
  BY DEF Exchange, Writing, Publishing, plan, user
<1>0. PICK f \in File : f = Current
  BY <1>1, InPublication
<1>2. f \in File /\ Untouched(f) /\ Kept(f) /\ Movable(f)
  BY <1>0, <1>1, InPublication DEF KeptInv, Ahead
<1>3. CASE live[f] = NoFile /\ Fail /\ UNCHANGED disk
  <2>1. Looks
    BY <1>1, <1>3 DEF KeptInv, KeptTypes, Looks, disk
  <2> QED BY <1>1, <1>3, <2>1, FailIsFallen, LooksFall, InPublication
<1>4. CASE /\ live' = [live EXCEPT ![f] = Updated(f)]
           /\ copies' = [copies EXCEPT ![f] = [NoCopies EXCEPT !.backup = live[f]]]
           /\ Moved(f, "live", "backup")
           /\ pc' = "displaced" /\ UNCHANGED <<round, at, written>>
  <2>1. /\ live = [g \in File |-> live[g]]
        /\ handle = [g \in File |-> handle[g]]
        /\ copies = [g \in File |-> [s \in Slots |-> copies[g][s]]]
    BY DEF KeptInv, KeptTypes
  <2>2. [NoCopies EXCEPT !.backup = live[f]] =
            [s \in Slots |-> IF s = "backup" THEN live[f] ELSE NoFile]
    BY DEF NoCopies
  <2>3. copies'[f] = [s \in Slots |-> IF s = "backup" THEN live[f] ELSE NoFile]
    BY <1>2, <1>4, <2>1, <2>2
  <2>4. copies'[f] = [s \in Slots |-> copies'[f][s]] /\ copies'[f].backup = live[f]
    BY <2>3 DEF Slots
  <2>5. handle'[f] \in {"backup", "gone"}
    BY <1>2, <1>4, <2>1 DEF Moved, Untouched
  <2>6. Elsewhere(f)
    BY <1>1, <1>2, <1>4, <2>1, <2>4 DEF Elsewhere, Moved
  <2>7. Kept(f)' /\ Movable(f)'
    BY <1>1, <1>2, <2>4, <2>5 DEF Kept, Movable, Untouched
  <2> QED BY <1>0, <1>1, <1>4, <2>6, <2>7, SwapKeeps
<1> QED BY <1>0, <1>3, <1>4 DEF Exchange, Goto

LEMMA CreateKeeps == ASSUME KeptInv, Create PROVE KeptInv'
<1>1. pc = "swap" /\ pc \in Writing /\ UNCHANGED <<authored, edits, run, handle>>
  BY DEF Create, Writing, Publishing, plan, user
<1>2. PICK f \in File : f = Current
  BY <1>1, InPublication
<1>3. Untouched(f) /\ Kept(f) /\ Movable(f)
  BY <1>1, <1>2, InPublication DEF KeptInv, Ahead
<1>4. /\ live = [g \in File |-> live[g]] /\ handle = [g \in File |-> handle[g]]
      /\ copies = [g \in File |-> [s \in Slots |-> copies[g][s]]]
  BY DEF KeptInv, KeptTypes
<1>5. PICK b, t : copies' = [copies EXCEPT ![f].backup = b, ![f].staged = t]
  <2>1. copies' = [copies EXCEPT ![f].backup = Updated(f), ![f].staged =
                     IF live[f] = NoFile THEN NoFile ELSE copies[f].staged]
    BY <1>2, <1>4 DEF Create, Slots
  <2> QED BY <2>1
<1>6. /\ \A g \in File \ {f} : copies'[g] = copies[g]
      /\ copies'[f] = [[copies[f] EXCEPT !.backup = b] EXCEPT !.staged = t]
      /\ copies' = [g \in File |-> copies'[g]]
  BY <1>4, <1>5
<1>7. [copies[f] EXCEPT !.backup = b] =
         [s \in Slots |-> IF s = "backup" THEN b ELSE copies[f][s]]
  BY <1>4 DEF Slots
<1>8. copies'[f] = [s \in Slots |-> IF s = "staged" THEN t
                                    ELSE IF s = "backup" THEN b ELSE copies[f][s]]
  BY <1>6, <1>7 DEF Slots
<1>9. copies' = [g \in File |-> [s \in Slots |-> copies'[g][s]]]
  <2>1. copies'[f] = [s \in Slots |-> copies'[f][s]]
    BY <1>8
  <2>2. \A g \in File : copies'[g] = [s \in Slots |-> copies'[g][s]]
    BY <1>4, <1>6, <2>1
  <2> QED BY <1>6, <2>2
<1>10. \/ Fail /\ UNCHANGED live
       \/ /\ live[f] = NoFile /\ live' = [live EXCEPT ![f] = Updated(f)]
          /\ pc' = "sync" /\ UNCHANGED <<round, at, written>>
  BY <1>2 DEF Create, Goto
<1>11. Elsewhere(f)
  BY <1>1, <1>4, <1>6, <1>9, <1>10 DEF Elsewhere
<1>12. Kept(f)' /\ Movable(f)'
  BY <1>1, <1>3, <1>10 DEF Kept, Movable, Untouched
<1> QED BY <1>1, <1>2, <1>10, <1>11, <1>12, SwapKeeps

LEMMA CaptureKeeps == ASSUME KeptInv, Capture PROVE KeptInv'
<1>1. pc = "swap" /\ pc \in Writing /\ UNCHANGED <<authored, edits, run>>
  BY DEF Capture, Writing, Publishing, plan, user
<1>2. PICK f \in File : f = Current
  BY <1>1, InPublication
<1>3. Untouched(f) /\ Kept(f) /\ Movable(f)
  BY <1>1, <1>2, InPublication DEF KeptInv, Ahead
<1>4. /\ live = [g \in File |-> live[g]] /\ handle = [g \in File |-> handle[g]]
      /\ copies = [g \in File |-> [s \in Slots |-> copies[g][s]]]
  BY DEF KeptInv, KeptTypes
<1>5. CASE live[f] = NoFile /\ Fail /\ UNCHANGED disk
  <2>1. Looks
    BY <1>1, <1>5 DEF KeptInv, KeptTypes, Looks, disk
  <2> QED BY <1>1, <1>5, <2>1, FailIsFallen, LooksFall, InPublication
<1>6. CASE /\ copies' = [copies EXCEPT ![f].backup = live[f]]
           /\ live' = [live EXCEPT ![f] = NoFile]
           /\ Moved(f, "live", "backup")
           /\ pc' = "link" /\ UNCHANGED <<round, at, written>>
  <2>1. Wrote(f, "backup", live[f]) /\ "backup" \in Slots
    BY <1>6 DEF Wrote, Slots
  <2>2. /\ copies' = [g \in File |-> [s \in Slots |-> copies'[g][s]]]
        /\ \A g \in File : \A s \in Slots :
              copies'[g][s] = IF g = f /\ s = "backup" THEN live[f] ELSE copies[g][s]
    BY <1>4, <2>1, SlotWritten
  <2>3. \A g \in File \ {f} : copies'[g] = copies[g]
    BY <1>4, <1>6
  <2>4. copies'[f].backup = live[f]
    BY <2>1, <2>2
  <2>5. handle'[f] \in {"backup", "gone"}
    BY <1>3, <1>4, <1>6 DEF Moved, Untouched
  <2>6. Elsewhere(f)
    BY <1>1, <1>4, <1>6, <2>2, <2>3 DEF Elsewhere, Moved
  <2>7. Kept(f)' /\ Movable(f)'
    BY <1>1, <1>3, <2>4, <2>5 DEF Kept, Movable, Untouched
  <2> QED BY <1>1, <1>2, <1>6, <2>6, <2>7, SwapKeeps
<1> QED BY <1>2, <1>5, <1>6 DEF Capture, Goto

LEMMA LinkKeeps == ASSUME KeptInv, Link PROVE KeptInv'
<1>1. pc = "link" /\ pc \in Writing /\ UNCHANGED <<authored, edits, run>>
  BY DEF Link, Writing, Publishing, plan, user
<1>2. PICK f \in File : f = Current
  BY <1>1, InPublication
<1>3. Kept(f) /\ Movable(f)
  BY <1>1, <1>2, InPublication
<1>4. /\ live = [g \in File |-> live[g]] /\ handle = [g \in File |-> handle[g]]
      /\ copies = [g \in File |-> [s \in Slots |-> copies[g][s]]]
  BY DEF KeptInv, KeptTypes
<1>5. CASE live[f] # NoFile /\ Fail /\ UNCHANGED disk
  <2>1. Looks
    BY <1>1, <1>5 DEF KeptInv, KeptTypes, Looks, disk
  <2> QED BY <1>1, <1>5, <2>1, FailIsFallen, LooksFall, InPublication
<1>6. CASE /\ live[f] = NoFile
           /\ live' = [live EXCEPT ![f] = Updated(f)]
           /\ copies' = [copies EXCEPT ![f].staged = NoFile]
           /\ pc' = "displaced" /\ UNCHANGED <<handle, round, at, written>>
  <2>1. Wrote(f, "staged", NoFile) /\ Slots = {"staged", "backup", "second"}
    BY <1>6 DEF Wrote, Slots
  <2>2. /\ copies' = [g \in File |-> [s \in Slots |-> copies'[g][s]]]
        /\ \A g \in File : \A s \in Slots :
              copies'[g][s] = IF g = f /\ s = "staged" THEN NoFile ELSE copies[g][s]
    BY <1>4, <2>1, SlotWritten
  <2>3. \A g \in File \ {f} : copies'[g] = copies[g]
    BY <1>4, <1>6
  <2>4. copies'[f].backup = copies[f].backup /\ copies'[f].second = copies[f].second
    BY <2>1, <2>2
  <2>5. Elsewhere(f)
    BY <1>1, <1>4, <1>6, <2>2, <2>3 DEF Elsewhere
  <2>6. Kept(f)' /\ Movable(f)'
    BY <1>1, <1>3, <1>6, <2>4 DEF Kept, Movable
  <2> QED BY <1>1, <1>2, <1>6, <2>5, <2>6, SwapKeeps
<1> QED BY <1>2, <1>5, <1>6 DEF Link, Goto

\* The steps of a publication that displace nothing.
LEMMA EndOfPublicationKeeps ==
    ASSUME KeptInv, CompareDisplaced \/ SyncDirectories \/ CheckStaging
    PROVE  KeptInv'
<1>1. Looks
  BY DiskLooks DEF KeptInv, CompareDisplaced, SyncDirectories, CheckStaging, Publishing, plan
<1>2. pc \notin Before \union Undoing \union Ended /\ written \in Seq(File)
  BY DEF KeptInv, KeptTypes, CompareDisplaced, SyncDirectories, CheckStaging, Before, Undoing, Ended
<1>3. CASE Fail
  BY <1>1, <1>2, <1>3, FailIsFallen, LooksFall
<1>4. CASE /\ pc = "displaced" /\ pc' = "sync" /\ UNCHANGED <<round, at, written>>
  <2>1. KeptTypes'
    BY <1>1, <1>4 DEF KeptInv, KeptTypes, Looks, Writing
  <2>2. pc \in Writing /\ pc' \notin Before \union Undoing \union Ended
    BY <1>4 DEF Writing, Before, Undoing, Ended
  <2>3. Ahead'
    <3>1. Order' = Order /\ \A j \in DOMAIN Order : Order[j] \in File
      BY <1>1, <2>2, LooksKeep, InPublication
    <3>2. \A j \in DOMAIN Order : at < j => Untouched(Order[j])'
      BY <1>1, <2>2, <3>1, LooksKeep DEF KeptInv, Ahead, Untouched
    <3> QED BY <1>4, <2>2, <3>1, <3>2 DEF KeptInv, Ahead, Untouched
  <2> QED BY <1>1, <1>2, <2>1, <2>2, <2>3, LooksKeep DEF KeptInv, Behind
<1>5. CASE /\ pc = "sync" /\ NextFile /\ written' = Append(written, Current)
  BY <1>1, <1>5, NextKeeps DEF Writing
<1>6. CASE /\ round' = "after" /\ pc' = "classify" /\ UNCHANGED written
  <2>1. KeptTypes'
    BY <1>1, <1>6 DEF KeptInv, KeptTypes, Looks, Before
  <2>2. pc' \notin Writing \union Undoing
    BY <1>6 DEF Writing, Undoing
  <2> QED BY <1>1, <1>2, <1>6, <2>1, <2>2, LooksKeep DEF KeptInv, Ahead, Behind
<1> QED BY <1>3, <1>4, <1>5, <1>6 DEF CompareDisplaced, SyncDirectories, CheckStaging, Goto

-----------------------------------------------------------------------------
(* The rollback.                                                           *)

LEMMA RollbackKeeps == ASSUME KeptInv, Rollback \/ Relink PROVE KeptInv'
<1>1. pc \in Undoing /\ UNCHANGED <<authored, edits, run, round, written>>
  BY DEF Rollback, Relink, Undone, Undoing, Publishing, plan, user
<1>2. at \in DOMAIN written /\ written \in Seq(File) /\ at \in Nat
  BY <1>1 DEF KeptInv, KeptTypes, Behind
<1>3. PICK f \in File : f = written[at]
  BY <1>2
<1>4. Kept(f) /\ (pc = "undo" => Movable(f))
  BY <1>1, <1>2, <1>3 DEF KeptInv, Behind
<1>5. /\ live = [g \in File |-> live[g]] /\ handle = [g \in File |-> handle[g]]
      /\ copies = [g \in File |-> [s \in Slots |-> copies[g][s]]]
      /\ Slots = {"staged", "backup", "second"}
  BY DEF KeptInv, KeptTypes, Slots
\* Whatever it does to this file, the ones before it in the list are others.
<1>6. ASSUME Elsewhere(f), Kept(f)',
             Undone \/ (pc' = "relink" /\ UNCHANGED at)
      PROVE  KeptInv'
  <2>1. pc' \in {"failed", "undo", "relink"}
    BY <1>6 DEF Undone, Goto
  <2>2. KeptTypes'
    BY <1>1, <1>6, <2>1 DEF KeptInv, KeptTypes, Elsewhere, Undoing, Ended
  <2>3. \A g \in File : Kept(g)'
    BY <1>6, ElsewhereKeeps DEF KeptInv
  <2>4. \A k \in DOMAIN written : k < at => written[k] \in File \ {f} /\ Movable(written[k])
    BY <1>1, <1>2, <1>3 DEF KeptInv, KeptTypes, Behind
  <2>5. \A k \in DOMAIN written : k < at => Movable(written[k])'
    BY <1>1, <1>6, <2>4, ElsewhereKeeps DEF Movable
  <2>6. CASE pc' = "failed"
    BY <2>2, <2>3, <2>6 DEF KeptInv, Ahead, Behind, Before, Writing, Undoing, Ended
  <2>7. CASE pc' = "undo"
    <3>1. at' = at - 1 /\ at # 1
      BY <1>1, <1>6, <2>7 DEF Undone, Goto
    <3>2. /\ at' \in DOMAIN written
          /\ \A k \in DOMAIN written : k <= at' => k < at
      BY <1>2, <3>1
    <3>3. \A k \in DOMAIN written : k < at' \/ k = at' => Movable(written[k])'
      BY <1>2, <2>5, <3>2
    <3>4. Behind'
      BY <1>1, <2>7, <3>2, <3>3 DEF Behind, Movable, Undoing
    <3> QED BY <2>2, <2>3, <2>7, <3>4 DEF KeptInv, Ahead, Before, Writing
  <2>8. CASE pc' = "relink"
    <3>1. UNCHANGED at
      BY <1>6, <2>8 DEF Undone, Goto
    <3>2. Behind'
      BY <1>1, <1>2, <2>5, <2>8, <3>1 DEF Behind, Movable, Undoing
    <3> QED BY <2>2, <2>3, <2>8, <3>2 DEF KeptInv, Ahead, Before, Writing
  <2> QED BY <2>1, <2>6, <2>7, <2>8
<1>7. CASE UNCHANGED disk /\ Undone
  <2>1. Elsewhere(f) /\ (Kept(f)' <=> Kept(f))
    BY <1>1, <1>5, <1>7 DEF Elsewhere, Kept, disk
  <2> QED BY <1>4, <1>6, <1>7, <2>1
<1>8. CASE /\ pc = "undo" /\ Undone
           /\ live' = [live EXCEPT ![f] = copies[f].backup]
           /\ copies' = [copies EXCEPT ![f].backup = live[f]]
           /\ Moved(f, "live", "backup")
  <2>1. Wrote(f, "backup", live[f]) /\ "backup" \in Slots
    BY <1>5, <1>8 DEF Wrote
  <2>2. /\ copies' = [g \in File |-> [s \in Slots |-> copies'[g][s]]]
        /\ \A g \in File : \A s \in Slots :
              copies'[g][s] = IF g = f /\ s = "backup" THEN live[f] ELSE copies[g][s]
    BY <1>5, <2>1, SlotWritten
  <2>3. \A g \in File \ {f} : copies'[g] = copies[g]
    BY <1>5, <1>8
  <2>4. copies'[f].backup = live[f] /\ live'[f] = copies[f].backup
    BY <1>5, <1>8, <2>1, <2>2
  <2>5. Elsewhere(f)
    BY <1>1, <1>5, <1>8, <2>2, <2>3 DEF Elsewhere, Moved
  <2>6. Kept(f)'
    BY <1>1, <1>4, <1>8, <2>4 DEF Kept, Movable
  <2> QED BY <1>6, <1>8, <2>5, <2>6
<1>9. CASE /\ pc = "undo" /\ pc' = "relink" /\ UNCHANGED at
           /\ live' = [live EXCEPT ![f] = NoFile]
           /\ copies' = [copies EXCEPT ![f].second = live[f]]
           /\ Moved(f, "live", "second")
  <2>1. Wrote(f, "second", live[f]) /\ "second" \in Slots
    BY <1>5, <1>9 DEF Wrote
  <2>2. /\ copies' = [g \in File |-> [s \in Slots |-> copies'[g][s]]]
        /\ \A g \in File : \A s \in Slots :
              copies'[g][s] = IF g = f /\ s = "second" THEN live[f] ELSE copies[g][s]
    BY <1>5, <2>1, SlotWritten
  <2>3. \A g \in File \ {f} : copies'[g] = copies[g]
    BY <1>5, <1>9
  <2>4. copies'[f].backup = copies[f].backup /\ copies'[f].second = live[f]
    BY <1>5, <2>2
  <2>5. Elsewhere(f)
    BY <1>1, <1>5, <1>9, <2>2, <2>3 DEF Elsewhere, Moved
  <2>6. Kept(f)'
    BY <1>1, <1>4, <1>9, <2>4 DEF Kept, Movable
  <2> QED BY <1>6, <1>9, <2>5, <2>6
<1>10. CASE /\ live[f] = NoFile /\ Undone
            /\ live' = [live EXCEPT ![f] = copies[f].backup]
            /\ copies' = [copies EXCEPT ![f].backup = NoFile]
            /\ Moved(f, "backup", "live")
  <2>1. Wrote(f, "backup", NoFile) /\ "backup" \in Slots
    BY <1>5, <1>10 DEF Wrote
  <2>2. /\ copies' = [g \in File |-> [s \in Slots |-> copies'[g][s]]]
        /\ \A g \in File : \A s \in Slots :
              copies'[g][s] = IF g = f /\ s = "backup" THEN NoFile ELSE copies[g][s]
    BY <1>5, <2>1, SlotWritten
  <2>3. \A g \in File \ {f} : copies'[g] = copies[g]
    BY <1>5, <1>10
  <2>4. copies'[f].second = copies[f].second /\ live'[f] = copies[f].backup
    BY <1>5, <1>10, <2>2
  <2>5. Elsewhere(f)
    BY <1>1, <1>5, <1>10, <2>2, <2>3 DEF Elsewhere, Moved
  <2>6. Kept(f)'
    BY <1>1, <1>4, <1>10, <2>4 DEF Kept
  <2> QED BY <1>6, <1>10, <2>5, <2>6
<1>11. CASE Rollback
  BY <1>3, <1>7, <1>8, <1>9, <1>11 DEF Rollback, Goto
<1>12. CASE Relink
  BY <1>3, <1>7, <1>10, <1>12 DEF Relink
<1> QED BY <1>11, <1>12

-----------------------------------------------------------------------------
(* The user.                                                               *)

LEMMA UserKeeps ==
    ASSUME KeptInv, KeptTypes', UNCHANGED <<pc, round, at, written, run>>,
           \A f \in File : /\ Kept(f)'
                           /\ Untouched(f) => Untouched(f)'
                           /\ Movable(f) => Movable(f)'
    PROVE  KeptInv'
<1>1. Order' = Order
  BY DEF Order
<1>2. Ahead'
  <2>1. CASE pc \in Writing
    <3>1. \A j \in DOMAIN Order : Order[j] \in File
      BY <2>1, InPublication
    <3>2. at \in DOMAIN Order
      BY <2>1 DEF KeptInv, Ahead
    <3>3. \A j \in DOMAIN Order : Untouched(Order[j]) => Untouched(Order[j])'
      BY <1>1, <3>1 DEF Untouched
    <3>4. Untouched(Current) => Untouched(Current)'
      BY <1>1, <3>2, <3>3 DEF Current, Untouched
    <3> QED BY <1>1, <2>1, <3>3, <3>4 DEF KeptInv, Ahead, Untouched
  <2>2. CASE pc \notin Writing
    BY <2>2 DEF Ahead
  <2> QED BY <2>1, <2>2
<1>3. Behind'
  <2>1. \A k \in DOMAIN written : written[k] \in File
    BY DEF KeptInv, KeptTypes
  <2>2. \A k \in DOMAIN written : Movable(written[k]) => Movable(written[k])'
    BY <2>1 DEF Movable
  <2> QED BY <2>2 DEF KeptInv, Behind, Movable
<1> QED BY <1>2, <1>3 DEF KeptInv

\* The types say nothing of what the files hold.
LEMMA TypesKept ==
    ASSUME KeptTypes, UNCHANGED <<run, pc, round, at, written>>, edits' \in Nat,
           live' = [g \in File |-> live'[g]], handle' = [g \in File |-> handle'[g]],
           authored' = [g \in File |-> authored'[g]],
           copies' = [g \in File |-> [s \in Slots |-> copies'[g][s]]]
    PROVE  KeptTypes'
BY DEF KeptTypes

LEMMA EditsKeep == ASSUME KeptInv, User PROVE KeptInv'
<1>1. /\ UNCHANGED <<run, pc, round, at, written>> /\ edits' = edits + 1
      /\ edits \in Nat
  BY DEF User, TrackOrUntrack, EditPath, EditHandle, Delete, Acts, plan, KeptInv, KeptTypes
<1>2. /\ live = [g \in File |-> live[g]] /\ handle = [g \in File |-> handle[g]]
      /\ authored = [g \in File |-> authored[g]]
      /\ copies = [g \in File |-> [s \in Slots |-> copies[g][s]]]
      /\ Slots = {"staged", "backup", "second"}
  BY DEF KeptInv, KeptTypes, Slots
<1>3. \A shape : Fresh(shape) # NoFile
  BY <1>1 DEF Fresh, NoFile
<1>4. CASE TrackOrUntrack
  <2>1. UNCHANGED <<live, copies, handle, authored>>
    BY <1>4 DEF TrackOrUntrack, disk
  <2>2. KeptTypes'
    BY <1>1, <2>1 DEF KeptInv, KeptTypes
  <2> QED BY <1>1, <2>1, <2>2, UserKeeps DEF KeptInv, Kept, Untouched, Movable
<1>5. ASSUME NEW f \in File, EditPath(f) PROVE KeptInv'
  <2>1. PICK shape \in EditShapes :
           /\ live' = [live EXCEPT ![f] = Fresh(shape)]
           /\ authored' = [authored EXCEPT ![f] = (authored[f] \ {live[f]}) \union {Fresh(shape)}]
    BY <1>2, <1>5 DEF EditPath
  <2>2. UNCHANGED <<copies, handle>>
    BY <1>5 DEF EditPath
  <2>3. KeptTypes'
    <3>1. /\ live' = [g \in File |-> live'[g]]
          /\ authored' = [g \in File |-> authored'[g]]
      BY <1>2, <2>1
    <3>2. KeptTypes /\ edits' \in Nat
      BY <1>1 DEF KeptInv
    <3> QED BY <1>1, <1>2, <2>2, <3>1, <3>2, TypesKept
  <2>4. ASSUME NEW g \in File
        PROVE  Kept(g)' /\ (Untouched(g) => Untouched(g)') /\ (Movable(g) => Movable(g)')
    <3>1. Kept(g)
      BY DEF KeptInv
    <3> QED BY <1>2, <1>3, <2>1, <2>2, <3>1 DEF Kept, Untouched, Movable
  <2> QED BY <1>1, <2>3, <2>4, UserKeeps
<1>6. ASSUME NEW f \in File, EditHandle(f) PROVE KeptInv'
  <2> DEFINE h == handle[f]
  <2>1. h \in {"backup", "second"} /\ h \in Slots
    BY <1>2, <1>6 DEF EditHandle
  <2>2. PICK shape \in EditShapes :
           /\ copies' = [copies EXCEPT ![f][h] = Fresh(shape)]
           /\ authored' = [authored EXCEPT ![f] = (authored[f] \ {copies[f][h]}) \union {Fresh(shape)}]
    BY <1>2, <1>6 DEF EditHandle
  <2>3. UNCHANGED <<live, handle>>
    BY <1>6 DEF EditHandle
  <2>4. Wrote(f, h, Fresh(shape))
    BY <2>2 DEF Wrote
  <2>5. /\ copies' = [g \in File |-> [s \in Slots |-> copies'[g][s]]]
        /\ \A g \in File : \A s \in Slots :
              copies'[g][s] = IF g = f /\ s = h THEN Fresh(shape) ELSE copies[g][s]
    BY <1>2, <2>1, <2>4, SlotWritten
  <2>6. KeptTypes'
    <3>1. authored' = [g \in File |-> authored'[g]]
      BY <1>2, <2>2
    <3>2. KeptTypes /\ edits' \in Nat
      BY <1>1 DEF KeptInv
    <3> QED BY <1>1, <1>2, <2>3, <2>5, <3>1, <3>2, TypesKept
  <2>7. ASSUME NEW g \in File
        PROVE  Kept(g)' /\ (Untouched(g) => Untouched(g)') /\ (Movable(g) => Movable(g)')
    <3>1. Kept(g)
      BY DEF KeptInv
    <3>2. CASE g # f
      <4>1. authored'[g] = authored[g]
        BY <1>2, <2>2, <3>2
      <4>2. copies'[g].backup = copies[g].backup /\ copies'[g].second = copies[g].second
        BY <1>2, <2>5, <3>2
      <4> QED BY <2>3, <3>1, <4>1, <4>2 DEF Kept, Untouched, Movable
    <3>3. CASE g = f
      <4>1. authored'[f] = (authored[f] \ {copies[f][h]}) \union {Fresh(shape)}
        BY <1>2, <2>2
      <4>2. Fresh(shape) # NoFile
        BY <1>3
      <4>3. \/ /\ h = "backup" /\ copies'[f].backup = Fresh(shape)
               /\ copies'[f].second = copies[f].second
            \/ /\ h = "second" /\ copies'[f].second = Fresh(shape)
               /\ copies'[f].backup = copies[f].backup
        BY <1>2, <2>1, <2>5
      <4> QED BY <2>1, <2>3, <3>1, <3>3, <4>1, <4>2, <4>3 DEF Kept, Untouched, Movable
    <3> QED BY <3>2, <3>3
  <2> QED BY <1>1, <2>6, <2>7, UserKeeps
<1>7. ASSUME NEW f \in File, Delete(f) PROVE KeptInv'
  <2>1. /\ live' = [live EXCEPT ![f] = NoFile]
        /\ authored' = [authored EXCEPT ![f] = authored[f] \ {live[f]}]
        /\ handle' = [handle EXCEPT ![f] = IF handle[f] = "live" THEN "gone" ELSE handle[f]]
        /\ UNCHANGED copies
    BY <1>2, <1>7 DEF Delete
  <2>2. KeptTypes'
    <3>1. /\ live' = [g \in File |-> live'[g]]
          /\ handle' = [g \in File |-> handle'[g]]
          /\ authored' = [g \in File |-> authored'[g]]
      BY <1>2, <2>1
    <3>2. KeptTypes /\ edits' \in Nat
      BY <1>1 DEF KeptInv
    <3> QED BY <1>1, <1>2, <2>1, <3>1, <3>2, TypesKept
  <2>3. ASSUME NEW g \in File
        PROVE  Kept(g)' /\ (Untouched(g) => Untouched(g)') /\ (Movable(g) => Movable(g)')
    <3>1. Kept(g)
      BY DEF KeptInv
    <3> QED BY <1>2, <2>1, <3>1 DEF Kept, Untouched, Movable
  <2> QED BY <1>1, <2>2, <2>3, UserKeeps
<1> QED BY <1>4, <1>5, <1>6, <1>7 DEF User

-----------------------------------------------------------------------------
LEMMA KeptStep == KeptInv /\ [Next]_vars => KeptInv'
<1> SUFFICES ASSUME KeptInv, [Next]_vars PROVE KeptInv'
  OBVIOUS
<1>1. CASE CheckScope \/ PrepareWrite \/ Classify \/ Evaluation
  BY <1>1, PlanKeeps, EvaluationKeeps
<1>2. CASE Publication
  BY <1>2, CheckFileKeeps, ExchangeKeeps, CreateKeeps, CaptureKeeps, LinkKeeps,
     EndOfPublicationKeeps, RollbackKeeps DEF Publication
<1>3. CASE Die
  <2>1. Looks
    BY <1>3, DiskLooks DEF Die, KeptInv, plan
  <2> QED BY <1>3, <2>1, LooksInside DEF Die, Goto, Ended
<1>4. CASE User
  BY <1>4, EditsKeep
<1>5. CASE UNCHANGED vars
  <2>1. UNCHANGED <<live, copies, handle, authored, edits, run, pc, round, at, written>>
    BY <1>5 DEF vars, disk, plan, user
  <2> QED BY <2>1, UserKeeps DEF KeptInv, KeptTypes, Kept, Untouched, Movable
<1> QED BY <1>1, <1>2, <1>3, <1>4, <1>5 DEF Next

\* No text of the user's is lost by a command that edits her ignore files
\* (replace_preserving_live, rollback_ignore_writes), whatever she does
\* meanwhile, wherever the command fails or dies, and however files are replaced.
THEOREM NoTextIsLost == Spec => []UserBytesRetained
<1>1. KeptInv => UserBytesRetained
  <2> SUFFICES ASSUME KeptInv, NEW f \in File, NEW c \in authored[f]
               PROVE  c = live[f] \/ \E s \in Slots : c = copies[f][s]
    BY DEF UserBytesRetained
  <2>1. c \in {live[f], copies[f].backup, copies[f].second}
    BY DEF KeptInv, Kept
  <2> QED BY <2>1 DEF Slots
<1> QED BY <1>1, InitKept, KeptStep, PTL DEF Spec

(***************************************************************************)
(* A success has seen the private path hidden.                             *)
(***************************************************************************)
Enumerated == {"read exclude", "read gitignore", "probe", "reread exclude",
               "reread gitignore", "reprobe", "revalidate", "judge"}
Probed == {"reread exclude", "reread gitignore", "reprobe", "revalidate", "judge"}

Fields == {"tracked", "stamp", "files", "before", "after"}
Shaped(e) == /\ e = [d \in Fields |-> e[d]]
             /\ e.files = [f \in File |-> e.files[f]]

\* While the index has not been written since it was captured, its names are the
\* ones that were listed, and what git decided, it decided about them.
SafeInv ==
    /\ run \in Runs /\ stamp \in Nat /\ Shaped(evidence)
    /\ pc \in Enumerated \union {"enumerate"} =>
         evidence.stamp \in Nat /\ evidence.stamp <= stamp
    /\ pc \in Enumerated => (stamp = evidence.stamp => tracked = evidence.tracked)
    /\ pc \in Probed =>
         /\ Proposed = {} => evidence.after = evidence.before
         /\ /\ stamp = evidence.stamp \/ pc = "judge"
            /\ "private" \in evidence.before /\ "private" \notin evidence.tracked
            => safe
    /\ pc = "done" /\ run.cmd # "plan" => safe

LEMMA NoEvidenceIsShaped ==
    /\ Shaped(NoEvidence)
    /\ \A n : LET x == [NoEvidence EXCEPT !.stamp = n] IN Shaped(x) /\ x.stamp = n
BY DEF Shaped, Fields, NoEvidence

\* What the steps of an evaluation do to the evidence.
LEMMA NamesListed ==
    ASSUME NEW e, Shaped(e), NEW t
    PROVE  LET x == [e EXCEPT !.tracked = t]
           IN  Shaped(x) /\ x.tracked = t /\ x.stamp = e.stamp
BY DEF Shaped, Fields

LEMMA SourceRead ==
    ASSUME NEW e, Shaped(e), NEW f \in File, NEW c
    PROVE  LET x == [e EXCEPT !.files[f] = c]
           IN  /\ Shaped(x) /\ x.tracked = e.tracked /\ x.stamp = e.stamp
               /\ \A g \in File : x.files[g] = IF g = f THEN c ELSE e.files[g]
BY DEF Shaped, Fields

LEMMA SafeInit == Init => SafeInv
<1> SUFFICES ASSUME Init PROVE SafeInv
  OBVIOUS
<1>1. Shaped(evidence)
  BY NoEvidenceIsShaped DEF Init
<1>2. run \in Runs /\ stamp = 0 /\ pc \in {"capture", "scope"}
  BY DEF Init
<1> QED BY <1>1, <1>2 DEF SafeInv, Enumerated, Probed

\* Once set, safe is taken back only when a new evaluation begins.
LEMMA SafeStays == ASSUME Observe, pc # "capture", safe PROVE safe'
BY DEF Observe

\* The steps that leave the evaluations.
LEMMA SafeOutside ==
    ASSUME SafeInv, Observe, UNCHANGED <<run, stamp, evidence>>,
           pc' \notin Enumerated \union {"enumerate", "done"}
    PROVE  SafeInv'
BY DEF SafeInv, Probed, Enumerated

LEMMA SafeEvaluation == ASSUME SafeInv, Evaluation, Observe PROVE SafeInv'
<1> USE DEF Evaluate, Proceed, Goto
<1>0. UNCHANGED <<run, stamp, live, tracked>>
  BY DEF Evaluation, CaptureIndex, Enumerate, Probe, ProbeAgain, Revalidate, Judge,
     ReadSource, RereadSource, world, disk, plan
<1>1. CASE Reject
  <2>1. evidence' = NoEvidence /\ pc' \notin Enumerated \union {"enumerate", "done"}
    BY <1>1 DEF Reject, Forget, Enumerated
  <2>2. Shaped(evidence')
    BY <2>1, NoEvidenceIsShaped
  <2> QED BY <1>0, <2>1, <2>2 DEF SafeInv, Probed, Enumerated
<1>2. CASE CaptureIndex
  <2>1. /\ evidence' = [NoEvidence EXCEPT !.stamp = stamp] /\ pc' = "enumerate"
    BY <1>2 DEF CaptureIndex, SnapshotIndex
  <2>2. Shaped(evidence') /\ evidence'.stamp = stamp
    BY <2>1, NoEvidenceIsShaped
  <2>3. evidence'.stamp \in Nat /\ evidence'.stamp <= stamp'
    <3>1. stamp \in Nat /\ stamp' = stamp
      BY <1>0 DEF SafeInv
    <3> QED BY <2>2, <3>1
  <2>4. pc' \notin Enumerated \union Probed \union {"done"} /\ run' = run
    BY <1>0, <2>1 DEF Enumerated, Probed
  <2> QED BY <1>0, <2>2, <2>3, <2>4 DEF SafeInv
<1>3. CASE Enumerate /\ ~Reject
  <2>1. /\ evidence' = [evidence EXCEPT !.tracked = tracked]
        /\ pc = "enumerate" /\ pc' = "read exclude"
    BY <1>3 DEF Enumerate
  <2>2. /\ Shaped(evidence') /\ evidence'.tracked = tracked
        /\ evidence'.stamp = evidence.stamp
    BY <2>1, NamesListed DEF SafeInv
  <2> QED BY <1>0, <2>1, <2>2 DEF SafeInv, Probed, Enumerated
<1>4. CASE \/ ReadSource("exclude", "read exclude", "read gitignore")
           \/ ReadSource("gitignore", "read gitignore", "probe")
  <2>1. PICK f \in File : evidence' = [evidence EXCEPT !.files[f] = live[f]]
    BY <1>4 DEF ReadSource, File
  <2>2. /\ pc \in Enumerated /\ pc' \in Enumerated /\ pc' \notin Probed
        /\ pc' # "enumerate" /\ pc' # "done"
    BY <1>4 DEF ReadSource, Enumerated, Probed
  <2>3. Shaped(evidence') /\ UNCHANGED <<evidence.stamp, evidence.tracked>>
    BY <2>1, SourceRead DEF SafeInv
  <2> QED BY <1>0, <2>2, <2>3 DEF SafeInv
<1>5. CASE Probe /\ ~Reject
  <2> DEFINE proposed == [f \in File |-> IF f \in Proposed THEN Updated(f)
                                                           ELSE evidence.files[f]]
  <2>1. /\ pc = "probe" /\ pc' = "reread exclude"
        /\ Decisions(live) = Decisions(evidence.files)
        /\ evidence' = [evidence EXCEPT !.before = Decisions(live),
                                        !.after = Decisions(proposed)]
        /\ UNCHANGED <<round, run>>
    BY <1>0, <1>5 DEF Probe
  <2>2. /\ Shaped(evidence') /\ UNCHANGED <<evidence.stamp, evidence.tracked>>
        /\ evidence'.before = Decisions(live) /\ evidence'.after = Decisions(proposed)
    <3>1. PICK b, a : /\ evidence' = [evidence EXCEPT !.before = b, !.after = a]
                      /\ b = Decisions(live) /\ a = Decisions(proposed)
      BY <2>1
    <3> HIDE DEF proposed
    <3>2. Shaped(evidence)
      BY DEF SafeInv
    <3>3. /\ Shaped(evidence') /\ UNCHANGED <<evidence.stamp, evidence.tracked>>
          /\ evidence'.before = b /\ evidence'.after = a
      BY <3>1, <3>2 DEF Shaped, Fields
    <3> QED BY <3>1, <3>3
  <2>3. Proposed' = {} => evidence'.after = evidence'.before
    <3> SUFFICES ASSUME Proposed' = {} PROVE Decisions(proposed) = Decisions(live)
      BY <2>2
    <3>1. Proposed = {}
      BY <2>1 DEF Proposed, Order
    <3>2. /\ proposed["exclude"] = evidence.files["exclude"]
          /\ proposed["gitignore"] = evidence.files["gitignore"]
      BY <3>1 DEF File
    <3> HIDE DEF proposed
    <3>3. Decisions(proposed) = Decisions(evidence.files)
      BY <3>2 DEF Decisions, Ignored
    <3> QED BY <2>1, <3>3
  <2>4. "private" \in Decisions(live) => Ignored(live, "private")
    BY DEF Decisions
  <2>5. "private" \in Decisions(live) /\ "private" \notin tracked => safe'
    BY <1>0, <2>1, <2>4 DEF Observe, Protected
  <2> QED BY <1>0, <2>1, <2>2, <2>3, <2>5 DEF SafeInv, Probed, Enumerated
<1>6. CASE /\ ~Reject
           /\ \/ RereadSource("exclude", "reread exclude", "reread gitignore")
              \/ RereadSource("gitignore", "reread gitignore", "reprobe")
              \/ ProbeAgain \/ Revalidate
  <2>1. /\ UNCHANGED <<evidence, round>> /\ pc \in Probed /\ pc' \in Probed
        /\ pc' # "done" /\ pc' # "enumerate"
        /\ pc' = "judge" => stamp = evidence.stamp
        /\ Proposed' = Proposed
    BY <1>0, <1>6 DEF RereadSource, ProbeAgain, Revalidate, Probed, Proposed, Order
  <2>2. safe => safe'
    BY <2>1, SafeStays DEF Probed
  <2>3. Shaped(evidence')
    BY <2>1 DEF SafeInv
  <2> QED BY <1>0, <2>1, <2>2, <2>3 DEF SafeInv, Probed, Enumerated
<1>7. CASE Judge /\ ~Reject
  <2>1. /\ pc = "judge" /\ pc' \in {"check", "done"} /\ Forget /\ Accepted
        /\ pc' = "done" => round # "plan" \/ run.cmd # "install"
    BY <1>7 DEF Judge
  <2>2. run.cmd \in {"install", "plan", "publish"}
    BY PublicationAssumption DEF SafeInv, RunRecords
  <2>3. pc' = "done" /\ run.cmd # "plan" => Proposed = {}
    BY <2>1, <2>2 DEF Proposed
  <2>4. pc' = "done" /\ run.cmd # "plan" => safe'
    BY <2>1, <2>3, SafeStays DEF SafeInv, Accepted, Probed
  <2>5. Shaped(evidence')
    BY <2>1, NoEvidenceIsShaped DEF Forget
  <2> QED BY <1>0, <2>1, <2>4, <2>5 DEF SafeInv, Probed, Enumerated
<1> QED BY <1>1, <1>2, <1>3, <1>4, <1>5, <1>6, <1>7 DEF Evaluation

LEMMA SafeStep == SafeInv /\ KeptTypes /\ [Next]_vars => SafeInv'
<1> SUFFICES ASSUME SafeInv, KeptTypes, [Next]_vars PROVE SafeInv'
  OBVIOUS
<1>1. CASE Evaluation /\ Observe
  BY <1>1, SafeEvaluation
<1>2. CASE CheckScope /\ Observe
  BY <1>2, SafeOutside DEF CheckScope, Refuse, Goto, world, plan, Enumerated
<1>3. CASE PrepareWrite /\ Observe
  BY <1>3, SafeOutside DEF PrepareWrite, Goto, world, Enumerated
<1>4. CASE Classify /\ Observe
  BY <1>4, SafeOutside DEF Classify, Goto, world, Enumerated
<1>5. CASE Publication /\ Observe
  <2>1. UNCHANGED <<run, stamp, evidence>>
    BY <1>5 DEF Publication, CheckFile, Exchange, Create, Capture, Link, CompareDisplaced,
       SyncDirectories, CheckStaging, Rollback, Relink, Publishing, world, plan, Fail,
       NextFile, StageInRecoveryDir, Undone
  <2>2. pc' \notin Enumerated \union {"enumerate", "done"}
    BY <1>5 DEF Publication, CheckFile, Exchange, Create, Capture, Link, CompareDisplaced,
       SyncDirectories, CheckStaging, Rollback, Relink, Fail, Goto, Enumerated,
       NextFile, StageInRecoveryDir, Undone
  <2> QED BY <1>5, <2>1, <2>2, SafeOutside
<1>6. CASE Die /\ Observe
  BY <1>6, SafeOutside DEF Die, Goto, world, plan, Enumerated
<1>7. CASE User /\ Observe
  <2>1. /\ UNCHANGED <<run, pc, round, evidence>>
        /\ pc \notin Ended
    BY <1>7 DEF User, TrackOrUntrack, EditPath, EditHandle, Delete, Acts, plan
  <2>2. \/ UNCHANGED <<stamp, tracked>>
        \/ stamp' = stamp + 1
    BY <1>7 DEF User, TrackOrUntrack, EditPath, EditHandle, Delete, world
  <2>3. Proposed' = Proposed /\ Shaped(evidence')
    BY <2>1 DEF Proposed, Order, SafeInv
  <2>4. pc \in Probed => (safe => safe')
    BY SafeStays, <1>7 DEF Probed
  <2>5. CASE UNCHANGED <<stamp, tracked>>
    BY <2>1, <2>3, <2>4, <2>5 DEF SafeInv, Ended
  <2>6. CASE stamp' = stamp + 1
    <3>0. ASSUME NEW n \in Nat, n <= stamp PROVE n < stamp'
      <4>1. stamp \in Nat
        BY DEF SafeInv
      <4> QED BY <2>6, <3>0, <4>1
    <3>1. pc \in Enumerated \union {"enumerate"} =>
            evidence.stamp \in Nat /\ evidence.stamp < stamp'
      BY <3>0 DEF SafeInv
    <3>2. stamp' \in Nat /\ pc # "done" /\ Probed \subseteq Enumerated
      <4>1. stamp \in Nat
        BY DEF SafeInv
      <4>2. stamp' \in Nat
        BY <2>6, <4>1
      <4> QED BY <2>1, <4>2 DEF Ended, Probed, Enumerated
    <3>3. pc \in Enumerated => stamp' # evidence.stamp
      BY <3>1, <3>2
    <3>4. pc \in Enumerated \union {"enumerate"} => evidence.stamp <= stamp'
      BY <3>1, <3>2
    <3> QED BY <2>1, <2>3, <2>4, <3>1, <3>2, <3>3, <3>4 DEF SafeInv
  <2> QED BY <2>2, <2>5, <2>6
<1>8. CASE UNCHANGED vars
  BY <1>8 DEF vars, world, plan, SafeInv, Proposed, Order
<1> QED BY <1>1, <1>2, <1>3, <1>4, <1>5, <1>6, <1>7, <1>8 DEF Next

\* A command that succeeds has seen the private path hidden and untracked
\* (git_privacy.rs), whatever the user did to the files and the index meanwhile.
THEOREM SuccessIsProtected == Spec => []SuccessProtects
<1>1. SafeInv => SuccessProtects
  BY DEF SafeInv, SuccessProtects
<1> QED BY <1>1, SafeInit, SafeStep, InitKept, KeptStep, PTL DEF Spec, KeptInv

-----------------------------------------------------------------------------
(***************************************************************************)
(* A command nobody disturbs.                                              *)
(***************************************************************************)
Published(f) == live[f] = Updated(f)
AsFound(f) == live[f] = began[f]
Listed(f) == \E k \in DOMAIN written : written[k] = f
\* The copy a rollback puts back.
Copied(f) == original[f] = NoFile \/ copies[f].backup = original[f]
Spoilt == mishap \in {"sync", "restore"}
Chosen == Range(Order)
\* What the first evaluation has found safe.
Target == [f \in File |-> IF f \in Chosen THEN Upsert(began[f]) ELSE began[f]]

\* Every chosen file is published, and listed if that changed it.
AllPublished ==
    \/ pc = "staging" \/ (pc = "done" /\ run.cmd = "install")
    \/ pc \in Before /\ round = "after"

QuietPlan ==
    /\ pc \in Before \union Writing \union {"staging", "done"} => mishap = "none"
    /\ round = "after" \/ pc \in Writing \union Undoing \union {"staging", "failed"} =>
         run.cmd = "install"
    /\ pc \in {"scope", "prepare"} => round = "plan" /\ (pc = "scope" => at = 1)
    /\ pc = "prepare" => /\ at \in DOMAIN Order
                         /\ \A j \in DOMAIN Order : j < at => original[Order[j]] = began[Order[j]]
    /\ run.cmd # "publish" /\ pc \notin {"scope", "prepare", "refused", "dead"} =>
         \A f \in Chosen : original[f] = began[f]
    /\ pc \in Before /\ round = "plan" => \A f \in File : AsFound(f)

QuietEvidence ==
    round = "plan" =>
        /\ pc \in Enumerated \ {"read exclude"} => evidence.files["exclude"] = began["exclude"]
        /\ pc \in Enumerated \ {"read exclude", "read gitignore"} =>
             evidence.files["gitignore"] = began["gitignore"]
        /\ pc \in Probed /\ run.cmd # "publish" /\ "private" \in evidence.after =>
             Ignored(Target, "private")

QuietFiles ==
    /\ \A k \in DOMAIN written : written[k] \in Chosen
    /\ \A i, k \in DOMAIN written : i < k => written[k] = "gitignore"
    /\ pc \in Writing \/ AllPublished =>
         /\ \A f \in File \ Chosen : AsFound(f)
         /\ \A k \in DOMAIN written : Published(written[k]) /\ Copied(written[k])
    /\ pc \in Writing =>
         /\ Ignored(Target, "private")
         /\ \A k \in DOMAIN written : \E j \in DOMAIN Order : j < at /\ written[k] = Order[j]
         /\ \A j \in DOMAIN Order :
              /\ j < at => Published(Order[j]) /\ (Listed(Order[j]) \/ AsFound(Order[j]))
              /\ j > at => AsFound(Order[j])
         /\ pc \in {"check", "swap"} => AsFound(Current)
         /\ pc = "link" => ~run.exchange /\ live[Current] = NoFile
         /\ pc \in {"link", "displaced"} => copies[Current].backup = original[Current]
         /\ pc \in {"displaced", "sync"} => Published(Current)
         /\ pc = "sync" => Copied(Current)
    /\ AllPublished =>
         \A f \in Chosen : Published(f) /\ (Listed(f) \/ AsFound(f))

QuietRollback ==
    /\ pc \in Undoing /\ ~Spoilt =>
         /\ \A k \in DOMAIN written :
              /\ k < at \/ (k = at /\ pc = "undo") => Published(written[k]) /\ Copied(written[k])
              /\ k > at => \/ AsFound(written[k])
                           \/ began[written[k]] = NoFile /\ Published(written[k])
              /\ k = at /\ pc = "relink" =>
                   /\ ~run.exchange /\ live[written[k]] = NoFile
                   /\ copies[written[k]].backup = original[written[k]]
         /\ \A f \in File : Listed(f) \/ AsFound(f)
    /\ pc = "failed" /\ ~Spoilt => \A f \in File : AsFound(f) \/ began[f] = NoFile

Quiet == QuietPlan /\ QuietEvidence /\ QuietFiles /\ QuietRollback /\ KeepsProtection

QuietInv == /\ began \in [File -> Content(0)]
            /\ original = [f \in File |-> original[f]]
            /\ edits = 0 => Quiet

-----------------------------------------------------------------------------
(* The rules of the files.                                                 *)

LEMMA UpsertIs ==
    ASSUME NEW c \in Content(0)
    PROVE  /\ Upsert(c).block = "exact" /\ Upsert(c) # NoFile
           /\ c.negates # "after" => Upsert(c).negates = c.negates
           /\ c.block # "none" => Upsert(c).negates = c.negates
<1>1. /\ c \in [text : {0}, negates : Negations, block : Blocks]
  BY DEF Content
<1>2. Upsert(c).block = "exact"
  BY <1>1 DEF Upsert
<1>3. NoFile.block = "absent"
  BY DEF NoFile
<1>4. Upsert(c).negates = IF c.block = "none" /\ c.negates = "after" THEN "before" ELSE c.negates
  BY <1>1 DEF Upsert
<1> QED BY <1>2, <1>3, <1>4

LEMMA NoFileIsContent == NoFile \in Content(0)
BY DEF NoFile, Content, Negations, Blocks

\* The exclude file first: its block hides the private path at once.
LEMMA ExcludeUpdated ==
    ASSUME NEW files \in [File -> Content(0)], NEW new, Ignored(files, "private"),
           new["gitignore"] = files["gitignore"], new["exclude"] = Upsert(files["exclude"])
    PROVE  Ignored(new, "private")
<1> DEFINE c == files["exclude"]  u == Upsert(files["exclude"])
<1>1. c \in Content(0) /\ u.block = "exact"
      /\ (c.negates # "after" => u.negates = c.negates)
  BY UpsertIs DEF File
<1>2. CASE Verdict("gitignore", files["gitignore"], "private") = "ignored"
  BY <1>2 DEF Ignored
<1>3. CASE /\ Verdict("gitignore", files["gitignore"], "private") = "unmatched"
           /\ Verdict("exclude", c, "private") = "ignored"
  <2>1. c.negates # "after"
    BY <1>3 DEF Verdict
  <2>2. "private" \in BlockHides("exclude", u.block)
    BY <1>1 DEF BlockHides
  <2>3. Verdict("exclude", u, "private") = "ignored"
    BY <1>1, <2>1, <2>2 DEF Verdict
  <2> QED BY <1>3, <2>3 DEF Ignored
<1> QED BY <1>2, <1>3 DEF Ignored

\* A new .gitignore holds no rule about the private path.
LEMMA GitignoreCreated ==
    ASSUME NEW files \in [File -> Content(0)], NEW new, Ignored(files, "private"),
           files["gitignore"] = NoFile,
           new["gitignore"] = Upsert(NoFile), new["exclude"] = files["exclude"]
    PROVE  Ignored(new, "private")
<1> DEFINE u == Upsert(NoFile)
<1>1. u.block = "exact" /\ u.negates = "no"
  BY UpsertIs, NoFileIsContent DEF NoFile
<1>2. /\ "private" \notin BlockHides("gitignore", "exact")
      /\ "private" \notin BlockHides("gitignore", "absent")
  BY DEF BlockHides
<1>3. Verdict("gitignore", u, "private") = "unmatched"
  BY <1>1, <1>2 DEF Verdict
<1>4. Verdict("gitignore", NoFile, "private") = "unmatched"
  BY <1>2 DEF Verdict, NoFile
<1> QED BY <1>3, <1>4 DEF Ignored

LEMMA TargetHidden ==
    ASSUME NEW new, Ignored(Target, "private"), \A f \in File : new[f] = Target[f]
    PROVE  Ignored(new, "private")
BY DEF Ignored, File

\* Ignored looks at nothing but the two files.
LEMMA SameRules ==
    ASSUME NEW files, NEW new, \A f \in File : new[f] = files[f]
    PROVE  /\ \A p : Ignored(new, p) <=> Ignored(files, p)
           /\ Decisions(new) = Decisions(files)
BY DEF Ignored, Decisions, File

LEMMA OrderIs ==
    ASSUME run \in Runs
    PROVE  /\ \/ DOMAIN Order = {1} /\ Order[1] \in File
              \/ DOMAIN Order = {1, 2} /\ Order[1] = "exclude" /\ Order[2] = "gitignore"
           /\ run.scope = "both" => DOMAIN Order = {1, 2}
           /\ Len(Order) \in Nat /\ DOMAIN Order = 1 .. Len(Order)
<1>1. run.scope \in {"local", "repo", "both"}
  BY PublicationAssumption DEF RunRecords
<1>2. CASE run.scope = "local"
  <2>1. Order = <<"exclude">>
    BY <1>2 DEF Order, ScopeFiles
  <2> QED BY <1>2, <2>1 DEF File
<1>3. CASE run.scope = "repo"
  <2>1. Order = <<"gitignore">>
    BY <1>3 DEF Order, ScopeFiles
  <2> QED BY <1>3, <2>1 DEF File
<1>4. CASE run.scope = "both"
  <2> DEFINE a == <<"exclude">>  b == <<"gitignore">>
  <2>1. Order = a \o b
    BY <1>4 DEF Order, ScopeFiles
  <2>2. /\ a \in Seq(File) /\ Len(a) = 1 /\ a[1] = "exclude"
        /\ b \in Seq(File) /\ Len(b) = 1 /\ b[1] = "gitignore"
    BY DEF File
  <2> HIDE DEF a, b
  <2>3. /\ Order \in Seq(File) /\ DOMAIN Order = 1..2 /\ Len(Order) = 2
        /\ Order[1] = "exclude" /\ Order[2] = "gitignore"
    BY <2>1, <2>2, ConcatProperties
  <2> QED BY <1>4, <2>3
<1> QED BY <1>1, <1>2, <1>3, <1>4

LEMMA ChosenAre ==
    ASSUME run \in Runs
    PROVE  /\ Chosen \subseteq File
           /\ \A f : f \in Chosen <=> \E j \in DOMAIN Order : Order[j] = f
           /\ \A i, j \in DOMAIN Order : Order[i] = Order[j] => i = j
<1>1. \A f : f \in Chosen <=> \E j \in DOMAIN Order : Order[j] = f
  BY DEF Chosen, Range
<1> QED BY <1>1, OrderIs DEF File

-----------------------------------------------------------------------------
(* What a step leaves alone.                                               *)

LEMMA QuietFrame ==
    ASSUME UNCHANGED <<run, original, began>>
    PROVE  /\ Order' = Order /\ Chosen' = Chosen /\ Target' = Target
           /\ \A f \in File :
                /\ Updated(f)' = Updated(f)
                /\ live'[f] = live[f] => /\ Published(f)' <=> Published(f)
                                         /\ AsFound(f)' <=> AsFound(f)
                /\ copies'[f].backup = copies[f].backup => (Copied(f)' <=> Copied(f))
                /\ written' = written => (Listed(f)' <=> Listed(f))
<1>1. Order' = Order
  BY DEF Order
<1>2. Chosen' = Chosen
  BY <1>1 DEF Chosen
<1>3. Target' = Target
  BY <1>2 DEF Target
<1> QED BY <1>1, <1>2, <1>3 DEF Published, AsFound, Copied, Listed, Updated

LEMMA KeepsFrame ==
    ASSUME KeepsProtection, UNCHANGED <<live, tracked, run, began, edits>>,
           ~Spoilt' => ~Spoilt
    PROVE  KeepsProtection'
BY DEF KeepsProtection, Spoilt, Protected

\* The files a failure may leave as they are: all are as found or can be put back.
Reversible ==
    /\ \A k \in DOMAIN written : Published(written[k]) /\ Copied(written[k])
    /\ \A f \in File : Listed(f) \/ AsFound(f)

\* From one step of the evaluation to another.
LEMMA QuietInside ==
    ASSUME Quiet, KeptInv,
           UNCHANGED <<live, copies, tracked, run, original, began, round, written, mishap, edits>>,
           pc \in Before \ {"scope", "prepare"}, pc' \in Before \ {"scope", "prepare"},
           QuietEvidence'
    PROVE  Quiet'
<1>1. Chosen' = Chosen /\ Order' = Order
      /\ \A f \in File : /\ Published(f)' <=> Published(f)
                         /\ AsFound(f)' <=> AsFound(f)
                         /\ Copied(f)' <=> Copied(f)
                         /\ Listed(f)' <=> Listed(f)
  BY QuietFrame
<1>2. KeepsProtection'
  BY KeepsFrame DEF Quiet, Spoilt
<1>3. /\ pc \notin {"scope", "prepare", "refused", "dead", "staging", "done", "failed"}
      /\ pc' \notin {"scope", "prepare", "refused", "dead", "staging", "done", "failed"}
      /\ pc \notin Writing \union Undoing /\ pc' \notin Writing \union Undoing
      /\ pc \in Before /\ pc' \in Before
      /\ AllPublished' <=> AllPublished
  BY DEF Before, Writing, Undoing, AllPublished
<1>4. QuietPlan'
  BY <1>1, <1>3 DEF Quiet, QuietPlan, AsFound
<1>5. /\ Chosen \subseteq File /\ \A k \in DOMAIN written : written[k] \in File
  BY ChosenAre DEF KeptInv, KeptTypes
<1>6. QuietFiles'
  <2>1. \A k \in DOMAIN written : /\ Published(written[k])' <=> Published(written[k])
                                  /\ Copied(written[k])' <=> Copied(written[k])
    BY <1>1, <1>5 DEF Published, Copied
  <2> QED BY <1>1, <1>3, <1>5, <2>1 DEF Quiet, QuietFiles, Published, Copied, AsFound, Listed
<1>7. QuietRollback'
  BY <1>3 DEF QuietRollback
<1> QED BY <1>2, <1>4, <1>6, <1>7 DEF Quiet

\* A command that stops where it is.
LEMMA QuietStop ==
    ASSUME Quiet, UNCHANGED <<live, tracked, run, began, original, written, edits>>,
           ~Spoilt' => ~Spoilt, pc' \in {"refused", "dead"}, pc' = "refused" => round' = "plan" \/ run.cmd = "install",
           round' = "after" => round = "after"
    PROVE  Quiet'
<1>1. KeepsProtection'
  BY KeepsFrame DEF Quiet
<1>2. pc' \notin Before \union Writing \union Undoing \union Probed \union Enumerated
                  \union {"staging", "done", "failed", "scope", "prepare"}
  BY DEF Before, Writing, Undoing, Probed, Enumerated
<1>3. ~AllPublished'
  BY <1>2 DEF AllPublished
<1>4. QuietPlan'
  BY <1>2 DEF Quiet, QuietPlan
<1>5. QuietEvidence'
  BY <1>2 DEF QuietEvidence
<1>6. QuietFiles'
  BY <1>2, <1>3, QuietFrame DEF Quiet, QuietFiles
<1> QED BY <1>1, <1>2, <1>4, <1>5, <1>6 DEF Quiet, QuietRollback

\* A failure after the first write, from a state that can be put back.
LEMMA QuietFall ==
    ASSUME Quiet, KeptInv,
           UNCHANGED <<live, copies, tracked, run, original, began, written, edits>>,
           run.cmd = "install", pc \notin {"scope", "prepare", "refused", "dead"},
           ~Spoilt' => ~Spoilt /\ Reversible,
           \/ pc' = "undo" /\ at' = Len(written) /\ written # <<>>
           \/ pc' = "failed" /\ written = <<>>
    PROVE  Quiet'
<1>1. Chosen' = Chosen /\ \A f \in File : /\ Published(f)' <=> Published(f)
                                          /\ AsFound(f)' <=> AsFound(f)
                                          /\ Copied(f)' <=> Copied(f)
                                          /\ Listed(f)' <=> Listed(f)
  <2>1. UNCHANGED <<run, original, began>> /\ live' = live /\ copies' = copies /\ written' = written
    OBVIOUS
  <2> QED BY <2>1, QuietFrame
<1>2. KeepsProtection'
  BY KeepsFrame DEF Quiet
<1>3. /\ pc' \notin Before \union Writing \union Probed \union Enumerated
                  \union {"staging", "done", "scope", "prepare", "relink"}
      /\ ~AllPublished'
  BY DEF Before, Writing, Probed, Enumerated, AllPublished
<1>4. QuietPlan'
  BY <1>1, <1>3 DEF Quiet, QuietPlan
<1>5. QuietEvidence'
  BY <1>3 DEF QuietEvidence
<1>6. QuietFiles'
  BY <1>1, <1>3 DEF Quiet, QuietFiles
<1>7. /\ written \in Seq(File) /\ \A k \in DOMAIN written : written[k] \in File /\ k <= Len(written)
  BY DEF KeptInv, KeptTypes
<1>8. ASSUME ~Spoilt' PROVE QuietRollback'
  <2>1. Reversible
    BY <1>8
  <2>2. \A k \in DOMAIN written : Published(written[k])' /\ Copied(written[k])'
    BY <1>1, <1>7, <2>1 DEF Reversible, Published, Copied, Updated
  <2>3. \A f \in File : Listed(f)' \/ AsFound(f)'
    BY <1>1, <2>1 DEF Reversible, AsFound, Listed
  <2>4. written' = <<>> => \A f \in File : ~Listed(f)'
    BY DEF Listed
  <2>5. pc' \in Undoing => \A k \in DOMAIN written : ~(k > at')
    BY <1>7 DEF Undoing
  <2> QED BY <1>3, <2>2, <2>3, <2>4, <2>5 DEF QuietRollback, Published, Copied, AsFound, Listed
<1> QED BY <1>2, <1>4, <1>5, <1>6, <1>8 DEF Quiet, QuietRollback

-----------------------------------------------------------------------------
(* The plan and the evaluations.                                           *)

LEMMA QuietPlanning ==
    ASSUME QuietInv, KeptInv, edits = 0, edits' = 0, CheckScope \/ PrepareWrite \/ Classify
    PROVE  Quiet'
<1>0. Quiet /\ UNCHANGED <<live, copies, tracked, run, began, round, written, mishap, edits>>
  BY DEF QuietInv, CheckScope, PrepareWrite, Classify, Refuse, disk, world, plan, user
<1>1. CASE Classify
  <2>1. pc = "classify" /\ pc' = "capture" /\ UNCHANGED original
    BY <1>1 DEF Classify, Goto
  <2>2. QuietEvidence'
    BY <2>1 DEF QuietEvidence, Enumerated, Probed
  <2>3. pc \in Before \ {"scope", "prepare"} /\ pc' \in Before \ {"scope", "prepare"}
    BY <2>1 DEF Before
  <2> QED BY <1>0, <2>1, <2>2, <2>3, QuietInside
<1>2. CASE CheckScope /\ pc' = "refused"
  BY <1>0, <1>2, QuietStop DEF CheckScope, plan, Spoilt, Quiet, QuietPlan
<1>3. CASE PrepareWrite /\ pc' = "refused"
  BY <1>0, <1>3, QuietStop DEF PrepareWrite, Goto, Spoilt, Quiet, QuietPlan
<1>4. ASSUME pc \in {"scope", "prepare"}, pc' \in {"prepare", "classify"},
             pc' = "prepare" => /\ at' \in DOMAIN Order
                                /\ \A j \in DOMAIN Order : j < at' => original'[Order[j]] = began[Order[j]],
             pc' = "classify" => \A f \in Chosen : original'[f] = began[f]
      PROVE  Quiet'
  <2>1. /\ pc \in Before /\ pc' \in Before /\ round = "plan" /\ written = <<>>
        /\ pc' \notin Writing \union Undoing \union Probed \union Enumerated
              \union {"staging", "done", "failed", "scope"}
        /\ ~AllPublished' /\ mishap = "none"
    BY <1>0, <1>4 DEF Quiet, QuietPlan, KeptInv, Before, Writing, Undoing, Probed, Enumerated, AllPublished
  <2>2. Order' = Order /\ Chosen' = Chosen
    BY <1>0 DEF Order, Chosen
  <2>3. QuietPlan'
    BY <1>0, <1>4, <2>1, <2>2 DEF Quiet, QuietPlan, AsFound
  <2>4. QuietFiles'
    BY <1>0, <2>1 DEF QuietFiles
  <2>5. KeepsProtection'
    BY <1>0, KeepsFrame DEF Quiet, Spoilt
  <2> QED BY <2>1, <2>3, <2>4, <2>5 DEF Quiet, QuietEvidence, QuietRollback
<1>5. run \in Runs
  BY DEF KeptInv, KeptTypes
<1>6. CASE CheckScope /\ pc' = "prepare"
  <2>1. pc = "scope" /\ at = 1 /\ at' = at
    BY <1>0, <1>6 DEF CheckScope, Refuse, Goto, Quiet, QuietPlan
  <2> QED BY <1>4, <1>5, <1>6, <2>1, OrderIs
<1>7. CASE PrepareWrite /\ pc' # "refused"
  <2>1. /\ pc = "prepare" /\ original' = [original EXCEPT ![Current] = live[Current]]
        /\ \/ at = Len(Order) /\ pc' = "classify"
           \/ at # Len(Order) /\ at' = at + 1 /\ pc' = "prepare"
    BY <1>7 DEF PrepareWrite, Goto
  <2>2. /\ at \in DOMAIN Order /\ Current \in Chosen /\ Chosen \subseteq File
        /\ \A j \in DOMAIN Order : j < at => original[Order[j]] = began[Order[j]]
        /\ \A j \in DOMAIN Order : Order[j] \in File
    BY <1>0, <1>5, <2>1, ChosenAre DEF Quiet, QuietPlan, Current
  <2>3. live[Current] = began[Current]
    BY <1>0, <2>1, <2>2 DEF Quiet, QuietPlan, AsFound, Before
  <2>4. \A j \in DOMAIN Order : j <= at => original'[Order[j]] = began[Order[j]]
    <3> SUFFICES ASSUME NEW j \in DOMAIN Order, j <= at
                 PROVE  original'[Order[j]] = began[Order[j]]
      OBVIOUS
    <3>1. original = [f \in File |-> original[f]]
      BY DEF QuietInv
    <3>2. j = at \/ j < at
      BY <1>5, <2>2, OrderIs
    <3> QED BY <2>1, <2>2, <2>3, <3>1, <3>2 DEF Current
  <2>5. CASE at = Len(Order) /\ pc' = "classify"
    <3>1. \A f \in Chosen : original'[f] = began[f]
      BY <1>5, <2>4, <2>5, OrderIs, ChosenAre
    <3> QED BY <1>4, <2>1, <2>5, <3>1
  <2>6. CASE at # Len(Order) /\ at' = at + 1 /\ pc' = "prepare"
    <3>1. at' \in DOMAIN Order
      BY <1>5, <2>2, <2>6, OrderIs
    <3>2. \A j \in DOMAIN Order : j < at' => j <= at
      BY <1>5, <2>2, <2>6, OrderIs
    <3> QED BY <1>4, <2>1, <2>4, <2>6, <3>1, <3>2
  <2> QED BY <2>1, <2>5, <2>6
<1>8. pc' \in {"refused", "prepare"} \/ ~CheckScope
  BY DEF CheckScope, Refuse, Goto
<1> QED BY <1>1, <1>2, <1>3, <1>6, <1>7, <1>8

LEMMA QuietReject ==
    ASSUME QuietInv, KeptInv, edits = 0, Reject, pc \in Before \ {"scope", "prepare"},
           UNCHANGED <<live, copies, tracked, run, original, began, mishap, edits>>
    PROVE  Quiet'
<1>1. Quiet /\ mishap = "none" /\ round \in {"plan", "after"}
  BY DEF QuietInv, Quiet, QuietPlan, KeptInv, KeptTypes
<1>2. CASE round = "plan"
  BY <1>1, <1>2, QuietStop DEF Reject, Goto, Spoilt
<1>3. CASE round = "after"
  <2>1. AllPublished /\ run.cmd = "install"
    BY <1>1, <1>3 DEF AllPublished, Quiet, QuietPlan
  <2>2. Reversible
    BY <1>1, <2>1 DEF Reversible, Quiet, QuietFiles
  <2>3. /\ UNCHANGED written
        /\ \/ pc' = "undo" /\ at' = Len(written) /\ written # <<>>
           \/ pc' = "failed" /\ written = <<>>
    BY <1>3 DEF Reject, Goto
  <2>4. pc \notin {"scope", "prepare", "refused", "dead"}
    BY DEF Before
  <2>5. ~Spoilt
    BY <1>1 DEF Spoilt
  <2> QED BY <1>1, <2>1, <2>2, <2>3, <2>4, <2>5, QuietFall
<1> QED BY <1>1, <1>2, <1>3

LEMMA QuietEvidenceGathered ==
    ASSUME QuietInv, KeptInv, SafeInv, edits = 0, Evaluation, ~Reject, ~Judge
    PROVE  QuietEvidence'
<1> USE DEF Evaluate, Proceed, Goto
<1>0. /\ Quiet /\ run \in Runs /\ Shaped(evidence)
      /\ UNCHANGED <<live, copies, tracked, run, original, began, round, written>>
      /\ pc \in Before
      /\ Order' = Order /\ Chosen' = Chosen /\ Target' = Target
  <2>1. UNCHANGED <<live, copies, tracked, run, original, began, round, written>> /\ pc \in Before
    BY DEF Evaluation, CaptureIndex, Enumerate, Probe, ProbeAgain, Revalidate, Judge,
       ReadSource, RereadSource, disk, world, plan, user, Before
  <2> QED BY <2>1, QuietFrame DEF QuietInv, KeptInv, KeptTypes, SafeInv
<1>1. round = "plan" => live["exclude"] = began["exclude"] /\ live["gitignore"] = began["gitignore"]
  BY <1>0 DEF Quiet, QuietPlan, AsFound, File
<1>2. CASE CaptureIndex \/ Enumerate
  <2>1. pc' \in {"enumerate", "read exclude"}
    BY <1>2 DEF CaptureIndex, Enumerate
  <2> QED BY <2>1 DEF QuietEvidence, Enumerated, Probed
<1>3. CASE ReadSource("exclude", "read exclude", "read gitignore")
  <2>1. evidence' = [evidence EXCEPT !.files["exclude"] = live["exclude"]] /\ pc' = "read gitignore"
    BY <1>3 DEF ReadSource
  <2>2. evidence'.files["exclude"] = live["exclude"]
    BY <1>0, <2>1 DEF Shaped, Fields, File
  <2> QED BY <1>0, <1>1, <2>1, <2>2 DEF QuietEvidence, Enumerated, Probed
<1>4. CASE ReadSource("gitignore", "read gitignore", "probe")
  <2>1. /\ evidence' = [evidence EXCEPT !.files["gitignore"] = live["gitignore"]]
        /\ pc = "read gitignore" /\ pc' = "probe"
    BY <1>4 DEF ReadSource
  <2>2. /\ evidence'.files["gitignore"] = live["gitignore"]
        /\ evidence'.files["exclude"] = evidence.files["exclude"]
    BY <1>0, <2>1 DEF Shaped, Fields, File
  <2> QED BY <1>0, <1>1, <2>1, <2>2 DEF Quiet, QuietEvidence, Enumerated, Probed
<1>5. CASE Probe
  <2> DEFINE proposed == [f \in File |-> IF f \in Proposed THEN Updated(f)
                                                           ELSE evidence.files[f]]
  <2>1. /\ pc = "probe" /\ pc' = "reread exclude"
        /\ evidence' = [evidence EXCEPT !.before = Decisions(live),
                                        !.after = Decisions(proposed)]
    BY <1>5 DEF Probe
  <2>2. /\ UNCHANGED evidence.files /\ evidence'.after = Decisions(proposed)
    <3>1. PICK b, a : /\ evidence' = [evidence EXCEPT !.before = b, !.after = a]
                      /\ b = Decisions(live) /\ a = Decisions(proposed)
      BY <2>1
    <3> HIDE DEF proposed
    <3>2. evidence'.files = evidence.files /\ evidence'.after = a
      BY <1>0, <3>1 DEF Shaped, Fields
    <3> QED BY <3>1, <3>2
  <2>3. round = "plan" =>
          /\ evidence.files["exclude"] = began["exclude"]
          /\ evidence.files["gitignore"] = began["gitignore"]
    BY <1>0, <2>1 DEF Quiet, QuietEvidence, Enumerated
  <2>4. ASSUME round = "plan", run.cmd # "publish", "private" \in evidence'.after
        PROVE  Ignored(Target, "private")
    <3>1. Proposed = Chosen
      BY <2>4 DEF Proposed, Chosen
    <3>2. \A f \in Chosen : original[f] = began[f]
      BY <1>0, <2>1, <2>4 DEF Quiet, QuietPlan
    <3>3. \A f \in File : proposed[f] = Target[f]
      BY <2>3, <2>4, <3>1, <3>2 DEF Target, Updated, File
    <3> HIDE DEF proposed
    <3>4. "private" \in Decisions(proposed)
      BY <2>2, <2>4
    <3>5. "private" \in Decisions(Target)
      BY <3>3, <3>4, SameRules
    <3> QED BY <3>5 DEF Decisions
  <2> QED BY <1>0, <2>1, <2>2, <2>3, <2>4 DEF QuietEvidence, Enumerated, Probed
<1>6. CASE \/ RereadSource("exclude", "reread exclude", "reread gitignore")
           \/ RereadSource("gitignore", "reread gitignore", "reprobe")
           \/ ProbeAgain \/ Revalidate
  <2>1. UNCHANGED evidence /\ pc \in Probed /\ pc' \in Probed
    BY <1>6 DEF RereadSource, ProbeAgain, Revalidate, Probed
  <2>2. /\ pc \in Enumerated \ {"read exclude"} /\ pc \in Enumerated \ {"read exclude", "read gitignore"}
    BY <2>1 DEF Probed, Enumerated
  <2> QED BY <1>0, <2>1, <2>2 DEF Quiet, QuietEvidence
<1> QED BY <1>2, <1>3, <1>4, <1>5, <1>6 DEF Evaluation

LEMMA QuietJudged ==
    ASSUME QuietInv, KeptInv, SafeInv, edits = 0, edits' = 0, Judge, ~Reject
    PROVE  Quiet'
<1> USE DEF Evaluate, Goto
<1>0. /\ Quiet /\ run \in Runs /\ pc = "judge" /\ Accepted
      /\ UNCHANGED <<live, copies, tracked, run, original, began, round, written, mishap>>
      /\ pc' \in {"check", "done"} /\ at' = 1
      /\ pc' = "check" <=> round = "plan" /\ run.cmd = "install"
  BY DEF Judge, disk, world, plan, user, QuietInv, KeptInv, KeptTypes
<1>1. /\ Order' = Order /\ Chosen' = Chosen /\ Target' = Target
      /\ \A f \in File : /\ Published(f)' <=> Published(f)
                         /\ AsFound(f)' <=> AsFound(f)
                         /\ Copied(f)' <=> Copied(f)
                         /\ Listed(f)' <=> Listed(f)
  BY <1>0, QuietFrame
<1>2. pc \in Before /\ round \in {"plan", "after"} /\ mishap = "none"
  BY <1>0 DEF Before, KeptInv, KeptTypes, Quiet, QuietPlan
<1>3. KeepsProtection'
  BY <1>0, KeepsFrame DEF Quiet, Spoilt
<1>4. \A f \in Chosen : run.cmd # "publish" => original[f] = began[f]
  BY <1>0 DEF Quiet, QuietPlan
<1>5. QuietPlan'
  BY <1>0, <1>1, <1>2, <1>4 DEF Quiet, QuietPlan, Before, Undoing, Writing
<1>6. QuietEvidence' /\ QuietRollback'
  BY <1>0 DEF QuietEvidence, QuietRollback, Enumerated, Probed, Undoing
<1>7. Chosen \subseteq File /\ \A k \in DOMAIN written : written[k] \in File
  BY <1>0, ChosenAre DEF KeptInv, KeptTypes
<1>8. CASE pc' = "check"
  <2>1. written = <<>> /\ \A f \in File : AsFound(f)
    BY <1>0, <1>2, <1>8 DEF KeptInv, Quiet, QuietPlan
  <2>2. Ignored(Target, "private")
    BY <1>0, <1>8 DEF Quiet, QuietEvidence, Accepted, Probed
  <2>3. \A j \in DOMAIN Order : AsFound(Order[j])' /\ ~(j < 1)
    <3>1. \A j \in DOMAIN Order : Order[j] \in File /\ j \in {1, 2}
      BY <1>0, OrderIs DEF File
    <3> QED BY <1>0, <1>1, <2>1, <3>1 DEF AsFound
  <2>4. AsFound(Current)'
    BY <1>0, <1>1, <2>3, OrderIs DEF Current, AsFound
  <2>5. pc' \in Writing /\ ~AllPublished'
    BY <1>8 DEF Writing, AllPublished, Before
  <2>6. QuietFiles'
    BY <1>0, <1>1, <1>8, <2>1, <2>2, <2>3, <2>4, <2>5 DEF QuietFiles, AsFound
  <2> QED BY <1>3, <1>5, <1>6, <2>6 DEF Quiet
<1>9. CASE pc' = "done"
  <2>1. pc' \notin Writing /\ (AllPublished' => AllPublished)
    BY <1>0, <1>2, <1>9 DEF AllPublished, Writing, Before
  <2>2. \A k \in DOMAIN written : /\ Published(written[k])' <=> Published(written[k])
                                  /\ Copied(written[k])' <=> Copied(written[k])
    BY <1>0, <1>1, <1>7 DEF Published, Copied, Updated
  <2>3. QuietFiles'
    BY <1>0, <1>1, <1>7, <2>1, <2>2 DEF Quiet, QuietFiles, Published, Copied, AsFound, Listed, Updated
  <2> QED BY <1>3, <1>5, <1>6, <2>3 DEF Quiet
<1> QED BY <1>0, <1>8, <1>9

LEMMA QuietEvaluation ==
    ASSUME QuietInv, KeptInv, SafeInv, edits = 0, edits' = 0, Evaluation
    PROVE  Quiet'
<1> USE DEF Evaluate, Proceed, Goto
<1>1. /\ UNCHANGED <<live, copies, tracked, run, original, began, mishap, edits>>
      /\ pc \in Before \ {"scope", "prepare"}
  BY DEF Evaluation, CaptureIndex, Enumerate, Probe, ProbeAgain, Revalidate, Judge,
     ReadSource, RereadSource, disk, world, plan, user, Before
<1>2. CASE Reject
  BY <1>1, <1>2, QuietReject
<1>3. CASE Judge /\ ~Reject
  BY <1>3, QuietJudged
<1>4. CASE ~Judge /\ ~Reject
  <2>1. QuietEvidence'
    BY <1>4, QuietEvidenceGathered
  <2>2. UNCHANGED <<round, written>> /\ pc' \in Before \ {"scope", "prepare"}
    BY <1>4 DEF Evaluation, CaptureIndex, Enumerate, Probe, ProbeAgain, Revalidate,
       ReadSource, RereadSource, Before
  <2> QED BY <1>1, <2>1, <2>2, QuietInside DEF QuietInv
<1> QED BY <1>2, <1>3, <1>4

\* What is known while a file is being published.
LEMMA QuietWriting ==
    ASSUME QuietInv, KeptInv, edits = 0, pc \in Writing
    PROVE  /\ Quiet /\ run.cmd = "install" /\ mishap = "none" /\ run \in Runs
           /\ at \in DOMAIN Order /\ Current \in Chosen /\ Current \in File /\ Chosen \subseteq File
           /\ \A j \in DOMAIN Order : Order[j] \in Chosen /\ Order[j] \in File
           /\ \A i, j \in DOMAIN Order : Order[i] = Order[j] => i = j
           /\ original[Current] = began[Current] /\ began[Current] \in Content(0)
           /\ Updated(Current) # NoFile
           /\ written \in Seq(File)
           /\ \A k \in DOMAIN written : written[k] \in File \ {Current}
           /\ pc \notin Before \union Undoing \union Ended \union {"staging"}
<1>1. /\ Quiet /\ run \in Runs /\ at \in DOMAIN Order
      /\ written \in Seq(File)
      /\ \A k \in DOMAIN written : written[k] # Order[at]
  <2>1. Quiet /\ run \in Runs /\ at \in DOMAIN Order /\ written \in Seq(File)
    BY DEF QuietInv, KeptInv, KeptTypes, Ahead
  <2>2. at <= at
    BY <2>1, OrderIs
  <2> QED BY <2>1, <2>2 DEF KeptInv, Ahead
<1>2. /\ pc \notin Before \union Undoing \union Ended \union {"staging"}
  BY DEF Writing, Before, Undoing, Ended
<1>3. run.cmd = "install" /\ mishap = "none"
  BY <1>1 DEF Quiet, QuietPlan
<1>4. /\ Chosen \subseteq File /\ Current \in Chosen
      /\ \A j \in DOMAIN Order : Order[j] \in Chosen
      /\ \A i, j \in DOMAIN Order : Order[i] = Order[j] => i = j
  BY <1>1, ChosenAre DEF Current
<1>5. original[Current] = began[Current]
  BY <1>1, <1>2, <1>3, <1>4 DEF Quiet, QuietPlan, Before, Ended
<1>6. began[Current] \in Content(0)
  BY <1>4 DEF QuietInv
<1>7. Updated(Current) # NoFile
  BY <1>5, <1>6, UpsertIs DEF Updated
<1>8. \A k \in DOMAIN written : written[k] \in File \ {Current}
  BY <1>1 DEF Current
<1> QED BY <1>1, <1>2, <1>3, <1>4, <1>5, <1>6, <1>7, <1>8

LEMMA QuietReversible ==
    ASSUME QuietInv, KeptInv, edits = 0, pc \in Writing, AsFound(Current)
    PROVE  Reversible
<1>1. \A k \in DOMAIN written : Published(written[k]) /\ Copied(written[k])
  BY QuietWriting DEF Quiet, QuietFiles
<1>2. ASSUME NEW f \in File PROVE Listed(f) \/ AsFound(f)
  <2>1. CASE f \notin Chosen
    BY <2>1, QuietWriting DEF Quiet, QuietFiles
  <2>2. CASE f \in Chosen
    <3>1. PICK j \in DOMAIN Order : Order[j] = f
      BY <2>2, QuietWriting, ChosenAre
    <3>2. j = at \/ j < at \/ j > at
      BY QuietWriting, OrderIs
    <3>3. j = at => AsFound(f)
      BY <3>1 DEF Current
    <3> QED BY <3>1, <3>2, <3>3, QuietWriting DEF Quiet, QuietFiles
  <2> QED BY <2>1, <2>2
<1> QED BY <1>1, <1>2 DEF Reversible

LEMMA QuietNext ==
    ASSUME QuietInv, KeptInv, edits = 0, edits' = 0, pc \in Writing, NextFile,
           UNCHANGED <<live, copies, tracked, run, original, began, mishap>>,
           Published(Current),
           \/ written' = written /\ AsFound(Current)
           \/ written' = Append(written, Current) /\ Copied(Current)
    PROVE  Quiet'
<1>0. /\ Quiet /\ run.cmd = "install" /\ mishap = "none" /\ run \in Runs
      /\ at \in DOMAIN Order /\ Current \in Chosen /\ Chosen \subseteq File
      /\ \A j \in DOMAIN Order : Order[j] \in Chosen
      /\ written \in Seq(File) /\ \A k \in DOMAIN written : written[k] \in File
  BY QuietWriting
<1>1. /\ Order' = Order /\ Chosen' = Chosen /\ Target' = Target
      /\ \A f \in File : /\ Published(f)' <=> Published(f)
                         /\ AsFound(f)' <=> AsFound(f)
                         /\ Copied(f)' <=> Copied(f)
  <2>1. UNCHANGED <<run, original, began>> /\ live' = live /\ copies' = copies
    OBVIOUS
  <2> QED BY <2>1, QuietFrame
<1>2. \/ at = Len(Order) /\ pc' = "staging"
      \/ at # Len(Order) /\ pc' = "check" /\ at' = at + 1
  BY DEF NextFile, Goto
<1>3. /\ \A k \in DOMAIN written : k \in DOMAIN written' /\ written'[k] = written[k]
      /\ \A k \in DOMAIN written' \ DOMAIN written :
           /\ k = Len(written) + 1 /\ written'[k] = Current
           /\ Copied(Current) /\ written' = Append(written, Current)
      /\ written' = Append(written, Current) =>
           Len(written) + 1 \in DOMAIN written' /\ written'[Len(written) + 1] = Current
  <2>1. CASE written' = written /\ AsFound(Current)
    <3>1. written' # Append(written, Current)
      <4>1. Len(Append(written, Current)) = Len(written) + 1 /\ Len(written) \in Nat
        BY <1>0, AppendProperties
      <4> QED BY <2>1, <4>1
    <3> QED BY <2>1, <3>1
  <2>2. CASE written' = Append(written, Current) /\ Copied(Current)
    BY <1>0, <2>2, AppendProperties
  <2> QED BY <2>1, <2>2
<1> PICK c \in File : c = Current
  BY <1>0
<1>4. \A f \in File : Listed(f) => Listed(f)'
  BY <1>3 DEF Listed
<1>5. Listed(c)' \/ AsFound(c)
  BY <1>3 DEF Listed
<1>6. /\ \A k \in DOMAIN written' : written'[k] \in Chosen
      /\ (\A k \in DOMAIN written : Published(written[k]) /\ Copied(written[k]))'
  <2>1. \A k \in DOMAIN written : Published(written[k]) /\ Copied(written[k])
    BY <1>0 DEF Quiet, QuietFiles
  <2>2. ASSUME NEW k \in DOMAIN written'
        PROVE  written'[k] \in Chosen /\ (Published(written[k]) /\ Copied(written[k]))'
    <3> PICK f : f = written'[k]
      OBVIOUS
    <3>1. f \in Chosen /\ f \in File /\ Published(f) /\ Copied(f)
      BY <1>0, <1>3, <2>1 DEF Quiet, QuietFiles
    <3>2. Published(f)' /\ Copied(f)'
      BY <1>1, <3>1
    <3> QED BY <3>1, <3>2 DEF Published, Copied, Updated
  <2> QED BY <2>2
<1>7. \A i, k \in DOMAIN written' : i < k => written'[k] = "gitignore"
  <2> SUFFICES ASSUME NEW i \in DOMAIN written', NEW k \in DOMAIN written', i < k
               PROVE  written'[k] = "gitignore"
    OBVIOUS
  <2>1. CASE k \in DOMAIN written
    <3>1. i \in DOMAIN written
      BY <1>0, <1>3, <2>1
    <3> QED BY <1>0, <1>3, <2>1, <3>1 DEF Quiet, QuietFiles
  <2>2. CASE k \notin DOMAIN written
    <3>1. written'[k] = Current /\ i \in DOMAIN written
      BY <1>0, <1>3, <2>2
    <3>2. PICK j \in DOMAIN Order : j < at
      BY <1>0, <3>1 DEF Quiet, QuietFiles
    <3>3. at = 2 /\ Order[2] = "gitignore"
      BY <1>0, <3>2, OrderIs
    <3> QED BY <3>1, <3>3 DEF Current
  <2> QED BY <2>1, <2>2
<1>8. /\ \A f \in File \ Chosen : AsFound(f)'
      /\ \A j \in DOMAIN Order : j <= at =>
            \E f \in File : f = Order[j] /\ Published(f)' /\ (Listed(f)' \/ AsFound(f)')
  <2>1. \A f \in File \ Chosen : AsFound(f)'
    BY <1>0, <1>1 DEF Quiet, QuietFiles
  <2>2. ASSUME NEW j \in DOMAIN Order, j <= at
        PROVE  \E f \in File : f = Order[j] /\ Published(f)' /\ (Listed(f)' \/ AsFound(f)')
    <3> PICK f : f = Order[j]
      OBVIOUS
    <3>1. f \in File
      BY <1>0
    <3>2. j = at \/ j < at
      BY <1>0, <2>2, OrderIs
    <3>3. CASE j = at
      BY <1>1, <1>5, <3>1, <3>3 DEF Current
    <3>4. CASE j < at
      <4>1. Published(f) /\ (Listed(f) \/ AsFound(f))
        BY <1>0, <3>4 DEF Quiet, QuietFiles
      <4> QED BY <1>1, <1>4, <3>1, <4>1
    <3> QED BY <3>2, <3>3, <3>4
  <2> QED BY <2>1, <2>2
<1>9. KeepsProtection'
  BY KeepsFrame, <1>0 DEF Quiet, Spoilt
<1>10. /\ pc' \in {"staging", "check"}
       /\ pc' \notin Before \union Undoing \union Enumerated \union Probed
              \union {"failed", "scope", "prepare", "done"}
  BY <1>2 DEF Before, Undoing, Enumerated, Probed
<1>11. QuietPlan'
  BY <1>0, <1>1, <1>10 DEF Quiet, QuietPlan, Writing
<1>12. QuietEvidence' /\ QuietRollback'
  BY <1>10 DEF QuietEvidence, QuietRollback
<1>13. CASE at = Len(Order) /\ pc' = "staging"
  <2>1. ASSUME NEW f \in Chosen PROVE Published(f)' /\ (Listed(f)' \/ AsFound(f)')
    <3>1. PICK j \in DOMAIN Order : Order[j] = f
      BY <1>0, ChosenAre
    <3>2. j <= at
      BY <1>0, <1>13, OrderIs
    <3> QED BY <1>8, <3>1, <3>2
  <2>2. pc' \notin Writing
    BY <1>13 DEF Writing
  <2>4. (\A f \in Chosen : Published(f) /\ (Listed(f) \/ AsFound(f)))'
    BY <1>1, <2>1
  <2>5. (\A f \in File \ Chosen : AsFound(f))'
    BY <1>1, <1>8
  <2>6. (\A k \in DOMAIN written : written[k] \in Chosen)'
    BY <1>1, <1>6
  <2>3. QuietFiles'
    BY <1>6, <1>7, <2>2, <2>4, <2>5, <2>6 DEF QuietFiles
  <2> QED BY <1>9, <1>11, <1>12, <2>3 DEF Quiet
<1>14. CASE at # Len(Order) /\ pc' = "check" /\ at' = at + 1
  <2>1. at' \in DOMAIN Order /\ \A j \in DOMAIN Order : (j < at' <=> j <= at) /\ (j > at' => j > at)
    BY <1>0, <1>14, OrderIs
  <2>2. ~AllPublished' /\ pc' \in Writing
    BY <1>14 DEF AllPublished, Before, Writing
  <2>3. \A k \in DOMAIN written' : \E j \in DOMAIN Order : j < at' /\ written'[k] = Order[j]
    <3> SUFFICES ASSUME NEW k \in DOMAIN written'
                 PROVE  \E j \in DOMAIN Order : j <= at /\ written'[k] = Order[j]
      BY <2>1
    <3>1. CASE k \in DOMAIN written
      <4>1. PICK j \in DOMAIN Order : j < at /\ written[k] = Order[j]
        BY <1>0, <3>1 DEF Quiet, QuietFiles
      <4>2. j <= at
        BY <1>0, <4>1, OrderIs
      <4> QED BY <1>3, <3>1, <4>1, <4>2
    <3>2. CASE k \notin DOMAIN written
      <4>1. at <= at
        BY <1>0, OrderIs
      <4> QED BY <1>0, <1>3, <3>2, <4>1 DEF Current
    <3> QED BY <3>1, <3>2
  <2>4. \A j \in DOMAIN Order : j > at => \E f \in File : f = Order[j] /\ AsFound(f)'
    <3> SUFFICES ASSUME NEW j \in DOMAIN Order, j > at
                 PROVE  \E f \in File : f = Order[j] /\ AsFound(f)'
      OBVIOUS
    <3> PICK f : f = Order[j]
      OBVIOUS
    <3>1. f \in File /\ AsFound(f)
      BY <1>0 DEF Quiet, QuietFiles
    <3> QED BY <1>1, <3>1
  <2>5. \E f \in File : f = Order'[at'] /\ AsFound(f)'
    BY <1>0, <1>1, <1>14, <2>1, <2>4, OrderIs
  <2>6. Ignored(Target, "private")'
    BY <1>0, <1>1 DEF Quiet, QuietFiles
  <2>7. (\A j \in DOMAIN Order :
            /\ j < at => Published(Order[j]) /\ (Listed(Order[j]) \/ AsFound(Order[j]))
            /\ j > at => AsFound(Order[j]))'
    BY <1>1, <1>8, <2>1, <2>4 DEF Published, Updated, Listed, AsFound
  <2>8. AsFound(Current)'
    BY <2>5 DEF AsFound, Current
  <2>9. (\A f \in File \ Chosen : AsFound(f))' /\ (\A k \in DOMAIN written : written[k] \in Chosen)'
    BY <1>1, <1>6, <1>8
  <2>10. (\A k \in DOMAIN written : \E j \in DOMAIN Order : j < at /\ written[k] = Order[j])'
    BY <1>1, <2>3
  <2>11. QuietFiles'
    BY <1>6, <1>7, <1>14, <2>2, <2>6, <2>7, <2>8, <2>9, <2>10 DEF QuietFiles
  <2> QED BY <1>9, <1>11, <1>12, <2>11 DEF Quiet
<1> QED BY <1>2, <1>13, <1>14

\* A step within the publication of one file.
LEMMA QuietForward ==
    ASSUME QuietInv, KeptInv, edits = 0, pc \in Writing,
           UNCHANGED <<tracked, run, original, began, at, written, mishap>>,
           NEW c, c = Current,
           \A g \in File \ {c} : live'[g] = live[g] /\ copies'[g].backup = copies[g].backup,
           pc' \in {"swap", "link", "displaced", "sync"},
           pc' = "swap" => live'[c] = began[c],
           pc' = "link" => ~run.exchange /\ live'[c] = NoFile,
           pc' \in {"link", "displaced"} => copies'[c].backup = original[c],
           pc' \in {"displaced", "sync"} => live'[c] = Updated(c),
           pc' = "sync" => original[c] = NoFile \/ copies'[c].backup = original[c],
           KeepsProtection'
    PROVE  Quiet'
<1>0. /\ Quiet /\ run.cmd = "install" /\ mishap = "none" /\ run \in Runs
      /\ at \in DOMAIN Order /\ c \in Chosen /\ c \in File /\ Chosen \subseteq File
      /\ \A j \in DOMAIN Order : Order[j] \in File /\ (Order[j] = c => j = at) /\ Order[at] = c
      /\ \A k \in DOMAIN written : written[k] \in File \ {c}
  BY QuietWriting DEF Current
<1>1. /\ Order' = Order /\ Chosen' = Chosen /\ Target' = Target
      /\ \A f \in File \ {c} : /\ Published(f)' <=> Published(f)
                               /\ AsFound(f)' <=> AsFound(f)
                               /\ Copied(f)' <=> Copied(f)
                               /\ Listed(f)' <=> Listed(f)
  <2>1. UNCHANGED <<run, original, began>> /\ written' = written
    OBVIOUS
  <2> QED BY <2>1, QuietFrame
<1>2. /\ pc' \in Writing
      /\ pc' \notin Before \union Undoing \union Enumerated \union Probed
             \union {"failed", "scope", "prepare", "done", "staging", "check"}
      /\ ~AllPublished'
  BY DEF Writing, Before, Undoing, Enumerated, Probed, AllPublished
<1>3. QuietPlan' /\ QuietEvidence' /\ QuietRollback'
  <2>2. pc \notin {"scope", "prepare", "refused", "dead"}
    BY DEF Writing
  <2>3. \A f \in Chosen : original[f] = began[f]
    BY <1>0, <2>2 DEF Quiet, QuietPlan
  <2>1. QuietPlan'
    BY <1>0, <1>1, <1>2, <2>3 DEF QuietPlan
  <2> QED BY <1>2, <2>1 DEF QuietEvidence, QuietRollback
<1>4. (\A k \in DOMAIN written : Published(written[k]) /\ Copied(written[k]))'
  BY <1>0, <1>1 DEF Quiet, QuietFiles, Published, Copied, Updated
<1>5. (\A f \in File \ Chosen : AsFound(f))'
  BY <1>0, <1>1 DEF Quiet, QuietFiles
<1>6. (\A j \in DOMAIN Order :
          /\ j < at => Published(Order[j]) /\ (Listed(Order[j]) \/ AsFound(Order[j]))
          /\ j > at => AsFound(Order[j]))'
  <2> SUFFICES ASSUME NEW j \in DOMAIN Order
               PROVE  (/\ j < at => Published(Order[j]) /\ (Listed(Order[j]) \/ AsFound(Order[j]))
                       /\ j > at => AsFound(Order[j]))'
    BY <1>1
  <2> PICK f : f = Order[j]
    OBVIOUS
  <2>1. CASE j = at
    <3>1. ~(j < at) /\ ~(j > at)
      BY <1>0, <2>1, OrderIs
    <3> QED BY <3>1
  <2>2. CASE j # at
    <3>1. /\ f \in File \ {c}
          /\ j < at => Published(f) /\ (Listed(f) \/ AsFound(f))
          /\ j > at => AsFound(f)
      BY <1>0, <2>2 DEF Quiet, QuietFiles
    <3>2. /\ j < at => Published(f)' /\ (Listed(f)' \/ AsFound(f)')
          /\ j > at => AsFound(f)'
      BY <1>1, <3>1
    <3> QED BY <1>1, <3>2 DEF Published, Updated, Listed, AsFound
  <2> QED BY <2>1, <2>2
<1>7. /\ Ignored(Target, "private")'
      /\ (\A k \in DOMAIN written : written[k] \in Chosen)'
      /\ (\A i, k \in DOMAIN written : i < k => written[k] = "gitignore")'
      /\ (\A k \in DOMAIN written : \E j \in DOMAIN Order : j < at /\ written[k] = Order[j])'
  BY <1>0, <1>1 DEF Quiet, QuietFiles
<1>8. /\ Current' = c
      /\ pc' = "swap" => AsFound(Current)'
      /\ pc' = "link" => ~run'.exchange /\ live'[c] = NoFile
      /\ pc' \in {"link", "displaced"} => copies'[c].backup = original'[c]
      /\ pc' \in {"displaced", "sync"} => Published(Current)'
      /\ pc' = "sync" => Copied(Current)'
  BY <1>0, <1>1 DEF Current, AsFound, Published, Copied, Updated
<1>9. QuietFiles'
  BY <1>2, <1>4, <1>5, <1>6, <1>7, <1>8 DEF QuietFiles
<1> QED BY <1>3, <1>9 DEF Quiet

\* Publishing a file does not uncover the private path.
LEMMA QuietHidden ==
    ASSUME QuietInv, KeptInv, edits = 0, pc \in Writing,
           UNCHANGED <<tracked, run, began, mishap>>,
           NEW c, c = Current, live'[c] = Updated(c),
           \A g \in File \ {c} : live'[g] = live[g]
    PROVE  KeepsProtection'
<1>0. /\ Quiet /\ run \in Runs /\ mishap = "none"
      /\ at \in DOMAIN Order /\ c \in Chosen /\ c \in File /\ Chosen \subseteq File
      /\ \A j \in DOMAIN Order : Order[j] \in Chosen
      /\ original[c] = began[c] /\ began \in [File -> Content(0)]
  BY QuietWriting DEF QuietInv
<1>1. live'[c] = Upsert(began[c]) /\ Target[c] = Upsert(began[c])
  BY <1>0 DEF Updated, Target
<1>2. Ignored(Target, "private") /\ \A f \in File \ Chosen : live[f] = began[f] /\ Target[f] = began[f]
  BY <1>0 DEF Quiet, QuietFiles, AsFound, Target
<1>3. SUFFICES ASSUME Ignored(began, "private") PROVE Ignored(live', "private")
  BY DEF KeepsProtection, Protected
<1>4. CASE DOMAIN Order = {1}
  <2>1. \A f \in Chosen : f = c
    BY <1>0, <1>4, ChosenAre DEF Current
  <2>2. \A f \in File : live'[f] = Target[f]
    BY <1>1, <1>2, <2>1
  <2> QED BY <1>2, <2>2, TargetHidden
<1>5. CASE DOMAIN Order = {1, 2} /\ Order[1] = "exclude" /\ Order[2] = "gitignore"
  <2>1. CASE at = 1
    <3>1. c = "exclude" /\ live["gitignore"] = began["gitignore"]
      BY <1>0, <1>5, <2>1 DEF Quiet, QuietFiles, Current, AsFound
    <3> QED BY <1>0, <1>1, <1>3, <3>1, ExcludeUpdated DEF File
  <2>2. CASE at = 2
    <3>1. c = "gitignore" /\ live["exclude"] = Updated("exclude")
      BY <1>0, <1>5, <2>2 DEF Quiet, QuietFiles, Current, Published
    <3>2. "exclude" \in Chosen /\ original["exclude"] = began["exclude"]
      <4>1. "exclude" \in Chosen
        BY <1>0, <1>5
      <4>2. run.cmd = "install" /\ pc \notin {"scope", "prepare", "refused", "dead"}
        BY QuietWriting DEF Before, Ended
      <4> QED BY <1>0, <4>1, <4>2 DEF Quiet, QuietPlan
    <3>3. \A f \in File : live'[f] = Target[f]
      BY <1>1, <3>1, <3>2 DEF Target, Updated, File
    <3> QED BY <1>2, <3>3, TargetHidden
  <2> QED BY <1>0, <1>5, <2>1, <2>2
<1> QED BY <1>0, <1>4, <1>5, OrderIs

\* A failure of the publication.
LEMMA QuietFails ==
    ASSUME QuietInv, KeptInv, edits = 0, edits' = 0,
           pc \in Writing \union {"staging"}, Fail, Reversible \/ mishap' = "sync",
           mishap' \in {"recovery", "staging", "sync"},
           UNCHANGED <<live, copies, tracked, run, original, began>>
    PROVE  Quiet'
<1>1. /\ Quiet /\ run.cmd = "install" /\ mishap = "none"
      /\ pc \notin {"scope", "prepare", "refused", "dead"}
  BY DEF QuietInv, Quiet, QuietPlan, Writing
<1>2. /\ UNCHANGED written
      /\ \/ pc' = "undo" /\ at' = Len(written) /\ written # <<>>
         \/ pc' = "failed" /\ written = <<>>
  BY DEF Fail, Goto
<1>3. ~Spoilt' => ~Spoilt /\ Reversible
  BY <1>1 DEF Spoilt
<1> QED BY <1>1, <1>2, <1>3, QuietFall

LEMMA QuietCheckFile ==
    ASSUME QuietInv, KeptInv, edits = 0, edits' = 0, CheckFile PROVE Quiet'
<1>1. /\ pc = "check" /\ pc \in Writing /\ AsFound(Current)
      /\ original[Current] = began[Current] /\ Current \in File
      /\ UNCHANGED <<live, tracked, run, original, began>>
  <2>1. pc = "check" /\ pc \in Writing /\ UNCHANGED <<live, tracked, run, original, began>>
    BY DEF CheckFile, StageInRecoveryDir, Writing, Publishing, world, plan, user, disk
  <2> QED BY <2>1, QuietWriting DEF Quiet, QuietFiles
<1>2. live[Current] = original[Current]
  BY <1>1 DEF AsFound
<1>3. CASE live[Current] = Updated(Current) /\ NextFile /\ UNCHANGED <<disk, written, mishap>>
  BY <1>1, <1>3, QuietNext DEF disk, Published
<1>4. CASE Fails("recovery") /\ Fail /\ UNCHANGED disk
  BY <1>1, <1>4, QuietFails, QuietReversible DEF Fails, disk
<1>5. CASE /\ copies' = [copies EXCEPT ![Current].staged = Updated(Current)]
           /\ pc' = "swap" /\ UNCHANGED <<live, handle, mishap, round, at, evidence, written>>
  <2> PICK c \in File : c = Current
    BY <1>1
  <2>1. copies = [f \in File |-> [s \in Slots |-> copies[f][s]]]
    BY DEF KeptInv, KeptTypes
  <2>2. Wrote(c, "staged", Updated(c)) /\ "staged" \in Slots /\ "backup" \in Slots
    BY <1>5 DEF Wrote, Slots
  <2>3. \A g \in File : copies'[g].backup = copies[g].backup
    BY <2>1, <2>2, SlotWritten
  <2>4. Quiet
    BY DEF QuietInv
  <2>5. KeepsProtection'
    BY <1>1, <1>5, <2>4, KeepsFrame DEF Quiet, Spoilt
  <2> QED BY <1>1, <1>5, <2>3, <2>5, QuietForward DEF AsFound
<1> QED BY <1>2, <1>3, <1>4, <1>5 DEF CheckFile, StageInRecoveryDir, Goto

LEMMA QuietExchange ==
    ASSUME QuietInv, KeptInv, edits = 0, edits' = 0, Exchange PROVE Quiet'
<1>1. /\ pc = "swap" /\ pc \in Writing
      /\ UNCHANGED <<tracked, run, original, began, mishap>>
      /\ original[Current] # NoFile
  BY DEF Exchange, Writing, Publishing, world, plan, user
<1> PICK c \in File : c = Current
  BY <1>1, QuietWriting
<1>2. live[c] = original[c] /\ live[c] # NoFile
  BY <1>1, QuietWriting DEF Quiet, QuietFiles, AsFound
<1>3. /\ live' = [live EXCEPT ![c] = Updated(c)]
      /\ copies' = [copies EXCEPT ![c] = [NoCopies EXCEPT !.backup = live[c]]]
      /\ pc' = "displaced" /\ UNCHANGED <<at, written>>
  BY <1>2 DEF Exchange, Goto
<1>4. /\ live = [g \in File |-> live[g]]
      /\ copies = [g \in File |-> [s \in Slots |-> copies[g][s]]]
  BY DEF KeptInv, KeptTypes
<1>5. [NoCopies EXCEPT !.backup = live[c]].backup = live[c]
  BY DEF NoCopies, Slots
<1>6. /\ live'[c] = Updated(c) /\ copies'[c].backup = live[c]
      /\ \A g \in File \ {c} : live'[g] = live[g] /\ copies'[g].backup = copies[g].backup
  BY <1>3, <1>4, <1>5
<1>7. KeepsProtection'
  BY <1>1, <1>6, QuietHidden
<1> QED BY <1>1, <1>2, <1>3, <1>6, <1>7, QuietForward

LEMMA QuietCreate ==
    ASSUME QuietInv, KeptInv, edits = 0, edits' = 0, Create PROVE Quiet'
<1>1. /\ pc = "swap" /\ pc \in Writing
      /\ UNCHANGED <<tracked, run, original, began, mishap>>
      /\ original[Current] = NoFile
  BY DEF Create, Writing, Publishing, world, plan, user
<1> PICK c \in File : c = Current
  BY <1>1, QuietWriting
<1>2. live[c] = NoFile
  BY <1>1, QuietWriting DEF Quiet, QuietFiles, AsFound
<1>3. /\ live' = [live EXCEPT ![c] = Updated(c)]
      /\ pc' = "sync" /\ UNCHANGED <<at, written>>
  BY <1>2 DEF Create, Goto
<1>4. /\ live = [g \in File |-> live[g]]
      /\ copies = [g \in File |-> [s \in Slots |-> copies[g][s]]]
  BY DEF KeptInv, KeptTypes
<1>5. \A g \in File \ {c} : copies'[g] = copies[g]
  <2>1. copies' = [copies EXCEPT ![c].backup = Updated(c), ![c].staged =
                     IF live[c] = NoFile THEN NoFile ELSE copies[c].staged]
    BY <1>4 DEF Create, Slots
  <2>2. PICK b, t : copies' = [copies EXCEPT ![c].backup = b, ![c].staged = t]
    BY <2>1
  <2> QED BY <1>4, <2>2
<1>6. /\ live'[c] = Updated(c)
      /\ \A g \in File \ {c} : live'[g] = live[g] /\ copies'[g].backup = copies[g].backup
  BY <1>3, <1>4, <1>5
<1>7. KeepsProtection'
  BY <1>1, <1>6, QuietHidden
<1> QED BY <1>1, <1>3, <1>6, <1>7, QuietForward

\* Where files cannot be exchanged, nothing is claimed of the moments between.
LEMMA NoExchange ==
    ASSUME ~run.exchange, UNCHANGED run PROVE KeepsProtection'
BY DEF KeepsProtection

LEMMA QuietCapture ==
    ASSUME QuietInv, KeptInv, edits = 0, edits' = 0, Capture PROVE Quiet'
<1>1. /\ pc = "swap" /\ pc \in Writing /\ ~run.exchange
      /\ UNCHANGED <<tracked, run, original, began, mishap>>
      /\ original[Current] # NoFile
  BY DEF Capture, Writing, Publishing, world, plan, user
<1> PICK c \in File : c = Current
  BY <1>1, QuietWriting
<1>2. live[c] = original[c] /\ live[c] # NoFile
  BY <1>1, QuietWriting DEF Quiet, QuietFiles, AsFound
<1>3. /\ live' = [live EXCEPT ![c] = NoFile]
      /\ Wrote(c, "backup", live[c])
      /\ pc' = "link" /\ UNCHANGED <<at, written>>
  BY <1>2 DEF Capture, Goto, Wrote
<1>4. /\ live = [g \in File |-> live[g]]
      /\ copies = [g \in File |-> [s \in Slots |-> copies[g][s]]]
      /\ "backup" \in Slots
  BY DEF KeptInv, KeptTypes, Slots
<1>5. /\ live'[c] = NoFile /\ copies'[c].backup = live[c]
      /\ \A g \in File \ {c} : live'[g] = live[g] /\ copies'[g].backup = copies[g].backup
  BY <1>3, <1>4, SlotWritten
<1> QED BY <1>1, <1>2, <1>3, <1>5, NoExchange, QuietForward

LEMMA QuietLink ==
    ASSUME QuietInv, KeptInv, edits = 0, edits' = 0, Link PROVE Quiet'
<1>1. /\ pc = "link" /\ pc \in Writing
      /\ UNCHANGED <<tracked, run, original, began, mishap>>
  BY DEF Link, Writing, Publishing, world, plan, user
<1> PICK c \in File : c = Current
  BY <1>1, QuietWriting
<1>2. live[c] = NoFile /\ copies[c].backup = original[c] /\ ~run.exchange
  BY <1>1, QuietWriting DEF Quiet, QuietFiles
<1>3. /\ live' = [live EXCEPT ![c] = Updated(c)]
      /\ Wrote(c, "staged", NoFile)
      /\ pc' = "displaced" /\ UNCHANGED <<at, written>>
  BY <1>2 DEF Link, Goto, Wrote
<1>4. /\ live = [g \in File |-> live[g]]
      /\ copies = [g \in File |-> [s \in Slots |-> copies[g][s]]]
      /\ "backup" \in Slots /\ "staged" \in Slots
  BY DEF KeptInv, KeptTypes, Slots
<1>5. \A g \in File : copies'[g].backup = copies[g].backup
  BY <1>3, <1>4, SlotWritten
<1>6. /\ live'[c] = Updated(c)
      /\ \A g \in File \ {c} : live'[g] = live[g]
  BY <1>3, <1>4
<1>7. KeepsProtection'
  BY <1>1, <1>2, NoExchange
<1> QED BY <1>1, <1>2, <1>3, <1>5, <1>6, <1>7, QuietForward

LEMMA QuietCompare ==
    ASSUME QuietInv, KeptInv, edits = 0, edits' = 0, CompareDisplaced PROVE Quiet'
<1>1. /\ pc = "displaced" /\ pc \in Writing
      /\ UNCHANGED <<live, copies, tracked, run, original, began, mishap>>
  BY DEF CompareDisplaced, Writing, Publishing, world, plan, user, disk
<1>2. copies[Current].backup = original[Current] /\ live[Current] = Updated(Current)
  BY <1>1, QuietWriting DEF Quiet, QuietFiles, Published
<1>3. pc' = "sync" /\ UNCHANGED <<at, written>>
  BY <1>2 DEF CompareDisplaced, Goto
<1>4. KeepsProtection'
  BY <1>1, KeepsFrame DEF QuietInv, Quiet, Spoilt
<1> PICK c \in File : c = Current
  BY <1>1, QuietWriting
<1> QED BY <1>1, <1>2, <1>3, <1>4, QuietForward

LEMMA QuietSync ==
    ASSUME QuietInv, KeptInv, edits = 0, edits' = 0, SyncDirectories PROVE Quiet'
<1>1. /\ pc = "sync" /\ pc \in Writing
      /\ UNCHANGED <<live, copies, tracked, run, original, began>>
  BY DEF SyncDirectories, Writing, Publishing, world, plan, user, disk
<1>2. Published(Current) /\ Copied(Current)
  BY <1>1, QuietWriting DEF Quiet, QuietFiles
<1>3. CASE Fails("sync") /\ Fail
  BY <1>1, <1>3, QuietFails DEF Fails
<1>4. CASE written' = Append(written, Current) /\ NextFile /\ UNCHANGED mishap
  BY <1>1, <1>2, <1>4, QuietNext
<1> QED BY <1>3, <1>4 DEF SyncDirectories

LEMMA QuietStaging ==
    ASSUME QuietInv, KeptInv, edits = 0, edits' = 0, CheckStaging PROVE Quiet'
<1>0. /\ pc = "staging" /\ Quiet /\ AllPublished /\ run.cmd = "install"
      /\ UNCHANGED <<live, copies, tracked, run, original, began>>
      /\ run \in Runs /\ \A k \in DOMAIN written : written[k] \in File
  BY DEF CheckStaging, Publishing, world, plan, user, disk, QuietInv, Quiet, QuietPlan,
     AllPublished, KeptInv, KeptTypes
<1>1. CASE Fails("staging") /\ Fail
  <2>1. Reversible
    BY <1>0 DEF Quiet, QuietFiles, Reversible
  <2> QED BY <1>0, <1>1, <2>1, QuietFails DEF Fails
<1>2. CASE round' = "after" /\ pc' = "classify" /\ UNCHANGED <<at, evidence, written, mishap>>
  <2>1. /\ Order' = Order /\ Chosen' = Chosen
        /\ \A f \in File : /\ Published(f)' <=> Published(f)
                           /\ AsFound(f)' <=> AsFound(f)
                           /\ Copied(f)' <=> Copied(f)
                           /\ Listed(f)' <=> Listed(f)
    <3>1. UNCHANGED <<run, original, began>> /\ live' = live /\ copies' = copies /\ written' = written
      BY <1>0, <1>2
    <3> QED BY <3>1, QuietFrame
  <2>2. KeepsProtection'
    BY <1>0, <1>2, KeepsFrame DEF Quiet, Spoilt
  <2>3. QuietPlan'
    BY <1>0, <1>2, <2>1 DEF Quiet, QuietPlan, Before
  <2>4. pc' \notin Writing \union Undoing \union {"failed"}
    BY <1>2 DEF Writing, Undoing
  <2>5. (\A k \in DOMAIN written : Published(written[k]) /\ Copied(written[k]))'
    BY <1>0, <1>2, <2>1 DEF Quiet, QuietFiles, Published, Copied, Updated
  <2>6. Chosen \subseteq File
    BY <1>0, ChosenAre
  <2>7. QuietFiles'
    BY <1>0, <1>2, <2>1, <2>4, <2>5, <2>6 DEF Quiet, QuietFiles
  <2> QED BY <1>2, <2>2, <2>3, <2>4, <2>7 DEF Quiet, QuietEvidence, QuietRollback
<1> QED BY <1>1, <1>2 DEF CheckStaging, Goto

-----------------------------------------------------------------------------
(* The rollback.                                                           *)

LEMMA QuietBack ==
    ASSUME QuietInv, KeptInv, edits = 0, edits' = 0, pc \in Undoing,
           NEW f, f = written[at],
           \A g \in File \ {f} : live'[g] = live[g] /\ copies'[g].backup = copies[g].backup,
           UNCHANGED <<tracked, run, original, began, written>>,
           Undone \/ (pc' = "relink" /\ UNCHANGED at),
           ~Spoilt' =>
             /\ ~Spoilt
             /\ Undone => \/ live'[f] = began[f]
                          \/ began[f] = NoFile /\ live'[f] = Updated(f)
             /\ pc' = "relink" => /\ ~run.exchange /\ live'[f] = NoFile
                                 /\ copies'[f].backup = original[f],
           KeepsProtection'
    PROVE  Quiet'
<1>0. /\ Quiet /\ run \in Runs /\ run.cmd = "install"
      /\ at \in DOMAIN written /\ written \in Seq(File) /\ f \in File
      /\ \A k \in DOMAIN written : written[k] \in File /\ (written[k] = f => k = at)
  BY DEF QuietInv, Quiet, QuietPlan, KeptInv, KeptTypes, Behind
<1>1. /\ Chosen' = Chosen
      /\ \A g \in File \ {f} : /\ Published(g)' <=> Published(g)
                               /\ AsFound(g)' <=> AsFound(g)
                               /\ Copied(g)' <=> Copied(g)
      /\ \A g \in File : Listed(g)' <=> Listed(g)
  <2>1. UNCHANGED <<run, original, began>> /\ written' = written
    OBVIOUS
  <2> QED BY <2>1, QuietFrame
<1>2. \/ pc' = "relink" /\ at' = at
      \/ pc' = "undo" /\ at' = at - 1 /\ at # 1
      \/ pc' = "failed" /\ at' = at - 1 /\ at = 1
  <2>1. CASE Undone
    BY <2>1 DEF Undone, Goto
  <2>2. CASE pc' = "relink" /\ UNCHANGED at
    BY <2>2
  <2> QED BY <2>1, <2>2
<1>3. /\ pc' \notin Before \union Writing \union Enumerated \union Probed
             \union {"scope", "prepare", "done", "staging"}
      /\ ~AllPublished'
  BY <1>2 DEF Writing, Before, Enumerated, Probed, AllPublished
<1>4. QuietPlan' /\ QuietEvidence'
  <2>1. \A g \in Chosen : original[g] = began[g]
    BY <1>0 DEF Quiet, QuietPlan, Undoing
  <2>2. QuietPlan'
    BY <1>0, <1>1, <1>3, <2>1 DEF QuietPlan
  <2> QED BY <1>3, <2>2 DEF QuietEvidence
<1>5. QuietFiles'
  BY <1>0, <1>1, <1>3 DEF Quiet, QuietFiles
<1>6. ASSUME ~Spoilt' PROVE QuietRollback'
  <2>1. /\ \A k \in DOMAIN written :
             /\ k < at => Published(written[k]) /\ Copied(written[k])
             /\ k > at => \/ AsFound(written[k])
                          \/ began[written[k]] = NoFile /\ Published(written[k])
        /\ \A g \in File : Listed(g) \/ AsFound(g)
    BY <1>0, <1>6 DEF Quiet, QuietRollback
  <2>2. (\A k \in DOMAIN written : k < at \/ k > at =>
           /\ k < at => Published(written[k]) /\ Copied(written[k])
           /\ k > at => \/ AsFound(written[k])
                        \/ began[written[k]] = NoFile /\ Published(written[k]))
    BY <2>1
  <2>3. ASSUME NEW k \in DOMAIN written, k # at
        PROVE  /\ k < at => (Published(written[k]) /\ Copied(written[k]))'
               /\ k > at => (\/ AsFound(written[k])
                             \/ began[written[k]] = NoFile /\ Published(written[k]))'
    <3> PICK g : g = written[k]
      OBVIOUS
    <3>1. /\ g \in File \ {f}
          /\ k < at => Published(g) /\ Copied(g)
          /\ k > at => AsFound(g) \/ (began[g] = NoFile /\ Published(g))
      BY <1>0, <2>1, <2>3
    <3>2. /\ k < at => Published(g)' /\ Copied(g)'
          /\ k > at => AsFound(g)' \/ (began[g] = NoFile /\ Published(g)')
      BY <1>1, <3>1
    <3>3. written' = written /\ began' = began /\ original' = original
      OBVIOUS
    <3>4. written'[k] = g
      BY <3>3
    <3>5. (AsFound(written[k]) <=> AsFound(g))' /\ (Published(written[k]) <=> Published(g))'
            /\ (Copied(written[k]) <=> Copied(g))'
      BY <3>4 DEF Published, Copied, AsFound, Updated
    <3> QED BY <3>2, <3>3, <3>4, <3>5
  <2>4. ASSUME NEW g \in File PROVE Listed(g)' \/ AsFound(g)'
    <3>1. CASE g = f
      <4>1. Listed(g)
        BY <1>0, <3>1 DEF Listed
      <4> QED BY <1>1, <4>1
    <3>2. CASE g # f
      BY <1>1, <2>1, <3>2
    <3> QED BY <3>1, <3>2
  <2>5. at \in Nat /\ \A k \in DOMAIN written : k \in Nat /\ k >= 1
    BY <1>0
  <2>6. CASE pc' = "relink" /\ at' = at
    <3>1. ~run'.exchange /\ live'[f] = NoFile /\ copies'[f].backup = original[f]
      BY <1>6, <2>6
    <3>2. (\A k \in DOMAIN written :
              /\ k < at \/ (k = at /\ pc = "undo") => Published(written[k]) /\ Copied(written[k])
              /\ k > at => \/ AsFound(written[k])
                           \/ began[written[k]] = NoFile /\ Published(written[k])
              /\ k = at /\ pc = "relink" =>
                   /\ ~run.exchange /\ live[written[k]] = NoFile
                   /\ copies[written[k]].backup = original[written[k]])'
      BY <2>3, <2>5, <2>6, <3>1
    <3> QED BY <2>4, <2>6, <3>2 DEF QuietRollback
  <2>7. CASE pc' = "undo" /\ at' = at - 1 /\ at # 1
    <3>1. live'[f] = began[f] \/ (began[f] = NoFile /\ live'[f] = Updated(f))
      BY <1>6, <2>7 DEF Undone
    <3>3. (\A k \in DOMAIN written :
              /\ k < at \/ (k = at /\ pc = "undo") => Published(written[k]) /\ Copied(written[k])
              /\ k > at => \/ AsFound(written[k])
                           \/ began[written[k]] = NoFile /\ Published(written[k])
              /\ k = at /\ pc = "relink" =>
                   /\ ~run.exchange /\ live[written[k]] = NoFile
                   /\ copies[written[k]].backup = original[written[k]])'
      <4> SUFFICES ASSUME NEW k \in DOMAIN written
                   PROVE  /\ k <= at' => (Published(written[k]) /\ Copied(written[k]))'
                          /\ k > at' => (\/ AsFound(written[k])
                                         \/ began[written[k]] = NoFile /\ Published(written[k]))'
        BY <2>5, <2>7
      <4>1. CASE k = at
        <5>1. k > at' /\ ~(k <= at')
          BY <2>5, <2>7, <4>1
        <5>2. /\ written' = written /\ began' = began /\ Updated(f)' = Updated(f)
              /\ written'[k] = f
          BY <1>0, <4>1 DEF Updated
        <5>3. (AsFound(f) \/ (began[f] = NoFile /\ Published(f)))'
          BY <3>1, <5>2 DEF AsFound, Published
        <5>4. (AsFound(written[k]) \/ (began[written[k]] = NoFile /\ Published(written[k])))'
          BY <4>1, <5>2, <5>3 DEF AsFound, Published, Updated
        <5> QED BY <5>1, <5>4
      <4>2. CASE k # at
        <5>1. (k <= at' <=> k < at) /\ (k > at' <=> k > at)
          BY <2>5, <2>7, <4>2
        <5> QED BY <2>3, <4>2, <5>1
      <4> QED BY <4>1, <4>2
    <3> QED BY <2>4, <2>7, <3>3 DEF QuietRollback
  <2>8. CASE pc' = "failed" /\ at = 1
    <3>1. live'[f] = began[f] \/ (began[f] = NoFile /\ live'[f] = Updated(f))
      BY <1>2, <1>6, <2>8
    <3>2. ASSUME NEW g \in File PROVE AsFound(g)' \/ began'[g] = NoFile
      <4>1. CASE g = f
        BY <3>1, <4>1 DEF AsFound
      <4>2. CASE g # f /\ ~Listed(g)
        BY <1>1, <2>1, <4>2
      <4>3. CASE g # f /\ Listed(g)
        <5>1. PICK k \in DOMAIN written : written[k] = g
          BY <4>3 DEF Listed
        <5>2. k > at
          BY <1>0, <2>5, <2>8, <4>3, <5>1
        <5> QED BY <1>1, <2>1, <4>3, <5>1, <5>2
      <4> QED BY <4>1, <4>2, <4>3
    <3> QED BY <2>8, <3>2 DEF QuietRollback, Undoing
  <2> QED BY <1>2, <2>6, <2>7, <2>8
<1> QED BY <1>4, <1>5, <1>6 DEF Quiet, QuietRollback

\* A rollback by exchange puts the rules back in an order that hides the path.
LEMMA BackHides ==
    ASSUME QuietInv, KeptInv, edits = 0, pc = "undo", ~Spoilt, Ignored(began, "private"),
           NEW f, f = written[at], NEW new, new[f] = began[f],
           \A g \in File \ {f} : new[g] = live[g]
    PROVE  Ignored(new, "private")
<1>1. /\ Quiet /\ run \in Runs /\ at \in DOMAIN written /\ written \in Seq(File) /\ f \in Chosen
      /\ pc \in Undoing /\ Chosen \subseteq File /\ began \in [File -> Content(0)]
      /\ at \in Nat
      /\ \A k \in DOMAIN written : written[k] \in Chosen /\ (written[k] = f => k = at) /\ k \in Nat
      /\ \A g \in Chosen : original[g] = began[g]
  <2>1. pc \in Undoing /\ Quiet /\ began \in [File -> Content(0)] /\ run.cmd = "install"
    BY DEF QuietInv, Quiet, QuietPlan, Undoing
  <2>2. /\ run \in Runs /\ at \in DOMAIN written /\ written \in Seq(File)
        /\ \A k \in DOMAIN written : written[k] = f => k = at
    BY <2>1 DEF KeptInv, KeptTypes, Behind
  <2>3. \A k \in DOMAIN written : written[k] \in Chosen
    BY <2>1 DEF Quiet, QuietFiles
  <2>4. \A g \in Chosen : original[g] = began[g]
    BY <2>1 DEF Quiet, QuietPlan
  <2> QED BY <2>1, <2>2, <2>3, <2>4, ChosenAre
<1>2. ASSUME NEW g \in File \ {f}, live[g] # began[g]
      PROVE  /\ live[g] = Upsert(began[g])
             /\ began[g] = NoFile \/ g = "exclude"
  <2>1. Listed(g)
    BY <1>1, <1>2 DEF Quiet, QuietRollback, AsFound
  <2>2. PICK k \in DOMAIN written : written[k] = g
    BY <2>1 DEF Listed
  <2>3. k \in Nat /\ k # at /\ g \in Chosen /\ original[g] = began[g]
    BY <1>1, <1>2, <2>2
  <2>4. CASE k < at
    <3>1. Published(g) /\ f = "gitignore"
      BY <1>1, <2>2, <2>4 DEF Quiet, QuietRollback, QuietFiles
    <3> QED BY <1>2, <2>3, <3>1 DEF Published, Updated, File
  <2>5. CASE k > at
    <3>1. AsFound(g) \/ (began[g] = NoFile /\ Published(g))
      BY <1>1, <2>2, <2>5 DEF Quiet, QuietRollback
    <3> QED BY <1>2, <2>3, <3>1 DEF Published, Updated, AsFound
  <2> QED BY <1>1, <2>3, <2>4, <2>5
<1>3. CASE \A g \in File : new[g] = began[g]
  BY <1>3, SameRules
<1>4. ASSUME NEW g \in File \ {f}, live[g] # began[g] PROVE Ignored(new, "private")
  <2>1. /\ new[g] = Upsert(began[g]) /\ new[f] = began[f]
        /\ began[g] = NoFile \/ g = "exclude"
        /\ f \in File
    BY <1>1, <1>2, <1>4
  <2>2. CASE g = "exclude"
    BY <1>1, <2>1, <2>2, ExcludeUpdated DEF File
  <2>3. CASE g = "gitignore" /\ began[g] = NoFile
    BY <1>1, <2>1, <2>3, GitignoreCreated DEF File
  <2> QED BY <2>1, <2>2, <2>3 DEF File
<1> QED BY <1>1, <1>3, <1>4

LEMMA QuietUndo ==
    ASSUME QuietInv, KeptInv, edits = 0, edits' = 0, Rollback PROVE Quiet'
<1>1. /\ pc = "undo" /\ pc \in Undoing /\ Quiet /\ run.cmd = "install"
      /\ UNCHANGED <<tracked, run, original, began, written>>
      /\ began \in [File -> Content(0)] /\ began' = began /\ edits' = edits
      /\ tracked' = tracked /\ run' = run
  BY DEF Rollback, Undoing, Undone, Publishing, world, plan, user, QuietInv, Quiet, QuietPlan
<1>2. /\ at \in DOMAIN written /\ written[at] \in Chosen /\ run \in Runs /\ Chosen \subseteq File
      /\ written[at] \in File
      /\ live = [g \in File |-> live[g]]
      /\ copies = [g \in File |-> [s \in Slots |-> copies[g][s]]]
  BY <1>1, ChosenAre DEF KeptInv, KeptTypes, Behind, Quiet, QuietFiles
<1> PICK f : f = written[at]
  OBVIOUS
<1>3. /\ f \in File /\ original[f] = began[f]
      /\ ~Spoilt => /\ Copied(f) /\ live[f] = Updated(f)
                    /\ Updated(f) = Upsert(began[f]) /\ Updated(f) # NoFile
  <2>1. f \in File /\ original[f] = began[f] /\ began[f] \in Content(0)
    BY <1>1, <1>2 DEF Quiet, QuietPlan, Undoing
  <2>2. ~Spoilt => Copied(f) /\ live[f] = Updated(f)
    BY <1>1, <1>2 DEF Quiet, QuietRollback, Published
  <2> QED BY <2>1, <2>2, UpsertIs DEF Updated
<1>4. CASE (original[f] = NoFile \/ live[f] = NoFile) /\ Undone /\ UNCHANGED <<disk, mishap>>
  <2>1. UNCHANGED <<live, copies, mishap>> /\ live' = live /\ copies' = copies /\ pc' # "relink"
        /\ (Spoilt' <=> Spoilt)
    BY <1>4 DEF disk, Undone, Goto, Spoilt
  <2>2. ~Spoilt' => /\ ~Spoilt
                    /\ began[f] = NoFile /\ live'[f] = Updated(f)
    BY <1>3, <1>4, <2>1
  <2>3. KeepsProtection'
    BY <1>1, <2>1, KeepsFrame DEF Quiet
  <2> QED BY <1>1, <1>4, <2>1, <2>2, <2>3, QuietBack
<1>5. CASE Fails("restore") /\ Undone /\ UNCHANGED disk
  <2>1. Spoilt' /\ live' = live /\ copies' = copies /\ KeepsProtection'
    BY <1>5 DEF disk, Fails, Spoilt, KeepsProtection
  <2> QED BY <1>1, <1>5, <2>1, QuietBack
<1>6. CASE /\ original[f] # NoFile /\ run.exchange /\ Undone /\ UNCHANGED mishap
           /\ live' = [live EXCEPT ![f] = copies[f].backup]
           /\ copies' = [copies EXCEPT ![f].backup = live[f]]
  <2>1. /\ live'[f] = copies[f].backup
        /\ \A g \in File \ {f} : live'[g] = live[g] /\ copies'[g].backup = copies[g].backup
        /\ pc' # "relink" /\ (Spoilt' <=> Spoilt)
    BY <1>2, <1>3, <1>6 DEF Undone, Goto, Spoilt
  <2>2. ~Spoilt => live'[f] = began[f]
    BY <1>3, <1>6, <2>1 DEF Copied
  <2>3. ~Spoilt /\ Ignored(began, "private") => Ignored(live', "private")
    BY <1>1, <2>1, <2>2, BackHides
  <2>4. KeepsProtection'
    BY <1>1, <2>1, <2>3 DEF KeepsProtection, Protected, Spoilt
  <2> QED BY <1>1, <1>6, <2>1, <2>2, <2>4, QuietBack
<1>7. CASE /\ original[f] # NoFile /\ ~run.exchange /\ Goto("relink") /\ UNCHANGED <<mishap, at>>
           /\ live' = [live EXCEPT ![f] = NoFile]
           /\ copies' = [copies EXCEPT ![f].second = live[f]]
  <2>1. /\ live'[f] = NoFile
        /\ \A g \in File \ {f} : live'[g] = live[g] /\ copies'[g].backup = copies[g].backup
        /\ pc' = "relink" /\ (Spoilt' <=> Spoilt) /\ ~Undone /\ UNCHANGED at
    BY <1>2, <1>3, <1>7 DEF Undone, Goto, Spoilt
  <2>2. copies'[f].backup = copies[f].backup
    BY <1>2, <1>3, <1>7 DEF Slots
  <2>3. ~Spoilt => copies'[f].backup = original[f]
    BY <1>3, <1>7, <2>2 DEF Copied
  <2>4. KeepsProtection'
    BY <1>1, <1>7 DEF KeepsProtection
  <2> QED BY <1>1, <1>7, <2>1, <2>3, <2>4, QuietBack
<1> QED BY <1>4, <1>5, <1>6, <1>7 DEF Rollback

LEMMA QuietRelink ==
    ASSUME QuietInv, KeptInv, edits = 0, edits' = 0, Relink PROVE Quiet'
<1>1. /\ pc = "relink" /\ pc \in Undoing /\ Quiet /\ run.cmd = "install"
      /\ UNCHANGED <<tracked, run, original, began, written>> /\ UNCHANGED mishap
      /\ Undone /\ pc' # "relink" /\ (Spoilt' <=> Spoilt) /\ run' = run
  BY DEF Relink, Undoing, Undone, Goto, Publishing, world, plan, user, QuietInv, Quiet,
     QuietPlan, Spoilt
<1>2. /\ at \in DOMAIN written /\ written[at] \in Chosen /\ run \in Runs /\ Chosen \subseteq File
      /\ written[at] \in File
      /\ live = [g \in File |-> live[g]]
      /\ copies = [g \in File |-> [s \in Slots |-> copies[g][s]]]
  BY <1>1, ChosenAre DEF KeptInv, KeptTypes, Behind, Quiet, QuietFiles
<1> PICK f : f = written[at]
  OBVIOUS
<1>3. /\ f \in File /\ original[f] = began[f]
      /\ ~Spoilt => /\ ~run.exchange /\ live[f] = NoFile /\ copies[f].backup = original[f]
  BY <1>1, <1>2 DEF Quiet, QuietPlan, QuietRollback, Undoing
<1>4. \A g \in File \ {f} : live'[g] = live[g] /\ copies'[g].backup = copies[g].backup
  BY <1>2, <1>3 DEF Relink, disk
<1>5. ~Spoilt => live'[f] = began[f]
  BY <1>2, <1>3 DEF Relink
<1>6. KeepsProtection'
  BY <1>1, <1>3 DEF KeepsProtection, Spoilt
<1> QED BY <1>1, <1>4, <1>5, <1>6, QuietBack

-----------------------------------------------------------------------------
LEMMA QuietInit == Init => QuietInv
<1> SUFFICES ASSUME Init PROVE QuietInv
  OBVIOUS
<1> USE DEF Init
<1>1. /\ began \in [File -> Content(0)] /\ began = live
      /\ original = [f \in File |-> original[f]]
  BY PublicationAssumption
<1>2. /\ pc \in {"capture", "scope"} /\ (pc = "capture" => run.cmd = "publish")
      /\ pc \notin Writing \union Undoing \union Enumerated \union Probed \union
              {"staging", "done", "failed", "prepare"}
      /\ ~AllPublished
  BY DEF Writing, Undoing, Enumerated, Probed, AllPublished
<1>3. QuietPlan
  BY <1>1, <1>2 DEF QuietPlan, AsFound
<1>4. QuietEvidence /\ QuietRollback
  BY <1>2 DEF QuietEvidence, QuietRollback
<1>5. QuietFiles
  BY <1>2 DEF QuietFiles
<1>6. KeepsProtection
  BY <1>1 DEF KeepsProtection
<1> QED BY <1>1, <1>3, <1>4, <1>5, <1>6 DEF QuietInv, Quiet

LEMMA QuietStep == QuietInv /\ KeptInv /\ SafeInv /\ [Next]_vars => QuietInv'
<1> SUFFICES ASSUME QuietInv, KeptInv, SafeInv, [Next]_vars PROVE QuietInv'
  OBVIOUS
<1>1. began' = began /\ (original' = original \/ PrepareWrite)
  BY DEF Next, CheckScope, PrepareWrite, Classify, Evaluation, Publication, Die, User,
     CaptureIndex, Enumerate, Probe, ProbeAgain, Revalidate, Judge, ReadSource, RereadSource,
     Evaluate, CheckFile, Exchange, Create, Capture, Link, CompareDisplaced,
     SyncDirectories, CheckStaging, Rollback, Relink, Publishing, TrackOrUntrack, EditPath,
     EditHandle, Delete, Acts, plan, user, vars
<1>2. /\ began' \in [File -> Content(0)]
      /\ original' = [f \in File |-> original'[f]]
  BY <1>1 DEF QuietInv, PrepareWrite
<1>3. edits' = edits \/ edits' = edits + 1
  BY DEF Next, CheckScope, PrepareWrite, Classify, Evaluation, Publication, Die, User,
     CaptureIndex, Enumerate, Probe, ProbeAgain, Revalidate, Judge, ReadSource, RereadSource,
     Evaluate, CheckFile, Exchange, Create, Capture, Link, CompareDisplaced,
     SyncDirectories, CheckStaging, Rollback, Relink, Publishing, TrackOrUntrack, EditPath,
     EditHandle, Delete, Acts, user, vars
<1>4. SUFFICES ASSUME edits' = 0 PROVE Quiet'
  BY <1>2 DEF QuietInv
<1>5. edits = 0 /\ edits' = edits
  <2>1. edits \in Nat
    BY DEF KeptInv, KeptTypes
  <2> QED BY <1>3, <1>4, <2>1
<1>6. Quiet
  BY <1>5 DEF QuietInv
<1>7. CASE CheckScope \/ PrepareWrite \/ Classify
  BY <1>4, <1>5, <1>7, QuietPlanning
<1>8. CASE Evaluation
  BY <1>4, <1>5, <1>8, QuietEvaluation
<1>9. CASE Publication
  BY <1>4, <1>5, <1>9, QuietCheckFile, QuietExchange, QuietCreate, QuietCapture, QuietLink,
     QuietCompare, QuietSync, QuietStaging, QuietUndo, QuietRelink DEF Publication
<1>10. CASE Die
  <2>1. /\ UNCHANGED <<live, tracked, run, began, original, written, edits>>
        /\ pc' = "dead" /\ ~Spoilt' /\ round' = round /\ mishap = "none"
    BY <1>10 DEF Die, Fails, MayFail, Goto, Spoilt, disk, world, plan, user
  <2>2. ~Spoilt
    BY <2>1 DEF Spoilt
  <2> QED BY <1>6, <2>1, <2>2, QuietStop
<1>11. CASE User
  <2>1. edits' = edits + 1
    BY <1>11 DEF User, TrackOrUntrack, EditPath, EditHandle, Delete, Acts
  <2> QED BY <1>5, <2>1
<1>12. CASE UNCHANGED vars
  <2>1. /\ UNCHANGED <<live, copies, tracked, run, pc, round, at, original, evidence>>
        /\ UNCHANGED <<written, began, edits, mishap>>
    BY <1>12 DEF vars, disk, world, plan, user
  <2>2. QuietPlan' /\ QuietEvidence'
    BY <1>6, <2>1 DEF Quiet, QuietPlan, QuietEvidence, AsFound, Chosen, Order, Target
  <2>3. Order' = Order /\ Chosen' = Chosen /\ Target' = Target /\ (AllPublished' <=> AllPublished)
    BY <2>1 DEF Order, Chosen, Target, AllPublished
  <2>4. QuietFiles'
    BY <1>6, <2>1, <2>3 DEF Quiet, QuietFiles, AsFound, Published, Copied, Listed, Current, Updated
  <2>5. QuietRollback'
    BY <1>6, <2>1 DEF Quiet, QuietRollback, AsFound, Published, Copied, Listed, Updated, Spoilt
  <2>6. KeepsProtection'
    BY <1>6, <2>1, KeepsFrame DEF Quiet, Spoilt
  <2> QED BY <2>2, <2>4, <2>5, <2>6 DEF Quiet
<1> QED BY <1>7, <1>8, <1>9, <1>10, <1>11, <1>12 DEF Next

LEMMA AlwaysQuiet == Spec => [](QuietInv /\ KeptInv)
BY QuietInit, QuietStep, InitKept, KeptStep, SafeInit, SafeStep, PTL DEF Spec, KeptInv

\* The order in which files are replaced, and put back, never uncovers a path
\* that was hidden (ScopeFiles, rollback_ignore_writes): the exclude file hides
\* it from its first write to its last, and .gitignore has no rule about it.
THEOREM ProtectionIsKept == Spec => []KeepsProtection
<1>1. QuietInv => KeepsProtection
  BY DEF QuietInv, Quiet, KeepsProtection
<1> QED BY <1>1, AlwaysQuiet, PTL

\* A failure that is rolled back puts every file it replaced back as it was
\* (rollback_ignore_writes): the files published are exactly those in written,
\* each with the copy of what the command found.
THEOREM FailuresRestore == Spec => []FailureRestores
<1>1. QuietInv => FailureRestores
  BY DEF QuietInv, Quiet, QuietRollback, FailureRestores, Spoilt, AsFound
<1> QED BY <1>1, AlwaysQuiet, PTL

\* An undisturbed install in both files leaves nothing for `ignore fix`
\* (cmd_ignore_status): the blocks are upserted into what the command found.
THEOREM InstallLeavesNoFix == Spec => []DoneNeedsNoFix
<1>1. QuietInv /\ KeptInv => DoneNeedsNoFix
  <2> SUFFICES ASSUME QuietInv, KeptInv, pc = "done", run.cmd = "install", run.scope = "both",
                      edits = 0
               PROVE  ~FixAvailable(live)
    BY DEF DoneNeedsNoFix
  <2>1. run \in Runs /\ Quiet /\ AllPublished /\ began \in [File -> Content(0)]
    BY DEF KeptInv, KeptTypes, QuietInv, AllPublished
  <2>2. \A f \in File : f \in Chosen
    BY <2>1, OrderIs, ChosenAre DEF File
  <2>3. \A f \in File : original[f] = began[f] /\ live[f] = Updated(f)
    BY <2>1, <2>2 DEF Quiet, QuietPlan, QuietFiles, Published
  <2>4. ASSUME NEW f \in File PROVE live[f].block = "exact"
    BY <2>1, <2>3, UpsertIs DEF Updated
  <2> QED BY <2>4 DEF FixAvailable, Installed, HasBroadRoots, Malformed
<1> QED BY <1>1, AlwaysQuiet, PTL
=============================================================================
