------------------------ MODULE MCIgnorePublication ------------------------
(* Instances of IgnorePublication for TLC.                                  *)
EXTENDS IgnorePublication

AllRuns ==
    {[cmd |-> "install", scope |-> "both", exchange |-> x] : x \in BOOLEAN} \union
    {[cmd |-> "install", scope |-> s, exchange |-> TRUE] : s \in {"local", "repo"}} \union
    {[cmd |-> c, scope |-> "local", exchange |-> TRUE] : c \in {"plan", "publish"}}

C(negates, block) == [text |-> 0, negates |-> negates, block |-> block]
Pair(e, g) == [f \in File |-> IF f = "exclude" THEN e ELSE g]
Starts ==
    {Pair(C("no", "none"), C("no", "broad")), Pair(C("no", "broad"), C("no", "broad")),
     Pair(C("no", "exact"), NoFile), Pair(NoFile, C("after", "none")),
     Pair(C("no", "broad"), C("no", "torn"))}
Shapes == {[negates |-> "no", block |-> "none"], [negates |-> "after", block |-> "exact"]}
=============================================================================
