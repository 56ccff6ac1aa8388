---------------------------- MODULE MCZoteroSync ----------------------------
(* Evidence of one work, two of it final, and libraries that hold its item or not. *)
EXTENDS ZoteroSync, TLC

CONSTANTS e1, e2, e3, e4, w1, i1, f1, f2, theirs

MCFinalCorpus == <<e1, e2>>
MCWorkOf == (e1 :> w1) @@ (e2 :> w1) @@ (e3 :> w1) @@ (e4 :> w1)
MCFirstItems ==
    {<<>>,
     i1 :> [work |-> w1, tags |-> {theirs}, folders |-> {}, children |-> FALSE, version |-> 0],
     i1 :> [work |-> w1, tags |-> {}, folders |-> {f2}, children |-> TRUE, version |-> 0]}
MCFirstFolders ==
    {(f1 :> [name |-> "other", parent |-> NoKey, version |-> 0]) @@
     (f2 :> [name |-> "other", parent |-> f1, version |-> 0])}
=============================================================================
