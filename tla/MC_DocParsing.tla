---------------------------- MODULE MC_DocParsing ----------------------------
(* Small BSON values for DocParsing: "w" elements that are weight objects  *)
(* with k before v, v before k, an empty k, an extra field with a longer    *)
(* name, or not a document.                                                *)
EXTENDS DocParsing, TLC

MCElements ==
  {Doc("0", <<Utf8("k", "t1"), Dbl("v", 2)>>),
   Doc("0", <<Dbl("v", 3), Utf8("k", "t2")>>),
   Doc("0", <<Utf8("k", "")>>),
   Doc("0", <<Utf8("k", "t3"), Dbl("v", 4), Utf8("src", "feed")>>),
   Int64("0", 7)}

MCObjFields == {Utf8("config", "c")}

\* ts values before and after the top of a signed IntBits-bit int.
MCTsVals == {5, 2^(IntBits - 1) + 5}
====
