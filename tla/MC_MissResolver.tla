--------------------------- MODULE MC_MissResolver ---------------------------
(* Instances of MissResolver for TLC.  Keys stand for miss-task strings     *)
(* "type&&uid&&param"; their CRC-16 fingerprints, bitset words, split       *)
(* results and stored documents are fixed per configuration below.          *)
EXTENDS MissResolver, TLC

CONSTANTS w1, w2, r1, r2, k1, k2, k3

\* k1 "category&&u1&&c1", k2 "tag_stat&&u2", k3 "category_stat&&u3".
\* The empty key of a never-written slot hashes like k1 (a CRC collision).
\* k2 and k3 share a fingerprint; they never meet in one configuration.
FpDistinct == k1 :> 1 @@ k2 :> 2 @@ k3 :> 2 @@ NoKey :> 1
MCFpDistinct == [k \in AllKeys |-> FpDistinct[k]]

MCFps == {1, 2}

\* One machine word per fingerprint, or both in one word.
MCWordsSplit == {"wd1", "wd2"}
MCWordOfSplit == 1 :> "wd1" @@ 2 :> "wd2"
MCWordsShared == {"wd1"}
MCWordOfShared == 1 :> "wd1" @@ 2 :> "wd1"

TypeTable ==
  k1 :> "category" @@ k2 :> "tag_stat" @@ k3 :> "category_stat" @@ NoKey :> ""

PartsTable == k1 :> 3 @@ k2 :> 2 @@ k3 :> 2 @@ NoKey :> 1
MCKeyType == [k \in AllKeys |-> TypeTable[k]]
MCKeyParts == [k \in AllKeys |-> PartsTable[k]]

\* The documents in the store: each stat document carries ts and its root.
DocTable ==
  k1 :> [exists |-> TRUE, fields |-> {}] @@
  k2 :> [exists |-> TRUE, fields |-> {"ts", "tag_stat"}] @@
  k3 :> [exists |-> TRUE, fields |-> {"ts", "category_stat"}]
MCDoc == [k \in Keys |-> DocTable[k]]

====
