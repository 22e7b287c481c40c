----------------------------- MODULE HashStore -----------------------------
(***************************************************************************)
(* What one shard promises to clients for the hash commands and for the    *)
(* string commands that share its keyspace (spec sections 4.3 and 8): a    *)
(* key is absent, a string, or a hash of fields to values; every command   *)
(* is one atomic step (the shard's rwlock) with one reply.  Encodings are  *)
(* not visible here.  HashType refines this module.                        *)
(***************************************************************************)
EXTENDS Naturals, Sequences, FiniteSets

CONSTANTS
  HKeys,    \* keys of the shard
  Fields,   \* hash fields
  Vals,     \* values
  Nil,      \* "no value"
  ValLen,   \* [Vals -> Nat]: byte length of a value
  MaxArgs   \* most field (or field/value) arguments one command carries

ASSUME Nil \notin Vals /\ ValLen \in [Vals -> Nat] /\ MaxArgs \in Nat \ {0}

VARIABLES store, reply

NoFields == [f \in Fields |-> Nil]
Absent   == [type |-> "none", h |-> NoFields]

\* Argument lists of 1 .. MaxArgs elements of S.
ArgSeqs(S) == UNION {[1 .. n -> S] : n \in 1 .. MaxArgs}

Entries(h) == {f \in Fields : h[f] # Nil}

(* Replies, all of one record shape. *)
NoReply == [kind |-> "none", n |-> 0, v |-> Nil, s |-> <<>>, m |-> NoFields]
StatusReply(kd) == [NoReply EXCEPT !.kind = kd]
IntReply(x)     == [NoReply EXCEPT !.kind = "int", !.n = x]
BulkReply(x)    == [NoReply EXCEPT !.kind = IF x = Nil THEN "nil" ELSE "bulk",
                                   !.v = x]
MultiReply(sq)  == [NoReply EXCEPT !.kind = "multi", !.s = sq]
ScanReply(what, n, h) == [NoReply EXCEPT !.kind = what, !.n = n, !.m = h]

\* The element count of an HKEYS ("keys"), HVALS ("vals") or HGETALL ("all")
\* reply for a hash with e entries.
ScanLen(what, e) == IF what = "all" THEN 2 * e ELSE e

\* h after setting the pairs ps left to right: the last pair for a field wins.
WithPairs(h, ps) ==
  [f \in Fields |->
     IF \E i \in DOMAIN ps : ps[i][1] = f
       THEN ps[CHOOSE i \in DOMAIN ps :
                 ps[i][1] = f /\ \A j \in DOMAIN ps : j > i => ps[j][1] # f][2]
       ELSE h[f]]

IsString(k) == store[k].type = "string"
IsAbsent(k) == store[k].type = "none"

Init == store = [k \in HKeys |-> Absent] /\ reply = NoReply

Answer(r) == reply' = r /\ UNCHANGED store
WrongType(k) == IsString(k) /\ Answer(StatusReply("wrongtype"))

PutHash(k, h) ==
  store' = [store EXCEPT ![k] = IF Entries(h) = {} THEN Absent
                                ELSE [type |-> "hash", h |-> h]]

HSet(k, f, v) ==
  \/ WrongType(k)
  \/ /\ ~IsString(k)
     /\ PutHash(k, [store[k].h EXCEPT ![f] = v])
     /\ reply' = IntReply(IF store[k].h[f] = Nil THEN 1 ELSE 0)

HSetNX(k, f, v) ==
  \/ WrongType(k)
  \/ ~IsString(k) /\ store[k].h[f] # Nil /\ Answer(IntReply(0))
  \/ /\ ~IsString(k) /\ store[k].h[f] = Nil
     /\ PutHash(k, [store[k].h EXCEPT ![f] = v])
     /\ reply' = IntReply(1)

HMSet(k, ps) ==
  \/ WrongType(k)
  \/ ~IsString(k) /\ PutHash(k, WithPairs(store[k].h, ps))
                 /\ reply' = StatusReply("ok")

\* HMSET with a field and no value.
HMSetOdd(k) == Answer(StatusReply("err"))

HDel(k, fs) ==
  LET gone == {fs[i] : i \in DOMAIN fs} \cap Entries(store[k].h)
  IN  \/ WrongType(k)
      \/ /\ ~IsString(k)
         /\ PutHash(k, [f \in Fields |-> IF f \in gone THEN Nil
                                          ELSE store[k].h[f]])
         /\ reply' = IntReply(Cardinality(gone))

SetString(k) ==
  /\ store' = [store EXCEPT ![k] = [type |-> "string", h |-> NoFields]]
  /\ reply' = StatusReply("ok")

Del(k) ==
  /\ store' = [store EXCEPT ![k] = Absent]
  /\ reply' = IntReply(IF IsAbsent(k) THEN 0 ELSE 1)

HGet(k, f) ==
  \/ WrongType(k)
  \/ ~IsString(k) /\ Answer(BulkReply(store[k].h[f]))

HMGet(k, fs) ==
  \/ WrongType(k)
  \/ ~IsString(k) /\ Answer(MultiReply([i \in DOMAIN fs |-> store[k].h[fs[i]]]))

HLen(k) ==
  \/ WrongType(k)
  \/ ~IsString(k) /\ Answer(IntReply(Cardinality(Entries(store[k].h))))

HStrLen(k, f) ==
  \/ WrongType(k)
  \/ ~IsString(k) /\ Answer(IntReply(IF store[k].h[f] = Nil THEN 0
                                     ELSE ValLen[store[k].h[f]]))

HExists(k, f) ==
  \/ WrongType(k)
  \/ ~IsString(k) /\ Answer(IntReply(IF store[k].h[f] = Nil THEN 0 ELSE 1))

HScan(k, what) ==
  \/ WrongType(k)
  \/ ~IsString(k) /\ Answer(ScanReply(what, ScanLen(what, Cardinality(Entries(store[k].h))),
                                    store[k].h))

Next ==
  \E k \in HKeys :
    \/ \E f \in Fields, v \in Vals : HSet(k, f, v) \/ HSetNX(k, f, v)
    \/ \E ps \in ArgSeqs(Fields \X Vals) : HMSet(k, ps)
    \/ HMSetOdd(k)
    \/ \E fs \in ArgSeqs(Fields) : HDel(k, fs) \/ HMGet(k, fs)
    \/ SetString(k) \/ Del(k)
    \/ \E f \in Fields : HGet(k, f) \/ HStrLen(k, f) \/ HExists(k, f)
    \/ HLen(k)
    \/ \E what \in {"keys", "vals", "all"} : HScan(k, what)

Spec == Init /\ [][Next]_<<store, reply>>

====
