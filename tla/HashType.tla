------------------------------ MODULE HashType ------------------------------
(***************************************************************************)
(* The hash type of one shard (src/tiny-redis/t_hash.cpp).  A value object *)
(* has a type, an encoding and its field -> value map; a ziplist is        *)
(* converted to a hash table, once, when hashTypeSet makes it longer than  *)
(* hash_max_ziplist_entries.  processCommand runs every command under the  *)
(* shard's rwlock (write commands exclusively), so each command handler is *)
(* one atomic action.  The dict internals (dictReplace, dictResize, the    *)
(* eager full rehash) do not change the map and are not visible here.      *)
(* SET and DEL are not in the repository; they are modelled from the spec  *)
(* so that keys can hold strings and disappear.                            *)
(***************************************************************************)
EXTENDS Naturals, Sequences, FiniteSets

CONSTANTS
  HKeys, Fields, Vals, Nil, ValLen, MaxArgs,
  MaxZiplistEntries   \* g_redisDB->hash_max_ziplist_entries

ASSUME MaxZiplistEntries \in Nat

VARIABLES db, reply

\* The store as a client sees it: the encoding is dropped.
AbsStore == [k \in HKeys |-> [type |-> db[k].type, h |-> db[k].h]]

HS == INSTANCE HashStore WITH store <- AbsStore

NoFields     == HS!NoFields
NoObject     == [type |-> "none", enc |-> "none", h |-> NoFields]
StringObject == [type |-> "string", enc |-> "raw", h |-> NoFields]

\* createHashObject(): an empty ziplist.
NewHash == [type |-> "hash", enc |-> "ziplist", h |-> NoFields]

hashTypeLength(o) == Cardinality(HS!Entries(o.h))
hashTypeExists(o, f) == o.h[f] # Nil

\* hashTypeConvert(o, OBJ_ENCODING_HT) on a ziplist.
hashTypeConvert(o) == [o EXCEPT !.enc = "ht"]

\* Mutant: the ziplist length is checked before the pair is added.
hashTypeSetEarlyCheck(o, f, v) ==
  IF o.enc = "ziplist" /\ hashTypeLength(o) > MaxZiplistEntries
    THEN hashTypeConvert([o EXCEPT !.h[f] = v])
    ELSE [o EXCEPT !.h[f] = v]

\* hashTypeSet: replace or append the pair, then convert a ziplist that
\* has grown past the entry limit (value lengths are not checked).
hashTypeSet(o, f, v) ==
  LET o2 == [o EXCEPT !.h[f] = v]
  IN  IF o.enc = "ziplist" /\ hashTypeLength(o2) > MaxZiplistEntries
        THEN hashTypeConvert(o2)
        ELSE o2

\* hashTypeDelete: drop the pair (the table's resize/rehash is invisible).
hashTypeDelete(o, f) == [o EXCEPT !.h[f] = Nil]

\* The NULL a lookup returns after replying WRONGTYPE.
NULL == [type |-> "null", enc |-> "none", h |-> NoFields]

\* Mutant: no type check, a string object is written as a hash.
LookupWriteNoCheck(k) == IF db[k].type = "none" THEN NewHash ELSE db[k]

\* hashTypeLookupWriteOrCreate: the key's object, or a new hash added to
\* the db; for a string key it replies WRONGTYPE and returns NULL.
hashTypeLookupWriteOrCreate(k) ==
  CASE db[k].type = "none"   -> NewHash
    [] db[k].type = "string" -> NULL
    [] OTHER                 -> db[k]

\* hmsetCommand's loop over the field/value pairs.
RECURSIVE SetPairs(_, _)
SetPairs(o, ps) ==
  IF ps = <<>> THEN o
  ELSE SetPairs(hashTypeSet(o, Head(ps)[1], Head(ps)[2]), Tail(ps))

\* Mutant: the key of a hash emptied by HDEL is kept.
RECURSIVE DelFieldsKeep(_, _, _)
DelFieldsKeep(o, fs, n) ==
  IF fs = <<>> THEN [o |-> o, deleted |-> n]
  ELSE IF hashTypeExists(o, Head(fs))
    THEN DelFieldsKeep(hashTypeDelete(o, Head(fs)), Tail(fs), n + 1)
    ELSE DelFieldsKeep(o, Tail(fs), n)

\* hdelCommand's loop: count the deletions; when the hash becomes empty the
\* key is deleted (dbDelete) and the loop stops.
RECURSIVE DelFields(_, _, _)
DelFields(o, fs, n) ==
  IF fs = <<>> THEN [o |-> o, deleted |-> n]
  ELSE IF ~hashTypeExists(o, Head(fs)) THEN DelFields(o, Tail(fs), n)
  ELSE LET o2 == hashTypeDelete(o, Head(fs))
       IN  IF hashTypeLength(o2) = 0 THEN [o |-> NoObject, deleted |-> n + 1]
           ELSE DelFields(o2, Tail(fs), n + 1)

-----------------------------------------------------------------------------
Init == db = [k \in HKeys |-> NoObject] /\ reply = HS!NoReply

Reply(r) == reply' = r /\ UNCHANGED db
WrongType == HS!StatusReply("wrongtype")
Store(k, o) == db' = [db EXCEPT ![k] = o]

\* Mutant: hsetCommand answers 1 on update and 0 on insert.
hsetCommandSwapped(k, f, v) ==
  LET o == hashTypeLookupWriteOrCreate(k)
  IN  \/ o = NULL /\ Reply(WrongType)
      \/ /\ o # NULL
         /\ Store(k, hashTypeSet(o, f, v))
         /\ reply' = HS!IntReply(IF hashTypeExists(o, f) THEN 1 ELSE 0)

hsetCommand(k, f, v) ==
  LET o == hashTypeLookupWriteOrCreate(k)
  IN  \/ o = NULL /\ Reply(WrongType)
      \/ /\ o # NULL
         /\ Store(k, hashTypeSet(o, f, v))
         /\ reply' = HS!IntReply(IF hashTypeExists(o, f) THEN 0 ELSE 1)

\* The object is created (dbAdd) before the existence test; a new hash has
\* no fields, so the set always follows and no empty hash is left.
hsetnxCommand(k, f, v) ==
  LET o == hashTypeLookupWriteOrCreate(k)
  IN  \/ o = NULL /\ Reply(WrongType)
      \/ /\ o # NULL
         /\ IF hashTypeExists(o, f)
              THEN Reply(HS!IntReply(0))
              ELSE Store(k, hashTypeSet(o, f, v)) /\ reply' = HS!IntReply(1)

hmsetCommand(k, ps) ==
  LET o == hashTypeLookupWriteOrCreate(k)
  IN  \/ o = NULL /\ Reply(WrongType)
      \/ o # NULL /\ Store(k, SetPairs(o, ps)) /\ reply' = HS!StatusReply("ok")

\* if ((c->argc % 2) == 1) addReplyError(...): checked before the lookup.
hmsetCommandOddArgs(k) == Reply(HS!StatusReply("err"))

hdelCommand(k, fs) ==
  \/ db[k].type = "none" /\ Reply(HS!IntReply(0))
  \/ db[k].type = "string" /\ Reply(WrongType)
  \/ LET r == DelFields(db[k], fs, 0)
     IN  /\ db[k].type = "hash"
         /\ Store(k, r.o)
         /\ reply' = HS!IntReply(r.deleted)

\* The string commands (not in the repository), from the spec.
setCommand(k) == Store(k, StringObject) /\ reply' = HS!StatusReply("ok")
delCommand(k) ==
  /\ Store(k, NoObject)
  /\ reply' = HS!IntReply(IF db[k].type = "none" THEN 0 ELSE 1)

\* Read commands run under the read lock and change nothing but the reply.
\* A missing key answers like an empty hash (null bulk, 0, empty multibulk).
ReadReply(k, r) ==
  IF db[k].type = "string" THEN Reply(WrongType) ELSE Reply(r)

hgetCommand(k, f)    == ReadReply(k, HS!BulkReply(db[k].h[f]))
hmgetCommand(k, fs)  == ReadReply(k, HS!MultiReply([i \in DOMAIN fs |-> db[k].h[fs[i]]]))
hlenCommand(k)       == ReadReply(k, HS!IntReply(hashTypeLength(db[k])))
hexistsCommand(k, f) == ReadReply(k, HS!IntReply(IF hashTypeExists(db[k], f) THEN 1 ELSE 0))

\* hashTypeGetValueLength: the value's length, 0 for a missing field.
hstrlenCommand(k, f) ==
  ReadReply(k, HS!IntReply(IF hashTypeExists(db[k], f) THEN ValLen[db[k].h[f]] ELSE 0))

\* genericHgetallCommand: flags select keys, values or both; the multibulk
\* length is hashTypeLength * the number of flags.
Flags(what) == CASE what = "keys" -> {"key"}
                 [] what = "vals" -> {"value"}
                 [] what = "all"  -> {"key", "value"}

genericHgetallCommand(k, what) ==
  ReadReply(k, HS!ScanReply(what, hashTypeLength(db[k]) * Cardinality(Flags(what)),
                            db[k].h))

Next ==
  \E k \in HKeys :
    \/ \E f \in Fields, v \in Vals : hsetCommand(k, f, v) \/ hsetnxCommand(k, f, v)
    \/ \E ps \in HS!ArgSeqs(Fields \X Vals) : hmsetCommand(k, ps)
    \/ hmsetCommandOddArgs(k)
    \/ \E fs \in HS!ArgSeqs(Fields) : hdelCommand(k, fs) \/ hmgetCommand(k, fs)
    \/ setCommand(k) \/ delCommand(k)
    \/ \E f \in Fields : hgetCommand(k, f) \/ hstrlenCommand(k, f) \/ hexistsCommand(k, f)
    \/ hlenCommand(k)
    \/ \E what \in {"keys", "vals", "all"} : genericHgetallCommand(k, what)

Spec == Init /\ [][Next]_<<db, reply>>

-----------------------------------------------------------------------------
(* Properties.                                                              *)

Objects ==
  {NoObject, StringObject} \cup
  {[type |-> "hash", enc |-> e, h |-> m] :
     e \in {"ziplist", "ht"}, m \in [Fields -> Vals \cup {Nil}]}

\* Every key holds nothing, a string, or a hash in one of its two encodings.
TypeOK == db \in [HKeys -> Objects]

\* No key holds a hash without fields: hdelCommand deletes the key when its
\* last field goes, and every command that creates a hash also sets a field.
NoEmptyHash == \A k \in HKeys : db[k].type = "hash" => hashTypeLength(db[k]) > 0

\* A ziplist never holds more than hash_max_ziplist_entries pairs after any
\* sequence of HSET/HSETNX/HMSET/HDEL (the conversion in hashTypeSet).
ZiplistWithinLimit ==
  \A k \in HKeys : db[k].enc = "ziplist" => hashTypeLength(db[k]) <= MaxZiplistEntries

\* Every command's effect on the keys and its reply are those the spec
\* gives the command (HashStore), whatever the encoding.
ImplementsHashStore == HS!Spec

====
