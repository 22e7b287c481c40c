----------------------------- MODULE DocParsing -----------------------------
(***************************************************************************)
(* How a resolver turns the document-store answer for a category or tag    *)
(* key into the JSON it installs (common/mongo_cli.cpp: query, ParseODoc,  *)
(* ParseCategory/ParseTag, ParseOCategory/ParseOTag; asynctask.cpp: the    *)
(* category and tag branches of ExecMongoTask).  A BSON document is a      *)
(* sequence of fields [name, type, s, n, sub]: a UTF-8 value in s, a       *)
(* number in n, the fields of a sub-document or the elements of an array   *)
(* in sub.  Doubles are abstracted to integers (the JSON keeps at most     *)
(* three decimals; no property here is about rounding).                    *)
(***************************************************************************)
EXTENDS Integers, SequencesExt

CONSTANTS
  Elements,   \* elements that may appear in a "w" array
  MaxElems,   \* most elements of one "w" array
  Names,      \* category and tag names
  TsVals,     \* ts values of the stored objects
  IntBits,    \* width of the int writer.Int writes
  ObjFields   \* fields besides ts and w that a category or tag object may hold

F(name, type, s, n, sub) == [name |-> name, type |-> type, s |-> s, n |-> n, sub |-> sub]
Utf8(name, s)    == F(name, "utf8", s, 0, <<>>)
Dbl(name, n)     == F(name, "double", "", n, <<>>)
Int64(name, n)   == F(name, "int64", "", n, <<>>)
Doc(name, sub)   == F(name, "document", "", 0, sub)
Arr(name, sub)   == F(name, "array", "", 0, sub)

\* The libbson accessors: a value of another type reads as "" or 0.
IterUtf8(f)    == IF f.type = "utf8" THEN f.s ELSE ""
IterDouble(f)  == IF f.type = "double" THEN f.n ELSE 0
IterAsInt64(f) == IF f.type \in {"double", "int64"} THEN f.n ELSE 0

\* CategoryInfo() / TagInfo().
NoInfo == [config |-> "", ts |-> 0, weighteds |-> <<>>]

-----------------------------------------------------------------------------
(* The weight object loop.  The "k" test is written                        *)
(*   strncmp(kvkey, "k", strlen("k") && kvkey[strlen("k")] == '\0')        *)
(* so its length argument is 1 when kvkey has one character and 0          *)
(* otherwise, and strncmp of 0 characters is 0: every key of length other  *)
(* than one is taken for "k".  The "v" test is the exact match.            *)
KMatch(name) == Len(name) # 1 \/ name = "k"
VMatch(name) == name = "v"

RECURSIVE ParseKV(_, _)
ParseKV(kvs, acc) ==
  IF kvs = <<>> THEN acc
  ELSE LET f == Head(kvs)
       IN  ParseKV(Tail(kvs),
             IF KMatch(f.name) THEN [acc EXCEPT !.key = IterUtf8(f)]
             ELSE IF VMatch(f.name) THEN [acc EXCEPT !.weighted = IterDouble(f)]
             ELSE acc)

\* One element's WeightedInfo, or none when strKey is empty ("invalid w").
WeightOf(kvs) ==
  LET r == ParseKV(kvs, [key |-> "", weighted |-> 0])
  IN  IF r.key = "" THEN <<>> ELSE <<r>>

\* The loop over "w": elements that are not documents are skipped.
RECURSIVE ParseW(_)
ParseW(elems) ==
  IF elems = <<>> THEN <<>>
  ELSE (IF Head(elems).type = "document" THEN WeightOf(Head(elems).sub) ELSE <<>>)
       \o ParseW(Tail(elems))

\* ParseOCategory's loop over the fields of one category object; a "w"
\* that is not an array is skipped, each "w" array appends.
RECURSIVE ParseOCategory(_, _)
ParseOCategory(fields, info) ==
  IF fields = <<>> THEN info
  ELSE LET f == Head(fields)
       IN  ParseOCategory(Tail(fields),
             CASE f.name = "config" -> [info EXCEPT !.config = IterUtf8(f)]
               [] f.name = "ts"     -> [info EXCEPT !.ts = IterAsInt64(f)]
               [] f.name = "w" /\ f.type = "array" ->
                    [info EXCEPT !.weighteds = @ \o ParseW(f.sub)]
               [] OTHER -> info)

\* ParseOTag is ParseOCategory on a TagInfo, line for line.
ParseOTag(fields, info) == ParseOCategory(fields, info)

\* ParseCategory: every sub-document names a category; it is parsed into
\* categorys[vkey], created empty by operator[] when absent.
RECURSIVE ParseCategory(_, _)
ParseCategory(fields, cgs) ==
  IF fields = <<>> THEN cgs
  ELSE LET f == Head(fields)
       IN  ParseCategory(Tail(fields),
             IF f.type # "document" THEN cgs
             ELSE (f.name :> ParseOCategory(f.sub, IF f.name \in DOMAIN cgs
                                                     THEN cgs[f.name] ELSE NoInfo)) @@ cgs)

\* ParseTag is ParseCategory on the tag map, line for line.
ParseTag(fields, tgs) == ParseCategory(fields, tgs)

\* ParseODoc: the top-level fields v, app, category and tag.
RECURSIVE ParseODoc(_, _)
ParseODoc(fields, out) ==
  IF fields = <<>> THEN out
  ELSE LET f == Head(fields)
       IN  ParseODoc(Tail(fields),
             CASE f.name = "v"   -> [out EXCEPT !.version = IterAsInt64(f)]
               [] f.name = "app" -> [out EXCEPT !.app = IterUtf8(f)]
               [] f.name = "category" /\ f.type = "document" ->
                    [out EXCEPT !.cgs = ParseCategory(f.sub, @)]
               [] f.name = "tag" /\ f.type = "document" ->
                    [out EXCEPT !.tgs = ParseTag(f.sub, @)]
               [] OTHER -> out)

\* MongoCli::query(uid, ...) asks for {_id: false, v: true, app: true} and
\* one "<root>.<name>" per entry of the categorys (root "category") or
\* tags (root "tag") map it is given: the store answers the document cut
\* down to those paths.
Project(doc, root, names) ==
  LET keep(f) == \/ f.name \in {"v", "app"}
                 \/ f.name = root /\ f.type = "document"
      cut(f) == IF f.name = root
                  THEN [f EXCEPT !.sub = SelectSeq(@, LAMBDA g : g.name \in names)]
                  ELSE f
      kept == SelectSeq(doc, keep)
  IN  [i \in 1 .. Len(kept) |-> cut(kept[i])]

\* writer.Int(cg.ts): the int64 ts is written as an int of IntBits bits
\* (32 in the build; TLC's own integers are 32-bit, so configurations give
\* a smaller width and ts values on both sides of it).
Int32(x) == LET h == 2^(IntBits - 1) IN ((x + h) % (2 * h)) - h

\* ExecMongoTask, category and tag branches: cgs[eles[2]] = CategoryInfo()
\* (or tgs[eles[2]] = TagInfo()), query, then {"ts": ts, "weighted": [...]}.
\* found: the store has a document for the uid (query returns 1, else 0).
EntryJson(found, doc, root, name) ==
  LET m0   == name :> NoInfo
      none == [n \in {} |-> NoInfo]
      out  == ParseODoc(Project(doc, root, {name}),
                        [version |-> 0, app |-> "",
                         cgs |-> IF root = "category" THEN m0 ELSE none,
                         tgs |-> IF root = "tag" THEN m0 ELSE none])
      info == IF ~found THEN NoInfo
              ELSE IF root = "category" THEN out.cgs[name] ELSE out.tgs[name]
  IN  [ts |-> Int32(info.ts), weighted |-> info.weighteds]

-----------------------------------------------------------------------------
(* The inputs: a stored document (or none) and the category or tag key     *)
(* asked for.                                                              *)
Roots == {"category", "tag"}

\* A category or tag object as the schema gives it, with up to m "w" elements.
Objects(m) ==
  {<<o, Int64("ts", t), Arr("w", ws)>> :
     o \in ObjFields, t \in TsVals, ws \in SeqOf(Elements, m)}

\* The value of a root: empty, one named object, or two (with short "w"s).
RootValues ==
  {<<>>} \cup {<<Doc(n, o)>> : n \in Names, o \in Objects(MaxElems)}
         \cup {v \in {<<Doc(n1, o1), Doc(n2, o2)>> : n1, n2 \in Names, o1, o2 \in Objects(1)} :
                 v[1].name # v[2].name}

\* A stored document holds v and one root (the asked one or the other).
Documents == {<<Int64("v", 1), Doc(r, c)>> : r \in Roots, c \in RootValues}

Input(found, doc, root, name) ==
  [found |-> found, doc |-> doc, root |-> root, name |-> name]

Inputs == {Input(TRUE, d, r, n) : d \in Documents, r \in Roots, n \in Names}
          \cup {Input(FALSE, <<>>, r, n) : r \in Roots, n \in Names}

VARIABLE in

Init == in \in Inputs

\* Each ExecMongoTask of a category or tag key is a fresh input.
Next == in' \in Inputs

Spec == Init /\ [][Next]_in

-----------------------------------------------------------------------------
(* The reference: the schema read declaratively (spec sections 3 and 5).    *)
Named(fs, n) == {fs[i] : i \in {j \in DOMAIN fs : fs[j].name = n}}
The(S) == CHOOSE x \in S : TRUE

\* One weight object {k: string, v: double} as an entry; an object without
\* a non-empty string k names no tag and gives none.
SpecWeight(kvs) ==
  LET k == Named(kvs, "k")
      v == Named(kvs, "v")
  IN  IF k = {} \/ The(k).type # "utf8" \/ The(k).s = "" THEN <<>>
      ELSE <<[key |-> The(k).s,
              weighted |-> IF v = {} \/ The(v).type # "double" THEN 0 ELSE The(v).n]>>

\* <root>.<name> of the stored document: {ts, weighted: one entry per w
\* object}; no document, root or name reads as ts 0 and no entries.
SpecEntry(found, doc, root, name) ==
  LET r   == Named(doc, root)
      o   == IF found /\ r # {} THEN Named(The(r).sub, name) ELSE {}
      obj == IF o = {} THEN <<>> ELSE The(o).sub
      ts  == IF Named(obj, "ts") = {} THEN 0 ELSE The(Named(obj, "ts")).n
      w   == IF Named(obj, "w") = {} THEN <<>> ELSE The(Named(obj, "w")).sub
      ws  == SelectSeq(w, LAMBDA e : e.type = "document")
  IN  [ts |-> ts, weighted |-> FlattenSeq([i \in 1 .. Len(ws) |-> SpecWeight(ws[i].sub)])]

-----------------------------------------------------------------------------
(* Properties.                                                              *)

\* The JSON that ExecMongoTask installs for category&&uid&&name or
\* tag&&uid&&name is the named object's ts and weight list: the projection
\* query builds, ParseODoc/ParseCategory/ParseTag, the "w" loop's field
\* tests and writer.Int(ts) together give what the schema stores.
EntryAsSpecified ==
  EntryJson(in.found, in.doc, in.root, in.name) = SpecEntry(in.found, in.doc, in.root, in.name)

====
