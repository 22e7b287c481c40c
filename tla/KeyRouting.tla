----------------------------- MODULE KeyRouting -----------------------------
(***************************************************************************)
(* The pure computations that decide where a key goes: keyHashSlot, with  *)
(* {tag} hash tags, and the command routing of processCommand /            *)
(* getDBIndex / getKeysFromCommand (tiny-redis/server.cpp).                *)
(* A string is a sequence over Chars.  crc16 is not in the                 *)
(* repository and is the constant operator Crc16.  The one variable holds  *)
(* the input under test; every property relates the code's result on it to *)
(* a reference definition.                                                 *)
(***************************************************************************)
EXTENDS Integers, SequencesExt

CONSTANTS
  Chars,        \* the alphabet, including "{" and "}"
  Crc16(_),     \* crc16 over a string: 0 .. 65535
  DBNum,        \* g_redisDB->dbnum
  SlotKeys,     \* strings whose keyHashSlot is checked
  ArgKeys,      \* key arguments of commands
  MaxArgs       \* most arguments after the command name

(* keyHashSlot: the first '{', then the first '}' after it; a non-empty    *)
(* body between them is hashed, otherwise the whole key.  & 0x3FFF.        *)

SlotMask == 16383
AdminSlot == 16384   \* 0x4000, the configuration shard

\* Mutant: the body is taken from the '{' itself.
keyHashSlotWithBrace(key) ==
  LET s == SelectInSeq(key, LAMBDA c : c = "{")
      e == IF s = 0 THEN 0 ELSE SelectInSubSeq(key, s + 1, Len(key), LAMBDA c : c = "}")
  IN  IF s = 0 \/ e = 0 \/ e = s + 1 THEN Crc16(key) % (SlotMask + 1)
      ELSE Crc16(SubSeq(key, s, e - 1)) % (SlotMask + 1)

\* Mutant: the whole-key hash is not masked to 14 bits.
keyHashSlotUnmasked(key) ==
  LET s == SelectInSeq(key, LAMBDA c : c = "{")
      e == IF s = 0 THEN 0 ELSE SelectInSubSeq(key, s + 1, Len(key), LAMBDA c : c = "}")
  IN  IF s = 0 \/ e = 0 \/ e = s + 1 THEN Crc16(key)
      ELSE Crc16(SubSeq(key, s + 1, e - 1)) % (SlotMask + 1)

keyHashSlot(key) ==
  LET s == SelectInSeq(key, LAMBDA c : c = "{")
      e == IF s = 0 THEN 0 ELSE SelectInSubSeq(key, s + 1, Len(key), LAMBDA c : c = "}")
  IN  IF s = 0 \/ e = 0 \/ e = s + 1 THEN Crc16(key) % (SlotMask + 1)
      ELSE Crc16(SubSeq(key, s + 1, e - 1)) % (SlotMask + 1)

-----------------------------------------------------------------------------
(* The command table rows (redisCommandTable) of the commands routed here: *)
(* arity, whether the sflags hold 'w', firstkey, lastkey, keystep.         *)
Row(a, w, f, l, st) == [arity |-> a, write |-> w, firstkey |-> f, lastkey |-> l, keystep |-> st]

redisCommandTable ==
  [name \in {"get", "set", "del", "exists", "hmget", "hset", "cluster"} |->
     CASE name = "get"     -> Row(2, FALSE, 1, 1, 1)
       [] name = "set"     -> Row(-3, TRUE, 1, 1, 1)
       [] name = "del"     -> Row(-2, TRUE, 1, -1, 1)
       [] name = "exists"  -> Row(-2, FALSE, 1, -1, 1)
       [] name = "hmget"   -> Row(-3, FALSE, 1, 1, 1)
       [] name = "hset"    -> Row(4, TRUE, 1, 1, 1)
       [] name = "cluster" -> Row(-2, FALSE, 0, 0, 0)]

\* getKeysFromCommand: argv positions firstkey, firstkey + keystep, .. last,
\* a negative lastkey counting from argc.
getKeysFromCommand(cmd, argc) ==
  IF cmd.firstkey = 0 THEN <<>>
  ELSE LET last == IF cmd.lastkey < 0 THEN argc + cmd.lastkey ELSE cmd.lastkey
       IN  [i \in 1 .. (IF last < cmd.firstkey THEN 0
                         ELSE (last - cmd.firstkey) \div cmd.keystep + 1) |->
              cmd.firstkey + (i - 1) * cmd.keystep]

\* getDBIndex's loop over the key positions ks of argv (argv[0] is the
\* name, so position j is argv[j + 1] here): -2 as soon as two slots differ.
RECURSIVE SlotOfKeys(_, _, _)
SlotOfKeys(argv, ks, slot) ==
  IF ks = <<>> THEN slot
  ELSE LET this == keyHashSlot(argv[Head(ks) + 1])
       IN  IF slot >= 0 /\ this # slot THEN -2 ELSE SlotOfKeys(argv, Tail(ks), this)

\* Mutant: no cross-slot check, the last key's slot is used.
getDBIndexLastKey(cmd, argv) ==
  LET ks == getKeysFromCommand(cmd, Len(argv))
      last == IF ks = <<>> THEN -1 ELSE keyHashSlot(argv[ks[Len(ks)] + 1])
  IN  IF ks = <<>> THEN AdminSlot ELSE last

getDBIndex(cmd, argv) ==
  LET ks == getKeysFromCommand(cmd, Len(argv))
  IN  IF ks = <<>> THEN AdminSlot ELSE SlotOfKeys(argv, ks, -1)

\* processCommand up to call(): quit, unknown command, arity, the shard
\* range; otherwise the shard and the lock taken on it.
Outcome(kind, db, lock) == [kind |-> kind, db |-> db, lock |-> lock]

processCommand(argv) ==
  LET name == argv[1]
      argc == Len(argv)
  IN  IF name = "quit" THEN Outcome("quit", -1, "none")
      ELSE IF name \notin DOMAIN redisCommandTable THEN Outcome("unknown", -1, "none")
      ELSE LET cmd == redisCommandTable[name]
           IN  IF \/ cmd.arity > 0 /\ cmd.arity # argc
                  \/ argc < -cmd.arity
                 THEN Outcome("arity", -1, "none")
               ELSE LET db == getDBIndex(cmd, argv)
                    IN  IF db < 0 \/ db >= DBNum THEN Outcome("baddb", db, "none")
                        ELSE Outcome("call", db, IF cmd.write THEN "wr" ELSE "rd")

-----------------------------------------------------------------------------
(* The inputs: keys whose slot is checked, and commands.                   *)

Input(kind, key, argv) == [kind |-> kind, key |-> key, argv |-> argv]

SlotInputs == {Input("slot", k, <<>>) : k \in SlotKeys}

CommandNames == DOMAIN redisCommandTable \cup {"quit", "nosuch"}

CommandInputs ==
  {Input("cmd", <<>>, <<n>> \o args) : n \in CommandNames, args \in SeqOf(ArgKeys, MaxArgs)}

Inputs == SlotInputs \cup CommandInputs

VARIABLE in

Init == in \in Inputs

NextSlot    == in' \in SlotInputs
NextCommand == in' \in CommandInputs

Next == NextSlot \/ NextCommand

Spec == Init /\ [][Next]_in

-----------------------------------------------------------------------------
(* Reference definitions, from the spec's text.                            *)

\* "the slot is crc16(key) & 0x3FFF unless the key contains a {...} with a
\* non-empty body, in which case crc16(body) & 0x3FFF": the body of the
\* first '{' and the first '}' after it.
TagBody(key) ==
  LET opens == {i \in 1 .. Len(key) : key[i] = "{"}
      s == Min(opens)
      closes == {j \in s + 1 .. Len(key) : key[j] = "}"}
  IN  IF opens = {} \/ closes = {} THEN <<>> ELSE SubSeq(key, s + 1, Min(closes) - 1)

SpecSlot(key) == Crc16(IF TagBody(key) = <<>> THEN key ELSE TagBody(key)) % (SlotMask + 1)

\* Dispatch: the keys are argv[first_key .. last_key step key_step]; they
\* must all hash to one slot, else the command is rejected (db -2); a
\* command with first_key = 0 goes to shard 0x4000.
SpecRoute(argv) ==
  LET name == argv[1]
      argc == Len(argv)
      cmd  == redisCommandTable[name]
      last == IF cmd.lastkey < 0 THEN argc + cmd.lastkey ELSE cmd.lastkey
      pos  == {j \in 1 .. argc - 1 : j >= cmd.firstkey /\ j <= last
                                      /\ (j - cmd.firstkey) % cmd.keystep = 0}
      slots == {keyHashSlot(argv[j + 1]) : j \in pos}
      db   == IF cmd.firstkey = 0 THEN AdminSlot
              ELSE IF Cardinality(slots) = 1 THEN CHOOSE x \in slots : TRUE ELSE -2
  IN  CASE name = "quit" -> Outcome("quit", -1, "none")
        [] name \notin DOMAIN redisCommandTable -> Outcome("unknown", -1, "none")
        [] (cmd.arity > 0 /\ argc # cmd.arity) \/ argc < -cmd.arity -> Outcome("arity", -1, "none")
        [] db < 0 -> Outcome("baddb", db, "none")
        [] OTHER -> Outcome("call", db, IF cmd.write THEN "wr" ELSE "rd")

-----------------------------------------------------------------------------
(* Properties.                                                              *)

\* The input is one of the inputs; keyHashSlot yields a 14-bit slot and
\* processCommand only ever calls a handler on an existing shard.
TypeOK ==
  /\ in \in Inputs
  /\ in.kind = "slot" => keyHashSlot(in.key) \in 0 .. SlotMask
  /\ in.kind = "cmd" /\ processCommand(in.argv).kind = "call" =>
       processCommand(in.argv).db \in 0 .. DBNum - 1

\* keyHashSlot hashes exactly the hash-tag body the spec describes, or the
\* whole key when there is none (so tagged keys share a shard).
HashTagRule == in.kind = "slot" => keyHashSlot(in.key) = SpecSlot(in.key)

\* processCommand's checks and getDBIndex route every command as the spec's
\* dispatch rule does: same errors, same shard, same lock mode.
RouteAsSpecified == in.kind = "cmd" => processCommand(in.argv) = SpecRoute(in.argv)

====
