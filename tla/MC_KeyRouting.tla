--------------------------- MODULE MC_KeyRouting ---------------------------
(* Small alphabet, keys of up to four characters for the slot rule, three  *)
(* key arguments of which two share the hash tag "a", commands of up to    *)
(* three arguments.                                                        *)
EXTENDS KeyRouting, TLC

Code == "a" :> 1 @@ "b" :> 2 @@ "{" :> 3 @@ "}" :> 4

\* A stand-in for crc16: a polynomial hash of the characters, 16 bits wide.
MCCrc16(str) ==
  LET h[i \in 0 .. Len(str)] == IF i = 0 THEN 0 ELSE (h[i - 1] * 4099 + Code[str[i]]) % 65536
  IN  h[Len(str)]

MCSlotKeys == SeqOf({"a", "{", "}"}, 4)
MCArgKeys  == {<<"a">>, <<"b">>, <<"{", "a", "}", "b">>}
====
