----------------------------- MODULE MCLevelHash -----------------------------
(* TLC instance of LevelHash: four keys whose buckets collide so that every *)
(* failure, every resizing and every way to insert happens, but for the     *)
(* movements out of a second bucket, which need five keys.                  *)
EXTENDS LevelHash

CONSTANTS a, b, c, d, junk

FourKeys == {a, b, c, d}

\* One key is enough to see values change.
FiveItems == (FourKeys \X {1}) \cup {<<a, 2>>}

\* With four top buckets only parity matters, after an expansion the value modulo 4.
FirstHash == [k \in FourKeys \cup {junk} |-> IF k \in {b, junk} THEN 2 ELSE 0]
SecondHash == [k \in FourKeys \cup {junk} |->
  CASE k \in {a, d} -> 2 [] k \in {b, junk} -> 1 [] k = c -> 0]
=============================================================================
