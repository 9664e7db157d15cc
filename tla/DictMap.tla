------------------------------ MODULE DictMap ------------------------------
(***************************************************************************)
(* What a dict promises its callers: a finite map from keys to values,     *)
(* whose operations answer from the map alone.  Resizing and rehashing are *)
(* not seen.                                                               *)
(***************************************************************************)
CONSTANTS DKey, DVal, None

VARIABLES map,     \* the keys that are there, with their values
          answer   \* of the last operation: what it looked up, and what it returned

Value(k) == IF k \in DOMAIN map THEN map[k] ELSE None
With(k, v) == [x \in DOMAIN map \cup {k} |-> IF x = k THEN v ELSE map[x]]

MapInit == map = [k \in {} |-> None] /\ answer = None

MapAdd(k, v) ==
  /\ map' = IF k \in DOMAIN map THEN map ELSE With(k, v)
  /\ answer' = IF k \in DOMAIN map THEN <<k, "err">> ELSE <<k, "ok", v>>

MapReplace(k, v) == map' = With(k, v) /\ answer' = <<k, IF k \in DOMAIN map THEN "replaced" ELSE "added", v>>

MapDelete(k) ==
  /\ map' = [x \in DOMAIN map \ {k} |-> map[x]]
  /\ answer' = <<k, IF k \in DOMAIN map THEN "ok" ELSE "err">>

MapFind(k) == answer' = <<k, Value(k)>> /\ UNCHANGED map

MapEmpty == map' = [k \in {} |-> None] /\ answer' = None

MapNext ==
  \/ \E k \in DKey, v \in DVal : MapAdd(k, v) \/ MapReplace(k, v)
  \/ \E k \in DKey : MapDelete(k) \/ MapFind(k)
  \/ MapEmpty

MapSpec == MapInit /\ [][MapNext]_<<map, answer>>
=============================================================================
