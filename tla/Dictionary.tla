----------------------------- MODULE Dictionary -----------------------------
(***************************************************************************)
(* What the caller of a level hash table (oslab/level_hashing) may expect: *)
(* a dictionary from keys to values whose operations answer what the       *)
(* return codes of level_insert(), level_update() and level_delete() say.  *)
(* Resizing is no operation of the dictionary.                             *)
(***************************************************************************)
CONSTANTS Keys, Values

VARIABLES
  dict,     \* the set of pairs of a key and its value
  call      \* the last call and what it returned: operation, key, result

Init == dict = {} /\ call = <<"init">>

Of(k) == {item \in dict : item[1] = k}

\* A full table may refuse a new key (result 1); nothing changes then.
Insert(k, v) ==
  \/ call' = <<"insert", k, 0>> /\ Of(k) = {} /\ dict' = dict \cup {<<k, v>>}
  \/ call' = <<"insert", k, 1>> /\ Of(k) = {} /\ UNCHANGED dict

Update(k, v) ==
  \/ call' = <<"update", k, 0>> /\ Of(k) # {} /\ dict' = (dict \ Of(k)) \cup {<<k, v>>}
  \/ call' = <<"update", k, 1>> /\ Of(k) = {} /\ UNCHANGED dict

Delete(k) ==
  \/ call' = <<"delete", k, 0>> /\ Of(k) # {} /\ dict' = dict \ Of(k)
  \/ call' = <<"delete", k, 1>> /\ Of(k) = {} /\ UNCHANGED dict

\* The table is resized, or the program gives up.
Resize == call' \in {<<"expand">>, <<"shrink">>, <<"exit">>} /\ UNCHANGED dict

Next ==
  \/ \E k \in Keys, v \in Values : Insert(k, v) \/ Update(k, v)
  \/ \E k \in Keys : Delete(k)
  \/ Resize

Spec == Init /\ [][Next]_<<dict, call>>
=============================================================================
