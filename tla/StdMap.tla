------------------------------- MODULE StdMap -------------------------------
(***************************************************************************)
(* The three std::map operations the governor uses.  A map is a function   *)
(* whose domain is the set of keys present.                                *)
(***************************************************************************)

(* m.emplace(k, v): keeps the old value when the key is already present.   *)
Emplace(m, k, v) ==
    [x \in DOMAIN m \cup {k} |-> IF x \in DOMAIN m THEN m[x] ELSE v]

(* m[k] = v                                                                *)
Assign(m, k, v) ==
    [x \in DOMAIN m \cup {k} |-> IF x = k THEN v ELSE m[x]]

(* m.erase(k)                                                              *)
Erase(m, k) == [x \in DOMAIN m \ {k} |-> m[x]]

(* std::map() and m.clear()                                                *)
EmptyMap == [x \in {} |-> x]
=============================================================================
