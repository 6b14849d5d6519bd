------------------------------- MODULE PyDict -------------------------------
(***************************************************************************)
(* Python's dictionaries, as the tables in the gen-cfgs.py programs use    *)
(* them.  A dictionary is a function on its keys.                          *)
(***************************************************************************)
EXTENDS Sequences, TLC

(* One dictionary updated with another: b's values for the keys of both.   *)
Update(a, b) ==
    [k \in DOMAIN a \cup DOMAIN b |-> IF k \in DOMAIN b THEN b[k] ELSE a[k]]

(* Dictionaries given as keyword arguments: a key given twice raises.      *)
NoKeyTwice(dicts) ==
    \A i, j \in DOMAIN dicts : i # j => DOMAIN dicts[i] \cap DOMAIN dicts[j] = {}
Joined(dicts) ==
    [k \in UNION {DOMAIN dicts[i] : i \in DOMAIN dicts} |->
        dicts[CHOOSE i \in DOMAIN dicts : k \in DOMAIN dicts[i]][k]]

=============================================================================
