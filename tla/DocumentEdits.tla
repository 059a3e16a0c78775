--------------------------- MODULE DocumentEdits ---------------------------
(***************************************************************************)
(* Finding and replacing the objects inside a JSON value.                  *)
(***************************************************************************)
EXTENDS WireContract

With(v, f) == Obj(f @@ v.obj)

Without(v, k) == [j \in DOMAIN v.obj \ {k} |-> v.obj[j]]

Key(k) == [key |-> k]
At(i)  == [at |-> i]

RECURSIVE Sites(_)
(* The paths of the objects inside v. *)
Sites(v) ==
    IF object(v)
    THEN {<<>>} \cup UNION { { <<Key(k)>> \o p : p \in Sites(v.obj[k]) } : k \in DOMAIN v.obj }
    ELSE IF array(v)
    THEN UNION { { <<At(i)>> \o p : p \in Sites(v.arr[i]) } : i \in DOMAIN v.arr }
    ELSE {}

RECURSIVE Place(_, _)
Place(v, p) == IF p = <<>> THEN v
               ELSE Place(IF "key" \in DOMAIN Head(p) THEN v.obj[Head(p).key] ELSE v.arr[Head(p).at], Tail(p))

RECURSIVE Put(_, _, _)
Put(v, p, new) ==
    IF p = <<>> THEN new
    ELSE IF "key" \in DOMAIN Head(p)
    THEN Obj([v.obj EXCEPT ![Head(p).key] = Put(@, Tail(p), new)])
    ELSE Arr([v.arr EXCEPT ![Head(p).at] = Put(@, Tail(p), new)])
=============================================================================
