------------------------------ MODULE Outcome ------------------------------
(***************************************************************************)
(* Outcome<Value, Error> of include/backbook/domain/outcome.hpp: a domain  *)
(* operation either succeeds or reports one error code.  The modules of    *)
(* this project split an operation f into                                  *)
(*                                                                         *)
(*    fError(args)   the first check of f that fails, or Ok                *)
(*    fResult(args)  the value f returns when fError(args) = Ok            *)
(*                                                                         *)
(* and chain the checks of f, in the order f makes them, with ??.          *)
(***************************************************************************)

Ok == "ok"

(* a ?? b ?? c: the early returns of a function, in their order.  A later  *)
(* check is looked at only when the earlier ones have passed.              *)
a ?? b == IF a = Ok THEN b ELSE a

(* One check: report code when the condition it looks for is met.          *)
Fail(condition, code) == IF condition THEN code ELSE Ok

(* A std::map is a function.  Assigning to map.at(key); and map.emplace,   *)
(* which leaves a key that is already there alone.                         *)
Put(map, key, value) ==
  [k \in DOMAIN map \cup {key} |-> IF k = key THEN value ELSE map[k]]

Emplace(map, key, value) ==
  IF key \in DOMAIN map THEN map ELSE Put(map, key, value)

=============================================================================
