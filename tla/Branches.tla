-------------------------------- MODULE Branches --------------------------------
(***************************************************************************)
(* The branches of a schema, gone through from the first to the last, each *)
(* with the fields the ones before it have left.  How a branch is decoded  *)
(* is a parameter: Try(source, fields, branch) is the fields with those of *)
(* the branch, and the errors.                                             *)
(***************************************************************************)
EXTENDS Schema, Integers, Sequences

CONSTANT Try(_, _, _)

Fields(fields, errs) == [val |-> fields, errs |-> errs]
Untried(fields) == [val |-> fields, errs |-> {}, matched |-> FALSE]

(* anyOf takes in every branch that succeeds, oneOf the first, and allOf    *)
(* each one.                                                                *)
Take(keyword, acc, d) ==
  CASE keyword = "allOf" -> [acc EXCEPT !.val = d.val, !.errs = @ \cup d.errs]
    [] keyword # "allOf" /\ d.errs # {} -> [acc EXCEPT !.errs = @ \cup d.errs]
    [] keyword # "allOf" /\ d.errs = {} -> [acc EXCEPT !.val = d.val, !.matched = TRUE]

Next(keyword, source, acc, branch) ==
  IF keyword = "oneOf" /\ acc.matched THEN acc ELSE Take(keyword, acc, Try(source, acc.val, branch))

Taken(keyword, source, branches, fields) ==
  LET accs[k \in 0..Len(branches)] ==
        IF k = 0 THEN Untried(fields) ELSE Next(keyword, source, accs[k - 1], branches[k])
  IN accs

AllOf(source, branches, fields) ==
  LET acc == Taken("allOf", source, branches, fields)[Len(branches)] IN Fields(acc.val, acc.errs)

Settled(branches, acc) ==
  Fields(acc.val, IF branches = <<>> \/ acc.matched THEN acc.errs \cap Panic ELSE acc.errs)

AnyOf(source, branches, fields) ==
  Settled(branches, Taken("anyOf", source, branches, fields)[Len(branches)])

OneOf(source, branches, fields) ==
  Settled(branches, Taken("oneOf", source, branches, fields)[Len(branches)])
=================================================================================
