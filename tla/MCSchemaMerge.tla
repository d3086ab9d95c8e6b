---------------------------- MODULE MCSchemaMerge ----------------------------
(* A schema with up to two branches.  One keyword varies at a time (merging *)
(* treats them apart).  Three numbers let bounds be below, above and equal  *)
(* to one another; two of them are enough when there are two branches.      *)
EXTENDS SchemaMerge

CONSTANTS s1, s2, red, blue

MCNumbers == -2..3
MCTypes == {"string", "object", "array"}
MCNames == {"id", "name"}
MCLiterals == {red, blue}
MCSubs == {s1, s2}

NoLimit == [incl |-> NoBound, excl |-> NoBound, strict |-> FALSE]

Plain ==
  [ types |-> {}, upper |-> NoLimit, lower |-> NoLimit,
    maxItems |-> NoBound, minItems |-> NoBound, enum |-> {}, required |-> {},
    props |-> <<>>, patterns |-> <<>>, items |-> "unset", additional |-> "unset" ]

NumericLimits(numbers) == [incl : numbers, excl : numbers, strict : {FALSE}]
BooleanLimits(numbers) == [incl : numbers, excl : {NoBound}, strict : BOOLEAN]

Uppers(limits) == {[Plain EXCEPT !.upper = u] : u \in limits}
Lowers(limits) == {[Plain EXCEPT !.lower = l] : l \in limits}
Id == [n \in {"id"} |-> s1]
Inferred ==
  { [Plain EXCEPT !.props = Id], [Plain EXCEPT !.patterns = Id], [Plain EXCEPT !.items = s1],
    [Plain EXCEPT !.items = "none"], [Plain EXCEPT !.props = Id, !.items = s1],
    [Plain EXCEPT !.types = {"array"}, !.props = Id] }
Typed == {[Plain EXCEPT !.types = t] : t \in SUBSET MCTypes} \cup Inferred
Sized == {[Plain EXCEPT !.maxItems = u, !.required = r] :
            u \in {2, 3, NoBound}, r \in {{}, {"id"}, {"name"}}}
         \cup {[Plain EXCEPT !.minItems = l] : l \in {-1, 0, NoBound}}
WithProps == {[Plain EXCEPT !.props = p] :
                p \in UNION {[D -> MCSubs] : D \in SUBSET MCNames}}
WithOther == {[Plain EXCEPT !.additional = a, !.enum = e] :
                a \in {"unset", "any", "none"} \cup MCSubs, e \in {{}, {red}}}

WithBranches(S, n) == {[own |-> o, allOf |-> b] : o \in S, b \in UNION {[1..k -> S] : k \in 0..n}}

\* A schema with a flag and a branch with a number: the two dialects meet.
Mixed == {[own |-> o, allOf |-> <<b>>] : o \in Lowers(BooleanLimits({1, 2, NoBound})),
                                          b \in Lowers(NumericLimits({1, 2, NoBound}))}

AllDefinitions ==
  WithBranches(Uppers(NumericLimits({1, 2, 3, NoBound})), 1) \cup
  WithBranches(Uppers(NumericLimits({1, 2, NoBound})), 2) \cup
  WithBranches(Lowers(BooleanLimits({1, 2, NoBound})), 2) \cup
  WithBranches(Lowers(NumericLimits({1, 2, NoBound})), 1) \cup
  WithBranches(Sized, 2) \cup WithBranches(Typed, 2) \cup WithBranches(WithOther, 1) \cup Mixed

MCDefinitions == {d : d \in AllDefinitions}

MCPropsDefinitions == WithBranches(WithProps, 2)
=============================================================================
