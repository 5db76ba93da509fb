------------------------------ MODULE Optimizer ------------------------------
(***************************************************************************)
(* ProjectionPushDownRule, the one rule of the optimizer: collect on the   *)
(* way down the names of the columns that are referenced, and narrow each  *)
(* Scan to those, sorted by name.                                          *)
(***************************************************************************)
EXTENDS LogicalPlan

CONSTANT Alphabet       \* the column names, in the order String sorts them

ASSUME AlphabetAssumption ==
    /\ Alphabet \in Seq(STRING)
    /\ \A f \in DOMAIN FileSchema : \A i \in DOMAIN FileSchema[f] :
         FileSchema[f][i].name \in ToSet(Alphabet)

\* extract_columns returns: it rejects NOT and bare aggregates, and looks an index up in
\* the input's schema.
Extractable(e, input) ==
    /\ Operators(e) \cap {"not", "aggregate"} = {}
    /\ \A ref \in References(e) :
         ref.op = "index" => HasSchema(input) /\ Resolved(ref, schema(input))

extract_columns(e, input) ==
    {IF ref.op = "col" THEN ref.name ELSE schema(input)[ref.i].name : ref \in References(e)}

\* The set of names is one mutable set: what a subtree adds stays in it.
Pushed(plan, names, panic) == [plan |-> plan, names |-> names, panic |-> panic]

\* The requested columns that the source has, sorted.
NarrowScan(p, names) ==
    LET kept == names \cap ToSet(Names(source_schema(p.source)))
    IN  [p EXCEPT !.projection = Among(Alphabet, kept)]

\* Mutant: the join keys are not requested.
JoinColumns_NoKeys(p, names) ==
    IF names = {} THEN ToSet(Names(schema(p.left))) \cup ToSet(Names(schema(p.right))) ELSE names

\* Mutant: only the left one of a pair of join keys is requested.
JoinColumns_LeftKeys(p, names) ==
    (IF names = {} THEN ToSet(Names(schema(p.left))) \cup ToSet(Names(schema(p.right))) ELSE names)
      \cup {p.on[i][1] : i \in DOMAIN p.on}

\* What a join requests of both sides: everything if nothing was requested, and its keys.
JoinColumns(p, names) ==
    (IF names = {} THEN ToSet(Names(schema(p.left))) \cup ToSet(Names(schema(p.right))) ELSE names)
      \cup UNION {ToSet(p.on[i]) : i \in DOMAIN p.on}

\* A join between the results for its two sides.
PushedJoin(p, left, right) ==
    Pushed([p EXCEPT !.left = left.plan, !.right = right.plan], right.names,
           left.panic \/ right.panic)

\* One function of a plan and the names requested of it.
push_down(p, names) ==
    LET pushed[x \in LogicalPlans] ==
          [n \in SUBSET STRING |->
             CASE x.op = "scan" -> Pushed(NarrowScan(x, n), n, FALSE)
               [] x.op = "join" ->
                    IF n = {} /\ ~(HasSchema(x.left) /\ HasSchema(x.right)) THEN Pushed(x, n, TRUE)
                    ELSE LET left == pushed[x.left][JoinColumns(x, n)]
                         IN  PushedJoin(x, left, pushed[x.right][left.names])
               [] OTHER ->
                    IF \E e \in ExpressionsOf(x) : ~Extractable(e, x.input) THEN Pushed(x, n, TRUE)
                    ELSE LET used == UNION {extract_columns(e, x.input) : e \in ExpressionsOf(x)}
                             input == pushed[x.input][n \cup used]
                         IN  [input EXCEPT !.plan = [x EXCEPT !.input = input.plan]]]
    IN  pushed[p][names]

optimize(p) == push_down(p, {})
===============================================================================
