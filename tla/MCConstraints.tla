--------------------------- MODULE MCConstraints ---------------------------
(* Small constraints: every operator on every pair of operands, and the    *)
(* logical operators and arithmetic nested one level deeper.               *)
EXTENDS Constraints

Node(n, v, c, parts) == [n |-> n, v |-> v, c |-> c, parts |-> parts]
Leaf(n, v) == Node(n, v, <<>>, <<>>)
P(o, n) == Op(o, Val("ushort", n))
Comp(parts) == Node("comp", Null, <<>>, parts)

Constants == {Leaf("boolean", Bool(TRUE)), Leaf("boolean", Bool(FALSE)), Leaf("number", Val("ulong", 0)),
              Leaf("number", Val("ulong", 9)), Leaf("number", Val("ulong", 200)),
              Leaf("minus", Val("ulong", 1)), Leaf("minus", Val("ulong", 7)), Leaf("minus", Val("ulong", 127)),
              Leaf("string", Str("string", <<1>>)), Leaf("string", Str("string", <<1, 2>>)),
              Leaf("ident", Str("enum_ident", <<1>>)), Leaf("in_ident", Null),
              Leaf("curtime", Val("error", 0)), Leaf("curtime", Val("itself", 0)),
              Leaf("curtime", Val("ulonglong", 200)),
              Leaf("exist_curtime", Val("error", 0)), Leaf("exist_curtime", Val("ulonglong", 200))}
Few == {Leaf("boolean", Bool(FALSE)), Leaf("number", Val("ulong", 9)), Leaf("minus", Val("ulong", 1)),
        Leaf("string", Str("string", <<1>>)), Leaf("ident", Str("enum_ident", <<1>>))}
Dollar == Comp(<<>>)
Paths == {<<>>, <<P("dot_len", 0)>>, <<P("dot_d", 0)>>, <<P("dot_id", 1)>>, <<P("index", 1)>>,
          <<P("tag", 1)>>, <<P("dot_id", 2), P("dot_id", 1)>>, <<P("dot_id", 1), P("dot_d", 0)>>}
Uses == {Comp(p) : p \in Paths} \cup {Node("exist", Null, <<>>, p) : p \in Paths}
          \cup {Node("default", Null, <<>>, p) : p \in Paths}

Binary == {"or", "and", "eq", "ne", "le", "lt", "ge", "gt", "substr", "in"} \cup Arith
Two(n, l, r) == Node(n, Null, <<l, r>>, <<>>)
WellFormed(n) == n.n = "in" => n.c[2].n \in {"comp", "curtime"}
Pairs(L, R) == {n \in {Two(b, l, r) : b \in Binary, l \in L, r \in R} : WellFormed(n)}
Fixed == Constants \cup Pairs(Constants, Constants) \cup {Node("not", Null, <<a>>, <<>>) : a \in Constants}
Simple == Uses \cup {Node("not", Null, <<a>>, <<>>) : a \in Uses} \cup {Two("or", a, b) : a \in Uses, b \in Few}
            \cup Pairs(Few, Uses) \cup Pairs({Dollar}, Few \cup Uses)
            \cup {Two("in", a, Dollar) : a \in Constants}
Inner == {Two(b, l, r) : b \in {"or", "and", "eq", "add"}, l \in {Dollar, Leaf("boolean", Bool(TRUE))}, r \in {Dollar, Leaf("number", Val("ulong", 9)), Leaf("boolean", Bool(FALSE))}}
Computed == {Two(c, Two(b, l, r), x) : c \in {"eq", "lt"}, b \in Arith, l \in Inner \cup Few \cup {Dollar},
                                       r \in Few \cup {Dollar}, x \in {Leaf("number", Val("ulong", 1)), Dollar}}
Nested == {Two(b, l, r) : b \in {"or", "and", "eq", "sub"}, l \in Inner, r \in Inner}

Scalars == {Bool(TRUE), Val("char", 1), Val("ushort", 3), Val("short", -2), Val("ulong", 15),
            Val("long", -8), Val("ulonglong", 255), Val("longlong", -1)}
MCFields == {Missing, Str("string", <<1, 2>>), Str("enum_val", <<1>>),
             Dyn("struct", 0, <<>>, <<Val("long", 7), Dyn("struct", 0, <<>>, <<Bool(FALSE)>>)>>),
             Dyn("seq", 0, <<>>, <<>>), Dyn("seq", 0, <<>>, <<Val("long", 1), Val("long", 7)>>),
             Dyn("seq", 0, <<>>, <<Str("string", <<1>>)>>), Dyn("seq", 0, <<>>, <<Str("enum_val", <<1>>)>>),
             Dyn("seq", 0, <<>>, <<Val("char", 1), Val("char", 2)>>), Dyn("seq", 0, <<>>, <<Val("ulonglong", 255)>>),
             Dyn("union", 1, <<1, 0>>, <<Bool(TRUE)>>),
             Dyn("union", 2, <<2, 1>>, <<Dyn("seq", 0, <<>>, <<Bool(TRUE)>>)>>)} \cup Scalars
MCCases == (Fixed \X {Missing}) \cup (Simple \X MCFields)
             \cup ((Nested \cup Computed) \X {Missing, Bool(TRUE), Val("long", -8), Val("ulonglong", 255)})
=============================================================================
