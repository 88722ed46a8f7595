---------------------------- MODULE Constraints ----------------------------
(***************************************************************************)
(* The constraints of a filter: what the code generator makes of a parsed  *)
(* constraint (RDIConstraint.cc, RDIOpSeq.cc) and how the stack machine    *)
(* runs it on an event (RDIRVM.cc).  The generator keeps a stack of static *)
(* types, by which it decides where a run-time conversion is needed; the   *)
(* machine trusts it.  The machine takes one op a step.  floats, strings   *)
(* of type ids and the name-value lookup of a component are left out.      *)
(***************************************************************************)
EXTENDS Integers, Sequences, SequencesExt

CONSTANTS Width,     \* bits of a short; a long has twice, a long long four times as many
          Cases      \* parsed constraints, each with what an event holds under the name it looks up

VARIABLES tree, field, code, pc, stack, r_code, r_bool, running
vars == <<tree, field, code, pc, stack, r_code, r_bool, running>>

(* Values of the machine: a kind, a number or a string, and parts. *)
Val(k, i) == [k |-> k, i |-> i, s |-> <<>>, sub |-> <<>>]
Str(k, s) == [k |-> k, i |-> 0, s |-> s, sub |-> <<>>]
Dyn(k, i, s, sub) == [k |-> k, i |-> i, s |-> s, sub |-> sub]
Bool(b) == Val("boolean", IF b THEN 1 ELSE 0)
Missing == Val("missing", 0)
Null == Val("null", 0)

Kinds == <<"ushort", "short", "ulong", "long", "ulonglong", "longlong">>
Numbers == Range(Kinds)
CanBeNumber == {"boolean", "char", "char_or_string"}
Strings == {"string", "char_or_string"}
Enums == {"enum_val", "enum_ident"}
Dynanys == {"struct", "seq", "union"}

(***************************************************************************)
(* Numbers.                                                                *)
(***************************************************************************)
Rank(k) == CHOOSE i \in 1..Len(Kinds) : Kinds[i] = k
Signed(k) == k \notin {"ushort", "ulong", "ulonglong"}
Bits(k) == Width * 2 ^ ((Rank(k) - 1) \div 2)
Holds(k, n) == IF Signed(k) THEN n \in -(2 ^ (Bits(k) - 1))..(2 ^ (Bits(k) - 1) - 1)
                            ELSE n \in 0..(2 ^ Bits(k) - 1)
Cast(k, n) ==
  LET m == n % 2 ^ Bits(k)
  IN  IF Signed(k) /\ m >= 2 ^ (Bits(k) - 1) THEN m - 2 ^ Bits(k) ELSE m

(* Not the code: the higher kind, signed or not. *)
ResultKindUnsigned(l, r) == IF Rank(l) < Rank(r) THEN r ELSE l

ResultKind(l, r) ==
  LET higher == IF Rank(l) < Rank(r) THEN Rank(r) ELSE Rank(l)
  IN  IF (Signed(l) \/ Signed(r)) /\ ~Signed(Kinds[higher])
      THEN Kinds[higher + 1] ELSE Kinds[higher]
WidenKind(k) == IF k = "ushort" THEN "ulong" ELSE IF k = "short" THEN "long" ELSE k

Force2Num(v) ==
  IF v.k \notin CanBeNumber THEN v
  ELSE Val("ushort", IF v.k = "char_or_string" THEN Head(v.s) ELSE v.i)

Fine(v) == [err |-> "none", v |-> v]
Error(e) == [err |-> e, v |-> Null]

Abs(n) == IF n < 0 THEN -n ELSE n
Quotient(a, b) == IF (a < 0) = (b < 0) THEN Abs(a) \div Abs(b) ELSE -(Abs(a) \div Abs(b))
Sign(a, b) == IF a < b THEN -1 ELSE IF a = b THEN 0 ELSE 1

(* The division of the least number by -1 has no defined result: the        *)
(* process traps.                                                           *)
Arithop(op, l, r) ==
  LET result == ResultKind(l.k, r.k)
      widen  == WidenKind(result)
      a == Cast(widen, l.i)
      b == Cast(widen, r.i)
      Out(n) == Fine(Val(result, Cast(result, Cast(widen, n))))
  IN  CASE op = "cmp" -> Fine(Val("short", Sign(a, b)))
        [] op = "add" -> Out(a + b)
        [] op = "sub" -> Out(a - b)
        [] op = "mul" -> Out(a * b)
        [] op \in {"div", "rem"} /\ b = 0 -> Error("DIVIDE_BY_ZERO")
        [] op \in {"div", "rem"} /\ b # 0 /\ ~Holds(widen, Quotient(a, b)) -> Error("TRAP")
        [] op = "div" /\ b # 0 /\ Holds(widen, Quotient(a, b)) -> Out(Quotient(a, b))
        [] op = "rem" /\ b # 0 /\ Holds(widen, Quotient(a, b)) -> Out(a - b * Quotient(a, b))

Before(s, t) ==
  \E n \in 0..(Len(t) - 1) :
    /\ n <= Len(s) /\ SubSeq(s, 1, n) = SubSeq(t, 1, n)
    /\ n = Len(s) \/ s[n + 1] < t[n + 1]
StrRank(s, t) == IF s = t THEN 0 ELSE IF Before(s, t) THEN -1 ELSE 1
Within(s, t) == \E n \in 0..(Len(t) - Len(s)) : SubSeq(t, n + 1, n + Len(s)) = s

(***************************************************************************)
(* Code generation.  A node of the tree has a name, a value, its children  *)
(* and, when it is a component, its parts.                                 *)
(***************************************************************************)
Op(o, v) == [o |-> o, v |-> v, lbl |-> 0]
Jump(o, l) == [o |-> o, v |-> Null, lbl |-> l]

PushType == [push_c |-> "c", push_s |-> "s", push_i |-> "i", push_b |-> "b",
             push_N |-> "N", push_n |-> "n", ctelt |-> "n", wkp |-> "u"]
TopType == [cvt_u2b |-> "b", cvt_u2s |-> "s", cvt_u2n |-> "n", not |-> "b",
            eqz |-> "b", nez |-> "b", lez |-> "b", ltz |-> "b", gez |-> "b", gtz |-> "b",
            default |-> "b", exist |-> "b", dot_len |-> "n", dot_d |-> "u",
            dot_id |-> "u", index |-> "u", tag |-> "u"]
PairType == [in |-> "b", substr |-> "b", cmp |-> "n",
             add |-> "n", sub |-> "n", mul |-> "n", div |-> "n", rem |-> "n"]
Arith == {"add", "sub", "mul", "div", "rem"}
ZeroTests == {"eqz", "nez", "lez", "ltz", "gez", "gtz"}
Parts == {"dot_len", "dot_d", "dot_id", "index", "tag"}

(* What check_pre() wants on the stack of static types before an op. *)
CheckPre(o, types) ==
  LET n == Len(types)
      top == types[n]
  IN  /\ o \in (DOMAIN TopType) \cup {"return_b", "signal_N", "pop", "ifT", "ifF", "compend"}
           => n >= 1
      /\ o \in DOMAIN PairType => n >= 2
      /\ o \in {"return_b", "not", "ifT", "ifF"} => top = "b"
      /\ o \in ZeroTests \cup Arith => top \in {"n", "N"}
      /\ o \in Arith => types[n - 1] \in {"n", "N"}
      /\ o = "signal_N" => top = "N"
      /\ o \in {"cvt_u2b", "cvt_u2s", "in"} \cup Parts => top = "u"
      /\ o = "substr" => top = "s" /\ types[n - 1] = "s"

ModelEffect(o, types) ==
  IF o \in DOMAIN PushType THEN Append(types, PushType[o])
  ELSE IF o \in DOMAIN TopType THEN Append(Front(types), TopType[o])
  ELSE IF o \in DOMAIN PairType THEN Append(Front(Front(types)), PairType[o])
  ELSE IF o = "pop" THEN Front(types) ELSE types

(* The state of the generator: the ops, the static types after each of     *)
(* them, whether an error was reported (e) or an assertion failed, and the *)
(* labels given out so far.                                                *)
Start == [ops |-> <<>>, types |-> <<>>, e |-> FALSE, fatal |-> FALSE, lbls |-> 0]
Types(ps) == IF ps.types = <<>> THEN <<>> ELSE Last(ps.types)
Stopped(ps) == ps.e \/ ps.fatal
Emit(ps, op) ==
  IF Stopped(ps) THEN ps
  ELSE IF ~CheckPre(op.o, Types(ps)) THEN [ps EXCEPT !.fatal = TRUE]
  ELSE [ps EXCEPT !.ops = Append(@, op), !.types = Append(@, ModelEffect(op.o, Types(ps)))]
RECURSIVE EmitAll(_, _)
EmitAll(ps, ops) == IF ops = <<>> THEN ps ELSE EmitAll(Emit(ps, Head(ops)), Tail(ops))

(* The op just appended becomes another one: no instruction is needed.     *)
Rewrite(ps, op, type) ==
  [ps EXCEPT !.ops = Append(Front(@), op),
             !.types = Append(Front(@), Append(Front(Last(@)), type))]
Reject(ps) == [ps EXCEPT !.e = TRUE]

b_required(ps) ==
  IF Stopped(ps) THEN ps
  ELSE CASE Last(Types(ps)) = "b" -> ps
         [] Last(Types(ps)) = "u" -> Emit(ps, Op("cvt_u2b", Null))
         [] OTHER -> Reject(ps)

(* Not the code: a character is left one where a string is wanted. *)
s_requiredChar(ps) ==
  IF Stopped(ps) THEN ps
  ELSE CASE Last(Types(ps)) \in {"s", "c"} -> ps
         [] Last(Types(ps)) = "u" -> Emit(ps, Op("cvt_u2s", Null))
         [] OTHER -> Reject(ps)

s_required(ps) ==
  IF Stopped(ps) THEN ps
  ELSE LET op == Last(ps.ops)
       IN  CASE Last(Types(ps)) = "s" -> ps
             [] Last(Types(ps)) = "u" -> Emit(ps, Op("cvt_u2s", Null))
             [] Last(Types(ps)) = "c" -> Rewrite(ps, Op("push_s", [op.v EXCEPT !.k = "string"]), "s")
             [] OTHER -> Reject(ps)
n_required(ps) ==
  IF Stopped(ps) THEN ps
  ELSE LET op == Last(ps.ops)
           top == Last(Types(ps))
       IN  CASE top \in {"n", "N"} -> ps
             [] top = "c" \/ (top = "b" /\ op.o = "push_b") ->
                  Rewrite(ps, Op("push_N", Force2Num(op.v)), "n")
             [] top = "u" \/ (top = "b" /\ op.o # "push_b") -> Emit(ps, Op("cvt_u2n", Null))
             [] OTHER -> Reject(ps)

(* An integer literal is a ulong if it fits, and negated a long if it fits. *)
Literal(n) == Val(IF Holds("ulong", n) THEN "ulong" ELSE "ulonglong", n)
LongMax(k) == 2 ^ (Bits(k) - 1) - 1
NegateOverflows(v) == v.k = "ulonglong" /\ v.i >= LongMax("longlong")
Negate(v) ==
  Val(IF v.k = "ulong" /\ v.i < LongMax("long") THEN "long" ELSE "longlong", -v.i)

NewSConst(s) == IF Len(s) = 1 THEN Op("push_c", Str("char_or_string", s))
                              ELSE Op("push_s", Str("string", s))

ZeroTest == [eq |-> "eqz", ne |-> "nez", le |-> "lez", lt |-> "ltz", ge |-> "gez", gt |-> "gtz"]
Chain(n) == <<Op("wkp", Null)>> \o n.parts

RECURSIVE Gen(_, _)
Gen(ps, n) ==
  IF Stopped(ps) THEN ps
  ELSE
  CASE n.n \in {"or", "and"} ->
         LET l == ps.lbls + 1
             lhs == b_required(Gen([ps EXCEPT !.lbls = l], n.c[1]))
             mid == EmitAll(lhs, <<Jump(IF n.n = "or" THEN "ifT" ELSE "ifF", l), Op("pop", Null)>>)
         IN  Emit(b_required(Gen(mid, n.c[2])), Jump("label", l))
    [] n.n = "not" -> Emit(b_required(Gen(ps, n.c[1])), Op("not", Null))
    [] n.n \in DOMAIN ZeroTest ->
         EmitAll(Gen(Gen(ps, n.c[1]), n.c[2]), <<Op("cmp", Null), Op(ZeroTest[n.n], Null)>>)
    [] n.n \in Arith ->
         Emit(n_required(Gen(n_required(Gen(ps, n.c[1])), n.c[2])), Op(n.n, Null))
    [] n.n = "in" ->
         IF n.c[2].n = "curtime" THEN Reject(ps)
         ELSE Emit(Gen(Gen(ps, n.c[1]), n.c[2]), Op("in", Null))
    [] n.n = "substr" ->
         Emit(s_required(Gen(s_required(Gen(ps, n.c[1])), n.c[2])), Op("substr", Null))
    [] n.n = "number" -> Emit(ps, Op("push_n", Literal(n.v.i)))
    [] n.n = "minus" ->
         IF NegateOverflows(Literal(n.v.i)) THEN Reject(ps)
         ELSE Emit(ps, Op("push_n", Negate(Literal(n.v.i))))
    [] n.n = "boolean" -> Emit(ps, Op("push_b", n.v))
    [] n.n = "string" -> Emit(ps, NewSConst(n.v.s))
    [] n.n = "ident" -> Emit(ps, Op("push_i", n.v))
    [] n.n = "in_ident" -> EmitAll(ps, <<Op("push_N", Val("ushort", 1)), Op("signal_N", Null)>>)
    [] n.n = "curtime" -> Emit(ps, Op("ctelt", n.v))
    [] n.n = "comp" -> EmitAll(ps, Append(Chain(n), Op("compend", Null)))
    [] n.n = "exist" -> EmitAll(ps, Append(Chain(n), Op("exist", Null)))
    [] n.n = "exist_curtime" -> Emit(ps, Op("push_b", Bool(n.v.k # "error")))
    [] n.n = "default" ->
         IF n.parts = <<>> \/ Last(n.parts).o # "dot_d" THEN Reject(ps)
         ELSE EmitAll(ps, Append(Front(Chain(n)), Op("default", Null)))

(* finalize(): a jump goes to the first op after its label that does       *)
(* something.                                                              *)
Target(ops, l) ==
  LET at == CHOOSE i \in 1..Len(ops) : ops[i].o = "label" /\ ops[i].lbl = l
  IN  CHOOSE t \in at..Len(ops) :
        ops[t].o # "label" /\ \A i \in at..(t - 1) : ops[i].o = "label"
Finalize(ps) ==
  LET Resolve(i) == IF ps.ops[i].o \in {"ifT", "ifF"}
                    THEN Jump(ps.ops[i].o, Target(ps.ops, ps.ops[i].lbl) - i) ELSE ps.ops[i]
  IN  [ps EXCEPT !.ops = [i \in DOMAIN ps.ops |-> Resolve(i)]]
Compile(n) ==
  LET ps == Emit(b_required(Gen(Start, n)), Op("return_b", Null))
  IN  IF Stopped(ps) THEN ps ELSE Finalize(ps)

(***************************************************************************)
(* The machine.                                                            *)
(***************************************************************************)
Init ==
  /\ \E c \in Cases : tree = c[1] /\ field = c[2]
  /\ code = Compile(tree)
  /\ pc = 1 /\ stack = <<>>
  /\ r_code = "UNDEFINED" /\ r_bool = 0
  /\ running = ~Stopped(code)

op == code.ops[pc]
Top == Last(stack)
Second == Last(Front(stack))
At(names) == running /\ op.o \in names

Goto(p, s, rc) ==
  /\ pc' = p /\ stack' = s /\ r_code' = rc
  /\ UNCHANGED <<tree, field, code, r_bool, running>>
NextOp(s) == Goto(pc + 1, s, r_code)
Signal(rc) ==
  /\ r_code' = rc /\ stack' = <<>> /\ running' = FALSE
  /\ UNCHANGED <<tree, field, code, pc, r_bool>>
Replace1(res) == IF res.err = "none" THEN NextOp(Append(Front(stack), res.v)) ELSE Signal(res.err)
Replace2(res) ==
  IF res.err = "none" THEN NextOp(Append(Front(Front(stack)), res.v)) ELSE Signal(res.err)

Push == At({"push_c", "push_s", "push_i", "push_b", "push_N", "push_n"}) /\ NextOp(Append(stack, op.v))
Pop == At({"pop"}) /\ NextOp(Front(stack))
Label == At({"label"}) /\ NextOp(stack)

ReturnB ==
  /\ At({"return_b"}) /\ Top.k = "boolean"
  /\ r_bool' = Top.i /\ r_code' = "OK" /\ stack' = <<>> /\ running' = FALSE
  /\ UNCHANGED <<tree, field, code, pc>>
SignalN == At({"signal_N"}) /\ Top.k = "ushort" /\ Signal("NOT_SUPPORTED")

(* $curtime and its elements are read from the server's clock. *)
CurTime ==
  /\ At({"ctelt"})
  /\ CASE op.v.k = "error" -> Signal("NONE_SUCH")
       [] op.v.k = "itself" -> Signal("TYPE_MISMATCH")
       [] op.v.k \in Numbers -> NextOp(Append(stack, op.v))

CvtB(v) == IF v.k = "boolean" THEN Fine(v) ELSE Error("TYPE_MISMATCH")
CvtS(v) == IF v.k \in Strings THEN Fine([v EXCEPT !.k = "string"]) ELSE Error("TYPE_MISMATCH")
(* Not the code: what counts as a number is left as it is. *)
CvtNRaw(v) ==
  IF v.k \in {"short", "ushort", "long", "ulong"} \cup CanBeNumber THEN Fine(v)
  ELSE Error("TYPE_MISMATCH")
CvtN(v) ==
  IF v.k \in {"short", "ushort", "long", "ulong"} \cup CanBeNumber THEN Fine(Force2Num(v))
  ELSE Error("TYPE_MISMATCH")
Convert ==
  \/ At({"cvt_u2b"}) /\ Replace1(CvtB(Top))
  \/ At({"cvt_u2s"}) /\ Replace1(CvtS(Top))
  \/ At({"cvt_u2n"}) /\ Replace1(CvtN(Top))

Not == At({"not"}) /\ Top.k = "boolean" /\ Replace1(Fine(Bool(Top.i = 0)))
ArithOp == At(Arith) /\ Replace2(Arithop(op.o, Second, Top))
Substr ==
  /\ At({"substr"}) /\ Top.k = "string" /\ Second.k = "string"
  /\ Replace2(Fine(Bool(Within(Second.s, Top.s))))

Compare(l, r, next) ==
  CASE l.k \in Strings /\ r.k \in Strings -> Fine(Val("long", StrRank(l.s, r.s)))
    [] l.k \in Numbers \cup CanBeNumber /\ r.k \in Numbers \cup CanBeNumber
         /\ ~(l.k \in Strings /\ r.k \in Strings) -> Arithop("cmp", Force2Num(l), Force2Num(r))
    [] l.k \in Enums /\ r.k \in Enums ->
         IF {l.k, r.k} = {"enum_ident"} \/ next \notin {"eqz", "nez"}
         THEN Error("TYPE_MISMATCH") ELSE Fine(Val("long", StrRank(l.s, r.s)))
    [] OTHER -> Error("TYPE_MISMATCH")
Cmp == At({"cmp"}) /\ Replace2(Compare(Second, Top, code.ops[pc + 1].o))

IsZero(o, n) == CASE o = "eqz" -> n = 0  [] o = "nez" -> n # 0  [] o = "lez" -> n <= 0
                  [] o = "ltz" -> n < 0  [] o = "gez" -> n >= 0 [] o = "gtz" -> n > 0
ZeroOp == At(ZeroTests) /\ Top.k \in Numbers /\ Replace1(Fine(Bool(IsZero(op.o, Top.i))))

(* A jump keeps the value it tested. *)
Branch ==
  /\ At({"ifT", "ifF"}) /\ Top.k = "boolean"
  /\ IF Top.i = (IF op.o = "ifT" THEN 1 ELSE 0)
     THEN op.lbl # 0 /\ Goto(pc + op.lbl, stack, r_code) ELSE NextOp(stack)

(* Elements of a sequence have one type, that of the first. *)
Scan(l, elems) ==
  LET first == Head(elems)
      lhs == IF l.k # "char_or_string" THEN l
             ELSE IF first.k \in Numbers \cup {"boolean", "char"} THEN Val("long", Head(l.s))
             ELSE [l EXCEPT !.k = "string"]
      Numeric(v) == v.k \in Numbers \cup CanBeNumber
  IN  CASE lhs.k = "string" ->
             IF first.k # "string" THEN Error("TYPE_MISMATCH")
             ELSE Fine(Bool(\E i \in DOMAIN elems : elems[i].s = lhs.s))
        [] Numeric(lhs) ->
             IF ~Numeric(first) THEN Error("TYPE_MISMATCH")
             ELSE Fine(Bool(\E i \in DOMAIN elems : elems[i].i = lhs.i))
        [] lhs.k \in Enums ->
             IF first.k # "enum_val" THEN Error("TYPE_MISMATCH")
             ELSE Fine(Bool(\E i \in DOMAIN elems : elems[i].s = lhs.s))
Member(l, r) ==
  IF l.k \notin (Numbers \cup CanBeNumber \cup Strings \cup Enums) \/ r.k # "seq"
  THEN Error("TYPE_MISMATCH")
  ELSE IF r.sub = <<>> THEN Fine(Bool(FALSE)) ELSE Scan(l, r.sub)
In == At({"in"}) /\ Replace2(Member(Second, Top))

(* A component: a lookup, parts that do nothing once one has failed, and   *)
(* an end that signals the failure or reports it.                          *)
Lookup ==
  /\ At({"wkp"}) /\ r_code = "UNDEFINED"
  /\ IF field = Missing THEN Goto(pc + 1, Append(stack, Null), "NONE_SUCH")
                        ELSE NextOp(Append(stack, field))

(* A union has its discriminator in i, the selected member and whether it  *)
(* is the default one in s, the member's value in sub.                     *)
Select(o, n, v) ==
  CASE o = "dot_len" -> IF v.k = "seq" THEN Fine(Val("ulong", Len(v.sub))) ELSE Error("NONE_SUCH")
    [] o = "dot_d" -> IF v.k = "union" THEN Fine(Val("long", v.i)) ELSE Error("TYPE_MISMATCH")
    [] o = "dot_id" /\ v.k = "struct" -> IF n \in DOMAIN v.sub THEN Fine(v.sub[n]) ELSE Error("NONE_SUCH")
    [] o = "dot_id" /\ v.k = "union" -> IF n = v.s[1] THEN Fine(v.sub[1]) ELSE Error("NONE_SUCH")
    [] o = "index" /\ v.k = "seq" -> IF n \in DOMAIN v.sub THEN Fine(v.sub[n]) ELSE Error("NONE_SUCH")
    [] o = "index" /\ v.k \in Dynanys \ {"seq"} -> Error("NONE_SUCH")
    [] o = "tag" /\ v.k = "union" -> IF n = v.i THEN Fine(v.sub[1]) ELSE Error("NONE_SUCH")
    [] OTHER -> Error("TYPE_MISMATCH")
Part ==
  /\ At(Parts)
  /\ LET res == Select(op.o, op.v.i, Top)
     IN  IF r_code # "UNDEFINED" THEN NextOp(stack)
         ELSE IF res.err = "none" THEN NextOp(Append(Front(stack), res.v))
         ELSE Goto(pc + 1, stack, res.err)

CompEnd == At({"compend"}) /\ (IF r_code = "UNDEFINED" THEN NextOp(stack) ELSE Signal(r_code))
Exist ==
  /\ At({"exist"})
  /\ Goto(pc + 1, Append(Front(stack), Bool(r_code = "UNDEFINED")), "UNDEFINED")
Default ==
  /\ At({"default"})
  /\ CASE r_code # "UNDEFINED" -> Signal(r_code)
       [] r_code = "UNDEFINED" /\ Top.k # "union" -> Signal("TYPE_MISMATCH")
       [] r_code = "UNDEFINED" /\ Top.k = "union" -> Replace1(Fine(Bool(Top.s[2] = 1)))

Done == ~running /\ UNCHANGED vars

Next == \/ Push \/ Pop \/ Label \/ ReturnB \/ SignalN \/ CurTime \/ Convert \/ Not
        \/ ArithOp \/ Substr \/ Cmp \/ ZeroOp \/ Branch \/ In \/ Lookup \/ Part
        \/ CompEnd \/ Exist \/ Default \/ Done

Spec == Init /\ [][Next]_vars

(***************************************************************************)
(* What a constraint means, told without the machine: its value on the     *)
(* event, or the error that evaluating it from left to right meets first.  *)
(* Only what a kind holds, the kinds of literals, and the two functions of *)
(* the C library on strings (StrRank, Within) are those of the code above. *)
(***************************************************************************)
Then(res, F(_)) == IF res.err = "none" THEN F(res.v) ELSE res
Wanted(v, kinds) == IF v.k \in kinds THEN Fine(v) ELSE Error("TYPE_MISMATCH")

(* A boolean and a character count as numbers, too. *)
Countable == Numbers \cup CanBeNumber
Counted(v) ==
  CASE v.k \in Numbers -> [k |-> v.k, i |-> v.i]
    [] v.k \in {"boolean", "char"} -> [k |-> "ushort", i |-> v.i]
    [] v.k = "char_or_string" -> [k |-> "ushort", i |-> v.s[1]]

(* Numbers are compared and computed with as integers, unless one is       *)
(* unsigned, the other signed and not wider, and the first too large for   *)
(* its signed kind: then it wraps around.                                  *)
Wraps(l, r) == /\ ~Signed(l.k) /\ Signed(r.k) /\ Bits(r.k) <= Bits(l.k)
               /\ l.i >= 2 ^ (Bits(l.k) - 1)
Wrapped(l, r) == IF Wraps(l, r) THEN l.i - 2 ^ Bits(l.k) ELSE l.i

Related(o, x, y) == CASE o = "eq" -> x = y  [] o = "ne" -> x # y  [] o = "le" -> x <= y
                      [] o = "lt" -> x < y  [] o = "ge" -> x >= y [] o = "gt" -> x > y

MeaningOfCompare(o, l, r) ==
  CASE l.k \in Strings /\ r.k \in Strings -> Fine(Bool(Related(o, StrRank(l.s, r.s), 0)))
    [] l.k \in Enums /\ r.k \in Enums ->
         IF o \in {"eq", "ne"} /\ "enum_val" \in {l.k, r.k}
         THEN Fine(Bool((l.s = r.s) = (o = "eq"))) ELSE Error("TYPE_MISMATCH")
    [] OTHER ->
         IF {l.k, r.k} \subseteq Countable
         THEN LET x == Counted(l)
                  y == Counted(r)
              IN  Fine(Bool(Related(o, Wrapped(x, y), Wrapped(y, x))))
         ELSE Error("TYPE_MISMATCH")

(* The result is as wide as the wider operand and signed if one of them    *)
(* is; it is what the kind holds of the exact result, modulo its width.    *)
(* A quotient is cut off towards zero, and what is left over has the sign  *)
(* of the dividend.  The process traps on a quotient its kind cannot hold, *)
(* unless that is the shortest kind, which is computed with more bits.     *)
Divides(q, a, b) == LET rest == a - q * b
                    IN  Abs(rest) < Abs(b) /\ (rest = 0 \/ (rest < 0) = (a < 0))
MeaningOfArith(o, l, r) ==
  LET k == CHOOSE kind \in Numbers :
             /\ Signed(kind) = (Signed(l.k) \/ Signed(r.k))
             /\ Bits(kind) = Max({Bits(l.k), Bits(r.k)})
      x == Wrapped(l, r)
      y == Wrapped(r, l)
      q == CHOOSE n \in -Abs(x)..Abs(x) : Divides(n, x, y)
      Exact == CASE o = "add" -> x + y [] o = "sub" -> x - y [] o = "mul" -> x * y
                 [] o = "div" -> q     [] o = "rem" -> x - q * y
      Held == CHOOSE n \in -(2 ^ (Bits(k) - 1))..(2 ^ Bits(k) - 1) :
                Holds(k, n) /\ (n - Exact) % 2 ^ Bits(k) = 0
  IN  IF o \in {"div", "rem"} /\ y = 0 THEN Error("DIVIDE_BY_ZERO")
      ELSE IF o \in {"div", "rem"} /\ Bits(k) > Width /\ ~Holds(k, q) THEN Error("TRAP")
      ELSE Fine(Val(k, Held))

(* A value is in a sequence if it equals an element; both must be text, or *)
(* numbers, or of an enumeration.  Numbers do not wrap around here.        *)
Alike(l, e) == \E sort \in {Strings, Countable, Enums} : {l.k, e.k} \subseteq sort
Equal(l, e) == IF {l.k, e.k} \subseteq Countable THEN Counted(l).i = Counted(e).i ELSE l.s = e.s
MeaningOfIn(l, r) ==
  IF l.k \notin Countable \cup Strings \cup Enums \/ r.k # "seq"
     \/ \E i \in DOMAIN r.sub : ~Alike(l, r.sub[i])
  THEN Error("TYPE_MISMATCH")
  ELSE Fine(Bool(\E i \in DOMAIN r.sub : Equal(l, r.sub[i])))

(* What can be asked of a value, and what it then has.  An index may be    *)
(* asked of everything composed, but only sequences have an answer.  The   *)
(* error for the length of what has none is not fixed: the comment on the  *)
(* ops and the machine disagree on it.                                     *)
Askable == [struct |-> {"dot_id", "index"}, seq |-> {"index", "dot_len"},
            union |-> {"dot_id", "dot_d", "tag", "index"}]
PartsOf(v) ==
  CASE v.k = "struct" -> [q \in {"dot_id"} \X DOMAIN v.sub |-> v.sub[q[2]]]
    [] v.k = "seq" -> [q \in ({"index"} \X DOMAIN v.sub) \cup {<<"dot_len", 0>>} |->
                         IF q[1] = "index" THEN v.sub[q[2]] ELSE Val("ulong", Len(v.sub))]
    [] v.k = "union" -> [q \in {<<"dot_id", v.s[1]>>, <<"tag", v.i>>, <<"dot_d", 0>>} |->
                           IF q[1] = "dot_d" THEN Val("long", v.i) ELSE v.sub[1]]
PartOf(v, p) ==
  IF v.k \notin Dynanys \/ p.o \notin Askable[v.k]
  THEN Error(IF p.o = "dot_len" THEN "NO_LENGTH" ELSE "TYPE_MISMATCH")
  ELSE IF <<p.o, p.v.i>> \in DOMAIN PartsOf(v) THEN Fine(PartsOf(v)[<<p.o, p.v.i>>])
  ELSE Error("NONE_SUCH")
Reach(parts) ==
  FoldLeft(LAMBDA res, p : Then(res, LAMBDA v : PartOf(v, p)),
           IF field = Missing THEN Error("NONE_SUCH") ELSE Fine(field), parts)

(* A number a component yields counts in arithmetic unless it is a long    *)
(* long, which cvt_u2n_ does not know; one computed or written counts.     *)
Operand(n, v) ==
  IF /\ v.k \in {"longlong", "ulonglong"}
     /\ n.n = "comp"
  THEN Error("TYPE_MISMATCH") ELSE Then(Wanted(v, Countable), LAMBDA w : Fine(Counted(w)))

RECURSIVE Meaning(_)
Meaning(n) ==
  LET Left(F(_)) == Then(Meaning(n.c[1]), F)
      Right(F(_)) == Then(Meaning(n.c[2]), F)
      Truth(v) == Wanted(v, {"boolean"})
      Text(v) == Wanted(v, Strings)
  IN
  CASE n.n = "or" -> Then(Left(Truth), LAMBDA b : IF b.i = 1 THEN Fine(b) ELSE Right(Truth))
    [] n.n = "and" -> Then(Left(Truth), LAMBDA b : IF b.i = 0 THEN Fine(b) ELSE Right(Truth))
    [] n.n = "not" -> Then(Left(Truth), LAMBDA b : Fine(Bool(b.i = 0)))
    [] n.n \in DOMAIN ZeroTest -> Left(LAMBDA l : Right(LAMBDA r : MeaningOfCompare(n.n, l, r)))
    [] n.n \in Arith ->
         Then(Left(LAMBDA l : Operand(n.c[1], l)), LAMBDA x :
         Then(Right(LAMBDA r : Operand(n.c[2], r)), LAMBDA y : MeaningOfArith(n.n, x, y)))
    [] n.n = "substr" ->
         Then(Left(Text), LAMBDA x : Then(Right(Text), LAMBDA y : Fine(Bool(Within(x.s, y.s)))))
    [] n.n = "in" -> Left(LAMBDA l : Right(LAMBDA r : MeaningOfIn(l, r)))
    [] n.n = "number" -> Fine(Literal(n.v.i))
    [] n.n = "minus" -> Fine(Val(Negate(Literal(n.v.i)).k, -n.v.i))
    [] n.n = "string" -> Fine([n.v EXCEPT !.k = IF Len(n.v.s) = 1 THEN "char_or_string" ELSE "string"])
    [] n.n \in {"boolean", "ident"} -> Fine(n.v)
    [] n.n = "in_ident" -> Error("NOT_SUPPORTED")
    [] n.n = "curtime" ->
         CASE n.v.k = "error" -> Error("NONE_SUCH") [] n.v.k = "itself" -> Error("TYPE_MISMATCH")
           [] OTHER -> Fine(n.v)
    [] n.n = "comp" -> Reach(n.parts)
    [] n.n = "exist" -> Fine(Bool(Reach(n.parts).err = "none"))
    [] n.n = "exist_curtime" -> Fine(Bool(n.v.k # "error"))
    [] n.n = "default" ->
         Then(Reach(Front(n.parts)), LAMBDA v :
           IF v.k = "union" THEN Fine(Bool(v.s[2] = 1)) ELSE Error("TYPE_MISMATCH"))

(***************************************************************************)
(* Properties.                                                             *)
(***************************************************************************)
RECURSIVE Nodes(_)
Nodes(n) == {n} \cup UNION {Nodes(n.c[i]) : i \in DOMAIN n.c}

(* The generator never trips over its own assertions on the types of the   *)
(* operands, except for the length of a component on the right of an IN,   *)
(* which NewIn() means to reject but does not recognise behind the node    *)
(* that ends the component.  And every jump goes forward to an op, so that *)
(* an evaluation ends within one pass over the code.                       *)
InOverLength(n) ==
  n.n = "in" /\ n.c[2].n = "comp" /\ n.c[2].parts # <<>> /\ Last(n.c[2].parts).o = "dot_len"
GeneratorSound ==
  /\ code.fatal => \E n \in Nodes(tree) : InOverLength(n)
  /\ ~Stopped(code) =>
       \A i \in DOMAIN code.ops :
         code.ops[i].o \in {"ifT", "ifF"} =>
           code.ops[i].lbl > 0 /\ i + code.ops[i].lbl \in DOMAIN code.ops

(* The machine never meets an operand of another kind than the generator   *)
(* counted on, whatever way it jumped to where it is.                      *)
Agrees(v, type) ==
  CASE type = "b" -> v.k = "boolean"        [] type = "c" -> v.k = "char_or_string"
    [] type = "i" -> v.k = "enum_ident"     [] type = "s" -> v.k = "string"
    [] type = "N" -> v.k = "ushort"         [] type = "n" -> v.k \in Numbers
    [] type = "u" -> TRUE
StackTyped ==
  LET types == IF pc = 1 THEN <<>> ELSE code.types[pc - 1]
  IN  running => /\ Len(stack) = Len(types)
                 /\ r_code = "UNDEFINED" => \A i \in DOMAIN types : Agrees(stack[i], types[i])

(* The result is the one the constraint means, or the error evaluating it  *)
(* meets first.  Asking the length of what is not a sequence is an error,  *)
(* too, but which one is left open: RDIConstraint.cc:72 says               *)
(* TYPE_MISMATCH, the machine gives NONE_SUCH.                             *)
ResultRight ==
  ~running /\ ~Stopped(code) =>
    LET m == Then(Meaning(tree), LAMBDA v : Wanted(v, {"boolean"}))
    IN  CASE m.err = "none" -> r_code = "OK" /\ r_bool = m.v.i
          [] m.err = "NO_LENGTH" -> r_code \in {"TYPE_MISMATCH", "NONE_SUCH"}
          [] OTHER -> r_code = m.err
=============================================================================
