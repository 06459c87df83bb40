------------------------------ MODULE Filters ------------------------------
(***************************************************************************)
(* libs/ogc-kit/filter: the two readers of OGC filters (CQL text, Filter   *)
(* XML), the syntax tree they share and its translation to a WHERE clause. *)
(*                                                                         *)
(* A text is the sequence of tokens the lexer makes of it, an XML document *)
(* a tree of elements.  Words are strings: names in lower case, keywords   *)
(* in upper case (the parser compares the upper-cased text).  The operators*)
(* are the functions of the package; FilterPaths runs them.                *)
(***************************************************************************)
EXTENDS Integers, SequencesExt

CONSTANTS
  LocalName,    \* prefixed name -> the name after the first colon
  BadNames,     \* names that are no SQL identifier
  Malformed     \* texts of number tokens that are no number
-----------------------------------------------------------------------------
(* The syntax tree. *)
Prop(n)               == [op |-> "prop", name |-> n]
Lit(k, t)             == [op |-> "lit", kind |-> k, text |-> t]
Compare(c, l, r)      == [op |-> "cmp", cmp |-> c, left |-> l, right |-> r]
Logic(l, es)          == [op |-> "logic", link |-> l, exprs |-> es]
Not(e)                == [op |-> "not", expr |-> e]
Like(p, t, ci, neg)   == [op |-> "like", prop |-> p, pattern |-> t, ci |-> ci, neg |-> neg]
In(p, vs, neg)        == [op |-> "in", prop |-> p, vals |-> vs, neg |-> neg]
Between(p, l, h, neg) == [op |-> "btw", prop |-> p, lo |-> l, hi |-> h, neg |-> neg]
IsNull(p, neg)        == [op |-> "null", prop |-> p, neg |-> neg]
BBox(n, b, s)         == [op |-> "bbox", name |-> n, box |-> b, srs |-> s]
Spatial(f, n, w)      == [op |-> "spatial", fn |-> f, name |-> n, wkt |-> w]
DWithin(n, w, d, u, b) == [op |-> "dwithin", name |-> n, wkt |-> w, dist |-> d,
                           units |-> u, beyond |-> b]
IncludeAll            == [op |-> "all"]

(* The outcome of a reader: the value and the tokens left, or an error. *)
Fail == [ok |-> FALSE, val |-> IncludeAll, rest |-> <<>>]
Ok(v, ts) == [ok |-> TRUE, val |-> v, rest |-> ts]
Then(r, F(_, _)) == IF r.ok THEN F(r.val, r.rest) ELSE Fail

StripPrefix(t) == IF t \in DOMAIN LocalName THEN LocalName[t] ELSE t
-----------------------------------------------------------------------------
(* CQL. *)
Tok(k, t) == [kind |-> k, text |-> t]
Word(t) == Tok("ident", t)
Punct(t) == Tok("punct", t)
Texts(ts) == [i \in DOMAIN ts |-> ts[i].text]

Peek(ts) == IF ts = <<>> THEN Tok("eof", "") ELSE Head(ts)
IsWord(ts, t) == Peek(ts) = Word(t)
IsPunct(ts, t) == Peek(ts) = Punct(t)
\* expect looks at the text of the token and not at its kind
Expect(ts, t) == IF Peek(ts).text = t THEN Ok(t, Tail(ts)) ELSE Fail
WhenPunct(ts, t) == IF IsPunct(ts, t) THEN Ok(t, Tail(ts)) ELSE Fail

SpatialOps == {"INTERSECTS", "WITHIN", "CONTAINS", "DISJOINT", "TOUCHES", "CROSSES",
               "OVERLAPS", "EQUALS"}
GeomKeywords == {"POINT", "LINESTRING", "POLYGON", "MULTIPOINT", "MULTILINESTRING",
                 "MULTIPOLYGON", "GEOMETRYCOLLECTION"}

ParseNum(ts) ==
  IF Peek(ts).kind = "number" /\ Peek(ts).text \notin Malformed
  THEN Ok(Peek(ts).text, Tail(ts)) ELSE Fail

ParseName(ts) ==
  IF Peek(ts).kind = "ident" THEN Ok(StripPrefix(Peek(ts).text), Tail(ts)) ELSE Fail

ParseValue(ts) ==
  LET t == Peek(ts) IN
  CASE t.kind = "string" -> Ok(Lit("string", t.text), Tail(ts))
    [] t.kind = "number" -> Then(ParseNum(ts), LAMBDA n, us : Ok(Lit("number", n), us))
    [] t.kind = "ident" /\ t.text \in {"TRUE", "FALSE"} ->
         Ok(Lit("bool", t.text), Tail(ts))
    [] t.kind = "ident" -> Ok(Prop(StripPrefix(t.text)), Tail(ts))
    [] OTHER -> Fail

(* The values of an IN list, ts standing after "(" or ",". *)
RECURSIVE ParseValues(_, _)
ParseValues(vs, ts) ==
  Then(ParseValue(ts), LAMBDA v, us :
    IF IsPunct(us, ",") THEN ParseValues(Append(vs, v), Tail(us))
                        ELSE Ok(Append(vs, v), us))

(* n numbers, each after a comma. *)
RECURSIVE ParseNums(_, _, _)
ParseNums(n, ns, ts) ==
  IF n = 0 THEN Ok(ns, ts)
  ELSE Then(Expect(ts, ","), LAMBDA c, us :
         Then(ParseNum(us), LAMBDA x, vs : ParseNums(n - 1, Append(ns, x), vs)))

(* A geometry: its keyword and the text up to the parenthesis that closes it. *)
ParseWKT(ts) ==
  LET Open(i) == Cardinality({j \in 2..i : ts[j] = Punct("(")})
                   - Cardinality({j \in 2..i : ts[j] = Punct(")")})
      ends == {i \in 2..Len(ts) : Open(i) = 0}
  IN IF /\ Peek(ts).kind = "ident" /\ Peek(ts).text \in GeomKeywords
        /\ IsPunct(Tail(ts), "(")
        /\ ends # {}
     THEN LET i == Min(ends) IN Ok(Texts(SubSeq(ts, 1, i)), SubSeq(ts, i + 1, Len(ts)))
     ELSE Fail

(* ts stands at the keyword in the three that follow. *)
ParseBBox(ts) ==
  LET Srs(us) == IF ~IsPunct(us, ",") THEN Ok("", us)
                 ELSE IF Peek(Tail(us)).kind = "string"
                      THEN Ok(Peek(Tail(us)).text, Tail(Tail(us))) ELSE Fail
  IN Then(Expect(Tail(ts), "("), LAMBDA o, t1 :
     Then(ParseName(t1),         LAMBDA n, t2 :
     Then(ParseNums(4, <<>>, t2), LAMBDA b, t3 :
     Then(Srs(t3),               LAMBDA s, t4 :
     Then(Expect(t4, ")"),       LAMBDA c, t5 : Ok(BBox(n, b, s), t5))))))

ParseGeometryTest(ts, Rest(_, _, _)) ==
  Then(Expect(Tail(ts), "("), LAMBDA o, t1 :
  Then(ParseName(t1),         LAMBDA n, t2 :
  Then(Expect(t2, ","),       LAMBDA c, t3 :
  Then(ParseWKT(t3),          LAMBDA w, t4 : Rest(n, w, t4)))))

ParseSpatial(ts) ==
  ParseGeometryTest(ts, LAMBDA n, w, us :
    Then(Expect(us, ")"), LAMBDA c, vs : Ok(Spatial(Head(ts).text, n, w), vs)))

ParseDWithin(ts) ==
  ParseGeometryTest(ts, LAMBDA n, w, t0 :
    Then(ParseNums(1, <<>>, t0), LAMBDA d, t1 :
    Then(Expect(t1, ","),        LAMBDA c, t2 :
    IF Peek(t2).kind # "ident" THEN Fail ELSE
    Then(Expect(Tail(t2), ")"),  LAMBDA p, t3 :
      Ok(DWithin(n, w, d[1], Peek(t2).text, Head(ts).text = "BEYOND"), t3)))))

(* name op value, or name [NOT] LIKE, IN, BETWEEN, or name IS [NOT] NULL. *)
ParsePredicate(ts) ==
  LET p   == Prop(StripPrefix(Head(ts).text))
      t1  == Tail(ts)
      neg == IsWord(t1, "NOT")
      t2  == IF neg THEN Tail(t1) ELSE t1
      key == Peek(t2)
      t3  == Tail(t2)
      nn  == IsWord(t3, "NOT")
      t4  == IF nn THEN Tail(t3) ELSE t3
  IN CASE Peek(t1).kind = "op" ->
            Then(ParseValue(Tail(t1)), LAMBDA v, us : Ok(Compare(Peek(t1).text, p, v), us))
       [] key \in {Word("LIKE"), Word("ILIKE")} ->
            IF Peek(t3).kind = "string"
            THEN Ok(Like(p, Peek(t3).text, key.text = "ILIKE", neg), Tail(t3)) ELSE Fail
       [] key = Word("IN") ->
            Then(WhenPunct(t3, "("), LAMBDA o, us :
            Then(ParseValues(<<>>, us), LAMBDA vs, t5 :
            Then(WhenPunct(t5, ")"), LAMBDA c, t6 : Ok(In(p, vs, neg), t6))))
       [] key = Word("BETWEEN") ->
            Then(ParseValue(t3), LAMBDA lo, us :
            IF ~IsWord(us, "AND") THEN Fail
            ELSE Then(ParseValue(Tail(us)), LAMBDA hi, t5 : Ok(Between(p, lo, hi, neg), t5)))
       [] key = Word("IS") /\ ~neg ->
            IF IsWord(t4, "NULL") THEN Ok(IsNull(p, nn), Tail(t4)) ELSE Fail
       [] OTHER -> Fail

RECURSIVE ParseOr(_), ParseOrRest(_, _), ParseAnd(_), ParseAndRest(_, _),
          ParseUnary(_), ParsePrimary(_)

ParseOr(ts) == Then(ParseAnd(ts), ParseOrRest)
ParseOrRest(left, ts) ==
  IF ~IsWord(ts, "OR") THEN Ok(left, ts)
  ELSE Then(ParseAnd(Tail(ts)), LAMBDA right, us :
         ParseOrRest(Logic("OR", <<left, right>>), us))

ParseAnd(ts) == Then(ParseUnary(ts), ParseAndRest)
ParseAndRest(left, ts) ==
  IF ~IsWord(ts, "AND") THEN Ok(left, ts)
  ELSE Then(ParseUnary(Tail(ts)), LAMBDA right, us :
         ParseAndRest(Logic("AND", <<left, right>>), us))

ParseUnary(ts) ==
  IF IsWord(ts, "NOT")
  THEN Then(ParseUnary(Tail(ts)), LAMBDA e, us : Ok(Not(e), us))
  ELSE ParsePrimary(ts)

ParsePrimary(ts) ==
  LET t == Peek(ts) IN
  CASE IsPunct(ts, "(") ->
         Then(ParseOr(Tail(ts)), LAMBDA e, us :
         Then(WhenPunct(us, ")"), LAMBDA c, vs : Ok(e, vs)))
    [] t.kind # "ident" -> Fail
    [] t = Word("INCLUDE") -> Ok(IncludeAll, Tail(ts))
    [] t = Word("EXCLUDE") -> Ok(Not(IncludeAll), Tail(ts))
    [] t = Word("BBOX") -> ParseBBox(ts)
    [] t.text \in SpatialOps -> ParseSpatial(ts)
    [] t \in {Word("DWITHIN"), Word("BEYOND")} -> ParseDWithin(ts)
    [] OTHER -> ParsePredicate(ts)

\* Slip: what follows the filter is ignored
ParseCQLLax(ts) == IF ts = <<>> THEN Fail ELSE ParseOr(ts)
ParseCQL(ts) ==
  IF ts = <<>> THEN Fail
  ELSE Then(ParseOr(ts), LAMBDA e, us : IF us = <<>> THEN Ok(e, us) ELSE Fail)

\* Slip: the two constraints are joined without their parentheses
AndCQLBare(a, b) ==
  IF a = <<>> THEN b ELSE IF b = <<>> THEN a ELSE a \o <<Word("AND")>> \o b
(* The auth service joins the constraints of two LIMIT rules as text. *)
AndCQL(a, b) ==
  IF a = <<>> THEN b
  ELSE IF b = <<>> THEN a
  ELSE <<Punct("(")>> \o a \o <<Punct(")"), Word("AND"), Punct("(")>> \o b \o <<Punct(")")>>
-----------------------------------------------------------------------------
(* Filter XML.  An element has a text or the words of its text, a word     *)
(* being the numbers between its commas; the text of an envelope stands    *)
(* for its srsName.                                                        *)
Element(n, kids) == [name |-> n, kids |-> kids, text |-> "", words |-> <<>>]
TextElement(n, t) == [Element(n, <<>>) EXCEPT !.text = t]
Coordinates(n, ws) == [Element(n, <<>>) EXCEPT !.words = ws]

Kids(n, names) == SelectSeq(n.kids, LAMBDA k : k.name \in names)

CompareOp == [PropertyIsEqualTo |-> "=", PropertyIsNotEqualTo |-> "<>",
              PropertyIsLessThan |-> "<", PropertyIsLessThanOrEqualTo |-> "<=",
              PropertyIsGreaterThan |-> ">", PropertyIsGreaterThanOrEqualTo |-> ">="]
SpatialOp == [Intersects |-> "INTERSECTS", Within |-> "WITHIN", Contains |-> "CONTAINS",
              Disjoint |-> "DISJOINT", Touches |-> "TOUCHES", Crosses |-> "CROSSES",
              Overlaps |-> "OVERLAPS", Equals |-> "EQUALS"]

PropOf(n) ==
  LET refs == Kids(n, {"PropertyName", "ValueReference"}) IN
  IF refs = <<>> THEN Fail ELSE Ok(StripPrefix(refs[1].text), <<>>)

FirstLiteral(n, otherwise) ==
  LET lits == Kids(n, {"Literal"}) IN IF lits = <<>> THEN otherwise ELSE lits[1].text
LiteralText(n) == FirstLiteral(n, "")

Boundary(n, tag) ==
  LET bs == Kids(n, {tag}) IN
  Lit("string", IF bs = <<>> THEN "" ELSE FirstLiteral(Last(bs), Last(bs).text))

TwoFloats(ws) ==
  LET ns == FlattenSeq(ws) IN
  IF Len(ns) = 2 /\ Range(ns) \cap Malformed = {} THEN Ok(ns, <<>>) ELSE Fail

(* Corner i of a box: the last element that gives it. *)
Corner(n, tag, i) ==
  LET cs == SelectSeq(n.kids, LAMBDA k :
              k.name = tag \/ (k.name = "coordinates" /\ Len(k.words) = 2))
  IN IF cs = <<>> THEN Fail
     ELSE TwoFloats(IF Last(cs).name = tag THEN Last(cs).words ELSE <<Last(cs).words[i]>>)

ConvertBBox(n) ==
  Then(PropOf(n), LAMBDA p, z :
    LET boxes == Kids(n, {"Envelope", "Box"}) IN
    IF boxes = <<>> THEN Fail
    ELSE Then(Corner(boxes[1], "lowerCorner", 1), LAMBDA lo, y :
         Then(Corner(boxes[1], "upperCorner", 2), LAMBDA up, x :
           Ok(BBox(p, lo \o up, boxes[1].text), <<>>))))

(* x y, x y: the points of a ring as the text of WKT. *)
RingText(ps) ==
  FlattenSeq([i \in DOMAIN ps |-> IF i = 1 THEN ps[i] ELSE <<",">> \o ps[i]])

(* The last posList or coordinates below n. *)
RECURSIVE RingWords(_)
RingWords(n) ==
  LET below == SelectSeq([i \in DOMAIN n.kids |-> RingWords(n.kids[i])],
                         LAMBDA ws : ws # <<>>)
  IN IF below # <<>> THEN Last(below)
     ELSE IF n.name \in {"posList", "coordinates"} THEN n.words ELSE <<>>

GmlToWKT(n) ==
  LET pos == Kids(n, {"pos", "coordinates"})
      ws == RingWords(n)
      pairs == IF \E i \in DOMAIN ws : Len(ws[i]) > 1 THEN ws
               ELSE [i \in 1..(Len(ws) \div 2) |-> ws[2*i - 1] \o ws[2*i]]
      lows == Kids(n, {"lowerCorner"})
      ups == Kids(n, {"upperCorner"})
      Polygon(ps) == Ok(<<"POLYGON", "(", "(">> \o RingText(ps) \o <<")", ")">>, <<>>)
  IN CASE n.name = "Point" /\ pos # <<>> ->
            Then(TwoFloats(pos[1].words), LAMBDA c, z :
              Ok(<<"POINT", "(">> \o c \o <<")">>, <<>>))
       [] n.name = "Polygon" /\ ws # <<>> -> Polygon(pairs)
       [] n.name = "Envelope" /\ lows # <<>> /\ ups # <<>> ->
            Then(TwoFloats(Last(lows).words), LAMBDA l, z :
            Then(TwoFloats(Last(ups).words), LAMBDA u, y :
              Polygon(<<l, <<u[1], l[2]>>, u, <<l[1], u[2]>>, l>>)))
       [] OTHER -> Fail

ConvertSpatial(n) ==
  Then(PropOf(n), LAMBDA p, z :
    LET gs == SelectSeq([i \in DOMAIN n.kids |-> GmlToWKT(n.kids[i])], LAMBDA g : g.ok)
    IN IF gs = <<>> THEN Fail ELSE Ok(Spatial(SpatialOp[n.name], p, gs[1].val), <<>>))

\* Slip: an operand after the second is left out
FoldTwo(link, es) == Logic(link, <<es[1], es[2]>>)
(* More than two operands are folded to the left. *)
FoldOperands(link, es) ==
  FoldLeft(LAMBDA acc, e : Logic(link, <<acc, e>>), es[1], Tail(es))

RECURSIVE Convert(_)
Convert(n) ==
  LET kids == [i \in DOMAIN n.kids |-> Convert(n.kids[i])]
      vals == [i \in DOMAIN kids |-> kids[i].val]
      WithProp(E(_)) == Then(PropOf(n), LAMBDA p, z : Ok(E(Prop(p)), <<>>))
  IN CASE n.name \in DOMAIN CompareOp ->
            WithProp(LAMBDA p : Compare(CompareOp[n.name], p, Lit("string", LiteralText(n))))
       [] n.name \in DOMAIN SpatialOp -> ConvertSpatial(n)
       [] n.name \in {"And", "Or"} ->
            IF Len(kids) < 2 \/ \E i \in DOMAIN kids : ~kids[i].ok THEN Fail
            ELSE Ok(FoldOperands(IF n.name = "And" THEN "AND" ELSE "OR", vals), <<>>)
       [] n.name = "Not" ->
            IF Len(kids) # 1 THEN Fail ELSE Then(kids[1], LAMBDA e, z : Ok(Not(e), <<>>))
       [] n.name = "PropertyIsLike" ->
            WithProp(LAMBDA p : Like(p, LiteralText(n), FALSE, FALSE))
       [] n.name = "PropertyIsNull" -> WithProp(LAMBDA p : IsNull(p, FALSE))
       [] n.name = "PropertyIsBetween" ->
            WithProp(LAMBDA p : Between(p, Boundary(n, "LowerBoundary"),
                                           Boundary(n, "UpperBoundary"), FALSE))
       [] n.name = "BBOX" -> ConvertBBox(n)
       [] OTHER -> Fail

ParseFilterXML(root) ==
  IF root.name # "Filter" \/ root.kids = <<>> THEN Fail ELSE Convert(root.kids[1])
-----------------------------------------------------------------------------
(* The WHERE clause: a sequence of tokens, an argument being the number of *)
(* its placeholder, and the values to bind, the first to placeholder n.    *)
Arg(n) == [kind |-> "arg", place |-> n]
Column(n) == Tok("column", n)
Sql(ts) == [i \in DOMAIN ts |-> Tok("sql", ts[i])]

NoClause == [ok |-> FALSE, toks |-> <<>>, args |-> <<>>]
Clause(ts, as) == [ok |-> TRUE, toks |-> ts, args |-> as]

QuoteIdent(n) == IF n \in BadNames THEN NoClause ELSE Clause(<<Column(n)>>, <<>>)

\* Slip: every placeholder of a clause has the number of the first
PlaceholdersFirst(n, k) == [i \in 1..k |-> Arg(n)]
(* The placeholders of k values, the first of them n. *)
Placeholders(n, k) == [i \in 1..k |-> Arg(n + i - 1)]

(* a sep b sep c *)
Joined(ss, sep) ==
  FlattenSeq([i \in DOMAIN ss |-> IF i = 1 THEN ss[i] ELSE sep \o ss[i]])

Negated(neg, op) == IF neg THEN <<"NOT", op>> ELSE <<op>>

SqlFunction == [INTERSECTS |-> "ST_Intersects", WITHIN |-> "ST_Within",
                CONTAINS |-> "ST_Contains", DISJOINT |-> "ST_Disjoint",
                TOUCHES |-> "ST_Touches", CROSSES |-> "ST_Crosses",
                OVERLAPS |-> "ST_Overlaps", EQUALS |-> "ST_Equals"]

(* A test of column c: the text before and after the placeholders of vs. *)
OnColumn(c, n, vs, Text(_, _)) ==
  LET col == QuoteIdent(c) IN
  IF col.ok /\ \A i \in DOMAIN vs : vs[i].op = "lit"
  THEN Clause(Text(col.toks, Placeholders(n, Len(vs))), [i \in DOMAIN vs |-> vs[i].text])
  ELSE NoClause
Text1(t) == Lit("string", t)

\* Slip: the operands of a disjunction are not put into parentheses
ParensLost(l, ts) == IF l = "OR" THEN ts ELSE Sql(<<"(">>) \o ts \o Sql(<<")">>)
Parens(l, ts) == Sql(<<"(">>) \o ts \o Sql(<<")">>)

RECURSIVE Emit(_, _), EmitAll(_, _)
Emit(e, n) ==
  CASE e.op = "all" -> Clause(Sql(<<"TRUE">>), <<>>)
    [] e.op = "prop" -> QuoteIdent(e.name)
    [] e.op = "cmp" ->
         IF e.right.op = "lit"
         THEN OnColumn(e.left.name, n, <<e.right>>, LAMBDA c, as : c \o Sql(<<e.cmp>>) \o as)
         ELSE LET l == Emit(e.left, n)
                  r == Emit(e.right, n) IN
              IF l.ok /\ r.ok THEN Clause(l.toks \o Sql(<<e.cmp>>) \o r.toks, <<>>)
              ELSE NoClause
    [] e.op = "logic" ->
         LET parts == EmitAll(e.exprs, n) IN
         IF \E i \in DOMAIN parts : ~parts[i].ok THEN NoClause
         ELSE Clause(Parens(e.link, Joined([i \in DOMAIN parts |-> parts[i].toks],
                                           Sql(<<e.link>>))),
                     FlattenSeq([i \in DOMAIN parts |-> parts[i].args]))
    [] e.op = "not" ->
         LET s == Emit(e.expr, n) IN
         IF s.ok THEN Clause(Sql(<<"NOT", "(">>) \o s.toks \o Sql(<<")">>), s.args) ELSE s
    [] e.op = "like" ->
         OnColumn(e.prop.name, n, <<Text1(e.pattern)>>, LAMBDA c, as :
           c \o Sql(Negated(e.neg, IF e.ci THEN "ILIKE" ELSE "LIKE")) \o as)
    [] e.op = "in" ->
         OnColumn(e.prop.name, n, e.vals, LAMBDA c, as :
           c \o Sql(Negated(e.neg, "IN") \o <<"(">>)
             \o Joined([i \in DOMAIN as |-> <<as[i]>>], Sql(<<",">>)) \o Sql(<<")">>))
    [] e.op = "btw" ->
         OnColumn(e.prop.name, n, <<e.lo, e.hi>>, LAMBDA c, as :
           c \o Sql(Negated(e.neg, "BETWEEN")) \o <<as[1]>> \o Sql(<<"AND">>) \o <<as[2]>>)
    [] e.op = "null" ->
         OnColumn(e.prop.name, n, <<>>, LAMBDA c, as :
           c \o Sql(IF e.neg THEN <<"IS", "NOT", "NULL">> ELSE <<"IS", "NULL">>))
    [] e.op = "bbox" ->
         OnColumn(e.name, n, [i \in 1..4 |-> Text1(e.box[i])], LAMBDA c, as :
           c \o Sql(<<"&&", "ST_MakeEnvelope", "(">>)
             \o Joined([i \in DOMAIN as |-> <<as[i]>>], Sql(<<",">>)) \o Sql(<<")">>))
    [] e.op = "spatial" ->
         OnColumn(e.name, n, <<[Text1("") EXCEPT !.text = e.wkt]>>, LAMBDA c, as :
           Sql(<<SqlFunction[e.fn], "(">>) \o c \o Sql(<<",", "ST_GeomFromText", "(">>)
             \o as \o Sql(<<")", ")">>))
    [] e.op = "dwithin" ->
         OnColumn(e.name, n, <<[Text1("") EXCEPT !.text = e.wkt], Text1(e.dist)>>,
           LAMBDA c, as :
             Sql((IF e.beyond THEN <<"NOT">> ELSE <<>>) \o <<"ST_DWithin", "(">>) \o c
               \o Sql(<<",", "ST_GeomFromText", "(">>) \o <<as[1]>> \o Sql(<<")", ",">>)
               \o <<as[2]>> \o Sql(<<")">>))
    [] OTHER -> NoClause
(* The operands of a connective share one run of placeholders. *)
EmitAll(es, n) ==
  IF es = <<>> THEN <<>>
  ELSE LET first == Emit(es[1], n)
       IN <<first>> \o EmitAll(Tail(es), n + Len(first.args))

ToSQL(e, startArg) == Emit(e, startArg)
=============================================================================
