------------------------------ MODULE MCQuery -------------------------------
(* The statements, table contents and planner choices the query path is    *)
(* checked on.                                                             *)
EXTENDS Query, SqlValues, TLC

MCTables == {"t", "u", "s", "d"}
MCColumnNames(t) ==
  CASE t = "t" -> <<"k", "v">> [] t = "u" -> <<"k", "w">> [] t = "s" -> <<"k">> [] t = "d" -> <<"k", "b">>
MCIndexed == {<<"t", "k">>, <<"u", "k">>, <<"s", "k">>}
MCFullText == {<<"d", "b">>}

(* Rows. *)
I(n) == IntLit(n)
Docs == <<<<I(1), TextLit(<<1, 2>>)>>, <<I(2), TextLit(<<2>>)>>, <<I(3), Null>>>>
Db(t, u, s) == [n \in MCTables |-> CASE n = "t" -> t [] n = "u" -> u [] n = "s" -> s [] n = "d" -> Docs]
Db1 == Db(<<<<I(1), I(1)>>, <<I(2), I(1)>>, <<I(2), I(2)>>>>,
          <<<<I(2), I(1)>>, <<I(2), I(3)>>, <<I(3), I(1)>>>>, <<<<I(2)>>, <<I(1)>>>>)
Db2 == Db(<<<<I(2), I(1)>>, <<I(1), I(2)>>, <<I(1), I(1)>>>>, <<<<I(1), I(2)>>>>, <<<<I(1)>>, <<I(3)>>, <<I(1)>>>>)
Db3 == Db(<<>>, <<<<I(1), I(1)>>>>, <<>>)
DbNulls == Db(<<<<I(1), Null>>, <<I(1), I(1)>>, <<I(3), Null>>>>, <<<<I(1), Null>>, <<I(2), I(1)>>, <<I(3), I(3)>>>>, <<<<I(3)>>>>)
Plain == {Db1, Db2, Db3}
All == Plain \cup {DbNulls}

(* Choices. *)
H(stats, index, order, mem, fits, ro) ==
  [stats |-> stats, index |-> index, order |-> order, mem |-> mem, fits |-> fits, readonly |-> ro]
MCHints ==
  {H(FALSE, "none", <<>>, 9, TRUE, FALSE), H(FALSE, "none", <<>>, 1, FALSE, TRUE),
   H(TRUE, "none", <<2, 1>>, 9, TRUE, FALSE), H(TRUE, "first", <<1, 2>>, 1, FALSE, FALSE),
   H(TRUE, "last", <<2, 1>>, 1, TRUE, FALSE), H(TRUE, "first", <<3, 1, 2>>, 9, FALSE, TRUE)}

(* Statements. *)
Sel(proj, items) ==
  [with |-> <<>>, items |-> items, where |-> <<>>, proj |-> proj, group |-> <<>>, having |-> <<>>,
   distinct |-> FALSE, order |-> <<>>, limit |-> <<>>, offset |-> 0]
T == <<<<"table", "t", "t">>, <<>>>>
U == <<<<"table", "u", "u">>, <<>>>>
S == <<<<"table", "s", "s">>, <<>>>>
D == <<<<"table", "d", "d">>, <<>>>>
C(q, n) == Column(q, n)
N(n) == Literal(IntLit(n))
B(op, a, b) == <<"bin", op, <<a, b>>>>
E(e) == <<"expr", e, "">>
As(e, a) == <<"expr", e, a>>
F(name, args) == <<"func", <<name, FALSE, <<>>>>, args>>
FD(name, args) == <<"func", <<name, TRUE, <<>>>>, args>>
Over(name, args, part, ord, dirs, off) == <<"func", <<name, FALSE, <<Len(args), Len(part), dirs, off>>>>, args \o part \o ord>>
Star == <<"star">>
K == C("", "k")
V == C("", "v")
tk == C("t", "k")
tv == C("t", "v")
uk == C("u", "k")
uw == C("u", "w")
Join(type, left, right, con) == <<left[1], left[2] \o <<<<type, right[1], con>>>>>>
On(e) == <<"on", e>>
Where(s, e) == [s EXCEPT !.where = <<e>>]
Q(s) == <<"select", s>>
TU(type, con) == <<Join(type, T, U, con)>>
EqK == On(B("=", tk, uk))

Simple ==
  {Q(Sel(<<Star>>, <<T>>)),
   Q(Where(Sel(<<Star>>, <<T>>), B("=", K, N(1)))),
   Q(Where(Sel(<<E(V)>>, <<T>>), B("AND", B(">", K, N(1)), B("<=", N(1), V)))),
   Q(Where(Sel(<<E(V), E(K)>>, <<T>>), B("AND", B("=", K, N(2)), B(">=", K, N(1))))),
   Q(Where(Sel(<<E(K)>>, <<S>>), B("<", K, N(3)))),
   Q(Where(Sel(<<Star>>, <<S>>), B("<>", K, N(1)))),
   Q(Where(Sel(<<E(K)>>, <<T>>), <<"isnotnull", 0, <<V>>>>)),
   Q(Where(Sel(<<Star>>, <<T>>), B("=", K, <<"param", 1, <<>>>>))),
   Q(Where(Sel(<<E(K)>>, <<D>>), F("match", <<C("", "b"), Literal(TextLit(<<2>>))>>))),
   Q(Where(Sel(<<E(K)>>, <<D>>), <<"like", FALSE, <<C("", "b"), Literal(TextLit(<<0, 2>>))>>>>)),
   Q([Where(Sel(<<E(K)>>, <<D>>), F("match", <<C("", "b"), Literal(TextLit(<<1, 2>>))>>)) EXCEPT !.order = <<<<K, TRUE>>>>])}
Changes ==
  {<<"delete", "t", <<B("=", K, N(2))>>, <<>>>>,
   <<"delete", "t", <<B("AND", B(">=", K, N(1)), B("=", V, N(1)))>>, <<<<Star>>>>>>,
   <<"delete", "u", <<>>, <<>>>>,
   <<"update", "t", <<<<"v", B("+", K, N(1))>>, <<"k", N(3)>>>>, <<B("<", K, N(2))>>, <<>>>>,
   <<"update", "u", <<<<"k", B("+", K, N(1))>>>>, <<B("=", K, <<"param", 1, <<>>>>)>>, <<>>>>}
Joins ==
  {Q(Where(Sel(<<E(tv), E(uw)>>, TU("inner", EqK)), B("AND", B(">", tk, N(1)), B("=", uw, N(1))))),
   Q(Sel(<<E(tk), E(uw)>>, TU("left", EqK))),
   Q(Where(Sel(<<E(tk), E(uw)>>, TU("left", On(B("AND", B("=", tk, uk), B(">", uw, N(1)))))), B("=", tv, N(1)))),
   Q(Sel(<<E(tk), E(uk), E(uw)>>, TU("right", On(B("AND", B("=", uk, tk), B("<", tv, N(2))))))),
   Q(Sel(<<E(tv), E(uw)>>, TU("full", EqK))),
   Q(Sel(<<E(tv), E(uw)>>, TU("full", On(B("<", tk, uk))))),
   Q(Sel(<<E(tv), E(uw)>>, TU("left", On(B("=", tv, uw))))),
   Q(Where(Sel(<<E(tv), E(uw)>>, <<T, U>>), B("AND", B("=", tk, uk), B("OR", B("=", tv, N(2)), B("=", uw, N(1)))))),
   Q(Where(Sel(<<E(tv), E(uw), E(C("s", "k"))>>, <<T, U, S>>),
           B("AND", B("=", tk, C("s", "k")), B("=", uk, C("s", "k"))))),
   Q(Sel(<<E(K), E(V), E(uw)>>, TU("inner", <<"using", <<"k">>>>))),
   Q(Sel(<<E(K), E(V), E(uw)>>, TU("left", <<"natural">>))),
   Q(Sel(<<E(K), E(V), E(C("", "w"))>>, TU("full", <<"using", <<"k">>>>)))}
Grouped ==
  {Q(Sel(<<E(F("count", <<>>))>>, <<T>>)),
   Q(Where(Sel(<<E(F("count", <<>>)), E(F("sum", <<V>>))>>, <<T>>), B(">", K, N(1)))),
   Q(Where(Sel(<<E(F("count", <<>>))>>, <<T>>), B("=", V, N(1)))),
   Q([Sel(<<E(K), E(F("count", <<>>))>>, <<T>>) EXCEPT !.group = <<K>>]),
   Q([Sel(<<E(K), As(F("min", <<V>>), "m"), E(FD("count", <<V>>))>>, <<T>>)
        EXCEPT !.group = <<K>>, !.having = <<B(">", F("count", <<>>), N(1))>>, !.order = <<<<K, FALSE>>>>]),
   Q([Sel(<<As(B("+", F("max", <<tk>>), N(1)), "m"), E(F("avg", <<uw>>))>>, TU("inner", EqK)) EXCEPT !.group = <<tv>>, !.order = <<<<C("", "m"), TRUE>>>>]),
   Q([Sel(<<E(V)>>, <<T>>) EXCEPT !.distinct = TRUE, !.order = <<<<V, FALSE>>>>, !.limit = <<1>>]),
   Q([Sel(<<E(K)>>, <<T>>) EXCEPT !.order = <<<<V, TRUE>>, <<K, FALSE>>>>, !.limit = <<2>>]),
   Q([Where(Sel(<<E(K)>>, <<T>>), B("AND", B("=", V, N(1)), B(">=", K, N(1)))) EXCEPT !.order = <<<<K, TRUE>>>>]),
   Q([Sel(<<E(K), E(V)>>, <<T>>) EXCEPT !.order = <<<<N(2), FALSE>>>>, !.limit = <<1>>, !.offset = 1])}
Sub(tag, neg, s, kids) == <<tag, <<neg, s>>, kids>>
Nested ==
  {Q(Where(Sel(<<E(V)>>, <<T>>), Sub("exists", FALSE, Where(Sel(<<Star>>, <<U>>), B("=", uk, tk)), <<>>))),
   Q(Where(Sel(<<E(V)>>, <<T>>), Sub("insub", TRUE, Where(Sel(<<E(uk)>>, <<U>>), B(">", uw, N(1))), <<K>>))),
   Q(Sel(<<E(K), As(Sub("scalar", FALSE, Where(Sel(<<E(F("max", <<C("", "w")>>))>>, <<U>>), B("=", uk, tk)), <<>>), "x")>>, <<T>>)),
   Q(Where(Sel(<<E(C("x", "n"))>>, <<<<<<"derived", [Sel(<<E(K), As(F("count", <<>>), "n")>>, <<T>>) EXCEPT !.group = <<K>>], "x">>, <<>>>>>>),
           B("=", C("x", "k"), N(2)))),
   Q([Sel(<<E(C("c", "k")), E(uw)>>, <<Join("inner", <<<<"table", "c", "c">>, <<>>>>, U, On(B("=", C("c", "k"), uk)))>>)
        EXCEPT !.with = <<<<"c", Where(Sel(<<E(K)>>, <<T>>), B("=", V, N(1)))>>>>]),
   Q(Where(Sel(<<E(F("coalesce", <<V, N(0)>>))>>, <<T>>), <<"inlist", FALSE, <<K, N(1), <<"neg", 0, <<N(5)>>>>>>>>)),
   Q(Sel(<<E(<<"case", <<FALSE, TRUE>>, <<B("=", V, N(1)), N(7), N(8)>>>>), E(<<"cast", "bool", <<K>>>>)>>, <<T>>)),
   Q(Where(Sel(<<E(F("nullif", <<V, N(1)>>))>>, <<T>>), <<"not", 0, <<<<"paren", 0, <<B("=", K, N(1))>>>>>>>>)),
   Q(Sel(<<E(B("+", N(1), N(2)))>>, <<>>))}
Windows ==
  {Q(Sel(<<E(K), E(Over("rank", <<>>, <<>>, <<K>>, <<FALSE>>, 0)), E(Over("count", <<>>, <<K>>, <<>>, <<>>, 0))>>, <<T>>)),
   Q(Sel(<<E(K), E(V), E(Over("dense_rank", <<>>, <<>>, <<K>>, <<TRUE>>, 0)), E(Over("sum", <<V>>, <<K>>, <<>>, <<>>, 0))>>, <<T>>)),
   Q(Sel(<<E(K), E(V), E(Over("row_number", <<>>, <<>>, <<K, V>>, <<TRUE, FALSE>>, 0)),
           E(Over("lag", <<V>>, <<K>>, <<V>>, <<TRUE>>, 1)), E(Over("lead", <<K>>, <<>>, <<V, K>>, <<TRUE, TRUE>>, 2))>>, <<T>>))}
SetOps ==
  {<<"setop", op, all, Q(Sel(<<E(K)>>, <<T>>)), Q(Sel(<<E(K)>>, <<S>>)), FALSE>> :
     op \in {"union", "intersect", "except"}, all \in BOOLEAN}
    \cup {<<"setop", "union", FALSE, Q(Sel(<<E(K)>>, <<T>>)), Q(Sel(<<E(K)>>, <<S>>)), TRUE>>}

Pol(t, e) == [policy |-> t :> <<e>>, params |-> <<I(2)>>]
Open == [policy |-> "none" :> <<>>, params |-> <<I(2)>>]
Policies == {Pol("t", Cmp("=", V, N(1))), Pol("u", And(Cmp(">", C("", "w"), N(0)), Cmp("<", K, N(3))))}

In(stmts, dbs, sessions) == {[stmt |-> q, db |-> d, hints |-> h, session |-> ss] :
                               q \in stmts, d \in dbs, h \in MCHints, ss \in sessions}
Policed ==
  {Q(Sel(<<Star>>, <<T>>)), Q(Where(Sel(<<E(V)>>, <<T>>), B("=", K, N(2)))),
   Q(Sel(<<E(C("a", "v")), E(uw)>>, <<Join("inner", <<<<"table", "t", "a">>, <<>>>>, U, On(B("=", C("a", "k"), uk)))>>)),
   Q(Where(Sel(<<E(C("", "w"))>>, <<U>>), Sub("exists", FALSE, Where(Sel(<<E(V)>>, <<T>>), B("=", tk, uk)), <<>>))),
   <<"delete", "t", <<B(">", K, N(1))>>, <<>>>>}
MCInputs ==
  In(Simple \cup Changes \cup Joins \cup Grouped \cup Nested \cup SetOps, Plain, {Open})
    \cup In(Simple \cup Changes \cup Grouped \cup Nested, {DbNulls}, {Open})
    \cup In(Windows, {Db1, Db2}, {Open})
    \cup In(Policed, All, Policies)
=============================================================================
