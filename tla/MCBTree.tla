------------------------------ MODULE MCBTree ------------------------------
(* BTree on small instances: a few operations per thread on a small tree. *)
EXTENDS BTree

NoLimit == 9

Call(op, ents)      == [op |-> op, ents |-> ents, cmp |-> "eq", limit |-> NoLimit]
Ins(k, r)           == Call("insert", <<<<k, r>>>>)
Scan(cmp, v, limit) == [op |-> "scan", ents |-> <<<<v, 0>>>>, cmp |-> cmp, limit |-> limit]
Del(k, r)           == Call("remove", <<<<k, r>>>>)
Many(ents)          == Call("many", ents)
Patch(ps)           == Call("patch", ps)
MaxKey              == Call("max", <<<<0, 0>>>>)

Load(setup, a, b, c) == [t \in 0 .. 3 |-> <<setup, a, b, c>>[t + 1]]

Two   == <<Many(<<<<1, 1>>, <<3, 1>>>>)>>
Three == <<Ins(1, 1), Ins(3, 1), Ins(5, 1)>>
Five  == <<Ins(1, 1), Ins(3, 1), Ins(5, 1), Ins(7, 1), Ins(9, 1)>>
All   == Scan("ge", 1, NoLimit)

\* The root leaf splits under readers; writers split the same leaf; a split
\* reaches the root; duplicates of a separator straddle two leaves; batches
\* against single inserts and against changes of their leaf; removals and
\* patches against splits and readers.
SafeScripts ==
  {Load(Two,   <<Ins(2, 1), Ins(4, 1)>>, <<All>>, <<Scan("eq", 3, NoLimit)>>),
   Load(Two,   <<Ins(2, 1), Ins(2, 2)>>, <<Ins(4, 1), Scan("eq", 2, NoLimit)>>, <<Ins(2, 3)>>),
   Load(Five,  <<Ins(6, 1)>>, <<Ins(4, 1), Scan("le", 7, NoLimit)>>, <<>>),
   Load(Five,  <<Ins(10, 1), Ins(11, 1)>>, <<Scan("gt", 3, 2), MaxKey>>, <<All>>),
   Load(Three, <<Many(<<<<1, 2>>, <<3, 2>>, <<5, 2>>, <<7, 2>>>>)>>, <<Ins(3, 3), Scan("lt", 5, NoLimit)>>, <<>>),
   Load(Five,  <<Many(<<<<2, 1>>, <<4, 1>>, <<8, 1>>>>)>>, <<Del(5, 1), Scan("ge", 3, 3)>>, <<>>),
   Load(Five,  <<Many(<<<<3, 2>>, <<4, 2>>, <<5, 2>>>>), All>>, <<Many(<<<<3, 3>>, <<5, 3>>>>)>>, <<>>),
   Load(Two,   <<Many(<<<<2, 1>>, <<2, 2>>>>)>>, <<Del(3, 1), All>>, <<Scan("eq", 2, NoLimit)>>),
   Load(Two,   <<Many(<<<<1, 2>>, <<2, 1>>, <<3, 2>>>>)>>, <<Ins(2, 3)>>, <<All>>),
   Load(Five,  <<Many(<<<<7, 2>>, <<8, 1>>, <<9, 2>>>>)>>, <<Del(7, 1), Ins(8, 2)>>, <<>>),
   Load(Three, <<Patch(<<<<1, 1, 2>>, <<5, 1, 2>>, <<6, 1, 2>>>>)>>, <<Ins(2, 1)>>, <<All>>),
   Load(Three, <<Del(3, 1), Del(4, 1)>>, <<Ins(3, 2)>>, <<Call("set", <<<<5, 4>>>>)>>),
   Load(Three, <<Call("update", <<<<3, 1, 2>>>>), Call("update", <<<<4, 1, 2>>>>)>>, <<All>>, <<>>)}
============================================================================
