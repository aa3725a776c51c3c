------------------------------- MODULE MCWire -------------------------------
(* The requests that TLC composes: an edge of every class of Value. *)
EXTENDS Wire

MCNames == {<<97>>}
MCArgNames == {<<98, 99>>, <<>>}

Nested == ArrPush(ArrPush(ArrNew(0), MakeStr(<<0>>)), ArrPush(ArrNew(0), MakeInt(8, -1)))

MCValues ==
    {Null,
     MakeInt(1, -2), MakeInt(2, 2147483647), MakeInt(3, -2147483647), MakeInt(4, 65536),
     MakeInt(5, -32768), MakeInt(6, 65535), MakeInt(7, 255), MakeInt(8, -128),
     MakeStr(<<>>), MakeStr(<<10, 255>>),
     ArrNew(0), ArrSet(ArrNew(2), 1, Nested)}
=============================================================================
