---------------------------- MODULE MCMergeDoc ----------------------------
EXTENDS MergeDoc

CONSTANTS r1, r2

MCRecords == {r1, r2}
MCLink == <<"up">>
MCPaths == {<<>>, <<"a">>, <<"a", "x">>, MCLink}

Is(x) == [p \in {<<>>} |-> x]
Bare == Is(Obj)
Full == [p \in {<<>>, <<"a">>, <<"a", "x">>} |-> IF p = <<"a", "x">> THEN "v" ELSE Obj]
Box == [p \in {<<>>, <<"x">>} |-> IF p = <<>> THEN Obj ELSE "w"]
Child(r) == [p \in {<<>>, MCLink} |-> IF p = <<>> THEN Obj ELSE r]

Change(r, p, v) == [r |-> r, p |-> p, v |-> v]

\* One record is edited inside, the other names it; each may be made, made again and deleted.
MCAsked ==
  {Change(r1, <<>>, Bare), Change(r1, <<>>, Full), Change(r1, <<>>, Null),
   Change(r1, <<"a">>, Box), Change(r1, <<"a">>, Is("v")), Change(r1, <<"a">>, Null),
   Change(r1, <<"a", "x">>, Is("w")), Change(r1, <<"a", "x">>, Null),
   Change(r1, MCLink, Is(r2)),
   Change(r2, <<>>, Bare), Change(r2, <<>>, Child(r1)), Change(r2, <<>>, Null),
   Change(r2, MCLink, Is(r1)), Change(r2, MCLink, Null)}

\* Each change alone, and ops in which a change meets what the one before it made.
MCOps ==
  {<<c>> : c \in MCAsked} \cup
  {<<Change(r2, MCLink, Is(r1)), Change(r1, <<>>, Null)>>,
   <<Change(r1, <<>>, Null), Change(r1, <<>>, Bare)>>}
===========================================================================
