------------------------------ MODULE MCLists ------------------------------
EXTENDS Lists

CONSTANTS u1, u2


\* A list made at once; one whose integers run out above, or carry over; one with a
\* tie and a record without a key.
MCStarts ==
  {ListFrom(<<2, 1, 3>>),
   1 :> <<2, 2, 2>> @@ 2 :> <<1, 2>> @@ 3 :> <<2, 2, 2, 1>>,
   1 :> <<-1, 0>> @@ 2 :> <<1, 0>> @@ 3 :> NoKey,
   1 :> <<1, 0>> @@ 2 :> <<1, 0>> @@ 3 :> <<1, 0, 0, 1>>}

Symmetry == Permutations(Users)
===========================================================================
