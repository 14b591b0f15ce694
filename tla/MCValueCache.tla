----------------------------- MODULE MCValueCache -----------------------------
(* ValueCache with the real pages: each by itself, as their fields have       *)
(* nothing in common, and the two error pages, which share theirs, together.  *)
EXTENDS ValueCache, TLC

PageSize ==
    (<<UBA2, \h15>> :> 6) @@ (<<UBA2, \hd1>> :> 2) @@ (<<UBA2, \he4>> :> 42)
    @@ (<<UBA2, \he5>> :> 27) @@ (<<UBA2, \he9>> :> 3) @@ (<<UBA2, \hea>> :> 19)
    @@ (<<UI800, \h06>> :> 8) @@ (<<UI800, \h1f5>> :> 12) @@ (<<UI800, \h21d>> :> 9)
    @@ (<<UI800, \he7>> :> 1) @@ (<<UI800, \h140>> :> 11) @@ (<<UI800, \h1b9>> :> 26)
    @@ (<<UI800, \h1a5>> :> 43) @@ (<<UI800, \h1af>> :> 8)

MCGroups == {{p} : p \in DOMAIN PageSize} \cup {{<<UBA2, \hbf>>, <<UI800, \hbf>>}}

\* An error page with the code and number of up to two errors.
ErrorPage(device, first, second) ==
    <<device, 0, 0, 0, 0>> \o first \o <<0, 0>> \o second \o <<0, 0>> \o <<0, 0, 0, 0, 0, 0, 0>>

\* Rising bytes, falling bytes, and on the short pages the bytes of unavailable
\* temperatures.
MCContents(p) ==
    IF p[2] = \hbf
    THEN LET device == IF p[1] = UBA2 THEN \h08 ELSE \h10
         IN  {ErrorPage(device, <<0, 0, 0, 0, 0>>, <<0, 0, 0, 0, 0>>),
              ErrorPage(device, <<\h41, \h31, \h32, 1, 2>>, <<\h42, \h33, \h34, 0, 5>>)}
    ELSE IF PageSize[p] > 12
    THEN {[i \in 1 .. PageSize[p] |-> i], [i \in 1 .. PageSize[p] |-> 256 - i]}
    ELSE {[i \in 1 .. PageSize[p] |-> i], [i \in 1 .. PageSize[p] |-> 256 - i],
          [i \in 1 .. PageSize[p] |-> IF i % 2 = 0 THEN \h7d ELSE 0]}

\* Whole pages, the parts a device sends of a longer one, single changes, and
\* parts that begin or end within a field.
MCParts ==
    {<<0, 0>>, <<0, 1>>, <<0, 8>>, <<0, 26>>, <<1, 2>>, <<2, 3>>, <<4, 3>>, <<8, 14>>, <<25, 17>>}
=============================================================================
