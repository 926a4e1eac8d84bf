---------------------------- MODULE MCPolicyRules ----------------------------
(* A small alphabet and every name of up to three characters over it, *)
(* with the longer ones that meet a limit of the guard or a nested wildcard. *)
EXTENDS PolicyRules, TLC

MCChar == {"a", "A", "b", ".", "*"}
MCLower == [c \in MCChar |-> IF c = "A" THEN "a" ELSE c]

MCQuery ==
  UNION {[1..n -> {"a", "b", "."}] : n \in 0..3} \union
  {<<"A", ".">>, <<"b", ".", "A", ".">>, <<"*">>, <<"*", ".", "a">>, <<"a", ".", "b", "a">>,
   <<"b", ".", "b", "b">>, <<"b", "a", ".", "a">>, <<"b", ".", ".", "a">>, <<".", ".", ".", "b">>,
   <<"b", "b", "b", "a">>, <<"b", ".", "a", "b", "b">>, <<"b", ".", "b", ".", "a">>,
   <<"a", ".", "b", ".", "a">>, <<"b", ".", "b", "b", "b", ".", "a">>,
   <<"b", "b", ".", "b", "b", ".", ".", "a">>, <<".", ".", "b", ".", ".", "a">>}

MCConfigured == {<<"A">>, <<"a", ".">>, <<"*", ".", "A">>, <<"b", ".", "a", ".">>}
MCRequested ==
  {<<"a">>, <<"A", ".">>, <<"*", ".", "a">>, <<"b", ".", "A">>, <<".">>}

MCDenyList == {<<"b", ".", "b">>, <<"*", ".", "b", ".", "A">>}

MCCostTables ==
  {<<>>,
   << <<(<<"*", ".", "a">>), 1>>, <<(<<"*", ".", "b", ".", "A">>), 2>>, <<(<<"b", ".", "a">>), 3>> >>,
   << <<(<<"b", ".", "a", ".">>), 3>>, <<(<<"*", ".", "a">>), 1>>, <<(<<"*", ".", "A">>), 4>>, <<(<<"a">>), 5>> >>}
=============================================================================
