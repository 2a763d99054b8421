------------------------------ MODULE MCAdmin -------------------------------
(* An instance of Admin for TLC: a free provider that needs no key and one *)
(* that does, with a model of its own each and one they share.             *)
EXTENDS Admin

CONSTANTS p1, p2, m1, m2, m3, q1, q2, q3, k1, k2

MCKeyOf == (q1 :> "a") @@ (q2 :> "a") @@ (q3 :> "b")
MCTtl == (q1 :> 1) @@ (q2 :> 0) @@ (q3 :> 0)
MCOwners == (m1 :> <<p2>>) @@ (m2 :> <<p1, p2>>) @@ (m3 :> <<p1>>)
MCCatalogue ==
    <<[provider |-> p1, noauth |-> TRUE, models |-> <<m2, m3>>],
      [provider |-> p2, noauth |-> FALSE, models |-> <<m1, m2>>]>>
MCCalled == {<<p1, m2>>, <<p2, m1>>, <<p2, m2>>}
MCPriceBody ==
    {[provider |-> p2, model |-> m1, price |-> 4], [provider |-> p2, model |-> m1, price |-> 16],
     [provider |-> p2, model |-> Star, price |-> 4], [provider |-> p1, model |-> m2, price |-> 16]}
MCBudgetBody == {[provider |-> p2, month |-> 0, limit |-> 1]}
MCHookBody == {[events |-> {"success", "error"}, active |-> TRUE],
               [events |-> {"error"}, active |-> FALSE]}
MCComboBody == {[name |-> <<"auto", m1>>, models |-> <<m3>>]}
MCLiveLists == {NoModels, [NoModels EXCEPT ![m1] = 1], [NoModels EXCEPT ![m1] = 2, ![m2] = 1]}
MCSent == {<<q1, k1>>, <<q2, k2>>, <<q3, NoKey>>}
MCDesks ==
    {{"models"}} \cup {{a, "chats"} : a \in {"hooks", "combos"}}
                \cup {{a, "chats", "clock"} : a \in {"costs", "cache"}}
=============================================================================
