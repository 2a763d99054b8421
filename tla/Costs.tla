------------------------------- MODULE Costs --------------------------------
(***************************************************************************)
(* What request_logs and the price list say of money: the cost report      *)
(* (omniroute-core/src/costs.rs) and the usage of a key that quotas read   *)
(* (request_log_repo.rs).                                                  *)
(*                                                                         *)
(* A log is a sequence of rows.  Money is counted in tenths of a           *)
(* thousandth of a dollar, the unit below which the report rounds; a row   *)
(* has one count of tokens, priced at so many units per token, where the   *)
(* code adds the same product for input and output.                        *)
(***************************************************************************)
EXTENDS Integers, Sequences, FiniteSets

CONSTANTS
    Provider, NoProvider, \* provider ids; the provider of a row of no chat
    Model, NoModel, Star, \* model ids; none; "*"
    Key, NoKey,           \* ids of API keys; none
    MonthLength           \* instants in a month

CostsAssumption ==
    /\ NoProvider \notin Provider /\ NoModel \notin Model /\ NoKey \notin Key
    /\ MonthLength \in Nat \ {0}

MonthOf(t) == t \div MonthLength

\* The columns of request_logs that are read again.
Row == [ts : Nat, provider : Provider \cup {NoProvider}, model : Model \cup {NoModel},
        ok : BOOLEAN, tokens : Nat, key : Key \cup {NoKey}]

-----------------------------------------------------------------------------
\* The sum of the values of a function, natural numbers: so many units of each.
Units(f) == UNION {{x} \X (1 .. f[x]) : x \in DOMAIN f}

SumOf(f) == Cardinality(Units(f))

-----------------------------------------------------------------------------
(***************************************************************************)
(* Prices: rows with distinct (provider, model).                           *)
(***************************************************************************)
Exact(prices, p, m) == {r \in prices : r.provider = p /\ r.model = m}

\* The prices of the report: the model's own, else the provider's "*" price.
Applicable(prices, p, m) ==
    IF Exact(prices, p, m) # {} THEN Exact(prices, p, m) ELSE Exact(prices, p, Star)

\* What tokens cost at the one price there is, if there is one.
CostAt(rows, tokens) == IF rows = {} THEN 0 ELSE (CHOOSE r \in rows : TRUE).price * tokens

\* (x * 1000.0).round() / 1000.0
Round(x) == ((x + 5) \div 10) * 10

-----------------------------------------------------------------------------
(***************************************************************************)
(* Costs::report                                                           *)
(***************************************************************************)
OfMonth(log, month) == {i \in DOMAIN log : MonthOf(log[i].ts) = month}

\* token_totals: GROUP BY provider, model
GroupOf(row) == <<row.provider, row.model>>

Groups(log, month) == {GroupOf(log[i]) : i \in OfMonth(log, month)}

RowsOf(log, month, g) == {i \in OfMonth(log, month) : GroupOf(log[i]) = g}

TokenTotal(log, month, g) == SumOf([i \in RowsOf(log, month, g) |-> log[i].tokens])

Spend(log, prices, month, g) ==
    CostAt(Applicable(prices, g[1], g[2]), TokenTotal(log, month, g))

\* Mutant: every line counts for every budget.
BudgetLinesAll(log, month, p) == Groups(log, month)

BudgetLines(log, month, p) == {g \in Groups(log, month) : g[1] = p}

Report(log, prices, budgets, month) ==
    [total |-> Round(SumOf([g \in Groups(log, month) |-> Spend(log, prices, month, g)])),
     missing |-> Cardinality({g \in Groups(log, month) :
                                Applicable(prices, g[1], g[2]) = {}}),
     spent |-> [b \in {r \in budgets : r.month = month} |->
                  Round(SumOf([g \in BudgetLines(log, month, b.provider) |->
                                 Round(Spend(log, prices, month, g))]))]]

-----------------------------------------------------------------------------
\* Mutant: the rows of the other keys are counted as well.
CountedAll(log, key, since) == {i \in DOMAIN log : log[i].ts >= since}

\* The rows of a key since an instant.
Counted(log, key, since) == {i \in DOMAIN log : log[i].key = key /\ log[i].ts >= since}

\* usage_for_key: the price list is joined on the exact model only.
Usage(log, prices, key, since) ==
    LET rows == Counted(log, key, since)
    IN  [requests |-> Cardinality(rows),
         tokens |-> SumOf([i \in rows |-> log[i].tokens]),
         cost |-> SumOf([i \in rows |-> CostAt(Exact(prices, log[i].provider, log[i].model),
                                              log[i].tokens)])]
=============================================================================
