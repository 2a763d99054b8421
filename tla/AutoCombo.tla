----------------------------- MODULE AutoCombo ------------------------------
(***************************************************************************)
(* The chain of an automatic combo (omniroute-core/src/auto_combo.rs): the *)
(* model and the two best models of free providers, ranked by what         *)
(* request_logs has of their owners.                                       *)
(*                                                                         *)
(* Scores are in units of 1/6000, which makes the weights and the error    *)
(* rates of up to four requests whole numbers.  Every request takes a      *)
(* second, for which latency_inv is 0.5, as it is without telemetry.       *)
(***************************************************************************)
EXTENDS Costs, SequencesExt

CONSTANTS
    Owners,    \* providers_for_model: the owners of each model, in order
    Catalogue  \* the free providers, in order: [provider, noauth, models]

AutoComboAssumption ==
    /\ Owners \in [Model -> Seq(Provider)]
    /\ Catalogue \in Seq([provider : Provider, noauth : BOOLEAN, models : Seq(Model)])

IsNoauth(p) == \E i \in DOMAIN Catalogue : Catalogue[i].provider = p /\ Catalogue[i].noauth

\* Rank and chain look at any connection, active or not.
Usable(p, installed) == p \in installed \/ IsNoauth(p)

-----------------------------------------------------------------------------
\* provider_stats: the rows of a provider, and those with status >= 400.
Requests(log, p) == {i \in DOMAIN log : log[i].provider = p}

Errors(log, p) == {i \in Requests(log, p) : ~ log[i].ok}

\* What counts, by its weight: of n requests, e in error; and the provider.
Health(n, e) == IF n > 0 THEN (1800 * (n - e)) \div n ELSE 1080

Latency == 600

CostInv(p) == IF IsNoauth(p) THEN 900 ELSE 540

Stability(n) == IF n < 10 THEN 60 * n ELSE 600

Connected(p, installed) == IF p \in installed THEN 1500 ELSE 600

Score(log, installed, p) ==
    LET n == Cardinality(Requests(log, p))
    IN  Health(n, Cardinality(Errors(log, p))) + Latency + CostInv(p) + Stability(n)
        + Connected(p, installed)

\* rank_providers_for_model, of which the chain reads the best score.
Ranked(m, log, installed) ==
    LET usable == {i \in DOMAIN Owners[m] : Usable(Owners[m][i], installed)}
        score(i) == Score(log, installed, Owners[m][i])
    IN  [k \in 1 .. Cardinality(usable) |->
           Owners[m][SetToSortSeq(usable, LAMBDA i, j : \/ score(i) > score(j)
                                                        \/ score(i) = score(j) /\ i < j)[k]]]

Best(m, log, installed) ==
    LET ranked == Ranked(m, log, installed)
    IN  IF ranked = <<>> THEN 0 ELSE Score(log, installed, Head(ranked))

-----------------------------------------------------------------------------
\* The models of usable free providers other than m, by their places.
Fallbacks(m, installed) ==
    {ij \in {<<i, j>> : i \in DOMAIN Catalogue, j \in 1 .. 6} :
        /\ ij[2] \in DOMAIN Catalogue[ij[1]].models
        /\ Catalogue[ij[1]].models[ij[2]] # m
        /\ Usable(Catalogue[ij[1]].provider, installed)}

ModelAt(ij) == Catalogue[ij[1]].models[ij[2]]

\* The first of some places in the stable sort of suggest_chain.
Foremost(places, log, installed) ==
    LET best(ij) == Best(ModelAt(ij), log, installed)
    IN  CHOOSE a \in places : \A b \in places \ {a} :
           \/ best(a) > best(b)
           \/ best(a) = best(b) /\ (a[1] < b[1] \/ (a[1] = b[1] /\ a[2] < b[2]))

\* Its model, if there is a place.
First(places, log, installed) ==
    IF places = {} THEN <<>> ELSE <<ModelAt(Foremost(places, log, installed))>>

\* What is left for the next one.
Later(places, log, installed) == {ij \in places : ij # Foremost(places, log, installed)}

\* Mutant: three of them are taken.
SuggestThree(m, log, installed) ==
    LET places == Fallbacks(m, installed)
        second == Later(places, log, installed)
    IN  <<m>> \o First(places, log, installed) \o First(second, log, installed)
              \o First(Later(second, log, installed), log, installed)

\* suggest_chain: .take(2)
SuggestChain(m, log, installed) ==
    LET places == Fallbacks(m, installed)
    IN  <<m>> \o First(places, log, installed)
              \o First(Later(places, log, installed), log, installed)
=============================================================================
