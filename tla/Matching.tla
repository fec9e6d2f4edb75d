------------------------------ MODULE Matching ------------------------------
(***************************************************************************)
(* The CVE matcher (services/cve_matching: matcher.py, tiering.py,         *)
(* normalize.py, cpe.py, config.py) at work on one sub-blob, while the NVD  *)
(* refresh adds rows to the corpus it queries.                             *)
(*                                                                         *)
(* A component is a normalized version candidate, a row one (CVE, CPE) of   *)
(* cve_corpus.  Similarities and thresholds are in hundredths; what the     *)
(* embedder makes of a component and a row is a constant.                  *)
(*                                                                         *)
(* A row keeps the CPE NVD gives it. The rest of it is what follows the    *)
(* version (update, edition, language, target software...): AnyRest for the *)
(* seven wildcards build_cpe writes, another value for anything else; a row *)
(* that writes its fields otherwise (2.2 form, capitals) has another rest.  *)
(***************************************************************************)
EXTENDS Integers, Sequences, FiniteSets, SequencesExt

CONSTANTS
  Family, Vendors, Products,  \* COMPONENT_FAMILIES: their spellings in NVD
  NoFamily, NoVersion, NoMatch, NoScore, AnyRest,
  Component,      \* [vendor, product, version]
  Row,            \* [cve, part, vendor, product, version, rest]
  Similarity,     \* Similarity[c][r]: similarity_search's score of row r for c
  TopK,           \* DEFAULT_TOP_K
  Base,           \* DEFAULT_THRESHOLDS
  MaxComponents   \* bound on the version candidates of a sub-blob

Cve == {r.cve : r \in Row}
Process == {"router", "api"}
Tier == {"CONFIRMED", "HIGH_CONFIDENCE", "POSSIBLE", "LOW_CONFIDENCE"}
Match == [tier : Tier, score : 0..100 \cup {NoScore}]

Ordered(t) == 0 <= t.low /\ t.low <= t.possible /\ t.possible <= t.high /\ t.high <= 100
Thresholds == {t \in [high : Int, possible : Int, low : Int] : Ordered(t)}

ASSUME MatchingAssumption ==
  /\ Base \in Thresholds /\ TopK \in Nat /\ NoScore \notin 0..100
  /\ NoFamily \notin Family /\ NoMatch \notin Match /\ \A r \in Row : r.version # NoVersion
  /\ Similarity \in [Component -> [Row -> 0..100]]
  /\ MaxComponents \in Nat

VARIABLES
  corpus,      \* the rows of cve_corpus
  components,  \* version_candidates
  next,        \* the component under way
  stage,       \* "lookup", "search", "offer", "emitted" or "raised"
  lookups,     \* its CPEs still to be looked up
  todo,        \* exact_records, or the hits of the search: not offered yet
  best,        \* the dict best: [tier, score] of a CVE
  early,       \* the corpus when matching began (history)
  offered,     \* every offer made (history)
  overrides    \* FAMILY_THRESHOLDS of the router's process and of the API's

matchingVars == <<corpus, components, next, stage, lookups, todo, best, early,
                  offered>>

-----------------------------------------------------------------------------
(* config.py, normalize.py, tiering.py.                                    *)

FamilyFor(product) ==
  IF \E f \in Family : product \in Products[f]
  THEN CHOOSE f \in Family : product \in Products[f] ELSE NoFamily

\* rec.family or comp.family.
FamilyOf(r, c) ==
  IF FamilyFor(r.product) # NoFamily THEN FamilyFor(r.product) ELSE FamilyFor(c.product)

ThresholdsFor(p, f) == IF f = NoFamily THEN Base ELSE overrides[p][f]

\* Faulty variant: only the scanner's own spelling is looked up.
ReportedCpes(c) ==
  IF c.version = NoVersion THEN {}
  ELSE {[part |-> "a", vendor |-> c.vendor, product |-> c.product,
         version |-> c.version, rest |-> AnyRest]}

\* The spellings of the family and the scanner's own.  build_cpe writes every
\* part as an application, and a wildcard for all that follows the version.
CandidateCpes(c) ==
  LET f == FamilyFor(c.product)
      spellings == {<<c.vendor, c.product>>} \cup
                   IF f = NoFamily THEN {} ELSE Vendors[f] \X Products[f] IN
  IF c.version = NoVersion THEN {}
  ELSE {[part |-> "a", vendor |-> s[1], product |-> s[2], version |-> c.version,
         rest |-> AnyRest] : s \in spellings}

CpeOf(r) == [part |-> r.part, vendor |-> r.vendor, product |-> r.product,
             version |-> r.version, rest |-> r.rest]

TierForScore(score, t) ==
  CASE score >= t.high     -> "HIGH_CONFIDENCE"
    [] score >= t.possible /\ score < t.high    -> "POSSIBLE"
    [] score >= t.low      /\ score < t.possible -> "LOW_CONFIDENCE"
    [] OTHER -> "NO_MATCH"

TierRank(tier) ==
  CASE tier = "CONFIRMED" -> 4 [] tier = "HIGH_CONFIDENCE" -> 3
    [] tier = "POSSIBLE" -> 2 [] tier = "LOW_CONFIDENCE" -> 1 [] tier = "NO_MATCH" -> 0

Score(m) == IF m.score = NoScore THEN 0 ELSE m.score

CpesOf(i) == IF i <= Len(components) THEN CandidateCpes(components[i]) ELSE {}

MatchingInit ==
  /\ corpus \in SUBSET Row /\ early = corpus
  /\ components \in BoundedSeq(Component, MaxComponents)
  /\ next = 1 /\ stage = "lookup" /\ lookups = CpesOf(1) /\ todo = {}
  /\ best = [v \in Cve |-> NoMatch] /\ offered = {}
  /\ overrides = [p \in Process |-> [f \in Family |-> Base]]

\* Faulty variant: the later offer replaces the earlier one.
OfferLast(matches, o) ==
  [matches EXCEPT ![o.cve] = [tier |-> o.tier, score |-> o.score]]

\* _offer: the higher tier, then the higher score, stays.
Offer(matches, o) ==
  LET old == matches[o.cve]
      new == [tier |-> o.tier, score |-> o.score] IN
  IF \/ old = NoMatch
     \/ TierRank(new.tier) > TierRank(old.tier)
     \/ new.tier = old.tier /\ Score(new) > Score(old)
  THEN [matches EXCEPT ![o.cve] = new] ELSE matches

-----------------------------------------------------------------------------
(* match_sub_blob.                                                         *)

Current == components[next]
Running == stage \in {"lookup", "search", "offer"} /\ next <= Len(components)

\* One query for each spelling.
ExactLookup ==
  /\ stage = "lookup" /\ Running
  /\ \E cpe \in lookups :
       /\ lookups' = lookups \ {cpe}
       /\ todo' = todo \cup
            {[cve |-> r.cve, tier |-> "CONFIRMED", score |-> NoScore, by |-> next]
               : r \in {q \in corpus : CpeOf(q) = cpe}}
  /\ UNCHANGED <<corpus, components, next, stage, best, early, offered, overrides>>

\* if exact_records: no need for the fuzzy fallback.
LookedUp ==
  /\ stage = "lookup" /\ Running /\ lookups = {}
  /\ stage' = IF todo = {} THEN "search" ELSE "offer"
  /\ UNCHANGED <<corpus, components, next, lookups, todo, best, early, offered, overrides>>

\* ORDER BY distance LIMIT top_k; which of two equals comes first is open.
TopRows(c) ==
  {top \in SUBSET corpus :
     /\ Cardinality(top) = IF Cardinality(corpus) < TopK THEN Cardinality(corpus) ELSE TopK
     /\ \A r \in top, s \in corpus \ top : Similarity[c][r] >= Similarity[c][s]}

\* A hit that is below the lowest threshold of its family is dropped.
Hits(top, c) ==
  {o \in {[cve |-> r.cve, score |-> Similarity[c][r], by |-> next,
           tier |-> TierForScore(Similarity[c][r],
                                 ThresholdsFor("router", FamilyOf(r, c)))]
            : r \in top} : o.tier # "NO_MATCH"}

SimilaritySearch ==
  /\ stage = "search" /\ Running /\ stage' = "offer"
  /\ \E top \in TopRows(Current) : todo' = Hits(top, Current)
  /\ UNCHANGED <<corpus, components, next, lookups, best, early, offered, overrides>>

\* The best hits come first.
OfferOne ==
  /\ stage = "offer"
  /\ \E o \in todo :
       /\ \A q \in todo : Score(o) >= Score(q)
       /\ best' = Offer(best, o) /\ offered' = offered \cup {o} /\ todo' = todo \ {o}
  /\ UNCHANGED <<corpus, components, next, stage, lookups, early, overrides>>

NextComponent ==
  /\ stage = "offer" /\ todo = {}
  /\ next' = next + 1 /\ stage' = "lookup" /\ lookups' = CpesOf(next + 1)
  /\ UNCHANGED <<corpus, components, todo, best, early, offered, overrides>>

\* The payload is validated and handed to the router.
EmitMatches ==
  /\ stage = "lookup" /\ next > Len(components) /\ stage' = "emitted"
  /\ UNCHANGED <<corpus, components, next, lookups, todo, best, early, offered, overrides>>

\* A query raises: the dict is lost with the call, and the record goes to
\* firmware.dlq.
RepoRaises ==
  /\ Running /\ (stage = "search" \/ lookups # {})
  /\ stage' = "raised" /\ lookups' = {} /\ todo' = {}
  /\ best' = [v \in Cve |-> NoMatch] /\ offered' = {}
  /\ UNCHANGED <<corpus, components, next, early, overrides>>

\* Another process upserts a row.
RowAdded ==
  /\ Running /\ \E r \in Row \ corpus : corpus' = corpus \cup {r}
  /\ UNCHANGED <<components, next, stage, lookups, todo, best, early, offered, overrides>>

MatchingNext ==
  \/ ExactLookup \/ LookedUp \/ SimilaritySearch \/ OfferOne \/ NextComponent
  \/ EmitMatches \/ RepoRaises \/ RowAdded

-----------------------------------------------------------------------------
(* Properties.                                                             *)

\* Type correctness; a component brings at most TopK matches by similarity.
MatchingTypeOK ==
  /\ corpus \subseteq Row /\ early \subseteq corpus
  /\ components \in Seq(Component) /\ next \in 1..Len(components) + 1
  /\ stage \in {"lookup", "search", "offer", "emitted", "raised"}
  /\ lookups \subseteq CpesOf(next)
  /\ best \in [Cve -> {NoMatch} \cup Match]
  /\ offered \cup todo \subseteq [cve : Cve, tier : Tier, score : 0..100 \cup {NoScore},
                        by : 1..Len(components)]
  /\ \A i \in DOMAIN components :
       Cardinality({o \in offered \cup todo : o.by = i /\ o.score # NoScore}) <= TopK

Stronger(o, m) ==
  \/ TierRank(o.tier) > TierRank(m.tier)
  \/ TierRank(o.tier) = TierRank(m.tier) /\ Score(o) > Score(m)

\* "De-duplicate by cve_id keeping the highest-ranked tier": a CVE that
\* several components or rows point at is reported once, as strongly as any of
\* them says, in whatever order they come (_offer).
StrongestKept ==
  /\ \A o \in offered : best[o.cve] # NoMatch /\ ~Stronger(o, best[o.cve])
  /\ \A v \in Cve : best[v] # NoMatch =>
       \E o \in offered : o.cve = v /\ o.tier = best[v].tier /\ o.score = best[v].score

\* Every application row that was in the corpus when matching began, names a
\* component's product and version under a spelling of its family and says
\* nothing after the version is CONFIRMED, also when rows arrive meanwhile; and
\* such a component is not matched by similarity as well.  A row that names an
\* update or a target software is never found by the lookup (candidate_cpes,
\* exact_cpe_lookup).
ExactConfirmed ==
  \A i \in 1..next - 1, r \in early :
    /\ stage # "raised" /\ r.part = "a" /\ r.rest = AnyRest
    /\ FamilyFor(r.product) # NoFamily
    /\ FamilyFor(components[i].product) = FamilyFor(r.product)
    /\ r.vendor \in Vendors[FamilyFor(r.product)] /\ components[i].version = r.version
    => /\ best[r.cve] # NoMatch /\ best[r.cve].tier = "CONFIRMED"
       /\ \A o \in offered : o.by = i => o.tier = "CONFIRMED"

\* What is reported fits the thresholds of the family: nothing below the
\* lowest one, no score on a confirmed match, no tier above its score.
TierFitsScore ==
  \A o \in offered :
    IF o.score = NoScore THEN o.tier = "CONFIRMED"
    ELSE \E r \in corpus :
           /\ r.cve = o.cve
           /\ LET t == ThresholdsFor("router", FamilyOf(r, components[o.by])) IN
              /\ o.score >= t.low /\ o.tier # "CONFIRMED"
              /\ (o.tier = "HIGH_CONFIDENCE") = (o.score >= t.high)
              /\ (o.tier = "LOW_CONFIDENCE") = (o.score < t.possible)
=============================================================================
