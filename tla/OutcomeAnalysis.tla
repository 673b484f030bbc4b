--------------------------- MODULE OutcomeAnalysis ---------------------------
(***************************************************************************)
(* What the outcome analysis concludes from the snapshots of closed leads: *)
(* win rates per signal and industry, and the advice on scoring weights    *)
(* that the weekly report shows.  A rate is a percentage, as round(x, 2)   *)
(* leaves it.  A ratio half way between two percentages, and a difference  *)
(* that is exactly the threshold, are decided by the doubles that stand    *)
(* for them, so they may go either way.                                    *)
(***************************************************************************)
EXTENDS Naturals, Integers, FiniteSets, FiniteSetsExt, Sequences, SequencesExt

CONSTANTS Signals, Industries, Categories,
          MinTotal,        \* outcomes needed for advice (50)
          MinGroup,        \* outcomes needed of a signal or an industry (5)
          Window,          \* corrections that are looked at (100)
          MinCorrections,  \* corrections needed of a category (5)
          TopCategories,   \* categories that may get advice (3)
          MaxCopies,       \* times a lead may carry one signal: a page without title and
                           \* description has weak_seo twice, analyses that overlap add more
          MaxOutcomes, MaxCorrections   \* bounds

VARIABLES snapshots,    \* how many snapshots there are of each kind
          corrections   \* categories of the reviewer's corrections, oldest first

vars == <<snapshots, corrections>>

\* A snapshot, one per closed lead: how often each signal occurs in signals_json.
Kinds == [outcome : {"won", "lost"}, signals : [Signals -> 0..MaxCopies], industry : Industries]

\* The snapshots of the given kinds.
Count(kinds) == MapThenSumSet(LAMBDA k : snapshots[k], kinds)

TypeOK ==
  /\ snapshots \in [Kinds -> 0..MaxOutcomes] /\ Count(Kinds) <= MaxOutcomes
  /\ \A i \in DOMAIN corrections : corrections[i] \in Categories

Init == snapshots = [k \in Kinds |-> 0] /\ corrections = <<>>

CaptureOutcome(k) ==
  /\ Count(Kinds) < MaxOutcomes
  /\ snapshots' = [snapshots EXCEPT ![k] = @ + 1]
  /\ UNCHANGED corrections

RecordCorrection(c) ==
  /\ Len(corrections) < MaxCorrections /\ corrections' = Append(corrections, c)
  /\ UNCHANGED snapshots

Next == (\E k \in Kinds : CaptureOutcome(k)) \/ (\E c \in Categories : RecordCorrection(c))

Spec == Init /\ [][Next]_vars

---------------------------------------------------------------------------
\* What round(won / total, 2) may be, as a percentage: the nearest, and either
\* neighbour of a half.
Rates(won, total) ==
  IF total = 0 THEN {0} ELSE {r \in 0..100 : 200 * won - 2 * (r * total) \in -total..total}

\* The statistics of a group to which a snapshot of each kind contributes a weight.
Group(Weight(_)) ==
  LET Total(kinds) == MapThenSumSet(LAMBDA k : snapshots[k] * Weight(k), kinds)
      won == Total({k \in Kinds : k.outcome = "won"})
  IN  [won |-> won, total |-> Total(Kinds), win_rates |-> Rates(won, Total(Kinds))]

get_outcome_summary == Group(LAMBDA k : 1)
\* Mutant of analyze_signal_correlations: the rate is taken over all snapshots.
SignalOverAll(s) ==
  LET g == Group(LAMBDA k : k.signals[s]) IN [g EXCEPT !.win_rates = Rates(g.won, Count(Kinds))]
analyze_signal_correlations(s) == Group(LAMBDA k : k.signals[s])
analyze_industry_performance(ind) == Group(LAMBDA k : IF k.industry = ind THEN 1 ELSE 0)

sufficient_data == get_outcome_summary.total >= MinTotal

Enough(g) == sufficient_data /\ g.total >= MinGroup
\* By how much the rate of a group may be above that of all.
Differences(g) ==
  LET averages == get_outcome_summary.win_rates IN {r - avg : r \in g.win_rates, avg \in averages}

\* The advice on signals: each that the doubles may lead to.
SignalAdvice(s) ==
  LET g == analyze_signal_correlations(s)
      diffs == Differences(g)
  IN  IF ~Enough(g) THEN {"none"}
      ELSE {a \in {"increase_weight", "decrease_weight", "none"} : \E diff \in diffs :
              \/ a = "increase_weight" /\ diff >= 15
              \/ a = "decrease_weight" /\ diff <= -15
              \/ a = "none" /\ -15 <= diff /\ diff <= 15}

IndustryAdvice(ind) ==
  LET g == analyze_industry_performance(ind)
      diffs == Differences(g)
  IN  IF ~Enough(g) THEN {"none"}
      ELSE {a \in {"high_value_industry", "none"} : \E diff \in diffs :
              \/ a = "high_value_industry" /\ diff >= 20
              \/ a = "none" /\ diff <= 20}

\* The last corrections, the newest first.
Recent == Reverse(IF Len(corrections) <= Window THEN corrections
                  ELSE SubSeq(corrections, Len(corrections) - Window + 1, Len(corrections)))

CorrectionCount(c) == Cardinality({i \in DOMAIN Recent : Recent[i] = c})
FirstSeen(c) == CHOOSE i \in DOMAIN Recent : Recent[i] = c /\ \A j \in 1..(i - 1) : Recent[j] # c
\* most_common: by count, ties in the order in which they were met.
Before(c, d) ==
  \/ CorrectionCount(c) > CorrectionCount(d)
  \/ CorrectionCount(c) = CorrectionCount(d) /\ FirstSeen(c) < FirstSeen(d)
PromptAdvice ==
  LET seen == {c \in Categories : CorrectionCount(c) > 0}
  IN  {c \in seen : /\ sufficient_data
                    /\ CorrectionCount(c) >= MinCorrections
                    /\ Cardinality({d \in seen \ {c} : Before(d, c)}) < TopCategories}

---------------------------------------------------------------------------
Won(kinds) == {k \in kinds : k.outcome = "won"}
\* How often the signal occurs among the leads of the given kinds.
Occurrences(s, kinds) == MapThenSumSet(LAMBDA k : snapshots[k] * k.signals[s], kinds)

\* won / total is above the share of all leads that were won by p points at least, and
\* at most.
AtLeast(won, total, p) ==
  100 * (won * Count(Kinds) - Count(Won(Kinds)) * total) >= p * (total * Count(Kinds))
AtMost(won, total, p) ==
  100 * (won * Count(Kinds) - Count(Won(Kinds)) * total) <= p * (total * Count(Kinds))

\* Two rates that were rounded move the threshold of generate_scoring_recommendations
\* by one point at most: a signal is advised more (less) weight only when its
\* occurrences were won more (less) often than the leads by 14 points, and given no
\* advice only when they were not by more than 16.
EarnedWeight ==
  \A s \in Signals :
    LET won == Occurrences(s, Won(Kinds))
        total == Occurrences(s, Kinds)
        enough == sufficient_data /\ total >= MinGroup
        advice == SignalAdvice(s)
    IN  /\ "increase_weight" \in advice => AtLeast(won, total, 14)
        /\ "decrease_weight" \in advice => AtMost(won, total, -14)
        /\ "none" \in advice /\ enough =>
             AtLeast(won, total, -16) /\ AtMost(won, total, 16)

\* The leads that carry the signal, each counted once.
Carriers(s) == {k \in Kinds : k.signals[s] > 0}

\* More weight is advised only for a signal whose leads, each counted once, were won
\* more often than the average lead, less weight only for the opposite.
WeightByLeads ==
  \A s \in Signals :
    LET won == Count(Won(Carriers(s)))
        total == Count(Carriers(s))
    IN  /\ "increase_weight" \in SignalAdvice(s) => AtLeast(won, total, 1)
        /\ "decrease_weight" \in SignalAdvice(s) => AtMost(won, total, -1)

\* A category of corrections that stopped occurring, however often it was met
\* before, gets no advice once Window newer corrections were written.
OldCorrectionsForgotten ==
  \A c \in Categories :
    (/\ Len(corrections) >= Window
     /\ \A i \in (Len(corrections) - Window + 1)..Len(corrections) : corrections[i] # c)
    => c \notin PromptAdvice

\* An industry is called valuable only when its leads were won more often than all by
\* 19 points, and is not when there is enough of it only when by 21 points at most.
ValuableIndustry ==
  \A ind \in Industries :
    LET mine == {k \in Kinds : k.industry = ind}
        won == Count(Won(mine))
        total == Count(mine)
        enough == sufficient_data /\ total >= MinGroup
        advice == IndustryAdvice(ind)
    IN  /\ "high_value_industry" \in advice => AtLeast(won, total, 19)
        /\ "none" \in advice /\ enough => AtMost(won, total, 21)
=============================================================================
