------------------------------ MODULE Analytics ------------------------------
(***************************************************************************)
(* InMemoryAnalyticsStore (dashboard/store.py): per tenant the list of     *)
(* review summaries, and the views the dashboard routes (api/routes/       *)
(* dashboard.py) compute from it.  A tenant's list is the only thing a     *)
(* view is given.  Averages stay fractions; wording is left out.           *)
(***************************************************************************)
EXTENDS Access, Sequences, FiniteSetsExt, SequencesExt, Functions

CONSTANTS
  Repo,        \* repositories
  Summary,     \* what summarize may return, but for its time
  MaxHotspots  \* files the tech-debt page shows: 10

VARIABLE reviews   \* _data: per tenant the summaries, as they were recorded

Severity == {"info", "low", "medium", "high", "critical"}
SeverityScore == [info |-> 0, low |-> 1, medium |-> 3, high |-> 7, critical |-> 12]

NoFile == "no file"

(* A decision is the issue of one consensus item; file is NoFile when the  *)
(* finding names none.                                                     *)
ASSUME SummaryAssumption ==
  /\ MaxHotspots \in Nat
  /\ \A s \in Summary :
    /\ s.repo \in Repo /\ s.state \in {"open", "closed"}
    /\ {s.pr, s.overall, s.debt, s.cost, s.tokens, s.latency} \subseteq Nat
    /\ IsFiniteSet(DOMAIN s.decisions)
    /\ \A i \in DOMAIN s.decisions : s.decisions[i].severity \in Severity

AnalyticsInit == reviews = [t \in Tenant |-> <<>>]

(* process_pull_request: summarize takes the time, and nothing runs        *)
(* between it and record.  The wall clock may have been set back.          *)
RecordReview(t, s, created_at) ==
  reviews' = [reviews EXCEPT ![t] =
    Append(@, [id |-> Len(@) + 1, summary |-> s, created_at |-> created_at])]

-----------------------------------------------------------------------------
(* Views of the records of a tenant.  A list is walked in the order of the *)
(* ids, or of what it is sorted by.                                        *)
SumOf(all, field) == SumFunction([r \in all |-> r.summary[field]])

OfRepo(all, repo) == {r \in all : r.summary.repo = repo}
ReposOf(all) == {r.summary.repo : r \in all}

Sorted(all, Before(_, _)) ==
  [i \in 1..Cardinality(all) |-> CHOOSE r \in all : Cardinality({q \in all : Before(q, r)}) = i - 1]

(* Mutant of PrOf: pull requests are told apart by their number alone.     *)
NumberOf(r) == r.summary.pr

PrOf(r) == <<r.summary.repo, r.summary.pr>>

(* _latest_per_pr: of a pull request's records those with the latest time  *)
(* are in force, of several the one recorded last.                         *)
InForce(all, r) ==
  \A q \in all : PrOf(q) = PrOf(r) =>
    /\ q.created_at <= r.created_at
    /\ q.created_at = r.created_at => q.id <= r.id

LatestPerPr(all) == {r \in all : InForce(all, r)}

OpenPrs(all) == {r \in LatestPerPr(all) : r.summary.state = "open"}

(* avg_overall is overall / reviews.                                       *)
RepoOverview(all) ==
  [repo \in ReposOf(all) |->
    LET mine == OfRepo(all, repo)
    IN [reviews |-> Cardinality(mine), overall |-> SumOf(mine, "overall"),
        open_prs |-> Cardinality(OpenPrs(mine))]]

(* The decisions of records rs that name a file.                           *)
Located(rs) ==
  {d \in UNION {{r} \X DOMAIN r.summary.decisions : r \in rs} :
     d[1].summary.decisions[d[2]].file # NoFile}

FileOf(d) == d[1].summary.decisions[d[2]].file
ScoreOf(d) == SeverityScore[d[1].summary.decisions[d[2]].severity]

RiskHeatmap(all) ==
  LET located == Located(LatestPerPr(all))
      on(f) == {d \in located : FileOf(d) = f}
  IN [f \in {FileOf(d) : d \in located} |->
       [risk |-> SumFunction([d \in on(f) |-> ScoreOf(d)]), findings |-> Cardinality(on(f))]]

(* The first record of that id; nothing when there is none.                *)
AgentDecisions(all, id) ==
  LET mine == {r \in all : r.id = id}
  IN IF mine = {} THEN <<>> ELSE (CHOOSE r \in mine : TRUE).summary.decisions

CostAnalytics(all) ==
  [total_cost |-> SumOf(all, "cost"), total_tokens |-> SumOf(all, "tokens"),
   reviews |-> Cardinality(all),
   by_repo |-> [repo \in ReposOf(all) |-> SumOf(OfRepo(all, repo), "cost")]]

Quicker(r, q) ==
  r.summary.latency < q.summary.latency \/ (r.summary.latency = q.summary.latency /\ r.id < q.id)

(* p50 is the upper median; avg_ms is sum / count.                         *)
Latency(all) ==
  LET vals == Sorted(all, Quicker)
      count == Len(vals)
  IN IF all = {} THEN [count |-> 0, sum |-> 0, p50 |-> 0, max |-> 0]
     ELSE [count |-> count, sum |-> SumOf(all, "latency"),
           p50 |-> vals[count \div 2 + 1].summary.latency, max |-> vals[count].summary.latency]

(* Records of one time stay in their order.                                *)
Earlier(r, q) == r.created_at < q.created_at \/ (r.created_at = q.created_at /\ r.id < q.id)

QualityTimeline(all, repo) == Sorted(OfRepo(all, repo), Earlier)

(* Files fs may lead a heatmap: as many as the page shows, and none left    *)
(* out has more risk than one of them.  Files of one risk stand in the     *)
(* order in which they were met, which is left open.                       *)
Leading(heat, fs) ==
  /\ Cardinality(fs) = (IF Cardinality(DOMAIN heat) < MaxHotspots
                         THEN Cardinality(DOMAIN heat) ELSE MaxHotspots)
  /\ \A f \in fs, g \in DOMAIN heat \ fs : heat[g].risk <= heat[f].risk

(* avg_tech_debt is debt / prs, 100 without a record; the hotspots are the *)
(* files that lead the heatmap, with their rows.                           *)
TechDebt(all, repo) ==
  LET latest == LatestPerPr(OfRepo(all, repo))
      heat == RiskHeatmap(OfRepo(all, repo))
  IN [debt |-> MapThenSumSet(LAMBDA r : r.summary.debt, latest), prs |-> Cardinality(latest),
      hotspots |-> Restrict(heat, CHOOSE fs \in SUBSET DOMAIN heat : Leading(heat, fs))]

-----------------------------------------------------------------------------
(* The pages of a repository, by the dashboard's overview.                 *)
RepoPagesAgree(all, r) ==
  LET mine == OfRepo(all, r)
      overview == RepoOverview(all)[r]
      debt == TechDebt(all, r)
      heat == RiskHeatmap(mine)
      timeline == QualityTimeline(all, r)
  IN /\ Len(timeline) = overview.reviews
     /\ overview.open_prs <= debt.prs
     /\ \A s \in LatestPerPr(mine) :
          \E i \in DOMAIN timeline :
            timeline[i] = s /\ \A j \in (i + 1)..Len(timeline) : PrOf(timeline[j]) # PrOf(s)
     /\ SumFunction([f \in DOMAIN heat |-> heat[f].findings]) = Cardinality(Located(LatestPerPr(mine)))
     /\ Cardinality(DOMAIN debt.hotspots) <= MaxHotspots
     /\ \A f \in DOMAIN heat \ DOMAIN debt.hotspots :
          /\ Cardinality(DOMAIN debt.hotspots) = MaxHotspots
          /\ \A g \in DOMAIN debt.hotspots : heat[f].risk <= debt.hotspots[g].risk

PagesAgree(all) ==
  LET overview == RepoOverview(all)
      cost == CostAnalytics(all)
  IN /\ DOMAIN overview = DOMAIN cost.by_repo
     /\ Cardinality(OpenPrs(all)) = SumFunction([r \in DOMAIN overview |-> overview[r].open_prs])
     /\ cost.reviews = SumFunction([r \in DOMAIN overview |-> overview[r].reviews])
     /\ cost.total_cost = SumFunction(cost.by_repo)
     /\ Latency(all).count = cost.reviews /\ Latency(all).p50 <= Latency(all).max
     /\ \A r \in DOMAIN overview : RepoPagesAgree(all, r)

(* The pages of one dashboard tell one story: what the overview counts per *)
(* repository, the open pull requests, the costs, the latency, the         *)
(* timeline, the heatmap and the hotspots are all about the same reviews,  *)
(* however often pull requests were reviewed again and the clock was set   *)
(* back.  The page of hotspots leaves a file out only for want of room,    *)
(* and none with more risk than one it shows (store.py:79-180).            *)
ViewsAgree == \A t \in Tenant : PagesAgree(Range(reviews[t]))
=============================================================================
