-------------------------------- MODULE Metrics --------------------------------
(***************************************************************************)
(* The metrics collector (internal/metrics/collector.go).  Each operator   *)
(* is one critical section of its mutex and maps the books before it to    *)
(* the books after it.  Costs are whole units; latencies stand for         *)
(* themselves.  A sample carries a number in each of the three parallel    *)
(* arrays, so that it can be seen whether they still belong together.      *)
(* Collection is enabled, as main.go has it.  Left out: averages, rates    *)
(* and the wording of reports.                                             *)
(***************************************************************************)
EXTENDS Integers, Sequences, SequencesExt, FiniteSetsExt, Functions

CONSTANTS
  Models,
  ErrorTypes,      \* of errors that are recorded without a request
  MaxDataPoints,   \* of MetricsConfig
  MaxLog           \* entries kept of the request log, 500

ASSUME MetricsParameters == IsFiniteSet(Models) /\ IsFiniteSet(ErrorTypes) /\ MaxDataPoints \in Nat \ {0} /\ MaxLog \in Nat \ {0}

Unknown == <<"unknown">>  \* the model of a job that was not routed
AnyModel == <<>>          \* the filters that are not given
AnyStatus == ""
Booked == Models \cup {Unknown}

\* NewMetricsCollector, and Reset.
EmptyBooks ==
  [requests |-> 0, errors |-> 0, cost |-> 0,
   times |-> <<>>, latencies |-> <<>>, costs |-> <<>>, log |-> <<>>,
   count    |-> [m \in Booked |-> 0],
   failures |-> [m \in Booked |-> 0],
   costOf   |-> [m \in Booked |-> 0],
   errorsOf |-> [t \in ErrorTypes |-> 0]]

Newest(s, n) == IF Len(s) > n THEN SubSeq(s, Len(s) - n + 1, Len(s)) ELSE s

\* A cleanup that trims two of the three arrays.
CleanupTwo(b) ==
  [b EXCEPT !.times = Newest(@, MaxDataPoints), !.latencies = Newest(@, MaxDataPoints)]

\* cleanup.
Cleanup(b) ==
  [b EXCEPT !.times = Newest(@, MaxDataPoints), !.latencies = Newest(@, MaxDataPoints), !.costs = Newest(@, MaxDataPoints)]

\* RecordRequest.
RecordRequest(b, model, id, cost, success) ==
  Cleanup([b EXCEPT
    !.requests = @ + 1, !.cost = @ + cost,
    !.errors = IF success THEN @ ELSE @ + 1,
    !.times = Append(@, id), !.latencies = Append(@, id), !.costs = Append(@, [id |-> id, cost |-> cost]),
    !.count[model] = @ + 1, !.costOf[model] = @ + cost,
    !.failures[model] = IF success THEN @ ELSE @ + 1])

\* RecordError: the total is raised with no request.
RecordError(b, type) == [b EXCEPT !.errors = @ + 1, !.errorsOf[type] = @ + 1]

\* RecordDetailedRequest.
RecordDetailedRequest(b, entry) == [b EXCEPT !.log = Newest(Append(@, entry), MaxLog)]

\* GetRequestLog: the last ones first, those of one model or of all, with one
\* status or with any, a page of them, and how many there are.
GetRequestLog(b, model, status, limit, offset) ==
  LET at    == {i \in DOMAIN b.log : /\ model = AnyModel \/ b.log[i].model = model
                                     /\ status = AnyStatus \/ b.log[i].status = status}
      found == [k \in 1..Cardinality(at) |-> b.log[CHOOSE i \in at : Cardinality({j \in at : j >= i}) = k]]
      rest  == SubSeq(found, offset + 1, Len(found))
  IN [page  |-> IF limit > 0 /\ limit < Len(rest) THEN SubSeq(rest, 1, limit) ELSE rest,
      total |-> Len(found)]

SumOf(f, S) == MapThenSumSet(LAMBDA i : f[i], S)
SumOver(f) == SumOf(f, DOMAIN f)

\* GetTimeSeries: what it counts for the requests of a period, by position;
\* the errors are those of the log, in which nobody writes one.
Bucket(b, samples) ==
  LET in == {i \in DOMAIN b.times : b.times[i] \in samples}
  IN [count     |-> Cardinality(in),
      errors    |-> Cardinality({i \in DOMAIN b.log : b.log[i].id \in samples /\ b.log[i].status = "error"}),
      latencies |-> {b.latencies[i] : i \in in \cap DOMAIN b.latencies},
      cost      |-> SumOver([i \in in \cap DOMAIN b.costs |-> b.costs[i].cost])]

\* The provider is told by the name of the model.
ProviderNames == {"openai", "anthropic", "meta"}
NamedProvider(m) ==
  CASE "gpt" \in Range(m) -> "openai"
    [] "gpt" \notin Range(m) /\ "claude" \in Range(m) -> "anthropic"
    [] Range(m) \cap {"gpt", "claude"} = {} -> IF "llama" \in Range(m) THEN "meta" ELSE "none"

\* GetCostMetrics.  A model whose name tells no provider is under none.
GetCostMetrics(b) ==
  [total      |-> b.cost,
   byModel    |-> b.costOf,
   byProvider |-> [p \in ProviderNames |-> SumOf(b.costOf, {m \in Booked : NamedProvider(m) = p})]]

\* calculatePercentile, of a sorted sequence and in percent.
calculatePercentile(sorted, p) == sorted[((Len(sorted) - 1) * p) \div 100 + 1]

\* The k-th of a sorted sequence is the least with k elements up to it.
Sorted(s) == [k \in DOMAIN s |-> Min({v \in Range(s) : Cardinality({i \in DOMAIN s : s[i] <= v}) >= k})]

\* GetLatencyMetrics, when there are any.
GetLatencyMetrics(b) ==
  LET sorted == Sorted(b.latencies)
  IN [percentiles |-> [p \in {50, 90, 95, 99} |-> calculatePercentile(sorted, p)],
      min |-> sorted[1], max |-> sorted[Len(sorted)], count |-> Len(b.latencies)]

\* The latencies that are reported are samples, and rise with the percentile.
LatenciesAgree(b) ==
  LET got == GetLatencyMetrics(b)
      all == [p \in {0, 50, 90, 95, 99, 100} |->
                CASE p = 0 -> got.min [] p = 100 -> got.max [] OTHER -> got.percentiles[p]]
  IN /\ got.count = Len(b.times) /\ Range(all) \subseteq Range(b.latencies)
     /\ \A p, q \in DOMAIN all : p < q => all[p] <= all[q]

\* Pages of one entry each, put together, are the log.
PagesMakeLog(b) ==
  \A i \in 1..Len(b.log) :
    LET got == GetRequestLog(b, AnyModel, AnyStatus, 1, Len(b.log) - i)
    IN got.total = Len(b.log) /\ got.page = <<b.log[i]>>

\* The costs add up: over the models, and over the providers with the models
\* that are under none.
CostsAgree(b) ==
  LET got  == GetCostMetrics(b)
      rest == {m \in Booked : NamedProvider(m) \notin ProviderNames}
  IN got.total = SumOver(got.byModel) /\ got.total = SumOver(got.byProvider) + SumOf(got.byModel, rest)

\* The books agree with themselves: the totals are the sums of what they were
\* counted from, and each position of the arrays is one request.
Agree(b) ==
  /\ PagesMakeLog(b)
  /\ b.requests = SumOver(b.count)
  /\ CostsAgree(b)
  /\ b.latencies # <<>> => LatenciesAgree(b)
  /\ b.errors = SumOver(b.failures) + SumOver(b.errorsOf)
  /\ \A m \in Booked : b.failures[m] <= b.count[m]
  /\ Len(b.times) = IF b.requests < MaxDataPoints THEN b.requests ELSE MaxDataPoints
  /\ \A n \in DOMAIN b.times :
       LET one == Bucket(b, {b.times[n]})
       IN /\ one.count = 1 /\ one.latencies = {b.times[n]} /\ one.errors = 0
          /\ \A c \in Range(b.costs) : c.id = b.times[n] => one.cost = c.cost
================================================================================
