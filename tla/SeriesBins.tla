------------------------------ MODULE SeriesBins ------------------------------
(***************************************************************************)
(* One sub-job's rows of one kind in the resource tab (tui/resource.py,    *)
(* _Series, as ResourceLoader reads them).  A row goes to its unit's raw   *)
(* samples, each block's new samples into bins, and samples older than the *)
(* retention leave the raw ones.  A first read may take the newest rows    *)
(* first and show them; later loads read what was appended.  Bins widen    *)
(* until the job fits.  A bin's sums stand for the rows counted in it, and *)
(* a chart's value of a unit for the times of the samples it is made of.   *)
(***************************************************************************)
EXTENDS Integers, FiniteSets, SequencesExt

CONSTANTS
  Units,
  MaxTime,    \* bound: sample times are 0 .. MaxTime, as multiples of the narrowest bin
  MaxRows,    \* bound: rows of the file
  Retention,  \* _RAW_RETENTION_S
  Context,    \* _FOLD_CONTEXT_S
  Margin,     \* _FOLD_MARGIN_S
  MaxBins,    \* _MAX_BINS
  Hold,       \* how long a unit's value is carried: _REPORTING_TOLERANCE_S, or three intervals
  Bridge,     \* _BRIDGE_INTERVALS, of a unit that misses a sample
  MaxBuckets, \* _MAX_BUCKETS
  Peek        \* how many rows at each end of a file are peeked at

VARIABLES
  file,       \* the committed rows, in the order they were written: [unit, time]
  read,       \* the rows read: a set of places in the file
  series,     \* what is kept of the rows read
  span        \* what a read in progress has left to do

vars == <<file, read, series, span>>

Time(i) == file[i].time
Never == -1
Rows == 1 .. Len(file)
Least(S) == CHOOSE x \in S : \A y \in S : x <= y
Most(S) == CHOOSE x \in S : \A y \in S : x >= y

Empty ==
  [raw |-> [u \in Units |-> << >>],       \* the raw samples, as places in the file
   binned |-> [u \in Units |-> 0],        \* how many of them are in bins
   unsorted |-> [u \in Units |-> FALSE], lastTs |-> [u \in Units |-> Never],
   bins |-> << >>,                        \* each row's bins: a sequence of <<row, key>>
   width |-> 1, start |-> Never, latest |-> Never, newest |-> Never,
   folded |-> {}, late |-> {}]

Init == file = << >> /\ read = {} /\ series = Empty /\ span = [at |-> "idle"]

Write(u, t) == /\ Len(file) < MaxRows /\ span.at = "idle"
               /\ file' = Append(file, [unit |-> u, time |-> t])
               /\ UNCHANGED <<read, series, span>>

--------------------------------------------------------------------------------
(* What _Series does.                                                      *)

\* _Unit.sort, in place; sorting is stable.
Sorted(q) == SortSeq(q, LAMBDA i, j : Time(i) < Time(j))
SortUnit(v, u) == [v EXCEPT !.raw[u] = IF v.unsorted[u] THEN Sorted(@) ELSE @, !.unsorted[u] = FALSE]
SortAll(v) == [v EXCEPT !.raw = [u \in Units |-> SortUnit(v, u).raw[u]], !.unsorted = [u \in Units |-> FALSE]]

Count(v, i) == Append(v.bins, <<i, Time(i) \div v.width>>)

\* ingest: a row older than the raw samples goes straight into its bin (_late).
Ingest(v, i) ==
  LET u == file[i].unit
      t == Time(i)
      w == [v EXCEPT !.newest = Most({@, t}), !.latest = Most({@, t})]
  IN  IF t < v.start THEN [w EXCEPT !.bins = Count(v, i), !.late = @ \cup {i}]
      ELSE [w EXCEPT !.raw[u] = Append(@, i),
                     !.unsorted[u] = @ \/ t < v.lastTs[u], !.lastTs[u] = Most({@, t})]

\* bin_pending: the samples read since the last call, once each.
Pending(v) == LET todo(u) == [k \in 1 .. Len(v.raw[u]) - v.binned[u] |-> v.raw[u][v.binned[u] + k]]
                  all == FlattenSeq(SetToSeq({todo(u) : u \in Units}))
              IN  [k \in DOMAIN all |-> <<all[k], Time(all[k]) \div v.width>>]
BinPending(v) == [v EXCEPT !.bins = @ \o Pending(v), !.binned = [u \in Units |-> Len(v.raw[u])]]

\* A width at which the keys lo and hi of bins that are w wide come to fit.
Widths(w) == {w * 2^n : n \in 0 .. MaxTime}
Keys(v) == {v.bins[k][2] : k \in DOMAIN v.bins}
\* rebin: double the width until the whole job fits.
Rebin(v) ==
  IF Keys(v) = {} THEN v ELSE
  LET n == Least({m \in 0 .. MaxTime : Most(Keys(v)) \div 2^m - Least(Keys(v)) \div 2^m + 1 <= MaxBins})
  IN  [v EXCEPT !.width = @ * 2^n, !.bins = [k \in DOMAIN v.bins |-> <<v.bins[k][1], v.bins[k][2] \div 2^n>>]]

\* drop_before, on samples in time order, all of them binned.
\* A mutant: the count of binned samples stays as it was.
DropBeforeStale(v, cutoff) ==
  [v EXCEPT !.raw = [u \in Units |-> SelectSeq(v.raw[u], LAMBDA i : Time(i) >= cutoff)]]
DropBefore(v, cutoff) ==
  LET kept == [u \in Units |-> SelectSeq(v.raw[u], LAMBDA i : Time(i) >= cutoff)]
      gone(u) == Len(v.raw[u]) - Len(kept[u])
  IN  [v EXCEPT !.raw = kept, !.binned = [u \in Units |-> Most({0, v.binned[u] - gone(u)})]]

--------------------------------------------------------------------------------
(* What a chart from left to right shows of samples (_accumulate).  A sample has an interval of  *)
(* one, and its unit's value in a bucket is the mean of its samples there.                       *)

\* The buckets are as wide as an interval or, if that makes too many, wider: num / den.
Grid(left, right, most) ==
  IF right - left <= most - 1 THEN [num |-> 1, den |-> 1, last |-> right - left]
  ELSE [num |-> right - left, den |-> most - 1, last |-> most - 1]

\* They are anchored on the right.
Bucket(g, right, t) == Most({0, g.last - (2 * (right - t) * g.den + g.num) \div (2 * g.num)})
Reach(g, right, t) ==
  IF right - t <= Hold THEN g.last ELSE g.last + (-((right - t - Hold) * g.den)) \div g.num

\* What a unit with the samples q has in bucket b: the mean of its samples in it, or a value carried
\* there: from its last sample before, for a while or across one sample missed, or back from its first.
UnitValue(g, left, right, q, bridges, b) ==
  LET opens(k) == 2 * (Time(q[k]) - left) * g.den + (IF g.last > 0 THEN g.num ELSE 0) >= 0
      in == {k \in DOMAIN q : opens(k) /\ Time(q[k]) <= right}
      at(k) == Bucket(g, right, Time(q[k]))
      out == {k \in DOMAIN q : ~opens(k)}
      pre == IF out # {} /\ Time(q[Most(out)]) >= left - Hold THEN {Most(out)} ELSE {}
      run(k) == IF k \in pre THEN {Time(q[k])} ELSE {Time(q[j]) : j \in {i \in in : at(i) = at(k)}}
      earlier == {k \in in : at(k) < b} \cup pre
      later == {k \in in : at(k) > b}
      own == {k \in in : at(k) = b}
      gap == Time(q[Least(later)]) - Time(q[Most(earlier)])
  IN  CASE own # {} -> [by |-> "own", of |-> run(Most(own))]
        [] own = {} /\ earlier # {} /\ later # {} /\ bridges /\ gap <= Bridge ->
             [by |-> "bridge", of |-> run(Most(earlier))]
        [] own = {} /\ earlier # {} /\ ~(later # {} /\ bridges /\ gap <= Bridge)
             /\ b <= Reach(g, right, Time(q[Most(earlier)])) -> [by |-> "hold", of |-> run(Most(earlier))]
        [] own = {} /\ earlier = {} /\ later # {} /\ at(Least(later)) = b + 1 ->
             [by |-> "hold", of |-> run(Least(later))]
        [] OTHER -> [by |-> "none", of |-> {}]

\* A carried value counts in a bucket that some unit sampled, or one that a bridge crosses.
Frame(g, left, right, samples, bridges) ==
  LET values == [u \in Units |-> [b \in 0 .. g.last |-> UnitValue(g, left, right, Sorted(samples[u]), bridges, b)]]
      covered(b) == \E u \in Units : values[u][b].by \in {"own", "bridge"}
  IN  [b \in 0 .. g.last |-> [u \in Units |-> IF covered(b) THEN values[u][b].of ELSE {}]]

\* chart_start
Earliest == Least({Time(i) : i \in read})

\* A window is of samples, the whole job too as long as the raw ones cover it; then it is of bins.
RawFrame(left, latest, samples, bridges) == Frame(Grid(left, latest, MaxBuckets), left, latest, samples, bridges)
RawCoversJob(v) == v.start <= Earliest
BinnedFrame(v) ==
  [k \in Least(Keys(v)) .. Most(Keys(v)) |->
     [u \in Units |-> {i \in Rows : file[i].unit = u /\ \E n \in DOMAIN v.bins : v.bins[n] = <<i, k>>}]]

--------------------------------------------------------------------------------
(* How raw samples leave.                                                  *)

\* _fold: what the raw samples say of the time before the cutoff goes into the extremes.
FoldFrame(start, cutoff, samples, bridges) ==
  LET left == Most({start, Earliest}) IN
  IF cutoff < left THEN << >> ELSE Frame(Grid(left, cutoff, cutoff - left + 1), left, cutoff, samples, bridges)
Fold(v, cutoff) ==
  [v EXCEPT !.folded = @ \cup {i \in Rows : /\ v.start <= Time(i) /\ Time(i) <= cutoff
                                            /\ \E k \in DOMAIN v.raw[file[i].unit] : v.raw[file[i].unit][k] = i}]

\* trim: the raw samples stay for the retention, or from where a read has not yet got past.
Cutoff(v, upto) == Least({v.latest - Retention, upto})
Trim(v, upto) ==
  LET cutoff == Cutoff(v, upto)
  IN  IF v.latest = Never \/ cutoff <= v.start THEN v
      ELSE [DropBefore(SortAll(Fold(BinPending(v), cutoff)), cutoff - Context) EXCEPT !.start = cutoff]

\* plan: the width that the ends of the file call for.
Planned(end) ==
  LET head == {Time(i) : i \in 1 .. Least({Peek, end})}
      tail == {Time(i) : i \in Most({1, end - Peek + 1}) .. end}
  IN  IF end = 0 THEN 1
      ELSE Least({w \in Widths(1) : Most(tail) \div w - Least(head) \div w + 1 <= MaxBins})

--------------------------------------------------------------------------------
(* What a load reads (ResourceLoader._update, _read_newest, _read).        *)

\* A load with nothing read before: the whole file, or its newest rows first.
First(whole) ==
  /\ span.at = "idle" /\ read = {} /\ file # << >>
  /\ series' = [Empty EXCEPT !.width = Planned(Len(file))]
  /\ IF whole THEN span' = [at |-> "read", next |-> 1, end |-> Len(file)]
     ELSE \E begin \in 2 .. Len(file) : span' = [at |-> "newest", next |-> begin, end |-> Len(file), begin |-> begin]
  /\ UNCHANGED <<file, read>>

\* Rows were appended: the load goes on where the last one ended.
More == /\ span.at = "idle" /\ read # {} /\ Len(file) > Cardinality(read)
        /\ series' = [series EXCEPT !.newest = Never]
        /\ span' = [at |-> "read", next |-> Cardinality(read) + 1, end |-> Len(file)]
        /\ UNCHANGED <<file, read>>

\* A rewritten file: everything is read again.
Rewritten == /\ span.at = "idle" /\ read # {} /\ read' = {} /\ series' = Empty /\ UNCHANGED <<file, span>>

ReadRow == /\ span.at \in {"read", "newest"} /\ span.next <= span.end
           /\ series' = Ingest(series, span.next) /\ read' = read \cup {span.next}
           /\ span' = [span EXCEPT !.next = @ + 1] /\ UNCHANGED file

\* The end of a block.  A newest-first slice folds nothing: older rows follow it.
BlockDone ==
  LET v == Rebin(BinPending(series)) IN IF span.at = "newest" THEN v ELSE Trim(v, v.newest - Margin)
EndBlock ==
  /\ span.at \in {"read", "newest"} /\ span.next <= span.end /\ series' = BlockDone
  /\ UNCHANGED <<file, read, span>>

\* The end of a newest-first slice: an older slice, or a first look at what there is (a snapshot
\* sorts the samples) and then the rest of the file.
EndSlice ==
  /\ span.at = "newest" /\ span.next > span.end
  /\ \/ \E begin \in 1 .. span.begin - 1 :
          /\ span' = [at |-> "newest", next |-> begin, end |-> span.begin - 1, begin |-> begin]
          /\ series' = [BlockDone EXCEPT !.newest = Never]
     \/ /\ span' = [at |-> "read", next |-> 1, end |-> span.begin - 1]
        /\ series' = [SortAll(BlockDone) EXCEPT !.newest = Never]
  /\ UNCHANGED <<file, read>>

\* The end of a load: a last trim, and a snapshot.
EndLoad ==
  /\ span.at = "read" /\ span.next > span.end
  /\ series' = SortAll(Trim(BlockDone, series.latest)) /\ span' = [at |-> "idle"] /\ UNCHANGED <<file, read>>

Next == \/ \E u \in Units, t \in 0 .. MaxTime : Write(u, t)
        \/ \E whole \in BOOLEAN : First(whole)
        \/ More \/ Rewritten \/ ReadRow \/ EndBlock \/ EndSlice \/ EndLoad

Spec == Init /\ [][Next]_vars

--------------------------------------------------------------------------------
CountsOf(i) == {k \in DOMAIN series.bins : series.bins[k][1] = i}
InRaw(i) == Cardinality({k \in DOMAIN series.raw[file[i].unit] : series.raw[file[i].unit][k] = i})

\* After a load, however the file was split into reads, each row was counted once, and the chart of
\* the bins shows it in its own.
RowsCountOnce ==
  span.at = "idle" =>
    /\ \A i \in read : Cardinality(CountsOf(i)) = 1
    /\ read # {} =>
         LET key(i) == Time(i) \div series.width  shown == BinnedFrame(series)
         IN  /\ DOMAIN shown = Least({key(i) : i \in read}) .. Most({key(i) : i \in read})
             /\ \A k \in DOMAIN shown, u \in Units :
                  shown[k][u] = {i \in read : file[i].unit = u /\ key(i) = k}

\* The raw samples are whole from their start on and cover the retention; a row that left them
\* was folded, or came too late to be.
RawIsWhole ==
  span.at = "idle" =>
    \A i \in read : /\ Time(i) >= series.start => InRaw(i) = 1
                    /\ Time(i) >= series.latest - Retention => Time(i) >= series.start
                    /\ i \in series.late \/ i \in series.folded \/ Time(i) >= series.start

\* A first read ends at the width that reading the rows a chunk at a time reaches: the least
\* that the whole job fits in.
WidthIsLeast ==
  span.at = "idle" /\ read # {} =>
    LET ts == {Time(i) : i \in read}
    IN  series.width = Least({w \in Widths(1) : Most(ts) \div w - Least(ts) \div w + 1 <= MaxBins})

Samples(S) == [u \in Units |-> SetToSeq({i \in S : file[i].unit = u})]

\* A window of the chart that the raw samples are to cover, and the whole job as long as they cover
\* it, shows of every unit what all the rows read would show: what left is not missed, neither as
\* a sample nor as a value to be carried.
WindowsAreWhole ==
  span.at = "idle" /\ read # {} =>
    \A bridges \in BOOLEAN, left \in {Most({Earliest, series.latest - d}) : d \in 0 .. Retention - Hold}
                                      \cup (IF RawCoversJob(series) THEN {Earliest} ELSE {}) :
      RawFrame(left, series.latest, series.raw, bridges) = RawFrame(left, series.latest, Samples(read), bridges)

\* The extremes of the time that leaves the raw samples are those of all rows but the late ones: the
\* value that a unit last had is carried into a fold from before the one before.
FoldsAreWhole ==
  \A upto \in {series.newest - Margin, series.latest} :
    LET cutoff == Cutoff(series, upto)
    IN  span.at = "read" /\ series.latest # Never /\ cutoff > series.start =>
          \A bridges \in BOOLEAN :
            FoldFrame(series.start, cutoff, series.raw, bridges)
              = FoldFrame(series.start, cutoff, Samples(read \ series.late), bridges)

\* Rows that are never behind by more than the margin are all folded exactly.
OrderedIsExact ==
  (\A i, j \in Rows : i < j => Time(j) >= Time(i) - Margin) => series.late = {}
================================================================================
