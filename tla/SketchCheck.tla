----------------------------- MODULE SketchCheck -----------------------------
(***************************************************************************)
(* The check of the sketch kit: contracts are resolved, grouped by source  *)
(* file and matched one after the other (conkit-sketch/matcher.rs), within *)
(* budgets that run over the whole check (limits/matching.rs,              *)
(* limits/output.rs).  The first budget exceeded ends the check with no    *)
(* report.  Excerpts of lines are left out; a diagnostic's bytes are       *)
(* counted in units (Weight).                                              *)
(***************************************************************************)
EXTENDS SketchResolution

VARIABLES
    sources,        \* the source catalog: a text for some of the files
    queue,          \* contracts still to be matched, in the order of the groups
    scan,           \* the scan of the first of them
    usage,          \* MatchingUsage and DiagnosticBytes
    matched,        \* matched_sketch_count
    report          \* diagnostics

matching == <<sources, queue, scan, usage, matched, report>>
NoScan == [step |-> "begin", start |-> 0, hits |-> <<>>, best |-> 0, score |-> 0]

CheckInit ==
    /\ queue = <<>> /\ scan = NoScan /\ matched = 0 /\ report = <<>>
    /\ usage = [comparisons |-> 0, occurrences |-> 0, bytes |-> 0]

Contract == Head(queue)
Expected == NormalLines(Contract.code)
Source == NormalLines(sources[Contract.file])

Matching(step) == outcome = "matching" /\ queue # <<>> /\ scan.step = step
Refuse(budget) == outcome' = budget /\ UNCHANGED <<queue, scan, usage, matched, report>>

\* What sorting makes of a sequence: none comes after one that it precedes.
Sorted(s, Precedes(_, _)) ==
    {[i \in DOMAIN s |-> s[order[i]]] : order \in
        {p \in Bijection(DOMAIN s, DOMAIN s) :
            \A i, j \in DOMAIN s : i < j => ~Precedes(s[p[j]], s[p[i]])}}

\* Groups come in the order of their files, a group keeps the order of the ids.
Groups ==
    /\ outcome = "accepted" /\ request = "check"
    /\ outcome' = "matching"
    /\ queue' \in Sorted(contracts, LAMBDA c, d :
                    c.file < d.file \/ (c.file = d.file /\ c.id < d.id))
    /\ UNCHANGED <<resolution, sources, scan, usage, matched, report>>

-----------------------------------------------------------------------------
Diagnostic(kind) ==
    [id |-> Contract.id, kind |-> kind, actual |-> 0, spans |-> <<>>, candidate |-> <<>>]

\* Units of a diagnostic's serialized bytes: itself with its separator, and each
\* piece of evidence.  The two bytes of an empty list are left out.
Weight(d) == 1 + Len(d.spans) + (IF d.candidate = <<>> THEN 0 ELSE 1)

NextSketch == queue' = Tail(queue) /\ scan' = NoScan

Push(d) ==
    IF Len(report) + 1 > limits.diagnostics THEN Refuse("diagnostics")
    ELSE IF usage.bytes + Weight(d) > limits.bytes THEN Refuse("bytes")
    ELSE /\ report' = Append(report, d)
         /\ usage' = [usage EXCEPT !.bytes = @ + Weight(d)]
         /\ NextSketch /\ UNCHANGED <<outcome, matched>>

Satisfied == matched' = matched + 1 /\ NextSketch /\ UNCHANGED <<outcome, report>>

BeginSketch ==
    /\ Matching("begin")
    /\ IF Contract.file \notin DOMAIN sources THEN Push(Diagnostic("missing_file"))
       ELSE IF OverBudget(Source, limits.sourceBytes, limits.sourceLines)
         THEN Refuse("source")
       ELSE /\ scan' = [scan EXCEPT !.step = "evaluate"]
            /\ UNCHANGED <<outcome, queue, usage, matched, report>>
    /\ UNCHANGED <<resolution, sources>>

\* One start of MatchScan::evaluate.
EvaluateAt ==
    /\ Matching("evaluate") /\ scan.start < LineCount(Source)
    /\ LET compared == usage.comparisons + Comparisons(Expected, Source, scan.start)
           spent == [usage EXCEPT !.comparisons = compared]
           found == [spent EXCEPT !.occurrences = @ + 1]
           on == [scan EXCEPT !.start = @ + 1]
       IN  IF compared > limits.comparisons THEN Refuse("comparisons")
           ELSE IF ~MatchesAt(Expected, Source, scan.start)
             THEN scan' = on /\ usage' = spent /\ UNCHANGED <<outcome, queue, matched, report>>
           ELSE IF found.occurrences > limits.occurrences THEN Refuse("occurrences")
           ELSE /\ usage' = found
                /\ IF Contract.occurrence = "at_least_one" THEN Satisfied
                   ELSE /\ scan' = [on EXCEPT !.hits = Append(@, scan.start)]
                        /\ UNCHANGED <<outcome, queue, matched, report>>
    /\ UNCHANGED <<resolution, sources>>

\* The verdict once every start was evaluated.  The candidate of an absent
\* snippet is only searched if its diagnostic can still be counted.
Settle ==
    /\ Matching("evaluate") /\ scan.start = LineCount(Source)
    /\ CASE Len(scan.hits) = 0 ->
              IF Len(report) + 1 > limits.diagnostics THEN Refuse("diagnostics")
              ELSE /\ scan' = [NoScan EXCEPT !.step = "candidate"]
                   /\ UNCHANGED <<outcome, queue, usage, matched, report>>
         [] Len(scan.hits) = 1 -> Satisfied /\ UNCHANGED usage
         [] OTHER ->
              Push([Diagnostic("mismatch") EXCEPT
                        !.actual = Len(scan.hits),
                        !.spans = SubSeq(scan.hits, 1, Min({Len(scan.hits), limits.spans}))])
    /\ UNCHANGED <<resolution, sources>>

\* One start of best_candidate: a strictly higher score wins.
Better(score) == scan.start = 0 \/ score > scan.score

ScoreAt ==
    /\ Matching("candidate") /\ scan.start < LineCount(Source)
    /\ LET compared == usage.comparisons + LineCount(Expected)
           score == Score(Expected, Source, scan.start)
           on == [scan EXCEPT !.start = @ + 1]
       IN  IF compared > limits.comparisons THEN Refuse("comparisons")
           ELSE /\ usage' = [usage EXCEPT !.comparisons = compared]
                /\ scan' = IF Better(score)
                             THEN [on EXCEPT !.best = scan.start, !.score = score]
                             ELSE on
                /\ UNCHANGED <<outcome, queue, matched, report>>
    /\ UNCHANGED <<resolution, sources>>

\* A candidate is <<start, end, line of the first difference>>.
Explain ==
    /\ Matching("candidate") /\ scan.start = LineCount(Source)
    /\ Push([Diagnostic("not_matched") EXCEPT !.candidate =
                IF IsEmptyText(Source) \/ Differences(Expected, Source, scan.best) = {} THEN <<>>
                ELSE << scan.best,
                        Min({scan.best + LineCount(Expected), LineCount(Source)}),
                        Min(Differences(Expected, Source, scan.best)) - 1 >>])
    /\ UNCHANGED <<resolution, sources>>

\* SketchInventoryComparison::new sorts the diagnostics.
Report ==
    /\ outcome = "matching" /\ queue = <<>>
    /\ outcome' = "reported"
    /\ report' \in Sorted(report, LAMBDA c, d : c.id < d.id)
    /\ UNCHANGED <<resolution, sources, queue, scan, usage, matched>>

CheckNext ==
    \/ Groups \/ BeginSketch \/ EvaluateAt \/ Settle \/ ScoreAt \/ Explain \/ Report

-----------------------------------------------------------------------------
\* Reference definitions, over texts instead of lines.
\* A text with LF endings, and without its last one.
Plain(text) ==
    LET kept == {i \in DOMAIN text :
                    ~(text[i] = "CR" /\ i < Len(text) /\ text[i + 1] = "LF")}
        last == Len(text)
        body == IF last \in kept /\ text[last] = "LF" THEN kept \ {last} ELSE kept
    IN  FlattenSeq([i \in DOMAIN text |-> IF i \in body THEN <<text[i]>> ELSE <<>>])

Framed(text) == <<"LF">> \o Plain(text) \o <<"LF">>

\* Whole-line occurrences of a snippet in a source are the occurrences of one
\* framed text in the other.
Occurrences(c) ==
    LET whole == Framed(sources[c.file]) part == Framed(c.code)
    IN  {p \in 1..(Len(whole) + 1 - Len(part)) : SubSeq(whole, p, p + Len(part) - 1) = part}

Present(c) == c.file \in DOMAIN sources

Holds(c) ==
    /\ Present(c)
    /\ IF c.occurrence = "at_least_one" THEN Occurrences(c) # {}
       ELSE Cardinality(Occurrences(c)) = 1

Kind(c) ==
    IF ~Present(c) THEN "missing_file"
    ELSE IF Occurrences(c) = {} THEN "not_matched"
    ELSE "mismatch"

Verdict(c) ==
    LET verdicts == {d \in Range(report) : d.id = c.id}
    IN  IF Holds(c) THEN verdicts = {}
        ELSE /\ Cardinality(verdicts) = 1
             /\ \A d \in verdicts :
                   /\ d.kind = Kind(c)
                   /\ d.actual = IF d.kind = "mismatch" THEN Cardinality(Occurrences(c)) ELSE 0

\* The same occurrences, line by line.
Starts(c) == 0..(LineCount(NormalLines(sources[c.file])) - 1)
Hits(c) == {s \in Starts(c) : MatchesAt(NormalLines(c.code), NormalLines(sources[c.file]), s)}

\* The spans are the first occurrences, and the candidate is the earliest of the
\* starts where the most lines agree, with its first difference; there is none
\* only if the source has no line.
Evidence(d, c) ==
    LET expected == NormalLines(c.code)
        source == NormalLines(sources[c.file])
    IN  /\ d.kind = "mismatch" =>
              /\ Len(d.spans) = Min({limits.spans, Cardinality(Hits(c))})
              /\ \A i \in DOMAIN d.spans : Cardinality({s \in Hits(c) : s <= d.spans[i]}) = i
        /\ d.kind = "not_matched" =>
              IF Starts(c) = {} THEN d.candidate = <<>>
              ELSE LET best == d.candidate[1] line == d.candidate[3] + 1 IN
                   /\ \A s \in Starts(c) :
                         \/ Score(expected, source, s) < Score(expected, source, best)
                         \/ Score(expected, source, s) = Score(expected, source, best) /\ s >= best
                   /\ best \in Starts(c) /\ best < d.candidate[2]
                   /\ d.candidate[2] \in {best + Len(expected), Len(source)}
                   /\ line \in Differences(expected, source, best)
                   /\ \A i \in 1..(line - 1) : Agrees(expected, source, best, i)

\* A finished check says of each sketch exactly what a text search says of it:
\* nothing if its policy holds, and else one diagnostic, of the right kind, with
\* the exact number of overlapping occurrences and the evidence that comes
\* closest; the diagnostics come in the order of the ids, and with the matched
\* sketches they are all sketches (the debug assertion of
\* SketchInventoryComparison::new).
VerdictsAreExact ==
    outcome = "reported" =>
        /\ \A c \in Range(contracts) : Verdict(c)
        /\ \A d \in Range(report), c \in Range(contracts) : d.id = c.id => Evidence(d, c)
        /\ \A i, j \in DOMAIN report : i < j => report[i].id < report[j].id
        /\ matched + Len(report) = Len(contracts)

-----------------------------------------------------------------------------
\* What a check needs that no budget ends: the lines it compares to decide a start,
\* up to the first that differs, and those it compares to find a candidate; the
\* occurrences it finds; the sketches it reports.
LookedAt(expected, source, s) ==
    IF s + Len(expected) > LineCount(source) THEN {}
    ELSE {i \in DOMAIN expected : \A j \in 1..(i - 1) : expected[j] = source[s + j]}

Searched(c) == {s \in Starts(c) : c.occurrence = "at_least_one" => \A h \in Hits(c) : s <= h}
Compared(c) ==
    LET expected == NormalLines(c.code)
        source == NormalLines(sources[c.file])
    IN  (UNION {{<<"decide", s, i>> : i \in LookedAt(expected, source, s)} : s \in Searched(c)})
        \cup (IF Hits(c) = {} THEN {"score"} \X Starts(c) \X DOMAIN expected ELSE {})

First(places, c) == {p \in places : c.occurrence = "at_least_one" => \A q \in places : p <= q}

Comparing == UNION {{c.id} \X Compared(c) : c \in {d \in Range(contracts) : Present(d)}}
Finding == UNION {{c.id} \X First(Occurrences(c), c) : c \in {d \in Range(contracts) : Present(d)}}
Failing == {c \in Range(contracts) : ~Holds(c)}

\* A check ends in a report exactly if its work, summed over all its sketches and
\* files, fits the budgets: a budget that runs out is always an error, never a
\* shortened search, and no work is charged that is not needed
\* (limits/matching.rs: "Crossing either ceiling is a hard failure rather than a
\* truncated search or a false match result").
BudgetsAreExact ==
    /\ outcome = "reported" =>
          /\ Cardinality(Comparing) <= limits.comparisons
          /\ Cardinality(Finding) <= limits.occurrences
          /\ Cardinality(Failing) <= limits.diagnostics
    /\ outcome = "comparisons" => Cardinality(Comparing) > limits.comparisons
    /\ outcome = "occurrences" => Cardinality(Finding) > limits.occurrences
    /\ outcome = "diagnostics" => Cardinality(Failing) > limits.diagnostics
    /\ outcome = "source" => \E c \in Range(contracts) :
          Present(c) /\ OverBudget(NormalLines(sources[c.file]), limits.sourceBytes, limits.sourceLines)

\* A check tells the truth about every sketch, or says truthfully which budget it
\* would have exceeded.
CheckIsExact == VerdictsAreExact /\ BudgetsAreExact
=============================================================================
