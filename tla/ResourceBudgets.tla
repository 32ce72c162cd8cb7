-------------------------- MODULE ResourceBudgets --------------------------
(* The budgets of one operation of a domain kit. Each meter accumulates what    *)
(* the operation has been charged and refuses the charge that would pass its    *)
(* ceiling, with the least total it has proved: input catalogs, counts of Rust  *)
(* items, YAML streams (read raw, then replayed with their aliases expanded),   *)
(* arrays of diagnostics, and the bytes an operation returns or keeps as        *)
(* scratch. The two kits have a copy each; kit says whose copy it is where they *)
(* differ. The first refusal ends the operation, which then drops what it keeps.*)
EXTENDS Naturals, Sequences, SequencesExt, FiniteSetsExt

VARIABLES
    kit,        \* "signature" or "sketch"
    meter,      \* the meter this operation uses
    ceilings,   \* resource -> the most of it the operation may use
    charges,    \* what the operation will be charged, in order
    charged,    \* how many of the charges have been admitted
    used,       \* resource -> what the meter has accumulated
    progress,       \* progress within the current charge
    live,       \* the scratch texts and returned buffers that are live
    returned,   \* the bytes of the files handed back so far
    verdict     \* "running", or how the operation ended

budgets == <<kit, meter, ceilings, charges, charged, used, progress, live, returned, verdict>>
constants == <<kit, meter, ceilings, charges>>
Output == <<live, returned>>

Running == [kind |-> "running", of |-> "none", observed |-> 0]
Ended(kind) == verdict' = [Running EXCEPT !.kind = kind]
Exceeded(resource, observed) ==
    verdict' = [kind |-> "exceeded", of |-> resource, observed |-> observed]
Within(resource, total) == total <= ceilings[resource]

Going == verdict.kind = "running"
Pending == Going /\ charged < Len(charges)
Current == charges[charged + 1]
Idle == [step |-> "idle"]

\* Every loop of an operation asks its probe whether it was canceled.
CancelMeter == Going /\ Ended("canceled") /\ UNCHANGED <<constants, charged, used, progress, Output>>
Complete ==
    /\ meter # "output" /\ Going /\ charged = Len(charges) /\ progress = Idle
    /\ Ended("accepted") /\ UNCHANGED <<constants, charged, used, progress, Output>>

(* Input catalogs: a charge is a catalog, the sizes of its files in path order. *)

BeginCatalog ==
    /\ meter = "catalogs" /\ Pending /\ progress = Idle
    /\ LET number == used["entries"] + Len(Current)
       IN  IF Within("entries", number)
           THEN progress' = [step |-> "files", next |-> 1] /\ UNCHANGED verdict
           ELSE Exceeded("entries", number) /\ UNCHANGED progress
    /\ UNCHANGED <<constants, charged, used, Output>>

MeasureFile ==
    /\ meter = "catalogs" /\ Going /\ progress # Idle /\ progress.next <= Len(Current)
    /\ LET bytes == Current[progress.next]
           total == used["total"] + bytes
       IN  IF ~Within("file", bytes) THEN Exceeded("file", bytes) /\ UNCHANGED <<used, progress>>
           ELSE IF ~Within("total", total) THEN Exceeded("total", total) /\ UNCHANGED <<used, progress>>
           ELSE /\ used' = [used EXCEPT !["total"] = total]
                /\ progress' = [progress EXCEPT !.next = @ + 1]
                /\ UNCHANGED verdict
    /\ UNCHANGED <<constants, charged, Output>>

EndCatalog ==
    /\ meter = "catalogs" /\ Going /\ progress # Idle /\ progress.next > Len(Current)
    /\ used' = [used EXCEPT !["entries"] = @ + Len(Current)]
    /\ charged' = charged + 1 /\ progress' = Idle
    /\ UNCHANGED <<constants, Output, verdict>>

(* Rust extraction: a charge is a resource and an amount of it. Items and       *)
(* signatures add up over the operation, the others are ceilings of one value.  *)

AddsUp == {"items", "signatures"}
CountItems ==
    /\ meter = "items" /\ Pending
    /\ LET r == Current.of
           total == Current.amount + (IF r \in AddsUp THEN used[r] ELSE 0)
           observed == IF Within(r, total) \/ r # "items" THEN total ELSE ceilings[r] + 1
       IN  /\ used' = IF r \in AddsUp THEN [used EXCEPT ![r] = observed] ELSE used
           /\ IF Within(r, total) THEN charged' = charged + 1 /\ UNCHANGED verdict
                                ELSE Exceeded(r, observed) /\ UNCHANGED charged
    /\ UNCHANGED <<constants, progress, Output>>

(* YAML streams: a charge is a stream, the events of its parser, the place of   *)
(* its first syntax error (0: none). An alias names the event of its anchor.    *)

Depth(events) ==
    LET opened(e) == IF e.kind = "open" THEN 1 ELSE 0
        after[i \in 0..Len(events)] ==
            IF i = 0 THEN 0
            ELSE after[i - 1] + opened(events[i]) - (IF events[i].kind = "close" THEN 1 ELSE 0)
    IN  after
Count(events, kinds) == Cardinality({i \in 1..Len(events) : events[i].kind \in kinds})
SumBytes(events) == FoldSeq(LAMBDA e, sum : e.bytes + sum, 0, events)

\* What reading events amounts to: each document, node, alias and byte once.
Tally(events) ==
    [documents |-> Count(events, {"begin"}),
     depth |-> Max({Depth(events)[i] : i \in 0..Len(events)}),
     nodes |-> Count(events, {"scalar", "null", "open"}),
     aliases |-> Count(events, {"alias"}),
     bytes |-> SumBytes(events)]

\* The last event of the node that begins at i.
NodeEnd(events, i) ==
    IF events[i].kind # "open" THEN i
    ELSE Min({j \in i..Len(events) : Depth(events)[j] = Depth(events)[i - 1]})

\* What the semantic parser reads: each alias followed by its node once more,
\* with the number of aliases it is read through.
Expanded(events) ==
    LET of[i \in 1..Len(events)] ==
            LET e == events[i]
                node == [k \in 1..(NodeEnd(events, e.node) - e.node + 1) |-> of[e.node + k - 1]]
                content == FlattenSeq(node)
            IN  <<[e EXCEPT !.through = 0]>> \o
                (IF e.kind # "alias" THEN <<>>
                 ELSE [k \in DOMAIN content |-> [content[k] EXCEPT !.through = @ + 1]])
    IN  FlattenSeq([i \in 1..Len(events) |-> of[i]])

Resources == <<"documents", "nodes", "depth", "aliases", "bytes">>
\* Depth starts anew in each stream.
SoFar(resource) == IF resource = "depth" THEN 0 ELSE used[resource]

BeginStream ==
    /\ meter = "yaml" /\ Pending /\ progress = Idle
    /\ progress' = [step |-> "raw", next |-> 1, raw |-> Tally(<<>>)]
    /\ UNCHANGED <<constants, charged, used, Output, verdict>>

\* The raw scan counts an event in the order of its resources and stops at the
\* first that does not fit. The budget itself is charged when the scan is over.
RawEvent ==
    /\ meter = "yaml" /\ Going /\ progress.step = "raw" /\ progress.next <= Len(Current.events)
    /\ progress.next # Current.broken
    /\ LET seen == Tally(SubSeq(Current.events, 1, progress.next))
           over == SelectSeq(Resources, LAMBDA r : ~Within(r, SoFar(r) + seen[r]))
       IN  IF over = <<>> THEN progress' = [progress EXCEPT !.next = @ + 1, !.raw = seen] /\ UNCHANGED verdict
           ELSE /\ \E r \in (IF kit = "sketch" THEN {over[1]} ELSE ToSet(over)) :
                      Exceeded(r, SoFar(r) + seen[r])
                /\ UNCHANGED progress
    /\ UNCHANGED <<constants, charged, used, Output>>

\* An error of syntax ends the operation with nothing charged.
Malformed ==
    /\ meter = "yaml" /\ Going /\ progress.step = "raw" /\ progress.next = Current.broken
    /\ Ended("malformed") /\ UNCHANGED <<constants, charged, used, progress, Output>>

HasData(e) == e.kind \in {"scalar", "open", "alias"}
\* Some document holds nothing but a null, or there is no document.
LacksData(events) ==
    LET begins == {i \in 1..Len(events) : events[i].kind = "begin"}
    IN  \/ begins = {}
        \/ \E b \in begins : \A i \in b..Len(events) :
              HasData(events[i]) => \E f \in b..i : events[f].kind = "finish"

FinishRaw ==
    /\ meter = "yaml" /\ Going /\ progress.step = "raw" /\ progress.next > Len(Current.events)
    /\ LET adds == DOMAIN progress.raw \ {"depth"}
       IN  used' = [r \in DOMAIN used |-> used[r] + (IF r \in adds THEN progress.raw[r] ELSE 0)]
    /\ IF LacksData(Current.events) THEN Ended("malformed") /\ UNCHANGED progress
       ELSE progress' = [progress EXCEPT !.step = "semantic"] /\ UNCHANGED verdict
    /\ UNCHANGED <<constants, charged, Output>>

\* What is left of a resource, beyond what the raw scan has charged already.
Remaining(resource) == ceilings[resource] - used[resource]
CeilingOfTheRest(resource) ==
    IF resource = "depth" THEN ceilings["depth"] ELSE Remaining(resource)
SemanticCeiling(resource) ==
    IF resource = "depth" THEN ceilings["depth"] ELSE progress.raw[resource] + Remaining(resource)
\* Two events for each node that may still be replayed.
ReplayCeiling == 2 * Remaining("nodes")
\* An alias that is met in a replay stands for its node's events and is none.
Replayed(events) ==
    Cardinality({i \in 1..Len(events) : events[i].through > 0 /\ events[i].kind # "alias"})
Expansions(events, anchor) ==
    Cardinality({i \in 1..Len(events) : events[i].kind = "alias" /\ events[i].node = anchor})

\* What the parser may complain of after these events, and what the kit makes of
\* it: a breach of its budget, too many replayed events, an anchor expanded too
\* often, a replay too deep. Whether the budget counts the aliases that are met
\* inside a replay is the parser's business.
Breaches(events, all) ==
    LET seen == [Tally(events) EXCEPT !.aliases = IF all THEN @ ELSE
                    Cardinality({i \in 1..Len(events) :
                        events[i].kind = "alias" /\ events[i].through = 0})]
        anchors == {events[i].node : i \in {k \in 1..Len(events) : events[k].kind = "alias"}}
        through == Max({0} \cup {events[i].through : i \in 1..Len(events)})
        already(r) == IF r = "depth" THEN 0 ELSE progress.raw[r]
        breach(r, observed) == [of |-> r, observed |-> observed]
    IN  {breach(r, SoFar(r) + (seen[r] - already(r))) :
            r \in {x \in ToSet(Resources) : seen[x] > SemanticCeiling(x)}}
        \cup {breach("nodes", used["nodes"] + ((k + 1) \div 2)) :
                 k \in {Replayed(events)} \ (0..ReplayCeiling)}
        \cup {breach("aliases", (used["aliases"] - progress.raw.aliases) + Expansions(events, a)) :
                 a \in {x \in anchors : Expansions(events, x) > SemanticCeiling("aliases")}}
        \cup {breach("depth", d) : d \in {through} \ (0..ceilings["depth"])}

\* The semantic parse stops where it first complains; its report is charged for
\* what it read beyond the raw scan.
ParseStream ==
    /\ meter = "yaml" /\ Going /\ progress.step = "semantic"
    /\ \E all \in BOOLEAN :
          LET events == Expanded(Current.events)
              complaints(k) == Breaches(SubSeq(events, 1, k), all)
              bad == {k \in 1..Len(events) : complaints(k) # {}}
              seen == Tally(events)
              nodes == used["nodes"] + (seen.nodes - progress.raw.nodes)
              bytes == used["bytes"] + (seen.bytes - progress.raw.bytes)
          IN  IF bad # {}
              THEN /\ \E b \in complaints(Min(bad)) : Exceeded(b.of, b.observed)
                   /\ UNCHANGED <<charged, used, progress>>
              ELSE IF Within("nodes", nodes) /\ Within("bytes", bytes)
              THEN /\ used' = [used EXCEPT !["nodes"] = nodes, !["bytes"] = bytes]
                   /\ charged' = charged + 1 /\ progress' = Idle /\ UNCHANGED verdict
              ELSE /\ IF Within("nodes", nodes) THEN Exceeded("bytes", bytes)
                                              ELSE Exceeded("nodes", nodes)
                   /\ UNCHANGED <<charged, used, progress>>
    /\ UNCHANGED <<constants, Output>>

(* Diagnostics: a charge is an entry of one serialized array, the classes of    *)
(* its bytes and the bytes of an excerpt that is measured after the rest.       *)

Width == [plain |-> 1, escaped |-> 2, control |-> 6]
Serialized(text) == FoldSeq(LAMBDA byte, sum : Width[byte] + sum, 2, text)
Separator == IF used["count"] > 0 THEN 1 ELSE 0

\* The brackets of an array are charged before its first entry.
OpenArray ==
    /\ meter = "array" /\ Going /\ progress.step = "closed"
    /\ IF Within("bytes", 2) THEN used' = [used EXCEPT !["bytes"] = 2] /\ progress' = Idle /\ UNCHANGED verdict
       ELSE /\ Exceeded("bytes", IF kit = "sketch" THEN 2 ELSE ceilings["bytes"] + 1)
            /\ UNCHANGED <<used, progress>>
    /\ UNCHANGED <<constants, charged, Output>>

\* Evidence that is kept in memory is charged whole, and reported whole.
RecordText ==
    /\ meter = "evidence" /\ Pending
    /\ LET count == used["count"] + 1
           bytes == used["bytes"] + Separator + Serialized(Current.text)
       IN  IF ~Within("count", count) THEN Exceeded("count", count) /\ UNCHANGED <<charged, used>>
           ELSE IF ~Within("bytes", bytes) THEN Exceeded("bytes", bytes) /\ UNCHANGED <<charged, used>>
           ELSE /\ used' = [used EXCEPT !["count"] = count, !["bytes"] = bytes]
                /\ charged' = charged + 1 /\ UNCHANGED verdict
    /\ UNCHANGED <<constants, progress, Output>>

\* An entry is serialized into a counter, which stops at the first byte too many.
Reserve ==
    /\ meter = "array" /\ Pending /\ progress = Idle
    /\ LET count == used["count"] + 1
           bytes == used["bytes"] + Separator + Serialized(Current.text)
       IN  IF ~Within("count", count) THEN Exceeded("count", count) /\ UNCHANGED progress
           ELSE IF ~Within("bytes", bytes) THEN Exceeded("bytes", ceilings["bytes"] + 1) /\ UNCHANGED progress
           ELSE progress' = [step |-> "reserved", count |-> count, bytes |-> bytes] /\ UNCHANGED verdict
    /\ UNCHANGED <<constants, charged, used, Output>>

\* The sketch kit measures the excerpt of a candidate once the rest fits.
AddBytes ==
    /\ meter = "array" /\ Going /\ progress.step = "reserved" /\ kit = "sketch"
    /\ LET bytes == progress.bytes + Current.excerpt
       IN  IF Within("bytes", bytes)
           THEN progress' = [progress EXCEPT !.step = "measured", !.bytes = bytes] /\ UNCHANGED verdict
           ELSE Exceeded("bytes", ceilings["bytes"] + 1) /\ UNCHANGED progress
    /\ UNCHANGED <<constants, charged, used, Output>>

CommitText ==
    /\ meter = "array" /\ Going
    /\ progress.step = IF kit = "sketch" THEN "measured" ELSE "reserved"
    /\ used' = [used EXCEPT !["count"] = progress.count, !["bytes"] = progress.bytes]
    /\ charged' = charged + 1 /\ progress' = Idle
    /\ UNCHANGED <<constants, Output, verdict>>

(* Output: returned buffers and scratch texts, open several at a time. A write  *)
(* that was refused shows only when its writer is finished.                     *)

Nothing == [as |-> "none", start |-> 0, bytes |-> 0, offered |-> 0, failure |-> "none", demand |-> 0]
Opened(as) == [Nothing EXCEPT !.as = as, !.start = used["generated"]]
Scratch == {s \in DOMAIN live : live[s].as \in {"writer", "text"}}
SumOver(slots, field) == FoldSet(LAMBDA s, sum : live[s][field] + sum, 0, slots)
Writing == meter = "output" /\ Going

OpenWriter(s) ==
    /\ Writing /\ live[s].as = "none"
    /\ \E as \in {"buffer", "writer"} : live' = [live EXCEPT ![s] = Opened(as)]
    /\ UNCHANGED <<constants, charged, used, progress, returned, verdict>>

\* A buffer counts from the total at its opening. The sketch kit's buffer refuses
\* everything after its first refusal, the signature kit's what does not fit.
WriteBuffer(s, n) ==
    LET k == live[s]
        fits == Within("generated", k.start + k.bytes + n) /\ (kit = "sketch" => k.failure = "none")
    IN  /\ Writing /\ k.as = "buffer"
        /\ live' = [live EXCEPT ![s] = [k EXCEPT !.offered = @ + n,
                      !.bytes = IF fits THEN @ + n ELSE @,
                      !.failure = IF fits THEN @ ELSE "limit"]]
        /\ UNCHANGED <<constants, charged, used, progress, returned, verdict>>

\* A scratch write reserves its bytes at once, or fails its writer for good.
WriteScratch(s, n) ==
    LET k == live[s]
        total == used["scratch"] + n
    IN  /\ Writing /\ k.as = "writer"
        /\ \E allocated \in BOOLEAN :
              LET why == IF k.failure # "none" THEN k.failure
                         ELSE IF ~Within("scratch", total) THEN "limit"
                         ELSE IF ~allocated THEN "allocation" ELSE "none"
                  demand == IF k.failure = "none" THEN SumOver(Scratch, "offered") + n ELSE k.demand
              IN  /\ live' = [live EXCEPT ![s] = [k EXCEPT !.offered = @ + n, !.failure = why,
                                !.bytes = IF why = "none" THEN @ + n ELSE @, !.demand = demand]]
                  /\ used' = IF why = "none" THEN [used EXCEPT !["scratch"] = total] ELSE used
        /\ UNCHANGED <<constants, charged, progress, returned, verdict>>

\* The first byte too many is what a refused writer reports.
RefuseWriter(s, resource) ==
    IF live[s].failure = "limit" THEN Exceeded(resource, ceilings[resource] + 1) ELSE Ended("failed")

\* The writer's reservation moves to the text.
FinishScratch(s) ==
    /\ Writing /\ live[s].as = "writer"
    /\ \/ live[s].failure # "none" /\ RefuseWriter(s, "scratch") /\ UNCHANGED live
       \/ live[s].failure = "none" /\ live' = [live EXCEPT ![s].as = "text"] /\ UNCHANGED verdict
    /\ UNCHANGED <<constants, charged, used, progress, returned>>

TruncateTail(s, n) ==
    /\ Writing /\ kit = "sketch" /\ live[s].as = "text" /\ n <= live[s].bytes
    /\ live' = [live EXCEPT ![s] = [@ EXCEPT !.bytes = @ - n, !.offered = @ - n]]
    /\ used' = [used EXCEPT !["scratch"] = @ - n]
    /\ UNCHANGED <<constants, charged, progress, returned, verdict>>

\* Also when the operation has ended: whatever is dropped gives back its bytes.
DropKept(s) ==
    /\ meter = "output" /\ live[s].as # "none"
    /\ used' = IF s \in Scratch THEN [used EXCEPT !["scratch"] = @ - live[s].bytes] ELSE used
    /\ live' = [live EXCEPT ![s] = [Nothing EXCEPT !.demand = live[s].demand]]
    /\ UNCHANGED <<constants, charged, progress, returned, verdict>>

\* A file that is handed back is charged whole, and stays charged if refused.
RecordFile(bytes, asked) ==
    LET total == used["generated"] + bytes
    IN  /\ used' = [used EXCEPT !["generated"] = total]
        /\ returned' = returned + asked
        /\ IF Within("generated", total) THEN UNCHANGED verdict ELSE Exceeded("generated", total)
PassFile(n) ==
    /\ Writing /\ RecordFile(n, n)
    /\ UNCHANGED <<constants, charged, progress, live>>

\* The signature kit refuses a buffer that was opened before another output.
Stale(s) == kit = "signature" /\ live[s].start # used["generated"]
CommitBuffer(s) ==
    LET k == live[s] IN
    /\ Writing /\ k.as = "buffer"
    /\ \/ Stale(s) /\ Ended("failed") /\ UNCHANGED <<used, live, returned>>
       \/ /\ ~Stale(s) /\ k.failure # "none"
          /\ RefuseWriter(s, "generated")
          /\ returned' = returned + k.offered /\ UNCHANGED <<used, live>>
       \/ /\ ~Stale(s) /\ k.failure = "none"
          /\ RecordFile(k.bytes, k.offered)
          /\ live' = [live EXCEPT ![s] = Nothing]
    /\ UNCHANGED <<constants, charged, progress>>

\* Bound: no writer is offered more than this.
MaxOffered == 3
OutputStep ==
    \/ \E s \in DOMAIN live :
          \/ OpenWriter(s) \/ FinishScratch(s) \/ DropKept(s) \/ CommitBuffer(s)
          \/ \E n \in {1, 2} : /\ live[s].offered + n <= MaxOffered
                               /\ WriteBuffer(s, n) \/ WriteScratch(s, n)
          \/ TruncateTail(s, 1)
    \/ PassFile(1)

NoUse == [r \in {"entries", "total", "items", "signatures", "documents", "depth", "nodes",
                 "aliases", "bytes", "count", "generated", "scratch"} |-> 0]
BudgetsInit ==
    /\ charged = 0 /\ returned = 0 /\ verdict = Running
    /\ used = IF meter = "evidence" THEN [NoUse EXCEPT !["bytes"] = 2] ELSE NoUse
    /\ progress = IF meter = "array" THEN [step |-> "closed"] ELSE Idle
    /\ live = IF meter = "output" THEN [s \in 1..2 |-> Nothing] ELSE <<>>
BudgetsNext ==
    \/ CancelMeter \/ Complete
    \/ BeginCatalog \/ MeasureFile \/ EndCatalog \/ CountItems
    \/ BeginStream \/ RawEvent \/ Malformed \/ FinishRaw \/ ParseStream
    \/ OpenArray \/ RecordText \/ Reserve \/ AddBytes \/ CommitText
    \/ OutputStep
-----------------------------------------------------------------------------
(* What a list of charges amounts to, by itself. *)

Summed(numbers) == FoldSeq(LAMBDA n, sum : n + sum, 0, numbers)
Most(numbers) == Max({0} \cup ToSet(numbers))
Amounts(list, resource) ==
    [i \in DOMAIN list |->
        LET c == list[i]
            read == Expanded(c.events)
        IN  CASE resource = "entries" -> Len(c)
              [] resource = "file" -> Most(c)
              [] resource = "total" -> Summed(c)
              [] meter = "items" -> IF c.of = resource THEN c.amount ELSE 0
              [] meter = "yaml" /\ resource = "depth" ->
                     Max({Tally(read).depth} \cup {read[k].through : k \in DOMAIN read})
              [] meter = "yaml" -> Tally(read)[resource]
              [] resource = "count" -> 1
              [] OTHER -> Serialized(c.text) + c.excerpt]
AddUp == {"entries", "total", "items", "signatures", "documents", "nodes", "aliases", "count"}
Demand(list, resource) ==
    LET amounts == Amounts(list, resource)
    IN  IF resource \in AddUp \/ (meter = "yaml" /\ resource = "bytes") THEN Summed(amounts)
        ELSE IF resource = "bytes" THEN 2 + Summed(amounts) + Most(<<Len(list)>>) - (IF list = <<>> THEN 0 ELSE 1)
        ELSE Most(amounts)

AdmittedCharges == SubSeq(charges, 1, charged)
UnderWay == SubSeq(charges, 1, IF charged < Len(charges) THEN charged + 1 ELSE charged)
Tallied == (DOMAIN ceilings \cap DOMAIN used) \ {"depth", "aliases"}

\* Between two charges the meter holds exactly what the admitted ones amount to,
\* however they were counted (alias replay once, ordinary events once, the
\* brackets and commas of an array), and never more than its ceiling; evidence of
\* nothing has no ceiling.
TalliesAreExact ==
    (Going \/ verdict.kind = "accepted") /\ ~(meter = "evidence" /\ charged = 0) =>
        /\ \A r \in DOMAIN ceilings \cap DOMAIN used : Within(r, used[r])
        /\ meter # "output" /\ progress = Idle =>
               \A r \in Tallied : used[r] = Demand(AdmittedCharges, r)
        /\ verdict.kind = "accepted" =>
               \A r \in DOMAIN ceilings \ {"aliases"} : Within(r, Demand(charges, r))

\* A refusal names a resource whose ceiling the operation does pass, and proves no
\* more than it has asked for; nothing that fits is refused.
RefusalIsProven ==
    verdict.kind = "exceeded" =>
        /\ ~Within(verdict.of, verdict.observed)
        /\ verdict.observed <=
              CASE verdict.of = "generated" -> returned
                [] verdict.of = "scratch" -> Max({live[s].demand : s \in DOMAIN live})
                [] OTHER -> Demand(UnderWay, verdict.of)

\* Scratch is what the live texts hold, nothing once they are dropped; a text or
\* a returned file holds every byte that was written to it.
OutputIsAccounted ==
    meter = "output" =>
        /\ used["scratch"] = SumOver(Scratch, "bytes")
        /\ \A s \in Scratch : live[s].as = "text" => live[s].bytes = live[s].offered
        /\ Going => used["generated"] = returned

\* Only a stream with an error of syntax, or without data, is malformed.
MalformedIsDue ==
    verdict.kind = "malformed" => Current.broken > 0 \/ LacksData(Current.events)

BudgetsAreTruthful ==
    TalliesAreExact /\ RefusalIsProven /\ OutputIsAccounted /\ MalformedIsDue
=============================================================================
