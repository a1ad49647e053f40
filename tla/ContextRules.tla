----------------------------- MODULE ContextRules -----------------------------
(* The rules by which context is chosen for a prompt: the score of a file    *)
(* (context/retrieval.go), the budget of tokens (budget_allocator.go) and    *)
(* the prompt with its manifest (ContextAssembler of context.go).            *)
(*                                                                           *)
(* Paths and references are numbers, which stand for their place in the      *)
(* order of names.                                                           *)
EXTENDS Integers, Sequences, FiniteSets, SequencesExt, Ordering, Redaction

Categories == {"control", "task", "instructions", "evidence", "history"}

(* normalizeCategory.                                                        *)
CategoryOf(sourceType) ==
    CASE sourceType = "instruction" -> "instructions"
      [] sourceType = "system"      -> "control"
      [] sourceType = "user"        -> "task"
      [] sourceType = "history"     -> "history"
      [] OTHER                      -> "evidence"

(* DefaultCategoryBudget, for a total that is not negative.                  *)
DefaultCategoryBudget(total) ==
    LET reserve  == IF total < 1200 THEN total \div 2 ELSE 600
        Share(p) == ((total - reserve) * p) \div 100
    IN [total |-> total, reserve |-> reserve,
        limit |-> [control |-> Share(10), task |-> Share(15), instructions |-> Share(15),
                   evidence |-> Share(35), history |-> Share(25)]]

NotBelowZero(n) == IF n < 0 THEN 0 ELSE n
PromptBudget(budget) == NotBelowZero(budget.total - budget.reserve)

Before(a, b) == a.rank > b.rank \/ (a.rank = b.rank /\ a.ref < b.ref)

(* The tokens that those of the chosen fragments use which are in a set.     *)
UsedBy(chosen, which) ==
    FoldLeft(LAMBDA sum, f : IF f \in which THEN sum + f.tokens ELSE sum, 0, chosen)
OfCategory(fragments, category) == {f \in fragments : CategoryOf(f.type) = category}

Used(chosen) == UsedBy(chosen, ToSet(chosen))
UsedIn(chosen, category) == UsedBy(chosen, OfCategory(ToSet(chosen), category))

(* What is left for a fragment: of the total and of its category.            *)
Room(chosen, fragment, budget) ==
    LET category == CategoryOf(fragment.type)
        overall  == PromptBudget(budget) - Used(chosen)
        inside   == budget.limit[category] - UsedIn(chosen, category)
    IN IF inside < overall THEN inside ELSE overall

(* Fault: the total is not looked at, only the category.                     *)
ConsiderCategory(chosen, fragment, budget) ==
    LET category == CategoryOf(fragment.type)
        room     == budget.limit[category] - UsedIn(chosen, category)
        size     == IF fragment.tokens > room THEN room ELSE fragment.tokens
    IN IF room <= 0 \/ size <= 0 THEN chosen ELSE Append(chosen, [fragment EXCEPT !.tokens = size])

(* The body of AllocateFragments' loop.                                      *)
Consider(chosen, fragment, budget) ==
    LET room == Room(chosen, fragment, budget)
        size == IF fragment.tokens > room THEN room ELSE fragment.tokens
    IN IF room <= 0 \/ size <= 0 THEN chosen
       ELSE Append(chosen, [fragment EXCEPT !.tokens = size, !.truncated = @ \/ size < fragment.tokens])

AllocateFragments(fragments, budget) ==
    FoldLeft(LAMBDA chosen, f : Consider(chosen, f, budget), <<>>, SortStable(fragments, Before))

(* Nothing exceeds its share: no category, not the prompt, and what is left  *)
(* for the completion is at least the reserve, if the total has that much.   *)
WithinBudget(fragments, budget) ==
    LET chosen == AllocateFragments(fragments, budget)
    IN /\ \A c \in Categories : UsedIn(chosen, c) <= NotBelowZero(budget.limit[c])
       /\ Used(chosen) <= PromptBudget(budget)
       /\ budget.reserve <= budget.total => budget.total - Used(chosen) >= budget.reserve

(* Every fragment gets all it asks for, unless those that come before it     *)
(* and itself use up its category or the prompt.                             *)
ServedInOrder(fragments, budget) ==
    LET chosen == AllocateFragments(fragments, budget)
        Given(f) == UsedBy(chosen, {g \in ToSet(chosen) : g.ref = f.ref})
        UpTo(f)  == {g \in ToSet(chosen) : Before(g, f) \/ g.ref = f.ref}
    IN \A i \in DOMAIN fragments :
        LET f == fragments[i] IN
            \/ Given(f) = f.tokens
            \/ UsedBy(chosen, UpTo(f)) = PromptBudget(budget)
            \/ UsedBy(chosen, OfCategory(UpTo(f), CategoryOf(f.type))) = NotBelowZero(budget.limit[CategoryOf(f.type)])

Reordered(s) == {[i \in DOMAIN s |-> s[p[i]]] : p \in Bijection(DOMAIN s, DOMAIN s)}

AllocatedAlike(fragments, budget) ==
    \A other \in Reordered(fragments) :
        AllocateFragments(other, budget) = AllocateFragments(fragments, budget)

(* The shares of the default budget fit into what the reserve leaves.        *)
SharesFit(total) ==
    LET budget == DefaultCategoryBudget(total)
        shares == budget.limit.control + budget.limit.task + budget.limit.instructions
                      + budget.limit.evidence + budget.limit.history
    IN shares <= PromptBudget(budget) /\ PromptBudget(budget) - shares < Cardinality(Categories)

----------------------------------------------------------------------------
(* retrieval.go: a signal says something about a file.                       *)
Boost(signal) ==
    CASE signal.kind = "explicit_target" -> 1000
      [] signal.kind \in {"filename_match", "symbol_match"} -> signal.score
      [] signal.kind = "diagnostic" -> IF signal.error THEN 400 ELSE 200
      [] signal.kind = "git_signal" -> (signal.churn \div 4) + (IF signal.recent THEN 50 ELSE 0)

Reasons(signal) ==
    {signal.kind} \union
        (IF signal.kind = "git_signal" /\ signal.recent THEN {"recent_change"} ELSE {})

(* Fault: a later signal replaces the score of an earlier one.               *)
LastSignalCounts(entries, signal) ==
    LET known == IF signal.path \in DOMAIN entries THEN entries[signal.path] ELSE [score |-> 0, reasons |-> {}]
        entry == [score |-> Boost(signal), reasons |-> known.reasons \union Reasons(signal)]
    IN [path \in DOMAIN entries \union {signal.path} |-> IF path = signal.path THEN entry ELSE entries[path]]

AddSignal(entries, signal) ==
    LET known == IF signal.path \in DOMAIN entries THEN entries[signal.path] ELSE [score |-> 0, reasons |-> {}]
        entry == [score |-> known.score + Boost(signal), reasons |-> known.reasons \union Reasons(signal)]
    IN [path \in DOMAIN entries \union {signal.path} |-> IF path = signal.path THEN entry ELSE entries[path]]

(* BuildRetrievalCandidates: highest score first, then by path.              *)
BuildRetrievalCandidates(signals) ==
    LET entries == FoldLeft(AddSignal, <<>>, signals)
        found   == {[path |-> p, score |-> entries[p].score, reasons |-> entries[p].reasons] : p \in DOMAIN entries}
        first(a, b) == a.score > b.score \/ (a.score = b.score /\ a.path < b.path)
    IN Ordered(found, {pair \in found \X found : first(pair[1], pair[2])})

RankedAlike(signals) ==
    \A other \in Reordered(signals) : BuildRetrievalCandidates(other) = BuildRetrievalCandidates(signals)

----------------------------------------------------------------------------
Priority(sourceType) ==
    CASE sourceType = "instruction" -> 4
      [] sourceType = "file"        -> 3
      [] sourceType = "git"         -> 2
      [] sourceType = "tool_output" -> 1
      [] OTHER                      -> 0

(* BuildPrompt, for one fragment: what the policy refuses stays in the list, *)
(* with its text, and is marked as excluded.                                 *)
Decided(fragment) ==
    LET decision == Apply(fragment.restricted, fragment.content, "model_provider")
    IN IF decision.denied THEN [fragment EXCEPT !.included = FALSE]
       ELSE [fragment EXCEPT !.included = TRUE, !.content = decision.content]

(* The fragments as BuildPrompt leaves them. Its sort is not a stable one,   *)
(* but is for up to twelve fragments; the message and files that are given   *)
(* to it in order stay in order.                                             *)
Assembled(fragments) ==
    LET sorted == SortStable(fragments, LAMBDA a, b : Priority(a.type) > Priority(b.type))
    IN [i \in DOMAIN sorted |-> Decided(sorted[i])]

(* BuildPrompt: the texts that are sent to the model.                        *)
BuildPrompt(fragments) ==
    LET sent == Where(Assembled(fragments), LAMBDA f : f.included)
    IN [i \in DOMAIN sent |-> sent[i].content]

(* Fault: an event that cannot be stored is passed over.                     *)
RecordOthers(fragments, room) ==
    [stored |-> IF room >= Len(fragments) THEN fragments ELSE RemoveAt(fragments, room + 1), failed |-> FALSE]

(* ContextManifest.Record and Get: one event for each fragment, in order and *)
(* all with one timestamp, up to the first that cannot be stored, which is   *)
(* the one after `room` others.                                              *)
Record(fragments, room) ==
    IF room >= Len(fragments) THEN [stored |-> fragments, failed |-> FALSE]
    ELSE [stored |-> SubSeq(fragments, 1, room), failed |-> TRUE]

Blank(texts) == \A i \in DOMAIN texts : texts[i] = <<>>

(* assembleTurnPrompt, once it has the turn's message and, after it, the     *)
(* files that could be read (nothing in the server calls it yet): the prompt,*)
(* what is sent in place of a blank one, and the manifest, without which     *)
(* nothing is sent.                                                          *)
AssembleTurnPrompt(fragments, room) ==
    LET texts   == BuildPrompt(fragments)
        message == Apply(FALSE, fragments[1].content, "model_provider").content
        record  == Record(Assembled(fragments), room)
    IN [prompt   |-> IF ~Blank(texts) THEN texts ELSE IF message # <<>> THEN <<message>> ELSE <<<<"denied">>>>,
        manifest |-> record.stored,
        sent     |-> ~record.failed]

(* The manifest of a turn tells what the model was sent: every fragment is in*)
(* it, and those it lists as included are the prompt, text by text and in    *)
(* order, unless they are blank and the prompt is the policy's own word. If  *)
(* one is missing from it nothing was sent. What it lists as excluded, and   *)
(* no more, is what the policy refuses.                                      *)
ManifestTellsPrompt(fragments, room) ==
    LET turn   == AssembleTurnPrompt(fragments, room)
        listed == Where(turn.manifest, LAMBDA f : f.included)
        texts  == [i \in DOMAIN listed |-> listed[i].content]
    IN /\ turn.sent =>
            /\ {f.ref : f \in ToSet(turn.manifest)} = {f.ref : f \in ToSet(fragments)}
            /\ turn.prompt = texts \/ (Blank(texts) /\ turn.prompt = <<<<"denied">>>>)
       /\ ~turn.sent => Len(turn.manifest) < Len(fragments)
       /\ \A f \in ToSet(turn.manifest) : f.included <=>
              \E g \in ToSet(fragments) :
                  g.ref = f.ref /\ ~Apply(g.restricted, g.content, "model_provider").denied
==============================================================================
