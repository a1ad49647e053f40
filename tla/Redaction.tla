------------------------------ MODULE Redaction ------------------------------
(* What the detector calls a text (secrets/detector.go), what the policy     *)
(* makes of it for a destination (secrets/policy.go), and how the server     *)
(* applies both to the strings of a JSON value (server.go).                  *)
(*                                                                           *)
(* A text is a sequence of words, and of a word only what the detector sees  *)
(* is kept: "key" (a private key's header, an AWS or GitHub token),          *)
(* "assignment" (password=..., api_key=...), "random" (a long word of high   *)
(* entropy that no rule matches) or "plain". The policy's own words are      *)
(* "redacted", "denied", "withheld", "ends" (the first and last four bytes)  *)
(* and "hash", which has the entropy of a random word.                       *)
EXTENDS Sequences, FiniteSets, SequencesExt

Destinations == {"model_provider", "persistence", "export", "plugin", "ui"}
RuleMatches  == {"key", "assignment"}
HighEntropy  == {"random", "hash"}

Has(text, words) == \E i \in DOMAIN text : text[i] \in words

(* Detector.Classify: the first class that applies.                          *)
Classify(restricted, text) ==
    IF Has(text, {"key"}) THEN "A"
    ELSE IF Has(text, {"assignment"} \union HighEntropy) THEN "B"
    ELSE IF restricted THEN "C"
    ELSE "D"

(* PolicyExecutor.actionFor.                                                 *)
ActionFor ==
    [A |-> [model_provider |-> "deny", persistence |-> "hash", export |-> "deny",
            plugin |-> "deny", ui |-> "summarize"],
     B |-> [model_provider |-> "mask", persistence |-> "hash", export |-> "hash",
            plugin |-> "deny", ui |-> "partial-mask"],
     C |-> [model_provider |-> "summarize", persistence |-> "allow", export |-> "mask",
            plugin |-> "partial-mask", ui |-> "allow"],
     D |-> [destination \in Destinations |-> "allow"]]

(* Detector.RedactString: every match of a rule is replaced.                 *)
RedactString(text) == [i \in DOMAIN text |-> IF text[i] \in RuleMatches THEN "redacted" ELSE text[i]]

(* Fault: a text in which no rule matches is masked by leaving it as it is.  *)
MaskMatchesOnly(text) == RedactString(text)

Mask(text) == IF RedactString(text) = text THEN <<"redacted">> ELSE RedactString(text)

(* A single plain word has at most eight bytes.                              *)
PartialMask(text) == IF text = <<>> \/ text = <<"plain">> THEN <<"redacted">> ELSE <<"ends">>

(* PolicyExecutor.transform.                                                 *)
Transform(action, text) ==
    CASE action = "deny"         -> <<"denied">>
      [] action = "mask"         -> Mask(text)
      [] action = "partial-mask" -> PartialMask(text)
      [] action = "summarize"    -> <<"withheld">>
      [] action = "hash"         -> <<"hash">>
      [] action = "allow"        -> text

(* PolicyExecutor.Apply; `restricted` says whether the path or the source    *)
(* type of the text is (isRestrictedPath, "env").                            *)
Apply(restricted, text, destination) ==
    LET class  == Classify(restricted, text)
        action == ActionFor[class][destination]
    IN [class |-> class, action |-> action, denied |-> action = "deny",
        content |-> Transform(action, text)]

----------------------------------------------------------------------------
(* A JSON value is the function from the paths of its leaves to the leaves:  *)
(* texts, and `Number` for everything that is not a string. A path is a      *)
(* sequence of keys and, for the elements of lists, of the steps ListSteps.  *)
(* A path is restricted from a restricted key downwards.                     *)
ListSteps == {"first", "second"}
Number == <<"number">>

Restricted(path) == Contains(path, "secret_name")

Leaf(value, path, destination) ==
    IF value[path] = Number THEN [action |-> "allow", content |-> Number, denied |-> FALSE]
    ELSE Apply(Restricted(path), value[path], destination)

(* applyRedactionToValue: the value with every string replaced by what the   *)
(* policy makes of it ...                                                    *)
Sanitized(value, destination) == [path \in DOMAIN value |-> Leaf(value, path, destination).content]

(* ... and a notice of every string that the policy did not simply allow.    *)
NoticesFor(value, destination, paths) ==
    {[path |-> path, action |-> Leaf(value, path, destination).action,
      denied |-> Leaf(value, path, destination).denied,
      material |-> \/ Leaf(value, path, destination).denied
                   \/ Leaf(value, path, destination).content # value[path]] :
        path \in {p \in paths : Leaf(value, p, destination).action # "allow"}}

Notices(value, destination) == NoticesFor(value, destination, DOMAIN value)

(* redactEventForExport: what is exported of an event, and whether the       *)
(* summary of the export counts it as redacted. Of an event that records     *)
(* redactions (tool_output_redaction) only a marker is exported.             *)
ExportEvent(event) ==
    LET notices == Notices(event.payload, "export")
    IN CASE event.type = "tool_redaction" ->
                [type |-> "[redacted]", payload |-> <<>>, counted |-> TRUE]
         [] event.type # "tool_redaction" /\ notices = {} ->
                [type |-> event.type, payload |-> event.payload, counted |-> FALSE]
         [] OTHER ->
                [type |-> event.type, payload |-> Sanitized(event.payload, "export"), counted |-> TRUE]

----------------------------------------------------------------------------
(* No word that a rule matches is left for any destination. A random word    *)
(* is left in one case only: the policy masks, and it found a rule's match   *)
(* to mask elsewhere in the text.                                            *)
Withheld(restricted, text, destination) ==
    LET decision == Apply(restricted, text, destination)
    IN /\ ~Has(decision.content, RuleMatches)
       /\ Has(decision.content, {"random"}) =>
              decision.action = "mask" /\ Has(text, {"assignment"})

(* A string is changed exactly where a notice says that something material   *)
(* was redacted, and an event that an export changes is counted.             *)
ChangesAreNoticed(value, destination) ==
    /\ \A path \in DOMAIN value :
           Sanitized(value, destination)[path] # value[path] <=>
               \E n \in Notices(value, destination) : n.path = path /\ n.material
    /\ LET event == [type |-> "tool_result", payload |-> value]
       IN ExportEvent(event).payload # value => ExportEvent(event).counted
==============================================================================
