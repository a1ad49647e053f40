------------------------- MODULE ToolExecutionProofs -------------------------
(***************************************************************************)
(* Theorems about ToolExecution, for any number of calls, files and blocks *)
(* and any workload: commands are counted, readers see whole files, the    *)
(* trail of a call is in order, and a patch applies a prefix of its        *)
(* sections.  The inductive invariant is ToolInv.                          *)
(***************************************************************************)
EXTENDS ToolExecution, SequenceTheorems, FiniteSetTheorems, WellFoundedInduction, TLAPS

(***************************************************************************)
(* Types                                                                   *)
(***************************************************************************)
LEMMA JobTypes ==
  ASSUME TypeOK, NEW c \in Calls
  PROVE  /\ job[c].tool \in {"apply_patch", "write_file", "read_file", "restricted_shell"}
         /\ job[c].tool = "apply_patch" => job[c].sections \in Seq(PatchSection)
         /\ job[c].tool = "write_file" => job[c].file \in Files /\ job[c].new \in Text
         /\ job[c].tool = "read_file" => job[c].file \in Files
<1>1. job[c] \in Job
  BY ToolAssumption DEF TypeOK
<1> QED BY <1>1 DEF Job

LEMMA SectionTypes ==
  ASSUME TypeOK, NEW c \in Calls, job[c].tool = "apply_patch"
  PROVE  /\ Sections(c) \in Seq(PatchSection) /\ Len(Sections(c)) \in Nat
         /\ DOMAIN Sections(c) = 1..Len(Sections(c))
         /\ \A i \in 1..Len(Sections(c)) : Sections(c)[i] \in PatchSection
         /\ work[c].at \in 1..Len(Sections(c)) + 1 /\ work[c].noted \in 0..Len(Sections(c))
<1>1. Sections(c) \in Seq(PatchSection)
  BY JobTypes DEF Sections
<1>2. /\ Len(Sections(c)) \in Nat /\ DOMAIN Sections(c) = 1..Len(Sections(c))
      /\ Sections(c) \in [1..Len(Sections(c)) -> PatchSection]
  BY <1>1, LenProperties
<1>3. work[c].at \in 1..Len(Sections(c)) + 1 /\ work[c].noted \in 0..Len(Sections(c))
  BY DEF TypeOK, Sections
<1> QED BY <1>1, <1>2, <1>3

LEMMA InPatchIs ==
  ASSUME TypeOK, NEW c \in Calls, InPatch(c)
  PROVE  /\ job[c].tool = "apply_patch" /\ work[c].at \in 1..Len(Sections(c))
         /\ Section(c) = Sections(c)[work[c].at] /\ Section(c) \in PatchSection
         /\ Section(c).file \in Files /\ Section(c).old \in Text /\ Section(c).new \in Text
         /\ Section(c).op \in {"update", "add", "delete", "bad"}
<1>1. job[c].tool = "apply_patch" /\ work[c].at <= Len(Sections(c))
  BY DEF InPatch
<1>2. work[c].at \in 1..Len(Sections(c))
  BY <1>1, SectionTypes
<1>3. Section(c) \in PatchSection
  BY <1>1, <1>2, SectionTypes DEF Section
<1> QED BY <1>1, <1>2, <1>3 DEF Section, PatchSection

\* A step of a call's handler changes the state of its own goroutine.
Moves(c) == work' \in [Calls -> Working] /\ \A d \in Calls \ {c} : work'[d] = work[d]

LEMMA MovesIs ==
  ASSUME TypeOK, NEW c \in Calls, NEW w \in Working, work' = [work EXCEPT ![c] = w]
  PROVE  Moves(c) /\ work'[c] = w
BY DEF Moves, TypeOK

LEMMA FailIs ==
  ASSUME TypeOK, NEW c \in Calls, Fail(c)
  PROVE  /\ Moves(c) /\ work'[c].pc = "done" /\ work'[c].error
         /\ work'[c].at = work[c].at /\ work'[c].seen = work[c].seen /\ work'[c].noted = work[c].noted
<1>1. PICK v \in Working : v = work[c]
  BY DEF TypeOK
<1>2. PICK u : u = [v EXCEPT !.pc = "done"]
  OBVIOUS
<1>3. u \in Working /\ u.pc = "done" /\ u.at = v.at /\ u.seen = v.seen /\ u.noted = v.noted
  BY <1>2 DEF Working
<1>4. PICK w : w = [u EXCEPT !.error = TRUE]
  OBVIOUS
<1>5. w \in Working /\ w.pc = u.pc /\ w.at = u.at /\ w.seen = u.seen /\ w.noted = u.noted
  BY <1>3, <1>4 DEF Working
<1>6. w.error
  BY <1>3, <1>4 DEF Working
<1>7. work' = [work EXCEPT ![c] = w]
  <2>1. work \in [Calls -> Working]
    BY DEF TypeOK
  <2> QED BY ONLY <1>1, <1>2, <1>4, <2>1, Fail(c), c \in Calls DEF Fail
<1>8. w.pc = "done" /\ w.at = work[c].at /\ w.seen = work[c].seen /\ w.noted = work[c].noted /\ w \in Working
  BY ONLY <1>1, <1>3, <1>5
<1>9. Moves(c) /\ work'[c] = w
  BY ONLY <1>7, <1>8, MovesIs, TypeOK, c \in Calls
<1> QED BY ONLY <1>6, <1>8, <1>9

LEMMA StepIs ==
  ASSUME TypeOK, NEW c \in Calls, Step(c)
  PROVE  /\ Moves(c) /\ work'[c].pc = "working" /\ work'[c].error = work[c].error
         /\ work'[c].at = work[c].at + 1 /\ work'[c].seen = work[c].seen
         /\ work'[c].noted = work[c].noted
<1>1. PICK v \in Working : v = work[c]
  BY DEF TypeOK
<1>2. PICK n \in Nat : n = v.at + 1
  BY DEF Working
<1>3. PICK w : w = [[v EXCEPT !.pc = "working"] EXCEPT !.at = n]
  OBVIOUS
<1>4. /\ w \in Working /\ w.pc = "working" /\ w.error = v.error /\ w.at = v.at + 1 /\ w.seen = v.seen
      /\ w.noted = v.noted
  BY <1>2, <1>3 DEF Working
<1>5. work' = [work EXCEPT ![c] = w]
  <2>1. work \in [Calls -> Working]
    BY DEF TypeOK
  <2> QED BY ONLY <1>1, <1>2, <1>3, <2>1, Step(c), c \in Calls DEF Step, Working
<1> QED BY ONLY <1>1, <1>4, <1>5, MovesIs, TypeOK, c \in Calls

\* A step that changes only where a goroutine is.
LEMMA PcIs ==
  ASSUME TypeOK, NEW c \in Calls, NEW pc \in {"none", "working", "read", "running", "written", "done"},
         work' = [work EXCEPT ![c].pc = pc]
  PROVE  /\ Moves(c) /\ work'[c].pc = pc /\ work'[c].error = work[c].error
         /\ work'[c].at = work[c].at /\ work'[c].seen = work[c].seen /\ work'[c].noted = work[c].noted
<1>1. PICK v \in Working : v = work[c]
  BY DEF TypeOK
<1>2. PICK w : w = [v EXCEPT !.pc = pc]
  OBVIOUS
<1>3. /\ w \in Working /\ w.pc = pc /\ w.error = v.error /\ w.at = v.at /\ w.seen = v.seen
      /\ w.noted = v.noted
  BY <1>2 DEF Working
<1>4. work' = [work EXCEPT ![c] = w]
  BY <1>1, <1>2
<1> QED BY ONLY <1>1, <1>3, <1>4, MovesIs, TypeOK, c \in Calls

LEMMA ReadIs ==
  ASSUME TypeOK, NEW c \in Calls, NEW content \in Content,
         work' = [work EXCEPT ![c].pc = "read", ![c].seen = content]
  PROVE  /\ Moves(c) /\ work'[c].pc = "read" /\ work'[c].error = work[c].error
         /\ work'[c].at = work[c].at /\ work'[c].seen = content /\ work'[c].noted = work[c].noted
<1>1. PICK v \in Working : v = work[c]
  BY DEF TypeOK
<1>2. PICK w : w = [[v EXCEPT !.pc = "read"] EXCEPT !.seen = content]
  OBVIOUS
<1>3. /\ w \in Working /\ w.pc = "read" /\ w.error = v.error /\ w.at = v.at /\ w.seen = content
      /\ w.noted = v.noted
  BY <1>2 DEF Working
<1>4. work' = [work EXCEPT ![c] = w]
  <2>1. work \in [Calls -> Working]
    BY DEF TypeOK
  <2> QED BY ONLY <1>1, <1>2, <2>1, work' = [work EXCEPT ![c].pc = "read", ![c].seen = content], c \in Calls
<1> QED BY ONLY <1>1, <1>3, <1>4, MovesIs, TypeOK, c \in Calls

LEMMA NotedIs ==
  ASSUME TypeOK, NEW c \in Calls, work' = [work EXCEPT ![c].noted = @ + 1]
  PROVE  /\ Moves(c) /\ work'[c].pc = work[c].pc /\ work'[c].error = work[c].error
         /\ work'[c].at = work[c].at /\ work'[c].seen = work[c].seen /\ work'[c].noted = work[c].noted + 1
<1>1. PICK v \in Working : v = work[c]
  BY DEF TypeOK
<1>2. PICK n \in Nat : n = v.noted + 1
  BY DEF Working
<1>3. PICK w : w = [v EXCEPT !.noted = n]
  OBVIOUS
<1>4. /\ w \in Working /\ w.pc = v.pc /\ w.error = v.error /\ w.at = v.at /\ w.seen = v.seen
      /\ w.noted = v.noted + 1
  BY <1>2, <1>3 DEF Working
<1>5. work' = [work EXCEPT ![c] = w]
  <2>1. work \in [Calls -> Working]
    BY DEF TypeOK
  <2> QED BY ONLY <1>1, <1>2, <1>3, <2>1, work' = [work EXCEPT ![c].noted = @ + 1], c \in Calls DEF Working
<1> QED BY ONLY <1>1, <1>4, <1>5, MovesIs, TypeOK, c \in Calls

\* read_file reads the file as it is, or fails, and ends when it has asked for
\* its size.
LEMMA ReadFileIs ==
  ASSUME TypeOK, NEW c \in Calls, ReadFile(c) \/ StatFile(c)
  PROVE  /\ Moves(c) /\ work'[c].pc \in {"read", "done"} /\ work'[c].at = work[c].at
         /\ work'[c].noted = work[c].noted
         /\ work'[c].seen = work[c].seen \/ work'[c].seen = files[job[c].file]
<1>1. CASE Fail(c)
  BY <1>1, FailIs
<1>2. CASE ReadFile(c) /\ ~Fail(c)
  <2>1. PICK content \in Content : content = files[job[c].file]
    BY <1>2, JobTypes DEF TypeOK, ReadFile
  <2>2. work' = [work EXCEPT ![c].pc = "read", ![c].seen = content]
    BY <1>2, <2>1 DEF ReadFile
  <2> QED BY <2>1, <2>2, ReadIs
<1>3. CASE StatFile(c) /\ ~Fail(c)
  <2>1. work' = [work EXCEPT ![c].pc = "done"]
    BY <1>3 DEF StatFile
  <2> QED BY <2>1, PcIs
<1> QED BY <1>1, <1>2, <1>3

LEMMA ExecTypes ==
  ASSUME TypeOK, NEW c \in Calls
  PROVE  /\ exec[c].pc \in {"idle", "running", "recording", "done"}
         /\ exec[c].told \in {"nothing", "ok", "error", "timeout"}
         /\ DOMAIN exec = Calls
BY DEF TypeOK

\* Execute's own progress: where it is, and what it told.
Answers(c, pc, told) ==
  /\ exec'[c].pc = pc /\ exec'[c].told = told /\ \A d \in Calls \ {c} : exec'[d] = exec[d]
  /\ exec' \in [Calls -> [pc : {"idle", "running", "recording", "done"},
                          told : {"nothing", "ok", "error", "timeout"}]]

LEMMA ExecPcIs ==
  ASSUME TypeOK, NEW c \in Calls, NEW pc \in {"idle", "running", "recording", "done"},
         exec' = [exec EXCEPT ![c].pc = pc]
  PROVE  Answers(c, pc, exec[c].told)
<1>1. PICK v \in [pc : {"idle", "running", "recording", "done"}, told : {"nothing", "ok", "error", "timeout"}] :
        v = exec[c]
  BY DEF TypeOK
<1>2. PICK w : w = [v EXCEPT !.pc = pc]
  OBVIOUS
<1>3. /\ w \in [pc : {"idle", "running", "recording", "done"}, told : {"nothing", "ok", "error", "timeout"}]
      /\ w.pc = pc /\ w.told = v.told
  BY <1>2
<1>4. exec' = [exec EXCEPT ![c] = w]
  BY <1>1, <1>2
<1> QED BY <1>1, <1>3, <1>4 DEF Answers, TypeOK

LEMMA ExecToldIs ==
  ASSUME TypeOK, NEW c \in Calls, NEW pc \in {"idle", "running", "recording", "done"},
         NEW told \in {"nothing", "ok", "error", "timeout"},
         exec' = [exec EXCEPT ![c] = [pc |-> pc, told |-> told]]
  PROVE  Answers(c, pc, told)
BY DEF Answers, TypeOK

\* An event is appended to the log, or the log stays as it is.
LEMMA AppendEventIs ==
  ASSUME TypeOK, NEW c \in Calls, NEW type \in {"tool_invoked", "file_mutation", "tool_result"},
         NEW section \in Nat, AppendEvent(c, type, section)
  PROVE  /\ events' \in Seq(Event) /\ Len(events) \in Nat
         /\ DOMAIN events = 1..Len(events) /\ DOMAIN events' = 1..Len(events')
         /\ \/ events' = events
            \/ /\ c \notin ended /\ Len(events') = Len(events) + 1
               /\ \A i \in 1..Len(events) : events'[i] = events[i]
               /\ events'[Len(events) + 1] = Record(c, type, section)
<1>1. events \in Seq(Event)
  BY DEF TypeOK
<1>2. PICK e \in Event : e = Record(c, type, section)
  BY DEF Record, Event
<1>3. /\ Append(events, e) \in Seq(Event) /\ Len(Append(events, e)) = Len(events) + 1
      /\ \A i \in 1..Len(events) : Append(events, e)[i] = events[i]
      /\ Append(events, e)[Len(events) + 1] = e
  BY <1>1, AppendProperties
<1>4. events' = events \/ (c \notin ended /\ events' = Append(events, e))
  BY <1>2 DEF AppendEvent
<1>5. events' \in Seq(Event)
  BY <1>1, <1>3, <1>4
<1>6. Len(events) \in Nat /\ DOMAIN events = 1..Len(events) /\ DOMAIN events' = 1..Len(events')
  BY <1>1, <1>5, LenProperties
<1> QED BY <1>2, <1>3, <1>4, <1>5, <1>6

(***************************************************************************)
(* Contents of files                                                       *)
(***************************************************************************)
LEMMA ReplacedTypes ==
  ASSUME NEW content \in Seq(Text), NEW old, NEW new \in Text
  PROVE  Replaced(content, old, new) \in Seq(Text) \ {Torn}
<1>1. PICK i : Replaced(content, old, new) = [content EXCEPT ![i] = new]
  BY DEF Replaced
<1>2. Len(content) \in Nat /\ DOMAIN content = 1..Len(content) /\ content \in [1..Len(content) -> Text]
  BY LenProperties
<1> DEFINE r == [content EXCEPT ![i] = new]
<1>3. r \in [1..Len(content) -> Text]
  BY <1>2
<1> HIDE DEF r
<1>4. r \in Seq(Text)
  BY <1>2, <1>3, SeqDef
<1>5. r # Torn
  <2> SUFFICES ASSUME r = Torn PROVE FALSE
    OBVIOUS
  <2>1. DOMAIN Torn = 1..1 /\ Torn[1] = "torn"
    BY DEF Torn
  <2>2. 1 \in DOMAIN r
    BY <2>1
  <2>3. r[1] \in Text
    BY <1>3, <2>2
  <2> QED BY <2>1, <2>3, ToolAssumption
<1> QED BY <1>1, <1>4, <1>5 DEF r

LEMMA BlockTypes ==
  ASSUME NEW new \in Text
  PROVE  <<new>> \in Content \ {Torn}
<1>1. <<new>> \in Seq(Text) /\ <<new>>[1] = new
  OBVIOUS
<1>2. Torn[1] = "torn"
  BY DEF Torn
<1> QED BY <1>1, <1>2, ToolAssumption DEF Content

\* What an update writes is whole, unless it leaves torn what it read.
LEMMA UpdatedTypes ==
  ASSUME NEW content \in Content, NEW s \in PatchSection, s.old # Absent => content \notin {Absent, Torn}
  PROVE  Updated(content, s) \in Content /\ (Updated(content, s) = Torn => content = Torn)
<1>1. s.old \in Text /\ s.new \in Text
  BY DEF PatchSection
<1>2. CASE s.old # Absent
  <2>1. Updated(content, s) = Replaced(content, s.old, s.new)
    BY <1>2 DEF Updated
  <2>2. content \in Seq(Text)
    BY <1>2 DEF Content
  <2>3. Replaced(content, s.old, s.new) \in Seq(Text) \ {Torn}
    BY <1>1, <2>2, ReplacedTypes
  <2> QED BY <2>1, <2>3 DEF Content
<1>3. CASE s.old = Absent /\ s.new # Absent
  <2>1. Updated(content, s) = <<s.new>>
    BY <1>3 DEF Updated
  <2> QED BY <1>1, <2>1, BlockTypes
<1>4. CASE s.old = Absent /\ s.new = Absent
  BY <1>4 DEF Updated
<1> QED BY <1>2, <1>3, <1>4

\* What an update finds a block in is a file that is there and whole.
LEMMA ContainsIs ==
  ASSUME NEW content \in Content, NEW old \in Text, content # Absent, Contains(content, old)
  PROVE  content \notin {Absent, Torn}
<1> SUFFICES ASSUME content = Torn PROVE FALSE
  OBVIOUS
<1>1. PICK i \in 1..Len(Torn) : Torn[i] = old
  BY DEF Contains
<1>2. Len(Torn) = 1 /\ Torn[1] = "torn"
  BY DEF Torn
<1> QED BY <1>1, <1>2, ToolAssumption

(***************************************************************************)
(* Types and progress are kept                                             *)
(***************************************************************************)
\* A call that a step does not concern.
LEMMA OthersProgress ==
  ASSUME NEW d \in Calls, ProgressOf(d), job' = job, ended \subseteq ended', exec'[d] = exec[d], work'[d] = work[d]
  PROVE  ProgressOf(d)'
BY DEF ProgressOf, At, InPatch, Section, Sections, AllApplied

LEMMA TypesThen ==
  ASSUME TypeOK, job' = job, ended' \subseteq Calls,
         exec' \in [Calls -> [pc : {"idle", "running", "recording", "done"},
                              told : {"nothing", "ok", "error", "timeout"}]],
         work' \in [Calls -> Working],
         \A c \in Calls : job[c].tool = "apply_patch" => /\ work'[c].at \in 1..Len(job[c].sections) + 1
                                                        /\ work'[c].noted \in 0..Len(job[c].sections),
         files' \in [Files -> Content], active' \in 0..MaxActive, events' \in Seq(Event)
  PROVE  TypeOK'
BY DEF TypeOK

LEMMA BeginKeeps ==
  ASSUME TypeOK, Progress, NEW c \in Calls, Begin(c)
  PROVE  TypeOK' /\ Progress'
<1>1. /\ exec[c].pc = "idle" /\ job' = job /\ ended' = ended /\ files' = files /\ active' = active
      /\ exec' = [exec EXCEPT ![c].pc = "running"] /\ work' = [work EXCEPT ![c].pc = "working"]
      /\ AppendEvent(c, "tool_invoked", 0)
  BY DEF Begin
<1>2. Answers(c, "running", exec[c].told)
  BY <1>1, ExecPcIs
<1>3. /\ Moves(c) /\ work'[c].pc = "working" /\ work'[c].error = work[c].error
      /\ work'[c].at = work[c].at /\ work'[c].seen = work[c].seen /\ work'[c].noted = work[c].noted
  BY <1>1, PcIs
<1>4. events' \in Seq(Event)
  BY <1>1, AppendEventIs
<1>5. \A d \in Calls : work'[d].at = work[d].at /\ work'[d].noted = work[d].noted
  BY <1>3 DEF Moves
<1>6. TypeOK'
  BY <1>1, <1>2, <1>3, <1>4, <1>5, TypesThen DEF TypeOK, Answers, Moves
<1>7. ProgressOf(c)'
  <2>1. exec[c].told # "ok"
    BY <1>1 DEF Progress, ProgressOf, At
  <2> QED BY <1>1, <1>2, <1>3, <2>1 DEF ProgressOf, At, Answers
<1>8. \A d \in Calls \ {c} : ProgressOf(d)'
  BY <1>1, <1>2, <1>3, OthersProgress DEF Progress, Answers, Moves
<1> QED BY <1>6, <1>7, <1>8 DEF Progress

\* Execute's steps after the handler has started: it is told, and records it.
LEMMA ExecuteKeeps ==
  ASSUME TypeOK, Progress, NEW c \in Calls, Returns(c) \/ TimesOut(c) \/ RecordResult(c)
  PROVE  TypeOK' /\ Progress'
<1>1. job' = job /\ work' = work /\ ended' = ended /\ files' = files /\ active' = active
  BY DEF Returns, TimesOut, RecordResult
<1>2. events' \in Seq(Event)
  <2>1. events \in Seq(Event)
    BY DEF TypeOK
  <2>2. CASE RecordResult(c)
    BY <2>2, AppendEventIs DEF RecordResult
  <2>3. CASE Returns(c) \/ TimesOut(c)
    BY <2>1, <2>3 DEF Returns, TimesOut
  <2> QED BY <2>2, <2>3
<1>3. PICK pc \in {"recording", "done"}, told \in {"nothing", "ok", "error", "timeout"} :
        /\ Answers(c, pc, told)
        /\ At(c, "done") \/ c \in ended
        /\ told = "ok" => At(c, "done") /\ ~work[c].error
  <2>1. CASE Returns(c)
    <3>1. PICK told \in {"ok", "error"} :
            /\ told = "ok" => ~work[c].error
            /\ exec' = [exec EXCEPT ![c] = [pc |-> "recording", told |-> told]]
      BY <2>1 DEF Returns
    <3>2. Answers(c, "recording", told)
      BY <3>1, ExecToldIs
    <3> QED BY <2>1, <3>1, <3>2 DEF Returns, At
  <2>2. CASE TimesOut(c)
    <3>1. exec' = [exec EXCEPT ![c] = [pc |-> "recording", told |-> "timeout"]] /\ c \in ended
      BY <2>2 DEF TimesOut
    <3>2. Answers(c, "recording", "timeout")
      BY <3>1, ExecToldIs
    <3> QED BY <3>1, <3>2
  <2>3. CASE RecordResult(c)
    <3>1. exec' = [exec EXCEPT ![c].pc = "done"] /\ exec[c].pc = "recording"
      BY <2>3 DEF RecordResult
    <3>2. Answers(c, "done", exec[c].told)
      BY <3>1, ExecPcIs
    <3>3. exec[c].told \in {"nothing", "ok", "error", "timeout"}
      BY ExecTypes
    <3> QED BY <3>1, <3>2, <3>3 DEF Progress, ProgressOf
  <2> QED BY <2>1, <2>2, <2>3
<1>4. TypeOK'
  BY <1>1, <1>2, <1>3, TypesThen DEF TypeOK, Answers
<1>5. ProgressOf(c)'
  <2>1. ProgressOf(c)
    BY DEF Progress
  <2>2. exec'[c].pc = pc /\ exec'[c].told = told /\ pc # "idle"
    BY <1>3 DEF Answers
  <2> QED BY <1>1, <1>3, <2>1, <2>2 DEF ProgressOf, At, InPatch, Section, Sections, AllApplied
<1>6. \A d \in Calls \ {c} : ProgressOf(d)'
  BY <1>1, <1>3, OthersProgress DEF Progress, Answers
<1> QED BY <1>4, <1>5, <1>6 DEF Progress

LEMMA ContextKeeps ==
  ASSUME TypeOK, Progress, NEW c \in Calls, ContextEnds(c)
  PROVE  TypeOK' /\ Progress'
<1>1. /\ job' = job /\ exec' = exec /\ work' = work /\ files' = files /\ active' = active /\ events' = events
      /\ ended' = ended \cup {c}
  BY DEF ContextEnds
<1>2. TypeOK'
  BY <1>1 DEF TypeOK
<1>3. \A d \in Calls : ProgressOf(d)'
  BY <1>1, OthersProgress DEF Progress
<1> QED BY <1>2, <1>3 DEF Progress

\* A step of a handler that has started and is not done.
LEMMA HandlerThen ==
  ASSUME TypeOK, Progress, NEW c \in Calls, work[c].pc \notin {"none", "done"}, Moves(c),
         job' = job, exec' = exec, ended' = ended,
         files' \in [Files -> Content], active' \in 0..MaxActive, events' \in Seq(Event),
         job[c].tool = "apply_patch" => /\ work'[c].at \in 1..Len(job[c].sections) + 1
                                        /\ work'[c].noted \in 0..Len(job[c].sections),
         work'[c].pc \in {"working", "read", "running", "written", "done"},
         work'[c].pc = "running" => job[c].tool = "restricted_shell",
         work'[c].pc = "written" => job[c].tool = "write_file",
         work'[c].pc = "read" =>
            \/ job[c].tool = "read_file"
            \/ /\ InPatch(c) /\ work'[c].at = work[c].at /\ Section(c).op = "update"
               /\ Section(c).old # Absent => work'[c].seen \notin {Absent, Torn},
         work'[c].pc = "done" /\ job[c].tool = "apply_patch" /\ ~work'[c].error => work'[c].at > Len(Sections(c))
  PROVE  TypeOK' /\ Progress'
<1>1. TypeOK'
  BY TypesThen DEF TypeOK, Moves
<1>2. ProgressOf(c)'
  <2>1. ProgressOf(c)
    BY DEF Progress
  <2>2. exec[c].pc # "idle" /\ exec[c].told # "ok" /\ (exec[c].pc \in {"recording", "done"} => c \in ended)
    BY <2>1 DEF ProgressOf, At
  <2>3. work'[c].pc = "read" /\ job[c].tool = "apply_patch" => InPatch(c)' /\ Section(c)' = Section(c)
    BY DEF InPatch, Section, Sections
  <2>4. Sections(c)' = Sections(c)
    BY DEF Sections
  <2>5. work'[c].pc = "read" => job[c].tool \in {"apply_patch", "read_file"}
    BY DEF InPatch
  <2> QED BY <2>2, <2>3, <2>4, <2>5 DEF ProgressOf, At, AllApplied
<1>3. \A d \in Calls \ {c} : ProgressOf(d)'
  BY OthersProgress DEF Progress, Moves
<1> QED BY <1>1, <1>2, <1>3 DEF Progress

\* What every step of a handler has in common.
LEMMA HandlerIs ==
  ASSUME TypeOK, Progress, NEW c \in Calls, Handler(c)
  PROVE  /\ work[c].pc \notin {"none", "done"} /\ job' = job /\ exec' = exec /\ ended' = ended
         /\ files \in [Files -> Content] /\ active \in 0..MaxActive /\ events \in Seq(Event)
         /\ job[c].tool = "apply_patch" =>
              /\ work[c].at \in 1..Len(job[c].sections) + 1 /\ Len(job[c].sections) \in Nat
              /\ work[c].noted \in 0..Len(job[c].sections)
<1>1. work[c].pc \notin {"none", "done"}
  BY DEF Handler, Patch, UpdateRead, UpdateWrite, AddFile, DeleteFile, BadSection, RecordMutation, PatchEnds,
         WriteFile, ReadFile, StatFile,
         CommandStarts, CommandEnds, At
<1>2. job' = job /\ exec' = exec /\ ended' = ended
  BY DEF Handler, Patch, UpdateRead, UpdateWrite, AddFile, DeleteFile, BadSection, RecordMutation, PatchEnds,
         WriteFile, ReadFile, StatFile,
         CommandStarts, CommandEnds
<1>3. job[c].tool = "apply_patch" =>
         /\ work[c].at \in 1..Len(job[c].sections) + 1 /\ Len(job[c].sections) \in Nat
         /\ work[c].noted \in 0..Len(job[c].sections)
  BY SectionTypes DEF Sections
<1> QED BY <1>1, <1>2, <1>3 DEF TypeOK

LEMMA UpdateReadKeeps ==
  ASSUME TypeOK, Progress, NEW c \in Calls, UpdateRead(c)
  PROVE  TypeOK' /\ Progress'
<1>1. InPatch(c) /\ Section(c).op = "update" /\ files' = files /\ active' = active /\ events' = events
  BY DEF UpdateRead
<1>2. PICK content \in Content : content = files[Section(c).file]
  BY <1>1, InPatchIs DEF TypeOK
<1>3. Handler(c)
  BY DEF Handler, Patch
<1>4. CASE Fail(c)
  BY <1>1, <1>3, <1>4, HandlerThen, HandlerIs, FailIs
<1>5. CASE ~Fail(c)
  <2>1. /\ content # Absent /\ (Section(c).old # Absent => Contains(content, Section(c).old))
        /\ work' = [work EXCEPT ![c].pc = "read", ![c].seen = content]
    BY <1>2, <1>5 DEF UpdateRead
  <2>2. /\ Moves(c) /\ work'[c].pc = "read" /\ work'[c].error = work[c].error
        /\ work'[c].at = work[c].at /\ work'[c].seen = content /\ work'[c].noted = work[c].noted
    BY <2>1, ReadIs
  <2>3. Section(c).old # Absent => content \notin {Absent, Torn}
    BY <1>1, <2>1, ContainsIs, InPatchIs
  <2> QED BY <1>1, <1>3, <2>2, <2>3, HandlerThen, HandlerIs
<1> QED BY <1>4, <1>5

\* A section that is applied, or not, to its file.
LEMMA SectionKeeps ==
  ASSUME TypeOK, Progress, NEW c \in Calls, Handler(c), InPatch(c), Step(c) \/ Fail(c),
         files' \in [Files -> Content], active' = active, events' = events
  PROVE  TypeOK' /\ Progress'
<1>1. CASE Fail(c)
  BY <1>1, HandlerThen, HandlerIs, FailIs
<1>2. CASE Step(c)
  <2>1. work[c].at \in 1..Len(Sections(c)) /\ Len(Sections(c)) \in Nat
    BY InPatchIs, SectionTypes
  <2>2. work'[c].at \in 1..Len(job[c].sections) + 1
    BY <1>2, <2>1, StepIs DEF Sections
  <2> QED BY <1>2, <2>2, HandlerThen, HandlerIs, StepIs
<1> QED BY <1>1, <1>2

LEMMA UpdateWriteKeeps ==
  ASSUME TypeOK, Progress, NEW c \in Calls, UpdateWrite(c)
  PROVE  TypeOK' /\ Progress'
<1>1. InPatch(c) /\ At(c, "read") /\ active' = active /\ events' = events /\ (Step(c) \/ Fail(c))
  BY DEF UpdateWrite
<1>2. work[c].seen \in Content
  BY DEF TypeOK, Working
<1>3. Section(c).old # Absent => work[c].seen \notin {Absent, Torn}
  BY <1>1 DEF Progress, ProgressOf, InPatch
<1>4. PICK new \in Content : new = Updated(work[c].seen, Section(c))
  BY <1>1, <1>2, <1>3, UpdatedTypes, InPatchIs
<1>5. files' = [files EXCEPT ![Section(c).file] = new] \/ files' = files
  BY <1>4 DEF UpdateWrite
<1>6. files' \in [Files -> Content]
  BY <1>5 DEF TypeOK
<1> QED BY <1>1, <1>6, SectionKeeps DEF Handler, Patch

LEMMA AddDeleteKeeps ==
  ASSUME TypeOK, Progress, NEW c \in Calls, AddFile(c) \/ DeleteFile(c) \/ BadSection(c)
  PROVE  TypeOK' /\ Progress'
<1>1. InPatch(c) /\ active' = active /\ events' = events /\ (Step(c) \/ Fail(c))
  BY DEF AddFile, DeleteFile, BadSection
<1>2. <<Section(c).new>> \in Content /\ Absent \in Content
  BY <1>1, InPatchIs, BlockTypes DEF Content
<1>3. files' = [files EXCEPT ![Section(c).file] = <<Section(c).new>>]
        \/ files' = [files EXCEPT ![Section(c).file] = Absent] \/ files' = files
  BY DEF AddFile, DeleteFile, BadSection
<1>4. files' \in [Files -> Content]
  BY <1>2, <1>3 DEF TypeOK
<1> QED BY <1>1, <1>4, SectionKeeps DEF Handler, Patch

LEMMA RecordMutationKeeps ==
  ASSUME TypeOK, Progress, NEW c \in Calls, RecordMutation(c) \/ PatchEnds(c)
  PROVE  TypeOK' /\ Progress'
<1>1. /\ job[c].tool = "apply_patch" /\ At(c, "working") /\ work[c].at > Len(Sections(c))
      /\ job' = job /\ files' = files /\ active' = active
  BY DEF RecordMutation, PatchEnds, AllApplied
<1>2. Handler(c)
  BY DEF Handler, Patch
<1>3. CASE PatchEnds(c)
  <2>1. work' = [work EXCEPT ![c].pc = "done"] /\ events' = events
    BY <1>3 DEF PatchEnds
  <2>2. Moves(c) /\ work'[c].pc = "done" /\ work'[c].at = work[c].at /\ work'[c].noted = work[c].noted
    BY <2>1, PcIs
  <2> QED BY <1>1, <1>2, <2>1, <2>2, HandlerThen, HandlerIs
<1>4. CASE RecordMutation(c)
  <2>1. /\ work[c].noted < Len(Sections(c)) /\ AppendEvent(c, "file_mutation", work[c].noted + 1)
        /\ work' = [work EXCEPT ![c].noted = @ + 1]
    BY <1>4 DEF RecordMutation
  <2>2. Moves(c) /\ work'[c].pc = "working" /\ work'[c].at = work[c].at /\ work'[c].noted = work[c].noted + 1
    BY <1>1, <2>1, NotedIs DEF At
  <2>3. work[c].noted \in Nat /\ Len(Sections(c)) \in Nat
    BY <1>1, SectionTypes
  <2>4. events' \in Seq(Event)
    BY <2>1, <2>3, AppendEventIs
  <2>5. work'[c].noted \in 0..Len(job[c].sections)
    BY <2>1, <2>2, <2>3 DEF Sections
  <2> QED BY <1>1, <1>2, <2>2, <2>4, <2>5, HandlerThen, HandlerIs
<1> QED BY <1>3, <1>4

(***************************************************************************)
(* The other tools                                                         *)
(***************************************************************************)
LEMMA WriteFileKeeps ==
  ASSUME TypeOK, Progress, NEW c \in Calls, WriteFile(c)
  PROVE  TypeOK' /\ Progress'
<1>1. job[c].tool = "write_file" /\ active' = active /\ events' = events
  BY DEF WriteFile
<1>2. Handler(c)
  BY DEF Handler
<1>3. job[c].file \in Files /\ Torn \in Content /\ <<job[c].new>> \in Content
  BY <1>1, JobTypes, BlockTypes DEF Content
<1>4. files' = [files EXCEPT ![job[c].file] = Torn] \/ files' = [files EXCEPT ![job[c].file] = <<job[c].new>>]
  BY DEF WriteFile
<1>5. files' \in [Files -> Content]
  BY <1>3, <1>4 DEF TypeOK
<1>6. Moves(c) /\ work'[c].pc \in {"written", "done"}
  <2>1. work' = [work EXCEPT ![c].pc = "written"] \/ work' = [work EXCEPT ![c].pc = "done"]
    BY DEF WriteFile
  <2> QED BY <2>1, PcIs
<1> QED BY <1>1, <1>2, <1>5, <1>6, HandlerThen, HandlerIs

LEMMA ReadFileKeeps ==
  ASSUME TypeOK, Progress, NEW c \in Calls, ReadFile(c) \/ StatFile(c)
  PROVE  TypeOK' /\ Progress'
<1>1. job[c].tool = "read_file" /\ active' = active /\ events' = events /\ files' = files
  BY DEF ReadFile, StatFile
<1>2. Handler(c)
  BY DEF Handler
<1>3. Moves(c) /\ work'[c].pc \in {"read", "done"}
  BY ReadFileIs
<1> QED BY <1>1, <1>2, <1>3, HandlerThen, HandlerIs

(***************************************************************************)
(* Slots                                                                   *)
(***************************************************************************)
\* A slot is taken by a command that is about to run, and given back by one
\* that runs: the counter is the number of commands that run before and after.
LEMMA SlotsAre ==
  /\ Slots <=> IsFiniteSet(Running) /\ active = Cardinality(Running) /\ active <= MaxActive
  /\ Slots' <=> IsFiniteSet(Running') /\ active' = Cardinality(Running') /\ active' <= MaxActive
BY DEF Slots, SlotsAreCounted, Running

LEMMA SlotTaken ==
  ASSUME TypeOK, Slots, NEW c \in Calls, Moves(c), ~At(c, "running"), work'[c].pc = "running",
         active' = active + 1, active < MaxActive
  PROVE  Slots'
<1>1. Running' = Running \cup {c} /\ c \notin Running
  BY DEF Running, At, Moves
<1>2. IsFiniteSet(Running) /\ active = Cardinality(Running) /\ active \in Nat /\ active < MaxActive
  BY SlotsAre, ToolAssumption DEF TypeOK
<1>3. IsFiniteSet(Running \cup {c}) /\ Cardinality(Running \cup {c}) = Cardinality(Running) + 1
  BY <1>1, <1>2, FS_AddElement
<1> QED BY <1>1, <1>2, <1>3, SlotsAre, ToolAssumption

LEMMA SlotGivenBack ==
  ASSUME TypeOK, Slots, NEW c \in Calls, Moves(c), At(c, "running"), work'[c].pc # "running",
         active' = active - 1
  PROVE  Slots' /\ active' \in 0..MaxActive
<1>1. Running' = Running \ {c} /\ c \in Running
  BY DEF Running, At, Moves
<1>2. IsFiniteSet(Running) /\ active = Cardinality(Running) /\ active \in Nat /\ active <= MaxActive
  BY SlotsAre, ToolAssumption DEF TypeOK
<1>3. IsFiniteSet(Running \ {c}) /\ Cardinality(Running \ {c}) = Cardinality(Running) - 1
  BY <1>1, <1>2, FS_RemoveElement
<1>4. Cardinality(Running \ {c}) \in Nat
  BY <1>3, FS_CardinalityType
<1> QED BY <1>1, <1>2, <1>3, <1>4, SlotsAre, ToolAssumption

LEMMA SlotsStay ==
  ASSUME Slots, active' = active, \A c \in Calls : At(c, "running") <=> At(c, "running")'
  PROVE  Slots'
<1>1. Running' = Running
  BY DEF Running
<1> QED BY <1>1, SlotsAre

LEMMA CommandKeeps ==
  ASSUME TypeOK, Progress, Slots, NEW c \in Calls, CommandStarts(c) \/ CommandEnds(c)
  PROVE  TypeOK' /\ Progress' /\ Slots'
<1>1. files' = files /\ events' = events /\ job[c].tool = "restricted_shell" /\ Handler(c)
  BY DEF CommandStarts, CommandEnds, Handler, Progress, ProgressOf
<1>2. active \in Nat /\ MaxActive \in Nat /\ active <= MaxActive
  BY ToolAssumption DEF TypeOK
<1>3. CASE CommandStarts(c) /\ SlotFree
  <2>1. active' = active + 1 /\ active < MaxActive /\ work' = [work EXCEPT ![c].pc = "running"] /\ At(c, "working")
    BY <1>3 DEF CommandStarts, SlotFree
  <2>2. Moves(c) /\ work'[c].pc = "running"
    BY <2>1, PcIs
  <2>3. Slots'
    BY <2>1, <2>2, SlotTaken DEF At
  <2> QED BY <1>1, <1>2, <2>1, <2>2, <2>3, HandlerThen, HandlerIs
<1>4. CASE CommandStarts(c) /\ ~SlotFree
  <2>1. active' = active /\ Fail(c) /\ At(c, "working")
    BY <1>4 DEF CommandStarts
  <2>2. Moves(c) /\ work'[c].pc = "done"
    BY <2>1, FailIs
  <2>3. Slots'
    BY <2>1, <2>2, SlotsStay DEF At, Moves
  <2> QED BY <1>1, <2>1, <2>2, <2>3, HandlerThen, HandlerIs
<1>5. CASE CommandEnds(c)
  <2>1. active' = active - 1 /\ At(c, "running") /\ (work' = [work EXCEPT ![c].pc = "done"] \/ Fail(c))
    BY <1>5 DEF CommandEnds
  <2>2. Moves(c) /\ work'[c].pc = "done"
    BY <2>1, PcIs, FailIs
  <2>3. Slots' /\ active' \in 0..MaxActive
    BY <2>1, <2>2, SlotGivenBack
  <2> QED BY <1>1, <2>2, <2>3, HandlerThen, HandlerIs
<1> QED BY <1>3, <1>4, <1>5

(***************************************************************************)
(* The effect of a patch's sections is well defined                        *)
(***************************************************************************)
LEMMA Least ==
  ASSUME NEW T \in SUBSET Nat, T # {}
  PROVE  \E x \in T : \A y \in T : x <= y
<1> DEFINE R == {ss \in Nat \X Nat : ss[1] < ss[2]}
<1>1. R = OpToRel(<, Nat)
  BY DEF OpToRel
<1>2. IsWellFoundedOn(R, Nat)
  BY <1>1, NatLessThanWellFounded
<1> HIDE DEF R
<1>3. PICK x \in T : \A y \in T : ~ (<<y, x>> \in R)
  BY <1>2, WFMin
<1>4. ASSUME NEW y \in T PROVE x <= y
  <2>1. <<y, x>> \in Nat \X Nat /\ <<y, x>>[1] = y /\ <<y, x>>[2] = x
    OBVIOUS
  <2>2. ~(y < x)
    BY <1>3, <2>1 DEF R
  <2> QED BY <2>2
<1> QED BY <1>4

\* The files after each of the first n sections.
Chain(g, sections, n) ==
  g = [k \in 0..n |-> IF k = 0 THEN InitialFiles ELSE Effect(g[k - 1], sections[k])]

LEMMA ChainGrows ==
  ASSUME NEW s, NEW n \in Nat \ {0}, NEW g, Chain(g, s, n - 1)
  PROVE  \E h : Chain(h, s, n)
<1>1. PICK m \in Nat : n = m + 1
  OBVIOUS
<1>2. PICK e : e = Effect(g[n - 1], s[n])
  OBVIOUS
<1> DEFINE h == [k \in 0..n |-> IF k = n THEN e ELSE g[k]]
           F(f, k) == IF k = 0 THEN InitialFiles ELSE Effect(f[k - 1], s[k])
<1>3. DOMAIN g = 0..m /\ \A k \in 0..m : g[k] = F(g, k)
  <2>1. g = [k \in 0..m |-> F(g, k)]
    BY <1>1 DEF Chain
  <2> HIDE DEF F
  <2> QED BY <2>1
<1>4. \A k \in 0..m : h[k] = g[k]
  BY <1>1
<1>5. h[n] = e
  OBVIOUS
<1> HIDE DEF h
<1>6. ASSUME NEW k \in 0..n PROVE h[k] = F(h, k)
  <2>1. CASE k = n
    <3>1. h[n - 1] = g[n - 1] /\ n # 0
      BY <1>1, <1>4
    <3> QED BY <1>2, <1>5, <2>1, <3>1
  <2>2. CASE k # n
    <3>1. k \in 0..m /\ (k # 0 => k - 1 \in 0..m)
      BY <1>1, <2>2
    <3>2. k # 0 => h[k - 1] = g[k - 1]
      BY <1>4, <3>1
    <3>3. F(h, k) = F(g, k)
      BY <3>2
    <3> QED BY <1>3, <1>4, <3>1, <3>3
  <2> QED BY <2>1, <2>2
<1>7. h = [k \in 0..n |-> h[k]]
  BY DEF h
<1> HIDE DEF F
<1>8. h = [k \in 0..n |-> F(h, k)]
  BY <1>6, <1>7
<1>9. Chain(h, s, n)
  BY <1>8 DEF Chain, F
<1> QED BY <1>9

LEMMA Chains ==
  ASSUME NEW s, NEW n \in Nat
  PROVE  \E g : Chain(g, s, n)
<1> DEFINE T == {m \in Nat : ~\E g : Chain(g, s, m)}
<1> SUFFICES ASSUME T # {} PROVE FALSE
  OBVIOUS
<1> HIDE DEF T
<1>1. PICK m \in T : \A k \in T : m <= k
  BY Least DEF T
<1>2. m \in Nat /\ ~\E g : Chain(g, s, m)
  BY <1>1 DEF T
<1>3. CASE m = 0
  <2> DEFINE g == [k \in 0..0 |-> InitialFiles]
  <2>1. g = [k \in 0..0 |-> IF k = 0 THEN InitialFiles ELSE Effect(g[k - 1], s[k])]
    <3>1. \A k \in 0..0 : k = 0
      OBVIOUS
    <3> QED BY <3>1
  <2> QED BY <1>2, <1>3, <2>1 DEF Chain
<1>4. CASE m # 0
  <2>1. m - 1 \in Nat /\ ~(m <= m - 1)
    BY <1>2, <1>4
  <2>2. m - 1 \notin T
    BY <1>1, <2>1
  <2>3. PICK g : Chain(g, s, m - 1)
    BY <2>1, <2>2 DEF T
  <2> QED BY <1>2, <1>4, <2>3, ChainGrows
<1> QED BY <1>3, <1>4

LEMMA AppliedIs ==
  ASSUME NEW s, Len(s) \in Nat
  PROVE  /\ Applied(s)[0] = InitialFiles
         /\ \A k \in 1..Len(s) : Applied(s)[k] = Effect(Applied(s)[k - 1], s[k])
<1>1. \E g : Chain(g, s, Len(s))
  BY Chains
<1>2. Chain(Applied(s), s, Len(s))
  BY <1>1 DEF Applied, Chain
<1> DEFINE F(f, k) == IF k = 0 THEN InitialFiles ELSE Effect(f[k - 1], s[k])
<1>3. \A k \in 0..Len(s) : Applied(s)[k] = F(Applied(s), k)
  <2>1. Applied(s) = [k \in 0..Len(s) |-> F(Applied(s), k)]
    BY <1>2 DEF Chain
  <2> HIDE DEF F
  <2>2. PICK a : a = Applied(s)
    OBVIOUS
  <2> QED BY ONLY <2>1, <2>2
<1>4. 0 \in 0..Len(s) /\ \A k \in 1..Len(s) : k \in 0..Len(s) /\ k # 0
  OBVIOUS
<1> QED BY <1>3, <1>4

\* What a section does to the files, when the files are those before it.
LEMMA EffectIs ==
  ASSUME NEW fs, DOMAIN fs = Files, NEW s \in PatchSection
  PROVE  /\ DOMAIN Effect(fs, s) = Files
         /\ \A f \in Files : f # s.file => Effect(fs, s)[f] = fs[f]
         /\ s.op = "add" => Effect(fs, s)[s.file] = <<s.new>>
         /\ s.op = "delete" => Effect(fs, s)[s.file] = Absent
         /\ s.op = "update" => Effect(fs, s)[s.file] = Updated(fs[s.file], s)
<1>1. s.file \in Files
  BY DEF PatchSection
<1>2. PICK e : e = CASE s.op = "add" -> <<s.new>>
                   [] s.op = "delete" -> Absent
                   [] OTHER -> Updated(fs[s.file], s)
  OBVIOUS
<1>3. Effect(fs, s) = [fs EXCEPT ![s.file] = e]
  BY <1>2 DEF Effect
<1>4. /\ s.op = "add" => e = <<s.new>>
      /\ s.op = "delete" => e = Absent
      /\ s.op = "update" => e = Updated(fs[s.file], s)
  BY <1>2
<1> QED BY <1>1, <1>3, <1>4

(***************************************************************************)
(* Types, progress and slots, together                                     *)
(***************************************************************************)
Safe == TypeOK /\ Progress /\ Slots

\* The handlers that run no command.
LEMMA OtherHandlers ==
  ASSUME Safe, NEW c \in Calls, Patch(c) \/ WriteFile(c) \/ ReadFile(c) \/ StatFile(c)
  PROVE  /\ Moves(c) /\ active' = active /\ ~At(c, "running") /\ work'[c].pc # "running"
         /\ work'[c].noted = work[c].noted \/ work'[c].noted = work[c].noted + 1
         /\ \/ work'[c].seen = work[c].seen
            \/ job[c].tool = "apply_patch"
            \/ job[c].tool = "read_file" /\ work'[c].seen = files[job[c].file]
<1> USE DEF Safe
<1>1. active' = active /\ ~At(c, "running")
  BY DEF Patch, UpdateRead, UpdateWrite, AddFile, DeleteFile, BadSection, RecordMutation, PatchEnds,
         WriteFile, ReadFile, StatFile, At
<1>2. CASE Fail(c)
  BY <1>1, <1>2, FailIs
<1>3. CASE Step(c)
  BY <1>1, <1>3, StepIs
<1>4. CASE UpdateRead(c) /\ ~Fail(c)
  <2>1. InPatch(c)
    BY <1>4 DEF UpdateRead
  <2>2. PICK content \in Content : content = files[Section(c).file]
    BY <2>1, InPatchIs DEF TypeOK
  <2>3. work' = [work EXCEPT ![c].pc = "read", ![c].seen = content]
    BY <1>4, <2>2 DEF UpdateRead
  <2> QED BY <1>1, <2>1, <2>3, ReadIs DEF InPatch
<1>5. CASE RecordMutation(c) \/ PatchEnds(c)
  <2>1. job[c].tool = "apply_patch" /\ At(c, "working")
    BY <1>5 DEF RecordMutation, PatchEnds
  <2>2. work' = [work EXCEPT ![c].noted = @ + 1] \/ work' = [work EXCEPT ![c].pc = "done"]
    BY <1>5 DEF RecordMutation, PatchEnds
  <2> QED BY <1>1, <2>1, <2>2, PcIs, NotedIs DEF At
<1>6. CASE WriteFile(c)
  <2>1. work' = [work EXCEPT ![c].pc = "written"] \/ work' = [work EXCEPT ![c].pc = "done"]
    BY <1>6 DEF WriteFile
  <2> QED BY <1>1, <2>1, PcIs
<1>7. CASE ReadFile(c) \/ StatFile(c)
  BY <1>1, <1>7, ReadFileIs DEF ReadFile, StatFile
<1> QED
  BY <1>2, <1>3, <1>4, <1>5, <1>6, <1>7 DEF Patch, UpdateRead, UpdateWrite, AddFile, DeleteFile, BadSection

LEMMA SafeStart ==
  ASSUME Init
  PROVE  Safe
<1> USE DEF Init
<1>1. TypeOK
  <2>1. exec \in [Calls -> [pc : {"idle", "running", "recording", "done"},
                            told : {"nothing", "ok", "error", "timeout"}]]
    OBVIOUS
  <2>2. PICK w : w = [pc |-> "none", at |-> 1, noted |-> 0, seen |-> Absent, error |-> FALSE]
    OBVIOUS
  <2>3. w \in Working /\ w.at = 1 /\ w.noted = 0
    BY <2>2 DEF Working, Content
  <2>4. work = [c \in Calls |-> w]
    BY <2>2
  <2>5. work \in [Calls -> Working]
    BY <2>3, <2>4
  <2>6. ASSUME NEW c \in Calls, job[c].tool = "apply_patch"
        PROVE  work[c].at \in 1..Len(job[c].sections) + 1 /\ work[c].noted \in 0..Len(job[c].sections)
    <3>1. job[c] \in Job
      BY ToolAssumption
    <3>2. job[c].sections \in Seq(PatchSection)
      BY <2>6, <3>1 DEF Job
    <3>3. Len(job[c].sections) \in Nat
      BY <3>2, LenProperties
    <3> QED BY <2>3, <2>4, <3>3
  <2>7. files \in [Files -> Content]
    <3>1. \A s \in Seq(Blocks) : s \in Seq(Text)
      BY SeqDef DEF Text
    <3> QED BY <3>1, ToolAssumption DEF Content
  <2>8. active \in 0..MaxActive /\ events \in Seq(Event)
    BY ToolAssumption
  <2> QED BY <2>1, <2>5, <2>6, <2>7, <2>8 DEF TypeOK
<1>2. Progress
  BY DEF Progress, ProgressOf, At
<1>3. Slots
  <2>1. Running = {}
    BY DEF Running, At
  <2> QED BY <2>1, SlotsAre, FS_EmptySet, ToolAssumption
<1> QED BY <1>1, <1>2, <1>3 DEF Safe

LEMMA SafeStep ==
  ASSUME Safe, Next
  PROVE  Safe'
<1> PICK c \in Calls : Execute(c) \/ Handler(c) \/ ContextEnds(c)
  BY DEF Next
<1> USE DEF Safe
<1>1. CASE Begin(c)
  <2>1. active' = active /\ exec[c].pc = "idle" /\ work' = [work EXCEPT ![c].pc = "working"]
    BY <1>1 DEF Begin
  <2>2. Moves(c) /\ work'[c].pc = "working" /\ At(c, "none")
    BY <2>1, PcIs DEF Progress, ProgressOf
  <2>3. Slots'
    BY <2>1, <2>2, SlotsStay DEF At, Moves
  <2> QED BY <1>1, <2>3, BeginKeeps
<1>2. CASE Returns(c) \/ TimesOut(c) \/ RecordResult(c) \/ ContextEnds(c)
  <2>1. active' = active /\ work' = work
    BY <1>2 DEF Returns, TimesOut, RecordResult, ContextEnds
  <2>2. Slots'
    BY <2>1, SlotsStay DEF At
  <2> QED BY <1>2, <2>2, ExecuteKeeps, ContextKeeps
<1>3. CASE CommandStarts(c) \/ CommandEnds(c)
  BY <1>3, CommandKeeps
<1>4. CASE Patch(c) \/ WriteFile(c) \/ ReadFile(c) \/ StatFile(c)
  <2>1. Slots'
    BY <1>4, OtherHandlers, SlotsStay DEF At, Moves
  <2>2. TypeOK' /\ Progress'
    BY <1>4, UpdateReadKeeps, UpdateWriteKeeps, AddDeleteKeeps, RecordMutationKeeps, WriteFileKeeps, ReadFileKeeps
       DEF Patch
  <2> QED BY <2>1, <2>2
<1> QED BY <1>1, <1>2, <1>3, <1>4 DEF Execute, Handler

LEMMA SafeStutter ==
  ASSUME Safe, UNCHANGED vars
  PROVE  Safe'
BY DEF Safe, TypeOK, Progress, ProgressOf, Slots, SlotsAreCounted, Running, At, InPatch, Section, Sections, AllApplied,
       vars

LEMMA StaysSafe == Spec => []Safe
BY SafeStart, SafeStep, SafeStutter, PTL DEF Spec

(* The counter of active commands is the number of commands that run, and  *)
(* at most the limit, for any number of calls (MemoryBoundedExecutor.Run). *)
THEOREM CommandsCounted == Spec => []SlotsAreCounted
<1>1. Safe => SlotsAreCounted
  BY DEF Safe, Slots
<1> QED BY <1>1, StaysSafe, PTL

(***************************************************************************)
(* Readers see whole files                                                 *)
(***************************************************************************)
OnlyWritesTear == TearsAreWrites /\ ReadsAreWhole

LEMMA NotTorn ==
  \A content \in {Absent} \cup Seq(Blocks) : content # Torn
<1>1. ASSUME NEW content \in Seq(Blocks), content = Torn PROVE FALSE
  <2>1. 1 \in DOMAIN content /\ content[1] = "torn"
    BY <1>1 DEF Torn
  <2>2. content[1] \in Blocks
    BY <2>1
  <2> QED BY <2>1, <2>2, ToolAssumption DEF Text
<1> QED BY <1>1, ToolAssumption

\* One step of call c's handler: a file it leaves torn, or a torn file it has
\* read to update, is one that a write_file call writes.
LEMMA TornThen ==
  ASSUME Safe, OnlyWritesTear, NEW c \in Calls, Moves(c), job' = job,
         \A f \in Files : files'[f] = Torn => files[f] = Torn \/ \E d \in Calls : Rewrites(d, f),
         InPatch(c)' /\ work'[c].pc = "read" /\ work'[c].seen = Torn =>
            work'[c].at = work[c].at /\ \E d \in Calls : Rewrites(d, Section(c).file),
         \/ work'[c].seen = work[c].seen
         \/ job[c].tool = "apply_patch"
         \/ job[c].tool = "read_file" /\ work'[c].seen = files[job[c].file]
  PROVE  OnlyWritesTear'
<1>1. \A f \in Files : files'[f] = Torn => \E d \in Calls : Rewrites(d, f)'
  BY DEF OnlyWritesTear, TearsAreWrites, Rewrites
<1>2. ASSUME NEW e \in Calls, InPatch(e)', At(e, "read")', work'[e].seen = Torn
      PROVE  \E d \in Calls : Rewrites(d, Section(e).file)'
  <2>1. CASE e = c
    BY <1>2, <2>1 DEF Rewrites, Section, Sections, At
  <2>2. CASE e # c
    BY <1>2, <2>2 DEF OnlyWritesTear, TearsAreWrites, Rewrites, InPatch, Section, Sections, At, Moves
  <2> QED BY <2>1, <2>2
<1>3. ASSUME NEW e \in Calls, job'[e].tool = "read_file", work'[e].seen = Torn
      PROVE  \E d \in Calls : job'[d].tool = "write_file" /\ job'[d].file = job'[e].file
  <2>1. CASE work'[e].seen = work[e].seen
    BY <1>3, <2>1 DEF OnlyWritesTear, ReadsAreWhole
  <2>2. CASE work'[e].seen # work[e].seen
    <3>1. e = c
      BY <2>2 DEF Moves
    <3>2. work'[c].seen = files[job[c].file] /\ job[c].file \in Files
      BY <1>3, <2>2, <3>1, JobTypes DEF Safe
    <3> QED BY <1>3, <3>1, <3>2 DEF OnlyWritesTear, TearsAreWrites, Rewrites
  <2> QED BY <2>1, <2>2
<1> QED BY <1>1, <1>2, <1>3 DEF OnlyWritesTear, TearsAreWrites, ReadsAreWhole

\* A step that changes neither a file nor what a handler has read or does.
LEMMA TornStays ==
  ASSUME OnlyWritesTear, job' = job, files' = files,
         \A c \in Calls : work'[c].seen = work[c].seen /\ work'[c].at = work[c].at /\ (At(c, "read")' => At(c, "read"))
  PROVE  OnlyWritesTear'
<1>1. \A c \in Calls : Section(c)' = Section(c) /\ (InPatch(c)' => InPatch(c))
  BY DEF InPatch, Section, Sections
<1> QED BY <1>1 DEF OnlyWritesTear, TearsAreWrites, ReadsAreWhole, Rewrites

LEMMA TornHandler ==
  ASSUME Safe, OnlyWritesTear, NEW c \in Calls, Patch(c) \/ WriteFile(c) \/ ReadFile(c) \/ StatFile(c)
  PROVE  OnlyWritesTear'
<1>1. /\ job' = job /\ Moves(c)
      /\ \/ work'[c].seen = work[c].seen
         \/ job[c].tool = "apply_patch"
         \/ job[c].tool = "read_file" /\ work'[c].seen = files[job[c].file]
  BY OtherHandlers DEF Patch, UpdateRead, UpdateWrite, AddFile, DeleteFile, BadSection, RecordMutation, PatchEnds,
     WriteFile, ReadFile, StatFile
<1>2. CASE Fail(c) /\ files' = files
  BY <1>1, <1>2, FailIs, TornThen DEF Safe
<1>3. CASE UpdateRead(c) /\ ~Fail(c)
  <2>1. InPatch(c) /\ files' = files
    BY <1>3 DEF UpdateRead
  <2>2. PICK content \in Content : content = files[Section(c).file]
    BY <2>1, InPatchIs DEF TypeOK, Safe
  <2>3. work' = [work EXCEPT ![c].pc = "read", ![c].seen = content]
    BY <1>3, <2>2 DEF UpdateRead
  <2>4. work'[c].at = work[c].at /\ work'[c].seen = content
    BY <2>3, ReadIs DEF Safe
  <2>5. content = Torn => \E d \in Calls : Rewrites(d, Section(c).file)
    BY <2>1, <2>2, InPatchIs DEF OnlyWritesTear, TearsAreWrites, Safe
  <2> QED BY <1>1, <2>1, <2>4, <2>5, TornThen
<1>4. CASE UpdateWrite(c) /\ Step(c)
  <2>1. InPatch(c) /\ At(c, "read") /\ work'[c].pc = "working"
    BY <1>4, StepIs DEF UpdateWrite, Safe
  <2>2. CASE files' = files
    BY <1>1, <2>1, <2>2, TornThen
  <2>3. CASE files' = [files EXCEPT ![Section(c).file] = Updated(work[c].seen, Section(c))]
    <3>1. Section(c).old # Absent => work[c].seen \notin {Absent, Torn}
      BY <2>1 DEF Safe, Progress, ProgressOf, InPatch
    <3>2. Updated(work[c].seen, Section(c)) = Torn => work[c].seen = Torn
      BY <2>1, <3>1, UpdatedTypes, InPatchIs DEF Safe, TypeOK, Working
    <3>3. Updated(work[c].seen, Section(c)) = Torn => \E d \in Calls : Rewrites(d, Section(c).file)
      BY <2>1, <3>2 DEF OnlyWritesTear, TearsAreWrites
    <3>4. \A f \in Files : files'[f] = Torn => files[f] = Torn \/ \E d \in Calls : Rewrites(d, f)
      BY <2>1, <2>3, <3>3, InPatchIs DEF Safe, TypeOK
    <3> QED BY <1>1, <2>1, <3>4, TornThen
  <2> QED BY <1>4, <2>2, <2>3 DEF UpdateWrite, Step, Fail
<1>5. CASE (AddFile(c) \/ DeleteFile(c)) /\ Step(c)
  <2>1. InPatch(c) /\ work'[c].pc = "working"
    BY <1>5, StepIs DEF AddFile, DeleteFile, Safe
  <2>2. PICK content \in {<<Section(c).new>>, Absent} :
          files' = [files EXCEPT ![Section(c).file] = content] \/ files' = files
    BY <1>5 DEF AddFile, DeleteFile
  <2>3. content # Torn
    BY <2>1, <2>2, BlockTypes, InPatchIs, ToolAssumption DEF Safe
  <2>4. \A f \in Files : files'[f] = Torn => files[f] = Torn
    BY <2>2, <2>3 DEF Safe, TypeOK
  <2> QED BY <1>1, <2>1, <2>4, TornThen
<1>6. CASE RecordMutation(c) \/ PatchEnds(c)
  <2>1. /\ files' = files /\ At(c, "working")
        /\ work' = [work EXCEPT ![c].noted = @ + 1] \/ work' = [work EXCEPT ![c].pc = "done"]
    BY <1>6 DEF RecordMutation, PatchEnds
  <2>2. work'[c].pc # "read"
    BY <2>1, PcIs, NotedIs DEF Safe, At
  <2> QED BY <1>1, <2>1, <2>2, TornThen
<1>7. CASE WriteFile(c)
  <2>1. job[c].tool = "write_file" /\ (work' = [work EXCEPT ![c].pc = "written"] \/ work' = [work EXCEPT ![c].pc = "done"])
    BY <1>7 DEF WriteFile
  <2>2. work'[c].pc # "read"
    BY <2>1, PcIs DEF Safe
  <2>3. PICK content : files' = [files EXCEPT ![job[c].file] = content]
    BY <1>7 DEF WriteFile
  <2>4. \A f \in Files : files'[f] = Torn => files[f] = Torn \/ Rewrites(c, f)
    BY <2>1, <2>3 DEF Rewrites, Safe, TypeOK
  <2> QED BY <1>1, <2>2, <2>4, TornThen
<1>8. CASE ReadFile(c) \/ StatFile(c)
  <2>1. files' = files /\ ~InPatch(c)'
    BY <1>1, <1>8 DEF ReadFile, StatFile, InPatch
  <2> QED BY <1>1, <2>1, TornThen
<1>9. CASE UpdateWrite(c) /\ Fail(c)
  <2>1. work'[c].pc = "done"
    BY <1>9, FailIs DEF Safe
  <2>2. ~Step(c)
    BY <2>1, StepIs DEF Safe
  <2>3. files' = files
    BY <1>9, <2>2 DEF UpdateWrite
  <2> QED BY <1>2, <1>9, <2>3
<1>10. CASE AddFile(c) /\ Fail(c)
  <2>1. work'[c].pc = "done"
    BY <1>10, FailIs DEF Safe
  <2>2. ~Step(c)
    BY <2>1, StepIs DEF Safe
  <2>3. files' = files
    BY <1>10, <2>2 DEF AddFile
  <2> QED BY <1>2, <1>10, <2>3
<1>11. CASE DeleteFile(c) /\ ~Step(c)
  BY <1>2, <1>11 DEF DeleteFile
<1>12. CASE BadSection(c)
  BY <1>2, <1>12 DEF BadSection
<1>13. UpdateRead(c) /\ Fail(c) => files' = files
  BY DEF UpdateRead
<1>14. UpdateWrite(c) => Step(c) \/ Fail(c)
  BY DEF UpdateWrite
<1>15. AddFile(c) => Step(c) \/ Fail(c)
  BY DEF AddFile
<1> QED
  BY <1>2, <1>3, <1>4, <1>5, <1>6, <1>7, <1>8, <1>9, <1>10, <1>11, <1>12, <1>13, <1>14, <1>15 DEF Patch

LEMMA TornStep ==
  ASSUME Safe, OnlyWritesTear, Next
  PROVE  OnlyWritesTear'
<1> PICK c \in Calls : Execute(c) \/ Handler(c) \/ ContextEnds(c)
  BY DEF Next
<1>1. CASE Begin(c)
  <2>1. job' = job /\ files' = files /\ work' = [work EXCEPT ![c].pc = "working"]
    BY <1>1 DEF Begin
  <2>2. Moves(c) /\ work'[c].pc = "working" /\ work'[c].seen = work[c].seen /\ work'[c].at = work[c].at
    BY <2>1, PcIs DEF Safe
  <2> QED BY <2>1, <2>2, TornStays DEF Moves, At
<1>2. CASE Returns(c) \/ TimesOut(c) \/ RecordResult(c) \/ ContextEnds(c)
  <2>1. job' = job /\ files' = files /\ work' = work
    BY <1>2 DEF Returns, TimesOut, RecordResult, ContextEnds
  <2> QED BY <2>1, TornStays DEF At
<1>3. CASE CommandStarts(c) \/ CommandEnds(c)
  <2>1. job' = job /\ files' = files
    BY <1>3 DEF CommandStarts, CommandEnds
  <2>2. Fail(c) \/ work' = [work EXCEPT ![c].pc = "running"] \/ work' = [work EXCEPT ![c].pc = "done"]
    BY <1>3 DEF CommandStarts, CommandEnds
  <2>3. Moves(c) /\ work'[c].pc # "read" /\ work'[c].seen = work[c].seen /\ work'[c].at = work[c].at
    BY <2>2, PcIs, FailIs DEF Safe
  <2> QED BY <2>1, <2>3, TornStays DEF Moves, At
<1>4. CASE Patch(c) \/ WriteFile(c) \/ ReadFile(c) \/ StatFile(c)
  BY <1>4, TornHandler
<1> QED BY <1>1, <1>2, <1>3, <1>4 DEF Execute, Handler

LEMMA TornStart ==
  ASSUME Init
  PROVE  OnlyWritesTear
<1>1. \A f \in Files : files[f] # Torn
  BY NotTorn, ToolAssumption DEF Init
<1>2. \A c \in Calls : ~At(c, "read") /\ work[c].seen = Absent
  BY DEF Init, At
<1> QED BY <1>1, <1>2, ToolAssumption DEF OnlyWritesTear, TearsAreWrites, ReadsAreWhole

(* A reader sees a torn file only if a write_file call writes it: a file   *)
(* that only patches change is read as it was before or after a section,   *)
(* whatever the contents and the number of calls (writeAtomically).        *)
THEOREM WholeReads == Spec => []ReadsAreWhole
<1>1. Init => OnlyWritesTear
  BY TornStart
<1>2. Safe /\ OnlyWritesTear /\ [Next]_vars => OnlyWritesTear'
  <2>1. OnlyWritesTear /\ UNCHANGED vars => OnlyWritesTear'
    BY DEF OnlyWritesTear, TearsAreWrites, ReadsAreWhole, Rewrites, InPatch, Section, Sections, At, vars
  <2> QED BY <2>1, TornStep
<1>3. OnlyWritesTear => ReadsAreWhole
  BY DEF OnlyWritesTear
<1> QED BY <1>1, <1>2, <1>3, StaysSafe, PTL DEF Spec

(***************************************************************************)
(* The trail of a call                                                     *)
(***************************************************************************)
Trail == TrailFollows /\ TrailIsOrdered

LEMMA EventTypes ==
  ASSUME TypeOK
  PROVE  /\ Len(events) \in Nat /\ DOMAIN events = 1..Len(events)
         /\ \A i \in 1..Len(events) : /\ events[i].call \in Calls /\ events[i].section \in Nat
                                      /\ events[i].type \in {"tool_invoked", "file_mutation", "tool_result"}
<1>1. events \in Seq(Event)
  BY DEF TypeOK
<1>2. Len(events) \in Nat /\ DOMAIN events = 1..Len(events) /\ events \in [1..Len(events) -> Event]
  BY <1>1, LenProperties
<1> QED BY <1>2 DEF Event

\* No call goes back: what is recorded of it stays true.
GoesOn(d) ==
  /\ exec[d].pc # "idle" => exec'[d].pc # "idle"
  /\ exec[d].pc = "done" => exec'[d].pc = "done"
  /\ At(d, "done") => At(d, "done")'
  /\ \A k \in Nat : k <= work[d].noted => k <= work'[d].noted

\* What a stored event tells of its call.
Tells(e, c) ==
  /\ exec[c].pc # "idle"
  /\ e.type = "tool_result" => exec[c].pc = "done" /\ At(c, "done")
  /\ e.type = "file_mutation" => job[c].tool = "apply_patch" /\ e.section <= work[c].noted

LEMMA TrailIs ==
  /\ TrailFollows <=> \A i \in DOMAIN events : Tells(events[i], events[i].call)
  /\ TrailFollows' <=> \A i \in DOMAIN events' : Tells(events[i], events[i].call)'
BY DEF TrailFollows, Tells

LEMMA StillTells ==
  ASSUME Safe, Trail, job' = job, \A d \in Calls : GoesOn(d), NEW i \in DOMAIN events, events'[i] = events[i]
  PROVE  Tells(events[i], events[i].call)'
<1>1. PICK e : e = events[i]
  OBVIOUS
<1>2. PICK c \in Calls : c = e.call
  BY <1>1, EventTypes DEF Safe
<1>3. GoesOn(c) /\ e.section \in Nat
  BY <1>1, <1>2, EventTypes DEF Safe
<1>4. Tells(e, c)
  BY <1>1, <1>2, TrailIs DEF Trail
<1>5. /\ exec'[c].pc # "idle"
      /\ e.type = "tool_result" => exec'[c].pc = "done" /\ At(c, "done")'
      /\ e.type = "file_mutation" => job'[c].tool = "apply_patch" /\ e.section <= work'[c].noted
  BY <1>3, <1>4 DEF GoesOn, Tells
<1>6. events'[i] = e /\ events'[i].call = c
  BY <1>1, <1>2
<1> QED BY <1>5, <1>6 DEF Tells, At

LEMMA TrailStays ==
  ASSUME Safe, Trail, job' = job, events' = events, \A d \in Calls : GoesOn(d)
  PROVE  Trail'
<1>1. TrailFollows'
  BY StillTells, TrailIs
<1>2. TrailIsOrdered'
  <2>1. ASSUME NEW i \in DOMAIN events', events'[i].type = "tool_result" PROVE At(events[i].call, "done")'
    BY <1>1, <2>1, TrailIs DEF Tells, At
  <2>2. \A i, j \in DOMAIN events' : i < j /\ events'[i].call = events'[j].call => InOrder(events'[i], events'[j])
    BY DEF Trail, TrailIsOrdered
  <2> QED BY <2>1, <2>2 DEF TrailIsOrdered, InOrder, At
<1> QED BY <1>1, <1>2 DEF Trail

\* An event that may come next in the trail of its call.
LEMMA TrailGrows ==
  ASSUME Safe, Trail, NEW c \in Calls, NEW type \in {"tool_invoked", "file_mutation", "tool_result"},
         NEW section \in Nat, job' = job, \A d \in Calls : GoesOn(d),
         DOMAIN events' = 1..Len(events'), Len(events') = Len(events) + 1,
         \A i \in 1..Len(events) : events'[i] = events[i],
         events'[Len(events) + 1] = Record(c, type, section),
         exec'[c].pc # "idle",
         type = "tool_result" => exec'[c].pc = "done" /\ At(c, "done")',
         type = "file_mutation" => job[c].tool = "apply_patch" /\ section <= work'[c].noted,
         \A i \in DOMAIN events : events[i].call = c => InOrder(events[i], Record(c, type, section))
  PROVE  Trail'
<1>1. PICK n \in Nat : n = Len(events) /\ DOMAIN events = 1..n /\ DOMAIN events' = 1..n + 1
  BY EventTypes DEF Safe
<1>2. \A i \in DOMAIN events' : i \in 1..n \/ i = n + 1
  BY <1>1
<1>3. PICK e : e = events'[n + 1] /\ e.call = c /\ e.type = type /\ e.section = section /\ e = Record(c, type, section)
  BY <1>1 DEF Record
<1>4. TrailFollows'
  <2>1. ASSUME NEW i \in 1..n PROVE Tells(events[i], events[i].call)'
    BY <1>1, StillTells
  <2>2. Tells(events[n + 1], events[n + 1].call)'
    BY <1>3 DEF Tells, At
  <2> QED BY <1>2, <2>1, <2>2, TrailIs
<1>5. ASSUME NEW i \in DOMAIN events', NEW j \in DOMAIN events', i < j, events'[i].call = events'[j].call
      PROVE  InOrder(events'[i], events'[j])
  <2>1. i \in 1..n
    BY <1>1, <1>5
  <2>2. CASE j \in 1..n
    BY <1>1, <1>5, <2>1, <2>2 DEF Trail, TrailIsOrdered
  <2>3. CASE j = n + 1
    BY <1>1, <1>3, <1>5, <2>1, <2>3
  <2> QED BY <1>2, <2>2, <2>3
<1>6. ASSUME NEW i \in DOMAIN events', events'[i].type = "tool_result" PROVE At(events[i].call, "done")'
  BY <1>4, <1>6, TrailIs DEF Tells, At
<1>7. TrailIsOrdered'
  BY <1>5, <1>6 DEF TrailIsOrdered, InOrder, At
<1> QED BY <1>4, <1>7 DEF Trail

\* No step of a handler or of Execute takes a call back.
LEMMA CallsGoOn ==
  ASSUME Safe, NEW c \in Calls, Execute(c) \/ Handler(c) \/ ContextEnds(c)
  PROVE  job' = job /\ \A d \in Calls : GoesOn(d)
<1>1. CASE Begin(c)
  <2>1. /\ job' = job /\ exec[c].pc = "idle" /\ exec' = [exec EXCEPT ![c].pc = "running"]
        /\ work' = [work EXCEPT ![c].pc = "working"]
    BY <1>1 DEF Begin
  <2>2. Answers(c, "running", exec[c].told) /\ Moves(c) /\ work'[c].noted = work[c].noted /\ ~At(c, "done")
    BY <2>1, ExecPcIs, PcIs DEF Safe, Progress, ProgressOf, At
  <2> QED BY <2>1, <2>2 DEF GoesOn, Answers, Moves, At
<1>2. CASE Returns(c) \/ TimesOut(c) \/ RecordResult(c) \/ ContextEnds(c)
  <2>1. job' = job /\ work' = work
    BY <1>2 DEF Returns, TimesOut, RecordResult, ContextEnds
  <2>2. \A d \in Calls : /\ exec[d].pc # "idle" => exec'[d].pc # "idle"
                         /\ exec[d].pc = "done" => exec'[d].pc = "done"
    <3>1. CASE Returns(c)
      <4>1. PICK told \in {"ok", "error"} : exec' = [exec EXCEPT ![c] = [pc |-> "recording", told |-> told]]
        BY <3>1 DEF Returns
      <4>2. Answers(c, "recording", told) /\ exec[c].pc = "running"
        BY <3>1, <4>1, ExecToldIs DEF Returns, Safe
      <4> QED BY <4>2 DEF Answers
    <3>2. CASE TimesOut(c)
      <4>1. Answers(c, "recording", "timeout") /\ exec[c].pc = "running"
        BY <3>2, ExecToldIs DEF TimesOut, Safe
      <4> QED BY <4>1 DEF Answers
    <3>3. CASE RecordResult(c)
      <4>1. Answers(c, "done", exec[c].told)
        BY <3>3, ExecPcIs DEF RecordResult, Safe
      <4> QED BY <4>1 DEF Answers
    <3>4. CASE ContextEnds(c)
      BY <3>4 DEF ContextEnds
    <3> QED BY <1>2, <3>1, <3>2, <3>3, <3>4
  <2> QED BY <2>1, <2>2 DEF GoesOn, At
<1>3. CASE Handler(c)
  <2>1. job' = job /\ exec' = exec /\ ~At(c, "done")
    BY <1>3, HandlerIs DEF Safe, At
  <2>2. Moves(c) /\ (work'[c].noted = work[c].noted \/ work'[c].noted = work[c].noted + 1)
    <3>1. CASE CommandStarts(c) \/ CommandEnds(c)
      <4>1. Fail(c) \/ work' = [work EXCEPT ![c].pc = "running"] \/ work' = [work EXCEPT ![c].pc = "done"]
        BY <3>1 DEF CommandStarts, CommandEnds
      <4> QED BY <4>1, PcIs, FailIs DEF Safe
    <3>2. CASE Patch(c) \/ WriteFile(c) \/ ReadFile(c) \/ StatFile(c)
      BY <3>2, OtherHandlers
    <3> QED BY <1>3, <3>1, <3>2 DEF Handler
  <2>3. work[c].noted \in Nat
    BY DEF Safe, TypeOK, Working
  <2> QED BY <2>1, <2>2, <2>3 DEF GoesOn, Moves, At
<1> QED BY <1>1, <1>2, <1>3 DEF Execute

LEMMA TrailStep ==
  ASSUME Safe, Trail, Next
  PROVE  Trail'
<1> PICK c \in Calls : Execute(c) \/ Handler(c) \/ ContextEnds(c)
  BY DEF Next
<1>1. job' = job /\ \A d \in Calls : GoesOn(d)
  BY CallsGoOn
<1>2. CASE events' = events
  BY <1>1, <1>2, TrailStays
<1>3. ASSUME NEW type \in {"tool_invoked", "file_mutation", "tool_result"}, NEW section \in Nat,
             AppendEvent(c, type, section), events' # events
      PROVE  /\ c \notin ended /\ DOMAIN events' = 1..Len(events') /\ Len(events') = Len(events) + 1
             /\ \A i \in 1..Len(events) : events'[i] = events[i]
             /\ events'[Len(events) + 1] = Record(c, type, section)
  BY <1>3, AppendEventIs DEF Safe
<1>4. CASE Begin(c) /\ events' # events
  <2>1. /\ exec[c].pc = "idle" /\ exec' = [exec EXCEPT ![c].pc = "running"]
        /\ AppendEvent(c, "tool_invoked", 0)
    BY <1>4 DEF Begin
  <2>2. exec'[c].pc = "running"
    BY <2>1, ExecPcIs DEF Safe, Answers
  <2>3. \A i \in DOMAIN events : events[i].call # c
    BY <2>1 DEF Trail, TrailFollows
  <2> QED BY <1>1, <1>3, <1>4, <2>1, <2>2, <2>3, TrailGrows
<1>5. CASE RecordResult(c) /\ events' # events
  <2>1. /\ exec[c].pc = "recording" /\ exec' = [exec EXCEPT ![c].pc = "done"] /\ work' = work
        /\ AppendEvent(c, "tool_result", 0)
    BY <1>5 DEF RecordResult
  <2>2. exec'[c].pc = "done" /\ c \notin ended
    BY <1>3, <1>5, <2>1, ExecPcIs DEF Safe, Answers
  <2>3. At(c, "done")'
    BY <2>1, <2>2 DEF Safe, Progress, ProgressOf, At
  <2>4. ASSUME NEW i \in DOMAIN events, events[i].call = c PROVE InOrder(events[i], Record(c, "tool_result", 0))
    BY <2>1, <2>4 DEF Trail, TrailFollows, InOrder, Record
  <2> QED BY <1>1, <1>3, <1>5, <2>1, <2>2, <2>3, <2>4, TrailGrows
<1>6. CASE RecordMutation(c) /\ events' # events
  <2>1. /\ job[c].tool = "apply_patch" /\ At(c, "working") /\ work' = [work EXCEPT ![c].noted = @ + 1]
        /\ AppendEvent(c, "file_mutation", work[c].noted + 1) /\ exec' = exec
    BY <1>6 DEF RecordMutation
  <2>2. PICK k \in Nat : k = work[c].noted
    BY DEF Safe, TypeOK, Working
  <2>3. work'[c].noted = k + 1 /\ k + 1 \in Nat
    <3>1. work'[c].noted = work[c].noted + 1
      BY <2>1, NotedIs DEF Safe
    <3> QED BY <2>2, <3>1
  <2>4. exec[c].pc # "idle"
    BY <2>1 DEF Safe, Progress, ProgressOf, At
  <2>5. ASSUME NEW i \in DOMAIN events, events[i].call = c
        PROVE  InOrder(events[i], Record(c, "file_mutation", k + 1))
    <3>1. events[i].section \in Nat
      BY EventTypes DEF Safe
    <3>2. events[i].type # "tool_result"
      BY <2>1, <2>5 DEF Trail, TrailFollows, At
    <3>3. events[i].type = "file_mutation" => events[i].section <= k
      BY <2>2, <2>5 DEF Trail, TrailFollows
    <3> QED BY <2>2, <3>1, <3>2, <3>3 DEF InOrder, Record
  <2> QED BY <1>1, <1>3, <1>6, <2>1, <2>2, <2>3, <2>4, <2>5, TrailGrows
<1>7. Handler(c) /\ events' # events => RecordMutation(c)
  BY DEF Handler, Patch, UpdateRead, UpdateWrite, AddFile, DeleteFile, BadSection, PatchEnds, WriteFile, ReadFile,
         StatFile, CommandStarts, CommandEnds
<1>8. Returns(c) \/ TimesOut(c) \/ ContextEnds(c) => events' = events
  BY DEF Returns, TimesOut, ContextEnds
<1> QED BY <1>2, <1>4, <1>5, <1>6, <1>7, <1>8 DEF Execute

LEMMA TrailStart ==
  ASSUME Init
  PROVE  Trail
<1>1. DOMAIN events = {}
  BY DEF Init
<1>2. \A c \in Calls : exec[c].pc = "idle"
  BY DEF Init
<1> QED BY <1>1, <1>2 DEF Trail, TrailFollows, TrailIsOrdered

(* Whatever of a call's trail the store has lost, and with any number of   *)
(* calls appending to one log, what is stored is in order: its invocation  *)
(* before all else, its sections as they were applied and none twice, its  *)
(* result last and only when its handler is done (BeforeExecute,           *)
(* AfterExecute, the mutation recorder).                                   *)
THEOREM OrderedTrail == Spec => []TrailIsOrdered
<1>1. Init => Trail
  BY TrailStart
<1>2. Safe /\ Trail /\ [Next]_vars => Trail'
  <2>1. Trail /\ UNCHANGED vars => Trail'
    BY DEF Trail, TrailFollows, TrailIsOrdered, InOrder, At, vars
  <2> QED BY <2>1, TrailStep
<1>3. Trail => TrailIsOrdered
  BY DEF Trail
<1> QED BY <1>1, <1>2, <1>3, StaysSafe, PTL DEF Spec

(***************************************************************************)
(* A patch applies a prefix of its sections                                *)
(***************************************************************************)
AsFar(c) == /\ DOMAIN SoFar(c) = Files
            /\ \A f \in Files : Touches(c, f) => files[f] = SoFar(c)[f]
            /\ At(c, "read") => work[c].seen = files[Section(c).file]

LEMMA UndisturbedIs ==
  /\ Undisturbed <=> \A c \in Calls : job[c].tool = "apply_patch" /\ SoleWriter(c) => AsFar(c)
  /\ Undisturbed' <=> \A c \in Calls : job'[c].tool = "apply_patch" /\ SoleWriter(c)' => AsFar(c)'
BY DEF Undisturbed, AsFar

LEMMA JobsStay ==
  ASSUME job' = job, NEW c \in Calls
  PROVE  /\ Sections(c)' = Sections(c) /\ (SoleWriter(c)' <=> SoleWriter(c))
         /\ \A f \in Files : Touches(c, f)' <=> Touches(c, f)
         /\ SoFar(c)' = Applied(Sections(c))[work'[c].at - 1]
         /\ work'[c].at = work[c].at => SoFar(c)' = SoFar(c) /\ Section(c)' = Section(c)
<1>1. Sections(c)' = Sections(c)
  BY DEF Sections
<1>2. \A d \in Calls, f \in Files : Touches(d, f)' <=> Touches(d, f)
  BY DEF Touches, Sections
<1>3. SoleWriter(c)' <=> SoleWriter(c)
  BY <1>2 DEF SoleWriter
<1>4. SoFar(c)' = Applied(Sections(c))[work'[c].at - 1]
  BY <1>1 DEF SoFar, AfterSections
<1>5. SoFar(c) = Applied(Sections(c))[work[c].at - 1]
  BY DEF SoFar, AfterSections
<1> QED BY <1>1, <1>2, <1>3, <1>4, <1>5 DEF Section

\* A call writes the files it touches.
LEMMA InPatchTouches ==
  ASSUME Safe, NEW c \in Calls, InPatch(c)
  PROVE  Touches(c, Section(c).file) /\ Section(c).file \in Files
<1>1. job[c].tool = "apply_patch" /\ work[c].at \in DOMAIN Sections(c) /\ Section(c) = Sections(c)[work[c].at]
  BY InPatchIs, SectionTypes DEF Safe
<1> QED BY <1>1, InPatchIs DEF Touches, Safe

LEMMA WritesOwn ==
  ASSUME Safe, NEW c \in Calls, Handler(c), NEW f \in Files, files'[f] # files[f]
  PROVE  Touches(c, f)
<1>1. files \in [Files -> Content]
  BY DEF Safe, TypeOK
<1>2. CASE Patch(c)
  <2>1. CASE InPatch(c)
    <3>1. PICK content : files' = files \/ files' = [files EXCEPT ![Section(c).file] = content]
      BY <1>2 DEF Patch, UpdateRead, UpdateWrite, AddFile, DeleteFile, BadSection, RecordMutation, PatchEnds
    <3> QED BY <1>1, <2>1, <3>1, InPatchTouches
  <2>2. CASE ~InPatch(c)
    BY <1>2, <2>2 DEF Patch, UpdateRead, UpdateWrite, AddFile, DeleteFile, BadSection, RecordMutation, PatchEnds
  <2> QED BY <2>1, <2>2
<1>3. CASE WriteFile(c)
  <2>1. PICK content : files' = [files EXCEPT ![job[c].file] = content]
    BY <1>3 DEF WriteFile
  <2>2. job[c].tool = "write_file"
    BY <1>3 DEF WriteFile
  <2> QED BY <1>1, <2>1, <2>2 DEF Touches
<1>4. CASE ReadFile(c) \/ StatFile(c) \/ CommandStarts(c) \/ CommandEnds(c)
  BY <1>4 DEF ReadFile, StatFile, CommandStarts, CommandEnds
<1> QED BY <1>2, <1>3, <1>4 DEF Handler

\* A patch that a step leaves where it is, with the files it touches.
LEMMA StaysAsFar ==
  ASSUME Safe, NEW c \in Calls, job[c].tool = "apply_patch", AsFar(c), job' = job,
         work'[c].at = work[c].at, work'[c].seen = work[c].seen, At(c, "read")' => At(c, "read"),
         \A f \in Files : Touches(c, f) => files'[f] = files[f]
  PROVE  AsFar(c)'
<1>1. /\ SoFar(c)' = SoFar(c) /\ Section(c)' = Section(c)
      /\ \A f \in Files : Touches(c, f)' <=> Touches(c, f)
  BY JobsStay
<1>2. At(c, "read") => Touches(c, Section(c).file) /\ Section(c).file \in Files
  BY InPatchTouches DEF Safe, Progress, ProgressOf
<1>3. At(c, "read")' => work'[c].seen = files'[Section(c).file]
  BY <1>2 DEF AsFar
<1> QED BY <1>1, <1>3 DEF AsFar

\* A patch that applies its section to the files as they are.
LEMMA GoesAsFar ==
  ASSUME Safe, NEW c \in Calls, InPatch(c), AsFar(c), job' = job, Step(c),
         Section(c).op \in {"update", "add", "delete"},
         files' = [files EXCEPT ![Section(c).file] =
                     CASE Section(c).op = "add" -> <<Section(c).new>>
                       [] Section(c).op = "delete" -> Absent
                       [] OTHER -> Updated(files[Section(c).file], Section(c))]
  PROVE  AsFar(c)'
<1>1. PICK n \in 1..Len(Sections(c)) : n = work[c].at
  BY InPatchIs DEF Safe
<1>2. PICK s \in PatchSection : s = Section(c) /\ s = Sections(c)[n]
  BY <1>1, InPatchIs DEF Safe
<1>3. work'[c].pc = "working" /\ work'[c].at = n + 1
  BY <1>1, StepIs DEF Safe
<1>4. SoFar(c) = Applied(Sections(c))[n - 1]
  BY <1>1 DEF SoFar, AfterSections
<1>5. SoFar(c)' = Effect(SoFar(c), s)
  <2>1. Len(Sections(c)) \in Nat
    BY SectionTypes, InPatchIs DEF Safe
  <2>2. Applied(Sections(c))[n] = Effect(Applied(Sections(c))[n - 1], Sections(c)[n])
    BY <2>1, AppliedIs
  <2>3. n + 1 - 1 = n
    OBVIOUS
  <2>4. SoFar(c)' = Applied(Sections(c))[n]
    BY <1>3, <2>3, JobsStay
  <2> QED BY <1>2, <1>4, <2>2, <2>4
<1>6. PICK fs : fs = SoFar(c)
  OBVIOUS
<1>7. DOMAIN fs = Files /\ \A f \in Files : Touches(c, f) => files[f] = fs[f]
  BY <1>6 DEF AsFar
<1>8. /\ DOMAIN Effect(fs, s) = Files
      /\ \A f \in Files : f # s.file => Effect(fs, s)[f] = fs[f]
      /\ s.op = "add" => Effect(fs, s)[s.file] = <<s.new>>
      /\ s.op = "delete" => Effect(fs, s)[s.file] = Absent
      /\ s.op = "update" => Effect(fs, s)[s.file] = Updated(fs[s.file], s)
  BY <1>7, EffectIs
<1>9. Touches(c, s.file) /\ s.file \in Files /\ files[s.file] = fs[s.file]
  BY <1>2, <1>7, InPatchTouches
<1>10. PICK e : e = CASE s.op = "add" -> <<s.new>>
                      [] s.op = "delete" -> Absent
                      [] OTHER -> Updated(files[s.file], s)
  OBVIOUS
<1>11. files' = [files EXCEPT ![s.file] = e] /\ files \in [Files -> Content]
  BY <1>2, <1>10 DEF Safe, TypeOK
<1>12. e = Effect(fs, s)[s.file]
  BY <1>2, <1>8, <1>9, <1>10
<1>13. \A f \in Files : Touches(c, f) => files'[f] = Effect(fs, s)[f]
  BY <1>7, <1>8, <1>11, <1>12
<1>14. \A f \in Files : Touches(c, f)' <=> Touches(c, f)
  BY JobsStay
<1>15. ~At(c, "read")'
  BY <1>3 DEF At
<1> QED BY <1>5, <1>6, <1>8, <1>13, <1>14, <1>15 DEF AsFar

\* A step of the patch's own handler.
LEMMA OwnAsFar ==
  ASSUME Safe, NEW c \in Calls, AsFar(c), Patch(c)
  PROVE  AsFar(c)'
<1>1. job' = job /\ job[c].tool = "apply_patch" /\ files \in [Files -> Content]
  BY DEF Patch, UpdateRead, UpdateWrite, AddFile, DeleteFile, BadSection, RecordMutation, PatchEnds, InPatch, Safe,
         TypeOK
<1>2. CASE Fail(c) /\ files' = files
  <2>1. work'[c].pc = "done" /\ work'[c].at = work[c].at /\ work'[c].seen = work[c].seen
    BY <1>2, FailIs DEF Safe
  <2>2. ~At(c, "read")'
    BY <2>1 DEF At
  <2> QED BY <1>1, <1>2, <2>1, <2>2, StaysAsFar
<1>3. CASE UpdateRead(c) /\ ~Fail(c)
  <2>1. InPatch(c) /\ files' = files
    BY <1>3 DEF UpdateRead
  <2>2. PICK content \in Content : content = files[Section(c).file]
    BY <2>1, InPatchIs DEF TypeOK, Safe
  <2>3. work' = [work EXCEPT ![c].pc = "read", ![c].seen = content]
    BY <1>3, <2>2 DEF UpdateRead
  <2>4. work'[c].at = work[c].at /\ work'[c].seen = content
    BY <2>3, ReadIs DEF Safe
  <2>5. /\ SoFar(c)' = SoFar(c) /\ Section(c)' = Section(c)
        /\ \A f \in Files : Touches(c, f)' <=> Touches(c, f)
    BY <1>1, <2>4, JobsStay
  <2> QED BY <2>1, <2>2, <2>4, <2>5 DEF AsFar
<1>4. CASE UpdateWrite(c) /\ Step(c)
  <2>1. InPatch(c) /\ At(c, "read")
    BY <1>4 DEF UpdateWrite
  <2>2. Section(c).op = "update" /\ work[c].seen = files[Section(c).file]
    BY <2>1 DEF Safe, Progress, ProgressOf, AsFar, InPatch
  <2>3. ~Fail(c)
    BY <1>4, FailIs, StepIs DEF Safe
  <2>4. files' = [files EXCEPT ![Section(c).file] = Updated(files[Section(c).file], Section(c))]
    BY <1>4, <2>2, <2>3 DEF UpdateWrite
  <2> QED BY <1>1, <1>4, <2>1, <2>2, <2>4, GoesAsFar
<1>5. CASE (AddFile(c) \/ DeleteFile(c)) /\ Step(c)
  <2>1. InPatch(c)
    BY <1>5 DEF AddFile, DeleteFile
  <2>2. ~Fail(c)
    BY <1>5, FailIs, StepIs DEF Safe
  <2>3. \/ Section(c).op = "add" /\ files' = [files EXCEPT ![Section(c).file] = <<Section(c).new>>]
        \/ Section(c).op = "delete" /\ files' = [files EXCEPT ![Section(c).file] = Absent]
    BY <1>5, <2>2 DEF AddFile, DeleteFile
  <2> QED BY <1>1, <1>5, <2>1, <2>3, GoesAsFar
<1>6. CASE RecordMutation(c) \/ PatchEnds(c)
  <2>1. /\ files' = files /\ At(c, "working")
        /\ work' = [work EXCEPT ![c].noted = @ + 1] \/ work' = [work EXCEPT ![c].pc = "done"]
    BY <1>6 DEF RecordMutation, PatchEnds
  <2>2. work'[c].at = work[c].at /\ work'[c].seen = work[c].seen /\ work'[c].pc # "read"
    BY <2>1, PcIs, NotedIs DEF Safe, At
  <2>3. ~At(c, "read")'
    BY <2>2 DEF At
  <2> QED BY <1>1, <2>1, <2>2, <2>3, StaysAsFar
<1>7. (UpdateWrite(c) \/ AddFile(c) \/ DeleteFile(c)) /\ ~Step(c) => Fail(c) /\ files' = files
  BY DEF UpdateWrite, AddFile, DeleteFile
<1>8. UpdateRead(c) \/ BadSection(c) => files' = files /\ (BadSection(c) => Fail(c))
  BY DEF UpdateRead, BadSection
<1> QED BY <1>2, <1>3, <1>4, <1>5, <1>6, <1>7, <1>8 DEF Patch

LEMMA UndisturbedStep ==
  ASSUME Safe, Undisturbed, Next
  PROVE  Undisturbed'
<1> PICK c \in Calls : Execute(c) \/ Handler(c) \/ ContextEnds(c)
  BY DEF Next
<1>1. job' = job
  BY DEF Execute, Begin, Returns, TimesOut, RecordResult, Handler, Patch, UpdateRead, UpdateWrite, AddFile, DeleteFile,
         BadSection, RecordMutation, PatchEnds,
         WriteFile, ReadFile, StatFile, CommandStarts, CommandEnds, ContextEnds
<1> SUFFICES ASSUME NEW e \in Calls, job[e].tool = "apply_patch", SoleWriter(e)'
             PROVE  AsFar(e)'
  BY <1>1, UndisturbedIs
<1>2. SoleWriter(e) /\ AsFar(e)
  BY <1>1, JobsStay, UndisturbedIs
<1>3. CASE Begin(c)
  <2>1. files' = files /\ work' = [work EXCEPT ![c].pc = "working"]
    BY <1>3 DEF Begin
  <2>2. Moves(c) /\ work'[c].pc = "working" /\ work'[c].seen = work[c].seen /\ work'[c].at = work[c].at
    BY <2>1, PcIs DEF Safe
  <2>3. work'[e].seen = work[e].seen /\ work'[e].at = work[e].at /\ (At(e, "read")' => At(e, "read"))
    BY <2>2 DEF Moves, At
  <2> QED BY <1>1, <1>2, <2>1, <2>3, StaysAsFar
<1>4. CASE Returns(c) \/ TimesOut(c) \/ RecordResult(c) \/ ContextEnds(c)
  <2>1. files' = files /\ work' = work
    BY <1>4 DEF Returns, TimesOut, RecordResult, ContextEnds
  <2>2. At(e, "read")' => At(e, "read")
    BY <2>1 DEF At
  <2> QED BY <1>1, <1>2, <2>1, <2>2, StaysAsFar
<1>5. CASE Handler(c) /\ c # e
  <2>1. Moves(c)
    <3>1. CASE CommandStarts(c) \/ CommandEnds(c)
      <4>1. Fail(c) \/ work' = [work EXCEPT ![c].pc = "running"] \/ work' = [work EXCEPT ![c].pc = "done"]
        BY <3>1 DEF CommandStarts, CommandEnds
      <4> QED BY <4>1, PcIs, FailIs DEF Safe
    <3>2. CASE Patch(c) \/ WriteFile(c) \/ ReadFile(c) \/ StatFile(c)
      BY <3>2, OtherHandlers
    <3> QED BY <1>5, <3>1, <3>2 DEF Handler
  <2>2. work'[e] = work[e]
    BY <1>5, <2>1 DEF Moves
  <2>3. \A f \in Files : Touches(e, f) => files'[f] = files[f]
    BY <1>2, <1>5, WritesOwn DEF SoleWriter
  <2>4. At(e, "read")' => At(e, "read")
    BY <2>2 DEF At
  <2> QED BY <1>1, <1>2, <2>2, <2>3, <2>4, StaysAsFar
<1>6. CASE Handler(c) /\ c = e
  <2>1. Patch(c)
    <3>1. job[c].tool \notin {"write_file", "read_file", "restricted_shell"}
      BY <1>6
    <3>2. ~At(c, "running")
      BY <3>1 DEF Safe, Progress, ProgressOf
    <3> QED BY <1>6, <3>1, <3>2 DEF Handler, WriteFile, ReadFile, StatFile, CommandStarts, CommandEnds
  <2> QED BY <1>2, <1>6, <2>1, OwnAsFar
<1> QED BY <1>3, <1>4, <1>5, <1>6 DEF Execute

LEMMA UndisturbedStart ==
  ASSUME Init
  PROVE  Undisturbed
<1>1. ASSUME NEW c \in Calls, job[c].tool = "apply_patch" PROVE AsFar(c)
  <2>1. work[c].at = 1 /\ files = InitialFiles /\ ~At(c, "read")
    BY DEF Init, At
  <2>2. SoFar(c) = InitialFiles
    <3>1. Len(Sections(c)) \in Nat
      BY <1>1, SafeStart, SectionTypes DEF Safe
    <3>2. 1 - 1 = 0
      OBVIOUS
    <3> QED BY <2>1, <3>1, <3>2, AppliedIs DEF SoFar, AfterSections
  <2>3. DOMAIN InitialFiles = Files
    BY ToolAssumption
  <2> QED BY <2>1, <2>2, <2>3 DEF AsFar
<1> QED BY <1>1, UndisturbedIs

LEMMA PrefixFollows ==
  ASSUME Safe, Undisturbed
  PROVE  PatchIsPrefix
<1> SUFFICES ASSUME NEW c \in Calls, job[c].tool = "apply_patch", SoleWriter(c)
             PROVE  /\ \E n \in 0..Len(Sections(c)) : \A f \in Files :
                           Touches(c, f) => files[f] = AfterSections(c, n)[f]
                    /\ exec[c].told = "ok" => \A f \in Files :
                           Touches(c, f) => files[f] = AfterSections(c, Len(Sections(c)))[f]
  BY DEF PatchIsPrefix
<1>1. AsFar(c)
  BY UndisturbedIs
<1>2. work[c].at \in 1..Len(Sections(c)) + 1 /\ Len(Sections(c)) \in Nat
  BY SectionTypes DEF Safe
<1>3. PICK n \in 0..Len(Sections(c)) : n = work[c].at - 1
  BY <1>2
<1>4. \A f \in Files : Touches(c, f) => files[f] = AfterSections(c, n)[f]
  BY <1>1, <1>3 DEF AsFar, SoFar
<1>5. exec[c].told = "ok" => n = Len(Sections(c))
  <2> SUFFICES ASSUME exec[c].told = "ok" PROVE n = Len(Sections(c))
    OBVIOUS
  <2>1. work[c].at > Len(Sections(c))
    BY DEF Safe, Progress, ProgressOf, AllApplied
  <2> QED BY <1>2, <1>3, <2>1
<1> QED BY <1>4, <1>5

(* Whatever the patch, whatever fails and whenever the caller gives up,    *)
(* the files that no other call touches are as they are after some number  *)
(* of the patch's sections, and after all of them when the caller is told  *)
(* of success (Engine.Apply, Execute).                                     *)
THEOREM PatchPrefix == Spec => []PatchIsPrefix
<1>1. Init => Undisturbed
  BY UndisturbedStart
<1>2. Safe /\ Undisturbed /\ [Next]_vars => Undisturbed'
  <2>1. Safe /\ Undisturbed /\ UNCHANGED vars => Undisturbed'
    <3> SUFFICES ASSUME Safe, Undisturbed, UNCHANGED vars PROVE Undisturbed'
      OBVIOUS
    <3>1. job' = job /\ work' = work /\ files' = files
      BY DEF vars
    <3>2. ASSUME NEW c \in Calls, job[c].tool = "apply_patch", SoleWriter(c)' PROVE AsFar(c)'
      <4>1. AsFar(c)
        BY <3>1, <3>2, JobsStay, UndisturbedIs
      <4>2. At(c, "read")' => At(c, "read")
        BY <3>1 DEF At
      <4> QED BY <3>1, <3>2, <4>1, <4>2, StaysAsFar
    <3> QED BY <3>1, <3>2, UndisturbedIs
  <2> QED BY <2>1, UndisturbedStep
<1>3. Safe /\ Undisturbed => PatchIsPrefix
  BY PrefixFollows
<1> QED BY <1>1, <1>2, <1>3, StaysSafe, PTL DEF Spec
==============================================================================
