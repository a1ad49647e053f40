---------------------------- MODULE ToolExecution ----------------------------
(***************************************************************************)
(* Tool calls in execution: Executor.Execute (internal/tools/executor.go)  *)
(* with its audit recorder (internal/controlplane/server.go), and the      *)
(* handlers that change something: apply_patch on the patch engine         *)
(* (internal/patch/engine.go), write_file, read_file, and restricted_shell *)
(* behind the limit of active commands (internal/sandbox/limits.go).       *)
(*                                                                         *)
(* A handler runs in a goroutine of its own and only a command heeds the   *)
(* call's context: when the context ends, Execute returns and the handler  *)
(* goes on.  A file's content is a sequence of blocks; the repository's    *)
(* files are shared by all calls.                                          *)
(***************************************************************************)
EXTENDS Naturals, Sequences, FiniteSets, SequencesExt, FiniteSetsExt

CONSTANTS Calls,
          Workloads,   \* what the calls ask for: functions from Calls to tools with inputs
          Files,
          InitialFiles,
          Blocks,      \* what files are made of
          MaxActive,   \* active commands
          Absent       \* a file that does not exist, a block that is empty

(* What a reader sees of a file while os.WriteFile rewrites it in place. *)
Torn == <<"torn">>

Text         == Blocks \cup {Absent}
Content      == {Absent, Torn} \cup Seq(Text)
PatchSection == [op : {"update", "add", "delete", "bad"}, file : Files, old : Text, new : Text]
Job ==      [tool : {"apply_patch"}, sections : Seq(PatchSection)]
       \cup [tool : {"write_file"}, file : Files, new : Text]
       \cup [tool : {"read_file"}, file : Files]
       \cup [tool : {"restricted_shell"}]

ASSUME ToolAssumption ==
    /\ MaxActive \in Nat
    /\ Workloads \subseteq [Calls -> Job]
    /\ InitialFiles \in [Files -> {Absent} \cup Seq(Blocks)]
    /\ "torn" \notin Text /\ Absent # Torn

VARIABLES
    job,       \* per call: the tool and its input
    exec,      \* per call: Execute's progress and what it told its caller
    work,      \* per call: the handler's goroutine
    ended,     \* calls whose context is done: timed out or given up by the client
    files,
    active,    \* MemoryBoundedExecutor.active
    events,    \* events appended by the recorder and the mutation recorder
    mutations  \* rows of file_mutations and tool_invocations, by call

vars == <<job, exec, work, ended, files, active, events, mutations>>

Working == [pc : {"none", "working", "read", "running", "written", "done"}, at : Nat,
            noted : Nat, seen : Content, error : BOOLEAN]
Event   == [call : Calls, type : {"tool_invoked", "file_mutation", "tool_result"}, section : Nat]

TypeOK ==
    /\ job \in Workloads /\ ended \subseteq Calls
    /\ exec \in [Calls -> [pc : {"idle", "running", "recording", "done"},
                           told : {"nothing", "ok", "error", "timeout"}]]
    /\ work \in [Calls -> Working]
    /\ \A c \in Calls : job[c].tool = "apply_patch" => work[c].at \in 1..Len(job[c].sections) + 1
                                                    /\ work[c].noted \in 0..Len(job[c].sections)
    /\ files \in [Files -> Content] /\ active \in 0..MaxActive
    /\ events \in Seq(Event)

Init ==
    /\ job \in Workloads
    /\ exec = [c \in Calls |-> [pc |-> "idle", told |-> "nothing"]]
    /\ work = [c \in Calls |-> [pc |-> "none", at |-> 1, noted |-> 0, seen |-> Absent, error |-> FALSE]]
    /\ ended = {} /\ files = InitialFiles /\ active = 0
    /\ events = <<>> /\ mutations = {}

(***************************************************************************)
(* The audit store.  Any write may fail, one whose context is done always  *)
(* does, and so does a row with an id that is not in the referenced table: *)
(* both records leave ids empty, which is an id that no row has.  Errors   *)
(* are dropped.  An event names the section it is about, or 0.             *)
(***************************************************************************)
Record(c, type, section) == [call |-> c, type |-> type, section |-> section]

(* Fault: events are appended with a context that does not end. *)
AppendDetached(c, type, section) ==
    UNCHANGED events \/ events' = Append(events, Record(c, type, section))

AppendEvent(c, type, section) ==
    \/ UNCHANGED events
    \/ c \notin ended /\ events' = Append(events, Record(c, type, section))

ReferencedIds == [tool_invocation |-> {"session", ""}, file_mutation |-> {""}]
KnownIds      == {"session"}
InsertRow(c, table, section) ==
    \/ UNCHANGED mutations
    \/ /\ c \notin ended /\ ReferencedIds[table] \subseteq KnownIds
       /\ mutations' = mutations \cup {Record(c, table, section)}

(***************************************************************************)
(* Executor.Execute                                                        *)
(***************************************************************************)
Begin(c) ==
    /\ exec[c].pc = "idle"
    /\ exec' = [exec EXCEPT ![c].pc = "running"]
    /\ work' = [work EXCEPT ![c].pc = "working"]
    /\ AppendEvent(c, "tool_invoked", 0)
    /\ UNCHANGED <<job, ended, files, active, mutations>>

(* The handler is done: its error, or an output beyond the limit (only a   *)
(* file or a command gives one), fails the call.  AfterExecute writes a    *)
(* row, then an event.                                                     *)
Returns(c) ==
    /\ exec[c].pc = "running" /\ work[c].pc = "done"
    /\ \E told \in {"ok", "error"} :
          /\ told = "ok" => ~work[c].error
          /\ told = "error" => work[c].error \/ job[c].tool \in {"read_file", "restricted_shell"}
          /\ exec' = [exec EXCEPT ![c] = [pc |-> "recording", told |-> told]]
    /\ InsertRow(c, "tool_invocation", 0)
    /\ UNCHANGED <<job, work, ended, files, active, events>>

(* Fault: the call waits for its handler. *)
TimesOutWithHandler(c) ==
    /\ exec[c].pc = "running" /\ c \in ended /\ work[c].pc = "done"
    /\ exec' = [exec EXCEPT ![c] = [pc |-> "recording", told |-> "timeout"]]
    /\ InsertRow(c, "tool_invocation", 0)
    /\ UNCHANGED <<job, work, ended, files, active, events>>

(* The context is done, whether or not the handler is. *)
TimesOut(c) ==
    /\ exec[c].pc = "running" /\ c \in ended
    /\ exec' = [exec EXCEPT ![c] = [pc |-> "recording", told |-> "timeout"]]
    /\ InsertRow(c, "tool_invocation", 0)
    /\ UNCHANGED <<job, work, ended, files, active, events>>

RecordResult(c) ==
    /\ exec[c].pc = "recording"
    /\ exec' = [exec EXCEPT ![c].pc = "done"]
    /\ AppendEvent(c, "tool_result", 0)
    /\ UNCHANGED <<job, work, ended, files, active, mutations>>

ContextEnds(c) ==
    /\ c \notin ended /\ exec[c].pc # "done"
    /\ ended' = ended \cup {c}
    /\ UNCHANGED <<job, exec, work, files, active, events, mutations>>

(***************************************************************************)
(* apply_patch: Engine.Apply section by section.  update reads the file    *)
(* and replaces it later; every write is a rename of a temporary file.     *)
(***************************************************************************)
Sections(c) == job[c].sections
Section(c)  == Sections(c)[work[c].at]
InPatch(c)  == job[c].tool = "apply_patch" /\ work[c].at <= Len(Sections(c))
At(c, pc)   == work[c].pc = pc

(* Fault: the engine goes on with the next section. *)
FailAndGoOn(c) == work' = [work EXCEPT ![c] = [work[c] EXCEPT !.pc = "working", !.at = work[c].at + 1, !.error = TRUE]]

Fail(c) == work' = [work EXCEPT ![c].pc = "done", ![c].error = TRUE]
Step(c) == work' = [work EXCEPT ![c].pc = "working", ![c].at = @ + 1]

Replaced(content, old, new) ==
    LET i == Min({j \in DOMAIN content : content[j] = old})
    IN  [content EXCEPT ![i] = new]

(* Without a preimage the new block becomes the whole content. *)
Updated(content, section) ==
    CASE section.old # Absent -> Replaced(content, section.old, section.new)
      [] section.old = Absent /\ section.new # Absent -> <<section.new>>
      [] OTHER -> content

UpdateRead(c) ==
    /\ InPatch(c) /\ At(c, "working") /\ Section(c).op = "update"
    /\ LET content == files[Section(c).file]
       IN  IF content = Absent \/ (Section(c).old # Absent /\ ~Contains(content, Section(c).old))
           THEN Fail(c)
           ELSE work' = [work EXCEPT ![c].pc = "read", ![c].seen = content]
    /\ UNCHANGED <<job, exec, ended, files, active, events, mutations>>

(* Fault: the file is truncated, and written in a later step. *)
UpdateWriteInPlace(c) ==
    /\ InPatch(c) /\ At(c, "read")
    /\ IF files[Section(c).file] # Torn
       THEN files' = [files EXCEPT ![Section(c).file] = Torn] /\ UNCHANGED work
       ELSE files' = [files EXCEPT ![Section(c).file] = Updated(work[c].seen, Section(c))] /\ Step(c)
    /\ UNCHANGED <<job, exec, ended, active, events, mutations>>

UpdateWrite(c) ==
    /\ InPatch(c) /\ At(c, "read")
    /\ \/ files' = [files EXCEPT ![Section(c).file] = Updated(work[c].seen, Section(c))] /\ Step(c)
       \/ UNCHANGED files /\ Fail(c)
    /\ UNCHANGED <<job, exec, ended, active, events, mutations>>

(* A file that exists is replaced. *)
AddFile(c) ==
    /\ InPatch(c) /\ At(c, "working") /\ Section(c).op = "add"
    /\ \/ files' = [files EXCEPT ![Section(c).file] = <<Section(c).new>>] /\ Step(c)
       \/ UNCHANGED files /\ Fail(c)
    /\ UNCHANGED <<job, exec, ended, active, events, mutations>>

DeleteFile(c) ==
    /\ InPatch(c) /\ At(c, "working") /\ Section(c).op = "delete"
    /\ IF files[Section(c).file] = Absent THEN Fail(c) /\ UNCHANGED files
       ELSE files' = [files EXCEPT ![Section(c).file] = Absent] /\ Step(c)
    /\ UNCHANGED <<job, exec, ended, active, events, mutations>>

(* A section that is not one, or a path outside the repository. *)
BadSection(c) ==
    /\ InPatch(c) /\ At(c, "working") /\ Section(c).op = "bad"
    /\ Fail(c)
    /\ UNCHANGED <<job, exec, ended, files, active, events, mutations>>

(* All sections applied: the mutation recorder, once per modified file,    *)
(* whatever becomes of what it records.  The events carry no session.      *)
AllApplied(c) == work[c].at > Len(Sections(c))
RecordMutation(c) ==
    /\ job[c].tool = "apply_patch" /\ At(c, "working") /\ AllApplied(c) /\ work[c].noted < Len(Sections(c))
    /\ InsertRow(c, "file_mutation", work[c].noted + 1)
    /\ AppendEvent(c, "file_mutation", work[c].noted + 1)
    /\ work' = [work EXCEPT ![c].noted = @ + 1]
    /\ UNCHANGED <<job, exec, ended, files, active>>

PatchEnds(c) ==
    /\ job[c].tool = "apply_patch" /\ At(c, "working") /\ AllApplied(c) /\ work[c].noted = Len(Sections(c))
    /\ work' = [work EXCEPT ![c].pc = "done"]
    /\ UNCHANGED <<job, exec, ended, files, active, events, mutations>>

(***************************************************************************)
(* write_file truncates and writes in place; read_file                     *)
(***************************************************************************)
WriteFile(c) ==
    /\ job[c].tool = "write_file"
    /\ \/ /\ At(c, "working") /\ files' = [files EXCEPT ![job[c].file] = Torn]
          /\ work' = [work EXCEPT ![c].pc = "written"]
       \/ /\ At(c, "written") /\ files' = [files EXCEPT ![job[c].file] = <<job[c].new>>]
          /\ work' = [work EXCEPT ![c].pc = "done"]
    /\ UNCHANGED <<job, exec, ended, active, events, mutations>>

ReadFile(c) ==
    /\ job[c].tool = "read_file" /\ At(c, "working")
    /\ \/ /\ files[job[c].file] # Absent
          /\ work' = [work EXCEPT ![c].pc = "read", ![c].seen = files[job[c].file]]
       \/ Fail(c)
    /\ UNCHANGED <<job, exec, ended, files, active, events, mutations>>

(* Its size and time are asked for when it has been read. *)
StatFile(c) ==
    /\ job[c].tool = "read_file" /\ At(c, "read")
    /\ \/ files[job[c].file] # Absent /\ work' = [work EXCEPT ![c].pc = "done"]
       \/ Fail(c)
    /\ UNCHANGED <<job, exec, ended, files, active, events, mutations>>

(***************************************************************************)
(* restricted_shell: MemoryBoundedExecutor.Run around the command          *)
(***************************************************************************)
SlotFree == active < MaxActive

CommandStarts(c) ==
    /\ job[c].tool = "restricted_shell" /\ At(c, "working")
    /\ IF SlotFree
       THEN active' = active + 1 /\ work' = [work EXCEPT ![c].pc = "running"]
       ELSE Fail(c) /\ UNCHANGED active
    /\ UNCHANGED <<job, exec, ended, files, events, mutations>>

(* Fault: a command that fails keeps its slot. *)
CommandEndsKeepingSlot(c) ==
    /\ At(c, "running")
    /\ \/ active' = active - 1 /\ work' = [work EXCEPT ![c].pc = "done"]
       \/ UNCHANGED active /\ Fail(c)
    /\ UNCHANGED <<job, exec, ended, files, events, mutations>>

(* The command exits or is killed, and with it all that holds its output;  *)
(* a killed command, or one that could not start, is an error.             *)
CommandEnds(c) ==
    /\ At(c, "running")
    /\ active' = active - 1
    /\ (work' = [work EXCEPT ![c].pc = "done"] \/ Fail(c))
    /\ UNCHANGED <<job, exec, ended, files, events, mutations>>

Patch(c) == UpdateRead(c) \/ UpdateWrite(c) \/ AddFile(c) \/ DeleteFile(c) \/ BadSection(c)
            \/ RecordMutation(c) \/ PatchEnds(c)
Handler(c) == Patch(c) \/ WriteFile(c) \/ ReadFile(c) \/ StatFile(c) \/ CommandStarts(c) \/ CommandEnds(c)
Execute(c) == Begin(c) \/ Returns(c) \/ TimesOut(c) \/ RecordResult(c)

Next == \E c \in Calls : Execute(c) \/ Handler(c) \/ ContextEnds(c)

(* Execute's goroutine runs and its timer fires; no handler is assumed to  *)
(* end.                                                                    *)
Spec == Init /\ [][Next]_vars
FairSpec == Spec /\ \A c \in Calls : WF_vars(Execute(c) /\ exec[c].pc # "idle") /\ WF_vars(ContextEnds(c))

(***************************************************************************)
(* Properties                                                              *)
(***************************************************************************)
Touches(c, f) == CASE job[c].tool = "apply_patch" -> \E i \in DOMAIN Sections(c) : Sections(c)[i].file = f
                   [] job[c].tool = "write_file"  -> job[c].file = f
                   [] OTHER -> FALSE
SoleWriter(c) == \A d \in Calls \ {c}, f \in Files : Touches(c, f) => ~Touches(d, f)

(* The effect of a section, and of a patch's sections one after another. *)
Effect(fs, s) ==
    [fs EXCEPT ![s.file] = CASE s.op = "add" -> <<s.new>>
                             [] s.op = "delete" -> Absent
                             [] OTHER -> Updated(fs[s.file], s)]
Applied(sections) ==
    LET after[n \in 0..Len(sections)] ==
            IF n = 0 THEN InitialFiles ELSE Effect(after[n - 1], sections[n])
    IN  after
AfterSections(c, n) == Applied(Sections(c))[n]

(* A patch that nobody interferes with has applied a prefix of its         *)
(* sections, whatever fails and whenever its caller gives up; a caller     *)
(* told of success has all of them, one told of an error may have some     *)
(* (Engine.Apply, Execute).                                                *)
PatchIsPrefix ==
    \A c \in Calls : job[c].tool = "apply_patch" /\ SoleWriter(c) =>
        /\ \E n \in 0..Len(Sections(c)) : \A f \in Files :
               Touches(c, f) => files[f] = AfterSections(c, n)[f]
        /\ exec[c].told = "ok" => \A f \in Files :
               Touches(c, f) => files[f] = AfterSections(c, Len(Sections(c)))[f]

(* A reader sees a file that only patches change as it was before or after *)
(* a section, never between (writeAtomically).                             *)
ReadsAreWhole ==
    \A c \in Calls : job[c].tool = "read_file" /\ work[c].seen = Torn =>
        \E d \in Calls : job[d].tool = "write_file" /\ job[d].file = job[c].file

(* The counter of active commands is the number of commands that run,      *)
(* those whose callers have been told of a timeout included, and within    *)
(* the limit (MemoryBoundedExecutor.Run).                                  *)
SlotsAreCounted == /\ active = Cardinality({c \in Calls : At(c, "running")})
                   /\ active <= MaxActive

(* Any part of a call's trail may be missing, but what is stored of it is  *)
(* in order: invoked, the sections that were applied as they were, result. *)
(* A stored result is the last that is heard of the call: its handler, that*)
(* may go on when the caller was told of a timeout, is done (BeforeExecute,*)
(* AfterExecute, the mutation recorder).                                   *)
InOrder(e, f) == /\ e.type # "tool_result" /\ f.type # "tool_invoked"
                 /\ e.type = f.type => e.section < f.section
TrailIsOrdered ==
    /\ \A i, j \in DOMAIN events : i < j /\ events[i].call = events[j].call => InOrder(events[i], events[j])
    /\ \A i \in DOMAIN events : events[i].type = "tool_result" => At(events[i].call, "done")

(* Every call returns to its caller, even if its handler never does.       *)
CallsReturn == \A c \in Calls : exec[c].pc = "running" ~> exec[c].pc = "done"

(* A statement of the documents that the code does not keep (see README):  *)
(* file changes are replayable, by events and rows, from a call that was   *)
(* told of success.                                                        *)
ChangesAreRecorded ==
    \A c \in Calls : exec[c].told = "ok" /\ job[c].tool = "apply_patch" =>
        \A k \in DOMAIN Sections(c) : Record(c, "file_mutation", k) \in Range(events) \cap mutations

(***************************************************************************)
(* The inductive invariant                                                 *)
(***************************************************************************)
(* Where a call's handler and Execute can be at the same time: a handler   *)
(* that goes on after its caller has been told is one whose context ended. *)
ProgressOf(c) ==
    /\ exec[c].pc = "idle" => At(c, "none")
    /\ exec[c].pc \in {"recording", "done"} => At(c, "done") \/ c \in ended
    /\ exec[c].told = "ok" => At(c, "done") /\ ~work[c].error
    /\ At(c, "running") => job[c].tool = "restricted_shell"
    /\ At(c, "written") => job[c].tool = "write_file"
    /\ At(c, "read") => job[c].tool \in {"apply_patch", "read_file"}
    /\ At(c, "read") /\ job[c].tool = "apply_patch" =>
          /\ InPatch(c) /\ Section(c).op = "update"
          /\ Section(c).old # Absent => work[c].seen \notin {Absent, Torn}
    /\ At(c, "done") /\ job[c].tool = "apply_patch" /\ ~work[c].error => AllApplied(c)
Progress == \A c \in Calls : ProgressOf(c)

Running == {c \in Calls : At(c, "running")}
Slots   == IsFiniteSet(Running) /\ SlotsAreCounted

Rewrites(d, f) == job[d].tool = "write_file" /\ job[d].file = f
TearsAreWrites ==
    /\ \A f \in Files : files[f] = Torn => \E d \in Calls : Rewrites(d, f)
    /\ \A c \in Calls : InPatch(c) /\ At(c, "read") /\ work[c].seen = Torn =>
          \E d \in Calls : Rewrites(d, Section(c).file)

(* What the trail says of a call's progress. *)
TrailFollows ==
    \A i \in DOMAIN events : LET c == events[i].call IN
        /\ exec[c].pc # "idle"
        /\ events[i].type = "tool_result" => exec[c].pc = "done" /\ At(c, "done")
        /\ events[i].type = "file_mutation" =>
              job[c].tool = "apply_patch" /\ events[i].section <= work[c].noted

(* A patch that nobody interferes with has applied the sections before the *)
(* one it is at, and what it read is still there.                          *)
SoFar(c) == AfterSections(c, work[c].at - 1)
Undisturbed ==
    \A c \in Calls : job[c].tool = "apply_patch" /\ SoleWriter(c) =>
        /\ DOMAIN SoFar(c) = Files
        /\ \A f \in Files : Touches(c, f) => files[f] = SoFar(c)[f]
        /\ At(c, "read") => work[c].seen = files[Section(c).file]

ToolInv ==
    /\ TypeOK /\ Progress /\ Slots /\ TearsAreWrites /\ ReadsAreWhole
    /\ TrailFollows /\ TrailIsOrdered /\ Undisturbed
=============================================================================
