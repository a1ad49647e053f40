--------------------------- MODULE MCToolExecution ---------------------------
(* ToolExecution for TLC: two calls at a time, which share files, fail in  *)
(* their first or a later section, read what the other writes, or compete  *)
(* for the one slot of a command.                                          *)
EXTENDS ToolExecution

CONSTANTS c1, c2, f1, f2

S(op, file, old, new) == [op |-> op, file |-> file, old |-> old, new |-> new]
Patched(sections) == [tool |-> "apply_patch", sections |-> sections]

ChangeAndAdd   == Patched(<<S("update", f1, "a", "x"), S("add", f2, Absent, "c")>>)
FailsSecond    == Patched(<<S("update", f1, "b", "y"), S("update", f2, "c", "z")>>)
AddThenRewrite == Patched(<<S("add", f2, Absent, "c"), S("update", f2, Absent, "d"), S("delete", f1, Absent, Absent)>>)
DeletesAbsent  == Patched(<<S("update", f1, "b", "b"), S("delete", f2, Absent, Absent)>>)
Unsupported    == Patched(<<S("bad", f1, Absent, Absent)>>)
Write          == [tool |-> "write_file", file |-> f1, new |-> "w"]
Read           == [tool |-> "read_file", file |-> f1]
Command        == [tool |-> "restricted_shell"]

MCBlocks       == {"a", "b", "c", "d", "w", "x", "y", "z"}
MCInitialFiles == f1 :> <<"a", "b">> @@ f2 :> Absent
MCWorkloads == {c1 :> pair[1] @@ c2 :> pair[2] : pair \in
    {<<ChangeAndAdd, FailsSecond>>, <<ChangeAndAdd, Read>>, <<AddThenRewrite, Read>>,
     <<FailsSecond, Command>>, <<DeletesAbsent, Unsupported>>, <<DeletesAbsent, Write>>,
     <<Write, Read>>, <<AddThenRewrite, Command>>, <<Command, Command>>}}
==============================================================================
