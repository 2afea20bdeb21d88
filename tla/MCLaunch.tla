------------------------------- MODULE MCLaunch -------------------------------
(* A launch and one more, from a volatile place, of one program.            *)
EXTENDS Launch

CONSTANTS first, second,   \* processes
          good, evil, vast \* contents, the last malicious and too large

Plain == [where |-> "volatile", redirected |-> FALSE, program |-> "other",
          inline |-> FALSE, tty |-> FALSE, spoofed |-> FALSE, orphan |-> FALSE]

Usual == [Plain EXCEPT !.where = "usual", !.tty = TRUE]

(* Each question by itself, and pairs that override one another.           *)
FirstFacts ==
    {Plain, [Plain EXCEPT !.where = "memory"], [Plain EXCEPT !.redirected = TRUE],
     [Usual EXCEPT !.spoofed = TRUE],
     [Usual EXCEPT !.program = "shell", !.orphan = TRUE],
     [Usual EXCEPT !.program = "shell", !.inline = TRUE],
     [Usual EXCEPT !.program = "interpreter", !.tty = FALSE],
     [Plain EXCEPT !.program = "interpreter", !.inline = TRUE]}

MCFactsOf == [p \in Pid |-> IF p = first THEN FirstFacts ELSE {Plain}]
MCExcludedBy == [v \in 0..1 |-> IF v = 0 THEN {} ELSE {"volatile"}]
MCVendorTrusted == [v \in 0..1 |-> v = 1]

MCLower(t) == IF t = "Shell" THEN "shell" ELSE t

(* A field may be missing: the parent may have ended.                      *)
MCFieldsOf(f) ==
    [x \in {"Image", "CommandLine"} \cup (IF f.orphan THEN {} ELSE {"ParentImage"}) |->
        CASE x = "Image" -> f.program
          [] x = "CommandLine" -> IF f.inline THEN "inline" ELSE "script"
          [] x = "ParentImage" -> "editor"]

IsShell == FieldMatch("Image", "Shell")
FromEditor == FieldMatch("ParentImage", "editor")
IsInline == FieldMatch("CommandLine", "inline")
EditorOrInline == Or(<<FromEditor, IsInline>>)
ShellEditorOrInline == And(<<IsShell, EditorOrInline>>)
Always == And(<<>>)
Never == Or(<<>>)
AnyShell == And(<<Always, IsShell>>)
NeverOrAnyShell == Or(<<Never, AnyShell>>)

MCCondition == {IsShell, FromEditor, IsInline, EditorOrInline, ShellEditorOrInline,
                Always, Never, AnyShell, NeverOrAnyShell}
MCDepth ==
    [n \in MCCondition |-> CASE n \in {ShellEditorOrInline, NeverOrAnyShell} -> 2
                            [] n \in {EditorOrInline, AnyShell} -> 1
                            [] OTHER -> 0]
MCEvent ==
    [Image : {"other", "interpreter", "shell"}, CommandLine : {"inline", "script"}]
    \cup [Image : {"other", "interpreter", "shell"}, CommandLine : {"inline", "script"},
          ParentImage : {"editor"}]

(* A rule of another category, and two that overlap.                       *)
MCRules == <<[category |-> "file_event", condition |-> IsInline],
             [category |-> "process_creation", condition |-> ShellEditorOrInline],
             [category |-> "process_creation", condition |-> NeverOrAnyShell]>>
=============================================================================
