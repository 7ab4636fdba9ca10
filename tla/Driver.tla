------------------------------- MODULE Driver -------------------------------
(***************************************************************************)
(* The command (main.rs, main and compile_executable): any number of       *)
(* compilers at work in one file system, while their sources are edited.   *)
(* A process reads its source once, and what it compiles goes through an   *)
(* object file in the directory for temporary files, named after its       *)
(* process id, to cc.  Processes may be killed, and ids are used again.    *)
(***************************************************************************)
EXTENDS Naturals

CONSTANTS
  Pids,       \* process ids
  Sources,    \* files with source texts
  Executables,\* the other files
  OutputOf,   \* the file of a source: its name without an extension
  Texts,      \* source texts
  Parses,     \* those that can be parsed,
  WellTyped,  \* programs that type check,
  Lowers,     \* can be lowered,
  Verifies,   \* and pass the verifier
  MaxStarts   \* bound: how many processes are started

Files == Sources \cup Executables

(* A program is a text with or without the prelude in front. *)
Programs == [text : Texts, prelude : BOOLEAN]

ASSUME FilesAssumption == OutputOf \in [Sources -> Files]
ASSUME BoundAssumption == MaxStarts \in Nat

(* Where these fail the driver stops, so that they only matter in order. *)
Checked(program) == program.text \in Parses /\ program \in WellTyped /\ program \in Lowers

VARIABLES
  files,    \* the sources and executables
  objects,  \* merlin_{pid}.o in the temporary directory, for every pid
  pc,       \* where a process is in main
  args,     \* its arguments
  program,  \* the program it has read
  linked,   \* what cc has made of its object file
  code,     \* its exit code
  found,    \* its object file was there before it began
  starts    \* how many processes have been started

vars == <<files, objects, pc, args, program, linked, code, found, starts>>

Text(t) == [kind |-> "text", text |-> t]
Executable(prog) == [kind |-> "executable", program |-> prog]
Object(prog) == [kind |-> "object", program |-> prog]
Nothing == [kind |-> "none"]

(* --help, an unknown option, no file, or a file.  --ast and --mlir only   *)
(* print, and --prelude is only looked at with --repl.                     *)
Arguments ==
  [command : {"help", "unknown", "session"}, file : {Nothing}, repl : {FALSE}, prelude : {FALSE}]
  \cup [command : {"file"}, file : Sources, repl : {FALSE}, prelude : {FALSE}]
  \cup [command : {"file"}, file : Sources, repl : {TRUE}, prelude : BOOLEAN]

Ended == {"idle", "exited", "killed"}
Running == {"read", "parse", "typecheck", "lower", "compile", "link", "remove", "report"}

Init ==
  /\ files \in [Files -> {Text(t) : t \in Texts} \cup {Nothing}]
  /\ \A f \in Files \ Sources : files[f] = Nothing
  /\ objects = [p \in Pids |-> Nothing]
  /\ pc = [p \in Pids |-> "idle"]
  /\ args = [p \in Pids |-> [command |-> "help", file |-> Nothing, repl |-> FALSE, prelude |-> FALSE]]
  /\ program = [p \in Pids |-> Nothing]
  /\ linked = [p \in Pids |-> Nothing]
  /\ code = [p \in Pids |-> 0]
  /\ found = [p \in Pids |-> FALSE]
  /\ starts = 0

Goes(p, l) == pc' = [pc EXCEPT ![p] = l] /\ UNCHANGED code
Exits(p, n) == pc' = [pc EXCEPT ![p] = "exited"] /\ code' = [code EXCEPT ![p] = n]

(* A process is started and goes through its arguments. *)
Invoke(p, a) ==
  /\ pc[p] \in Ended
  /\ starts < MaxStarts
  /\ starts' = starts + 1
  /\ args' = [args EXCEPT ![p] = a]
  /\ program' = [program EXCEPT ![p] = Nothing]
  /\ linked' = [linked EXCEPT ![p] = Nothing]
  /\ found' = [found EXCEPT ![p] = objects[p] # Nothing]
  /\ code' = [code EXCEPT ![p] = IF a.command = "unknown" THEN 1 ELSE 0]
  /\ pc' = [pc EXCEPT ![p] = CASE a.command = "file" -> "read"
                               [] a.command = "session" -> "session"
                               [] OTHER -> "exited"]
  /\ UNCHANGED <<files, objects>>

Source(p) == files[args[p].file]

\* A defect: whatever the file holds is a program.
ReadAnything(p) ==
  /\ pc[p] = "read"
  /\ program' = [program EXCEPT ![p] = [text |-> Source(p), prelude |-> TRUE]]
  /\ Goes(p, "parse")
  /\ UNCHANGED <<files, objects, args, linked, found, starts>>

(* An executable is no text (read_to_string). *)
Read(p) ==
  /\ pc[p] = "read"
  /\ \/ /\ Source(p).kind = "text"
        /\ program' = [program EXCEPT ![p] =
             [text |-> Source(p).text, prelude |-> ~ args[p].repl \/ args[p].prelude]]
        /\ Goes(p, "parse")
     \/ /\ Source(p).kind # "text"
        /\ Exits(p, 1)
        /\ UNCHANGED program
  /\ UNCHANGED <<files, objects, args, linked, found, starts>>

(* A phase that ends with an exit code, or leads to the next. *)
Phase(p, l, passes, n, next) ==
  /\ pc[p] = l
  /\ IF passes THEN Goes(p, next) ELSE Exits(p, n)
  /\ UNCHANGED <<files, objects, args, program, linked, found, starts>>

\* A defect: a type error is only a warning.
TypecheckWarns(p) == Phase(p, "typecheck", TRUE, 2, "lower")

Parse(p) == Phase(p, "parse", program[p].text \in Parses, 1, "typecheck")
Typecheck(p) == Phase(p, "typecheck", program[p] \in WellTyped, 2, "lower")
Lower(p) == Phase(p, "lower", program[p] \in Lowers, 3, IF args[p].repl THEN "session" ELSE "compile")

\* A defect: all processes have one object file.
CompileShared(p) ==
  /\ pc[p] = "compile"
  /\ program[p] \in Verifies
  /\ objects' = [q \in Pids |-> Object(program[p])]
  /\ Goes(p, "link")
  /\ UNCHANGED <<files, args, program, linked, found, starts>>

(* codegen::compile: dump_to_object_file does not tell if it fails. *)
Compile(p) ==
  /\ pc[p] = "compile"
  /\ \/ /\ program[p] \in Verifies
        /\ objects' \in {objects, [objects EXCEPT ![p] = Object(program[p])]}
        /\ Goes(p, "link")
     \/ /\ program[p] \notin Verifies
        /\ Exits(p, 3)
        /\ UNCHANGED objects
  /\ UNCHANGED <<files, args, program, linked, found, starts>>

(* What cc does, given an object file: it makes the executable, or fails,  *)
(* and then there may be none.                                             *)
Output(p) == OutputOf[args[p].file]
CcMakes(p) ==
  /\ objects[p] # Nothing
  /\ files' = [files EXCEPT ![Output(p)] = Executable(objects[p].program)]
CcFails(p) == files' \in {files, [files EXCEPT ![Output(p)] = Nothing]}

\* A defect: cc is tried until it succeeds.
LinkRetries(p) ==
  /\ pc[p] = "link"
  /\ \/ /\ CcMakes(p)
        /\ linked' = [linked EXCEPT ![p] = Executable(objects[p].program)]
        /\ Goes(p, "remove")
     \/ CcFails(p) /\ Goes(p, "link") /\ UNCHANGED linked
  /\ UNCHANGED <<objects, args, program, found, starts>>

Link(p) ==
  /\ pc[p] = "link"
  /\ \/ CcMakes(p) /\ linked' = [linked EXCEPT ![p] = Executable(objects[p].program)]
     \/ CcFails(p) /\ UNCHANGED linked
  /\ Goes(p, "remove")
  /\ UNCHANGED <<objects, args, program, found, starts>>

\* A defect: only after a success.
RemoveIfLinked(p) ==
  /\ pc[p] = "remove"
  /\ objects' = IF linked[p] = Nothing THEN objects ELSE [objects EXCEPT ![p] = Nothing]
  /\ Goes(p, "report")
  /\ UNCHANGED <<files, args, program, linked, found, starts>>

(* Whatever cc did, *)
Remove(p) ==
  /\ pc[p] = "remove"
  /\ objects' = [objects EXCEPT ![p] = Nothing]
  /\ Goes(p, "report")
  /\ UNCHANGED <<files, args, program, linked, found, starts>>

\* A defect: the status of cc does not count.
ReportSuccess(p) ==
  /\ pc[p] = "report"
  /\ Exits(p, 0)
  /\ UNCHANGED <<files, objects, args, program, linked, found, starts>>

(* and then its status counts. *)
Report(p) ==
  /\ pc[p] = "report"
  /\ Exits(p, IF linked[p] = Nothing THEN 3 ELSE 0)
  /\ UNCHANGED <<files, objects, args, program, linked, found, starts>>

Step(p) ==
  Read(p) \/ Parse(p) \/ Typecheck(p) \/ Lower(p) \/ Compile(p) \/ Link(p) \/ Remove(p) \/ Report(p)

(* The session (Repl) is left. *)
Leave(p) ==
  /\ pc[p] = "session"
  /\ Exits(p, 0)
  /\ UNCHANGED <<files, objects, args, program, linked, found, starts>>

(* A process that is killed leaves its object file; cc goes on without it. *)
Kill(p) ==
  /\ pc[p] \in Running \cup {"session"}
  /\ pc' = [pc EXCEPT ![p] = "killed"]
  /\ files' = files \/ (pc[p] = "link" /\ (CcMakes(p) \/ CcFails(p)))
  /\ UNCHANGED <<objects, args, program, linked, code, found, starts>>

Edit(f, t) ==
  /\ files' = [files EXCEPT ![f] = Text(t)]
  /\ UNCHANGED <<objects, pc, args, program, linked, code, found, starts>>

Next ==
  \/ \E p \in Pids : Step(p) \/ Leave(p) \/ Kill(p)
  \/ \E p \in Pids, a \in Arguments : Invoke(p, a)
  \/ \E f \in Sources, t \in Texts : Edit(f, t)

(* A process runs on, and cc returns. *)
Spec == Init /\ [][Next]_vars /\ \A p \in Pids : WF_vars(Step(p))

-----------------------------------------------------------------------------
(* The state has the shape its description gives. *)
TypeOK ==
  /\ files \in [Files -> {Text(t) : t \in Texts} \cup {Executable(prog) : prog \in Programs}
                         \cup {Nothing}]
  /\ objects \in [Pids -> {Object(prog) : prog \in Programs} \cup {Nothing}]
  /\ pc \in [Pids -> Ended \cup Running \cup {"session"}]
  /\ args \in [Pids -> Arguments]
  /\ program \in [Pids -> Programs \cup {Nothing}]
  /\ linked \in [Pids -> {Executable(prog) : prog \in Programs} \cup {Nothing}]
  /\ code \in [Pids -> 0 .. 3]
  /\ found \in [Pids -> BOOLEAN]
  /\ starts \in Nat

(* main.rs:85, 119: a process that reports success has linked the program  *)
(* that it has read, whatever others do at the same time, unless an object *)
(* file of its name was left by a process that was killed.                 *)
OwnProgram ==
  \A p \in Pids :
     pc[p] = "exited" /\ code[p] = 0 /\ args[p].command = "file" /\ ~ args[p].repl /\ ~ found[p]
     => program[p] # Nothing /\ linked[p] = Executable(program[p])

(* main.rs:117: an object file is there only while its process is between  *)
(* compiling and removing it, or if a process was killed.                  *)
NoObjectLeft ==
  \A p \in Pids :
     objects[p] # Nothing => pc[p] \in {"link", "remove", "killed"} \/ found[p]

(* The exit code is that of the first phase that fails, and no program is  *)
(* reported as compiled that was not linked.                               *)
Verdict ==
  \A p \in Pids :
     pc[p] = "exited" /\ args[p].command = "file"
     => CASE code[p] = 0 -> /\ program[p] # Nothing /\ Checked(program[p])
                            /\ args[p].repl \/ linked[p] # Nothing
          [] code[p] = 1 -> program[p] = Nothing \/ program[p].text \notin Parses
          [] code[p] = 2 -> program[p].text \in Parses /\ program[p] \notin WellTyped
          [] code[p] = 3 -> /\ program[p].text \in Parses /\ program[p] \in WellTyped
                            /\ linked[p] = Nothing

(* Only programs that passed every phase get any further: into object      *)
(* files and executables, or into a session, which relies on it (Repl,     *)
(* FileAssumption).                                                        *)
OnlyChecked ==
  /\ \A f \in Files : files[f].kind = "executable"
                      => Checked(files[f].program) /\ files[f].program \in Verifies
  /\ \A p \in Pids : objects[p] # Nothing
                     => Checked(objects[p].program) /\ objects[p].program \in Verifies
  /\ \A p \in Pids : pc[p] = "session" /\ program[p] # Nothing => Checked(program[p])

(* Every process comes to an end, or to the prompt of its session. *)
EveryRunEnds == \A p \in Pids : pc[p] \in Running ~> pc[p] \notin Running

(* A source changes only when it is edited. *)
SourcesIntact ==
  [][\A f \in Sources : files'[f] # files[f] => \E t \in Texts : Edit(f, t)]_vars

=============================================================================
