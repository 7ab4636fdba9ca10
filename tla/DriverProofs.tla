---------------------------- MODULE DriverProofs ----------------------------
(***************************************************************************)
(* Proofs about the command, for any number of processes and files, any    *)
(* programs and any outcomes of the phases.  A step changes what one       *)
(* process knows: the invariant says of each process how what it knows     *)
(* fits where it is, and of the files that they hold checked programs.     *)
(***************************************************************************)
EXTENDS Driver, TLAPS

Built == {Executable(prog) : prog \in Programs} \cup {Nothing}
Objects == {Object(prog) : prog \in Programs} \cup {Nothing}
Contents == {Text(t) : t \in Texts} \cup Built

(* How far a program has come when its process is at l. *)
Passed(l, a, prog) ==
  /\ l \in Running => a.command = "file"
  /\ l = "read" => prog = Nothing
  /\ l \in Running \ {"read"} => prog \in Programs
  /\ l \in Running \ {"read", "parse"} => prog.text \in Parses
  /\ l \in Running \ {"read", "parse", "typecheck"} => prog \in WellTyped
  /\ l \in Running \ {"read", "parse", "typecheck", "lower"} => prog \in Lowers /\ ~ a.repl
  /\ l \in {"link", "remove", "report"} => prog \in Verifies
  /\ l = "session" /\ a.command # "file" => prog = Nothing
  /\ l = "session" /\ a.command = "file" => prog \in Programs /\ Checked(prog) /\ a.repl

(* What a process that began without an object file has made is its own.   *)
Own(l, prog, link, obj, before) ==
  /\ l \in Running \ {"remove", "report"} => link = Nothing
  /\ l = "session" => link = Nothing
  /\ obj # Nothing /\ ~ before => l \in {"link", "remove", "killed"} /\ obj = Object(prog)
  /\ link # Nothing /\ ~ before => link = Executable(prog)

(* What the exit code says. *)
Judged(l, a, prog, link, n) ==
  l = "exited" /\ a.command = "file"
  => /\ n = 0 => prog # Nothing /\ Checked(prog) /\ (a.repl \/ link # Nothing)
     /\ n = 1 => prog = Nothing \/ prog.text \notin Parses
     /\ n = 2 => prog.text \in Parses /\ prog \notin WellTyped
     /\ n = 3 => prog.text \in Parses /\ prog \in WellTyped /\ link = Nothing

Fits(p) ==
  /\ Passed(pc[p], args[p], program[p])
  /\ Own(pc[p], program[p], linked[p], objects[p], found[p])
  /\ Judged(pc[p], args[p], program[p], linked[p], code[p])

Good(prog) == Checked(prog) /\ prog \in Verifies
GoodFiles == \A f \in Files : files[f].kind = "executable" => Good(files[f].program)
GoodObjects == \A p \in Pids : objects[p] # Nothing => Good(objects[p].program)

IInv == TypeOK /\ GoodFiles /\ GoodObjects /\ \A p \in Pids : Fits(p)

-----------------------------------------------------------------------------
(* Texts, executables, objects and nothing are told apart by their kind.   *)
LEMMA Kinds ==
  /\ \A prog : Executable(prog).kind = "executable" /\ Executable(prog).program = prog
  /\ \A prog : Object(prog).kind = "object" /\ Object(prog).program = prog
  /\ \A t : Text(t).kind = "text" /\ Text(t).text = t
  /\ Nothing.kind = "none"
  /\ \A prog : Executable(prog) # Nothing /\ Object(prog) # Nothing
  BY DEF Executable, Object, Text, Nothing

(* The object files and executables of a state have programs, and a file   *)
(* that is a text has one of the texts.                                    *)
LEMMA Holds ==
  /\ \A x \in Objects : x # Nothing => x.program \in Programs /\ x = Object(x.program)
  /\ \A x \in Contents : x.kind = "text" => x.text \in Texts
  BY Kinds DEF Objects, Contents, Built

(* Programs are records, and so none is nothing. *)
LEMMA NoProgram == \A prog \in Programs : prog # Nothing
<1>1. SUFFICES ASSUME NEW prog \in Programs, prog = Nothing PROVE FALSE
  OBVIOUS
<1>2. "text" \in DOMAIN prog
  BY DEF Programs
<1>3. "text" \notin DOMAIN Nothing
  BY DEF Nothing
<1> QED BY <1>1, <1>2, <1>3

(* What cc leaves behind is checked, if it was before. *)
LEMMA CcLeaves ==
  ASSUME IInv, NEW p \in Pids, args[p].command = "file", CcMakes(p) \/ CcFails(p) \/ files' = files
  PROVE  files' \in [Files -> Contents] /\ GoodFiles'
<1>1. args[p].file \in Sources
  BY DEF IInv, TypeOK, Arguments
<1>2. Output(p) \in Files
  BY <1>1, FilesAssumption DEF Output
<1>3. files \in [Files -> Contents] /\ objects[p] \in Objects
  BY DEF IInv, TypeOK, Contents, Built, Objects
<1>4. CASE CcMakes(p)
  <2>1. objects[p].program \in Programs /\ Good(objects[p].program)
    BY <1>3, <1>4, Holds DEF CcMakes, IInv, GoodObjects
  <2>2. Executable(objects[p].program) \in Contents
    BY <2>1 DEF Contents, Built
  <2>3. files' = [files EXCEPT ![Output(p)] = Executable(objects[p].program)]
    BY <1>4 DEF CcMakes
  <2> QED BY <1>2, <1>3, <2>1, <2>2, <2>3, Kinds DEF IInv, GoodFiles
<1>5. CASE CcFails(p)
  <2>1. Nothing \in Contents
    BY DEF Contents, Built
  <2>2. files' = files \/ files' = [files EXCEPT ![Output(p)] = Nothing]
    BY <1>5 DEF CcFails
  <2> QED BY <1>2, <1>3, <2>1, <2>2, Kinds DEF IInv, GoodFiles
<1>6. CASE files' = files
  BY <1>3, <1>6 DEF IInv, GoodFiles
<1> QED BY <1>4, <1>5, <1>6

(* A step of p, in which it learns nothing that does not fit, and no other *)
(* process learns anything.                                                *)
LEMMA Frame ==
  ASSUME IInv, NEW p \in Pids,
         files' \in [Files -> Contents] /\ GoodFiles',
         objects' \in [Pids -> Objects], pc' \in [Pids -> Ended \cup Running \cup {"session"}],
         args' \in [Pids -> Arguments], program' \in [Pids -> Programs \cup {Nothing}],
         linked' \in [Pids -> Built], code' \in [Pids -> 0 .. 3], found' \in [Pids -> BOOLEAN],
         starts' \in Nat,
         \A q \in Pids \ {p} : /\ pc'[q] = pc[q] /\ args'[q] = args[q] /\ program'[q] = program[q]
                               /\ linked'[q] = linked[q] /\ objects'[q] = objects[q]
                               /\ found'[q] = found[q] /\ code'[q] = code[q],
         objects'[p] # Nothing => Good(objects'[p].program),
         Fits(p)'
  PROVE  IInv'
<1>1. TypeOK'
  BY DEF TypeOK, Contents, Built, Objects
<1>2. GoodObjects'
  BY DEF GoodObjects, IInv
<1>3. \A q \in Pids \ {p} : Fits(q)'
  BY DEF Fits, IInv
<1> QED BY <1>1, <1>2, <1>3 DEF IInv

(* What a state that is part of the invariant gives a step of p. *)
LEMMA Values ==
  ASSUME IInv, NEW p \in Pids
  PROVE  /\ files \in [Files -> Contents] /\ objects \in [Pids -> Objects]
         /\ pc \in [Pids -> Ended \cup Running \cup {"session"}]
         /\ args \in [Pids -> Arguments] /\ program \in [Pids -> Programs \cup {Nothing}]
         /\ linked \in [Pids -> Built] /\ code \in [Pids -> 0 .. 3]
         /\ found \in [Pids -> BOOLEAN] /\ starts \in Nat
         /\ GoodFiles
         /\ objects[p] # Nothing => Good(objects[p].program)
         /\ Passed(pc[p], args[p], program[p])
         /\ Own(pc[p], program[p], linked[p], objects[p], found[p])
         /\ Judged(pc[p], args[p], program[p], linked[p], code[p])
  BY DEF IInv, TypeOK, Contents, Built, Objects, GoodObjects, Fits

-----------------------------------------------------------------------------
(* The invariant holds in the beginning.                                   *)
LEMMA InitIInv == Init => IInv
<1>1. SUFFICES ASSUME Init PROVE IInv
  OBVIOUS
<1>2. files \in [Files -> {Text(t) : t \in Texts} \cup {Nothing}]
  BY <1>1 DEF Init
<1>3. TypeOK
  BY <1>1, <1>2 DEF Init, TypeOK, Ended, Arguments
<1>4. GoodFiles
  BY <1>2, Kinds DEF GoodFiles
<1>5. GoodObjects
  BY <1>1 DEF Init, GoodObjects
<1>6. \A p \in Pids : Fits(p)
  BY <1>1 DEF Init, Fits, Passed, Own, Judged, Running
<1> QED BY <1>3, <1>4, <1>5, <1>6 DEF IInv

(* A process starts, perhaps under the id of a killed one.                 *)
LEMMA InvokeStep ==
  ASSUME IInv, NEW p \in Pids, NEW a \in Arguments, Invoke(p, a)
  PROVE  IInv'
<1>1. /\ files' = files /\ objects' = objects /\ starts' = starts + 1
      /\ args' = [args EXCEPT ![p] = a] /\ program' = [program EXCEPT ![p] = Nothing]
      /\ linked' = [linked EXCEPT ![p] = Nothing]
      /\ found' = [found EXCEPT ![p] = objects[p] # Nothing]
      /\ code' = [code EXCEPT ![p] = IF a.command = "unknown" THEN 1 ELSE 0]
      /\ pc' = [pc EXCEPT ![p] = CASE a.command = "file" -> "read"
                                   [] a.command = "session" -> "session"
                                   [] OTHER -> "exited"]
  BY DEF Invoke
<1>2. /\ args'[p] = a /\ program'[p] = Nothing /\ linked'[p] = Nothing /\ objects'[p] = objects[p]
      /\ found'[p] = (objects[p] # Nothing)
  BY <1>1, Values
<1>3. /\ a.command = "file" => pc'[p] = "read"
      /\ a.command = "session" => pc'[p] = "session"
      /\ a.command \notin {"file", "session"} => pc'[p] = "exited"
  BY <1>1, Values
<1>4. a.command \in {"file", "session", "help", "unknown"}
  BY DEF Arguments
<1>5. Fits(p)'
  <2>1. Passed(pc'[p], a, Nothing)
    BY <1>3, <1>4 DEF Passed, Running
  <2>2. Own(pc'[p], Nothing, Nothing, objects[p], objects[p] # Nothing)
    BY DEF Own
  <2>3. Judged(pc'[p], a, Nothing, Nothing, code'[p])
    BY <1>3, <1>4 DEF Judged
  <2> QED BY <1>2, <2>1, <2>2, <2>3 DEF Fits
<1>6. GoodFiles'
  BY <1>1, Values DEF GoodFiles
<1>7. Nothing \in Built /\ Nothing \in Programs \cup {Nothing}
  BY DEF Built
<1>8. pc' \in [Pids -> Ended \cup Running \cup {"session"}]
  BY <1>1, Values DEF Ended, Running
<1>9. code' \in [Pids -> 0 .. 3]
  BY <1>1, Values
<1> QED BY <1>1, <1>5, <1>6, <1>7, <1>8, <1>9, Values, Frame

(* A process that only goes on, *)
LEMMA Onward ==
  ASSUME IInv, NEW p \in Pids, NEW next \in Running \cup {"session"}, Goes(p, next),
         UNCHANGED <<files, objects, args, program, linked, found, starts>>,
         Passed(next, args[p], program[p]),
         Own(next, program[p], linked[p], objects[p], found[p])
  PROVE  IInv'
<1>1. pc' = [pc EXCEPT ![p] = next] /\ code' = code /\ pc'[p] = next
  BY Values DEF Goes
<1>2. GoodFiles'
  BY Values DEF GoodFiles
<1>3. Judged(next, args[p], program[p], linked[p], code[p])
  BY DEF Judged, Running
<1>4. Fits(p)'
  BY <1>1, <1>3 DEF Fits
<1> QED BY <1>1, <1>2, <1>4, Values, Frame

(* or comes to its end. *)
LEMMA Stop ==
  ASSUME IInv, NEW p \in Pids, NEW n \in 0 .. 3, Exits(p, n),
         UNCHANGED <<files, objects, args, program, linked, found, starts>>,
         Own("exited", program[p], linked[p], objects[p], found[p]),
         Judged("exited", args[p], program[p], linked[p], n)
  PROVE  IInv'
<1>1. /\ pc' = [pc EXCEPT ![p] = "exited"] /\ code' = [code EXCEPT ![p] = n]
      /\ pc'[p] = "exited" /\ code'[p] = n
  BY Values DEF Exits
<1>2. GoodFiles'
  BY Values DEF GoodFiles
<1>3. Passed("exited", args[p], program[p])
  BY DEF Passed, Running
<1>4. Fits(p)'
  BY <1>1, <1>3 DEF Fits
<1> QED BY <1>1, <1>2, <1>4, Values, Frame DEF Ended

(* It reads its source.                                                    *)
LEMMA ReadStep ==
  ASSUME IInv, NEW p \in Pids, Read(p)
  PROVE  IInv'
<1>1. /\ pc[p] = "read" /\ files' = files /\ objects' = objects /\ args' = args
      /\ linked' = linked /\ found' = found /\ starts' = starts
  BY DEF Read
<1>2. args[p].file \in Sources /\ args[p].command = "file" /\ args[p].repl \in BOOLEAN
      /\ args[p].prelude \in BOOLEAN
  BY <1>1, Values DEF Passed, Running, Arguments
<1>3. GoodFiles'
  BY <1>1, Values DEF GoodFiles
<1>4. CASE Source(p).kind = "text" /\ Goes(p, "parse")
           /\ program' = [program EXCEPT ![p] =
                [text |-> Source(p).text, prelude |-> ~ args[p].repl \/ args[p].prelude]]
  <2> DEFINE prog == [text |-> Source(p).text, prelude |-> ~ args[p].repl \/ args[p].prelude]
  <2>1. prog \in Programs
    BY <1>2, <1>4, Values, Holds DEF Source, Files, Programs
  <2>2. pc' = [pc EXCEPT ![p] = "parse"] /\ code' = code /\ pc'[p] = "parse" /\ program'[p] = prog
    BY <1>4, Values DEF Goes
  <2>3. Fits(p)'
    <3> HIDE DEF prog
    <3>1. Passed("parse", args[p], prog)
      BY <1>2, <2>1 DEF Passed, Running
    <3>2. Own("parse", prog, linked[p], objects[p], found[p])
      BY <1>1, Values DEF Own, Running
    <3>3. Judged("parse", args[p], prog, linked[p], code[p])
      BY DEF Judged
    <3> QED BY <1>1, <2>2, <3>1, <3>2, <3>3 DEF Fits
  <2> QED BY <1>1, <1>3, <1>4, <2>1, <2>2, <2>3, Values, Frame DEF Running
<1>5. CASE Exits(p, 1) /\ program' = program
  <2>1. Own("exited", program[p], linked[p], objects[p], found[p])
    BY <1>1, Values DEF Own, Running
  <2>2. Judged("exited", args[p], program[p], linked[p], 1)
    BY <1>1, Values DEF Passed, Judged
  <2> QED BY <1>1, <1>5, <2>1, <2>2, Stop
<1> QED BY <1>4, <1>5 DEF Read

(* It parses what it has read.                                             *)
LEMMA ParseStep ==
  ASSUME IInv, NEW p \in Pids, Parse(p)
  PROVE  IInv'
<1>1. /\ pc[p] = "parse" /\ UNCHANGED <<files, objects, args, program, linked, found, starts>>
      /\ IF program[p].text \in Parses THEN Goes(p, "typecheck") ELSE Exits(p, 1)
  BY DEF Parse, Phase
<1>2. /\ Own("typecheck", program[p], linked[p], objects[p], found[p])
      /\ Own("exited", program[p], linked[p], objects[p], found[p])
  BY <1>1, Values DEF Own, Running
<1>3. CASE program[p].text \in Parses
  <2>1. Passed("typecheck", args[p], program[p])
    BY <1>1, <1>3, Values DEF Passed, Running, Checked
  <2> QED BY <1>1, <1>2, <1>3, <2>1, Onward DEF Running
<1>4. CASE program[p].text \notin Parses
  <2>1. Judged("exited", args[p], program[p], linked[p], 1)
    BY <1>1, <1>4, Values DEF Passed, Own, Judged, Running
  <2> QED BY <1>1, <1>2, <1>4, <2>1, Stop
<1> QED BY <1>3, <1>4

(* It checks the types.                                                    *)
LEMMA TypecheckStep ==
  ASSUME IInv, NEW p \in Pids, Typecheck(p)
  PROVE  IInv'
<1>1. /\ pc[p] = "typecheck" /\ UNCHANGED <<files, objects, args, program, linked, found, starts>>
      /\ IF program[p] \in WellTyped THEN Goes(p, "lower") ELSE Exits(p, 2)
  BY DEF Typecheck, Phase
<1>2. /\ Own("lower", program[p], linked[p], objects[p], found[p])
      /\ Own("exited", program[p], linked[p], objects[p], found[p])
  BY <1>1, Values DEF Own, Running
<1>3. CASE program[p] \in WellTyped
  <2>1. Passed("lower", args[p], program[p])
    BY <1>1, <1>3, Values DEF Passed, Running, Checked
  <2> QED BY <1>1, <1>2, <1>3, <2>1, Onward DEF Running
<1>4. CASE program[p] \notin WellTyped
  <2>1. Judged("exited", args[p], program[p], linked[p], 2)
    BY <1>1, <1>4, Values DEF Passed, Own, Judged, Running
  <2> QED BY <1>1, <1>2, <1>4, <2>1, Stop
<1> QED BY <1>3, <1>4

(* It lowers the program.                                                  *)
LEMMA LowerStep ==
  ASSUME IInv, NEW p \in Pids, Lower(p)
  PROVE  IInv'
<1> DEFINE next == IF args[p].repl THEN "session" ELSE "compile"
<1>1. /\ pc[p] = "lower" /\ UNCHANGED <<files, objects, args, program, linked, found, starts>>
      /\ IF program[p] \in Lowers THEN Goes(p, next) ELSE Exits(p, 3)
  BY DEF Lower, Phase
<1>2. /\ Own(next, program[p], linked[p], objects[p], found[p])
      /\ Own("exited", program[p], linked[p], objects[p], found[p])
  BY <1>1, Values DEF Own, Running
<1>3. next \in Running \cup {"session"}
  BY DEF Running
<1> HIDE DEF next
<1>4. CASE program[p] \in Lowers
  <2>1. Passed(next, args[p], program[p])
    BY <1>1, <1>4, Values DEF Passed, Running, Checked, next
  <2> QED BY <1>1, <1>2, <1>4, <2>1, <1>3, Onward DEF Running
<1>5. CASE program[p] \notin Lowers
  <2>1. Judged("exited", args[p], program[p], linked[p], 3)
    BY <1>1, <1>5, Values DEF Passed, Own, Judged, Running
  <2> QED BY <1>1, <1>2, <1>5, <2>1, Stop
<1> QED BY <1>4, <1>5

(* It writes the object file that carries its id.                          *)
LEMMA CompileStep ==
  ASSUME IInv, NEW p \in Pids, Compile(p)
  PROVE  IInv'
<1>1. /\ pc[p] = "compile" /\ files' = files /\ args' = args /\ program' = program
      /\ linked' = linked /\ found' = found /\ starts' = starts
  BY DEF Compile
<1>2. GoodFiles'
  BY <1>1, Values DEF GoodFiles
<1>3. /\ program[p] \in Programs /\ Checked(program[p]) /\ args[p].command = "file"
      /\ ~ args[p].repl /\ linked[p] = Nothing
      /\ objects[p] # Nothing => found[p]
  BY <1>1, Values DEF Passed, Own, Running, Checked
<1>4. CASE /\ program[p] \in Verifies /\ Goes(p, "link")
           /\ objects' \in {objects, [objects EXCEPT ![p] = Object(program[p])]}
  <2>1. pc' = [pc EXCEPT ![p] = "link"] /\ code' = code /\ pc'[p] = "link"
    BY <1>4, Values DEF Goes
  <2>2. objects'[p] = objects[p] \/ objects'[p] = Object(program[p])
    BY <1>4, Values
  <2>3. objects' \in [Pids -> Objects] /\ \A q \in Pids \ {p} : objects'[q] = objects[q]
    BY <1>3, <1>4, Values DEF Objects
  <2>4. objects'[p] # Nothing => Good(objects'[p].program)
    BY <1>3, <1>4, <2>2, Values, Kinds DEF Good
  <2>5. Fits(p)'
    <3>1. Passed("link", args[p], program[p])
      BY <1>3, <1>4 DEF Passed, Running, Checked
    <3>2. Own("link", program[p], linked[p], objects'[p], found[p])
      BY <1>3, <2>2 DEF Own, Running
    <3>3. Judged("link", args[p], program[p], linked[p], code[p])
      BY DEF Judged
    <3> QED BY <1>1, <2>1, <3>1, <3>2, <3>3 DEF Fits
  <2> QED BY <1>1, <1>2, <2>1, <2>3, <2>4, <2>5, Values, Frame DEF Running
<1>5. CASE Exits(p, 3) /\ objects' = objects
  <2>1. Judged("exited", args[p], program[p], linked[p], 3)
    BY <1>3 DEF Judged, Checked
  <2>2. Own("exited", program[p], linked[p], objects[p], found[p])
    BY <1>3 DEF Own, Running
  <2> QED BY <1>1, <1>5, <2>1, <2>2, Stop
<1> QED BY <1>4, <1>5 DEF Compile

(* It has cc link that file.                                               *)
LEMMA LinkStep ==
  ASSUME IInv, NEW p \in Pids, Link(p)
  PROVE  IInv'
<1>1. /\ pc[p] = "link" /\ objects' = objects /\ args' = args /\ program' = program
      /\ found' = found /\ starts' = starts /\ Goes(p, "remove")
  BY DEF Link
<1>2. /\ program[p] \in Programs /\ Checked(program[p]) /\ args[p].command = "file"
      /\ program[p] \in Verifies /\ ~ args[p].repl /\ linked[p] = Nothing
      /\ objects[p] # Nothing /\ ~ found[p] => objects[p] = Object(program[p])
  BY <1>1, Values DEF Passed, Own, Running, Checked
<1>3. pc' = [pc EXCEPT ![p] = "remove"] /\ code' = code /\ pc'[p] = "remove"
  BY <1>1, Values DEF Goes
<1>4. files' \in [Files -> Contents] /\ GoodFiles'
  BY <1>2, CcLeaves DEF Link
<1>5. Passed("remove", args[p], program[p])
  BY <1>2 DEF Passed, Running, Checked
<1>6. Judged("remove", args[p], program[p], linked'[p], code[p])
  BY DEF Judged
<1>7. CASE CcMakes(p) /\ linked' = [linked EXCEPT ![p] = Executable(objects[p].program)]
  <2>1. objects[p] # Nothing /\ objects[p].program \in Programs
    BY <1>7, Values, Holds DEF CcMakes
  <2>2. linked' \in [Pids -> Built] /\ linked'[p] = Executable(objects[p].program)
    BY <1>7, <2>1, Values DEF Built
  <2>3. Own("remove", program[p], linked'[p], objects[p], found[p])
    BY <1>2, <2>1, <2>2, Kinds DEF Own, Running
  <2>4. Fits(p)'
    BY <1>1, <1>3, <1>5, <1>6, <2>3 DEF Fits
  <2> QED BY <1>1, <1>3, <1>4, <1>7, <2>2, <2>4, Values, Frame DEF Running
<1>8. CASE CcFails(p) /\ linked' = linked
  <2>1. Own("remove", program[p], linked[p], objects[p], found[p])
    BY <1>2 DEF Own, Running
  <2>2. Fits(p)'
    BY <1>1, <1>3, <1>5, <1>6, <1>8, <2>1 DEF Fits
  <2> QED BY <1>1, <1>3, <1>4, <1>8, <2>2, Values, Frame DEF Running
<1> QED BY <1>7, <1>8 DEF Link

(* It removes the file.                                                    *)
LEMMA RemoveStep ==
  ASSUME IInv, NEW p \in Pids, Remove(p)
  PROVE  IInv'
<1>1. /\ pc[p] = "remove" /\ files' = files /\ args' = args /\ program' = program
      /\ linked' = linked /\ found' = found /\ starts' = starts /\ Goes(p, "report")
      /\ objects' = [objects EXCEPT ![p] = Nothing]
  BY DEF Remove
<1>2. pc' = [pc EXCEPT ![p] = "report"] /\ code' = code /\ pc'[p] = "report"
  BY <1>1, Values DEF Goes
<1>3. objects'[p] = Nothing /\ objects' \in [Pids -> Objects]
  BY <1>1, Values DEF Objects
<1>4. GoodFiles'
  BY <1>1, Values DEF GoodFiles
<1>5. Passed("report", args[p], program[p])
  BY <1>1, Values DEF Passed, Running
<1>6. Own("report", program[p], linked[p], Nothing, found[p])
  BY <1>1, Values DEF Own, Running
<1>7. Judged("report", args[p], program[p], linked[p], code[p])
  BY DEF Judged
<1>8. Fits(p)'
  BY <1>1, <1>2, <1>3, <1>5, <1>6, <1>7 DEF Fits
<1> QED BY <1>1, <1>2, <1>3, <1>4, <1>8, Values, Frame DEF Running

(* It ends with its exit code.                                             *)
LEMMA ReportStep ==
  ASSUME IInv, NEW p \in Pids, Report(p)
  PROVE  IInv'
<1>1. /\ pc[p] = "report" /\ Exits(p, IF linked[p] = Nothing THEN 3 ELSE 0)
      /\ UNCHANGED <<files, objects, args, program, linked, found, starts>>
  BY DEF Report
<1>2. program[p] \in Programs /\ Checked(program[p])
  BY <1>1, Values DEF Passed, Running, Checked
<1>3. Own("exited", program[p], linked[p], objects[p], found[p])
  BY <1>1, Values DEF Own, Running
<1>4. CASE linked[p] = Nothing
  <2>1. Judged("exited", args[p], program[p], linked[p], 3)
    BY <1>2, <1>4 DEF Judged, Checked
  <2> QED BY <1>1, <1>3, <1>4, <2>1, Stop
<1>5. CASE linked[p] # Nothing
  <2>1. Judged("exited", args[p], program[p], linked[p], 0)
    BY <1>2, <1>5, NoProgram DEF Judged
  <2> QED BY <1>1, <1>3, <1>5, <2>1, Stop
<1> QED BY <1>4, <1>5

(* It leaves a session.                                                    *)
LEMMA LeaveStep ==
  ASSUME IInv, NEW p \in Pids, Leave(p)
  PROVE  IInv'
<1>1. /\ pc[p] = "session" /\ Exits(p, 0)
      /\ UNCHANGED <<files, objects, args, program, linked, found, starts>>
  BY DEF Leave
<1>2. Own("exited", program[p], linked[p], objects[p], found[p])
  BY <1>1, Values DEF Own, Running
<1>3. Judged("exited", args[p], program[p], linked[p], 0)
  BY <1>1, Values, NoProgram DEF Judged, Passed
<1> QED BY <1>1, <1>2, <1>3, Stop

(* It is killed.                                                           *)
LEMMA KillStep ==
  ASSUME IInv, NEW p \in Pids, Kill(p)
  PROVE  IInv'
<1>1. /\ pc[p] \in Running \cup {"session"} /\ pc' = [pc EXCEPT ![p] = "killed"]
      /\ UNCHANGED <<objects, args, program, linked, code, found, starts>>
      /\ files' = files \/ (pc[p] = "link" /\ (CcMakes(p) \/ CcFails(p)))
  BY DEF Kill
<1>2. files' \in [Files -> Contents] /\ GoodFiles'
  <2>1. CASE files' = files
    BY <2>1, Values DEF GoodFiles
  <2>2. CASE pc[p] = "link" /\ (CcMakes(p) \/ CcFails(p))
    <3>1. args[p].command = "file"
      BY <2>2, Values DEF Passed, Running
    <3> QED BY <2>2, <3>1, CcLeaves
  <2> QED BY <1>1, <2>1, <2>2
<1>3. pc'[p] = "killed"
  BY <1>1, Values
<1>4. Passed("killed", args[p], program[p]) /\ Judged("killed", args[p], program[p], linked[p], code[p])
  BY DEF Passed, Judged, Running
<1>5. Own("killed", program[p], linked[p], objects[p], found[p])
  BY <1>1, Values DEF Own, Running
<1>6. Fits(p)'
  BY <1>1, <1>3, <1>4, <1>5 DEF Fits
<1> QED BY <1>1, <1>2, <1>6, Values, Frame DEF Ended

(* A source is edited.                                                     *)
LEMMA EditStep ==
  ASSUME IInv, NEW f \in Sources, NEW t \in Texts, Edit(f, t)
  PROVE  IInv'
<1>1. /\ files' = [files EXCEPT ![f] = Text(t)]
      /\ UNCHANGED <<objects, pc, args, program, linked, code, found, starts>>
  BY DEF Edit
<1>2. files \in [Files -> Contents]
  BY DEF IInv, TypeOK, Contents, Built
<1>3. files' \in [Files -> Contents]
  BY <1>1, <1>2 DEF Contents, Files
<1>4. TypeOK'
  BY <1>1, <1>3 DEF IInv, TypeOK, Contents, Built
<1>5. GoodFiles'
  BY <1>1, <1>2, Kinds DEF IInv, GoodFiles, Files
<1>6. GoodObjects' /\ \A p \in Pids : Fits(p)'
  BY <1>1 DEF IInv, GoodObjects, Fits
<1> QED BY <1>4, <1>5, <1>6 DEF IInv

(* Every step of every process keeps the invariant.                        *)
LEMMA NextIInv == IInv /\ [Next]_vars => IInv'
<1>1. ASSUME IInv, NEW p \in Pids, Step(p) PROVE IInv'
  BY <1>1, ReadStep, ParseStep, TypecheckStep, LowerStep, CompileStep, LinkStep, RemoveStep,
     ReportStep DEF Step
<1>2. ASSUME IInv, UNCHANGED vars PROVE IInv'
  BY <1>2 DEF vars, IInv, TypeOK, GoodFiles, GoodObjects, Fits
<1> QED BY <1>1, <1>2, LeaveStep, KillStep, InvokeStep, EditStep DEF Next

(* The invariant is inductive. *)
THEOREM Invariance == Spec => []IInv
  BY InitIInv, NextIInv, PTL DEF Spec

-----------------------------------------------------------------------------
(* The state always has the shape its description gives. *)
THEOREM TypeCorrect == Spec => []TypeOK
<1>1. IInv => TypeOK
  BY DEF IInv
<1> QED BY <1>1, Invariance, PTL

(* A process that reports success has linked its own program (main.rs:85), *)
(* however many compile at once and whatever fails or is killed, if no     *)
(* object file with its name was there when it began.                      *)
THEOREM CompilesItsOwn == Spec => []OwnProgram
<1>1. ASSUME IInv PROVE OwnProgram
  BY <1>1 DEF IInv, OwnProgram, Fits, Own, Judged
<1> QED BY <1>1, Invariance, PTL

(* No object file is left, but by processes that are killed (main.rs:117). *)
THEOREM LeavesNoObject == Spec => []NoObjectLeft
<1>1. ASSUME IInv PROVE NoObjectLeft
  BY <1>1 DEF IInv, NoObjectLeft, Fits, Own
<1> QED BY <1>1, Invariance, PTL

(* The exit code tells how far the program has come (main.rs:32-131).      *)
THEOREM TellsTheTruth == Spec => []Verdict
<1>1. ASSUME IInv PROVE Verdict
  <2>1. \A p \in Pids : code[p] \in {0, 1, 2, 3}
    <3>1. code \in [Pids -> 0 .. 3]
      BY <1>1 DEF IInv, TypeOK
    <3>2. 0 .. 3 = {0, 1, 2, 3}
      OBVIOUS
    <3> QED BY <3>1, <3>2
  <2> QED BY <1>1, <2>1 DEF IInv, Verdict, Fits, Judged
<1> QED BY <1>1, Invariance, PTL

(* No program gets past a phase that rejects it, by way of any file.       *)
THEOREM ChecksFirst == Spec => []OnlyChecked
<1>1. ASSUME IInv PROVE OnlyChecked
  <2>1. \A p \in Pids : pc[p] = "session" /\ program[p] # Nothing => Checked(program[p])
    BY <1>1 DEF IInv, Fits, Passed
  <2> QED BY <1>1, <2>1 DEF IInv, OnlyChecked, GoodFiles, GoodObjects, Good
<1> QED BY <1>1, Invariance, PTL

-----------------------------------------------------------------------------
(* Every source has an extension, or a name that no source has without it. *)
Apart == \A f \in Sources : OutputOf[f] \notin Sources

(* A step of a process, and of the cc that one leaves when it is killed,   *)
(* writes to no other file than the one its source is compiled to.         *)
LEMMA WritesItsOutput ==
  ASSUME IInv, NEW p \in Pids, Step(p) \/ Leave(p) \/ Kill(p), NEW f \in Files, files'[f] # files[f]
  PROVE  args[p].file \in Sources /\ f = Output(p)
<1>1. pc[p] = "link" /\ (CcMakes(p) \/ CcFails(p))
  BY DEF Step, Read, Parse, Typecheck, Lower, Phase, Compile, Link, Remove, Report, Leave, Kill
<1>2. args[p].file \in Sources
  <2>1. args[p] \in Arguments /\ args[p].command = "file"
    BY <1>1 DEF IInv, TypeOK, Fits, Passed, Running
  <2> QED BY <2>1 DEF Arguments
<1>3. \E x : files' = [files EXCEPT ![Output(p)] = x] \/ files' = files
  BY <1>1 DEF CcMakes, CcFails
<1>4. f = Output(p)
  <2>1. DOMAIN files = Files
    BY DEF IInv, TypeOK
  <2> QED BY <1>3, <2>1
<1> QED BY <1>2, <1>4

(* Where no source is called like an executable, nothing but an editor     *)
(* changes a source (main.rs:104), whatever runs, fails or is killed.      *)
THEOREM OnlyEdited ==
  ASSUME Apart
  PROVE  Spec => SourcesIntact
<1> DEFINE Kept == \A f \in Sources : files'[f] # files[f] => \E t \in Texts : Edit(f, t)
<1>1. ASSUME IInv, Next PROVE Kept
  <2> SUFFICES ASSUME NEW f \in Sources, files'[f] # files[f]
               PROVE  \E t \in Texts : Edit(f, t)
    OBVIOUS
  <2>0. f \in Files
    BY DEF Files
  <2>1. ASSUME NEW p \in Pids, Step(p) \/ Leave(p) \/ Kill(p) PROVE FALSE
    BY <1>1, <2>0, <2>1, WritesItsOutput DEF Apart, Output
  <2>2. ASSUME NEW p \in Pids, NEW a \in Arguments, Invoke(p, a) PROVE FALSE
    BY <2>2 DEF Invoke
  <2>3. ASSUME NEW g \in Sources, NEW t \in Texts, Edit(g, t) PROVE Edit(f, t)
    <3>1. files' = [files EXCEPT ![g] = Text(t)] /\ DOMAIN files = Files
      BY <1>1, <2>3 DEF Edit, IInv, TypeOK
    <3>2. f = g
      BY <2>0, <3>1
    <3> QED BY <2>3, <3>2
  <2> QED BY <1>1, <2>1, <2>2, <2>3 DEF Next
<1>2. IInv /\ [Next]_vars => [Kept]_vars
  BY <1>1
<1> QED BY <1>2, Invariance, PTL DEF Spec, SourcesIntact

=============================================================================
