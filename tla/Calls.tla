-------------------------------- MODULE Calls --------------------------------
(***************************************************************************)
(* How a function of the device layer or a command line tool runs: a chain *)
(* of calls each of which may fail, error exits between them, and whatever *)
(* has to be given back on every way out.  A program is the list of calls  *)
(* the C function makes, in its order, with the exit each failing call     *)
(* takes ("goto end", a plain return, or nothing at all) and the clean-up  *)
(* under its end label.  Modules SdfPrograms, SdfTests, SkfPrograms,       *)
(* PkiTools, KeyTools, CipherTools and TlsTools hold the programs; this    *)
(* module runs any of them, with every call failing or not and every       *)
(* option given or not.                                                    *)
(*                                                                         *)
(* Objects are the names of C variables that hold something to be given    *)
(* back: an open FILE, an allocated buffer, a socket, a device handle.     *)
(* Keys are the names of variables that hold secret key material.  What a  *)
(* call computes is left out; which options, objects and keys it needs,    *)
(* makes, fills and gives back is kept.                                    *)
(***************************************************************************)
EXTENDS Integers, Sequences, FiniteSetsExt

(* A call of f that needs the options, objects and keys u and may fail.    *)
Call(f, u) ==
    [call |-> f, uses |-> u, gets |-> {}, fills |-> {}, drops |-> {},
     hands |-> {}, forgets |-> {}, wipes |-> {}, gives |-> {}, demands |-> {},
     undo |-> {}, when |-> {}, unless |-> {}, exit |-> "end",
     fails |-> TRUE, skips |-> FALSE, help |-> FALSE, sets |-> FALSE,
     jump |-> 1, over |-> 1]

(* A call that leaves the new objects g, or key material in k, and one     *)
(* that gives the objects d back and whose result is checked.              *)
Make(f, u, g) == [Call(f, u) EXCEPT !.gets = g]
Fill(f, u, k) == [Call(f, u) EXCEPT !.fills = k]
Release(f, u, d) == [Call(f, u \cup d) EXCEPT !.drops = d]

(* Statements that cannot fail or whose result nobody looks at: a call     *)
(* that leaves key material in k; making g; giving d back; setting the     *)
(* variables d to NULL; passing d to the caller; erasing k.                *)
Sure == [Call("", {}) EXCEPT !.fails = FALSE]
Set(g) == [Sure EXCEPT !.gets = g]
Act(f, u, k) == [Fill(f, u, k) EXCEPT !.fails = FALSE]
Drop(d) == [Sure EXCEPT !.uses = d, !.drops = d]
Forget(d) == [Sure EXCEPT !.forgets = d]
Hand(d) == [Sure EXCEPT !.hands = d]
Wipe(k) == [Sure EXCEPT !.wipes = k]

(* Mutant: the error path returns without giving d back.                   *)
UndoForgets(s, d) == [s EXCEPT !.exit = "return"]

(* Exits: a return that passes the end label by, one that says success all *)
(* the same, a return and a "goto end" after giving d back, and a failure  *)
(* that is reported, if at all, and otherwise ignored.                     *)
Quit(s) == [s EXCEPT !.exit = "return"]
Claim(s) == [s EXCEPT !.exit = "claim"]
Undo(s, d) == [s EXCEPT !.exit = "return", !.undo = d]
Closing(s, d) == [s EXCEPT !.undo = d]
Ignore(s) == [s EXCEPT !.exit = "on"]

(* "if (!x) goto end"; a "goto end" nothing stands in front of; a negative *)
(* answer the program goes on with; a call of f that always fails;         *)
(* "ret = 0" (ret = 1 for functions).                                      *)
Require(x) == [Call("missing", {}) EXCEPT !.demands = x]
Stop == Require({"nothing"})
Reject == [Ignore(Stop) EXCEPT !.call = "rejected"]
Fails(f) == [Stop EXCEPT !.call = f]
Ok == [Sure EXCEPT !.sets = TRUE]

(* Statements under a condition: options that were given or objects that   *)
(* are there (x), ones that are not, or something the model does not       *)
(* follow; two branches; a loop.  The step in front says how far it is to  *)
(* the statement after them.                                               *)
Test(s) == [Sure EXCEPT !.over = Len(s) + 1]
Given(x, s) == <<[Test(s) EXCEPT !.when = x]>> \o s
Lacking(x, s) == <<[Test(s) EXCEPT !.unless = x]>> \o s
May(s) == <<[Test(s) EXCEPT !.skips = TRUE]>> \o s
Goto(n) == [Sure EXCEPT !.jump = n]
Either(s, t) == May(s \o <<Goto(Len(t) + 1)>>) \o t
IfGiven(x, s, t) == Given(x, s \o <<Goto(Len(t) + 1)>>) \o t
Loop(s) == May(s \o <<Goto(-(Len(s) + 1))>>)
Forever(s) == s \o <<Goto(-Len(s))>>

(* The loop over the options of a tool.  Every option may be missing; one  *)
(* with a value may store it, open the file it names, build an object from *)
(* it, decode a key from it or check it, at once.  Settings are options    *)
(* that only the call they are for depends on.  Usage is "if (argc < 1)    *)
(* return 1", Bad is an option that is unknown or has no value.            *)
Maybe(s) == [s EXCEPT !.skips = TRUE]
Except(o, s) == [s EXCEPT !.unless = o]
Value(o) == [Maybe(Sure) EXCEPT !.gives = {o}]
Parse(o, f) == [Maybe(Call(f, {})) EXCEPT !.gives = {o}]
Load(o, f, g) == [Parse(o, f) EXCEPT !.gets = {g}]
File(o, fp) == Load(o, "fopen", fp)
Key(o, f, k) == [Parse(o, f) EXCEPT !.fills = {k}]
Settings(S) == Maybe(Call("settings", {}))
Usage == Quit(Call("argc", {}))
Help == [Maybe(Sure) EXCEPT !.help = TRUE, !.sets = TRUE]
HelpFails == [Help EXCEPT !.sets = FALSE]

(* Mutant: the tool complains about the option and goes on.                *)
BadIgnored == Ignore(Call("bad option", {}))

Bad == Call("bad option", {})

(* A function that is called with the objects n, keeps t of them from its  *)
(* caller and hands back g.  It reports success at its end.                *)
Function(name, n, t, g, code) ==
    [name |-> name, needs |-> n, takes |-> t, gives |-> g,
     code |-> code \o <<Ok>>, closes |-> {}, clears |-> {}, unset |-> {},
     ret |-> FALSE, masks |-> <<>>]

(* Mutant: the end label erases nothing.                                   *)
WithEndNoClear(name, n, t, g, code, c, k) ==
    [Function(name, n, t, g, code) EXCEPT !.closes = c]

(* One whose end label gives back c ("if (x) close(x)") and erases k.      *)
WithEnd(name, n, t, g, code, c, k) ==
    [Function(name, n, t, g, code) EXCEPT !.closes = c, !.clears = k]

Tool(name, code, c, k) == WithEnd(name, {}, {}, {}, code, c, k)

(* A program that sets its status itself, one whose status is success from *)
(* the beginning, and one whose variables u have no value at first and are *)
(* cleaned up at the end label whatever they hold.                         *)
Unset(p) == [p EXCEPT !.code = SubSeq(@, 1, Len(@) - 1)]
Always(p) == [p EXCEPT !.ret = TRUE]
NoValue(u, p) == [p EXCEPT !.unset = u]

(* One that makes the calls c under the end label, each if there is        *)
(* something for it to give back, and returns the status of the last one.  *)
Masking(p, c) == [p EXCEPT !.masks = c]

(* A call of a function of the project, by what that function promises.    *)
Do(p) == [Call(p.name, p.needs) EXCEPT !.gets = p.gives, !.drops = p.takes]

(* A call that is passed on to the library of a device's vendor if that    *)
(* library has the function, for vendors with algorithm numbers of their   *)
(* own with the number translated.  It needs u, takes t and gives g.       *)
Forward(name, u, t, g) ==
    Function(name, {"library"} \cup u, t, g,
      <<Quit(Call("not supported", {"library"})),
        Quit([Make(name, u, g) EXCEPT !.drops = t]), Hand(g)>>)

Convert == May(<<Quit(Call("std2vendor", {}))>>)

Converting(name, u, g) ==
    Function(name, {"library"} \cup u, {}, g,
      <<Quit(Call("not supported", {"library"}))>> \o Convert
      \o <<Quit(Make(name, u, g)), Hand(g)>>)

-----------------------------------------------------------------------------
CONSTANT
    Programs    \* the programs that are run, one at a time
VARIABLES
    program,    \* the program that runs
    pc,         \* the statement before it
    given,      \* options the user gave
    held,       \* objects that are open and that it can reach
    stale,      \* variables that name an object it gave back, or no object
    out,        \* objects handed to the caller
    lost,       \* objects that are open and that nobody can reach
    secret,     \* variables with key material
    misused,    \* what was used though it was not there
    failed,     \* calls that have failed
    phase,      \* "run", "end" (at the end label) or "over"
    report      \* the status it returns: TRUE is success

vars == <<program, pc, given, held, stale, out, lost, secret, misused,
          failed, phase, report>>

Init ==
    /\ program \in Programs
    /\ pc = 1
    /\ held = program.needs
    /\ stale = program.unset
    /\ given = {} /\ out = {} /\ lost = {} /\ secret = {}
    /\ misused = {} /\ failed = {}
    /\ phase = "run" /\ report = program.ret

(* The statement before it, whether its condition holds, and what it needs *)
(* and does not have.                                                      *)
AtStatement == phase = "run" /\ pc <= Len(program.code)
Statement == program.code[pc]
Present == given \cup held
Applies(s) == s.when \subseteq Present /\ s.unless \cap Present = {}
Met(s) == s.demands \subseteq Present
Missing(s) == s.uses \ (Present \cup secret)

Skip ==
    LET s == Statement IN
    /\ AtStatement
    /\ s.skips \/ ~Applies(s)
    /\ pc' = pc + s.over
    /\ UNCHANGED <<program, given, held, stale, out, lost, secret, misused,
                   failed, phase, report>>

(* The statement does what it is there for.  A variable that is assigned   *)
(* or set to NULL while it names something open loses it.                  *)
Succeed ==
    LET s == Statement IN
    /\ AtStatement
    /\ Applies(s) /\ Met(s) /\ ~s.help
    /\ pc' = pc + s.jump
    /\ given' = (given \cup s.gives) \ s.forgets
    /\ held' = (held \ (s.drops \cup s.hands \cup s.forgets)) \cup s.gets
    /\ stale' = (stale \cup s.drops) \ (s.gets \cup s.forgets)
    /\ out' = out \cup (s.hands \cap held)
    /\ lost' = lost \cup (held \cap (s.gets \cup s.forgets))
    /\ secret' = (secret \cup s.fills) \ s.wipes
    /\ misused' = misused \cup Missing(s)
    /\ report' = (report \/ s.sets)
    /\ UNCHANGED <<program, failed, phase>>

(* The call fails.  A key it was filling may hold a part of it.            *)
Fail ==
    LET s == Statement IN
    /\ AtStatement
    /\ Applies(s)
    /\ IF s.demands # {} THEN ~Met(s) ELSE s.fails
    /\ misused' = misused \cup Missing(s) \cup (s.undo \ held)
    /\ held' = held \ s.undo
    /\ failed' = failed \cup {s.call}
    /\ \E k \in {{}, s.fills} : secret' = secret \cup k
    /\ \/ s.exit = "end" /\ phase' = "end" /\ UNCHANGED <<pc, report>>
       \/ s.exit = "return" /\ phase' = "over" /\ report' = FALSE /\ UNCHANGED pc
       \/ s.exit = "claim" /\ phase' = "over" /\ report' = TRUE /\ UNCHANGED pc
       \/ s.exit = "on" /\ pc' = pc + 1 /\ UNCHANGED <<phase, report>>
    /\ UNCHANGED <<program, given, stale, out, lost>>

(* "-help": the text is printed and the tool ends, by way of the end label *)
(* or not.                                                                 *)
PrintHelp ==
    LET s == Statement IN
    /\ AtStatement
    /\ s.help
    /\ given' = given \cup {"-help"}
    /\ report' = (report \/ s.sets)
    /\ phase' = IF s.exit = "end" THEN "end" ELSE "over"
    /\ UNCHANGED <<program, pc, held, stale, out, lost, secret, misused, failed>>

(* The end label.  "if (x) close(x)" also closes what x still names though *)
(* it was closed before.  Nobody looks at what these calls return, and     *)
(* they are taken to succeed, but for those of Masking.                    *)
Cleanup ==
    LET made == {i \in DOMAIN program.masks : program.masks[i].drops \cap held # {}}
    IN
    /\ phase = "end" \/ (phase = "run" /\ pc > Len(program.code))
    /\ \E bad \in SUBSET made :
         /\ held' = held \ (program.closes \ UNION {program.masks[i].drops : i \in bad})
         /\ failed' = failed \cup {program.masks[i].call : i \in bad}
         /\ report' = IF made = {} THEN report ELSE Max(made) \notin bad
    /\ misused' = misused \cup (program.closes \cap stale)
    /\ secret' = secret \ program.clears
    /\ phase' = "over"
    /\ UNCHANGED <<program, pc, given, stale, out, lost>>

Next == Skip \/ Succeed \/ Fail \/ PrintHelp \/ Cleanup

Spec == Init /\ [][Next]_vars
=============================================================================
