------------------------------ MODULE CompileElf ------------------------------
(***************************************************************************)
(* compile_elf.py builds one ELF per test: it comments out all             *)
(* registrations of test_register.c but one, runs make, copies the result, *)
(* and puts the file back at the end.  make rebuilds what is older than    *)
(* its source, after it has remade the .d files that are.  Between two     *)
(* runs of the script the developer edits the registrations and other      *)
(* files and runs make; the script can be interrupted anywhere.            *)
(***************************************************************************)
EXTENDS Integers

CONSTANTS
  NLines,    \* the lines of test_register.c, a test each
  MaxClock   \* writes of files until the story ends

ASSUME LinesAssumption == NLines \in Nat /\ MaxClock \in Nat

Lines   == 1..NLines
Sources == SUBSET Lines        \* the lines that are not commented out
Logs    == {"none", "4", "other"}   \* LOG_LEVEL; the script's is 4
Places  == {"idle", "modify", "make", "copy", "restore", "done"}

\* An object or an ELF: the tests in it, and when the object was compiled.
Files  == [runs : Sources, time : Nat]
Absent == [runs |-> {}, time |-> 0]

VARIABLES
  clock,
  source, sourceTime,  \* SOURCE_FILE and its mtime
  backup, backupTime,  \* BACKUP_FILE; the repository holds one
  build,               \* build/PLAT
  output,              \* OUTPUT_DIR: the ELF named after each test
  at,                  \* where the script is
  test_lines, line,    \* the lines it has yet to build, and the one it builds
  first_build,
  alone,               \* it was started for one line only
  original             \* SOURCE_FILE when it was started

vars == <<clock, source, sourceTime, backup, backupTime, build, output, at,
          test_lines, line, first_build, alone, original>>
sources == <<source, sourceTime, backup, backupTime>>
script  == <<test_lines, line, first_build, alone, original>>

Tick == clock < MaxClock /\ clock' = clock + 1

(***************************************************************************)
(* make.  Of build/PLAT: test_register.o; rvh_test.elf; when               *)
(* test_register.d was made, 0 if a header it names is newer; whether no   *)
(* .d of another file is older than that file; and PREV_LOG_LEVEL.         *)
(***************************************************************************)
Builds == [object : Files, elf : Files, dep : Nat, others : BOOLEAN, log : Logs]
Empty  == [object |-> Absent, elf |-> Absent, dep |-> 0, others |-> FALSE, log |-> "none"]

Outdated(dir) == dir.dep < sourceTime
Dep(dir)      == IF Outdated(dir) THEN clock + 1 ELSE dir.dep

\* A .d is a makefile: make remakes it first and then starts over.
StartsOver(dir) == Outdated(dir) \/ ~dir.others

Cleaned(level, dir) == IF level = dir.log THEN dir.object ELSE Absent

\* Parsing writes the level.  The removal of the objects at a new one is for the first
\* parsing only: where make starts over it reads the level it has just written.
Objects(level, dir) == IF StartsOver(dir) THEN dir.object ELSE Cleaned(level, dir)

\* Mutated form: an object does not depend on its .d, and so on no header.
BadCompiled(object, dep) ==
  IF object.time < sourceTime THEN [runs |-> source, time |-> clock + 1] ELSE object

Compiled(object, dep) ==
  IF object.time < sourceTime \/ object.time < dep THEN [runs |-> source, time |-> clock + 1] ELSE object

\* The ELF is linked again when the object is newer.
Made(level, dir) ==
  LET object == Compiled(Objects(level, dir), Dep(dir))
  IN  [object |-> object, elf |-> IF dir.elf.time < object.time THEN object ELSE dir.elf,
       dep |-> Dep(dir), others |-> TRUE, log |-> level]

\* make fails in a .d, before or behind the removal of the objects, at another file's
\* object, in the link, or behind it in objdump.
Failures(level, dir) ==
  {[dir EXCEPT !.object = object, !.dep = dep, !.others = others, !.log = level] :
     object \in {dir.object, Cleaned(level, dir)},
     dep \in {dir.dep, Dep(dir)}, others \in {dir.others, TRUE}}
    \union {[Made(level, dir) EXCEPT !.elf = dir.elf], Made(level, dir)}

(***************************************************************************)
(* The script.                                                             *)
(***************************************************************************)
\* Mutated form: the lines of a range are counted from zero.
BadLines == ({source} \union {i - 1..j - 1 : i, j \in Lines}) \ {{}}

\* all: the lines not commented out.  A range: its lines, commented out or not.
extract_test_lines == ({source} \union {i..j : i, j \in Lines}) \ {{}}

\* main up to its loop
Start ==
  /\ at = "idle"
  /\ test_lines' \in extract_test_lines
  /\ alone' = (\E l \in Lines : test_lines' = {l})
  /\ original' = source
  /\ first_build' = TRUE
  /\ at' = "modify"
  /\ UNCHANGED <<clock, sources, build, output, line>>

\* The round of the loop for the next line begins.
TakesLine ==
  /\ line' \in test_lines
  /\ \A l \in test_lines : line' <= l
  /\ test_lines' = test_lines \ {line'}

\* Mutated form: the backup of before is kept.
BadBackup ==
  /\ at = "modify"
  /\ Tick
  /\ TakesLine
  /\ source' = {line'} /\ sourceTime' = clock'
  /\ at' = "make"
  /\ UNCHANGED <<backup, backupTime, build, output, first_build, alone, original>>

\* copy2 keeps the mtime of what it copies.
backup_and_modify_source ==
  /\ at = "modify"
  /\ Tick
  /\ TakesLine
  /\ backup' = source /\ backupTime' = sourceTime
  /\ source' = {line'} /\ sourceTime' = clock'
  /\ at' = "make"
  /\ UNCHANGED <<build, output, first_build, alone, original>>

\* make clean removes the build directory before the first build.
Directory == IF first_build THEN Empty ELSE build

\* Where a round of the loop leads
NextRound == IF test_lines = {} THEN "restore" ELSE "modify"

\* Mutated form: the result of make is not looked at.
BadRunMake ==
  /\ at = "make"
  /\ Tick
  /\ build' \in {Made("4", Directory)} \union Failures("4", Directory)
  /\ at' = "copy"
  /\ first_build' = FALSE
  /\ UNCHANGED <<sources, output, test_lines, line, alone, original>>

run_make ==
  /\ at = "make"
  /\ Tick
  /\ \/ build' = Made("4", Directory) /\ at' = "copy"
     \/ build' \in Failures("4", Directory) /\ at' = NextRound
  /\ first_build' = FALSE
  /\ UNCHANGED <<sources, output, test_lines, line, alone, original>>

copy_output_files ==
  /\ at = "copy"
  /\ output' = [output EXCEPT ![line] = build.elf]
  /\ at' = NextRound
  /\ UNCHANGED <<clock, sources, build, script>>

restore_source ==
  /\ at = "restore"
  /\ source' = backup /\ sourceTime' = backupTime
  /\ at' = "done"
  /\ UNCHANGED <<clock, backup, backupTime, build, output, script>>

\* The script returns, or is interrupted where it is; its variables are gone.
Exit ==
  /\ at # "idle"
  /\ at' = "idle"
  /\ test_lines' = {} /\ line' = 1 /\ first_build' = TRUE /\ alone' = FALSE /\ original' = {}
  /\ UNCHANGED <<clock, sources, build, output>>

(***************************************************************************)
(* The developer.                                                          *)
(***************************************************************************)
Edit ==
  /\ at = "idle"
  /\ Tick
  /\ source' \in Sources
  /\ sourceTime' = clock'
  /\ UNCHANGED <<backup, backupTime, build, output, at, script>>

\* Another source or header is written; it may be one that test_register.c includes.
EditOther ==
  /\ at = "idle"
  /\ \E dep \in {build.dep, 0} : build' = [build EXCEPT !.others = FALSE, !.dep = dep]
  /\ UNCHANGED <<clock, sources, output, at, script>>

\* A make by hand that succeeds, and one that does not
Make(level) ==
  /\ at = "idle"
  /\ Tick
  /\ build' = Made(level, build)
  /\ UNCHANGED <<sources, output, at, script>>

MakeFails(level) ==
  /\ at = "idle"
  /\ Tick
  /\ build' \in Failures(level, build)
  /\ UNCHANGED <<sources, output, at, script>>

End == at = "idle" /\ clock = MaxClock /\ UNCHANGED vars

Init ==
  /\ clock = 1
  /\ source \in Sources /\ sourceTime = 1
  /\ backup = source /\ backupTime = 1
  /\ build = Empty
  /\ output = [l \in Lines |-> Absent]
  /\ at = "idle" /\ test_lines = {} /\ line = 1
  /\ first_build = TRUE /\ alone = FALSE /\ original = {}

Next ==
  \/ Start \/ backup_and_modify_source \/ run_make \/ copy_output_files \/ restore_source
  \/ Exit \/ Edit \/ EditOther \/ (\E level \in {"4", "other"} : Make(level) \/ MakeFails(level)) \/ End

Spec == Init /\ [][Next]_vars

-----------------------------------------------------------------------------
CompileTypeOK ==
  /\ clock \in Nat /\ sourceTime \in Nat /\ backupTime \in Nat
  /\ source \in Sources /\ backup \in Sources /\ original \in Sources
  /\ build \in Builds
  /\ output \in [Lines -> Files]
  /\ at \in Places
  /\ test_lines \in Sources
  /\ line \in Nat
  /\ first_build \in BOOLEAN /\ alone \in BOOLEAN

\* The ELF named after a test runs that test and no other, whatever failed, was
\* edited, built by hand or interrupted before.
ElfRunsItsTest == \A l \in Lines : output[l] # Absent => output[l].runs = {l}

\* A run of the script for one test puts the registrations back as they were.
OneTestIsRestored == at = "done" /\ alone => source = original

\* restore_source's promise: a run of the script that is not interrupted puts the
\* registrations back as they were.
SourceIsRestored == at = "done" => source = original

\* The registrations are as restore_source put them back, with the mtime they had.
PutBack == source = backup /\ sourceTime = backupTime

\* A make by hand builds the registrations as they stand, with two exceptions, both behind
\* restore_source, whose old mtime hides the change: make at the same level with nothing
\* of theirs newer, and make at another level that starts over for another file's .d and
\* so misses that the level is new.
HandMakesBuildTheSource ==
  [][\A level \in {"4", "other"} :
       Make(level) => \/ build'.elf.runs = source
                      \/ PutBack /\ ~Outdated(build) /\ (level = build.log \/ ~build.others)]_vars
==============================================================================
