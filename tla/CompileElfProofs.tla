--------------------------- MODULE CompileElfProofs ---------------------------
(***************************************************************************)
(* Proof that compile_elf.py never files an ELF under the wrong name, for  *)
(* any number of tests and runs.                                           *)
(***************************************************************************)
EXTENDS CompileElf, TLAPS

\* Nothing is dated in the future, what the script has just written is newer than
\* every object, and what make has just built from it is the line's own ELF.
Dated ==
  /\ sourceTime <= clock /\ backupTime <= clock
  /\ build.object.time <= clock /\ build.elf.time <= clock
  /\ at = "make" => /\ source = {line}
                    /\ build.object.time < sourceTime /\ build.elf.time < sourceTime
  /\ at = "copy" => build.elf.runs = {line}

CInv == CompileTypeOK /\ Dated /\ ElfRunsItsTest

\* make's results are build directories.
LEMMA MakeTyped ==
  ASSUME CompileTypeOK, NEW level \in Logs, NEW dir \in Builds
  PROVE  /\ Cleaned(level, dir) \in Files /\ Objects(level, dir) \in Files /\ Dep(dir) \in Nat
         /\ Compiled(Objects(level, dir), Dep(dir)) \in Files
         /\ Made(level, dir) \in Builds
         /\ Failures(level, dir) \subseteq Builds
<1>1. Absent \in Files /\ dir.object \in Files /\ dir.elf \in Files /\ dir.dep \in Nat /\ dir.others \in BOOLEAN
  BY DEF Absent, Files, Sources, Builds
<1>2. Cleaned(level, dir) \in Files
  BY <1>1 DEF Cleaned
<1>3. Objects(level, dir) \in Files
  BY <1>1, <1>2 DEF Objects
<1>4. clock \in Nat /\ [runs |-> source, time |-> clock + 1] \in Files
  BY DEF CompileTypeOK, Files
<1>5. Dep(dir) \in Nat
  BY <1>1, <1>4 DEF Dep
<1>6. Compiled(Objects(level, dir), Dep(dir)) \in Files
  BY <1>3, <1>4 DEF Compiled
<1>7. Made(level, dir) \in Builds
  BY <1>1, <1>5, <1>6 DEF Made, Builds
<1>8. [Made(level, dir) EXCEPT !.elf = dir.elf] \in Builds
  BY <1>1, <1>7 DEF Builds
<1>9. ASSUME NEW object \in {dir.object, Cleaned(level, dir)}, NEW dep \in {dir.dep, Dep(dir)},
             NEW others \in {dir.others, TRUE}
      PROVE  [dir EXCEPT !.object = object, !.dep = dep, !.others = others, !.log = level] \in Builds
  BY <1>1, <1>2, <1>5 DEF Builds
<1>10. Failures(level, dir) \subseteq Builds
  BY <1>7, <1>8, <1>9 DEF Failures
<1> QED
  BY <1>2, <1>3, <1>5, <1>6, <1>7, <1>10

\* What a make may leave behind: the object of before, none, or one it has compiled; the
\* ELF of before, or its object behind a link.
LEMMA MakeLeaves ==
  ASSUME CompileTypeOK, NEW level \in Logs, NEW dir \in Builds,
         NEW b \in {Made(level, dir)} \union Failures(level, dir)
  PROVE  \/ b.object \in {dir.object, Absent} /\ b.elf = dir.elf
         \/ /\ b.object = Compiled(Objects(level, dir), Dep(dir))
            /\ b.elf = dir.elf \/ (b.elf = b.object /\ dir.elf.time < b.object.time)
<1>1. CASE b = Made(level, dir) \/ b = [Made(level, dir) EXCEPT !.elf = dir.elf]
  BY <1>1 DEF Made
<1>2. ASSUME NEW object \in {dir.object, Cleaned(level, dir)}, NEW dep \in {dir.dep, Dep(dir)},
             NEW others \in {dir.others, TRUE},
             b = [dir EXCEPT !.object = object, !.dep = dep, !.others = others, !.log = level]
      PROVE  b.object \in {dir.object, Absent} /\ b.elf = dir.elf
  BY <1>2 DEF Cleaned, Builds
<1> QED
  BY <1>1, <1>2 DEF Failures

\* Every file of a make is at most one tick younger than the clock.
LEMMA MakeDated ==
  ASSUME CompileTypeOK, NEW level \in Logs, NEW dir \in Builds,
         dir.object.time <= clock, dir.elf.time <= clock,
         NEW b \in {Made(level, dir)} \union Failures(level, dir)
  PROVE  b.object.time <= clock + 1 /\ b.elf.time <= clock + 1
<1> DEFINE new == Compiled(Objects(level, dir), Dep(dir))
<1>1. clock \in Nat /\ dir.object.time \in Nat /\ dir.elf.time \in Nat
  BY DEF CompileTypeOK, Builds, Files
<1>2. Objects(level, dir).time <= clock
  BY <1>1 DEF Objects, Cleaned, Absent
<1>3. new \in Files /\ Objects(level, dir) \in Files
  BY MakeTyped
<1>4. new.time <= clock + 1
  BY <1>1, <1>2, <1>3 DEF Compiled, Files
<1>5. dir.object.time <= clock + 1 /\ dir.elf.time <= clock + 1 /\ Absent.time <= clock + 1
  BY <1>1 DEF Absent
<1> HIDE DEF new
<1>6. \/ b.object \in {dir.object, Absent} /\ b.elf = dir.elf
      \/ b.object = new /\ b.elf \in {dir.elf, b.object}
  BY MakeLeaves DEF new
<1> QED
  BY <1>4, <1>5, <1>6

\* From a source that is newer than all it finds, make builds the source's ELF.
LEMMA MakeFresh ==
  ASSUME CompileTypeOK, NEW level \in Logs, NEW dir \in Builds,
         dir.object.time < sourceTime, dir.elf.time < sourceTime, sourceTime <= clock
  PROVE  Made(level, dir).elf.runs = source
<1>1. /\ clock \in Nat /\ sourceTime \in Nat
      /\ dir.object.time \in Nat /\ dir.elf.time \in Nat
  BY DEF CompileTypeOK, Builds, Files
<1>2. Objects(level, dir).time < sourceTime
  BY <1>1 DEF Objects, Cleaned, Absent
<1>3. Compiled(Objects(level, dir), Dep(dir)) = [runs |-> source, time |-> clock + 1]
  BY <1>2 DEF Compiled
<1>4. dir.elf.time < clock + 1
  BY <1>1
<1> QED
  BY <1>3, <1>4 DEF Made

LEMMA InitCompile == Init => CInv
<1> SUFFICES ASSUME Init PROVE CInv
  OBVIOUS
<1>1. Absent \in Files
  BY DEF Absent, Files, Sources
<1>2. build \in Builds /\ output \in [Lines -> Files]
  BY <1>1 DEF Init, Empty, Builds, Logs
<1>3. CompileTypeOK
  BY <1>2 DEF Init, CompileTypeOK, Places, Sources
<1>4. Dated
  BY DEF Init, Dated, Empty, Absent
<1>5. ElfRunsItsTest
  BY DEF Init, ElfRunsItsTest
<1> QED
  BY <1>3, <1>4, <1>5 DEF CInv

LEMMA NextCompile == CInv /\ [Next]_vars => CInv'
<1> SUFFICES ASSUME CInv, [Next]_vars PROVE CInv'
  OBVIOUS
<1>0. CompileTypeOK /\ Dated /\ ElfRunsItsTest
  BY DEF CInv
<1>1. /\ clock \in Nat /\ sourceTime \in Nat /\ backupTime \in Nat /\ clock + 1 \in Nat
      /\ build \in Builds /\ build.object \in Files /\ build.elf \in Files
      /\ build.object.time \in Nat /\ build.elf.time \in Nat /\ build.dep \in Nat
  BY <1>0 DEF CompileTypeOK, Builds, Files
<1>2. /\ sourceTime <= clock + 1 /\ backupTime <= clock + 1
      /\ build.object.time <= clock + 1 /\ build.elf.time <= clock + 1
      /\ build.object.time < clock + 1 /\ build.elf.time < clock + 1
  BY <1>0, <1>1 DEF Dated
<1>3. Empty \in Builds /\ "4" \in Logs /\ "other" \in Logs
  BY DEF Empty, Builds, Absent, Files, Sources, Logs
<1>4. CASE Start
  <2>1. test_lines' \in Sources
    <3>1. CASE test_lines' = source
      BY <1>0, <3>1 DEF CompileTypeOK
    <3>2. ASSUME NEW i \in Lines, NEW j \in Lines PROVE i..j \in Sources
      BY LinesAssumption DEF Lines, Sources
    <3> QED
      BY <1>4, <3>1, <3>2 DEF Start, extract_test_lines
  <2> QED
    BY <1>0, <1>4, <2>1 DEF Start, CInv, CompileTypeOK, Dated, ElfRunsItsTest, sources, Places
<1>5. CASE backup_and_modify_source
  <2>1. line' \in Lines /\ test_lines' \in Sources
    BY <1>0, <1>5 DEF backup_and_modify_source, TakesLine, CompileTypeOK, Sources
  <2>2. clock' = clock + 1 /\ sourceTime' = clock + 1 /\ source' = {line'} /\ at' = "make"
        /\ backup' = source /\ backupTime' = sourceTime /\ UNCHANGED <<build, output, first_build, alone, original>>
    BY <1>5 DEF backup_and_modify_source, Tick
  <2>3. CompileTypeOK'
    BY <1>0, <1>1, <2>1, <2>2 DEF CompileTypeOK, Places, Sources, Lines
  <2>4. Dated'
    BY <1>1, <1>2, <2>2 DEF Dated
  <2>5. ElfRunsItsTest'
    BY <1>0, <2>2 DEF ElfRunsItsTest
  <2> QED
    BY <2>3, <2>4, <2>5 DEF CInv
<1>6. CASE run_make
  <2>1. /\ Directory \in Builds
        /\ Directory.object.time < sourceTime /\ Directory.elf.time < sourceTime
        /\ sourceTime <= clock /\ source = {line}
        /\ Directory.object.time <= clock /\ Directory.elf.time <= clock
    BY <1>0, <1>1, <1>3, <1>6 DEF run_make, Directory, Dated, Empty, Absent
  <2>2. /\ clock' = clock + 1
        /\ \/ at' = "copy" /\ build' = Made("4", Directory)
           \/ at' \in {"restore", "modify"} /\ build' \in Failures("4", Directory)
        /\ first_build' = FALSE
        /\ UNCHANGED <<sources, output, test_lines, line, alone, original>>
    <3>1. NextRound \in {"restore", "modify"}
      BY DEF NextRound
    <3>2. clock' = clock + 1
      BY <1>6 DEF run_make, Tick
    <3>3. CASE build' = Made("4", Directory) /\ at' = "copy"
      BY <1>6, <3>2, <3>3 DEF run_make
    <3>4. CASE build' \in Failures("4", Directory) /\ at' = NextRound
      BY <1>6, <3>1, <3>2, <3>4 DEF run_make
    <3> QED
      BY <1>6, <3>3, <3>4 DEF run_make
  <2>3. build' \in Builds
    BY <1>0, <1>3, <2>1, <2>2, MakeTyped
  <2>4. build'.object.time <= clock + 1 /\ build'.elf.time <= clock + 1
    BY <1>0, <1>3, <2>1, <2>2, MakeDated
  <2>5. Made("4", Directory).elf.runs = {line}
    BY <1>0, <1>3, <2>1, MakeFresh
  <2>6. CompileTypeOK'
    BY <1>0, <1>1, <2>2, <2>3 DEF CompileTypeOK, Places, sources
  <2>7. Dated'
    BY <1>2, <2>2, <2>4, <2>5 DEF Dated, sources
  <2>8. ElfRunsItsTest'
    BY <1>0, <2>2 DEF ElfRunsItsTest
  <2> QED
    BY <2>6, <2>7, <2>8 DEF CInv
<1>7. CASE copy_output_files
  <2>1. /\ output' = [output EXCEPT ![line] = build.elf] /\ at' \in {"restore", "modify"}
        /\ build.elf.runs = {line}
        /\ UNCHANGED <<clock, sources, build, script>>
    BY <1>0, <1>7 DEF copy_output_files, NextRound, Dated
  <2>2. output' \in [Lines -> Files]
    BY <1>0, <1>1, <2>1 DEF CompileTypeOK
  <2>3. CompileTypeOK'
    BY <1>0, <2>1, <2>2 DEF CompileTypeOK, Places, sources, script
  <2>4. Dated'
    BY <1>0, <2>1 DEF Dated, sources, script
  <2>5. ElfRunsItsTest'
    <3> SUFFICES ASSUME NEW l \in Lines, output'[l] # Absent PROVE output'[l].runs = {l}
      BY DEF ElfRunsItsTest
    <3>1. CASE l = line
      BY <1>0, <2>1, <3>1 DEF CompileTypeOK
    <3>2. CASE l # line
      BY <1>0, <2>1, <3>2 DEF CompileTypeOK, ElfRunsItsTest
    <3> QED
      BY <3>1, <3>2
  <2> QED
    BY <2>3, <2>4, <2>5 DEF CInv
<1>8. CASE restore_source
  BY <1>0, <1>8 DEF restore_source, CInv, CompileTypeOK, Dated, ElfRunsItsTest, script, Places
<1>9. CASE Exit
  <2>1. {} \in Sources
    BY DEF Sources
  <2> QED
    BY <1>0, <1>9, <2>1 DEF Exit, CInv, CompileTypeOK, Dated, ElfRunsItsTest, sources, Places
<1>10. CASE Edit
  <2>1. /\ clock' = clock + 1 /\ sourceTime' = clock + 1 /\ source' \in Sources /\ at = "idle"
        /\ UNCHANGED <<backup, backupTime, build, output, at, script>>
    BY <1>10 DEF Edit, Tick
  <2>2. CompileTypeOK'
    BY <1>0, <1>1, <2>1 DEF CompileTypeOK, script
  <2>3. Dated'
    BY <1>1, <1>2, <2>1 DEF Dated
  <2>4. ElfRunsItsTest'
    BY <1>0, <2>1 DEF ElfRunsItsTest
  <2> QED
    BY <2>2, <2>3, <2>4 DEF CInv
<1>11. ASSUME NEW level \in {"4", "other"}, Make(level) \/ MakeFails(level) PROVE CInv'
  <2>1. /\ clock' = clock + 1 /\ build' \in {Made(level, build)} \union Failures(level, build) /\ at = "idle"
        /\ UNCHANGED <<sources, output, at, script>>
    BY <1>11 DEF Make, MakeFails, Tick
  <2>2. build.object.time <= clock /\ build.elf.time <= clock /\ level \in Logs
    BY <1>0, <1>3 DEF Dated
  <2>3. build' \in Builds
    BY <1>0, <1>1, <2>1, <2>2, MakeTyped
  <2>4. build'.object.time <= clock + 1 /\ build'.elf.time <= clock + 1
    BY <1>0, <1>1, <2>1, <2>2, MakeDated
  <2>5. CompileTypeOK'
    BY <1>0, <1>1, <2>1, <2>3 DEF CompileTypeOK, sources, script
  <2>6. Dated'
    BY <1>2, <2>1, <2>4 DEF Dated, sources
  <2>7. ElfRunsItsTest'
    BY <1>0, <2>1 DEF ElfRunsItsTest
  <2> QED
    BY <2>5, <2>6, <2>7 DEF CInv
<1>12. CASE EditOther
  <2>1. PICK dep \in {build.dep, 0} : build' = [build EXCEPT !.others = FALSE, !.dep = dep]
    BY <1>12 DEF EditOther
  <2>2. dep \in Nat /\ build \in [object : Files, elf : Files, dep : Nat, others : BOOLEAN, log : Logs]
    BY <1>1 DEF Builds
  <2>3. /\ build' \in Builds /\ build'.object = build.object /\ build'.elf = build.elf
    BY <2>1, <2>2 DEF Builds
  <2>4. UNCHANGED <<clock, sources, output, at, script>>
    BY <1>12 DEF EditOther
  <2> QED
    BY <1>0, <2>3, <2>4 DEF CInv, CompileTypeOK, Dated, ElfRunsItsTest, sources, script
<1>13. CASE End \/ UNCHANGED vars
  BY <1>0, <1>13 DEF End, vars, CInv, CompileTypeOK, Dated, ElfRunsItsTest
<1> QED
  BY <1>4, <1>5, <1>6, <1>7, <1>8, <1>9, <1>10, <1>11, <1>12, <1>13 DEF Next

\* Every ELF in the output directory runs the test it is named after, however many
\* tests are built, whatever fails, and wherever the script is interrupted.
THEOREM ElfsRunTheirTests == Spec => []ElfRunsItsTest
<1>1. CInv => ElfRunsItsTest
  BY DEF CInv
<1> QED
  BY <1>1, InitCompile, NextCompile, PTL DEF Spec

\* The state of the script keeps to its types, whatever fails.
THEOREM CompileTypeCorrect == Spec => []CompileTypeOK
<1>1. CInv => CompileTypeOK
  BY DEF CInv
<1> QED
  BY <1>1, InitCompile, NextCompile, PTL DEF Spec

-----------------------------------------------------------------------------
\* A run for one line makes one round: the backup it takes there is of the file it
\* found, and no second backup is taken over it.
OneRound ==
  alone =>
    /\ at = "modify" => source = original /\ \E l \in Lines : test_lines = {l}
    /\ at \in {"make", "copy", "restore"} => backup = original /\ test_lines = {}
    /\ at = "done" => source = original

LEMMA InitOneRound == Init => OneRound
  BY DEF Init, OneRound

LEMMA NextOneRound == OneRound /\ [Next]_vars => OneRound'
<1> SUFFICES ASSUME OneRound, [Next]_vars PROVE OneRound'
  OBVIOUS
<1>1. CASE Start
  BY <1>1 DEF Start, OneRound, sources
<1>2. CASE backup_and_modify_source
  <2>1. at = "modify" /\ at' = "make" /\ backup' = source /\ UNCHANGED <<alone, original>>
    BY <1>2 DEF backup_and_modify_source
  <2>2. line' \in test_lines /\ test_lines' = test_lines \ {line'}
    BY <1>2 DEF backup_and_modify_source, TakesLine
  <2>3. ASSUME alone PROVE backup' = original /\ test_lines' = {}
    <3>1. source = original /\ \E l \in Lines : test_lines = {l}
      BY <2>1, <2>3 DEF OneRound
    <3>2. PICK l \in Lines : test_lines = {l}
      BY <3>1
    <3> QED
      BY <2>1, <2>2, <3>1, <3>2
  <2> QED
    BY <2>1, <2>3 DEF OneRound
<1>3. CASE run_make
  <2>1. /\ at = "make" /\ at' \in {"copy", NextRound}
        /\ UNCHANGED <<sources, test_lines, alone, original>>
    BY <1>3 DEF run_make
  <2>2. alone => NextRound = "restore"
    BY <2>1 DEF OneRound, NextRound
  <2> QED
    BY <2>1, <2>2 DEF OneRound, sources
<1>4. CASE copy_output_files
  <2>1. at = "copy" /\ at' = NextRound /\ UNCHANGED <<sources, test_lines, alone, original>>
    BY <1>4 DEF copy_output_files, script
  <2>2. alone => NextRound = "restore"
    BY <2>1 DEF OneRound, NextRound
  <2> QED
    BY <2>1, <2>2 DEF OneRound, sources
<1>5. CASE restore_source
  BY <1>5 DEF restore_source, OneRound, script
<1>6. CASE Exit
  BY <1>6 DEF Exit, OneRound
<1>7. CASE Edit
  BY <1>7 DEF Edit, OneRound, script
<1>8. CASE EditOther \/ \E level \in {"4", "other"} : Make(level) \/ MakeFails(level)
  BY <1>8 DEF EditOther, Make, MakeFails, OneRound, sources, script
<1>9. CASE End \/ UNCHANGED vars
  BY <1>9 DEF End, vars, OneRound
<1> QED
  BY <1>1, <1>2, <1>3, <1>4, <1>5, <1>6, <1>7, <1>8, <1>9 DEF Next

\* A run for one test puts the registrations back, whether its make succeeds or not
\* and whatever was edited, built or interrupted before it.
THEOREM OneTestRestores == Spec => []OneTestIsRestored
<1>1. OneRound => OneTestIsRestored
  BY DEF OneRound, OneTestIsRestored
<1> QED
  BY <1>1, InitOneRound, NextOneRound, PTL DEF Spec
-----------------------------------------------------------------------------
\* An ELF that is not older than the object is linked from it.
Linked ==
  build.object.time > 0 /\ build.object.time <= build.elf.time => build.elf.runs = build.object.runs

\* An object that is not older than the source is the source's, or restore_source has put
\* the source back behind it.  No source is dated 0, as an object is that is not there.
Hidden ==
  /\ sourceTime > 0 /\ backupTime > 0
  /\ sourceTime <= build.object.time => build.object.runs = source \/ PutBack

\* What make does to an object that it finds or that it has removed
LEMMA MakeCompiles ==
  ASSUME CompileTypeOK, sourceTime > 0, NEW level \in Logs, NEW dir \in Builds
  PROVE  LET object == Compiled(Objects(level, dir), Dep(dir))
         IN  \/ object = [runs |-> source, time |-> clock + 1]
             \/ /\ object = dir.object /\ sourceTime <= object.time
                /\ ~(Outdated(dir) /\ dir.object.time <= clock)
                /\ ~StartsOver(dir) => level = dir.log
<1> DEFINE old == Objects(level, dir)
<1>1. CASE old.time < sourceTime \/ old.time < Dep(dir)
  BY <1>1 DEF Compiled
<1>2. CASE ~(old.time < sourceTime) /\ ~(old.time < Dep(dir))
  <2>1. Compiled(old, Dep(dir)) = old
    BY <1>2 DEF Compiled
  <2>2. clock \in Nat /\ sourceTime \in Nat /\ dir.object.time \in Nat /\ old \in Files /\ old.time \in Nat
    BY MakeTyped DEF CompileTypeOK, Builds, Files
  <2>3. old # Absent
    BY <1>2, <2>2 DEF Absent
  <2>4. old = dir.object /\ (~StartsOver(dir) => level = dir.log)
    BY <2>3 DEF Objects, Cleaned
  <2>5. ~(Outdated(dir) /\ dir.object.time <= clock)
    BY <1>2, <2>2, <2>4 DEF Dep
  <2> QED
    BY <1>2, <2>1, <2>2, <2>4, <2>5
<1> QED
  BY <1>1, <1>2

\* A make keeps both, failed or not, from the directory it begins with.
LEMMA MakeKeeps ==
  ASSUME CompileTypeOK, sourceTime > 0, sourceTime <= clock, NEW level \in Logs, NEW dir \in Builds,
         dir.elf.time <= clock,
         dir.object.time > 0 /\ dir.object.time <= dir.elf.time => dir.elf.runs = dir.object.runs,
         sourceTime <= dir.object.time => dir.object.runs = source \/ PutBack,
         NEW b \in {Made(level, dir)} \union Failures(level, dir)
  PROVE  /\ b.object.time > 0 /\ b.object.time <= b.elf.time => b.elf.runs = b.object.runs
         /\ sourceTime <= b.object.time => b.object.runs = source \/ PutBack
<1> DEFINE new == Compiled(Objects(level, dir), Dep(dir))
<1>1. clock \in Nat /\ sourceTime \in Nat /\ dir.elf.time \in Nat
  BY DEF CompileTypeOK, Builds, Files
<1>2. new = [runs |-> source, time |-> clock + 1] \/ new = dir.object
  BY MakeCompiles
<1> HIDE DEF new
<1>3. CASE b.object \in {dir.object, Absent} /\ b.elf = dir.elf
  BY <1>1, <1>3 DEF Absent
<1>4. CASE b.object = new /\ (b.elf = dir.elf \/ b.elf = b.object)
  BY <1>1, <1>2, <1>4
<1> QED
  BY <1>3, <1>4, MakeLeaves DEF new

LEMMA InitHidden == Init => Linked /\ Hidden
  BY DEF Init, Linked, Hidden, Empty, Absent

LEMMA NextHidden == CInv /\ Linked /\ Hidden /\ [Next]_vars => Linked' /\ Hidden'
<1> SUFFICES ASSUME CInv, Linked, Hidden, [Next]_vars PROVE Linked' /\ Hidden'
  OBVIOUS
<1>1. /\ CompileTypeOK /\ clock \in Nat /\ build \in Builds /\ sourceTime \in Nat
      /\ build.object.time \in Nat /\ build.elf.time \in Nat
      /\ sourceTime <= clock /\ build.object.time <= clock /\ build.elf.time <= clock
  BY DEF CInv, CompileTypeOK, Dated, Builds, Files
<1>2. "4" \in Logs /\ "other" \in Logs /\ Empty \in Builds
  BY DEF Logs, Empty, Builds, Absent, Files, Sources
<1>3. CASE backup_and_modify_source \/ Edit
  <2>1. /\ sourceTime' = clock + 1 /\ backupTime' \in {sourceTime, backupTime} /\ build' = build
    BY <1>3 DEF backup_and_modify_source, Edit, Tick
  <2> QED
    BY <1>1, <2>1 DEF Linked, Hidden
<1>4. CASE restore_source
  BY <1>4 DEF restore_source, Linked, Hidden, PutBack
<1>5. CASE run_make
  <2>1. /\ build' \in {Made("4", Directory)} \union Failures("4", Directory) /\ UNCHANGED sources
    BY <1>5 DEF run_make
  <2>2. /\ Directory \in Builds /\ Directory.elf.time <= clock
        /\ Directory.object.time > 0 /\ Directory.object.time <= Directory.elf.time
             => Directory.elf.runs = Directory.object.runs
        /\ sourceTime <= Directory.object.time => Directory.object.runs = source \/ PutBack
    BY <1>1, <1>2 DEF Directory, Empty, Absent, Linked, Hidden
  <2>3. /\ build'.object.time > 0 /\ build'.object.time <= build'.elf.time
             => build'.elf.runs = build'.object.runs
        /\ sourceTime <= build'.object.time => build'.object.runs = source \/ PutBack
    BY <1>1, <1>2, <2>1, <2>2, MakeKeeps DEF Hidden
  <2> QED
    BY <2>1, <2>3 DEF Linked, Hidden, PutBack, sources
<1>6. ASSUME NEW level \in {"4", "other"}, Make(level) \/ MakeFails(level) PROVE Linked' /\ Hidden'
  <2>1. /\ build' \in {Made(level, build)} \union Failures(level, build) /\ UNCHANGED sources /\ level \in Logs
    BY <1>2, <1>6 DEF Make, MakeFails
  <2>2. /\ build'.object.time > 0 /\ build'.object.time <= build'.elf.time
             => build'.elf.runs = build'.object.runs
        /\ sourceTime <= build'.object.time => build'.object.runs = source \/ PutBack
    BY <1>1, <2>1, MakeKeeps DEF Linked, Hidden
  <2> QED
    BY <2>1, <2>2 DEF Linked, Hidden, PutBack, sources
<1>7. CASE EditOther
  <2>1. build'.object = build.object /\ build'.elf = build.elf /\ UNCHANGED sources
    BY <1>1, <1>7 DEF EditOther, Builds
  <2> QED
    BY <2>1 DEF Linked, Hidden, PutBack, sources
<1>8. CASE Start \/ copy_output_files \/ Exit \/ End \/ UNCHANGED vars
  <2>1. UNCHANGED <<build, sources>>
    BY <1>8 DEF Start, copy_output_files, Exit, End, vars, sources
  <2> QED
    BY <2>1 DEF Linked, Hidden, PutBack, sources
<1> QED
  BY <1>3, <1>4, <1>5, <1>6, <1>7, <1>8 DEF Next

\* What a make by hand builds that is not the source's
LEMMA HandMakes ==
  ASSUME CInv, Linked, Hidden, NEW level \in {"4", "other"}, Make(level)
  PROVE  \/ build'.elf.runs = source
         \/ PutBack /\ ~Outdated(build) /\ (level = build.log \/ ~build.others)
<1> DEFINE object == Compiled(Objects(level, build), Dep(build))
<1>1. /\ CompileTypeOK /\ build \in Builds /\ level \in Logs /\ sourceTime > 0 /\ sourceTime \in Nat
      /\ clock \in Nat /\ build.elf.time \in Nat /\ build.object.time \in Nat
      /\ build.elf.time <= clock /\ build.object.time <= clock
  BY DEF CInv, CompileTypeOK, Dated, Builds, Files, Logs, Hidden
<1>2. build'.elf = IF build.elf.time < object.time THEN object ELSE build.elf
  BY DEF Make, Made
<1>3. \/ object = [runs |-> source, time |-> clock + 1]
      \/ /\ object = build.object /\ sourceTime <= object.time
         /\ ~Outdated(build) /\ (~StartsOver(build) => level = build.log)
  BY <1>1, MakeCompiles
<1> HIDE DEF object
<1>4. CASE object = [runs |-> source, time |-> clock + 1]
  <2>1. build.elf.time < object.time
    BY <1>1, <1>4
  <2> QED
    BY <1>2, <1>4, <2>1
<1>5. CASE /\ object = build.object /\ sourceTime <= object.time
           /\ ~Outdated(build) /\ (~StartsOver(build) => level = build.log)
  <2>1. build'.elf.runs = object.runs
    BY <1>1, <1>2, <1>5 DEF Linked
  <2>2. object.runs = source \/ PutBack
    BY <1>5 DEF Hidden
  <2> QED
    BY <1>5, <2>1, <2>2 DEF StartsOver
<1> QED
  BY <1>3, <1>4, <1>5

\* A make by hand builds the registrations as they stand, but for the two ways in which
\* the mtime that restore_source has put back can hide them.
THEOREM HandMakesBuild == Spec => HandMakesBuildTheSource
<1>1. CInv /\ Linked /\ Hidden =>
        \A level \in {"4", "other"} :
          Make(level) => \/ build'.elf.runs = source
                         \/ PutBack /\ ~Outdated(build) /\ (level = build.log \/ ~build.others)
  BY HandMakes
<1>2. Spec => [](CInv /\ Linked /\ Hidden)
  BY InitCompile, NextCompile, InitHidden, NextHidden, PTL DEF Spec
<1> QED
  BY <1>1, <1>2, PTL DEF HandMakesBuildTheSource, Spec
===============================================================================
