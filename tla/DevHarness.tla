----------------------------- MODULE DevHarness ------------------------------
(***************************************************************************)
(* The scoped commands of tools/dev/Dev.psm1: `build`, `test` and `verify` *)
(* configure and build a scope in its own directory, count the tests       *)
(* registered there under its regular expression, run them, and (verify)   *)
(* check the dispatch of the control plane. A command runs to its end or   *)
(* to its first failing step, or is interrupted; nothing is undone.        *)
(* Several terminals run commands, and the sources are edited meanwhile.   *)
(*                                                                         *)
(* The model is of one scope: the scopes share nothing but the sources.    *)
(* CMake and CTest are modelled from how the commands use them.            *)
(***************************************************************************)
EXTENDS Naturals, FiniteSets

CONSTANTS
  Terminals,      \* shells that run dev.ps1
  Overlap,        \* whether two of them may run commands at the same time
  HasBuildTools,  \* whether Visual Studio Build Tools are installed
  HasOther,       \* whether GCC or Clang is on the PATH
  MaxEdits,       \* bound on the edits of the sources
  MaxCommands     \* bound on the commands of a terminal

ASSUME HarnessAssumption ==
  /\ Overlap \in BOOLEAN /\ HasBuildTools \in BOOLEAN /\ HasOther \in BOOLEAN
  /\ MaxEdits \in Nat /\ MaxCommands \in Nat

Verbs     == {"build", "test", "verify"}
Compilers == {"MSVC", "other"}
Steps     == {"ensure", "configure", "ensureAgain", "build", "count", "run", "dispatch"}

VARIABLES
  sources,     \* how often the sources have been edited
  declared,    \* the tests that CMakeLists.txt adds under the expression
  cache,       \* CMakeCache.txt: "none", "noCompiler" or a compiler
  registered,  \* the tests registered in the build directory
  binary,      \* <<>> or <<version of the sources it was built from>>
  msvc,        \* per terminal, Test-DevHasMsvcEnvironment
  command,     \* per terminal: [pc, verb, since, count, ran, tested, n]
  verdict      \* per terminal, of its last command: "none", "success" or "failure"

dirs == <<cache, registered, binary>>
vars == <<sources, declared, cache, registered, binary, msvc, command, verdict>>

Idle == "idle"

Init ==
  /\ sources = 0
  /\ declared \in 0..2
  /\ cache = "none"
  /\ registered = 0
  /\ binary = <<>>
  /\ msvc \in [Terminals -> IF HasBuildTools THEN BOOLEAN ELSE {FALSE}]
  /\ command = [t \in Terminals |->
       [pc |-> Idle, verb |-> "build", since |-> 0, count |-> 0, ran |-> 0, tested |-> <<>>, n |-> 0]]
  /\ verdict = [t \in Terminals |-> "none"]

\* A developer edits the sources, the registration of the test included.
Edit ==
  /\ sources < MaxEdits
  /\ sources' = sources + 1
  /\ declared' \in 0..2
  /\ UNCHANGED <<dirs, msvc, command, verdict>>

-----------------------------------------------------------------------------
At(t, step) == command[t].pc = step

GoTo(t, step) == command' = [command EXCEPT ![t].pc = step]

End(t, how) ==
  /\ command' = [command EXCEPT ![t].pc = Idle]
  /\ verdict' = [verdict EXCEPT ![t] = how]

\* Each verb is done after its own last step.
Last == [build |-> "build", test |-> "run", verify |-> "dispatch"]

After(t, step, next) ==
  IF Last[command[t].verb] = step THEN End(t, "success")
  ELSE GoTo(t, next) /\ UNCHANGED verdict

\* Get-DevSliceEnv: cmake and ctest are there; when they are not, it is as if
\* the command were interrupted.
Begin(t, verb) ==
  /\ At(t, Idle) /\ command[t].n < MaxCommands
  /\ Overlap \/ \A u \in Terminals : At(u, Idle)
  /\ command' = [command EXCEPT ![t] = [pc |-> "ensure", verb |-> verb, since |-> sources,
                   count |-> 0, ran |-> 0, tested |-> <<>>, n |-> @.n + 1]]
  /\ verdict' = [verdict EXCEPT ![t] = "none"]
  /\ UNCHANGED <<sources, declared, dirs, msvc>>

\* Mutant of Fail: a step that failed is tried again from the start.
Fail_Retries(t) ==
  /\ command[t].pc \in Steps
  /\ GoTo(t, "ensure")
  /\ UNCHANGED <<sources, declared, dirs, msvc, verdict>>

\* Every native exit code and every missing prerequisite throws.
Fail(t) ==
  /\ command[t].pc \in Steps
  /\ End(t, "failure")
  /\ UNCHANGED <<sources, declared, dirs, msvc>>

\* Ensure-DevToolchain needs the MSVC environment for a cache that selects it,
\* and for a directory without a cache where Build Tools are installed.
NeedsMsvc == cache = "MSVC" \/ (cache = "none" /\ HasBuildTools)

\* Mutant of EnsureToolchain: only a fresh directory is looked at.
EnsureToolchain_FreshOnly(t, step, next) ==
  /\ At(t, step)
  /\ cache = "none" => msvc[t] \/ HasBuildTools \/ HasOther
  /\ msvc' = [msvc EXCEPT ![t] = @ \/ (cache = "none" /\ HasBuildTools)]
  /\ GoTo(t, next)
  /\ UNCHANGED <<sources, declared, dirs, verdict>>

EnsureToolchain(t, step, next) ==
  /\ At(t, step)
  /\ cache = "none" => msvc[t] \/ HasBuildTools \/ HasOther
  /\ msvc' = [msvc EXCEPT ![t] = @ \/ NeedsMsvc]
  /\ GoTo(t, next)
  /\ UNCHANGED <<sources, declared, dirs, verdict>>

\* External. `cmake -S -B`: a cache keeps its compiler; without one, a compiler
\* that the environment offers is picked. The tests are registered anew.
Offered(t) == (IF msvc[t] THEN {"MSVC"} ELSE {}) \cup (IF HasOther THEN {"other"} ELSE {})

Configure(t) ==
  /\ At(t, "configure")
  /\ cache' \in IF cache \in Compilers THEN {cache} ELSE Offered(t)
  /\ registered' = declared
  /\ GoTo(t, "ensureAgain")
  /\ UNCHANGED <<sources, declared, binary, msvc, verdict>>

\* Mutant of FailToConfigure: the tests are registered before there is a compiler.
FailToConfigure_Registers(t) ==
  /\ At(t, "configure")
  /\ cache = "none"
  /\ cache' = "noCompiler"
  /\ registered' = declared
  /\ End(t, "failure")
  /\ UNCHANGED <<sources, declared, binary, msvc>>

\* External. A first configuration that fails leaves a cache, with or without a
\* compiler in it.
FailToConfigure(t) ==
  /\ At(t, "configure")
  /\ cache = "none"
  /\ cache' \in {"noCompiler"} \cup Offered(t)
  /\ End(t, "failure")
  /\ UNCHANGED <<sources, declared, registered, binary, msvc>>

\* External. `cmake --build` configures again what was edited, then compiles.
BuildTarget(t) ==
  /\ At(t, "build")
  /\ registered' = declared
  /\ binary' = <<sources>>
  /\ After(t, "build", "count")
  /\ UNCHANGED <<sources, declared, cache, msvc>>

\* External. What was edited may be configured again before the build fails.
FailToBuild(t) ==
  /\ At(t, "build")
  /\ registered' = declared
  /\ End(t, "failure")
  /\ UNCHANGED <<sources, declared, cache, binary, msvc>>

\* Mutant of CountTests: a test that matches is enough.
CountTests_AtLeastOne(t) ==
  /\ At(t, "count")
  /\ registered >= 1
  /\ command' = [command EXCEPT ![t].count = registered, ![t].pc = "run"]
  /\ UNCHANGED <<sources, declared, dirs, msvc, verdict>>

\* The zero-match guard: `ctest -N -R` has to find exactly one test.
CountTests(t) ==
  /\ At(t, "count")
  /\ registered = 1
  /\ command' = [command EXCEPT ![t].count = registered, ![t].pc = "run"]
  /\ UNCHANGED <<sources, declared, dirs, msvc, verdict>>

\* `ctest -R` runs whatever is registered now, and succeeds on no test at all.
RunTests(t) ==
  LET ended == IF Last[command[t].verb] = "run" THEN Idle ELSE "dispatch"
  IN  /\ At(t, "run")
      /\ command' = [command EXCEPT ![t].ran = registered, ![t].tested = binary,
                                    ![t].pc = ended]
      /\ verdict' = [verdict EXCEPT ![t] = IF ended = Idle THEN "success" ELSE @]
      /\ UNCHANGED <<sources, declared, dirs, msvc>>

\* The dispatch checks re-enter dev.ps1 only with arguments it rejects.
CheckDispatch(t) ==
  /\ At(t, "dispatch")
  /\ After(t, "dispatch", Idle)
  /\ UNCHANGED <<sources, declared, dirs, msvc>>

Step(t) ==
  \/ EnsureToolchain(t, "ensure", "configure")
  \/ Configure(t) \/ FailToConfigure(t)
  \/ EnsureToolchain(t, "ensureAgain", "build")
  \/ BuildTarget(t) \/ FailToBuild(t)
  \/ CountTests(t) \/ RunTests(t)
  \/ CheckDispatch(t)
  \/ Fail(t)

Next ==
  \/ Edit
  \/ \E t \in Terminals : \/ \E verb \in Verbs : Begin(t, verb)
                          \/ Step(t)

\* The tools return, with success or without.
Spec == Init /\ [][Next]_vars /\ \A t \in Terminals : WF_vars(Step(t))

-----------------------------------------------------------------------------
\* The types of the state; a build directory that has tests or a binary has
\* been configured, and one that is configured with MSVC has Build Tools.
TypeOK ==
  /\ sources \in 0..MaxEdits
  /\ declared \in 0..2 /\ registered \in 0..2
  /\ cache \in {"none", "noCompiler"} \cup Compilers
  /\ msvc \in [Terminals -> BOOLEAN]
  /\ \A t \in Terminals : command[t].pc \in {Idle} \cup Steps
  /\ verdict \in [Terminals -> {"none", "success", "failure"}]
  /\ binary # <<>> \/ registered > 0 => cache \in Compilers
  /\ cache = "MSVC" => HasBuildTools

\* A `test` or `verify` that reports success has run exactly one test, and the
\* binary it ran was built from sources at least as new as those the command
\* started on, whatever was edited meanwhile and whatever an earlier command
\* left in the directory (development-workflow.md, section 4).
SuccessIsOneFreshTest ==
  \A t \in Terminals :
    verdict[t] = "success" /\ command[t].verb # "build" =>
      /\ command[t].ran = 1
      /\ command[t].tested # <<>> /\ command[t].tested[1] >= command[t].since

\* The invariant of a scope: what its directory may hold, and what a success
\* means (Invoke-DevSliceCtest).
ScopeInvariant == TypeOK /\ SuccessIsOneFreshTest

\* The number a command reports as run is the number CTest ran (the last line
\* of Invoke-DevSliceCtest).
ReportedCountIsTrue ==
  \A t \in Terminals :
    verdict[t] = "success" /\ command[t].verb # "build" => command[t].ran = command[t].count

\* The compiler a directory was configured with is never driven without its
\* environment: whatever shell builds in a directory whose cache selects MSVC
\* has initialized it first (the comment above Get-DevVsInstallDir).
CompilesInItsEnvironment ==
  [][\A t \in Terminals :
       At(t, "build") /\ command'[t].pc # "build" /\ binary' # binary /\ cache = "MSVC"
         => msvc[t]]_vars

\* Every command that is begun ends with a verdict.
CommandsEnd == \A t \in Terminals : ~At(t, Idle) ~> At(t, Idle)
=============================================================================
