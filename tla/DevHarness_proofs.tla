-------------------------- MODULE DevHarness_proofs --------------------------
(***************************************************************************)
(* Proofs about DevHarness, for any number of terminals, edits and         *)
(* commands, whatever compilers are installed, and about the remote        *)
(* configuration of the same script, for any number of setups.             *)
(***************************************************************************)
EXTENDS DevHarness, RemoteSetup, TLAPS

Command ==
  [pc : {Idle} \cup Steps, verb : Verbs, since : Nat, count : 0..2, ran : 0..2,
   tested : {<<>>} \cup {<<v>> : v \in Nat}, n : Nat]

(***************************************************************************)
(* The invariant of a scope and of the commands that work on it, in parts. *)
(***************************************************************************)
Types ==
  /\ sources \in 0..MaxEdits
  /\ declared \in 0..2 /\ registered \in 0..2
  /\ cache \in {"none", "noCompiler"} \cup Compilers
  /\ binary \in {<<>>} \cup {<<v>> : v \in Nat}
  /\ msvc \in [Terminals -> BOOLEAN]
  /\ command \in [Terminals -> Command]
  /\ verdict \in [Terminals -> {"none", "success", "failure"}]

\* Only Build Tools give a shell the MSVC environment.
EnvironmentNeedsTools ==
  /\ cache = "MSVC" => HasBuildTools
  /\ \A t \in Terminals : msvc[t] => HasBuildTools

\* A directory has tests, a binary or a command past its configuration only
\* once it has a compiler, which it then keeps.
ConfiguredFirst ==
  /\ binary # <<>> \/ registered > 0 => cache \in Compilers
  /\ \A t \in Terminals :
       command[t].pc \in {"ensureAgain", "build", "count", "run", "dispatch"} => cache \in Compilers

\* A command that is about to build has set up what the cache asks for.
EnvironmentIsSetUp ==
  \A t \in Terminals : At(t, "build") /\ cache = "MSVC" => msvc[t]

\* What a command has built is not older than the command.
BinaryIsFresh ==
  \A t \in Terminals :
    /\ command[t].since <= sources
    /\ command[t].pc \in {"count", "run", "dispatch"} =>
         binary # <<>> /\ binary[1] >= command[t].since

\* One command at a time, if they do not overlap.
OneAtATime ==
  ~Overlap => \A t, u \in Terminals : ~At(t, Idle) /\ ~At(u, Idle) => t = u

\* What was counted is still registered when it is run, if no other command is
\* under way; what has run was one test of a fresh binary.
CountedIsRegistered ==
  ~Overlap => \A t \in Terminals : At(t, "run") => registered = 1 /\ command[t].count = 1

OneFreshTest(t) ==
  /\ command[t].ran = 1 /\ command[t].count = 1
  /\ command[t].tested # <<>> /\ command[t].tested[1] >= command[t].since

RanOneFreshTest ==
  ~Overlap => \A t \in Terminals :
    /\ At(t, "dispatch") => OneFreshTest(t)
    /\ verdict[t] = "success" /\ command[t].verb # "build" => OneFreshTest(t)

\* A verdict is that of the command that has ended.
VerdictAtEnd == \A t \in Terminals : verdict[t] # "none" => At(t, Idle)

IInv ==
  /\ Types
  /\ EnvironmentNeedsTools
  /\ ConfiguredFirst
  /\ EnvironmentIsSetUp
  /\ BinaryIsFresh
  /\ OneAtATime
  /\ CountedIsRegistered
  /\ RanOneFreshTest
  /\ VerdictAtEnd

LEMMA Initially == Init => IInv
<1> SUFFICES ASSUME Init PROVE IInv
  OBVIOUS
<1>1. Types
  <2>1. sources \in 0..MaxEdits /\ declared \in 0..2 /\ registered \in 0..2
    BY HarnessAssumption DEF Init
  <2>2. cache \in {"none", "noCompiler"} \cup Compilers /\ binary \in {<<>>} \cup {<<v>> : v \in Nat}
    BY DEF Init
  <2>3. msvc \in [Terminals -> BOOLEAN]
    BY DEF Init
  <2>4. command \in [Terminals -> Command]
    BY DEF Init, Command, Idle, Verbs
  <2>5. verdict \in [Terminals -> {"none", "success", "failure"}]
    BY DEF Init
  <2>6. QED
    BY <2>1, <2>2, <2>3, <2>4, <2>5 DEF Types
<1>2. EnvironmentNeedsTools
  BY DEF Init, EnvironmentNeedsTools
<1>3. ConfiguredFirst /\ EnvironmentIsSetUp
  BY DEF Init, ConfiguredFirst, EnvironmentIsSetUp, At, Idle
<1>4. BinaryIsFresh /\ OneAtATime /\ CountedIsRegistered
  BY DEF Init, BinaryIsFresh, OneAtATime, CountedIsRegistered, At, Idle
<1>5. RanOneFreshTest /\ VerdictAtEnd
  BY DEF Init, RanOneFreshTest, VerdictAtEnd, At, Idle
<1>6. QED
  BY <1>1, <1>2, <1>3, <1>4, <1>5 DEF IInv

-----------------------------------------------------------------------------
(***************************************************************************)
(* One lemma for each action of the harness. What the environment needs and what  *)
(* is typed comes first, then the parts one by one.                        *)
(***************************************************************************)
LEMMA BeginStep ==
  ASSUME IInv, NEW t \in Terminals, NEW verb \in Verbs, Begin(t, verb)
  PROVE  IInv'
<1> USE DEF IInv, Types, Command, dirs, Begin, At, Idle
<1>1. Types'
  BY DEF Verbs, Steps, Compilers
<1>2. EnvironmentNeedsTools'
  BY <1>1 DEF EnvironmentNeedsTools, Compilers
<1>3. ConfiguredFirst'
  BY <1>1 DEF ConfiguredFirst, Compilers
<1>4. EnvironmentIsSetUp'
  BY <1>1 DEF EnvironmentIsSetUp, ConfiguredFirst, Compilers
<1>5. BinaryIsFresh'
  BY <1>1 DEF BinaryIsFresh
<1>6. OneAtATime'
  BY <1>1 DEF OneAtATime, Steps
<1>7. CountedIsRegistered'
  BY <1>1 DEF CountedIsRegistered, OneAtATime
<1>8. RanOneFreshTest'
  BY <1>1 DEF RanOneFreshTest, OneFreshTest, CountedIsRegistered, BinaryIsFresh, VerdictAtEnd
<1>9. VerdictAtEnd'
  BY <1>1 DEF VerdictAtEnd, Steps
<1>10. QED
  BY <1>1, <1>2, <1>3, <1>4, <1>5, <1>6, <1>7, <1>8, <1>9

LEMMA FailStep ==
  ASSUME IInv, NEW t \in Terminals, Fail(t)
  PROVE  IInv'
<1> USE DEF IInv, Types, Command, dirs, Fail, End, At, Idle
<1>1. Types'
  BY DEF Verbs, Steps, Compilers
<1>2. EnvironmentNeedsTools'
  BY <1>1 DEF EnvironmentNeedsTools, Compilers
<1>3. ConfiguredFirst'
  BY <1>1 DEF ConfiguredFirst, Compilers
<1>4. EnvironmentIsSetUp'
  BY <1>1 DEF EnvironmentIsSetUp, ConfiguredFirst, Compilers
<1>5. BinaryIsFresh'
  BY <1>1 DEF BinaryIsFresh
<1>6. OneAtATime'
  BY <1>1 DEF OneAtATime, Steps
<1>7. CountedIsRegistered'
  BY <1>1 DEF CountedIsRegistered, OneAtATime
<1>8. RanOneFreshTest'
  BY <1>1 DEF RanOneFreshTest, OneFreshTest, CountedIsRegistered, BinaryIsFresh, VerdictAtEnd
<1>9. VerdictAtEnd'
  BY <1>1 DEF VerdictAtEnd, Steps
<1>10. QED
  BY <1>1, <1>2, <1>3, <1>4, <1>5, <1>6, <1>7, <1>8, <1>9

LEMMA EnsureStep ==
  ASSUME IInv, NEW t \in Terminals, EnsureToolchain(t, "ensure", "configure")
  PROVE  IInv'
<1> USE DEF IInv, Types, Command, dirs, EnsureToolchain, GoTo, NeedsMsvc, At, Idle
<1>1. Types'
  BY DEF Verbs, Steps, Compilers
<1>2. EnvironmentNeedsTools'
  BY <1>1 DEF EnvironmentNeedsTools, Compilers
<1>3. ConfiguredFirst'
  BY <1>1 DEF ConfiguredFirst, Compilers
<1>4. EnvironmentIsSetUp'
  BY <1>1 DEF EnvironmentIsSetUp, ConfiguredFirst, Compilers
<1>5. BinaryIsFresh'
  BY <1>1 DEF BinaryIsFresh
<1>6. OneAtATime'
  BY <1>1 DEF OneAtATime, Steps
<1>7. CountedIsRegistered'
  BY <1>1 DEF CountedIsRegistered, OneAtATime
<1>8. RanOneFreshTest'
  BY <1>1 DEF RanOneFreshTest, OneFreshTest, CountedIsRegistered, BinaryIsFresh, VerdictAtEnd
<1>9. VerdictAtEnd'
  BY <1>1 DEF VerdictAtEnd, Steps
<1>10. QED
  BY <1>1, <1>2, <1>3, <1>4, <1>5, <1>6, <1>7, <1>8, <1>9

LEMMA ConfigureStep ==
  ASSUME IInv, NEW t \in Terminals, Configure(t)
  PROVE  IInv'
<1> USE DEF IInv, Types, Command, dirs, Configure, GoTo, Offered, At, Idle
<1>1. Types'
  BY DEF Verbs, Steps, Compilers
<1>2. EnvironmentNeedsTools'
  BY <1>1 DEF EnvironmentNeedsTools, Compilers
<1>3. ConfiguredFirst'
  BY <1>1 DEF ConfiguredFirst, Compilers
<1>4. EnvironmentIsSetUp'
  BY <1>1 DEF EnvironmentIsSetUp, ConfiguredFirst, Compilers
<1>5. BinaryIsFresh'
  BY <1>1 DEF BinaryIsFresh
<1>6. OneAtATime'
  BY <1>1 DEF OneAtATime, Steps
<1>7. CountedIsRegistered'
  BY <1>1 DEF CountedIsRegistered, OneAtATime
<1>8. RanOneFreshTest'
  BY <1>1 DEF RanOneFreshTest, OneFreshTest, CountedIsRegistered, BinaryIsFresh, VerdictAtEnd
<1>9. VerdictAtEnd'
  BY <1>1 DEF VerdictAtEnd, Steps
<1>10. QED
  BY <1>1, <1>2, <1>3, <1>4, <1>5, <1>6, <1>7, <1>8, <1>9

LEMMA FailToConfigureStep ==
  ASSUME IInv, NEW t \in Terminals, FailToConfigure(t)
  PROVE  IInv'
<1> USE DEF IInv, Types, Command, dirs, FailToConfigure, End, Offered, At, Idle
<1>1. Types'
  BY DEF Verbs, Steps, Compilers
<1>2. EnvironmentNeedsTools'
  BY <1>1 DEF EnvironmentNeedsTools, Compilers
<1>3. ConfiguredFirst'
  BY <1>1 DEF ConfiguredFirst, Compilers
<1>4. EnvironmentIsSetUp'
  BY <1>1 DEF EnvironmentIsSetUp, ConfiguredFirst, Compilers
<1>5. BinaryIsFresh'
  BY <1>1 DEF BinaryIsFresh
<1>6. OneAtATime'
  BY <1>1 DEF OneAtATime, Steps
<1>7. CountedIsRegistered'
  BY <1>1 DEF CountedIsRegistered, OneAtATime
<1>8. RanOneFreshTest'
  BY <1>1 DEF RanOneFreshTest, OneFreshTest, CountedIsRegistered, BinaryIsFresh, VerdictAtEnd
<1>9. VerdictAtEnd'
  BY <1>1 DEF VerdictAtEnd, Steps
<1>10. QED
  BY <1>1, <1>2, <1>3, <1>4, <1>5, <1>6, <1>7, <1>8, <1>9

LEMMA EnsureAgainStep ==
  ASSUME IInv, NEW t \in Terminals, EnsureToolchain(t, "ensureAgain", "build")
  PROVE  IInv'
<1> USE DEF IInv, Types, Command, dirs, EnsureToolchain, GoTo, NeedsMsvc, At, Idle
<1>1. Types'
  BY DEF Verbs, Steps, Compilers
<1>2. EnvironmentNeedsTools'
  BY <1>1 DEF EnvironmentNeedsTools, Compilers
<1>3. ConfiguredFirst'
  BY <1>1 DEF ConfiguredFirst, Compilers
<1>4. EnvironmentIsSetUp'
  BY <1>1 DEF EnvironmentIsSetUp, ConfiguredFirst, Compilers
<1>5. BinaryIsFresh'
  BY <1>1 DEF BinaryIsFresh
<1>6. OneAtATime'
  BY <1>1 DEF OneAtATime, Steps
<1>7. CountedIsRegistered'
  BY <1>1 DEF CountedIsRegistered, OneAtATime
<1>8. RanOneFreshTest'
  BY <1>1 DEF RanOneFreshTest, OneFreshTest, CountedIsRegistered, BinaryIsFresh, VerdictAtEnd
<1>9. VerdictAtEnd'
  BY <1>1 DEF VerdictAtEnd, Steps
<1>10. QED
  BY <1>1, <1>2, <1>3, <1>4, <1>5, <1>6, <1>7, <1>8, <1>9

LEMMA BuildTargetStep ==
  ASSUME IInv, NEW t \in Terminals, BuildTarget(t)
  PROVE  IInv'
<1> USE DEF IInv, Types, Command, dirs, BuildTarget, At, Idle
<1>0. /\ command' = [command EXCEPT ![t].pc = IF command[t].verb = "build" THEN Idle ELSE "count"]
      /\ verdict' = [verdict EXCEPT ![t] = IF command[t].verb = "build" THEN "success" ELSE @]
  BY DEF After, End, GoTo, Last, Verbs
<1>1. Types'
  <2>1. binary' \in {<<>>} \cup {<<v>> : v \in Nat}
    BY HarnessAssumption
  <2>2. command' \in [Terminals -> Command]
    <3> DEFINE reached == IF command[t].verb = "build" THEN Idle ELSE "count"
    <3>1. reached \in {Idle} \cup Steps
      BY DEF Steps
    <3>2. command' = [command EXCEPT ![t].pc = reached]
      BY <1>0
    <3> HIDE DEF reached
    <3>3. QED
      BY <3>1, <3>2
  <2>3. QED
    BY <1>0, <2>1, <2>2 DEF Compilers
<1>2. EnvironmentNeedsTools'
  BY <1>0, <1>1 DEF EnvironmentNeedsTools, Compilers, Verbs
<1>3. ConfiguredFirst'
  BY <1>0, <1>1 DEF ConfiguredFirst, Compilers, Verbs
<1>4. EnvironmentIsSetUp'
  BY <1>0, <1>1 DEF EnvironmentIsSetUp, ConfiguredFirst, Compilers, Verbs
<1>5. BinaryIsFresh'
  BY <1>0, <1>1 DEF BinaryIsFresh, Verbs
<1>6. OneAtATime'
  BY <1>0, <1>1 DEF OneAtATime, Steps, Verbs
<1>7. CountedIsRegistered'
  BY <1>0, <1>1 DEF CountedIsRegistered, OneAtATime, Verbs
<1>8. RanOneFreshTest'
  BY <1>0, <1>1 DEF RanOneFreshTest, OneFreshTest, CountedIsRegistered, BinaryIsFresh, VerdictAtEnd, Verbs
<1>9. VerdictAtEnd'
  BY <1>0, <1>1 DEF VerdictAtEnd, Steps, Verbs
<1>10. QED
  BY <1>1, <1>2, <1>3, <1>4, <1>5, <1>6, <1>7, <1>8, <1>9

LEMMA FailToBuildStep ==
  ASSUME IInv, NEW t \in Terminals, FailToBuild(t)
  PROVE  IInv'
<1> USE DEF IInv, Types, Command, dirs, FailToBuild, End, At, Idle
<1>1. Types'
  BY DEF Verbs, Steps, Compilers
<1>2. EnvironmentNeedsTools'
  BY <1>1 DEF EnvironmentNeedsTools, Compilers
<1>3. ConfiguredFirst'
  BY <1>1 DEF ConfiguredFirst, Compilers
<1>4. EnvironmentIsSetUp'
  BY <1>1 DEF EnvironmentIsSetUp, ConfiguredFirst, Compilers
<1>5. BinaryIsFresh'
  BY <1>1 DEF BinaryIsFresh
<1>6. OneAtATime'
  BY <1>1 DEF OneAtATime, Steps
<1>7. CountedIsRegistered'
  BY <1>1 DEF CountedIsRegistered, OneAtATime
<1>8. RanOneFreshTest'
  BY <1>1 DEF RanOneFreshTest, OneFreshTest, CountedIsRegistered, BinaryIsFresh, VerdictAtEnd
<1>9. VerdictAtEnd'
  BY <1>1 DEF VerdictAtEnd, Steps
<1>10. QED
  BY <1>1, <1>2, <1>3, <1>4, <1>5, <1>6, <1>7, <1>8, <1>9

LEMMA CountTestsStep ==
  ASSUME IInv, NEW t \in Terminals, CountTests(t)
  PROVE  IInv'
<1> USE DEF IInv, Types, Command, dirs, CountTests, At, Idle
<1>1. Types'
  BY DEF Verbs, Steps, Compilers
<1>2. EnvironmentNeedsTools'
  BY <1>1 DEF EnvironmentNeedsTools, Compilers
<1>3. ConfiguredFirst'
  BY <1>1 DEF ConfiguredFirst, Compilers
<1>4. EnvironmentIsSetUp'
  BY <1>1 DEF EnvironmentIsSetUp, ConfiguredFirst, Compilers
<1>5. BinaryIsFresh'
  BY <1>1 DEF BinaryIsFresh
<1>6. OneAtATime'
  BY <1>1 DEF OneAtATime, Steps
<1>7. CountedIsRegistered'
  BY <1>1 DEF CountedIsRegistered, OneAtATime
<1>8. RanOneFreshTest'
  BY <1>1 DEF RanOneFreshTest, OneFreshTest, CountedIsRegistered, BinaryIsFresh, VerdictAtEnd
<1>9. VerdictAtEnd'
  BY <1>1 DEF VerdictAtEnd, Steps
<1>10. QED
  BY <1>1, <1>2, <1>3, <1>4, <1>5, <1>6, <1>7, <1>8, <1>9

LEMMA RunTestsStep ==
  ASSUME IInv, NEW t \in Terminals, RunTests(t)
  PROVE  IInv'
<1> USE DEF IInv, Types, Command, dirs, RunTests, At, Idle
<1>0. /\ command' = [command EXCEPT ![t].ran = registered, ![t].tested = binary,
                   ![t].pc = IF command[t].verb = "test" THEN Idle ELSE "dispatch"]
      /\ verdict' = [verdict EXCEPT ![t] = IF command[t].verb = "test" THEN "success" ELSE @]
  BY DEF Last, Verbs
<1>1. Types'
  BY <1>0 DEF Verbs, Steps, Compilers
<1>2. EnvironmentNeedsTools'
  BY <1>0, <1>1 DEF EnvironmentNeedsTools, Compilers, Verbs
<1>3. ConfiguredFirst'
  BY <1>0, <1>1 DEF ConfiguredFirst, Compilers, Verbs
<1>4. EnvironmentIsSetUp'
  BY <1>0, <1>1 DEF EnvironmentIsSetUp, ConfiguredFirst, Compilers, Verbs
<1>5. BinaryIsFresh'
  BY <1>0, <1>1 DEF BinaryIsFresh, Verbs
<1>6. OneAtATime'
  BY <1>0, <1>1 DEF OneAtATime, Steps, Verbs
<1>7. CountedIsRegistered'
  BY <1>0, <1>1 DEF CountedIsRegistered, OneAtATime, Verbs
<1>8. RanOneFreshTest'
  BY <1>0, <1>1 DEF RanOneFreshTest, OneFreshTest, CountedIsRegistered, BinaryIsFresh, VerdictAtEnd, Verbs
<1>9. VerdictAtEnd'
  BY <1>0, <1>1 DEF VerdictAtEnd, Steps, Verbs
<1>10. QED
  BY <1>1, <1>2, <1>3, <1>4, <1>5, <1>6, <1>7, <1>8, <1>9

LEMMA CheckDispatchStep ==
  ASSUME IInv, NEW t \in Terminals, CheckDispatch(t)
  PROVE  IInv'
<1> USE DEF IInv, Types, Command, dirs, CheckDispatch, At, Idle
<1>0. /\ command' = [command EXCEPT ![t].pc = Idle]
      /\ verdict' = [verdict EXCEPT ![t] = IF command[t].verb = "verify" THEN "success" ELSE @]
  BY DEF After, End, GoTo, Last, Verbs
<1>1. Types'
  BY <1>0 DEF Verbs, Steps, Compilers
<1>2. EnvironmentNeedsTools'
  BY <1>0, <1>1 DEF EnvironmentNeedsTools, Compilers, Verbs
<1>3. ConfiguredFirst'
  BY <1>0, <1>1 DEF ConfiguredFirst, Compilers, Verbs
<1>4. EnvironmentIsSetUp'
  BY <1>0, <1>1 DEF EnvironmentIsSetUp, ConfiguredFirst, Compilers, Verbs
<1>5. BinaryIsFresh'
  BY <1>0, <1>1 DEF BinaryIsFresh, Verbs
<1>6. OneAtATime'
  BY <1>0, <1>1 DEF OneAtATime, Steps, Verbs
<1>7. CountedIsRegistered'
  BY <1>0, <1>1 DEF CountedIsRegistered, OneAtATime, Verbs
<1>8. RanOneFreshTest'
  BY <1>0, <1>1 DEF RanOneFreshTest, OneFreshTest, CountedIsRegistered, BinaryIsFresh, VerdictAtEnd, Verbs
<1>9. VerdictAtEnd'
  BY <1>0, <1>1 DEF VerdictAtEnd, Steps, Verbs
<1>10. QED
  BY <1>1, <1>2, <1>3, <1>4, <1>5, <1>6, <1>7, <1>8, <1>9

-----------------------------------------------------------------------------
LEMMA Invariance == IInv /\ [Next]_vars => IInv'
<1> SUFFICES ASSUME IInv, [Next]_vars PROVE IInv'
  OBVIOUS
<1>1. CASE Edit
  <2> USE <1>1 DEF IInv, Types, Edit, dirs, At
  <2>1. Types'
    BY HarnessAssumption
  <2>2. EnvironmentNeedsTools' /\ ConfiguredFirst'
    BY DEF EnvironmentNeedsTools, ConfiguredFirst
  <2>3. EnvironmentIsSetUp' /\ OneAtATime' /\ VerdictAtEnd'
    BY DEF EnvironmentIsSetUp, OneAtATime, VerdictAtEnd
  <2>4. BinaryIsFresh'
    BY DEF BinaryIsFresh, Command
  <2>5. CountedIsRegistered' /\ RanOneFreshTest'
    BY DEF CountedIsRegistered, RanOneFreshTest, OneFreshTest
  <2>6. QED
    BY <2>1, <2>2, <2>3, <2>4, <2>5
<1>2. ASSUME NEW t \in Terminals, NEW verb \in Verbs, Begin(t, verb)
      PROVE  IInv'
  BY <1>2, BeginStep
<1>3. ASSUME NEW t \in Terminals, Step(t)
      PROVE  IInv'
  BY <1>3, EnsureStep, ConfigureStep, FailToConfigureStep, EnsureAgainStep, BuildTargetStep,
     FailToBuildStep, CountTestsStep, RunTestsStep, CheckDispatchStep, FailStep DEF Step
<1>4. CASE UNCHANGED vars
  BY <1>4
  DEF vars, IInv, Types, EnvironmentNeedsTools, ConfiguredFirst, EnvironmentIsSetUp, BinaryIsFresh,
      OneAtATime, CountedIsRegistered, RanOneFreshTest, OneFreshTest, VerdictAtEnd, At
<1>5. QED
  BY <1>1, <1>2, <1>3, <1>4 DEF Next

LEMMA InvariantHolds == Spec => []IInv
<1>1. QED
  BY Initially, Invariance, PTL DEF Spec

-----------------------------------------------------------------------------
\* Commands that do not overlap: a success is one test, of a binary built from
\* sources no older than the command, whatever earlier commands left behind and
\* whatever was edited meanwhile (Invoke-DevSliceCtest).
THEOREM ScopeInvariantHolds ==
  ASSUME ~Overlap
  PROVE  Spec => []ScopeInvariant
<1>1. IInv => ScopeInvariant
  BY DEF IInv, Types, EnvironmentNeedsTools, ConfiguredFirst, RanOneFreshTest, OneFreshTest,
         ScopeInvariant, TypeOK, SuccessIsOneFreshTest, Command
<1>2. QED
  BY <1>1, InvariantHolds, PTL

\* Then the number that is reported is also the number that ran; it is only by
\* another terminal in the same directory that it can be wrong.
THEOREM ReportedCountHolds ==
  ASSUME ~Overlap
  PROVE  Spec => []ReportedCountIsTrue
<1>1. IInv => ReportedCountIsTrue
  BY DEF IInv, RanOneFreshTest, OneFreshTest, ReportedCountIsTrue
<1>2. QED
  BY <1>1, InvariantHolds, PTL

\* The compiler in a cache is never driven without its environment, even when
\* commands overlap (Ensure-DevToolchain, called before and after configuring).
THEOREM CompilesInItsEnvironmentHolds == Spec => CompilesInItsEnvironment
<1>1. IInv /\ [Next]_vars =>
        [\A t \in Terminals :
           At(t, "build") /\ command'[t].pc # "build" /\ binary' # binary /\ cache = "MSVC"
             => msvc[t]]_vars
  BY DEF IInv, EnvironmentIsSetUp
<1>2. QED
  BY <1>1, InvariantHolds, PTL DEF Spec, CompilesInItsEnvironment

-----------------------------------------------------------------------------
(***************************************************************************)
(* The remote configuration. What has been answered is what has been asked *)
(* for, and each answer has passed the validation of its prompt.           *)
(***************************************************************************)
Answered(n) == {Fields[k] : k \in 1..n}

AnswersAreValid ==
  /\ pc \in {"idle", "ask", "key", "summary", "write"}
  /\ asked \in 1..6
  /\ pc \in {"ask", "key"} => DOMAIN entered = Answered(asked - 1)
  /\ pc \in {"summary", "write"} => DOMAIN entered = Answered(6)
  /\ \A f \in DOMAIN entered : Taken(f, entered[f])

RemoteInv == AnswersAreValid /\ SavedIsReadable

LEMMA FieldNames ==
  /\ Len(Fields) = 6
  /\ Fields[1] = "host" /\ Fields[2] = "user" /\ Fields[3] = "port"
  /\ Fields[4] = "remoteBaseDirectory" /\ Fields[5] = "sshAlias" /\ Fields[6] = "identityFile"
  BY DEF Fields

LEMMA OneMoreAnswered ==
  ASSUME NEW n \in 0..5
  PROVE  Answered(n + 1) = Answered(n) \cup {Fields[n + 1]}
<1>1. \A k : k \in 1..(n + 1) <=> k \in 1..n \/ k = n + 1
  OBVIOUS
<1>2. QED
  BY <1>1, Zenon DEF Answered

\* A prompt that insists on an answer, and the two that do not, take nothing
\* that the reader refuses in their place.
LEMMA ValidIsReadable ==
  ASSUME NEW config, DOMAIN config = Answered(6), \A f \in DOMAIN config : Taken(f, config[f])
  PROVE  Readable(config)
<1>1. /\ Taken("host", config["host"]) /\ Taken("user", config["user"])
      /\ Taken("port", config["port"])
      /\ Taken("remoteBaseDirectory", config["remoteBaseDirectory"])
      /\ Taken("sshAlias", config["sshAlias"])
      /\ Taken("identityFile", config["identityFile"])
  BY FieldNames DEF Answered
<1>2. Matches(config["host"], {"name", "address"}) /\ Matches(config["user"], {"name"})
  BY <1>1 DEF Taken, Optional, Valid
<1>3. TryParse(config["port"]) >= 1 /\ TryParse(config["port"]) <= 65535
  BY <1>1 DEF Taken, Optional, Valid
<1>4. Matches(config["remoteBaseDirectory"], {"absolute"})
  BY <1>1 DEF Taken, Optional, Valid
<1>5. Blank(config["sshAlias"]) \/ Matches(config["sshAlias"], {"name"})
  BY <1>1 DEF Taken, Optional, Valid
<1>6. Blank(config["identityFile"]) \/ config["identityFile"].kind # "inline"
  BY <1>1 DEF Taken, Optional, Valid
<1>7. QED
  BY <1>2, <1>3, <1>4, <1>5, <1>6 DEF Readable, RefusedPath

LEMMA BeginSetupStep ==
  ASSUME RemoteInv, BeginSetup
  PROVE  RemoteInv'
<1>1. /\ asked' = 1 /\ entered' = [f \in {} |-> Text("")]
      /\ pc' \in {"ask", "idle"} /\ outcome' # "saved"
  BY DEF BeginSetup
<1>2. DOMAIN entered' = {}
  BY <1>1
<1>3. Answered(0) = {}
  <2>1. 1..0 = {}
    OBVIOUS
  <2>2. QED
    BY <2>1, Zenon DEF Answered
<1>4. asked' - 1 = 0 /\ asked' \in 1..6
  BY <1>1
<1>5. DOMAIN entered' = Answered(asked' - 1)
  BY <1>2, <1>3, <1>4, Zenon
<1>6. AnswersAreValid'
  BY <1>1, <1>2, <1>4, <1>5 DEF AnswersAreValid
<1>7. SavedIsReadable'
  BY <1>1 DEF SavedIsReadable
<1>8. QED
  BY <1>6, <1>7 DEF RemoteInv

LEMMA AskStep ==
  ASSUME RemoteInv, Ask
  PROVE  RemoteInv'
<1> DEFINE f == Fields[asked]
<1>1. PICK answer \in {Given(f, a) : a \in Texts(f)} :
        IF Taken(f, answer)
        THEN /\ entered' = [g \in DOMAIN entered \cup {f} |-> IF g = f THEN answer ELSE entered[g]]
             /\ asked' = IF asked < Len(Fields) THEN asked + 1 ELSE asked
             /\ pc' = CASE f = "sshAlias" -> "key" [] f = "identityFile" -> "summary"
                        [] OTHER -> "ask"
        ELSE UNCHANGED <<entered, asked, pc>>
  BY DEF Ask
<1>2. /\ pc = "ask" /\ file' = file /\ outcome' = outcome
      /\ asked \in 1..6 /\ DOMAIN entered = Answered(asked - 1)
      /\ \A g \in DOMAIN entered : Taken(g, entered[g])
  BY DEF Ask, RemoteInv, AnswersAreValid
<1>3. SavedIsReadable'
  BY <1>2 DEF RemoteInv, SavedIsReadable
<1>4. CASE Taken(f, answer)
  <2>1. DOMAIN entered' = DOMAIN entered \cup {f}
    BY <1>1, <1>4
  <2>2. DOMAIN entered' = Answered(asked)
    BY <1>2, <2>1, OneMoreAnswered
  <2>3. \A g \in DOMAIN entered' : entered'[g] = IF g = f THEN answer ELSE entered[g]
    BY <1>1, <1>4
  <2>4. \A g \in DOMAIN entered' : Taken(g, entered'[g])
    BY <1>2, <1>4, <2>1, <2>3
  <2>5. CASE asked = 6
    <3>1. f = "identityFile" /\ asked' = asked /\ pc' = "summary"
      BY <1>1, <1>4, <2>5, FieldNames
    <3>2. QED
      BY <1>2, <1>3, <2>2, <2>4, <2>5, <3>1 DEF RemoteInv, AnswersAreValid
  <2>6. CASE asked # 6
    <3>1. asked' = asked + 1 /\ asked < 6
      BY <1>1, <1>2, <1>4, <2>6, FieldNames
    <3>2. pc' \in {"ask", "key"}
      BY <1>1, <1>2, <1>4, <2>6, FieldNames
    <3>3. asked' - 1 = asked /\ asked' \in 1..6
      BY <1>2, <3>1
    <3>4. DOMAIN entered' = Answered(asked' - 1)
      BY <2>2, <3>3, Zenon
    <3>5. QED
      BY <1>3, <2>4, <3>2, <3>3, <3>4 DEF RemoteInv, AnswersAreValid
  <2>7. QED
    BY <2>5, <2>6
<1>5. CASE ~Taken(f, answer)
  <2>1. UNCHANGED <<entered, asked, pc>>
    BY <1>1, <1>5
  <2>2. QED
    BY <1>3, <2>1 DEF RemoteInv, AnswersAreValid
<1>6. QED
  BY <1>4, <1>5

LEMMA WriteStep ==
  ASSUME RemoteInv, Write
  PROVE  RemoteInv'
<1>1. Readable(entered)
  BY ValidIsReadable DEF Write, RemoteInv, AnswersAreValid
<1>2. outcome' = "saved" => file' = <<entered>>
  BY DEF Write
<1>3. SavedIsReadable'
  <2>1. outcome' = "saved" => file' # <<>> /\ file'[1] = entered
    BY <1>2
  <2>2. QED
    BY <1>1, <2>1 DEF SavedIsReadable
<1>4. AnswersAreValid'
  BY DEF Write, RemoteInv, AnswersAreValid
<1>5. QED
  BY <1>3, <1>4 DEF RemoteInv

\* What the wizard has saved every reader accepts, whatever is answered, at
\* whatever point it is interrupted, and however often the file is edited
\* between (Invoke-DevRemoteSetup, Read-DevRemoteConfigFile).
THEOREM SavedIsReadableHolds == RemoteSpec => []SavedIsReadable
<1>1. RemoteInit => RemoteInv
  BY DEF RemoteInit, RemoteInv, AnswersAreValid, SavedIsReadable
<1>2. RemoteInv /\ [RemoteNext]_remote => RemoteInv'
  <2> SUFFICES ASSUME RemoteInv, [RemoteNext]_remote PROVE RemoteInv'
    OBVIOUS
  <2> USE DEF RemoteInv, AnswersAreValid, SavedIsReadable
  <2>1. CASE BeginSetup
    BY <2>1, BeginSetupStep
  <2>2. CASE Ask
    BY <2>2, AskStep
  <2>3. CASE MakeKey
    BY <2>3 DEF MakeKey
  <2>4. CASE Confirm
    BY <2>4 DEF Confirm
  <2>5. CASE Write
    BY <2>5, WriteStep
  <2>6. CASE Interrupt
    BY <2>6 DEF Interrupt
  <2>7. CASE EditFile
    BY <2>7 DEF EditFile
  <2>8. CASE Read
    BY <2>8 DEF Read
  <2>9. CASE UNCHANGED remote
    BY <2>9 DEF remote
  <2>10. QED
    BY <2>1, <2>2, <2>3, <2>4, <2>5, <2>6, <2>7, <2>8, <2>9 DEF RemoteNext
<1>3. RemoteInv => SavedIsReadable
  BY DEF RemoteInv
<1>4. QED
  BY <1>1, <1>2, <1>3, PTL DEF RemoteSpec
=============================================================================
