------------------------- MODULE RiskEvolutionProofs -------------------------
(***************************************************************************)
(* Type correctness of the risk cascade, the increase of the versions in   *)
(* the risk history through any number of crashes, and that no stale risk  *)
(* is left when the loop is idle, for any injections and any number of     *)
(* requests.                                                               *)
(***************************************************************************)
EXTENDS RiskEvolution, SequenceTheorems, TLAPS

(* An assessment ends its program, and takes a number of its own: unless a  *)
(* step before it takes one, no risk has the number in use.                 *)
AssessesLast == \A k \in DOMAIN program : program[k] = "assess" => k = Len(program)
Below(n) == \A i \in DOMAIN risks : risks[i].version < n
FreshNumber ==
    ~rewound /\ (\E k \in DOMAIN program : program[k] = "assess") =>
        (\E j \in DOMAIN program : program[j] = "bump") \/ Below(version)
NumbersTaken == ~rewound => Below(version + 1)

(* A number that is still to be saved has not been given to a risk, so that *)
(* a restart may give it out again.                                         *)
SavesBumped ==
    \A k \in DOMAIN program : program[k] = "save" =>
        \/ k > 1 /\ program[k - 1] = "bump"
        \/ k = 1 /\ (~rewound => Below(version))

IInv ==
    /\ TypeOK /\ AssessesLast /\ FreshNumber /\ NumbersTaken /\ SavesBumped
    /\ RiskVersionsIncrease
-----------------------------------------------------------------------------
LEMMA ProgramTypes ==
    Evolution \in Seq(Steps) /\ Assessment \in Seq(Steps) /\ Pipeline \in Seq(Steps)
  BY DEF Evolution, Assessment, Pipeline, Steps

(* Whatever program begins assesses last, if at all, and with a number of   *)
(* its own.                                                                 *)
LEMMA ProgramsBegin ==
    ASSUME NEW p \in {Evolution, Assessment, Pipeline}
    PROVE  /\ \A k \in DOMAIN p : p[k] = "assess" => k = Len(p)
           /\ \E j \in DOMAIN p : p[j] = "bump"
           /\ \A k \in DOMAIN p : p[k] = "save" => k > 1 /\ p[k - 1] = "bump"
<1>1. CASE p = Evolution
  BY <1>1 DEF Evolution
<1>2. CASE p = Assessment
  BY <1>2 DEF Assessment
<1>3. CASE p = Pipeline
  BY <1>3 DEF Pipeline
<1>. QED
  BY <1>1, <1>2, <1>3

(* What is left of a program after its first step. *)
LEMMA ProgramAdvances ==
    ASSUME TypeOK, NEW s, Step(s)
    PROVE  /\ program # <<>> /\ program[1] = s
           /\ program' \in Seq(Steps)
           /\ Len(program') = Len(program) - 1
           /\ DOMAIN program = 1 .. Len(program)
           /\ DOMAIN program' = 1 .. Len(program) - 1
           /\ \A k \in 1 .. Len(program) - 1 : program'[k] = program[k + 1]
  BY HeadTailProperties, LenProperties DEF TypeOK, Step
-----------------------------------------------------------------------------
(* The floods that the handlers are given. *)
LEMMA FloodTypes ==
    /\ Nothing \in Flood /\ Baseline \in Snapshot
    /\ \A run \in Run : AtStage(run, RunStage) \in Flood
  BY BoundsAssumption DEF Nothing, Baseline, Flood, Snapshot, Run, AtStage, RunStage

LEMMA InitTyped == Init => TypeOK
<1>. SUFFICES ASSUME Init PROVE TypeOK
  OBVIOUS
<1>1. snapshots \in Seq(Snapshot) /\ snapshots # <<>>
  BY FloodTypes DEF Init
<1>2. requests \in Run /\ restarts \in 0 .. MaxRestarts
  BY BoundsAssumption DEF Init, Run
<1>. QED
  <2>1. version \in Versions /\ saved \in Versions \cup {Torn}
    BY DEF Init, Versions, FirstVersion
  <2>2. risks \in Seq(Risk) /\ program \in Seq(Steps)
    BY DEF Init
  <2>3. tasks \in Seq([program : {Evolution, Assessment}, work : Flood])
    BY DEF Init
  <2>4. work \in Flood /\ rewound \in BOOLEAN /\ unannounced \subseteq 1 .. Len(snapshots)
    BY FloodTypes DEF Init
  <2>. QED
    BY <1>1, <1>2, <2>1, <2>2, <2>3, <2>4 DEF TypeOK

(* A run or an injection that begins. *)
LEMMA RequestTyped ==
    ASSUME TypeOK, NEW p \in Seq(Steps), NEW area \in Nat, NEW prob \in 0 .. 100,
           Request(p, area, prob)
    PROVE  TypeOK'
<1>1. requests' \in Run
  BY BoundsAssumption DEF TypeOK, Request, Run
<1>2. work' \in Flood /\ program' \in Seq(Steps)
  BY <1>1 DEF Request, Begin, Flood
<1>3. UNCHANGED <<version, saved, snapshots, risks, tasks, restarts, rewound, unannounced>>
  BY DEF Request, histories
<1>. QED
  <2>1. version' \in Versions /\ saved' \in Versions \cup {Torn}
    BY <1>3 DEF TypeOK
  <2>2. snapshots' \in Seq(Snapshot) /\ snapshots' # <<>> /\ risks' \in Seq(Risk)
    BY <1>3 DEF TypeOK
  <2>3. tasks' \in Seq([program : {Evolution, Assessment}, work : Flood])
    BY <1>3 DEF TypeOK
  <2>4. /\ restarts' \in 0 .. MaxRestarts /\ rewound' \in BOOLEAN
        /\ unannounced' \subseteq 1 .. Len(snapshots')
    BY <1>3 DEF TypeOK
  <2>. QED
    BY <1>1, <1>2, <2>1, <2>2, <2>3, <2>4 DEF TypeOK

(* A position in the snapshots stays one when a snapshot is added. *)
LEMMA PositionsKept ==
    ASSUME TypeOK, NEW shot \in Snapshot, snapshots' = Append(snapshots, shot)
    PROVE  /\ snapshots' \in Seq(Snapshot) /\ snapshots' # <<>>
           /\ unannounced \subseteq 1 .. Len(snapshots')
<1>1. /\ snapshots' \in Seq(Snapshot) /\ snapshots' # <<>>
      /\ Len(snapshots') = Len(snapshots) + 1 /\ Len(snapshots) \in Nat
  BY AppendProperties, LenProperties DEF TypeOK
<1>2. unannounced \subseteq 1 .. Len(snapshots)
  BY DEF TypeOK
<1>. QED
  BY <1>1, <1>2

LEMMA StepTyped ==
    ASSUME TypeOK, [Next]_vars
    PROVE  TypeOK'
<1>1. CASE RunForecast
  BY <1>1, ProgramTypes, RequestTyped DEF RunForecast
<1>2. ASSUME NEW s \in Injected, Inject(s) PROVE TypeOK'
  BY <1>2, ProgramTypes, RequestTyped, InjectedAssumption DEF Inject
<1>3. CASE BumpVersion
  <2>1. version' \in Versions /\ saved' \in Versions \cup {Torn}
    BY <1>3 DEF TypeOK, BumpVersion, Versions, FirstVersion
  <2>2. program' \in Seq(Steps)
    BY <1>3, ProgramAdvances DEF BumpVersion
  <2>. QED
    BY <1>3, <2>1, <2>2 DEF TypeOK, BumpVersion, histories
<1>4. CASE SaveSnapshot
  <2>1. saved' \in Versions \cup {Torn}
    BY <1>4 DEF TypeOK, SaveSnapshot
  <2>2. program' \in Seq(Steps)
    BY <1>4, ProgramAdvances DEF SaveSnapshot
  <2>. QED
    BY <1>4, <2>1, <2>2 DEF TypeOK, SaveSnapshot, histories
<1>5. CASE PublishHydrology
  <2>1. AtStage(work.run, RunStage) \in Flood
    BY FloodTypes DEF TypeOK, Flood
  <2>2. tasks' \in Seq([program : {Evolution, Assessment}, work : Flood])
    BY <1>5, <2>1, AppendProperties DEF TypeOK, PublishHydrology
  <2>. QED
    BY <1>5, <2>2, ProgramAdvances DEF TypeOK, PublishHydrology, histories
<1>6. CASE StoreSnapshot
  <2>1. [flood |-> work, material |-> Material(work, Current.flood)] \in Snapshot
    BY DEF TypeOK, Snapshot, Material
  <2>2. /\ snapshots' \in Seq(Snapshot) /\ snapshots' # <<>>
        /\ unannounced' \subseteq 1 .. Len(snapshots')
    BY <1>6, <2>1, PositionsKept DEF TypeOK, StoreSnapshot, histories
  <2>. QED
    BY <1>6, <2>2, ProgramAdvances DEF TypeOK, StoreSnapshot, histories
<1>7. CASE Announce
  <2>1. tasks' \in Seq([program : {Evolution, Assessment}, work : Flood])
    BY <1>7, AppendProperties DEF TypeOK, Announce, AssessmentOf
  <2>. QED
    BY <1>7, <2>1, ProgramAdvances DEF TypeOK, Announce, histories
<1>8. CASE Assess
  <2>1. [version |-> version, flood |-> work] \in Risk
    BY DEF TypeOK, Risk, Versions
  <2>2. risks' \in Seq(Risk)
    BY <1>8, <2>1, AppendProperties DEF TypeOK, Assess
  <2>. QED
    BY <1>8, <2>2, ProgramAdvances DEF TypeOK, Assess, histories
<1>9. CASE StartHandler
  <2>1. /\ Head(tasks) \in [program : {Evolution, Assessment}, work : Flood]
        /\ tasks' \in Seq([program : {Evolution, Assessment}, work : Flood])
    BY <1>9, HeadTailProperties DEF TypeOK, StartHandler
  <2>2. work' \in Flood /\ program' \in Seq(Steps)
    BY <1>9, <2>1, ProgramTypes DEF StartHandler, Begin
  <2>. QED
    BY <1>9, <2>1, <2>2 DEF TypeOK, StartHandler, histories
<1>10. CASE Restart
  <2>1. version' \in Versions
    BY <1>10 DEF TypeOK, Restart, Restored, Versions, FirstVersion
  <2>2. /\ snapshots' \in Seq(Snapshot) /\ snapshots' # <<>>
        /\ unannounced' \subseteq 1 .. Len(snapshots')
    BY <1>10, FloodTypes, PositionsKept DEF TypeOK, Restart
  <2>3. restarts' \in 0 .. MaxRestarts /\ rewound' \in BOOLEAN
    BY <1>10, BoundsAssumption DEF TypeOK, Restart
  <2>4. /\ program' \in Seq(Steps) /\ work' \in Flood
        /\ tasks' \in Seq([program : {Evolution, Assessment}, work : Flood])
    BY <1>10, FloodTypes DEF Restart
  <2>. QED
    BY <1>10, <2>1, <2>2, <2>3, <2>4 DEF TypeOK, Restart
<1>11. CASE UNCHANGED vars
  BY <1>11 DEF vars, TypeOK
<1>12. CASE PublicationFails
  <2>1. /\ unannounced' \subseteq 1 .. Len(snapshots')
        /\ UNCHANGED <<version, saved, snapshots, risks, work, requests, restarts, rewound>>
    <3>1. Len(snapshots) \in 1 .. Len(snapshots)
      BY LenProperties, EmptySeq DEF TypeOK
    <3>. QED
      BY <1>12, <3>1 DEF TypeOK, PublicationFails
  <2>2. /\ tasks' \in Seq([program : {Evolution, Assessment}, work : Flood])
        /\ program' \in Seq(Steps)
    <3>1. AssessmentOf(work) \in [program : {Evolution, Assessment}, work : Flood]
      BY DEF TypeOK, AssessmentOf
    <3>2. tasks' = tasks \/ tasks' = Append(tasks, AssessmentOf(work))
      BY <1>12 DEF PublicationFails
    <3>3. program' \in Seq(Steps)
      BY <1>12 DEF PublicationFails
    <3>. DEFINE T == [program : {Evolution, Assessment}, work : Flood]
                t == AssessmentOf(work)
    <3>4. tasks \in Seq(T) /\ t \in T
      BY <3>1 DEF TypeOK
    <3>5. tasks' = tasks \/ tasks' = Append(tasks, t)
      BY <3>2
    <3>. HIDE DEF T, t
    <3>6. tasks' \in Seq(T)
      BY <3>4, <3>5, AppendProperties
    <3>. QED
      BY <3>3, <3>6 DEF T
  <2>. QED
    BY <2>1, <2>2 DEF TypeOK
<1>. QED
  BY <1>1, <1>2, <1>3, <1>4, <1>5, <1>6, <1>7, <1>8, <1>9, <1>10, <1>11, <1>12 DEF Next, LoopStep

-----------------------------------------------------------------------------
(* What a program that begins and a step that ends do to the assessment a   *)
(* program ends with.                                                       *)
LEMMA BeginAssesses ==
    ASSUME NEW p \in {Evolution, Assessment, Pipeline}, program' = p
    PROVE  /\ AssessesLast' /\ SavesBumped'
           /\ \E j \in DOMAIN program' : program'[j] = "bump"
  BY ProgramsBegin DEF AssessesLast, SavesBumped

LEMMA StepAssesses ==
    ASSUME TypeOK, AssessesLast, NEW s, Step(s)
    PROVE  /\ AssessesLast'
           /\ (\E k \in DOMAIN program' : program'[k] = "assess") =>
                \E k \in DOMAIN program : program[k] = "assess"
           /\ s # "bump" =>
                ((\E j \in DOMAIN program : program[j] = "bump") =>
                  \E j \in DOMAIN program' : program'[j] = "bump")
           /\ s = "assess" => program' = <<>>
<1>1. /\ program # <<>> /\ program[1] = s
      /\ program' \in Seq(Steps)
      /\ Len(program') = Len(program) - 1
      /\ DOMAIN program = 1 .. Len(program)
      /\ DOMAIN program' = 1 .. Len(program) - 1
      /\ \A k \in 1 .. Len(program) - 1 : program'[k] = program[k + 1]
  BY ProgramAdvances
<1>2. Len(program) \in Nat \ {0}
  BY <1>1, EmptySeq DEF TypeOK
<1>3. AssessesLast'
  <2>. SUFFICES ASSUME NEW k \in DOMAIN program', program'[k] = "assess"
                PROVE  k = Len(program')
    BY DEF AssessesLast
  <2>1. k + 1 \in DOMAIN program /\ program[k + 1] = "assess" /\ k \in Int
    BY <1>1, <1>2
  <2>2. k + 1 = Len(program)
    BY <2>1 DEF AssessesLast
  <2>. QED
    BY <1>1, <1>2, <2>1, <2>2
<1>4. (\E k \in DOMAIN program' : program'[k] = "assess") =>
        \E k \in DOMAIN program : program[k] = "assess"
  BY <1>1, <1>2
<1>5. ASSUME s # "bump", NEW j \in DOMAIN program, program[j] = "bump"
      PROVE  \E i \in DOMAIN program' : program'[i] = "bump"
  <2>1. j - 1 \in DOMAIN program' /\ program'[j - 1] = "bump"
    BY <1>1, <1>2, <1>5
  <2>. QED
    BY <2>1
<1>6. s = "assess" => program' = <<>>
  <2>1. s = "assess" => Len(program') = 0
    BY <1>1, <1>2 DEF AssessesLast
  <2>. QED
    BY <1>1, <2>1, EmptySeq
<1>. QED
  BY <1>3, <1>4, <1>5, <1>6

(* ... and to a save that follows it. *)
LEMMA StepSaves ==
    ASSUME TypeOK, SavesBumped, NEW s, Step(s), s = "bump" => (~rewound' => Below(version)')
    PROVE  SavesBumped'
<1>1. /\ program[1] = s /\ DOMAIN program = 1 .. Len(program)
      /\ DOMAIN program' = 1 .. Len(program) - 1
      /\ \A k \in 1 .. Len(program) - 1 : program'[k] = program[k + 1]
  BY ProgramAdvances
<1>2. Len(program) \in Nat
  BY LenProperties DEF TypeOK
<1>. SUFFICES ASSUME NEW k \in DOMAIN program', program'[k] = "save"
              PROVE  \/ k > 1 /\ program'[k - 1] = "bump"
                     \/ k = 1 /\ (~rewound' => Below(version)')
  BY DEF SavesBumped
<1>3. program[k + 1] = "save" /\ k + 1 \in DOMAIN program /\ k + 1 > 1
  BY <1>1, <1>2
<1>4. program[k] = "bump"
  BY <1>3, <1>1, <1>2 DEF SavesBumped
<1>. QED
  BY <1>1, <1>2, <1>4

-----------------------------------------------------------------------------
(* The invariant of the version numbers; a step either takes a number, gives *)
(* one to a risk, restarts the server or leaves both alone.                  *)
Numbers ==
    AssessesLast /\ FreshNumber /\ NumbersTaken /\ SavesBumped /\ RiskVersionsIncrease

(* The versions that are compared are numbers. *)
LEMMA VersionsAreNumbers ==
    ASSUME TypeOK
    PROVE  /\ \A i \in DOMAIN risks : risks[i].version \in Nat
           /\ version \in Nat
<1>1. \A i \in DOMAIN risks : risks[i] \in Risk
  BY ElementOfSeq, LenProperties DEF TypeOK
<1>. QED
  BY <1>1 DEF TypeOK, Risk, Versions

LEMMA BeginNumbers ==
    ASSUME TypeOK, Numbers, NEW p \in {Evolution, Assessment, Pipeline}, program' = p,
           UNCHANGED <<version, risks, rewound>>
    PROVE  Numbers'
<1>1. AssessesLast' /\ FreshNumber' /\ SavesBumped'
  BY BeginAssesses DEF FreshNumber
<1>2. NumbersTaken' /\ RiskVersionsIncrease'
  BY DEF Numbers, NumbersTaken, RiskVersionsIncrease, Below
<1>. QED
  BY <1>1, <1>2 DEF Numbers

LEMMA KeepNumbers ==
    ASSUME TypeOK, Numbers, NEW s, s # "bump", Step(s),
           UNCHANGED <<version, risks, rewound>>
    PROVE  Numbers'
<1>1. AssessesLast'
  BY StepAssesses DEF Numbers
<1>2. FreshNumber'
  BY StepAssesses DEF Numbers, FreshNumber, Below
<1>3. NumbersTaken' /\ RiskVersionsIncrease'
  BY DEF Numbers, NumbersTaken, RiskVersionsIncrease, Below
<1>4. SavesBumped'
  BY StepSaves DEF Numbers
<1>. QED
  BY <1>1, <1>2, <1>3, <1>4 DEF Numbers

LEMMA BumpNumbers ==
    ASSUME TypeOK, Numbers, BumpVersion
    PROVE  Numbers'
<1>1. AssessesLast'
  BY StepAssesses DEF Numbers, BumpVersion, histories
<1>2. FreshNumber' /\ NumbersTaken'
  BY VersionsAreNumbers DEF Numbers, BumpVersion, FreshNumber, NumbersTaken, Below, histories
<1>3. RiskVersionsIncrease'
  BY DEF Numbers, BumpVersion, RiskVersionsIncrease, histories
<1>4. ~rewound' => Below(version)'
  BY VersionsAreNumbers DEF Numbers, BumpVersion, NumbersTaken, Below, histories
<1>5. SavesBumped'
  BY <1>4, StepSaves DEF Numbers, BumpVersion, histories
<1>. QED
  BY <1>1, <1>2, <1>3, <1>5 DEF Numbers

(* A program that breaks off gives no number to a risk. *)
LEMMA FailNumbers ==
    ASSUME TypeOK, Numbers, PublicationFails
    PROVE  Numbers'
<1>1. program' = <<>> /\ UNCHANGED <<version, risks, rewound>>
  BY DEF PublicationFails
<1>2. AssessesLast' /\ FreshNumber' /\ SavesBumped'
  BY <1>1 DEF AssessesLast, FreshNumber, SavesBumped
<1>3. NumbersTaken' /\ RiskVersionsIncrease'
  BY <1>1 DEF Numbers, NumbersTaken, RiskVersionsIncrease, Below
<1>. QED
  BY <1>2, <1>3 DEF Numbers

LEMMA AssessNumbers ==
    ASSUME TypeOK, Numbers, Assess
    PROVE  Numbers'
<1>1. Step("assess") /\ risks' = Append(risks, [version |-> version, flood |-> work])
      /\ version' = version /\ rewound' = rewound
  BY DEF Assess, histories
<1>2. AssessesLast' /\ program' = <<>>
  BY <1>1, StepAssesses DEF Numbers
<1>3. FreshNumber' /\ SavesBumped'
  BY <1>2 DEF FreshNumber, SavesBumped
<1>4. ASSUME ~rewound PROVE Below(version)
  <2>1. /\ program # <<>> /\ program[1] = "assess"
        /\ DOMAIN program = 1 .. Len(program) /\ Len(program) \in Nat
        /\ DOMAIN program' = 1 .. Len(program) - 1
    BY <1>1, ProgramAdvances, LenProperties DEF TypeOK
  <2>2. Len(program) \in Nat \ {0}
    BY <2>1, EmptySeq DEF TypeOK
  <2>3. Len(program) = 1
    BY <2>1, <2>2 DEF Numbers, AssessesLast
  <2>4. ~\E j \in DOMAIN program : program[j] = "bump"
    BY <2>1, <2>3
  <2>. QED
    BY <1>4, <2>1, <2>2, <2>4 DEF Numbers, FreshNumber
<1>5. [version |-> version, flood |-> work] \in Risk
  BY DEF TypeOK, Risk, Versions
<1>6. /\ Len(risks) \in Nat /\ DOMAIN risks = 1 .. Len(risks)
      /\ DOMAIN risks' = 1 .. Len(risks) + 1
      /\ \A i \in 1 .. Len(risks) : risks'[i] = risks[i]
      /\ risks'[Len(risks) + 1].version = version
  BY <1>1, <1>5, AppendProperties, LenProperties DEF TypeOK
<1>7. NumbersTaken' /\ RiskVersionsIncrease'
  BY <1>1, <1>4, <1>6, VersionsAreNumbers
     DEF Numbers, NumbersTaken, RiskVersionsIncrease, Below
<1>. QED
  BY <1>2, <1>3, <1>7 DEF Numbers

LEMMA RestartNumbers ==
    ASSUME TypeOK, Numbers, Restart
    PROVE  Numbers'
<1>1. AssessesLast' /\ FreshNumber' /\ SavesBumped'
  BY DEF Restart, AssessesLast, FreshNumber, SavesBumped
<1>2. ASSUME ~rewound' PROVE ~rewound /\ Below(version' + 1)
  <2>1. ~rewound /\ ~Behind
    BY <1>2 DEF Restart, TypeOK
  <2>2. CASE saved = version
    <3>1. version' = version
      BY <2>2 DEF Restart, Restored, TypeOK, Versions, Torn, FirstVersion
    <3>. QED
      BY <2>1, <3>1 DEF Numbers, NumbersTaken
  <2>3. CASE Saving /\ saved = version - 1
    <3>1. version' + 1 = version
      BY <2>3 DEF Restart, Restored, TypeOK, Versions, Torn, FirstVersion
    <3>2. program # <<>> /\ program[1] = "save" /\ 1 \in DOMAIN program
      BY <2>3, EmptySeq, LenProperties DEF TypeOK, Saving
    <3>. QED
      BY <2>1, <3>1, <3>2 DEF Numbers, SavesBumped, Below
  <2>. QED
    BY <2>1, <2>2, <2>3 DEF Behind
<1>3. NumbersTaken' /\ RiskVersionsIncrease'
  BY <1>2 DEF Restart, Numbers, NumbersTaken, RiskVersionsIncrease, Below
<1>. QED
  BY <1>1, <1>3 DEF Numbers

-----------------------------------------------------------------------------
LEMMA InitIInv == Init => IInv
<1>. SUFFICES ASSUME Init PROVE IInv
  OBVIOUS
<1>1. TypeOK
  BY InitTyped DEF Init
<1>2. DOMAIN program = {} /\ DOMAIN risks = {}
  BY DEF Init
<1>. QED
  BY <1>1, <1>2
     DEF IInv, AssessesLast, FreshNumber, NumbersTaken, SavesBumped, Below,
         RiskVersionsIncrease

LEMMA NextIInv == IInv /\ [Next]_vars => IInv'
<1>. SUFFICES ASSUME IInv, [Next]_vars PROVE IInv'
  OBVIOUS
<1>1. TypeOK /\ Numbers
  BY DEF IInv, Numbers
<1>2. TypeOK'
  BY <1>1, StepTyped
<1>3. Numbers'
  <2>1. CASE RunForecast \/ \E i \in Injected : Inject(i)
    BY <1>1, <2>1, BeginNumbers DEF RunForecast, Inject, Request, Begin, histories
  <2>2. CASE StartHandler
    <3>1. Head(tasks).program \in {Evolution, Assessment}
      <4>1. Head(tasks) \in [program : {Evolution, Assessment}, work : Flood]
        BY <1>1, <2>2, HeadTailProperties DEF TypeOK, StartHandler
      <4>. QED
        BY <4>1
    <3>. QED
      BY <1>1, <2>2, <3>1, BeginNumbers DEF StartHandler, Begin, histories
  <2>3. CASE BumpVersion
    BY <1>1, <2>3, BumpNumbers
  <2>4. CASE SaveSnapshot
    BY <1>1, <2>4, KeepNumbers DEF SaveSnapshot, histories
  <2>5. CASE PublishHydrology
    BY <1>1, <2>5, KeepNumbers DEF PublishHydrology, histories
  <2>6. CASE StoreSnapshot
    BY <1>1, <2>6, KeepNumbers DEF StoreSnapshot, histories
  <2>7. CASE Announce
    BY <1>1, <2>7, KeepNumbers DEF Announce, histories
  <2>8. CASE Assess
    BY <1>1, <2>8, AssessNumbers
  <2>9. CASE Restart
    BY <1>1, <2>9, RestartNumbers
  <2>11. CASE PublicationFails
    BY <1>1, <2>11, FailNumbers
  <2>10. CASE UNCHANGED vars
    BY <1>1, <2>10 DEF vars, Numbers, AssessesLast, FreshNumber, NumbersTaken, Below,
                       SavesBumped, RiskVersionsIncrease
  <2>. QED
    BY <2>1, <2>2, <2>3, <2>4, <2>5, <2>6, <2>7, <2>8, <2>9, <2>10, <2>11 DEF Next, LoopStep
<1>. QED
  BY <1>2, <1>3 DEF IInv, Numbers

LEMMA Inductive == Spec => []IInv
  BY InitIInv, NextIInv, PTL DEF Spec

(* Every reachable state of the cascade is well typed: the runner, the      *)
(* evolution service, the risk service and their stores.                    *)
THEOREM TypeCorrect == Spec => []TypeOK
<1>1. IInv => TypeOK
  BY DEF IInv
<1>. QED
  BY <1>1, Inductive, PTL

(* increment_state_version numbers the risks in the order of their history, *)
(* across crashes at any step, as long as no restart finds its file torn.   *)
THEOREM VersionsIncrease == Spec => []RiskVersionsIncrease
<1>1. IInv => RiskVersionsIncrease
  BY DEF IInv
<1>. QED
  BY <1>1, Inductive, PTL
-----------------------------------------------------------------------------
(***************************************************************************)
(* No stale risk. A program stores at most one snapshot, which it then     *)
(* announces; until then the flood it is about is the current one. So the  *)
(* last material change, if it got out, is always followed: it is about to *)
(* be announced, or the assessment that will be the last one (of the       *)
(* tasks, else of the program, else the latest in the history) is of that  *)
(* flood or a later. The assessment of a program that has yet to store its *)
(* snapshot does not count: the program may break off before it stores.    *)
(***************************************************************************)
Has(s) == \E k \in DOMAIN program : program[k] = s

Orderly ==
    /\ \A j, k \in DOMAIN program :
          /\ program[j] = "store" /\ program[k] = "store" => j = k
          /\ program[j] = "store" /\ program[k] = "announce" => j < k
          /\ program[j] = "hydrology" /\ program[k] = "store" => j < k
    /\ Has("store") => Has("announce")
    /\ Has("hydrology") => Has("store")

Announcing == Has("announce") /\ ~Has("store")
AnnouncesCurrent == Announcing => work = Current.flood

(* A snapshot of this flood is the i-th or a later one. *)
Since(i, flood) == \E k \in i .. Len(snapshots) : snapshots[k].flood = flood

(* Of the assessments among the tasks, the last is of this flood. *)
Assesses(q) == tasks[q].program = Assessment
Calm == \A q \in DOMAIN tasks : ~Assesses(q)
Waiting(flood) ==
    \E q \in DOMAIN tasks : /\ Assesses(q) /\ tasks[q].work = flood
                           /\ \A r \in DOMAIN tasks : Assesses(r) => r <= q

AssessesNext == Has("assess") /\ ~Has("store")

Followed(i) ==
    \/ Announcing /\ i = Len(snapshots)
    \/ \E flood : Waiting(flood) /\ Since(i, flood)
    \/ Calm /\ AssessesNext /\ Since(i, work)
    \/ Calm /\ ~AssessesNext /\ risks # <<>> /\ Since(i, risks[Len(risks)].flood)
ChangesFollowed ==
    \A i \in DOMAIN snapshots \ unannounced : LastMaterial(i) => Followed(i)

FreshInv == TypeOK /\ AssessesLast /\ Orderly /\ AnnouncesCurrent /\ ChangesFollowed
-----------------------------------------------------------------------------
(* What a step takes off its program. *)
LEMMA HasStep ==
    ASSUME TypeOK, Orderly, NEW s, Step(s)
    PROVE  /\ \A x : Has(x)' => Has(x)
           /\ \A x : Has(x) /\ x # s => Has(x)'
           /\ Has(s) /\ Orderly'
           /\ s = "store" => ~Has("store")' /\ Has("announce")'
           /\ s = "announce" => ~Has("store")
           /\ s = "hydrology" => Has("store")
<1>1. /\ program # <<>> /\ program[1] = s
      /\ Len(program') = Len(program) - 1
      /\ DOMAIN program = 1 .. Len(program)
      /\ DOMAIN program' = 1 .. Len(program) - 1
      /\ \A k \in 1 .. Len(program) - 1 : program'[k] = program[k + 1]
  BY ProgramAdvances
<1>2. Len(program) \in Nat \ {0}
  BY <1>1, EmptySeq DEF TypeOK
<1>. DEFINE n == Len(program)
<1>. HIDE DEF n
<1>3. \A x : Has(x)' => Has(x)
  <2>. SUFFICES ASSUME NEW k \in DOMAIN program' PROVE \E j \in DOMAIN program : program[j] = program'[k]
    BY DEF Has
  <2>1. k + 1 \in DOMAIN program /\ program'[k] = program[k + 1]
    BY <1>1, <1>2
  <2>. QED
    BY <2>1
<1>4. \A x : Has(x) /\ x # s => Has(x)'
  <2>. SUFFICES ASSUME NEW k \in DOMAIN program, program[k] # s
                PROVE  \E j \in DOMAIN program' : program'[j] = program[k]
    BY DEF Has
  <2>1. k - 1 \in DOMAIN program' /\ program'[k - 1] = program[k]
    BY <1>1, <1>2
  <2>. QED
    BY <2>1
<1>5. Has(s) /\ 1 \in DOMAIN program
  BY <1>1, <1>2 DEF Has
<1>6. s = "announce" => ~Has("store")
  BY <1>1, <1>2, <1>5 DEF Orderly, Has
<1>7. s = "store" => ~Has("store")' /\ Has("announce")'
  <2>. SUFFICES ASSUME s = "store" PROVE ~Has("store")'
    BY <1>4, <1>5 DEF Orderly
  <2>1. ASSUME NEW k \in DOMAIN program', program'[k] = "store" PROVE FALSE
    <3>1. k + 1 \in DOMAIN program /\ program[k + 1] = "store" /\ k + 1 # 1
      BY <1>1, <1>2, <2>1
    <3>. QED
      BY <3>1, <1>1, <1>5 DEF Orderly
  <2>. QED
    BY <2>1 DEF Has
<1>8. \A j, k \in DOMAIN program' :
          /\ program'[j] = "store" /\ program'[k] = "store" => j = k
          /\ program'[j] = "store" /\ program'[k] = "announce" => j < k
          /\ program'[j] = "hydrology" /\ program'[k] = "store" => j < k
  <2>. TAKE j, k \in DOMAIN program'
  <2>1. /\ j + 1 \in DOMAIN program /\ program[j + 1] = program'[j]
        /\ k + 1 \in DOMAIN program /\ program[k + 1] = program'[k]
        /\ j \in Int /\ k \in Int
    BY <1>1, <1>2
  <2>2. /\ program[j + 1] = "store" /\ program[k + 1] = "store" => j + 1 = k + 1
        /\ program[j + 1] = "store" /\ program[k + 1] = "announce" => j + 1 < k + 1
        /\ program[j + 1] = "hydrology" /\ program[k + 1] = "store" => j + 1 < k + 1
    BY <2>1 DEF Orderly
  <2>. QED
    BY <2>1, <2>2
<1>9. Has("store")' => Has("announce")'
  BY <1>3, <1>4, <1>6 DEF Orderly
<1>10. Has("hydrology")' => Has("store")'
  <2>1. s = "store" => ~Has("hydrology")
    <3>. SUFFICES ASSUME s = "store", NEW k \in DOMAIN program, program[k] = "hydrology"
                  PROVE  FALSE
      BY DEF Has
    <3>. QED
      BY <1>1, <1>2, <1>5 DEF Orderly
  <2>. QED
    BY <1>3, <1>4, <2>1 DEF Orderly
<1>11. s = "hydrology" => Has("store")
  BY <1>5 DEF Orderly
<1>. QED
  BY <1>3, <1>4, <1>5, <1>6, <1>7, <1>8, <1>9, <1>10, <1>11 DEF Orderly

LEMMA HasBegin ==
    ASSUME NEW p \in {Evolution, Assessment, Pipeline}, program' = p
    PROVE  /\ Orderly' /\ ~Announcing'
           /\ p = Evolution => ~Has("assess")'
           /\ p = Assessment => Has("assess")' /\ ~Has("store")'
           /\ p = Pipeline => Has("assess")' /\ Has("store")'
<1>1. CASE p = Evolution
  <2>1. DOMAIN p = 1 .. 4 /\ p[1] = "store" /\ p[2] = "bump" /\ p[3] = "save"
        /\ p[4] = "announce"
    BY <1>1 DEF Evolution
  <2>. QED
    BY <1>1, <2>1 DEF Has, Orderly, Announcing, Evolution, Assessment, Pipeline
<1>2. CASE p = Assessment
  <2>1. DOMAIN p = 1 .. 3 /\ p[1] = "bump" /\ p[2] = "save" /\ p[3] = "assess"
    BY <1>2 DEF Assessment
  <2>. QED
    BY <1>2, <2>1 DEF Has, Orderly, Announcing, Evolution, Assessment, Pipeline
<1>3. CASE p = Pipeline
  <2>1. /\ DOMAIN p = 1 .. 10 /\ p[1] = "bump" /\ p[2] = "save" /\ p[3] = "hydrology"
        /\ p[4] = "store" /\ p[5] = "bump" /\ p[6] = "save" /\ p[7] = "announce"
        /\ p[8] = "bump" /\ p[9] = "save" /\ p[10] = "assess"
    BY <1>3 DEF Pipeline
  <2>. QED
    BY <1>3, <2>1 DEF Has, Orderly, Announcing, Evolution, Assessment, Pipeline
<1>. QED
  BY <1>1, <1>2, <1>3
-----------------------------------------------------------------------------
(* What becomes of the assessments among the tasks. *)
Task == [program : {Evolution, Assessment}, work : Flood]

LEMMA TaskAdded ==
    ASSUME TypeOK, NEW task \in Task, tasks' = Append(tasks, task)
    PROVE  /\ task.program = Evolution =>
                 (Calm => Calm') /\ \A flood : Waiting(flood) => Waiting(flood)'
           /\ task.program = Assessment => Waiting(task.work)'
<1>1. /\ DOMAIN tasks = 1 .. Len(tasks) /\ Len(tasks) \in Nat
      /\ DOMAIN tasks' = 1 .. Len(tasks) + 1
      /\ \A q \in 1 .. Len(tasks) : tasks'[q] = tasks[q]
      /\ tasks'[Len(tasks) + 1] = task
  BY AppendProperties, LenProperties DEF TypeOK, Task
<1>. DEFINE n == Len(tasks)
<1>2. /\ DOMAIN tasks = 1 .. n /\ n \in Nat /\ DOMAIN tasks' = 1 .. n + 1
      /\ \A q \in 1 .. n : tasks'[q] = tasks[q]
      /\ tasks'[n + 1] = task /\ n + 1 \in DOMAIN tasks'
  BY <1>1
<1>. HIDE DEF n
<1>3. ASSUME task.program = Evolution
      PROVE  (Calm => Calm') /\ \A flood : Waiting(flood) => Waiting(flood)'
  <2>1. task.program # Assessment
    BY <1>3 DEF Evolution, Assessment
  <2>2. \A q \in DOMAIN tasks' : Assesses(q)' => q \in DOMAIN tasks /\ Assesses(q)
    BY <1>2, <2>1 DEF Assesses
  <2>3. \A q \in DOMAIN tasks : q \in DOMAIN tasks' /\ tasks'[q] = tasks[q]
    BY <1>2
  <2>. QED
    BY <2>2, <2>3 DEF Calm, Waiting, Assesses
<1>4. ASSUME task.program = Assessment PROVE Waiting(task.work)'
  BY <1>2, <1>4 DEF Waiting, Assesses
<1>. QED
  BY <1>3, <1>4

LEMMA TaskTaken ==
    ASSUME TypeOK, tasks # <<>>, tasks' = Tail(tasks)
    PROVE  /\ Head(tasks) \in Task
           /\ Head(tasks).program = Evolution =>
                 (Calm => Calm') /\ \A flood : Waiting(flood) => Waiting(flood)'
           /\ Head(tasks).program = Assessment =>
                 /\ ~Calm
                 /\ \A flood : Waiting(flood) =>
                       Waiting(flood)' \/ (Calm' /\ Head(tasks).work = flood)
<1>. DEFINE n == Len(tasks)
            task == Head(tasks)
<1>1. tasks \in Seq(Task)
  BY DEF TypeOK, Task
<1>2. /\ task \in Task /\ task = tasks[1] /\ tasks' \in Seq(Task)
      /\ DOMAIN tasks = 1 .. n /\ n \in Nat
      /\ DOMAIN tasks' = 1 .. n - 1
      /\ \A q \in 1 .. n - 1 : tasks'[q] = tasks[q + 1]
  BY <1>1, HeadTailProperties, LenProperties
<1>3. n # 0
  BY <1>1, EmptySeq
<1>. HIDE DEF n, task
<1>4. \A q \in DOMAIN tasks' : /\ q + 1 \in DOMAIN tasks
                              /\ Assesses(q)' <=> Assesses(q + 1)
  BY <1>2 DEF Assesses
<1>5. \A q \in DOMAIN tasks \ {1} : /\ q - 1 \in DOMAIN tasks'
                                    /\ tasks'[q - 1] = tasks[q]
  BY <1>2
<1>6. ASSUME NEW flood, NEW q \in DOMAIN tasks, q # 1, Assesses(q), tasks[q].work = flood,
             \A r \in DOMAIN tasks : Assesses(r) => r <= q
      PROVE  Waiting(flood)'
  <2>1. q - 1 \in DOMAIN tasks' /\ tasks'[q - 1] = tasks[q] /\ q \in Int
    BY <1>2, <1>5, <1>6
  <2>2. \A r \in DOMAIN tasks' : Assesses(r)' => r <= q - 1
    BY <1>2, <1>4, <1>6, <2>1
  <2>. QED
    BY <1>6, <2>1, <2>2 DEF Waiting, Assesses
<1>7. ASSUME task.program = Evolution
      PROVE  (Calm => Calm') /\ \A flood : Waiting(flood) => Waiting(flood)'
  <2>1. ~Assesses(1)
    BY <1>2, <1>7 DEF Assesses, Evolution, Assessment
  <2>. QED
    BY <1>4, <1>6, <2>1 DEF Calm, Waiting
<1>8. ASSUME task.program = Assessment
      PROVE  /\ ~Calm
             /\ \A flood : Waiting(flood) => Waiting(flood)' \/ (Calm' /\ task.work = flood)
  <2>1. Assesses(1) /\ 1 \in DOMAIN tasks
    BY <1>2, <1>3, <1>8 DEF Assesses
  <2>2. ASSUME NEW flood, Waiting(flood)
        PROVE  Waiting(flood)' \/ (Calm' /\ task.work = flood)
    <3>1. PICK q \in DOMAIN tasks : /\ Assesses(q) /\ tasks[q].work = flood
                                   /\ \A r \in DOMAIN tasks : Assesses(r) => r <= q
      BY <2>2 DEF Waiting
    <3>2. CASE q = 1
      <4>1. \A r \in DOMAIN tasks' : ~Assesses(r)'
        BY <1>2, <1>4, <3>1, <3>2
      <4>. QED
        BY <4>1, <1>2, <3>1, <3>2 DEF Calm
    <3>3. CASE q # 1
      BY <1>6, <3>1, <3>3
    <3>. QED
      BY <3>2, <3>3
  <2>. QED
    BY <2>1, <2>2 DEF Calm
<1>. QED
  BY <1>2, <1>7, <1>8 DEF task
-----------------------------------------------------------------------------
LEMMA QuietFresh ==
    ASSUME FreshInv, NEW s \in {"bump", "save", "hydrology"}, Step(s),
           UNCHANGED <<snapshots, risks, work, unannounced>>,
           Calm => Calm', \A flood : Waiting(flood) => Waiting(flood)'
    PROVE  Orderly' /\ AnnouncesCurrent' /\ ChangesFollowed'
<1>1. /\ Has("store")' <=> Has("store")
      /\ Has("announce")' <=> Has("announce")
      /\ Has("assess")' <=> Has("assess")
      /\ Orderly'
  BY HasStep DEF FreshInv
<1>2. AnnouncesCurrent'
  BY <1>1 DEF FreshInv, AnnouncesCurrent, Announcing, Current
<1>3. ChangesFollowed'
  <2>. SUFFICES ASSUME NEW i \in DOMAIN snapshots \ unannounced, LastMaterial(i)'
                PROVE  Followed(i)'
    BY DEF ChangesFollowed
  <2>1. Followed(i)
    BY DEF FreshInv, ChangesFollowed, LastMaterial, SinceRestart
  <2>. QED
    BY <1>1, <2>1 DEF Followed, Announcing, AssessesNext, Since
<1>. QED
  BY <1>1, <1>2, <1>3

(* A snapshot is added behind those that there are. *)
LEMMA SnapshotAdded ==
    ASSUME TypeOK, NEW shot \in Snapshot, snapshots' = Append(snapshots, shot)
    PROVE  /\ Len(snapshots') = Len(snapshots) + 1 /\ Len(snapshots) \in Nat \ {0}
           /\ DOMAIN snapshots = 1 .. Len(snapshots)
           /\ DOMAIN snapshots' = 1 .. Len(snapshots) + 1
           /\ \A i \in 1 .. Len(snapshots) : snapshots'[i] = snapshots[i]
           /\ Current' = shot
<1>1. /\ Len(snapshots') = Len(snapshots) + 1 /\ Len(snapshots) \in Nat
      /\ DOMAIN snapshots = 1 .. Len(snapshots)
      /\ DOMAIN snapshots' = 1 .. Len(snapshots) + 1
      /\ \A i \in 1 .. Len(snapshots) : snapshots'[i] = snapshots[i]
      /\ snapshots'[Len(snapshots) + 1] = shot
  BY AppendProperties, LenProperties DEF TypeOK
<1>2. Len(snapshots) # 0
  BY EmptySeq DEF TypeOK
<1>. QED
  BY <1>1, <1>2 DEF Current

LEMMA StoreFresh ==
    ASSUME FreshInv, StoreSnapshot
    PROVE  Orderly' /\ AnnouncesCurrent' /\ ChangesFollowed'
<1>. DEFINE shot == [flood |-> work, material |-> Material(work, Current.flood)]
            n == Len(snapshots)
<1>1. Step("store") /\ UNCHANGED <<risks, tasks, work, unannounced>>
      /\ snapshots' = Append(snapshots, shot)
  BY DEF StoreSnapshot, histories
<1>2. shot \in Snapshot /\ shot.flood = work
  BY DEF FreshInv, TypeOK, Snapshot, Material
<1>. HIDE DEF shot
<1>3. /\ Len(snapshots') = n + 1 /\ n \in Nat \ {0}
      /\ DOMAIN snapshots = 1 .. n /\ DOMAIN snapshots' = 1 .. n + 1
      /\ \A i \in 1 .. n : snapshots'[i] = snapshots[i]
      /\ Current' = shot
  BY <1>1, <1>2, SnapshotAdded DEF FreshInv
<1>4. Current'.flood = snapshots'[n + 1].flood
  BY <1>3 DEF Current
<1>. HIDE DEF n
<1>5. /\ Has("store") /\ ~Has("store")' /\ Has("announce")'
      /\ Has("assess")' <=> Has("assess")
      /\ Orderly'
  BY <1>1, HasStep DEF FreshInv
<1>6. AnnouncesCurrent'
  BY <1>1, <1>2, <1>3 DEF AnnouncesCurrent
<1>7. ChangesFollowed'
  <2>. SUFFICES ASSUME NEW i \in DOMAIN snapshots' \ unannounced', LastMaterial(i)'
                PROVE  Followed(i)'
    BY DEF ChangesFollowed
  <2>1. CASE i = n + 1
    BY <1>3, <1>5, <2>1 DEF Followed, Announcing
  <2>2. CASE i # n + 1
    <3>1. i \in 1 .. n /\ i \in DOMAIN snapshots \ unannounced
      BY <1>1, <1>3, <2>2
    <3>2. LastMaterial(i)
      <4>1. snapshots[i].material
        BY <1>3, <3>1 DEF LastMaterial
      <4>2. \A k \in i .. n : k \in i .. n + 1 /\ snapshots'[k] = snapshots[k]
        BY <1>3, <3>1
      <4>3. \A k \in i + 1 .. n : k \in i + 1 .. n + 1 /\ snapshots'[k] = snapshots[k]
        BY <1>3, <3>1
      <4>. QED
        BY <4>1, <4>2, <4>3, <1>3 DEF LastMaterial, SinceRestart, n
    <3>3. Followed(i) /\ ~Announcing
      BY <3>1, <3>2, <1>5 DEF FreshInv, ChangesFollowed, Announcing
    <3>4. \A flood : Since(i, flood) => Since(i, flood)'
      <4>1. \A k \in i .. n : k \in i .. n + 1 /\ snapshots'[k] = snapshots[k]
        BY <1>3, <3>1
      <4>. QED
        BY <4>1, <1>3 DEF Since, n
    <3>5. Since(i, work)'
      <4>1. n + 1 \in i .. n + 1 /\ snapshots'[n + 1].flood = work
        BY <1>2, <1>3, <1>4, <3>1
      <4>. QED
        BY <4>1, <1>1, <1>3 DEF Since
    <3>6. (Calm => Calm') /\ \A flood : Waiting(flood) => Waiting(flood)'
      BY <1>1 DEF Calm, Waiting, Assesses
    <3>. QED
      BY <1>1, <1>5, <3>3, <3>4, <3>5, <3>6 DEF Followed, AssessesNext
  <2>. QED
    BY <2>1, <2>2
<1>. QED
  BY <1>5, <1>6, <1>7

(* The assessment that an announcement asks for is the last of the tasks. *)
LEMMA AssessmentWaits ==
    ASSUME TypeOK, UNCHANGED work, tasks' = Append(tasks, AssessmentOf(work))
    PROVE  Waiting(work)'
<1>. DEFINE task == AssessmentOf(work)
<1>1. task \in Task /\ task.program = Assessment /\ task.work = work
  BY DEF TypeOK, Task, AssessmentOf
<1>2. tasks' = Append(tasks, task)
  OBVIOUS
<1>. HIDE DEF task
<1>. QED
  BY <1>1, <1>2, TaskAdded DEF Waiting

(* A material change is announced with the flood that was stored.           *)
LEMMA AnnounceFresh ==
    ASSUME FreshInv, Announce
    PROVE  Orderly' /\ AnnouncesCurrent' /\ ChangesFollowed'
<1>1. Step("announce") /\ UNCHANGED <<snapshots, risks, work, unannounced>>
      /\ tasks' = IF Current.material THEN Append(tasks, AssessmentOf(work)) ELSE tasks
  BY DEF Announce, histories
<1>2. /\ ~Has("store") /\ ~Has("store")' /\ Has("announce")
      /\ Has("assess")' <=> Has("assess")
      /\ Orderly'
  BY <1>1, HasStep DEF FreshInv
<1>3. work = Current.flood
  BY <1>2 DEF FreshInv, AnnouncesCurrent, Announcing
<1>4. AnnouncesCurrent'
  BY <1>1, <1>3 DEF AnnouncesCurrent, Current
<1>5. /\ DOMAIN snapshots = 1 .. Len(snapshots) /\ Len(snapshots) \in Nat \ {0}
  BY LenProperties, EmptySeq DEF FreshInv, TypeOK
<1>6. ChangesFollowed'
  <2>. SUFFICES ASSUME NEW i \in DOMAIN snapshots \ unannounced, LastMaterial(i)
                PROVE  Followed(i)'
    BY <1>1 DEF ChangesFollowed, LastMaterial, SinceRestart
  <2>1. CASE Current.material
    <3>1. i = Len(snapshots)
      BY <2>1, <1>5 DEF LastMaterial, Current
    <3>2. Since(i, work)'
      BY <3>1, <1>1, <1>3, <1>5 DEF Since, Current
    <3>3. Waiting(work)'
      BY <1>1, <2>1, AssessmentWaits DEF FreshInv
    <3>. QED
      BY <3>2, <3>3, <1>1 DEF Followed
  <2>2. CASE ~Current.material
    <3>1. i # Len(snapshots)
      BY <2>2 DEF LastMaterial, Current
    <3>2. Followed(i)
      BY DEF FreshInv, ChangesFollowed
    <3>3. tasks' = tasks
      BY <1>1, <2>2
    <3>. QED
      BY <3>1, <3>2, <3>3, <1>1, <1>2 DEF Followed, AssessesNext, Since, Calm, Waiting, Assesses
  <2>. QED
    BY <2>1, <2>2
<1>. QED
  BY <1>2, <1>4, <1>6

(* A program that breaks off at a publication: a run before it stores what  *)
(* it would have announced, or one whose change is then not announced.      *)
LEMMA FailFresh ==
    ASSUME FreshInv, PublicationFails
    PROVE  Orderly' /\ AnnouncesCurrent' /\ ChangesFollowed'
<1>1. program' = <<>> /\ UNCHANGED <<snapshots, risks, work>>
  BY DEF PublicationFails
<1>2. Orderly' /\ AnnouncesCurrent' /\ ~AssessesNext'
  BY <1>1 DEF Has, Orderly, AnnouncesCurrent, Announcing, AssessesNext
<1>3. DOMAIN snapshots = 1 .. Len(snapshots) /\ Len(snapshots) \in Nat \ {0}
  BY LenProperties, EmptySeq DEF FreshInv, TypeOK
<1>4. /\ 1 \in DOMAIN program /\ Head(program) = program[1]
  BY LenProperties, EmptySeq, HeadTailProperties DEF FreshInv, TypeOK, PublicationFails
<1>5. CASE Head(program) = "hydrology" /\ UNCHANGED <<tasks, unannounced>>
  <2>. SUFFICES ASSUME NEW i \in DOMAIN snapshots \ unannounced, LastMaterial(i)
                PROVE  Followed(i)'
    BY <1>1, <1>2, <1>5 DEF ChangesFollowed, LastMaterial, SinceRestart
  <2>1. Has("store")
    BY <1>4, <1>5 DEF FreshInv, Orderly, Has
  <2>2. \/ \E flood : Waiting(flood) /\ Since(i, flood)
        \/ Calm /\ risks # <<>> /\ Since(i, risks[Len(risks)].flood)
    BY <2>1 DEF FreshInv, ChangesFollowed, Followed, Announcing, AssessesNext
  <2>. QED
    BY <1>1, <1>2, <1>5, <2>2 DEF Followed, Waiting, Calm, Assesses, Since
<1>6. CASE Head(program) = "announce" /\ Current.material
  <2>. SUFFICES ASSUME NEW i \in DOMAIN snapshots \ unannounced', LastMaterial(i)
                PROVE  Followed(i)'
    BY <1>1, <1>2 DEF ChangesFollowed, LastMaterial, SinceRestart
  <2>1. i = Len(snapshots)
    BY <1>3, <1>6 DEF LastMaterial, Current
  <2>2. tasks' = Append(tasks, AssessmentOf(work))
    BY <1>6, <2>1 DEF PublicationFails
  <2>3. work = Current.flood
    <3>1. Has("announce") /\ ~Has("store")
      <4>1. program[1] = "announce" /\ \A j \in DOMAIN program : ~(j < 1)
        BY <1>4, <1>6, LenProperties DEF FreshInv, TypeOK
      <4>. QED
        BY <1>4, <4>1 DEF FreshInv, Orderly, Has
    <3>. QED
      BY <3>1 DEF FreshInv, AnnouncesCurrent, Announcing
  <2>4. Since(i, work)' /\ Waiting(work)'
    <3>1. Since(i, work)'
      BY <1>1, <1>3, <2>1, <2>3 DEF Since, Current
    <3>2. Waiting(work)'
      BY <1>1, <2>2, AssessmentWaits DEF FreshInv
    <3>. QED
      BY <3>1, <3>2
  <2>. QED
    BY <1>1, <2>4 DEF Followed
<1>. QED
  BY <1>2, <1>5, <1>6 DEF PublicationFails

LEMMA AssessFresh ==
    ASSUME FreshInv, Assess
    PROVE  Orderly' /\ AnnouncesCurrent' /\ ChangesFollowed'
<1>. DEFINE risk == [version |-> version, flood |-> work]
<1>1. Step("assess") /\ UNCHANGED <<snapshots, tasks, work, unannounced>>
      /\ risks' = Append(risks, risk)
  BY DEF Assess, histories
<1>2. program' = <<>>
  BY <1>1, StepAssesses DEF FreshInv
<1>3. /\ \A x : ~Has(x)'
      /\ Orderly' /\ AnnouncesCurrent'
  BY <1>2 DEF Has, Orderly, AnnouncesCurrent, Announcing
<1>4. /\ Has("assess")
      /\ \A x : Has(x) => x = "assess"
  BY <1>1, <1>3, HasStep DEF FreshInv
<1>5. risk \in Risk /\ risk.flood = work
  BY DEF FreshInv, TypeOK, Risk, Versions
<1>. HIDE DEF risk
<1>6. risks' # <<>> /\ risks'[Len(risks')] = risk
  <2>1. /\ risks' \in Seq(Risk) /\ Len(risks') = Len(risks) + 1 /\ Len(risks) \in Nat
        /\ risks'[Len(risks) + 1] = risk
    BY <1>1, <1>5, AppendProperties, LenProperties DEF FreshInv, TypeOK
  <2>. QED
    BY <2>1, EmptySeq
<1>7. ChangesFollowed'
  <2>. SUFFICES ASSUME NEW i \in DOMAIN snapshots \ unannounced, LastMaterial(i)
                PROVE  Followed(i)'
    BY <1>1 DEF ChangesFollowed, LastMaterial, SinceRestart
  <2>1. Followed(i) /\ ~Has("announce") /\ ~Has("store")
    BY <1>4 DEF FreshInv, ChangesFollowed
  <2>2. CASE Calm /\ Since(i, work)
    <3>1. Calm' /\ Since(i, work)'
      BY <2>2, <1>1 DEF Calm, Assesses, Since
    <3>. QED
      BY <3>1, <1>1, <1>3, <1>5, <1>6 DEF Followed, AssessesNext
  <2>3. CASE \E flood : Waiting(flood) /\ Since(i, flood)
    BY <2>3, <1>1 DEF Followed, Waiting, Assesses, Since
  <2>. QED
    BY <2>1, <2>2, <2>3, <1>4 DEF Followed, Announcing, AssessesNext
<1>. QED
  BY <1>3, <1>7

LEMMA HandlerFresh ==
    ASSUME FreshInv, StartHandler
    PROVE  Orderly' /\ AnnouncesCurrent' /\ ChangesFollowed'
<1>. DEFINE task == Head(tasks)
<1>1. /\ tasks # <<>> /\ tasks' = Tail(tasks)
      /\ program = <<>> /\ program' = task.program /\ work' = task.work
      /\ UNCHANGED <<snapshots, risks, unannounced>>
  BY DEF StartHandler, Begin, Free, histories
<1>2. task \in Task
  BY <1>1, TaskTaken DEF FreshInv
<1>3. \A x : ~Has(x)
  BY <1>1 DEF Has
<1>4. /\ task.program \in {Evolution, Assessment}
      /\ Orderly' /\ ~Announcing' /\ AnnouncesCurrent'
      /\ task.program = Evolution => ~Has("assess")'
      /\ task.program = Assessment => AssessesNext'
  BY <1>1, <1>2, HasBegin DEF Task, AnnouncesCurrent, AssessesNext
<1>5. ChangesFollowed'
  <2>. SUFFICES ASSUME NEW i \in DOMAIN snapshots \ unannounced, LastMaterial(i)
                PROVE  Followed(i)'
    BY <1>1 DEF ChangesFollowed, LastMaterial, SinceRestart
  <2>1. \A flood : Since(i, flood) => Since(i, flood)'
    BY <1>1 DEF Since
  <2>2. \/ Calm /\ risks # <<>> /\ Since(i, risks[Len(risks)].flood)
        \/ \E flood : Waiting(flood) /\ Since(i, flood)
    BY <1>3 DEF FreshInv, ChangesFollowed, Followed, Announcing, AssessesNext
  <2>3. CASE task.program = Evolution
    <3>1. (Calm => Calm') /\ \A flood : Waiting(flood) => Waiting(flood)'
      BY <1>1, <2>3, TaskTaken DEF FreshInv
    <3>. QED
      BY <1>1, <1>4, <2>1, <2>2, <2>3, <3>1 DEF Followed, AssessesNext
  <2>4. CASE task.program = Assessment
    <3>1. ~Calm
      BY <1>1, <2>4, TaskTaken DEF FreshInv
    <3>2. PICK flood : Waiting(flood) /\ Since(i, flood)
      BY <2>2, <3>1
    <3>3. Waiting(flood)' \/ (Calm' /\ work' = flood)
      BY <1>1, <2>4, <3>2, TaskTaken DEF FreshInv
    <3>. QED
      BY <1>4, <2>1, <2>4, <3>2, <3>3 DEF Followed
  <2>. QED
    BY <2>3, <2>4, <1>4
<1>. QED
  BY <1>4, <1>5

LEMMA RequestFresh ==
    ASSUME FreshInv, NEW p \in {Evolution, Pipeline}, NEW area, NEW prob,
           Request(p, area, prob)
    PROVE  Orderly' /\ AnnouncesCurrent' /\ ChangesFollowed'
<1>1. program = <<>> /\ program' = p /\ UNCHANGED <<snapshots, risks, tasks, unannounced>>
  BY DEF Request, Begin, Free, histories
<1>2. \A x : ~Has(x)
  BY <1>1 DEF Has
<1>3. /\ Orderly' /\ ~Announcing' /\ AnnouncesCurrent'
      /\ p = Evolution => ~Has("assess")'
      /\ p = Pipeline => Has("assess")' /\ Has("store")'
  BY <1>1, HasBegin DEF AnnouncesCurrent
<1>4. ChangesFollowed'
  <2>. SUFFICES ASSUME NEW i \in DOMAIN snapshots \ unannounced, LastMaterial(i)
                PROVE  Followed(i)'
    BY <1>1 DEF ChangesFollowed, LastMaterial, SinceRestart
  <2>1. /\ \A flood : Since(i, flood) => Since(i, flood)'
        /\ (Calm => Calm') /\ \A flood : Waiting(flood) => Waiting(flood)'
    BY <1>1 DEF Since, Calm, Waiting, Assesses
  <2>2. \/ Calm /\ risks # <<>> /\ Since(i, risks[Len(risks)].flood)
        \/ \E flood : Waiting(flood) /\ Since(i, flood)
    BY <1>2 DEF FreshInv, ChangesFollowed, Followed, Announcing, AssessesNext
  <2>. QED
    BY <1>1, <1>3, <2>1, <2>2 DEF Followed, AssessesNext
<1>. QED
  BY <1>3, <1>4

(* After a restart no change counts: the baseline is on top. *)
LEMMA RestartFresh ==
    ASSUME FreshInv, Restart
    PROVE  Orderly' /\ AnnouncesCurrent' /\ ChangesFollowed'
<1>1. program' = <<>> /\ snapshots' = Append(snapshots, Baseline)
  BY DEF Restart
<1>2. Orderly' /\ AnnouncesCurrent'
  BY <1>1 DEF Has, Orderly, AnnouncesCurrent, Announcing
<1>. DEFINE n == Len(snapshots)
<1>3. /\ Len(snapshots') = n + 1 /\ n \in Nat \ {0}
      /\ DOMAIN snapshots' = 1 .. n + 1
      /\ Current' = Baseline
  BY <1>1, FloodTypes, SnapshotAdded DEF FreshInv
<1>. HIDE DEF n
<1>4. ASSUME NEW i \in DOMAIN snapshots' PROVE ~LastMaterial(i)'
  <2>1. n + 1 \in i .. Len(snapshots') /\ snapshots'[n + 1].flood.run = 0
    BY <1>3 DEF Current, Baseline
  <2>. QED
    BY <2>1 DEF LastMaterial, SinceRestart
<1>. QED
  BY <1>2, <1>4 DEF ChangesFollowed
-----------------------------------------------------------------------------
LEMMA InitFresh == Init => FreshInv
<1>. SUFFICES ASSUME Init PROVE FreshInv
  OBVIOUS
<1>1. TypeOK /\ AssessesLast
  BY InitIInv DEF IInv
<1>2. program = <<>> /\ snapshots = <<Baseline>>
  BY DEF Init
<1>3. Orderly /\ AnnouncesCurrent
  BY <1>2 DEF Has, Orderly, AnnouncesCurrent, Announcing
<1>4. ChangesFollowed
  BY <1>2 DEF ChangesFollowed, LastMaterial, Baseline
<1>. QED
  BY <1>1, <1>3, <1>4 DEF FreshInv

LEMMA NextFresh == IInv' /\ FreshInv /\ [Next]_vars => FreshInv'
<1>. SUFFICES ASSUME IInv', FreshInv, [Next]_vars
              PROVE  Orderly' /\ AnnouncesCurrent' /\ ChangesFollowed'
  BY DEF IInv, FreshInv
<1>1. CASE RunForecast \/ \E s \in Injected : Inject(s)
  BY <1>1, RequestFresh DEF RunForecast, Inject
<1>2. CASE BumpVersion \/ SaveSnapshot
  <2>1. /\ Step("bump") \/ Step("save")
        /\ UNCHANGED <<snapshots, risks, work, tasks, unannounced>>
    BY <1>2 DEF BumpVersion, SaveSnapshot, histories
  <2>2. (Calm => Calm') /\ \A flood : Waiting(flood) => Waiting(flood)'
    BY <2>1 DEF Calm, Waiting, Assesses
  <2>. QED
    BY <2>1, <2>2, QuietFresh
<1>3. CASE PublishHydrology
  <2>. DEFINE task == [program |-> Evolution, work |-> AtStage(work.run, RunStage)]
  <2>1. Step("hydrology") /\ UNCHANGED <<snapshots, risks, work, unannounced>>
        /\ tasks' = Append(tasks, task)
    BY <1>3 DEF PublishHydrology, histories
  <2>2. task \in Task /\ task.program = Evolution
    BY FloodTypes DEF FreshInv, TypeOK, Flood, Task
  <2>. HIDE DEF task
  <2>3. (Calm => Calm') /\ \A flood : Waiting(flood) => Waiting(flood)'
    BY <2>1, <2>2, TaskAdded DEF FreshInv
  <2>. QED
    BY <2>1, <2>3, QuietFresh
<1>4. CASE UNCHANGED vars
  BY <1>4 DEF vars, FreshInv, Orderly, Has, AnnouncesCurrent, Announcing, Current,
     ChangesFollowed, LastMaterial, SinceRestart, Followed, AssessesNext, Since, Calm, Waiting,
     Assesses
<1>. QED
  BY <1>1, <1>2, <1>3, <1>4, StoreFresh, AnnounceFresh, FailFresh, AssessFresh,
     HandlerFresh, RestartFresh
     DEF Next, LoopStep

(* When the loop is idle, the current risk is that of the last material     *)
(* change or of a later flood, for any order in which forecast runs,        *)
(* injections and handlers stored, announced, assessed or broke off, unless *)
(* the publication of that very change raised.                              *)
THEOREM RiskIsFresh == Spec => []NoStaleRisk
<1>1. FreshInv => NoStaleRisk
  <2>. SUFFICES ASSUME FreshInv, program = <<>>, tasks = <<>>,
                       NEW i \in DOMAIN snapshots \ unannounced, LastMaterial(i)
                PROVE  risks # <<>> /\ Since(i, risks[Len(risks)].flood)
    BY DEF NoStaleRisk, Free, Since
  <2>1. \A x : ~Has(x)
    BY DEF Has
  <2>2. ~\E flood : Waiting(flood)
    BY DEF Waiting
  <2>. QED
    BY <2>1, <2>2 DEF FreshInv, ChangesFollowed, Followed, Announcing, AssessesNext
<1>. QED
  BY <1>1, InitFresh, NextFresh, Inductive, PTL DEF Spec
=============================================================================
