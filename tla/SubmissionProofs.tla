-------------------------- MODULE SubmissionProofs --------------------------
(***************************************************************************)
(* What a submission leaves behind, for every set of requests, every       *)
(* choice of the calls that may fail and every number of faults and        *)
(* crashes.                                                                *)
(***************************************************************************)
EXTENDS Submission, TLAPS

Intake   == {"write", "unlink_source", "source_row", "undo_source"}
Building == {"create", "copy", "start", "wait", "logs", "copy_back"}

\* The files and rows of a request until it is over: a step knows which of
\* them there are.
UnderWay(r) ==
  /\ At(r, "idle") => srcFile[r] = "none"
  /\ pc[r] \in {"idle"} \union Intake => r \notin sourceRows
  /\ At(r, "source_row") => srcFile[r] = "whole"
  /\ pc[r] \in Steps \ Intake => r \in sourceRows
  /\ pc[r] \in {"idle"} \union Intake \union {"submission_row"} \union Building => binFile[r] = "none"
  /\ pc[r] \in {"remove", "update"} => \/ built[r] = "ok" /\ binFile[r] = "whole"
                                       \/ /\ built[r] = "failed"
                                          /\ <<r, "delete">> \notin uncleaned => binFile[r] = "none"
  /\ pc[r] \in {"idle"} \union Steps => r \notin agents
  /\ pc[r] \in {"idle"} \union Steps => (r \in binaryPath <=> At(r, "agent_row"))
  /\ pc[r] \in {"idle"} \union Steps => r \notin unrecorded /\ status[r] # "invalid"
  /\ pc[r] \in Steps \ (Intake \union {"submission_row", "agent_row"}) => status[r] = "pending"

\* The properties, of one request.
OnRecord(r) ==
  /\ r \in agents => status[r] = "compiled"
  /\ status[r] = "compiled" <=> r \in binaryPath
  /\ r \in binaryPath => binFile[r] = "whole"
  /\ r \in sourceRows => srcFile[r] = "whole"

Over(r) == At(r, "done") =>
  /\ <<r, "delete">> \notin uncleaned =>
       /\ srcFile[r] # "none" => r \in sourceRows
       /\ binFile[r] # "none" => r \in binaryPath
  /\ response[r] = "compiled" <=> r \in agents
  /\ status[r] = "invalid" => response[r] = "invalid"
  /\ response[r] = "invalid" =>
       /\ r \notin agents /\ r \notin binaryPath
       /\ status[r] = IF r \in unrecorded THEN "pending" ELSE "invalid"
       /\ <<r, "delete">> \notin uncleaned => binFile[r] = "none"

CleanedUp(r) ==
  r \in containers /\ r \notin gone /\ <<r, "remove">> \notin uncleaned =>
    pc[r] \in {"copy", "start", "wait", "logs", "copy_back", "write_binary",
              "unlink_binary", "remove", "lost"}

RequestInv(r) == UnderWay(r) /\ OnRecord(r) /\ Over(r) /\ CleanedUp(r)

SInv == TypeOK /\ \A r \in Request : RequestInv(r)

-----------------------------------------------------------------------------

LEMMA InitInv == Init => SInv
<1> SUFFICES ASSUME Init PROVE SInv
  OBVIOUS
<1>1. TypeOK
  BY SubmissionAssumption DEF Init, TypeOK, File
<1>2. ASSUME NEW r \in Request PROVE RequestInv(r)
  BY DEF Init, RequestInv, UnderWay, OnRecord, Over, CleanedUp, At, Intake, Building, Steps
<1> QED
  BY <1>1, <1>2 DEF SInv

\* What a step of a request does to the others: nothing.
Apart(r) == \A s \in Request \ {r} :
  /\ pc'[s] = pc[s] /\ response'[s] = response[s] /\ built'[s] = built[s]
  /\ srcFile'[s] = srcFile[s] /\ binFile'[s] = binFile[s] /\ status'[s] = status[s]
  /\ s \in gone' <=> s \in gone
  /\ s \in sourceRows' <=> s \in sourceRows
  /\ s \in binaryPath' <=> s \in binaryPath
  /\ s \in agents' <=> s \in agents
  /\ s \in containers' <=> s \in containers
  /\ s \in unrecorded' <=> s \in unrecorded
  /\ \A c \in Call : <<s, c>> \in uncleaned' <=> <<s, c>> \in uncleaned

LEMMA OneRequest ==
  ASSUME SInv, NEW r \in Request, TypeOK', Apart(r), RequestInv(r)'
  PROVE  SInv'
<1>1. ASSUME NEW s \in Request \ {r} PROVE RequestInv(s)'
  <2>1. \A c \in {"delete", "remove"} : <<s, c>> \in uncleaned' <=> <<s, c>> \in uncleaned
    BY DEF Apart, Call
  <2>2. UnderWay(s)'
    BY <2>1 DEF SInv, Apart, RequestInv, UnderWay, At
  <2>3. OnRecord(s)'
    BY DEF SInv, Apart, RequestInv, OnRecord
  <2>4. Over(s)'
    BY <2>1 DEF SInv, Apart, RequestInv, Over, At
  <2>5. CleanedUp(s)'
    BY <2>1 DEF SInv, Apart, RequestInv, CleanedUp
  <2> QED
    BY <2>2, <2>3, <2>4, <2>5 DEF RequestInv
<1> QED
  BY <1>1 DEF SInv

\* The first file and its rows.
LEMMA IntakeStep ==
  ASSUME SInv, NEW r \in Request,
         \/ Validate(r) \/ WriteSource(r) \/ UnlinkSource(r)
         \/ CreateSourceCode(r) \/ UndoSource(r) \/ CreateSubmission(r)
  PROVE  SInv'
<1> USE SubmissionAssumption DEF Validate, WriteSource, UnlinkSource, CreateSourceCode,
      UndoSource, CreateSubmission, Reply, Continue, Goto, Fault, CleanupFails,
      handlerVars, fileVars, rowVars, boundVars
<1>1. TypeOK'
  BY DEF SInv, TypeOK, File, Steps, At
<1>2. Apart(r)
  BY DEF SInv, TypeOK, Apart
<1>3. UnderWay(r)'
  BY DEF SInv, TypeOK, RequestInv, UnderWay, At, Intake, Building, Steps
<1>4. OnRecord(r)'
  <2>1. (r \in agents => status[r] = "compiled")'
    BY DEF SInv, TypeOK, RequestInv, UnderWay, OnRecord, At, Intake, Building, Steps
  <2>2. (status[r] = "compiled" <=> r \in binaryPath)'
    BY DEF SInv, TypeOK, RequestInv, UnderWay, OnRecord, At, Intake, Building, Steps
  <2>3. (r \in binaryPath => binFile[r] = "whole")'
    BY DEF SInv, TypeOK, RequestInv, UnderWay, OnRecord, At, Intake, Building, Steps
  <2>4. (r \in sourceRows => srcFile[r] = "whole")'
    BY DEF SInv, TypeOK, RequestInv, UnderWay, OnRecord, At, Intake, Building, Steps
  <2> QED
    BY <2>1, <2>2, <2>3, <2>4 DEF OnRecord
<1>5. Over(r)'
  BY DEF SInv, TypeOK, RequestInv, UnderWay, OnRecord, Over, At, Intake, Building, Steps
<1>6. CleanedUp(r)'
  BY DEF SInv, TypeOK, RequestInv, CleanedUp, At, Steps
<1> QED
  BY <1>1, <1>2, <1>3, <1>4, <1>5, <1>6, OneRequest DEF RequestInv

\* The build and its deferred removal.
LEMMA BuildStep ==
  ASSUME SInv, NEW r \in Request,
         \/ CreateContainer(r) \/ DockerStep(r) \/ CompilerRefuses(r)
         \/ WriteBinary(r) \/ UnlinkBinary(r) \/ RemoveContainer(r)
  PROVE  SInv'
<1> USE SubmissionAssumption DEF CreateContainer, DockerStep, CompilerRefuses, WriteBinary,
      UnlinkBinary, RemoveContainer, DockerFails, Following, Return, Continue, Goto, Fault, CleanupFails,
      handlerVars, fileVars, rowVars, boundVars
<1>1. TypeOK'
  BY DEF SInv, TypeOK, File, Steps, At
<1>2. Apart(r)
  BY DEF SInv, TypeOK, Apart
<1>3. UnderWay(r)'
  BY DEF SInv, TypeOK, RequestInv, UnderWay, At, Intake, Building, Steps
<1>4. OnRecord(r)'
  BY DEF SInv, TypeOK, RequestInv, UnderWay, OnRecord, At, Intake, Building, Steps
<1>5. Over(r)'
  BY DEF SInv, TypeOK, RequestInv, UnderWay, OnRecord, Over, At, Intake, Building, Steps
<1>6. CleanedUp(r)'
  BY DEF SInv, TypeOK, RequestInv, CleanedUp, At, Steps
<1> QED
  BY <1>1, <1>2, <1>3, <1>4, <1>5, <1>6, OneRequest DEF RequestInv

\* What becomes of the submission.
LEMMA CompileStep ==
  ASSUME SInv, NEW r \in Request,
         UpdateInvalid(r) \/ UpdateCompiled(r) \/ UndoBinary(r) \/ CreateAgent(r)
  PROVE  SInv'
<1> USE SubmissionAssumption DEF UpdateInvalid, UpdateCompiled, UndoBinary, CreateAgent,
      Reply, Continue, Goto, Fault, CleanupFails, handlerVars, fileVars, rowVars, boundVars
<1>1. TypeOK'
  BY DEF SInv, TypeOK, File, Steps, At
<1>2. Apart(r)
  BY DEF SInv, TypeOK, Apart
<1>3. UnderWay(r)'
  BY DEF SInv, TypeOK, RequestInv, UnderWay, At, Intake, Building, Steps
<1>4. OnRecord(r)'
  <2>1. (r \in agents => status[r] = "compiled")'
    BY DEF SInv, TypeOK, RequestInv, UnderWay, OnRecord, At, Intake, Building, Steps
  <2>2. (status[r] = "compiled" <=> r \in binaryPath)'
    BY DEF SInv, TypeOK, RequestInv, UnderWay, OnRecord, At, Intake, Building, Steps
  <2>3. (r \in binaryPath => binFile[r] = "whole")'
    BY DEF SInv, TypeOK, RequestInv, UnderWay, OnRecord, At, Intake, Building, Steps
  <2>4. (r \in sourceRows => srcFile[r] = "whole")'
    BY DEF SInv, TypeOK, RequestInv, UnderWay, OnRecord, At, Intake, Building, Steps
  <2> QED
    BY <2>1, <2>2, <2>3, <2>4 DEF OnRecord
<1>5. Over(r)'
  BY DEF SInv, TypeOK, RequestInv, UnderWay, OnRecord, Over, At, Intake, Building, Steps
<1>6. CleanedUp(r)'
  BY DEF SInv, TypeOK, RequestInv, CleanedUp, At, Steps
<1> QED
  BY <1>1, <1>2, <1>3, <1>4, <1>5, <1>6, OneRequest DEF RequestInv

\* A request whose client has gone has no promise about its container; one
\* that is lost in a crash keeps its files and rows.
LEMMA EnvironmentStep ==
  ASSUME SInv, Crash \/ (\E r \in Request : Disconnect(r)) \/ UNCHANGED vars
  PROVE  SInv'
<1> USE SubmissionAssumption DEF vars, handlerVars, fileVars, rowVars, boundVars
<1>1. TypeOK'
  BY DEF SInv, TypeOK, Crash, Disconnect, Steps
<1>2. ASSUME NEW s \in Request PROVE RequestInv(s)'
  BY DEF SInv, TypeOK, RequestInv, UnderWay, OnRecord, Over, CleanedUp, At, Intake,
     Building, Steps, Crash, Disconnect
<1> QED
  BY <1>1, <1>2 DEF SInv

LEMMA StepInv == SInv /\ [Next]_vars => SInv'
  BY IntakeStep, BuildStep, CompileStep, EnvironmentStep DEF Next, Handle

\* The invariant of every request, in every reachable state.
THEOREM Inductive == Spec => []SInv
<1> QED
  BY InitInv, StepInv, PTL DEF Spec

\* Every variable keeps its type.
THEOREM TypeCorrect == Spec => []TypeOK
<1>1. SInv => TypeOK
  BY DEF SInv
<1> QED
  BY <1>1, Inductive, PTL

\* What the database offers to run is on disk, whole, at every moment: no
\* order of failing calls, disconnecting clients and crashes leaves a row that
\* points to a missing or half-written file.
THEOREM ManifestIsTrue == Spec => []RowsHaveFiles
<1>1. SInv => RowsHaveFiles
  BY DEF SInv, TypeOK, RequestInv, OnRecord, RowsHaveFiles
<1> QED
  BY <1>1, Inductive, PTL

\* A file that a finished request left behind is on record, unless its
\* deletion failed too.
THEOREM NoOrphans == Spec => []FilesHaveRows
<1>1. SInv => FilesHaveRows
  BY DEF SInv, RequestInv, Over, FilesHaveRows, At
<1> QED
  BY <1>1, Inductive, PTL

\* The client is told "compiled" if and only if there is an agent to play with;
\* what was called invalid has neither agent nor binary on record, its row says so
\* unless the update itself failed, and its file is gone unless the deletion failed.
THEOREM ClientIsTold == Spec => []AnswerIsTrue
<1>1. SInv => AnswerIsTrue
  BY DEF SInv, RequestInv, Over, AnswerIsTrue, At
<1> QED
  BY <1>1, Inductive, PTL

\* Every way out of Build removes the container of a client that stays, unless
\* the removal itself fails.
THEOREM ContainersGo == Spec => []BuildCleansUp
<1>1. SInv => BuildCleansUp
  BY DEF SInv, TypeOK, RequestInv, CleanedUp, BuildCleansUp
<1> QED
  BY <1>1, Inductive, PTL
=============================================================================
