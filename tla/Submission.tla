----------------------------- MODULE Submission -----------------------------
(***************************************************************************)
(* Submitting a bot: the source file, its rows, the build in a container,  *)
(* the binary and the agent. Every step may fail or be the last before a   *)
(* crash; the code compensates for two failures by deleting the file it    *)
(* wrote, and leaves the rest to the record in the database.               *)
(*                                                                         *)
(* A request is one call of Submit. It owns its rows, its two files (whose *)
(* names are new UUIDs) and its build container; the requests meet in the  *)
(* crash only. Files, rows and container of a request are named after it.  *)
(***************************************************************************)
EXTENDS Naturals, FiniteSets

CONSTANTS
  Request,
  Failing,     \* the calls that may return an error; "client": it may disconnect
  MaxFaults,   \* bound: how often one does
  MaxCrashes   \* bound: times the process dies

Call == {"file", "delete", "db", "docker", "remove", "client"}

ASSUME SubmissionAssumption ==
  Failing \subseteq Call /\ MaxFaults \in Nat /\ MaxCrashes \in Nat

VARIABLES
  pc,          \* [Request -> the next step of the handler]
  gone,        \* requests whose context is cancelled
  response,    \* [Request -> what Submit returned]
  built,       \* [Request -> what Build will return]
  srcFile, binFile,  \* [Request -> "none", "partial" (being written) or "whole"]
  sourceRows,  \* requests with a row in source_codes
  status,      \* [Request -> submissions.status, or "none"]
  binaryPath,  \* requests whose submissions.binary_path is set
  agents,      \* requests with a row in agents
  containers,  \* requests whose build container exists
  uncleaned,   \* history: <<request, call>> of a clean-up that failed (an error
               \* the code logs or discards)
  unrecorded,  \* history: requests whose failed build could not be recorded
  faults, crashes

handlerVars == <<pc, gone, response, built>>
fileVars    == <<srcFile, binFile>>
rowVars     == <<sourceRows, status, binaryPath, agents>>
boundVars   == <<uncleaned, unrecorded, faults, crashes>>
vars == <<handlerVars, fileVars, rowVars, containers, boundVars>>

File  == {"none", "partial", "whole"}
Steps == {"write", "unlink_source", "source_row", "undo_source", "submission_row",
          "create", "copy", "start", "wait", "logs", "copy_back", "write_binary",
          "unlink_binary", "remove", "update", "undo_binary", "agent_row"}

TypeOK ==
  /\ pc \in [Request -> Steps \union {"idle", "done", "lost"}]
  /\ gone \subseteq Request
  /\ response \in [Request -> {"none", "error", "invalid", "compiled"}]
  /\ built \in [Request -> {"none", "ok", "failed"}]
  /\ srcFile \in [Request -> File] /\ binFile \in [Request -> File]
  /\ sourceRows \subseteq Request /\ binaryPath \subseteq Request
  /\ status \in [Request -> {"none", "pending", "compiled", "invalid"}]
  /\ agents \subseteq Request /\ containers \subseteq Request
  /\ uncleaned \subseteq Request \X Call
  /\ unrecorded \subseteq Request
  /\ faults \in 0..MaxFaults /\ crashes \in 0..MaxCrashes

Init ==
  /\ pc = [r \in Request |-> "idle"] /\ gone = {}
  /\ response = [r \in Request |-> "none"] /\ built = [r \in Request |-> "none"]
  /\ srcFile = [r \in Request |-> "none"] /\ binFile = [r \in Request |-> "none"]
  /\ sourceRows = {} /\ status = [r \in Request |-> "none"]
  /\ binaryPath = {} /\ agents = {} /\ containers = {}
  /\ uncleaned = {} /\ unrecorded = {} /\ faults = 0 /\ crashes = 0

-----------------------------------------------------------------------------

At(r, label)   == pc[r] = label
Goto(r, label) == pc' = [pc EXCEPT ![r] = label]

Reply(r, what) == /\ Goto(r, "done")
                  /\ response' = [response EXCEPT ![r] = what]
                  /\ UNCHANGED <<gone, built>>

Continue(r, label) == Goto(r, label) /\ UNCHANGED <<gone, response, built>>

Fault(call) == /\ call \in Failing /\ faults < MaxFaults
               /\ faults' = faults + 1
               /\ UNCHANGED <<uncleaned, unrecorded, crashes>>

\* A clean-up of request r returns an error.
CleanupFails(r, call) == /\ call \in Failing /\ faults < MaxFaults
                         /\ faults' = faults + 1
                         /\ uncleaned' = uncleaned \union {<<r, call>>}
                         /\ UNCHANGED <<unrecorded, crashes>>

-----------------------------------------------------------------------------
(* intake: the source file and its two rows                                *)

\* validate refuses the code.
Validate(r) == /\ At(r, "idle")
               /\ Reply(r, "error")
               /\ UNCHANGED <<fileVars, rowVars, containers, boundVars>>

\* LocalRepository.Write creates the file and copies the code into it; if the
\* copy or the close fails it removes the file again.
WriteSource(r) ==
  \/ /\ At(r, "idle")
     /\ \/ /\ srcFile' = [srcFile EXCEPT ![r] = "partial"]
           /\ Continue(r, "write")
           /\ UNCHANGED boundVars
        \/ Fault("file") /\ Reply(r, "error") /\ UNCHANGED srcFile
     /\ UNCHANGED <<binFile, rowVars, containers>>
  \/ /\ At(r, "write")
     /\ \/ /\ srcFile' = [srcFile EXCEPT ![r] = "whole"]
           /\ Continue(r, "source_row")
           /\ UNCHANGED boundVars
        \/ Fault("file") /\ Continue(r, "unlink_source") /\ UNCHANGED srcFile
     /\ UNCHANGED <<binFile, rowVars, containers>>

\* Write discards the error of os.Remove: the partial file may stay.
UnlinkSource(r) ==
  /\ At(r, "unlink_source")
  /\ \/ srcFile' = [srcFile EXCEPT ![r] = "none"] /\ UNCHANGED boundVars
     \/ CleanupFails(r, "delete") /\ UNCHANGED srcFile
  /\ Reply(r, "error")
  /\ UNCHANGED <<binFile, rowVars, containers>>

CreateSourceCode(r) ==
  /\ At(r, "source_row")
  /\ \/ /\ sourceRows' = sourceRows \union {r}
        /\ Continue(r, "submission_row")
        /\ UNCHANGED boundVars
     \/ /\ Fault("db")
        /\ Continue(r, "undo_source")
        /\ UNCHANGED sourceRows
  /\ UNCHANGED <<fileVars, status, binaryPath, agents, containers>>

\* The compensation; if Delete fails as well, that is only logged.
UndoSource(r) ==
  /\ At(r, "undo_source")
  /\ \/ srcFile' = [srcFile EXCEPT ![r] = "none"] /\ UNCHANGED boundVars
     \/ CleanupFails(r, "delete") /\ UNCHANGED srcFile
  /\ Reply(r, "error")
  /\ UNCHANGED <<binFile, rowVars, containers>>

CreateSubmission(r) ==
  /\ At(r, "submission_row")
  /\ \/ /\ status' = [status EXCEPT ![r] = "pending"]
        /\ Continue(r, "create")
        /\ UNCHANGED boundVars
     \/ /\ Fault("db")
        /\ Reply(r, "error")
        /\ UNCHANGED status
  /\ UNCHANGED <<fileVars, sourceRows, binaryPath, agents, containers>>

-----------------------------------------------------------------------------
(* Compiler.Build                                                          *)

\* Slip: ContainerWait has a context that the client does not end.
WaitFails(r) == \/ r \in gone /\ ~At(r, "wait") /\ UNCHANGED boundVars
                \/ Fault("docker")

\* A call of the Docker client under the request's context.
DockerFails(r) == \/ r \in gone /\ UNCHANGED boundVars
                  \/ Fault("docker")

\* Slip: a failing build returns before the removal is deferred.
ReturnEarly(r, result) == /\ built' = [built EXCEPT ![r] = result]
                          /\ Goto(r, IF result = "ok" THEN "remove" ELSE "update")
                          /\ UNCHANGED <<gone, response>>

\* Build returns through its deferred functions.
Return(r, result) == /\ built' = [built EXCEPT ![r] = result]
                     /\ Goto(r, "remove")
                     /\ UNCHANGED <<gone, response>>

CreateContainer(r) ==
  /\ At(r, "create")
  /\ \/ /\ r \notin gone
        /\ containers' = containers \union {r}
        /\ Continue(r, "copy")
        /\ UNCHANGED boundVars
     \/ /\ DockerFails(r)
        /\ built' = [built EXCEPT ![r] = "failed"]
        /\ Goto(r, "update")
        /\ UNCHANGED <<gone, response, containers>>
  /\ UNCHANGED <<fileVars, rowVars>>

\* CopyToContainer, ContainerStart, ContainerWait, ContainerLogs,
\* CopyFromContainer.
Following == [copy |-> "start", start |-> "wait", wait |-> "logs",
              logs |-> "copy_back", copy_back |-> "write_binary"]

DockerStep(r) ==
  /\ pc[r] \in DOMAIN Following
  /\ \/ /\ r \notin gone
        /\ Continue(r, Following[pc[r]])
        /\ UNCHANGED boundVars
     \/ DockerFails(r) /\ Return(r, "failed")
  /\ UNCHANGED <<fileVars, rowVars, containers>>

\* The compiler's exit code is looked at once the logs are read.
CompilerRefuses(r) ==
  /\ At(r, "logs") /\ r \notin gone
  /\ Return(r, "failed")
  /\ UNCHANGED <<fileVars, rowVars, containers, boundVars>>

\* The binary is streamed from the container to a new file, by the same Write.
\* What is left of the stream may have arrived before the context ended.
WriteBinary(r) ==
  /\ At(r, "write_binary")
  /\ \/ /\ binFile[r] = "none"
        /\ \/ /\ binFile' = [binFile EXCEPT ![r] = "partial"]
              /\ UNCHANGED <<handlerVars, boundVars>>
           \/ /\ Fault("file") \/ DockerFails(r)
              /\ Return(r, "failed")
              /\ UNCHANGED binFile
     \/ /\ binFile[r] = "partial"
        /\ \/ /\ binFile' = [binFile EXCEPT ![r] = "whole"]
              /\ Return(r, "ok")
              /\ UNCHANGED boundVars
           \/ /\ Fault("file") \/ DockerFails(r)
              /\ Continue(r, "unlink_binary")
              /\ UNCHANGED binFile
  /\ UNCHANGED <<srcFile, rowVars, containers>>

UnlinkBinary(r) ==
  /\ At(r, "unlink_binary")
  /\ \/ binFile' = [binFile EXCEPT ![r] = "none"] /\ UNCHANGED boundVars
     \/ CleanupFails(r, "delete") /\ UNCHANGED binFile
  /\ Return(r, "failed")
  /\ UNCHANGED <<srcFile, rowVars, containers>>

\* The deferred ContainerRemove, whose error is discarded: it has the context
\* of the request too.
RemoveContainer(r) ==
  /\ At(r, "remove")
  /\ \/ r \notin gone /\ containers' = containers \ {r} /\ UNCHANGED boundVars
     \/ r \in gone /\ UNCHANGED <<containers, boundVars>>
     \/ CleanupFails(r, "remove") /\ UNCHANGED containers
  /\ Continue(r, "update")
  /\ UNCHANGED <<fileVars, rowVars>>

-----------------------------------------------------------------------------
(* compile: what becomes of the submission                                 *)

\* Slip: status and message are passed in the other order.
UpdateSwapped(r) ==
  /\ At(r, "update") /\ built[r] = "failed"
  /\ status' = [status EXCEPT ![r] = "build failed"]
  /\ Reply(r, "invalid")
  /\ UNCHANGED <<fileVars, sourceRows, binaryPath, agents, containers, boundVars>>

\* A failed update is only logged: the row stays 'pending'.
UpdateInvalid(r) ==
  /\ At(r, "update") /\ built[r] = "failed"
  /\ \/ status' = [status EXCEPT ![r] = "invalid"] /\ UNCHANGED boundVars
     \/ /\ "db" \in Failing /\ faults < MaxFaults
        /\ faults' = faults + 1
        /\ unrecorded' = unrecorded \union {r}
        /\ UNCHANGED <<status, uncleaned, crashes>>
  /\ Reply(r, "invalid")
  /\ UNCHANGED <<fileVars, sourceRows, binaryPath, agents, containers>>

\* Slips: the error of the update is only logged; the binary is not deleted.
UpdateAnyway(r) ==
  /\ At(r, "update") /\ built[r] = "ok"
  /\ \/ /\ status' = [status EXCEPT ![r] = "compiled"]
        /\ binaryPath' = binaryPath \union {r}
        /\ UNCHANGED boundVars
     \/ /\ Fault("db")
        /\ UNCHANGED <<status, binaryPath>>
  /\ Continue(r, "agent_row")
  /\ UNCHANGED <<fileVars, sourceRows, agents, containers>>
UpdateOnly(r) ==
  /\ At(r, "update") /\ built[r] = "ok"
  /\ \/ /\ status' = [status EXCEPT ![r] = "compiled"]
        /\ binaryPath' = binaryPath \union {r}
        /\ Continue(r, "agent_row")
        /\ UNCHANGED boundVars
     \/ /\ Fault("db")
        /\ Reply(r, "error")
        /\ UNCHANGED <<status, binaryPath>>
  /\ UNCHANGED <<fileVars, sourceRows, agents, containers>>

UpdateCompiled(r) ==
  /\ At(r, "update") /\ built[r] = "ok"
  /\ \/ /\ status' = [status EXCEPT ![r] = "compiled"]
        /\ binaryPath' = binaryPath \union {r}
        /\ Continue(r, "agent_row")
        /\ UNCHANGED boundVars
     \/ /\ Fault("db")
        /\ Continue(r, "undo_binary")
        /\ UNCHANGED <<status, binaryPath>>
  /\ UNCHANGED <<fileVars, sourceRows, agents, containers>>

UndoBinary(r) ==
  /\ At(r, "undo_binary")
  /\ \/ binFile' = [binFile EXCEPT ![r] = "none"] /\ UNCHANGED boundVars
     \/ CleanupFails(r, "delete") /\ UNCHANGED binFile
  /\ Reply(r, "error")
  /\ UNCHANGED <<srcFile, rowVars, containers>>

\* Slip: the error of CreateAgent is only logged.
AnswerAnyway(r) ==
  /\ At(r, "agent_row")
  /\ \/ agents' = agents \union {r} /\ UNCHANGED boundVars
     \/ Fault("db") /\ UNCHANGED agents
  /\ Reply(r, "compiled")
  /\ UNCHANGED <<fileVars, sourceRows, status, binaryPath, containers>>

CreateAgent(r) ==
  /\ At(r, "agent_row")
  /\ \/ /\ agents' = agents \union {r}
        /\ Reply(r, "compiled")
        /\ UNCHANGED boundVars
     \/ /\ Fault("db")
        /\ Reply(r, "error")
        /\ UNCHANGED agents
  /\ UNCHANGED <<fileVars, sourceRows, status, binaryPath, containers>>

-----------------------------------------------------------------------------

\* The client disconnects.
Disconnect(r) == /\ "client" \in Failing
                 /\ pc[r] \in Steps /\ r \notin gone
                 /\ gone' = gone \union {r}
                 /\ UNCHANGED <<pc, response, built, fileVars, rowVars, containers, boundVars>>

\* The process dies: files, rows and containers stay as they are.
Crash == /\ crashes < MaxCrashes
         /\ crashes' = crashes + 1
         /\ pc' = [r \in Request |-> IF pc[r] \in Steps THEN "lost" ELSE pc[r]]
         /\ UNCHANGED <<gone, response, built, fileVars, rowVars, containers,
                        uncleaned, unrecorded, faults>>

Handle(r) ==
  \/ Validate(r) \/ WriteSource(r) \/ UnlinkSource(r)
  \/ CreateSourceCode(r) \/ UndoSource(r) \/ CreateSubmission(r)
  \/ CreateContainer(r) \/ DockerStep(r) \/ CompilerRefuses(r)
  \/ WriteBinary(r) \/ UnlinkBinary(r) \/ RemoveContainer(r)
  \/ UpdateInvalid(r) \/ UpdateCompiled(r) \/ UndoBinary(r) \/ CreateAgent(r)

Next == (\E r \in Request : Handle(r) \/ Disconnect(r)) \/ Crash

Spec == Init /\ [][Next]_vars

\* Every call returns but one: ContainerWait has no deadline, and waits for
\* the compiler as long as the client does.
Waiting(r) == At(r, "wait") /\ r \notin gone

FairSpec == Spec /\ \A r \in Request :
              WF_vars(pc[r] \in Steps /\ ~Waiting(r) /\ Handle(r))

-----------------------------------------------------------------------------
(* Properties                                                              *)

\* What the database offers to run can be run, at every moment and after a
\* crash: an agent has a compiled submission, a compiled submission a whole
\* binary, and a source_codes row a whole source file.
RowsHaveFiles ==
  /\ \A r \in agents : status[r] = "compiled"
  /\ \A r \in Request : status[r] = "compiled" <=> r \in binaryPath
  /\ \A r \in binaryPath : binFile[r] = "whole"
  /\ \A r \in sourceRows : srcFile[r] = "whole"

\* The database is the manifest of the files (artifact-cleanup.md): when a
\* request is over, and no deletion of a file failed as well, each file it left
\* behind is on record.
FilesHaveRows ==
  \A r \in Request : At(r, "done") /\ <<r, "delete">> \notin uncleaned =>
    /\ srcFile[r] # "none" => r \in sourceRows
    /\ binFile[r] # "none" => r \in binaryPath

\* What the client is told agrees with the rows: "compiled" and an agent go
\* together; after "invalid" there is neither agent nor binary on record, and
\* the row says 'invalid' too, or still 'pending' if the update failed; no other
\* answer goes with an 'invalid' row. The file of the failed build is gone,
\* unless its deletion failed.
AnswerIsTrue ==
  \A r \in Request : At(r, "done") =>
    /\ response[r] = "compiled" <=> r \in agents
    /\ status[r] = "invalid" => response[r] = "invalid"
    /\ response[r] = "invalid" =>
         /\ r \notin agents /\ r \notin binaryPath
         /\ status[r] = IF r \in unrecorded THEN "pending" ELSE "invalid"
         /\ <<r, "delete">> \notin uncleaned => binFile[r] = "none"

\* If the client stays and the removal itself works, the build container is
\* removed on every way out of Build that is not a crash.
BuildCleansUp ==
  \A r \in containers \ gone : <<r, "remove">> \notin uncleaned =>
    pc[r] \in {"copy", "start", "wait", "logs", "copy_back", "write_binary",
              "unlink_binary", "remove", "lost"}

\* A submission comes to an end unless its compiler does not; when the client
\* gives that one up it ends as well, through all the clean-ups.
RequestEnds ==
  \A r \in Request : pc[r] \in Steps ~> (pc[r] \in {"done", "lost"} \/ Waiting(r))

\* What the documentation says and the code does not do.

\* "the container is removed after each build" (compiler.go)
ContainerRemoved == \A r \in containers : ~At(r, "done")
=============================================================================
