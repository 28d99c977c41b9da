--------------------------- MODULE Workspace_proofs ---------------------------
(* What mjolnr may say about a repository that others write to as well: a      *)
(* commit is the index that was approved, a success is there to be seen, a      *)
(* clean failure did nothing, no writer drops an edit unseen, and the view       *)
(* follows every change of mjolnr's own; for any number of edits, commands, runs *)
(* and acts of others, in any order.                                             *)
EXTENDS Workspace, TLAPS

-------------------------------------------------------------------------------
(* Commits and the records of a command. *)

LEMMA CommitOf ==
  ASSUME NEW content \in Content, NEW parents \in SUBSET Commit
  PROVE  /\ commit_of(content, parents) \in Commit
         /\ commit_of(content, parents).tree = content
         /\ \A parent \in parents : contains(commit_of(content, parents), parent)
  BY DEF commit_of, Commit, Content, contains

LEMMA ContainsAll ==
  ASSUME NEW a \in Commit, NEW b \in Commit, NEW c \in Commit
  PROVE  /\ contains(a, a)
         /\ contains(a, b) /\ contains(b, c) => contains(a, c)
  BY DEF contains

LEMMA FixedTyped ==
  /\ Root \in Commit /\ Child \in Commit /\ NoJob \in Job /\ NothingRead \in View
  /\ NotMidway \in Midway /\ {} \in Content
  <1>1. Root \in Commit /\ {} \in Content
      BY DEF Root, Commit, Content
  <1>2. Child \in Commit
      BY BoundAssumption DEF Child, ChildEdit, Commit, Content
  <1>3. NoJob \in Job
      BY <1>1 DEF NoJob, Job, Op, Outcome
  <1>4. NothingRead \in View
      BY <1>1 DEF NothingRead, View
  <1>5. NotMidway \in Midway
      BY <1>1 DEF NotMidway, Midway
  <1> QED BY <1>1, <1>2, <1>3, <1>4, <1>5

\* The fields of a command that a step gives an outcome to, or begins.
LEMMA NoJobFields ==
  /\ NoJob.op = "refresh" /\ NoJob.outcome = "none" /\ NoJob.raced = FALSE
  /\ NoJob.did = FALSE /\ NoJob.success = FALSE
  /\ \A o \in Outcome : /\ [NoJob EXCEPT !.outcome = o] \in Job
                        /\ [NoJob EXCEPT !.outcome = o].outcome = o
  <1>1. NoJob \in Job
      BY FixedTyped
  <1>2. \A o \in Outcome : /\ [NoJob EXCEPT !.outcome = o] \in Job
                           /\ [NoJob EXCEPT !.outcome = o].outcome = o
      BY <1>1 DEF Job
  <1> QED BY <1>2 DEF NoJob

\* An act of somebody else marks the command, and leaves the rest of it alone.
LEMMA RacedFields ==
  ASSUME job \in Job, Raced
  PROVE  /\ job' \in Job /\ job'.op = job.op /\ job'.index = job.index
         /\ job'.head = job.head /\ job'.before = job.before
         /\ job'.success = job.success /\ job'.outcome = job.outcome
         /\ job'.did = job.did
         /\ at \in {"base", "git", "verify"} => job'.raced = TRUE
  <1>1. job' = [job EXCEPT !.raced = at \in {"base", "git", "verify"} \/ job.raced]
      BY DEF Raced
  <1>2. job.raced \in BOOLEAN
      BY DEF Job
  <1> QED BY <1>1, <1>2 DEF Job

\* What git's return writes down.
LEMMA ReturnFields ==
  ASSUME job \in Job, NEW success \in BOOLEAN, NEW did \in BOOLEAN,
         GitReturns(success, did)
  PROVE  /\ at = "git" /\ at' = "verify"
         /\ job' \in Job /\ job'.op = job.op /\ job'.index = job.index
         /\ job'.head = job.head /\ job'.before = job.before
         /\ job'.outcome = job.outcome /\ job'.raced = job.raced
         /\ job'.success = success /\ job'.did = did
         /\ unseen' = (unseen \/ did) /\ excused' = excused /\ tools' = tools
         /\ UNCHANGED <<bounds, client, session, view, reading>>
  <1>1. job' = [job EXCEPT !.success = success, !.did = did]
      BY DEF GitReturns
  <1>2. /\ job' \in Job /\ job'.op = job.op /\ job'.index = job.index
        /\ job'.head = job.head /\ job'.before = job.before
        /\ job'.outcome = job.outcome /\ job'.raced = job.raced
        /\ job'.success = success /\ job'.did = did
      BY <1>1 DEF Job
  <1> QED BY <1>2 DEF GitReturns, session

-------------------------------------------------------------------------------
(* Types. *)

LEMMA TypedInit ==
  ASSUME Init
  PROVE  TypeOK
  <1>1. 1 \in 0 .. MaxEdits /\ 2 \in 0 .. MaxEdits
      BY BoundAssumption
  <1>2. /\ head \in Commit /\ remote \in Commit /\ tracking \in Commit
      BY <1>1, FixedTyped DEF Init, Commit, Content, LocalEdit, PeerEdit
  <1>3. file \in Content /\ index \in Content /\ opened \in Content
      BY <1>2 DEF Init, Commit
  <1>4. view \in View /\ screen \in View /\ reading \in View
      BY <1>2, <1>3, FixedTyped DEF Init, View
  <1>5. minted \in 0 .. MaxEdits /\ commands \in 0 .. MaxCommands
        /\ outside \in 0 .. MaxOutside /\ proposed \in 0 .. MaxTools
        /\ faults \in 0 .. MaxFaults
      BY <1>1, BoundAssumption DEF Init
  <1>6. unmerged \in BOOLEAN /\ midway \in Midway /\ at = "mailbox" /\ job \in Job
        /\ tools = {} /\ storeFailed \in BOOLEAN /\ unseen \in BOOLEAN
        /\ excused \in BOOLEAN
      BY FixedTyped DEF Init
  <1> QED BY <1>2, <1>3, <1>4, <1>5, <1>6 DEF TypeOK

\* The steps that Commits, Becomes and Mints share.
LEMMA TypedCommits ==
  ASSUME TypeOK, Commits
  PROVE  head' \in Commit /\ midway' \in Midway /\ contains(head', head)
         /\ head' # head /\ head'.tree = index
         /\ UNCHANGED <<file, index, unmerged, tracking, remote>>
  <1>1. /\ index \in Content /\ head \in Commit /\ midway \in Midway
        /\ midway.other \in Commit
      BY DEF TypeOK, Midway
  <1>2. {head, midway.other} \in SUBSET Commit /\ {head} \in SUBSET Commit
      BY <1>1
  <1>3. head' \in Commit /\ contains(head', head) /\ head'.tree = index
    <2>1. CASE head' = commit_of(index, {head, midway.other})
        BY <1>1, <1>2, <2>1, CommitOf
    <2>2. CASE head' = commit_of(index, {head})
        BY <1>1, <1>2, <2>2, CommitOf
    <2> QED BY <2>1, <2>2 DEF Commits
  <1>4. midway' \in Midway
      BY <1>1, FixedTyped DEF Commits
  <1>5. head' # head
    <2>1. index # head.tree
        BY DEF Commits
    <2> QED BY <1>3, <2>1
  <1> QED BY <1>3, <1>4, <1>5 DEF Commits

LEMMA TypedMint ==
  ASSUME TypeOK, Mints
  PROVE  /\ mint \in 0 .. MaxEdits /\ minted' \in 0 .. MaxEdits
         /\ \A c \in Content : c \union {mint} \in Content
  <1>1. mint \in 0 .. MaxEdits
      BY BoundAssumption DEF TypeOK, Mints, mint
  <1> QED BY <1>1 DEF Mints, Content

LEMMA TypedGit ==
  ASSUME TypeOK, Git
  PROVE  TypeOK'
  <1>1. /\ job \in Job /\ file \in Content /\ index \in Content /\ head \in Commit
        /\ tracking \in Commit /\ remote \in Commit /\ midway \in Midway
        /\ unmerged \in BOOLEAN /\ unseen \in BOOLEAN
        /\ head.tree \in Content /\ midway.from \in Commit /\ midway.from.tree \in Content
      BY DEF TypeOK, Midway, Commit
  <1>2. ASSUME NEW success \in BOOLEAN, NEW did \in BOOLEAN, GitReturns(success, did),
               file' \in Content, index' \in Content, head' \in Commit,
               tracking' \in Commit, remote' \in Commit, midway' \in Midway,
               unmerged' \in BOOLEAN
        PROVE  TypeOK'
    <2>1. /\ job' \in Job /\ at' = "verify" /\ unseen' = (unseen \/ did)
          /\ excused' = excused
          /\ UNCHANGED <<bounds, client, session, view, reading>>
        BY <1>1, <1>2, ReturnFields
    <2> QED BY <1>1, <1>2, <2>1 DEF TypeOK, bounds, client, session
  <1>3. incoming \in Commit
      BY <1>1, FixedTyped DEF incoming
  <1>4. CASE GitFails
      BY <1>1, <1>2, <1>4 DEF GitFails, Same, repo
  <1>5. CASE GitAdd
      BY <1>1, <1>2, <1>5 DEF GitAdd
  <1>6. CASE GitRestore
      BY <1>1, <1>2, <1>6 DEF GitRestore
  <1>7. CASE GitCommit
      BY <1>1, <1>2, <1>7, TypedCommits DEF GitCommit
  <1>8. CASE GitUpToDate
      BY <1>1, <1>2, <1>8 DEF GitUpToDate, Same, repo
  <1>9. CASE GitMerge
    <2> DEFINE merged == commit_of(head.tree \union incoming.tree, {head, incoming})
    <2>1. head.tree \union incoming.tree \in Content /\ {head, incoming} \in SUBSET Commit
        BY <1>1, <1>3 DEF Commit, Content
    <2>2. merged \in Commit
        BY <2>1, CommitOf
    <2> HIDE DEF merged
    <2>3. Becomes(incoming) \/ Becomes(merged)
        BY <1>9 DEF GitMerge, merged
    <2>4. file' \in Content /\ index' \in Content /\ head' \in Commit
        BY <1>3, <2>2, <2>3 DEF Becomes, Commit
    <2> QED BY <1>1, <1>2, <1>9, <2>4 DEF GitMerge
  <1>10. CASE GitConflicts
    <2>1. file' \in Content
        BY <1>1, <1>3, <1>10 DEF GitConflicts, Commit, Content
    <2>2. midway' \in Midway /\ head' \in Commit
        BY <1>1, <1>3, <1>10 DEF GitConflicts, Midway
    <2> QED BY <1>1, <1>2, <1>10, <2>1, <2>2 DEF GitConflicts
  <1>11. CASE GitAbort
      BY <1>1, <1>2, <1>11, FixedTyped DEF GitAbort, Becomes
  <1>12. CASE GitFetch
      BY <1>1, <1>2, <1>12 DEF GitFetch
  <1>13. CASE GitPush
    <2>1. PICK success \in BOOLEAN, told \in BOOLEAN :
            /\ GitReturns(success, remote # head)
            /\ tracking' = (IF told THEN head ELSE tracking)
        BY <1>13 DEF GitPush
    <2>2. (remote # head) \in BOOLEAN
        OBVIOUS
    <2> QED BY <1>1, <1>2, <1>13, <2>1, <2>2 DEF GitPush
  <1> QED BY <1>4, <1>5, <1>6, <1>7, <1>8, <1>9, <1>10, <1>11, <1>12, <1>13 DEF Git

LEMMA OutcomeTyped == outcome \in Outcome
  BY DEF outcome, Outcome, weighed

\* What a write that fails leaves.
LEMMA FailedWrite ==
  ASSUME TypeOK, write_fails
  PROVE  /\ file' \in Content /\ faults' \in 0 .. MaxFaults /\ faults' > faults
         /\ unseen' \in BOOLEAN /\ excused' \in BOOLEAN
         /\ (unseen' => unseen \/ excused') /\ (excused => excused')
         /\ file' = file \/ file' = {}
         /\ UNCHANGED <<index, head, unmerged, midway, tracking, remote>>
         /\ UNCHANGED <<bounds, client, proposed, storeFailed, view, reading>>
  <1>1. faults' = faults + 1 /\ faults' <= MaxFaults /\ faults \in Nat
      BY BoundAssumption DEF write_fails, append, TypeOK
  <1>2. faults' \in 0 .. MaxFaults /\ faults' > faults
      BY <1>1, BoundAssumption
  <1>3. file' \in Content /\ unseen \in BOOLEAN /\ excused \in BOOLEAN
      BY FixedTyped DEF write_fails, TypeOK
  <1> QED BY <1>2, <1>3 DEF write_fails

LEMMA TypedCommand ==
  ASSUME TypeOK, Command
  PROVE  TypeOK'
  <1>1. /\ job \in Job /\ head \in Commit /\ index \in Content /\ file \in Content
        /\ screen \in View /\ reading \in View /\ unmerged \in BOOLEAN
        /\ screen.index \in Content /\ screen.base \in Commit
      BY DEF TypeOK, View
  <1>2. ASSUME Commanded PROVE commands' \in 0 .. MaxCommands
      BY <1>2, BoundAssumption DEF Commanded, TypeOK
  <1>3. ASSUME NEW op \in Op \ {"save", "refresh"}, BeginCommand(op) PROVE TypeOK'
    <2>1. commands' \in 0 .. MaxCommands /\ UNCHANGED <<minted, outside>>
        BY <1>2, <1>3 DEF BeginCommand, Commanded
    <2>2. at' \in {"base", "git", "project"} /\ job' \in Job
      <3>1. CASE ~guard(op, screen)
        <4>1. job' = [NoJob EXCEPT !.outcome = "refused"] /\ at' = "project"
            BY <1>3, <3>1 DEF BeginCommand, next_step
        <4> QED BY <4>1, NoJobFields DEF Outcome
      <3>2. CASE guard(op, screen)
        <4>1. /\ job' = [NoJob EXCEPT !.op = op, !.index = screen.index,
                                      !.head = screen.base, !.before = head]
              /\ at' \in {"base", "git"}
            BY <1>3, <3>2 DEF BeginCommand
        <4> QED BY <1>1, <4>1, FixedTyped DEF Job
      <3> QED BY <3>1, <3>2
    <2> QED BY <1>3, <2>1, <2>2 DEF BeginCommand, TypeOK, repo, client, session, seeing
  <1>4. CASE ReadBase
    <2>1. job' \in Job
        BY <1>1, <1>4 DEF ReadBase, Job
    <2> QED BY <1>4, <2>1 DEF ReadBase, TypeOK, repo, bounds, client, session, seeing
  <1>5. CASE Verify
    <2>1. job' \in Job /\ at' = "project"
        BY <1>5, OutcomeTyped, NoJobFields DEF Verify, next_step
    <2> QED BY <1>5, <2>1 DEF Verify, TypeOK, repo, bounds, client, session, seeing
  <1>6. CASE Project
    <2>1. reading' \in View
        BY <1>1, <1>6, FixedTyped DEF Project, View
    <2> QED BY <1>6, <2>1 DEF Project, TypeOK, repo, bounds, client, session
  <1>7. CASE Capture
    <2>1. view' \in View
        BY <1>1, <1>7 DEF Capture, View
    <2> QED BY <1>7, <2>1, FixedTyped DEF Capture, TypeOK, repo, bounds, client, session
  <1>8. CASE Refresh
      BY <1>2, <1>8, FixedTyped DEF Refresh, Commanded, TypeOK, repo, client, session, seeing
  <1>9. CASE BeginSave
    <2>1. job' \in Job
        BY <1>1, <1>9, FixedTyped DEF BeginSave, Job, Op
    <2> QED BY <1>2, <1>9, <2>1 DEF BeginSave, Commanded, TypeOK, repo, client, session, seeing
  <1>10. CASE WriteFile
    <2>1. job' \in Job
        BY <1>1, <1>10 DEF WriteFile, Job
    <2>2. file' \in Content /\ minted' \in 0 .. MaxEdits
        BY <1>10, TypedMint DEF WriteFile, TypeOK
    <2> QED BY <1>10, <2>1, <2>2 DEF WriteFile, TypeOK, client, session
  <1>11. ASSUME NEW ok \in BOOLEAN, RecordSave(ok) PROVE TypeOK'
    <2>1. faults' \in 0 .. MaxFaults
        BY <1>11, BoundAssumption DEF RecordSave, append, TypeOK
    <2>2. job' \in Job /\ at' \in {"project", "mailbox"}
        BY <1>11, NoJobFields, FixedTyped DEF RecordSave, Outcome
    <2> QED BY <1>11, <2>1, <2>2 DEF RecordSave, TypeOK, repo, bounds, client
  <1>12. CASE SaveFails
      BY <1>12, FailedWrite, FixedTyped DEF SaveFails, TypeOK, bounds, client
  <1> QED BY <1>3, <1>4, <1>5, <1>6, <1>7, <1>8, <1>9, <1>10, <1>11, <1>12, TypedGit
          DEF Command

LEMMA TypedRunning ==
  ASSUME TypeOK, Running
  PROVE  TypeOK'
  <1>1. ASSUME NEW tool \in tools, NEW next \in Tool, becomes(tool, next)
        PROVE  tools' \subseteq Tool
      BY <1>1 DEF becomes, TypeOK
  <1>2. CASE ToolProposed
    <2>1. proposed' \in 1 .. MaxTools
        BY <1>2, BoundAssumption DEF ToolProposed, TypeOK
    <2>2. [id |-> proposed', live |-> TRUE, step |-> "check",
           base |-> file, seen |-> {}, wrote |-> FALSE] \in Tool
        BY <2>1, FixedTyped DEF Tool, TypeOK
    <2>3. tools' \subseteq Tool
        BY <1>2, <2>2 DEF ToolProposed, TypeOK
    <2> QED BY <1>2, <2>1, <2>3 DEF ToolProposed, TypeOK, repo, bounds, command, client, seeing
  <1>3. CASE RunStops
    <2>1. tools' \subseteq Tool
        BY <1>3 DEF RunStops, TypeOK, Tool
    <2> QED BY <1>3, <2>1 DEF RunStops, TypeOK, repo, bounds, command, client, seeing
  <1>4. ASSUME NEW tool \in tools, ToolChecks(tool) PROVE TypeOK'
    <2>1. tool \in Tool /\ file \in Content
        BY DEF TypeOK
    <2>2. /\ [tool EXCEPT !.step = "write", !.seen = file] \in Tool
          /\ [tool EXCEPT !.step = "done"] \in Tool
        BY <2>1 DEF Tool
    <2>3. tools' \subseteq Tool
        BY <1>1, <1>4, <2>2 DEF ToolChecks
    <2> QED BY <1>4, <2>3 DEF ToolChecks, TypeOK, repo, bounds, command, client, seeing
  <1>5. ASSUME NEW tool \in tools, ToolWrites(tool) PROVE TypeOK'
    <2>1. tool \in Tool /\ tool.base \in Content
        BY DEF TypeOK, Tool
    <2>2. [tool EXCEPT !.step = "done", !.wrote = TRUE] \in Tool
        BY <2>1 DEF Tool
    <2>3. tools' \subseteq Tool
        BY <1>1, <1>5, <2>2 DEF ToolWrites
    <2>4. file' \in Content /\ minted' \in 0 .. MaxEdits
        BY <1>5, <2>1, TypedMint DEF ToolWrites
    <2> QED BY <1>5, <2>3, <2>4 DEF ToolWrites, TypeOK, command, client
  <1>6. ASSUME NEW tool \in tools, NEW ok \in BOOLEAN, ToolEnded(tool, ok) PROVE TypeOK'
    <2>1. faults' \in 0 .. MaxFaults
        BY <1>6, BoundAssumption DEF ToolEnded, append, TypeOK
    <2>2. tool.wrote \in BOOLEAN /\ tool.live \in BOOLEAN
        BY DEF TypeOK, Tool
    <2>3. /\ at' \in {"project", "mailbox"} /\ storeFailed' \in BOOLEAN
          /\ excused' \in BOOLEAN
        BY <1>6, <2>2 DEF ToolEnded, TypeOK
    <2> QED BY <1>6, <2>1, <2>3 DEF ToolEnded, TypeOK, repo, bounds, client
  <1>7. ASSUME NEW tool \in tools, ToolFails(tool) PROVE TypeOK'
    <2>1. [tool EXCEPT !.step = "done"] \in Tool
        BY DEF TypeOK, Tool
    <2>2. tools' \subseteq Tool
        BY <1>1, <1>7, <2>1 DEF ToolFails
    <2>3. write_fails /\ UNCHANGED command
        BY <1>7 DEF ToolFails
    <2> QED BY <2>2, <2>3, FailedWrite DEF TypeOK, bounds, command, client
  <1> QED BY <1>2, <1>3, <1>4, <1>5, <1>6, <1>7 DEF Running

LEMMA TypedOthers ==
  ASSUME TypeOK, Others
  PROVE  TypeOK'
  <1>1. job \in Job /\ file \in Content /\ index \in Content
      BY DEF TypeOK
  <1>2. ASSUME Outside
        PROVE  /\ outside' \in 0 .. MaxOutside
               /\ UNCHANGED <<commands, at, client, session, seeing>>
      BY <1>2, BoundAssumption DEF Outside, TypeOK
  <1>3. CASE TerminalEdits
      BY <1>1, <1>2, <1>3, TypedMint DEF TerminalEdits, TypeOK, client, session, seeing
  <1>4. CASE TerminalStages
      BY <1>1, <1>2, <1>4, RacedFields DEF TerminalStages, TypeOK, client, session, seeing
  <1>5. CASE TerminalCommits
      BY <1>1, <1>2, <1>5, RacedFields, TypedCommits
         DEF TerminalCommits, TypeOK, client, session, seeing
  <1>6. CASE TerminalContinues
    <2>1. {head, midway.from} \in SUBSET Commit
        BY DEF TypeOK, Midway
    <2>2. head' \in Commit /\ midway' \in Midway
        BY <1>1, <1>6, <2>1, CommitOf, FixedTyped DEF TerminalContinues
    <2> QED BY <1>1, <1>2, <1>6, <2>2, RacedFields
            DEF TerminalContinues, TypeOK, client, session, seeing
  <1>7. CASE TerminalFetches
      BY <1>1, <1>2, <1>7, RacedFields DEF TerminalFetches, TypeOK, client, session, seeing
  <1>8. CASE PeerPushes
    <2>1. remote.tree \union {mint} \in Content /\ minted' \in 0 .. MaxEdits
        BY <1>8, TypedMint DEF PeerPushes, TypeOK, Commit
    <2>2. {remote} \in SUBSET Commit
        BY DEF TypeOK
    <2>3. remote' \in Commit
        BY <1>8, <2>1, <2>2, CommitOf DEF PeerPushes
    <2> QED BY <1>2, <1>8, <2>1, <2>3 DEF PeerPushes, TypeOK, client, session, seeing
  <1>9. CASE Restart
    <2>1. faults' \in 0 .. MaxFaults
        BY <1>9, BoundAssumption DEF Restart, append, TypeOK
    <2>2. view' \in View
        BY <1>9 DEF Restart, View, TypeOK
    <2> QED BY <1>9, <2>1, <2>2, FixedTyped DEF Restart, TypeOK, repo, bounds
  <1> QED BY <1>3, <1>4, <1>5, <1>6, <1>7, <1>8, <1>9 DEF Others

LEMMA TypedStep ==
  ASSUME TypeOK, [Next]_vars
  PROVE  TypeOK'
  <1>1. CASE Look
      BY <1>1 DEF Look, TypeOK, repo, bounds, command, session, seeing
  <1>2. CASE UNCHANGED vars
      BY <1>2 DEF vars, repo, bounds, command, client, session, seeing, TypeOK
  <1> QED BY <1>1, <1>2, TypedCommand, TypedRunning, TypedOthers DEF Next

\* Contents, commits, the command in hand and the views stay what they are declared
\* to be, for any bounds on edits, commands, runs and acts of others.
THEOREM TypeCorrect == Spec => []TypeOK
  <1>1. Init => TypeOK
      BY TypedInit
  <1>2. TypeOK /\ [Next]_vars => TypeOK'
      BY TypedStep
  <1> QED BY <1>1, <1>2, PTL DEF Spec

-------------------------------------------------------------------------------
(* What a step is to the command in hand and to the repository it is about. *)

refs == <<index, head, unmerged, midway, tracking, remote>>
Working == {"base", "git", "verify"}

Others_race == TerminalStages \/ TerminalCommits \/ TerminalContinues \/ TerminalFetches

LEMMA Steps ==
  ASSUME TypeOK, [Next]_vars
  PROVE  \/ UNCHANGED <<refs, at, job>>
         \/ UNCHANGED refs /\ at' \notin Working /\ (at = "verify" => Verify \/ job' = NoJob)
         \/ \E op \in Op : BeginCommand(op) /\ guard(op, screen)
         \/ ReadBase \/ Git \/ Others_race \/ PeerPushes
  <1> USE DEF refs, Working
  <1>1. CASE Command
    <2>1. ASSUME NEW op \in Op \ {"save", "refresh"}, BeginCommand(op), ~guard(op, screen)
          PROVE  UNCHANGED refs /\ at' \notin Working /\ at # "verify"
        BY <2>1 DEF BeginCommand, next_step, repo
    <2>2. CASE Verify
        BY <2>2 DEF Verify, next_step, repo
    <2>3. CASE Project
        BY <2>3 DEF Project, repo
    <2>4. CASE Capture
        BY <2>4 DEF Capture, repo
    <2>5. CASE Refresh
        BY <2>5 DEF Refresh, repo
    <2>6. CASE BeginSave
        BY <2>6 DEF BeginSave, repo
    <2>7. CASE WriteFile
        BY <2>7 DEF WriteFile
    <2>8. ASSUME NEW ok \in BOOLEAN, RecordSave(ok)
          PROVE  UNCHANGED refs /\ at' \notin Working /\ at # "verify"
        BY <2>8 DEF RecordSave, repo
    <2>9. CASE SaveFails
        BY <2>9 DEF SaveFails, write_fails
    <2> QED BY <1>1, <2>1, <2>2, <2>3, <2>4, <2>5, <2>6, <2>7, <2>8, <2>9 DEF Command
  <1>2. CASE Running
    <2>1. CASE ToolProposed \/ RunStops
        BY <2>1 DEF ToolProposed, RunStops, repo, command
    <2>2. ASSUME NEW tool \in tools, ToolChecks(tool) \/ ToolWrites(tool)
          PROVE  UNCHANGED <<refs, at, job>>
        BY <2>2 DEF ToolChecks, ToolWrites, repo, command
    <2>3. ASSUME NEW tool \in tools, NEW ok \in BOOLEAN, ToolEnded(tool, ok)
          PROVE  UNCHANGED refs /\ at' \notin Working /\ at # "verify"
        BY <2>3 DEF ToolEnded, repo
    <2>4. ASSUME NEW tool \in tools, ToolFails(tool)
          PROVE  UNCHANGED <<refs, at, job>>
        BY <2>4 DEF ToolFails, write_fails, command
    <2> QED BY <1>2, <2>1, <2>2, <2>3, <2>4 DEF Running
  <1>3. CASE Others
    <2>1. CASE TerminalEdits
        BY <2>1 DEF TerminalEdits, Outside
    <2>2. CASE Restart
        BY <2>2 DEF Restart, repo
    <2> QED BY <1>3, <2>1, <2>2 DEF Others, Others_race
  <1>4. CASE Look
      BY <1>4 DEF Look, repo, command
  <1>5. CASE UNCHANGED vars
      BY <1>5 DEF vars, repo, command
  <1> QED BY <1>1, <1>2, <1>3, <1>4, <1>5 DEF Next

\* Somebody else's act marks the command, whose checks may not hold any more.
LEMMA RaceMarks ==
  ASSUME TypeOK, Others_race
  PROVE  /\ at' = at
         /\ job' \in Job /\ job'.op = job.op /\ job'.index = job.index
         /\ job'.head = job.head /\ job'.before = job.before
         /\ job'.success = job.success /\ job'.outcome = job.outcome
         /\ job'.did = job.did
         /\ at \in Working => job'.raced = TRUE
         /\ head' \in Commit /\ contains(head', head)
         /\ remote' = remote /\ tracking' \in {tracking, remote}
  <1>1. Raced /\ at' = at /\ remote' = remote /\ tracking' \in {tracking, remote}
      BY DEF Others_race, TerminalStages, TerminalCommits, TerminalContinues,
             TerminalFetches, Outside, Commits
  <1>2. head \in Commit /\ job \in Job
      BY DEF TypeOK
  <1>3. head' \in Commit /\ contains(head', head)
    <2>1. CASE TerminalStages \/ TerminalFetches
        BY <1>2, <2>1, ContainsAll DEF TerminalStages, TerminalFetches
    <2>2. CASE TerminalCommits
        BY <2>2, TypedCommits DEF TerminalCommits
    <2>3. CASE TerminalContinues
      <3>1. {head, midway.from} \in SUBSET Commit /\ index \in Content
          BY DEF TypeOK, Midway
      <3> QED BY <2>3, <3>1, CommitOf DEF TerminalContinues
    <2> QED BY <2>1, <2>2, <2>3 DEF Others_race
  <1> QED BY <1>1, <1>2, <1>3, RacedFields DEF Working

-------------------------------------------------------------------------------
(* The command from its checks to the check of what git did. *)

\* Until git has run, what the command checked still holds, unless somebody else
\* has acted since: the index is the one that was approved, and HEAD is where the
\* evidence will be measured from.
CheckedInv ==
  /\ at \in Working => job.outcome = "none"
  /\ at = "base" => job.op = "commit"
  /\ at \in {"base", "git"} /\ job.op = "commit" /\ ~job.raced => index = job.index
  /\ at = "git" /\ ~job.raced => head = job.before
  /\ at = "git" /\ job.op = "rebase" /\ ~job.raced => head = job.head

\* git stopped in a merge it could not finish.
Stopped == unmerged /\ midway.op = "merge"

\* Once git has run, a success did what it was for, and an effect that git did not
\* own up to left a trace that the command's own check looks for.
ReturnedInv ==
  at = "verify" =>
    /\ job.success =>
         /\ job.op = "commit" => job.did
         /\ job.op = "child" => contains(head, Child)
         /\ job.op = "rebase" => job.raced \/ contains(head, tracking)
    /\ job.did /\ ~job.raced /\ ~job.success =>
         /\ job.op = "commit" => head # job.before
         /\ job.op = "child" => Stopped \/ head # job.before
         /\ job.op = "upstream" => Stopped \/ contains(head, tracking)
         /\ job.op = "rebase" => midway.op = "rebase" \/ head # job.head
         /\ job.op \in {"commit", "child", "upstream", "rebase", "push"}

\* The tracking ref is never ahead of the remote it stands for.
RemoteInv == contains(remote, tracking)

CommandInv == CheckedInv /\ ReturnedInv /\ RemoteInv

LEMMA CommandInit ==
  ASSUME Init
  PROVE  CommandInv
  <1>1. remote \in Commit
      BY TypedInit DEF TypeOK
  <1>2. contains(remote, remote) /\ contains(remote, Root)
      BY <1>1 DEF contains, Root
  <1> QED BY <1>2 DEF Init, CommandInv, CheckedInv, ReturnedInv, RemoteInv, Working

LEMMA CommandGit ==
  ASSUME TypeOK, CommandInv, Git
  PROVE  CommandInv'
  <1>0. at = "git"
      BY ReturnFields
         DEF Git, GitFails, GitAdd, GitRestore, GitCommit, GitUpToDate, GitMerge,
             GitConflicts, GitAbort, GitFetch, GitPush, GitReturns
  <1>1. /\ job \in Job /\ head \in Commit /\ tracking \in Commit /\ remote \in Commit
        /\ job.outcome = "none"
        /\ ~job.raced => head = job.before
        /\ job.op = "rebase" /\ ~job.raced => head = job.head
        /\ contains(remote, tracking)
      BY <1>0 DEF TypeOK, CommandInv, CheckedInv, RemoteInv, Working
  <1>2. ASSUME NEW success \in BOOLEAN, NEW did \in BOOLEAN, GitReturns(success, did),
               contains(remote', tracking'),
               success => /\ job.op = "commit" => did
                          /\ job.op = "child" => contains(head', Child)
                          /\ job.op = "rebase" => job.raced \/ contains(head', tracking'),
               did /\ ~job.raced /\ ~success =>
                 /\ job.op = "commit" => head' # job.before
                 /\ job.op = "child" => Stopped' \/ head' # job.before
                 /\ job.op = "upstream" => Stopped' \/ contains(head', tracking')
                 /\ job.op = "rebase" => midway'.op = "rebase" \/ head' # job.head
                 /\ job.op \in {"commit", "child", "upstream", "rebase", "push"}
        PROVE  CommandInv'
    <2>1. /\ at' = "verify" /\ job'.op = job.op /\ job'.head = job.head
          /\ job'.before = job.before /\ job'.outcome = "none" /\ job'.raced = job.raced
          /\ job'.success = success /\ job'.did = did
        BY <1>1, <1>2, ReturnFields
    <2>2. CheckedInv'
        BY <2>1 DEF CheckedInv
    <2>3. ReturnedInv'
        BY <1>2, <2>1 DEF ReturnedInv
    <2>4. RemoteInv'
        BY <1>2 DEF RemoteInv
    <2> QED BY <2>2, <2>3, <2>4 DEF CommandInv
  <1>3. incoming \in Commit /\ (job.op = "child" => incoming = Child)
        /\ (job.op # "child" => incoming = tracking)
      BY <1>1, FixedTyped DEF incoming
  <1>4. CASE GitFails
      BY <1>1, <1>2, <1>4 DEF GitFails, Same, repo
  <1>5. CASE GitAdd \/ GitRestore \/ GitAbort
      BY <1>1, <1>2, <1>5 DEF GitAdd, GitRestore, GitAbort
  <1>6. CASE GitCommit
    <2>1. PICK success \in BOOLEAN : GitReturns(success, TRUE)
        BY <1>6 DEF GitCommit
    <2>2. job.op = "commit" /\ head' # head /\ remote' = remote /\ tracking' = tracking
        BY <1>6, TypedCommits DEF GitCommit
    <2> QED BY <1>1, <1>2, <2>1, <2>2
  <1>7. CASE GitUpToDate
      BY <1>1, <1>2, <1>3, <1>7 DEF GitUpToDate, Same, repo
  <1>8. CASE GitMerge
    <2>1. PICK success \in BOOLEAN : GitReturns(success, TRUE)
        BY <1>8 DEF GitMerge
    <2>2. contains(head', incoming)
      <3>1. head.tree \union incoming.tree \in Content /\ {head, incoming} \in SUBSET Commit
          BY <1>1, <1>3 DEF Commit, Content
      <3>2. contains(commit_of(head.tree \union incoming.tree, {head, incoming}), incoming)
          BY <3>1, CommitOf
      <3>3. contains(incoming, incoming)
          BY <1>3, ContainsAll
      <3> QED BY <1>8, <3>2, <3>3 DEF GitMerge, Becomes
    <2>3. head' # head
        BY <1>8, <2>2 DEF GitMerge
    <2>4. remote' = remote /\ tracking' = tracking
          /\ job.op \in {"child", "upstream", "rebase"}
        BY <1>8 DEF GitMerge
    <2> QED BY <1>1, <1>2, <1>3, <2>1, <2>2, <2>3, <2>4
  <1>9. CASE GitConflicts
    <2>1. /\ GitReturns(FALSE, TRUE) /\ remote' = remote /\ tracking' = tracking
          /\ job.op \in {"child", "upstream", "rebase"} /\ unmerged' = TRUE
          /\ midway'.op = IF job.op = "rebase" THEN "rebase" ELSE "merge"
        BY <1>9 DEF GitConflicts
    <2> QED BY <1>1, <1>2, <2>1 DEF Stopped
  <1>10. CASE GitFetch
    <2>1. contains(remote, remote)
        BY <1>1, ContainsAll
    <2> QED BY <1>1, <1>2, <1>10, <2>1 DEF GitFetch
  <1>11. CASE GitPush
    <2>1. PICK success \in BOOLEAN, told \in BOOLEAN :
            /\ GitReturns(success, remote # head)
            /\ tracking' = (IF told THEN head ELSE tracking)
        BY <1>11 DEF GitPush
    <2>2. contains(head, head) /\ contains(head, tracking)
        BY <1>1, <1>11, ContainsAll DEF GitPush
    <2>3. (remote # head) \in BOOLEAN
        OBVIOUS
    <2> QED BY <1>1, <1>2, <1>11, <2>1, <2>2, <2>3 DEF GitPush
  <1> QED BY <1>4, <1>5, <1>6, <1>7, <1>8, <1>9, <1>10, <1>11 DEF Git

LEMMA CommandStep ==
  ASSUME TypeOK, CommandInv, [Next]_vars
  PROVE  CommandInv'
  <1>1. CASE UNCHANGED <<refs, at, job>>
      BY <1>1 DEF refs, CommandInv, CheckedInv, ReturnedInv, RemoteInv, Stopped, Working
  <1>2. CASE UNCHANGED refs /\ at' \notin Working
      BY <1>2 DEF refs, CommandInv, CheckedInv, ReturnedInv, RemoteInv, Working
  <1>3. ASSUME NEW op \in Op, BeginCommand(op), guard(op, screen) PROVE CommandInv'
    <2>1. /\ job' = [NoJob EXCEPT !.op = op, !.index = screen.index,
                                  !.head = screen.base, !.before = head]
          /\ at' = (IF op = "commit" THEN "base" ELSE "git")
          /\ UNCHANGED refs
        BY <1>3 DEF BeginCommand, repo, refs
    <2>2. /\ job'.op = op /\ job'.index = screen.index /\ job'.head = screen.base
          /\ job'.before = head /\ job'.outcome = "none" /\ job'.raced = FALSE
        BY <2>1, NoJobFields, FixedTyped DEF Job
    <2>3. op = "commit" => index = screen.index
        BY <1>3 DEF guard, approved
    <2>4. op = "rebase" => head = screen.base
        BY <1>3 DEF guard
    <2> QED BY <2>1, <2>2, <2>3, <2>4
            DEF refs, CommandInv, CheckedInv, ReturnedInv, RemoteInv, Working
  <1>4. CASE ReadBase
    <2>1. /\ job'.op = job.op /\ job'.index = job.index /\ job'.head = job.head
          /\ job'.before = head /\ job'.outcome = job.outcome /\ job'.raced = job.raced
          /\ at = "base" /\ at' = "git" /\ UNCHANGED refs
        BY <1>4 DEF ReadBase, TypeOK, Job, repo, refs
    <2> QED BY <2>1 DEF refs, CommandInv, CheckedInv, ReturnedInv, RemoteInv, Working
  <1>5. CASE Others_race
    <2>1. /\ contains(remote, tracking) /\ contains(remote, remote)
          /\ at \in Working => job.outcome = "none"
        BY ContainsAll DEF CommandInv, RemoteInv, CheckedInv, TypeOK
    <2>2. CheckedInv' /\ RemoteInv'
        BY <1>5, <2>1, RaceMarks DEF CommandInv, CheckedInv, RemoteInv, Working
    <2>3. ReturnedInv'
      <3>1. SUFFICES ASSUME at' = "verify" PROVE ReturnedInv'
          BY DEF ReturnedInv
      <3>2. /\ at = "verify" /\ job'.raced = TRUE /\ job'.op = job.op
            /\ job'.success = job.success /\ job'.did = job.did
            /\ contains(head', head) /\ head' \in Commit
          BY <1>5, <3>1, RaceMarks DEF Working
      <3>3. contains(head, Child) => contains(head', Child)
          BY <3>2, ContainsAll, FixedTyped DEF TypeOK
      <3> QED BY <3>2, <3>3 DEF CommandInv, ReturnedInv
    <2> QED BY <2>2, <2>3 DEF CommandInv
  <1>6. CASE PeerPushes
    <2>1. UNCHANGED <<index, head, unmerged, midway, tracking, at, job>>
        BY <1>6 DEF PeerPushes, Outside
    <2>2. contains(remote', remote) /\ remote' \in Commit
      <3>1. remote.tree \union {mint} \in Content /\ {remote} \in SUBSET Commit
          BY <1>6, TypedMint DEF PeerPushes, TypeOK, Commit
      <3> QED BY <1>6, <3>1, CommitOf DEF PeerPushes
    <2>3. contains(remote', tracking)
        BY <2>2, ContainsAll DEF CommandInv, RemoteInv, TypeOK
    <2> QED BY <2>1, <2>3
            DEF CommandInv, CheckedInv, ReturnedInv, RemoteInv, Stopped, Working
  <1> QED BY <1>1, <1>2, <1>3, <1>4, <1>5, <1>6, CommandGit, Steps

LEMMA CommandAlways == Spec => [](TypeOK /\ CommandInv)
  <1>1. Init => TypeOK /\ CommandInv
      BY TypedInit, CommandInit
  <1>2. TypeOK /\ CommandInv /\ [Next]_vars => TypeOK' /\ CommandInv'
      BY TypedStep, CommandStep
  <1> QED BY <1>1, <1>2, PTL DEF Spec

\* A commit of the commit command records the index that the human approved, unless
\* somebody else moved the index or HEAD between its check and git
\* (Repository::commit).
THEOREM CommitIsApproved == Spec => CommittedIsApproved
  <1> DEFINE Approves == (at = "git" /\ job.op = "commit" /\ head' # head)
                           => (at' = "verify" => head'.tree = job.index \/ job.raced)
  <1>1. TypeOK /\ CommandInv /\ [Next]_vars => [Approves]_vars
    <2> SUFFICES ASSUME TypeOK, CommandInv, [Next]_vars,
                        at = "git", job.op = "commit", head' # head, at' = "verify"
                 PROVE  head'.tree = job.index \/ job.raced
        OBVIOUS
    <2>1. Git
        BY Steps, RaceMarks DEF refs, Working, BeginCommand, ReadBase, PeerPushes
    <2>2. Commits
        BY <2>1 DEF Git, GitFails, Same, repo, GitAdd, GitRestore, GitCommit, GitUpToDate,
                    GitMerge, GitConflicts, GitAbort, GitFetch, GitPush
    <2>3. head'.tree = index
        BY <2>2, TypedCommits
    <2> QED BY <2>3 DEF CommandInv, CheckedInv
  <1> QED BY <1>1, CommandAlways, PTL DEF Spec, CommittedIsApproved

\* A command that reports success reached what it was for, whoever else acted
\* meanwhile (the verifications of repository/mod.rs).
THEOREM SuccessReached == Spec => SuccessIsEvidence
  <1> DEFINE Reached ==
        (at = "verify" /\ job'.outcome = "ok")
          => CASE job.op = "commit" -> job.did
               [] job.op = "child" -> contains(head, Child)
               [] job.op = "upstream" -> contains(head, tracking)
               [] job.op = "rebase" -> job.raced \/ contains(head, tracking)
               [] job.op = "push" -> contains(remote, job.head)
               [] OTHER -> TRUE
  <1>1. TypeOK /\ CommandInv /\ [Next]_vars => [Reached]_vars
    <2> SUFFICES ASSUME TypeOK, CommandInv, [Next]_vars, at = "verify", job'.outcome = "ok"
                 PROVE  CASE job.op = "commit" -> job.did
                          [] job.op = "child" -> contains(head, Child)
                          [] job.op = "upstream" -> contains(head, tracking)
                          [] job.op = "rebase" -> job.raced \/ contains(head, tracking)
                          [] job.op = "push" -> contains(remote, job.head)
                          [] OTHER -> TRUE
        OBVIOUS
    <2>1. Verify
      <3>1. job.outcome = "none"
          BY DEF CommandInv, CheckedInv, Working
      <3>2. ~Git
          BY DEF Git, GitFails, GitAdd, GitRestore, GitCommit, GitUpToDate, GitMerge,
                 GitConflicts, GitAbort, GitFetch, GitPush, GitReturns
      <3>3. ~Others_race
          BY <3>1, RaceMarks
      <3>4. job' # NoJob
          BY NoJobFields
      <3> QED BY <3>1, <3>2, <3>3, <3>4, Steps
              DEF BeginCommand, ReadBase, PeerPushes, Outside
    <2>2. outcome = "ok"
        BY <2>1, OutcomeTyped, NoJobFields DEF Verify
    <2>3. CASE job.op = "commit"
      <3>1. job.success
          BY <2>2, <2>3 DEF outcome, weighed
      <3> QED BY <2>3, <3>1 DEF CommandInv, ReturnedInv
    <2>4. CASE job.op = "child"
      <3>1. job.success
          BY <2>2, <2>4 DEF outcome, weighed
      <3> QED BY <2>4, <3>1 DEF CommandInv, ReturnedInv
    <2>5. CASE job.op = "upstream"
      <3>1. contains(head, tracking)
          BY <2>2, <2>5 DEF outcome, weighed
      <3> QED BY <2>5, <3>1
    <2>6. CASE job.op = "rebase"
      <3>1. job.success
          BY <2>2, <2>6 DEF outcome
      <3> QED BY <2>6, <3>1 DEF CommandInv, ReturnedInv
    <2>7. CASE job.op = "push"
      <3>1. tracking = job.head
          BY <2>2, <2>7 DEF outcome, weighed
      <3> QED BY <2>7, <3>1 DEF CommandInv, RemoteInv
    <2> QED BY <2>3, <2>4, <2>5, <2>6, <2>7
  <1> QED BY <1>1, CommandAlways, PTL DEF Spec, SuccessIsEvidence

\* A failure that is reported as clean left the repository as it was, unless somebody
\* else acted on it meanwhile (classify_clean_failure).
THEOREM CleanDidNothing == Spec => CleanFailureHadNoEffect
  <1> DEFINE Clean == (at = "verify" /\ job'.outcome = "clean" /\ job.op # "push")
                        => ~job.did \/ job.raced
  <1>1. TypeOK /\ CommandInv /\ [Next]_vars => [Clean]_vars
    <2> SUFFICES ASSUME TypeOK, CommandInv, [Next]_vars, at = "verify",
                        job'.outcome = "clean", job.op # "push", job.did, ~job.raced
                 PROVE  FALSE
        OBVIOUS
    <2>1. Verify
      <3>1. job.outcome = "none"
          BY DEF CommandInv, CheckedInv, Working
      <3>2. ~Git
          BY DEF Git, GitFails, GitAdd, GitRestore, GitCommit, GitUpToDate, GitMerge,
                 GitConflicts, GitAbort, GitFetch, GitPush, GitReturns
      <3>3. ~Others_race
          BY <3>1, RaceMarks
      <3>4. job' # NoJob
          BY NoJobFields
      <3> QED BY <3>1, <3>2, <3>3, <3>4, Steps
              DEF BeginCommand, ReadBase, PeerPushes, Outside
    <2>2. outcome = "clean"
        BY <2>1, OutcomeTyped, NoJobFields DEF Verify
    <2>3. ~job.success
        BY <2>2 DEF outcome, weighed
    <2>4. job.op \in {"commit", "child", "upstream", "rebase"}
        BY <2>3 DEF CommandInv, ReturnedInv
    <2>5. CASE job.op \in {"commit", "child"}
        BY <2>2, <2>3, <2>5 DEF outcome, weighed, CommandInv, ReturnedInv, Stopped
    <2>6. CASE job.op = "upstream"
        BY <2>2, <2>3, <2>6 DEF outcome, weighed, CommandInv, ReturnedInv, Stopped
    <2>7. CASE job.op = "rebase"
        BY <2>2, <2>3, <2>7 DEF outcome, CommandInv, ReturnedInv
    <2> QED BY <2>4, <2>5, <2>6, <2>7
  <1> QED BY <1>1, CommandAlways, PTL DEF Spec, CleanFailureHadNoEffect

-------------------------------------------------------------------------------
(* The view, and what the writers of the file compare it with. *)

\* A change of mjolnr's that no view was taken after is on its way to one, belongs
\* to a tool that has still to be answered for, or is one of the early returns.
SeenInv ==
  unseen => \/ excused \/ \E tool \in tools : tool.wrote
            \/ at \in {"verify", "project", "record"}

\* A save replaces the content that was compared; a tool that is past its check was
\* made from the content that it found.
ComparedInv ==
  /\ at = "write" => job.index = opened
  /\ \A tool \in tools : tool.step = "write" => tool.base = tool.seen

FileInv == SeenInv /\ ComparedInv

\* A tool that was replaced by its next step has kept what it wrote.
LEMMA BecomesKeeps ==
  ASSUME NEW tool \in tools, NEW next, becomes(tool, next), tool.wrote => next.wrote,
         \E other \in tools : other.wrote
  PROVE  \E other \in tools' : other.wrote
  BY DEF becomes

LEMMA FileStep ==
  ASSUME TypeOK, FileInv, [Next]_vars
  PROVE  FileInv'
  <1> USE DEF FileInv, SeenInv, ComparedInv
  <1>1. CASE Command
    <2>1. ASSUME NEW op \in Op \ {"save", "refresh"}, BeginCommand(op) PROVE FileInv'
      <3>1. at = "mailbox" /\ at' # "write" /\ UNCHANGED <<session, seeing>>
          BY <2>1 DEF BeginCommand, next_step
      <3> QED BY <3>1 DEF session, seeing
    <2>2. CASE ReadBase
        BY <2>2 DEF ReadBase, session, seeing
    <2>3. CASE Git
      <3>1. PICK success \in BOOLEAN, did \in BOOLEAN : GitReturns(success, did)
          BY <2>3 DEF Git, GitFails, GitAdd, GitRestore, GitCommit, GitUpToDate, GitMerge,
                      GitConflicts, GitAbort, GitFetch, GitPush
      <3>2. at' = "verify" /\ tools' = tools
          BY <3>1 DEF GitReturns, session
      <3> QED BY <3>2
    <2>4. CASE Verify
        BY <2>4 DEF Verify, next_step, session, seeing
    <2>5. CASE Project
        BY <2>5 DEF Project, session
    <2>6. CASE Capture
        BY <2>6 DEF Capture, session
    <2>7. CASE Refresh
        BY <2>7 DEF Refresh, session, seeing
    <2>8. CASE BeginSave
      <3>1. /\ at = "mailbox" /\ at' = "write" /\ opened' = opened /\ file = opened
            /\ job' = [NoJob EXCEPT !.op = "save", !.index = file]
            /\ UNCHANGED <<session, seeing>>
          BY <2>8 DEF BeginSave, current, client
      <3>2. job'.index = file
          BY <3>1, FixedTyped DEF Job
      <3> QED BY <3>1, <3>2 DEF session, seeing
    <2>9. CASE WriteFile
        BY <2>9 DEF WriteFile, session
    <2>10. ASSUME NEW ok \in BOOLEAN, RecordSave(ok) PROVE FileInv'
        BY <2>10 DEF RecordSave
    <2>11. CASE SaveFails
        BY <2>11, FailedWrite DEF SaveFails
    <2> QED BY <1>1, <2>1, <2>2, <2>3, <2>4, <2>5, <2>6, <2>7, <2>8, <2>9, <2>10, <2>11
            DEF Command
  <1>2. CASE Running
    <2>1. CASE ToolProposed
      <3> DEFINE born == [id |-> proposed', live |-> TRUE, step |-> "check",
                          base |-> file, seen |-> {}, wrote |-> FALSE]
      <3>1. /\ tools' = tools \union {born} /\ UNCHANGED <<command, client, seeing>>
            /\ born.step = "check"
          BY <2>1 DEF ToolProposed
      <3> HIDE DEF born
      <3> QED BY <3>1 DEF command, client, seeing
    <2>2. CASE RunStops
      <3>1. /\ at = "mailbox" /\ tools' = {[tool EXCEPT !.live = FALSE] : tool \in tools}
            /\ UNCHANGED <<command, client, seeing>>
          BY <2>2 DEF RunStops
      <3>2. \A tool \in tools : /\ [tool EXCEPT !.live = FALSE].wrote = tool.wrote
                                /\ [tool EXCEPT !.live = FALSE].step = tool.step
                                /\ [tool EXCEPT !.live = FALSE].base = tool.base
                                /\ [tool EXCEPT !.live = FALSE].seen = tool.seen
          BY DEF TypeOK, Tool
      <3>3. ComparedInv'
        <4>1. ASSUME NEW next \in tools', next.step = "write" PROVE next.base = next.seen
          <5>1. PICK tool \in tools : next = [tool EXCEPT !.live = FALSE]
              BY <3>1
          <5>2. tool.step = "write" /\ next.base = tool.base /\ next.seen = tool.seen
              BY <3>2, <4>1, <5>1
          <5> QED BY <5>2
        <4> QED BY <3>1, <4>1 DEF command, client
      <3>4. (\E tool \in tools : tool.wrote) => \E tool \in tools' : tool.wrote
        <4>1. SUFFICES ASSUME NEW tool \in tools, tool.wrote
                       PROVE  \E other \in tools' : other.wrote
            OBVIOUS
        <4>2. [tool EXCEPT !.live = FALSE] \in tools'
            BY <3>1
        <4> QED BY <3>2, <4>1, <4>2
      <3>5. SeenInv'
          BY <3>1, <3>4 DEF command, seeing
      <3> QED BY <3>3, <3>5
    <2>3. ASSUME NEW tool \in tools, ToolChecks(tool) PROVE FileInv'
      <3> DEFINE next == IF tool.live /\ observed(tool)
                         THEN [tool EXCEPT !.step = "write", !.seen = file]
                         ELSE [tool EXCEPT !.step = "done"]
      <3>1. /\ becomes(tool, next) /\ UNCHANGED <<command, client, seeing>>
          BY <2>3 DEF ToolChecks
      <3>2. /\ next.wrote = tool.wrote
            /\ next.step = "write" => next.base = next.seen
          BY DEF TypeOK, Tool, observed
      <3> HIDE DEF next
      <3>3. ComparedInv'
          BY <3>1, <3>2 DEF becomes, command, client
      <3>4. SeenInv'
          BY <3>1, <3>2, BecomesKeeps DEF command, seeing
      <3> QED BY <3>3, <3>4
    <2>4. ASSUME NEW tool \in tools, ToolWrites(tool) PROVE FileInv'
      <3> DEFINE next == [tool EXCEPT !.step = "done", !.wrote = TRUE]
      <3>1. becomes(tool, next) /\ UNCHANGED <<command, client>>
          BY <2>4 DEF ToolWrites
      <3>2. next.wrote = TRUE /\ next.step = "done"
          BY DEF TypeOK, Tool
      <3> HIDE DEF next
      <3>3. next \in tools'
          BY <3>1 DEF becomes
      <3>4. ComparedInv'
          BY <3>1, <3>2 DEF becomes, command, client
      <3> QED BY <3>2, <3>3, <3>4
    <2>5. ASSUME NEW tool \in tools, NEW ok \in BOOLEAN, ToolEnded(tool, ok) PROVE FileInv'
      <3>1. /\ at = "mailbox" /\ at' # "write" /\ tools' = tools \ {tool}
            /\ unseen' = unseen
            /\ tool.wrote => at' = "project" \/ excused'
            /\ excused => excused'
          BY <2>5 DEF ToolEnded, TypeOK, Tool
      <3> QED BY <3>1
    <2>6. ASSUME NEW tool \in tools, ToolFails(tool) PROVE FileInv'
      <3> DEFINE next == [tool EXCEPT !.step = "done"]
      <3>1. becomes(tool, next) /\ write_fails /\ UNCHANGED command
          BY <2>6 DEF ToolFails
      <3>2. next.step = "done" /\ next.wrote = tool.wrote
          BY DEF TypeOK, Tool
      <3> HIDE DEF next
      <3>3. ComparedInv'
          BY <3>1, <3>2, FailedWrite DEF becomes, command, client
      <3>4. SeenInv'
          BY <3>1, <3>2, FailedWrite, BecomesKeeps DEF command
      <3> QED BY <3>3, <3>4
    <2> QED BY <1>2, <2>1, <2>2, <2>3, <2>4, <2>5, <2>6 DEF Running
  <1>3. CASE Others
    <2>1. CASE Restart
        BY <2>1 DEF Restart
    <2>2. CASE Others_race
      <3>1. /\ at' = at /\ job'.index = job.index
            /\ UNCHANGED <<client, session, seeing>>
          BY <2>2, RaceMarks DEF Others_race, TerminalStages, TerminalCommits,
             TerminalContinues, TerminalFetches, Outside
      <3> QED BY <3>1 DEF client, session, seeing
    <2>3. CASE TerminalEdits \/ PeerPushes
        BY <2>3 DEF TerminalEdits, PeerPushes, Outside, client, session, seeing
    <2> QED BY <1>3, <2>1, <2>2, <2>3 DEF Others, Others_race
  <1>4. CASE Look
      BY <1>4 DEF Look, command, session, seeing
  <1>5. CASE UNCHANGED vars
      BY <1>5 DEF vars, command, client, session, seeing
  <1> QED BY <1>1, <1>2, <1>3, <1>4, <1>5 DEF Next

LEMMA FileAlways == Spec => [](TypeOK /\ FileInv)
  <1>1. Init => TypeOK /\ FileInv
      BY TypedInit DEF Init, FileInv, SeenInv, ComparedInv
  <1>2. TypeOK /\ FileInv /\ [Next]_vars => TypeOK' /\ FileInv'
      BY TypedStep, FileStep
  <1> QED BY <1>1, <1>2, PTL DEF Spec

\* Once the actor is idle the view was taken after every change mjolnr itself made:
\* commands whatever their outcome, saves, writes of tools (the RefreshTrigger sites).
THEOREM ViewFollows == Spec => []ViewFollowsOwnEffects
  <1>1. TypeOK /\ FileInv => ViewFollowsOwnEffects
      BY DEF FileInv, SeenInv, ViewFollowsOwnEffects
  <1> QED BY <1>1, FileAlways, PTL

\* No writer of mjolnr's drops an edit of somebody else's from the file, except one
\* made between its comparison and its write (save_file, observed_text), and that a
\* write which fails may leave the file empty.
THEOREM NothingLost == Spec => NothingLostUnraced
  <1> DEFINE Kept ==
        ~(file \subseteq file')
          => \/ at = "git" /\ at' = "verify"
             \/ at = "write" /\ at' = "record" /\ file # job.index
             \/ \E tool \in tools \ tools' : tool.step = "write" /\ file # tool.seen
             \/ file' = {} /\ faults' > faults
  <1>1. TypeOK /\ FileInv /\ [Next]_vars => [Kept]_vars
    <2> SUFFICES ASSUME TypeOK, FileInv, [Next]_vars, ~(file \subseteq file')
                 PROVE  \/ at = "git" /\ at' = "verify"
                        \/ at = "write" /\ at' = "record" /\ file # job.index
                        \/ \E tool \in tools \ tools' :
                             tool.step = "write" /\ file # tool.seen
                        \/ file' = {} /\ faults' > faults
        OBVIOUS
    <2>1. file' # file
        OBVIOUS
    <2>2. CASE Command
      <3>1. Git \/ WriteFile \/ SaveFails
          BY <2>1, <2>2 DEF Command, BeginCommand, ReadBase, Verify, Project, Capture,
                Refresh, BeginSave, RecordSave, repo
      <3>2. CASE Git
          BY <3>2 DEF Git, GitFails, GitAdd, GitRestore, GitCommit, GitUpToDate, GitMerge,
                 GitConflicts, GitAbort, GitFetch, GitPush, GitReturns
      <3>3. CASE WriteFile
        <4>1. at = "write" /\ at' = "record" /\ opened \subseteq file' /\ job.index = opened
            BY <3>3 DEF WriteFile, FileInv, ComparedInv
        <4> QED BY <4>1
      <3>4. CASE SaveFails
          BY <2>1, <3>4, FailedWrite DEF SaveFails
      <3> QED BY <3>1, <3>2, <3>3, <3>4
    <2>3. CASE Running
      <3>1. PICK tool \in tools : ToolWrites(tool) \/ ToolFails(tool)
          BY <2>1, <2>3 DEF Running, ToolProposed, RunStops, ToolChecks, ToolEnded, repo
      <3> DEFINE next == [tool EXCEPT !.step = "done", !.wrote = TRUE]
      <3>2. CASE ToolFails(tool)
          BY <2>1, <3>2, FailedWrite DEF ToolFails
      <3>3. CASE ToolWrites(tool)
        <4>1. /\ tool.step = "write" /\ becomes(tool, next) /\ tool.base \subseteq file'
              /\ next.step = "done"
            BY <3>3 DEF ToolWrites, TypeOK, Tool
        <4> HIDE DEF next
        <4>2. tool \notin tools' /\ tool.base = tool.seen
            BY <4>1 DEF becomes, FileInv, ComparedInv
        <4> QED BY <4>1, <4>2
      <3> QED BY <3>1, <3>2, <3>3
    <2>4. CASE Others \/ Look \/ UNCHANGED vars
        BY <2>1, <2>4 DEF Others, Look, vars, repo, TerminalEdits, TerminalStages,
              TerminalCommits, Commits, TerminalContinues, TerminalFetches, PeerPushes, Restart
    <2> QED BY <2>2, <2>3, <2>4 DEF Next
  <1> QED BY <1>1, FileAlways, PTL DEF Spec, NothingLostUnraced
===============================================================================
