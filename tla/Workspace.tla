------------------------------- MODULE Workspace -------------------------------
(***************************************************************************)
(* One working tree and everybody who writes to it: the human's repository    *)
(* commands and file saves (runtime/mod.rs, repository/mod.rs,                *)
(* workspace_files/mod.rs), the write tools of a run (tools/edit.rs), the     *)
(* human's own terminal, and the remote.  With them the view of the tree that *)
(* the runtime publishes, and from which the human acts.  Of a run there is    *)
(* only the edit it proposes; RunLoop has the rest.                           *)
(*                                                                          *)
(* Content is the set of edits it holds; a commit is the content it records   *)
(* and the edits recorded up to it, and contains another when those do.  One   *)
(* file, one branch with an upstream, one child branch.  The actor handles one *)
(* command to its end, but git, the tools and the terminal run beside it: `at` *)
(* names the step the command has come to.                                    *)
(***************************************************************************)
EXTENDS Integers, FiniteSets

CONSTANTS
  MaxEdits,   \* bound: edits anyone makes
  MaxCommands, \* bound: repository commands and saves of the human
  MaxOutside, \* bound: acts of the terminal and of others
  MaxTools,   \* bound: edits that runs propose
  MaxFaults   \* bound: appends and writes that fail

ASSUME BoundAssumption ==
  /\ MaxEdits \in Nat \ {0, 1} /\ MaxCommands \in Nat /\ MaxOutside \in Nat
  /\ MaxTools \in Nat /\ MaxFaults \in Nat

VARIABLES
  file,        \* the content of the file in the working tree
  index,       \* the content that is staged
  head,        \* the commit of HEAD
  unmerged,    \* the index holds a conflict
  midway,      \* the operation git has stopped in the middle of, and where it began
  tracking,    \* the remote-tracking ref of the upstream
  remote,      \* the upstream itself
  minted,      \* edits made so far
  commands,    \* commands given so far
  outside,     \* acts of others so far
  at,          \* the step of the command the actor is handling
  job,         \* that command
  view,        \* state.repository and state.changes, captured together
  reading,     \* the half of a capture that has been read
  screen,      \* the view the human is looking at, published some time ago
  opened,      \* the content the human's editor was given
  tools,       \* the edits of runs that have not been answered for
  proposed,    \* edits proposed so far
  storeFailed, \* state.store_failure is some
  faults,      \* history: appends and writes that failed
  unseen,      \* history: the view has not been taken since a change of ours
  excused      \* history: that change was made where no view is taken after it

repo == <<file, index, head, unmerged, midway, tracking, remote>>
bounds == <<minted, commands, outside>>
command == <<at, job>>
client == <<screen, opened>>
session == <<tools, proposed, storeFailed, faults>>
seeing == <<view, reading, unseen, excused>>
vars == <<repo, bounds, command, client, session, seeing>>

ChildEdit == 0
Content == SUBSET (0 .. MaxEdits)
Commit == [tree : Content, past : Content]
Root == [tree |-> {}, past |-> {}]
Child == [tree |-> {ChildEdit}, past |-> {ChildEdit}]

Op == {"stage", "unstage", "commit", "child", "upstream", "fetch", "push", "rebase",
       "abort", "save", "refresh"}
Outcome == {"none", "ok", "refused", "conflict", "clean", "uncertain"}

\* What a command holds between its steps; `did` and `raced` are history.
Job == [op : Op, index : Content, head : Commit, before : Commit, success : BOOLEAN,
        outcome : Outcome, did : BOOLEAN, raced : BOOLEAN]
NoJob == [op |-> "refresh", index |-> {}, head |-> Root, before |-> Root,
          success |-> FALSE, outcome |-> "none", did |-> FALSE, raced |-> FALSE]

View == [base : Commit, index : Content, unmerged : BOOLEAN, file : Content]
NothingRead == [base |-> Root, index |-> {}, unmerged |-> FALSE, file |-> {}]

\* A write: `base` is the content it was made from, `seen` the content its task found,
\* `live` until its run is over.
Tool == [id : 1 .. MaxTools, live : BOOLEAN, step : {"check", "write", "done"},
         base : Content, seen : Content, wrote : BOOLEAN]
Midway == [op : {"none", "merge", "rebase"}, from : Commit, other : Commit]
NotMidway == [op |-> "none", from |-> Root, other |-> Root]

TypeOK ==
  /\ {file, index, opened} \subseteq Content
  /\ {head, tracking, remote} \subseteq Commit
  /\ unmerged \in BOOLEAN /\ midway \in Midway /\ minted \in 0 .. MaxEdits
  /\ commands \in 0 .. MaxCommands /\ outside \in 0 .. MaxOutside
  /\ at \in {"mailbox", "base", "git", "verify", "write", "record", "sent",
             "project", "capture"}
  /\ job \in Job /\ view \in View /\ screen \in View
  /\ tools \subseteq Tool /\ proposed \in 0 .. MaxTools
  /\ storeFailed \in BOOLEAN /\ faults \in 0 .. MaxFaults
  /\ reading \in View /\ {unseen, excused} \subseteq BOOLEAN

\* A session just opened on a clean tree that has been captured once.  The branch may
\* be ahead of its upstream, and behind it, with or without having fetched.
LocalEdit == 1
PeerEdit == 2
Init ==
  /\ head \in {Root, [tree |-> {LocalEdit}, past |-> {LocalEdit}]}
  /\ remote \in {Root, [tree |-> {PeerEdit}, past |-> {PeerEdit}]}
  /\ tracking \in {Root, remote}
  /\ file = head.tree /\ index = head.tree
  /\ unmerged = FALSE /\ midway = NotMidway
  /\ minted = 2 /\ commands = 0 /\ outside = 0
  /\ at = "mailbox" /\ job = NoJob
  /\ view = [base |-> head, index |-> index, unmerged |-> FALSE, file |-> file]
  /\ screen = view /\ reading = NothingRead /\ opened = file
  /\ tools = {} /\ proposed = 0 /\ storeFailed = FALSE /\ faults = 0
  /\ unseen = FALSE /\ excused = FALSE

--------------------------------------------------------------------------------
(* Helpers.                                                                   *)

\* An edit nobody made before.
mint == minted + 1
Mints == minted < MaxEdits /\ minted' = mint
Commanded ==
  commands < MaxCommands /\ commands' = commands + 1 /\ UNCHANGED <<minted, outside>>

append(ok) ==
  /\ faults' = (IF ok THEN faults ELSE faults + 1) /\ faults' <= MaxFaults

\* A write that fails: std::fs::write opens the file, which empties it, and then writes.
\* No view is taken for it.
write_fails ==
  /\ file' \in {file, {}} /\ append(FALSE)
  /\ unseen' = (unseen \/ file' # file) /\ excused' = (excused \/ file' # file)
  /\ UNCHANGED <<index, head, unmerged, midway, tracking, remote>>
  /\ UNCHANGED <<bounds, client, proposed, storeFailed, view, reading>>

\* A change by somebody else while a command is between its checks and git.
Raced == job' = [job EXCEPT !.raced = at \in {"base", "git", "verify"} \/ @]

clean_tree == index = head.tree /\ file = index

contains(commit, other) == other.past \subseteq commit.past
commit_of(content, parents) ==
  [tree |-> content, past |-> content \union UNION {parent.past : parent \in parents}]

\* A slip: a commit takes the index it finds.
approved_Any(seen) == TRUE

\* What a commit would record is what the human saw staged.
approved(seen) == index = seen.index

\* What a repository command of the human checks before it runs git: commit,
\* integrate_child_branch, integrate_upstream, push, rebase, abort_rebase.
\* HEAD is detached while a rebase is stopped.
guard(op, seen) ==
  CASE op = "commit" -> ~unmerged /\ approved(seen) /\ index # head.tree
    [] op \in {"child", "upstream"} ->
         ~unmerged /\ midway.op # "rebase" /\ clean_tree /\ head = seen.base
    [] op = "push" ->
         midway.op # "rebase" /\ head = seen.base /\ contains(head, tracking)
    [] op = "rebase" ->
         midway.op # "rebase" /\ ~unmerged /\ clean_tree /\ head = seen.base
    [] op = "abort" -> midway.op = "rebase"
    [] OTHER -> TRUE

Same == UNCHANGED repo
Becomes(commit) == file' = commit.tree /\ index' = commit.tree /\ head' = commit

--------------------------------------------------------------------------------
(* A repository command: its checks, git, the check of what git did.          *)

\* A slip: only a command that succeeded is worth a new view.
next_step_OnSuccess(result) == IF result = "ok" THEN "project" ELSE "mailbox"

\* The view is taken again whatever became of the command.
next_step(result) == "project"

\* handle_repository_command up to git.  What a command expects is what was on the
\* human's screen; a commit cannot be armed from a conflicted index.
BeginCommand(op) ==
  /\ at = "mailbox"
  /\ op = "commit" => ~screen.unmerged
  /\ IF ~guard(op, screen)
       THEN at' = next_step("refused") /\ job' = [NoJob EXCEPT !.outcome = "refused"]
       ELSE /\ at' = (IF op = "commit" THEN "base" ELSE "git")
            /\ job' = [NoJob EXCEPT !.op = op, !.index = screen.index,
                                    !.head = screen.base, !.before = head]
  /\ Commanded /\ UNCHANGED <<repo, client, session, seeing>>

\* Commit reads HEAD once more after its checks: the evidence is that it moves.
ReadBase ==
  /\ at = "base" /\ at' = "git"
  /\ job' = [job EXCEPT !.before = head]
  /\ UNCHANGED <<repo, bounds, client, session, seeing>>

\* What one run of git did, and the exit status it gave.
GitReturns(success, did) ==
  /\ at = "git" /\ at' = "verify"
  /\ job' = [job EXCEPT !.success = success, !.did = did]
  /\ unseen' = (unseen \/ did)
  /\ UNCHANGED <<bounds, client, session, view, reading, excused>>

\* Any git command may fail before it has done anything: a lock, a hook, the network.
GitFails == GitReturns(FALSE, FALSE) /\ Same

GitAdd ==
  /\ job.op = "stage" /\ GitReturns(TRUE, TRUE)
  /\ index' = file /\ unmerged' = FALSE
  /\ UNCHANGED <<file, head, midway, tracking, remote>>

GitRestore ==
  /\ job.op = "unstage" /\ GitReturns(TRUE, TRUE)
  /\ index' = head.tree /\ unmerged' = FALSE
  /\ UNCHANGED <<file, head, midway, tracking, remote>>

\* A commit of the index; it concludes a merge.
Commits ==
  /\ ~unmerged /\ index # head.tree
  /\ IF midway.op = "merge"
       THEN head' = commit_of(index, {head, midway.other}) /\ midway' = NotMidway
       ELSE head' = commit_of(index, {head}) /\ UNCHANGED midway
  /\ UNCHANGED <<file, index, unmerged, tracking, remote>>

\* The commit may be written and git still fail after it.
GitCommit ==
  /\ job.op = "commit" /\ Commits
  /\ \E success \in BOOLEAN : GitReturns(success, TRUE)

\* The tip a merge or a rebase brings in.
incoming == IF job.op = "child" THEN Child ELSE tracking

GitUpToDate ==
  /\ job.op \in {"child", "upstream", "rebase"} /\ contains(head, incoming)
  /\ GitReturns(TRUE, FALSE) /\ Same

\* An upstream that is only ahead is fast-forwarded to; a child is always merged.
GitMerge ==
  /\ job.op \in {"child", "upstream", "rebase"} /\ ~contains(head, incoming)
  /\ clean_tree /\ midway = NotMidway
  /\ \E success \in BOOLEAN : GitReturns(success, TRUE)
  /\ IF job.op # "child" /\ contains(incoming, head)
       THEN Becomes(incoming)
       ELSE Becomes(commit_of(head.tree \union incoming.tree, {head, incoming}))
  /\ UNCHANGED <<unmerged, midway, tracking, remote>>

\* Diverged content may conflict.  A rebase has moved HEAD to the upstream by then.
GitConflicts ==
  /\ job.op \in {"child", "upstream", "rebase"}
  /\ ~contains(head, incoming) /\ (job.op # "child" => ~contains(incoming, head))
  /\ clean_tree /\ midway = NotMidway
  /\ GitReturns(FALSE, TRUE)
  /\ file' = head.tree \union incoming.tree /\ unmerged' = TRUE
  /\ midway' = [op |-> IF job.op = "rebase" THEN "rebase" ELSE "merge",
                from |-> head, other |-> incoming]
  /\ head' = (IF job.op = "rebase" THEN incoming ELSE head)
  /\ UNCHANGED <<index, tracking, remote>>

GitAbort ==
  /\ job.op = "abort" /\ midway.op = "rebase" /\ GitReturns(TRUE, TRUE)
  /\ Becomes(midway.from) /\ unmerged' = FALSE /\ midway' = NotMidway
  /\ UNCHANGED <<tracking, remote>>

GitFetch ==
  /\ job.op = "fetch" /\ GitReturns(TRUE, TRUE)
  /\ tracking' = remote
  /\ UNCHANGED <<file, index, head, unmerged, midway, remote>>

\* The remote takes what contains its own tip.  The answer may be lost before the
\* tracking ref is written, or after.
GitPush ==
  /\ job.op = "push" /\ contains(head, remote)
  /\ \E success, told \in BOOLEAN :
       /\ success => told
       /\ GitReturns(success, remote # head)
       /\ tracking' = (IF told THEN head ELSE tracking)
  /\ remote' = head
  /\ UNCHANGED <<file, index, head, unmerged, midway>>

Git == \/ GitFails \/ GitAdd \/ GitRestore \/ GitCommit \/ GitUpToDate \/ GitMerge
       \/ GitConflicts \/ GitAbort \/ GitFetch \/ GitPush

\* A slip: the exit status is believed.
weighed_Claim(success, evidence) == IF success THEN "ok" ELSE "clean"

\* An exit status is a claim; `evidence` is what git can be asked.
weighed(success, evidence) ==
  IF success = evidence THEN (IF success THEN "ok" ELSE "clean") ELSE "uncertain"

\* verify_head_moved for a commit and a child's merge, and the ends of
\* integrate_upstream, push, rebase and abort_rebase; the rest believe git.
outcome ==
  LET stopped == unmerged /\ midway.op = "merge"
      op == job.op
  IN  IF op \in {"child", "upstream"} /\ ~job.success /\ stopped THEN "conflict"
      ELSE CASE op \in {"commit", "child"} -> weighed(job.success, head # job.before)
             [] op = "upstream" -> weighed(job.success, contains(head, tracking))
             [] op = "push" -> weighed(job.success, tracking = job.head)
             [] op = "rebase" ->
                  IF job.success THEN "ok"
                  ELSE IF midway.op = "rebase" THEN "conflict"
                  ELSE IF head # job.head THEN "uncertain" ELSE "clean"
             [] op = "abort" ->
                  IF midway.op = "rebase" THEN "uncertain"
                  ELSE IF job.success THEN "ok" ELSE "clean"
             [] OTHER -> IF job.success THEN "ok" ELSE "clean"

Verify ==
  /\ at = "verify" /\ at' = next_step(outcome)
  /\ job' = [NoJob EXCEPT !.outcome = outcome]
  /\ UNCHANGED <<repo, bounds, client, session, seeing>>

--------------------------------------------------------------------------------
(* The view.                                                                  *)

\* refresh_repository reads the status first and the diff after it, and publishes
\* the pair.  The command is answered then.
Project ==
  /\ at = "project" /\ at' = "capture"
  /\ reading' = [base |-> head, index |-> index, unmerged |-> unmerged, file |-> {}]
  /\ unseen' = FALSE /\ excused' = FALSE
  /\ UNCHANGED <<repo, bounds, job, client, session, view>>

Capture ==
  /\ at = "capture" /\ at' = "mailbox" /\ job' = NoJob
  /\ view' = [reading EXCEPT !.file = file]
  /\ reading' = NothingRead
  /\ UNCHANGED <<repo, bounds, client, session, unseen, excused>>

Refresh ==
  /\ at = "mailbox" /\ at' = "project" /\ job' = NoJob
  /\ Commanded /\ UNCHANGED <<repo, client, session, seeing>>

\* A client renders the latest view, or opens the file, some time or other.
Look ==
  /\ at = "mailbox" /\ screen' = view /\ opened' = file
  /\ UNCHANGED <<repo, bounds, command, session, seeing>>

--------------------------------------------------------------------------------
(* Saving a file the human edited.                                            *)

\* A slip: the save does not look at what it replaces.
current_Never(expected) == TRUE

\* The digest the client read against the bytes that are there.
current(expected) == file = expected

\* save_file up to its write; a refusal is answered without a new view.
BeginSave ==
  /\ at = "mailbox" /\ current(opened) /\ Commanded
  /\ at' = "write" /\ job' = [NoJob EXCEPT !.op = "save", !.index = file]
  /\ UNCHANGED <<repo, client, session, seeing>>

\* The editor's text is what it was given and one edit more.
WriteFile ==
  /\ at = "write" /\ at' = "record"
  /\ file' = opened \union {mint} /\ Mints /\ UNCHANGED <<commands, outside>>
  /\ job' = [job EXCEPT !.did = TRUE]
  /\ unseen' = TRUE
  /\ UNCHANGED <<index, head, unmerged, midway, tracking, remote>>
  /\ UNCHANGED <<client, session, view, reading, excused>>

\* A save whose write fails is answered with the error, and that is all.
SaveFails ==
  /\ at = "write" /\ at' = "mailbox" /\ job' = NoJob
  /\ write_fails /\ UNCHANGED tools

\* FileSaved is appended after the write; without it nothing is refreshed and the
\* session is blocked.
RecordSave(ok) ==
  /\ at = "record" /\ append(ok)
  /\ IF ok
       THEN /\ at' = "project" /\ job' = [NoJob EXCEPT !.outcome = "ok"]
            /\ UNCHANGED <<storeFailed, excused>>
       ELSE /\ at' = "mailbox" /\ job' = NoJob
            /\ storeFailed' = TRUE /\ excused' = TRUE
  /\ UNCHANGED <<tools, proposed, repo, bounds, client, view, reading, unseen>>

--------------------------------------------------------------------------------
(* A write tool of a run: the call is proposed against the file the session read, *)
(* waits for its gate, and is executed by a task of its own.                  *)

alive == {tool \in tools : tool.live}
becomes(tool, next) == tools' = (tools \ {tool}) \union {next}

\* An edit is proposed; a session that could not write its history runs nothing.
ToolProposed ==
  /\ at = "mailbox" /\ alive = {} /\ ~storeFailed /\ proposed < MaxTools
  /\ proposed' = proposed + 1
  /\ tools' = tools \union {[id |-> proposed', live |-> TRUE, step |-> "check",
                             base |-> file, seen |-> {}, wrote |-> FALSE]}
  /\ UNCHANGED <<storeFailed, faults, repo, bounds, command, client, seeing>>

\* A slip: an edit does not ask whether the file is the one that was read.
observed_Never(tool) == TRUE

\* observed_text: what is there is what the session last read or wrote.
observed(tool) == tool.base = file

\* The task looks at the file.  A cancelled one, or an edit of a file that has
\* changed, ends here.
ToolChecks(tool) ==
  /\ tool.step = "check"
  /\ becomes(tool, IF tool.live /\ observed(tool)
                     THEN [tool EXCEPT !.step = "write", !.seen = file]
                     ELSE [tool EXCEPT !.step = "done"])
  /\ UNCHANGED <<proposed, storeFailed, faults>>
  /\ UNCHANGED <<repo, bounds, command, client, seeing>>

\* The write, which nothing stops once the task is past its last check.
ToolWrites(tool) ==
  /\ tool.step = "write" /\ Mints
  /\ file' = tool.base \union {mint}
  /\ becomes(tool, [tool EXCEPT !.step = "done", !.wrote = TRUE])
  /\ unseen' = TRUE
  /\ UNCHANGED <<index, head, unmerged, midway, tracking, remote>>
  /\ UNCHANGED <<commands, outside, proposed, storeFailed, faults>>
  /\ UNCHANGED <<command, client, view, reading, excused>>

\* The write fails; the tool has an error to report, and no mutation.
ToolFails(tool) ==
  /\ tool.step = "write" /\ becomes(tool, [tool EXCEPT !.step = "done"])
  /\ write_fails /\ UNCHANGED command

\* The run ends by its clock, its cancellation or a failure to write its history; the
\* task it leaves behind goes on.
RunStops ==
  /\ at = "mailbox" /\ alive # {}
  /\ tools' = {[tool EXCEPT !.live = FALSE] : tool \in tools}
  /\ UNCHANGED <<proposed, storeFailed, faults>>
  /\ UNCHANGED <<repo, bounds, command, client, seeing>>

\* handle_tool_ended: a dead run's result is dropped; a live one's is appended, and
\* a view is taken if it wrote.
ToolEnded(tool, ok) ==
  /\ at = "mailbox" /\ tool.step = "done" /\ tools' = tools \ {tool}
  /\ IF ~tool.live
       THEN ok /\ excused' = (excused \/ tool.wrote) /\ UNCHANGED <<storeFailed, at>>
     ELSE IF ok
       THEN /\ at' = (IF tool.wrote THEN "project" ELSE "mailbox")
            /\ UNCHANGED <<storeFailed, excused>>
       ELSE /\ storeFailed' = TRUE /\ excused' = (excused \/ tool.wrote)
            /\ UNCHANGED at
  /\ append(ok) /\ UNCHANGED <<proposed, job>>
  /\ UNCHANGED <<repo, bounds, client, view, reading, unseen>>

--------------------------------------------------------------------------------
(* Everybody else: the human's terminal and editor, a command a tool runs, the    *)
(* people who share the remote.  And the end of the process.                  *)

Outside ==
  /\ outside < MaxOutside /\ outside' = outside + 1
  /\ UNCHANGED <<commands, at, client, session, seeing>>

TerminalEdits ==
  /\ Mints /\ file' = file \union {mint} /\ UNCHANGED job /\ Outside
  /\ UNCHANGED <<index, head, unmerged, midway, tracking, remote>>

TerminalStages ==
  /\ index # file \/ unmerged
  /\ index' = file /\ unmerged' = FALSE /\ Raced /\ Outside
  /\ UNCHANGED <<file, head, midway, tracking, remote>> /\ UNCHANGED minted

TerminalCommits == Commits /\ Raced /\ Outside /\ UNCHANGED minted

\* git rebase --continue, once the conflict is resolved.
TerminalContinues ==
  /\ midway.op = "rebase" /\ ~unmerged /\ file = index
  /\ head' = commit_of(index, {head, midway.from}) /\ midway' = NotMidway
  /\ Raced /\ Outside
  /\ UNCHANGED <<file, index, unmerged, tracking, remote>> /\ UNCHANGED minted

TerminalFetches ==
  /\ tracking # remote /\ tracking' = remote /\ Raced /\ Outside
  /\ UNCHANGED <<file, index, head, unmerged, midway, remote>> /\ UNCHANGED minted

PeerPushes ==
  /\ Mints /\ UNCHANGED job /\ Outside
  /\ remote' = commit_of(remote.tree \union {mint}, {remote})
  /\ UNCHANGED <<file, index, head, unmerged, midway, tracking>>

\* The process dies and the session is resumed: what was appended is restored, the
\* project is opened and captured again.
Restart ==
  /\ at' = "mailbox" /\ job' = NoJob /\ tools' = {}
  /\ append(FALSE)
  /\ storeFailed' = FALSE
  /\ view' = [base |-> head, index |-> index, unmerged |-> unmerged, file |-> file]
  /\ screen' = view' /\ reading' = NothingRead
  /\ unseen' = FALSE /\ excused' = FALSE
  /\ UNCHANGED <<repo, bounds, opened, proposed>>

Command ==
  \/ \E op \in Op \ {"save", "refresh"} : BeginCommand(op)
  \/ ReadBase \/ Git \/ Verify \/ Project \/ Capture \/ Refresh
  \/ BeginSave \/ WriteFile \/ SaveFails \/ \E ok \in BOOLEAN : RecordSave(ok)

Running ==
  \/ ToolProposed \/ RunStops
  \/ \E tool \in tools :
       \/ ToolChecks(tool) \/ ToolWrites(tool) \/ ToolFails(tool)
       \/ \E ok \in BOOLEAN : ToolEnded(tool, ok)

Others ==
  \/ TerminalEdits \/ TerminalStages \/ TerminalCommits \/ TerminalContinues
  \/ TerminalFetches \/ PeerPushes \/ Restart

Next == Command \/ Running \/ Others \/ Look

Spec == Init /\ [][Next]_vars

--------------------------------------------------------------------------------
(* Properties.                                                                *)

\* A commit made by the commit command records the index the human approved, unless
\* somebody else moved the index or HEAD between the check and git, which are two
\* processes (Repository::commit).
CommittedIsApproved ==
  [][ (at = "git" /\ job.op = "commit" /\ head' # head)
        => (at' = "verify" => head'.tree = job.index \/ job.raced) ]_vars

\* A command that reports success reached what it was for: the commit is there, the
\* child or the upstream is contained, the upstream holds what was approved for the
\* push, whoever else acted meanwhile (the verifications of repository/mod.rs).
SuccessIsEvidence ==
  [][ (at = "verify" /\ job'.outcome = "ok")
        => CASE job.op = "commit" -> job.did
             [] job.op = "child" -> contains(head, Child)
             [] job.op = "upstream" -> contains(head, tracking)
             [] job.op = "rebase" -> job.raced \/ contains(head, tracking)
             [] job.op = "push" -> contains(remote, job.head)
             [] OTHER -> TRUE ]_vars

\* A failure reported as clean left the repository as it was, unless somebody else
\* acted on it meanwhile (classify_clean_failure: "a failure that provably had no
\* effect").  A push is excepted: see README.
CleanFailureHadNoEffect ==
  [][ (at = "verify" /\ job'.outcome = "clean" /\ job.op # "push")
        => ~job.did \/ job.raced ]_vars

\* Once the actor is idle the view was taken after every change mjolnr itself made:
\* commands whatever their outcome, saves, writes of tools (the RefreshTrigger sites).
\* The change of a tool that has not been answered for is still to be seen; `excused`
\* are the early returns that take no view, a write that failed among them.
ViewFollowsOwnEffects ==
  at = "mailbox" /\ unseen => excused \/ \E tool \in tools : tool.wrote

\* No writer of mjolnr's drops an edit of somebody else's from the file, except one
\* made between its comparison and its write (save_file, observed_text): the content
\* it compared is the content it replaces, or was when it looked.  A write that fails
\* may leave the file empty.
NothingLostUnraced ==
  [][ ~(file \subseteq file')
        => \/ at = "git" /\ at' = "verify"
           \/ at = "write" /\ at' = "record" /\ file # job.index
           \/ \E tool \in tools \ tools' : tool.step = "write" /\ file # tool.seen
           \/ file' = {} /\ faults' > faults ]_vars

===============================================================================
