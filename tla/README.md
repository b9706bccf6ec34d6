# Verification of AI Web IDE

TLA+ models of the program in `src/`, the TLC runs that check them and the
theorems TLAPS proves about them. AI Web IDE is a Flask server: the user
chats with a language model about a web project, each project is an nginx
container, and the model changes the project's three files by unified diffs that
the server applies inside the container with GNU `patch`.

## 1. Inventory

| component | source | state | operations |
|---|---|---|---|
| edit pipeline | `Functions/sub_agent.py` | a task's TODO lists, position, attempt, diff, results; in the container the three files, `/tmp/test_patch.diff`, `/tmp/patch.diff` | `run_sub_agent_edit_task`, `list_todo`, `create_diff`, `llm_diff`, `_virtual_test_diff`, `apply_diff` |
| source readers | `Functions/ai_tool.py` | none of their own | `get_html/css/js_code`, `create_tar_from_file`, `get_latest_user_message`, `edit_request` |
| streaming chat | `app.py` (`api_chat_stream`), `chat.html` | per request a generator, a thread, `status_queue`, `result_container`, a connection; in the page the loading state, the `EventSource`, the bubbles | `generate`, `run_chat`, `onmessage`, `onerror`, submit |
| chat history and sessions | `Functions/ai_chat.py`, `app.py`, `chat.html` | table `messages`, the cookie (`project_name`), what each tab shows | `init_chat_session`, `save_message_to_db`, `load_chat_history`, `get_sessions_by_project`, `delete_session`, `select_project`, `chat_session`, `new_session_with_project`, `exit_project`, `delete_chat_session` |
| chat agent | `Functions/ai_chat.py` | none of its own | `chat_with_ai`, `chat_with_ai_stream`, the wrapped tools |
| container lifecycle | `Functions/system.py`, `app.py` routes, `index.html` | Docker's containers, images and port bindings, the build directory | `get_containers`, `start/stop/delete_container`, `find_available_port`, `create_container` |
| logging, template, scripts | `log_config.py`, `docker_template/`, `tests/` | no state the program reads back | not modelled |

How they interact. A chat request runs on a thread of its own: it saves the
user's message, loads the history, lets the agent call its tools and saves the
answer. The tool `edit_request` reads the newest user message back from the
database and starts an edit task on the project's container. Threads share the
container and its scratch files, the database and, through the browser's
requests, one cookie; nothing locks any of them. Flask's server is threaded, so
routes that stop, delete or re-create a container run between the steps of an
edit, and a deletion of a session runs between the steps of a chat.

What is hard. Several tasks on one container; a container that changes under a
task; `patch` that can write a part of a diff; retries; exceptions that discard
what was done; a thread and a queue that are polled separately; connections
that break while the thread goes on; several tabs with one cookie; deletions
during a request; timestamps with a resolution of one second. Section 4 of this
file lists what each of these leads to and PROJECT.json lists the hazards line
by line with the properties that watch them.

## 2. Modules

| module | models | composed of |
|---|---|---|
| `SubAgent` | the edit pipeline: any number of tasks on one container, and the container routes | |
| `EditContract` | abstract: what one edit task promises | |
| `SubAgentRefinement` | the refinement mapping from one task to the contract | `SubAgent`, `EditContract` |
| `SubAgent_proofs` | theorems about any number of tasks | `SubAgent` |
| `SubAgentReport_proofs` | theorems about what a task reports | `SubAgent_proofs` |
| `SubAgentRefinement_proofs` | the refinement as a theorem | `SubAgentRefinement`, `SubAgentReport_proofs` |
| `StreamContract` | abstract: what the server promises for each chat request | |
| `StreamBridge` | the streaming chat and its page | `StreamContract` as what it implements |
| `StreamBridge_proofs` | theorems about `StreamBridge`, the refinement among them | `StreamBridge` |
| `ChatSessions` | history and its migration, cookie, tabs and chat threads | |
| `ChatSessions_proofs` | theorems about `ChatSessions` | `ChatSessions` |
| `ProjectContract` | abstract: what the routes of the projects promise | |
| `ContainerLifecycle` | creation, start, stop and deletion of projects: Docker, the build folders and the requests | `ProjectContract` as what it implements |
| `ContainerLifecycle_proofs` | theorems about `ContainerLifecycle` | `ContainerLifecycle` |
| `ContainerContract_proofs` | theorems about ports, and the refinement of `ProjectContract` | `ContainerLifecycle_proofs` |
| `Workspace` | conversations of projects that are deleted and created again | `ChatSessions` |
| `Workspace_proofs` | theorems about `Workspace` | `Workspace`, `ChatSessions_proofs` |
| `MCSubAgent`, `MCStreamBridge`, `MCChatSessions`, `MCContainerLifecycle`, `MCWorkspace` | constants for TLC | |

The inductive invariants, with their parts, are in the proof modules: a specification module holds what models
the code, and the properties.

Operators named as faulty variants (`FitsPartly`, `OnErrorStuck`, ...) are not
part of any specification. Each is a plausible bug of the definition that follows
it and documents which property notices it.

### SubAgent

`pc[e]` is the place of task `e` in `run_sub_agent_edit_task` and the functions
it calls; `task[e]` are the local variables, `results[e]` is `create_diff`'s list and
`report[e]` the kind of text returned. One action is one call that reaches Docker
or the model, because the steps of other threads can come between two such calls
and nowhere else matter:

| `pc` | code |
|---|---|
| `plan` | `list_todo`, three calls of the model (22-124) |
| `fetch`, `llm` | `llm_diff` reads the source (150-160), asks for a diff (279) |
| `vget`, `vput`, `vdry` | `_virtual_test_diff`: container and status, upload, dry run (302-363) |
| `aget`, `aput`, `adry` | `apply_diff`: container and status, upload, dry run (457-550) |
| `aread` | the real `patch` starts and reads the diff (552-554) |
| `afile`, `awrite`, `aexit` | it reads a file, renames its output over it, and so on file by file; the exit code is fetched (554-585) |
| `latest` | the code is read back (557-579) |

Every call has a failing counterpart; where it leads is the code's early return
or `except`. `Resolve` is the end of `create_diff`'s loop body together with the
step to the next TODO, `Abort` the `except` of `run_sub_agent_edit_task`.

Abstractions. A web file is a function from regions to what was written there
last. A diff replaces a set of places, each a region of any of the three files: the code works out
`target_file` and does not pass it on, so the diff's own headers say which files `patch` changes. `base` is the text that its
hunks expect of each file: of the TODO's file the text that the model was shown, of another one what it guesses. A hunk matches
if its region is as expected. The set of places may be empty, as for the empty answer, which is no `SKIP`: `patch`
accepts an empty diff. `bad` stands for every other reason for which `patch` exits with an error whatever the files hold: malformed
text, a header that names no file, a context found nowhere; such a diff may still change some of its files in a real run.
A diff has one section per file, and files that it creates or deletes are left out. The
dry run reads all files in one step, the real run one at a time, with a stop or a deletion possible in between. A put or a
command that raises has had no effect (an upload whose answer is lost is not modelled). A stopped container accepts an upload and runs no command. The two lines
that `create_diff` appends for an applied TODO are one entry of `results`. The strings that `llm_diff` and `create_diff` tell apart by prefix are
outcomes. `get_*_code` is one read (its two Docker calls fail alike, and the exit code
of `cat` is not looked at). The agent is assumed to pass its own project's
container, which the wrapped tool fills in. `LlmRaises` covers a source with braces,
which `ChatPromptTemplate` takes for variables. `patch` is external: it is modelled by how the
code uses it, with the separation of reading and renaming that lets two of them
interleave. `Edits` and `Guesses` bound what the model answers.

### EditContract

`doc`, `agenda`, `landed`, `log`, `report`: the items of an agenda are settled in their order.
An item changes some of the files, each by all of its hunks for that file at once or not at all. Applied means that all places
its diff names were changed, failed while applying that some files may have been, and skipped or failed before that nothing was. Giving
up as a whole happens between two changes. The contract does not promise that an applied item changed anything, or the file that
it is about, because the code does not see to either. `SubAgentRefinement` maps the files, the TODOs from the current one on, the
places that the current one has changed, the results and the report to these variables.

### StreamBridge

`gen[r]` is the place of the generator of request `r`, `worker[r]` and `saved[r]` the
state of its thread, `queue[r]` and `result[r]` are `status_queue` and
`result_container`, `sent[r]` the events yielded, `seen[r]` how many the page has
handled, `conn[r]` the connection, and `page` the page's state. The generator's check of `is_alive()`,
its reading of the queue and its yields are separate actions, and so are the thread's
saves and puts. A yield on a lost connection may still succeed, or close the
generator. The thread never notices. `Render` is a reload; the response handler
reloads a page that was rendered without history.

### StreamContract

`work`, `made`, `outcome`, `told`, `over`: per request the thread, the number of messages it has made, what it ended with,
the events the client was sent and whether the telling is over. The greeting is told first, the messages one by one in
the order they were made, the outcome once, after all messages and only when the thread has ended. There is no queue
and no polling, a client may hang up at any time, and the work goes on. `StreamBridge` implements it with the queue and with
the two separate questions (is the thread alive, is the queue empty): `Contract` is the mapping, `KeepsContract` the property.

### ChatSessions

`rows` is the table, a set of rows with the ids AUTOINCREMENT gives them (`serial` is the last),
`column` whether it has been migrated, `cookie` the project in the session cookie, `tabs` what each
tab shows, `reqs` the chat requests with the local variables of their threads. Each
helper of `ai_chat` opens, uses and closes a connection of its own and is one
action. `SelectProject` ends with a redirect; the page it leads to is another request (`ChatSession`), and so are
the redirects after a deletion. `LatestMessage` is the query of
`get_latest_user_message`: of the rows with the greatest timestamp SQLite returns the one
inserted first; it is a set, of one request at most. A tab may open the address of any session, by a link, the back button, a bookmark or by typing it (`OpenSession`), and
the home page (`GoHome`). `erased` and `deleted` are history variables of a request: its question was deleted while it was at
work, or its conversation was, be the question saved yet or not. A page that the browser shows again from its back-forward cache,
without a request, is not modelled; it can do what a second tab that has stayed open can. The system row of
`init_chat_session` is left out, for no query of a route sees it. A restart of the server ends the
threads and, as `secret_key` is drawn anew, invalidates the cookie.

The table that `CREATE TABLE IF NOT EXISTS` makes has no column `project_name`. `init_chat_session`
adds it on the way to the first chat page, in two steps: it looks for the column (`ChatSession`), and if it is not
there alters the table (`AlterTable`). Of two first requests one fails there and shows an error page, which the
user loads again (`OpenSession`).

### ContainerLifecycle

`pc[q]` is the place of request `q` in its route and `req[q]` its operation and local variables;
`box[i]` is the container that request `i` made (the request stands for Docker's id), `image[c]` the
image with the tag of container `c`, `folder[f]` what a build folder holds, `foreign` the ports of other
programs. One action is one call that reaches Docker or the file system, for requests are served on threads of their
own and share all of these:

| `pc` | code (`system.py`) |
|---|---|
| `port` | `find_available_port`, one `bind` after the other (90-98) |
| `mkdir`, `copy`, `write` | the folder, the template's files, the `Dockerfile` (107-130) |
| `send`, `build` | `images.build`: the folder is sent as it is, and the image tagged later (132-135) |
| `find`, `halt`, `drop` | the old container: `get`, `stop`, `remove` (137-145) |
| `run`, `boot` | `containers.run`: the container is created, then started (147-154) |
| `clean`, `rmdir` | `rmtree`: the content, then the folder (157) |
| `get`, `up`, `down` | `start_container`, `stop_container` (29-54) |
| `get`, `stop`, `remove`, `force` | `delete_container` and its second stage (57-87) |

`Raise` is a failing call at any of these places, with the code's `except`; `Exit` is a container that ends
on its own; `Restart` is a restart of the server, which leaves Docker and the disk as they are. `alone`, `built`
and `harmed` are history variables of a request.

Abstractions. A call that fails has had no effect, except where the code shows otherwise (`run` creates
and then cannot start). Copying the template's files is one step. Names that differ in
case are given with `ContainerOf` (image and container are named in lower case) and `FolderOf` (the folder is named as
typed, so the host's file system decides), and all that is assumed of the two is that one folder does not
serve two containers. `Busy` is a `bind` that fails: a running container has the port, or another program.

### ProjectContract

`life`, `port`, `op`, `name`, `answer`: each creation's container as Docker tells its status, its port, what each
request asks for, of which name, and what it was answered. A name has one container at most, a port one
running container; only a request that waits touches the containers of its name; start, stop and deletion answer with success in
the step that does the thing, a creation once its container has run. `ContainerLifecycle` implements it with calls that
interleave, containers looked up before they are used and a deletion in two stages: `Contract` is the mapping,
`KeepsContract` the property.

### Workspace

Chat and projects together. A project is created and deleted in one step each; its life has a number,
and `served` remembers the life in which a chat request was sent. `select_project` asks Docker whether the project is
there; nothing else in the chat does, and `delete_container` does not know of the chat.

## 3. Runs

| run | instance | shows |
|---|---|---|
| `edit_single` | 1 task, plans with 0 to 2 TODOs per language, 2 regions, diffs of no, one or two files, 3 attempts, 3 container requests, Docker faults | `TypeOK`; `SuccessMeansLanded`; `ImplementsContract`: the contract of `EditContract`; `Terminates` under fairness |
| `edit_pair` | 2 tasks with 1 TODO each in the same or different files, 2 attempts, 1 container request | `ResultsFollowPlan`; `RejectedLeavesNoTrace` |
| `shared_patch_file` | as `edit_pair` | violated: `SuccessMeansLanded` |
| `lost_report` | 1 task with 2 TODOs | violated: `ErrorMeansUntouched` |
| `chat_stream` | 2 requests, 2 statuses between them | `TypeOK`; `StreamComplete`; `OneBubblePerRequest`; `KeepsContract`: the contract of `StreamContract`; `FormComesBack` under fairness |
| `blank_error` | as `chat_stream` | violated: `AnswerIsSaved` |
| `chat_tabs` | 2 tabs, 2 projects, 2 sessions, 2 requests, 2 seconds | `TypeOK`; `OrphanOnlyByDelete`; `EditOlderOnlyByTie`; `ContextHasQuestion`; `MigratedFirst` |
| `stale_tab` | 2 tabs | violated: `SessionOneProject` |
| `deleted_returns` | 1 tab | violated: `DeletedForGood` |
| `lifecycle` | 3 requests, 2 of them creations, on `Site`, `site` (one container, two folders) and `blog`; 2 ports, one contested | `TypeOK`; `OkMeansServed`; `DeletedIsGone`; `OldOutlivesBuild`; `FolderLeftByFailure`; `ClashNeedsStopped`; `KeepsContract`: the contract of `ProjectContract`; `RequestsEnd` under fairness |
| `port_clash` | 3 requests, 2 of them creations, 2 names, 3 ports | violated: `PortsDistinct` |
| `old_history` | 1 tab, 1 project, 1 session, 2 lives | violated: `FreshProjectFreshChat` |

Why the bounds are enough. Tasks meet in one container through single slots (a scratch file,
a web file), so two tasks and two regions show every kind of overlap: same
region, different regions, a part of a diff rejected. `FewEdits` has the empty diff, one with both hunks in a file, one with two
files, and one of a file that no TODO is about; `MoreEdits` adds single hunks. `edit_single` has the full
three attempts and plans that leave a language out in the middle, with enough container requests
for a stop, a delete and a re-creation within one task. In `edit_pair` Docker calls fail only when
the container is gone, as `edit_single` has covered the other faults; two
attempts give a retry. In `StreamBridge` two statuses, of one worker or one each, show a
reordering, two requests a worker that outlives its connection. In `ChatSessions` two sessions and
two projects show every confusion of keys, and two seconds both ties and order. Two tabs are two first requests, which race for the migration. `chat_tabs` uses the
symmetry of tabs, projects and sessions, which the specification only compares
for equality. In `ContainerLifecycle` two creations and a third request of any kind meet on one container,
one folder or one port in every order, with a failure or a restart before, between or after; two ports, one of
which another program may hold, are enough to find one taken and to run out of them. Three ports in `port_clash`
leave one free for the second project, so that the clash is not for want of ports.

`CHECK_DEADLOCK FALSE` stands where the program may rest: all tasks have ended and the bound
on container requests is used up, every request has been answered, or the user sends nothing more. `chat_tabs` checks for
deadlock.

Fairness. `SubAgent`: weak fairness of each task's steps, for its thread is scheduled and
each call of Docker and of the model returns or raises (both clients have timeouts). Container
requests are not fair. `StreamBridge`: weak fairness of generator and thread, and of the page's
handlers for what has arrived or for a connection that broke. Neither user nor network
is fair. `ContainerLifecycle`: weak fairness of each request's steps, as for `SubAgent`; arrivals, failures, exits
and restarts are not fair.

## 4. Findings

Each run finds its violation on a small instance. The theorem named with it (section 5), where there is one, says for every
instance how far the disagreement goes: under which condition the refuted property does hold.

1. `shared_patch_file`. Two edits on one container overwrite each other's `/tmp/patch.diff`;
   one applies the other's diff and reports its own as applied. `ApartReportTruly`: this upload at the wrong moment is the
   only way; stops, deletions, re-creations and failing calls mislead no report.
2. `lost_report`. When the model cannot be reached on a later TODO the whole task is reported
   as failed, without the TODOs that did change files. `OneTodoErrsUntouched`: with one TODO an error means that nothing
   was changed. `NoChangeUnaccounted`: what is lost is the report alone, the results know of every change.
3. `blank_error`. An exception without text reaches the page as the response `null`. `AnswersAreSaved`: as long as
   there is no such exception, every answer the page shows is in the history.
4. `stale_tab`. Another tab's choice of a project redirects a tab's messages, and the edits they ask
   for, to that project; going back to a conversation of another project does the same in a single tab. `OnlyStaleTabsMix`: as
   long as no project is selected while a tab shows a conversation, and no tab goes to the address of another project's
   conversation, conversations stay with their projects. `OneTabOneProject`: with one tab the second condition is enough.
5. `deleted_returns`. A conversation deleted while a request of it is at work comes back: with the answer, and with the
   question too if the thread had not yet saved it.
6. `port_clash`. A stopped project's port looks free: the next project gets it, and of the two only one can
   run. The README promises ports without conflicts. `NoClashWhileRunning`: of two created projects with one port one is stopped.
7. `old_history`. A project deleted and created again resumes the deleted one's conversation, and the agent
   reads it. The README says that deletion removes what belongs to the project. `FreshIfEmptied`: were a project deleted only
   when its history is empty and no request is at work on it, this could not happen.

Read but not given a run: `doc/PLAN.md` lines 79-80 say that an error when applying returns to
the model and that more than four failures stop the task; the code makes three attempts at a diff that
passes its dry run, does not repeat a failed application, and goes on with the next TODO.
`chat_home` (`/chat`) clears the project and redirects to `chat_session`, which without a project
redirects home, so it never opens a chat. `README.md:218` of the source promises that temporary files are cleaned up; `create_container`
removes its build folder on success only (`rmtree`, line 157), so a failed creation leaves it. `FolderLeftByFailure` says
how long: until a creation of the project succeeds with no other beside it. The docstrings in `ai_tool.py` (95, 126) speak of the newest
message of the user; of two questions of one second the query returns the first inserted, so that an edit may work on
the older one. `EditOlderOnlyByTie` says that there is no other way. An empty answer of the model is reported as
applied (`sub_agent.py:280`, 349, 390), and the comments at 332 and 514 of that file say that the target file goes by the language, but
`patch` is not told of it: a TODO for one file may change another, which is reported as applied as well. Both are in `EditContract`.

## 5. What is proved

All theorems hold for any values of the constants, under the assumptions named at the end of this section.

`SubAgent_proofs`, for every set of tasks and regions, every plan, every number of attempts and of container
requests:

- `TypeCorrect`: `Spec => []TypeOK`. Not inductive alone: that a position at which a task works is not
  `End`, that a task in `apply_diff` has a diff and that a dry run finds a diff in the scratch
  file need `LocalOK` and the bound of the container's incarnation by the number of requests (`WellFormed`).
- `Invariance`: `Spec => []Inv`, `Inv` being `WellFormed`, `ResultsOrdered` (results are in the order of the
  TODOs and before the current one) and `OnlyOffered` (a diff in `/tmp/patch.diff`, in a patch process or in a
  web file belongs to a TODO whose task is in `apply_diff` or has reported it as applied
  or as failed there).
- `RejectedNeverWritten`: `Spec => []RejectedLeavesNoTrace`. If a rejected TODO had been written, `OnlyOffered`
  would give it a second entry, which `ResultsOrdered` excludes.

`SubAgentReport_proofs`, on top of `Invariance`:

- `NoTodoIsLost`: `Spec => []ResultsFollowPlan`. `UpToDate`: the settled positions are those of the plan before the current one,
  which is in the plan. The lemmas `BeforeFirst` and `BeforeNext` say that the walk skips languages without TODOs
  and nothing else.
- `ApartReportTruly`: `Spec /\ [][UploadsApart]_vars => []SuccessMeansLanded`, any number of tasks. Nothing is assumed of
  `/tmp/test_patch.diff`: a dry run that judged another task's diff is harmless, because `apply_diff` makes one of its own. `UploadsApart`: no task
  uploads `/tmp/patch.diff` while another is between its own upload and the moment `patch` has read it. `Landing`
  follows a task's diff: while its connection is to the present container
  `/tmp/patch.diff` holds it, so that the patch process reads it, and what matched has been written when the exit code is fetched. A
  new container makes the connection stale. What other tasks do is in `LandingFrame`: they may write to the same web file, which
  cannot undo that this diff has been written. `AloneReportsTruly` is the corollary for one task.
- `NoChangeUnaccounted`: what an ended task has written is in its results, as applied or as failed in
  `apply_diff`. From `OnlyOffered`: a diff in a web file belongs to a TODO under way or reported.
- `OneTodoErrsUntouched`: for plans with at most one TODO `Spec => []ErrorMeansUntouched`. A task gives up
  as a whole where the model is asked, before the first result; with one TODO nothing is written before it either (lemma
  `Erring`).
- `StepsProgress`: `Spec => [][Forward]_vars`. Position, attempt and stage of a task, ordered lexically, grow with each of its
  steps, and no other step takes them back. This is the safety half of `Terminates`: with positions and attempts
  bounded (`TypeCorrect`) there are finitely many steps to take. That they are taken needs fairness and is left to TLC.

`SubAgentRefinement_proofs`: `KeepsContract`, with one task `Spec => ImplementsContract`. The agenda of the contract is the set of TODOs
not before the current position; `AgendaNext` says that `NextTodo` takes off the one that is due. Besides `UpToDate` and
`Landing` it needs `Bound`: the verdict of the second dry run holds until `patch` has read the file, because the only one
who could change it in between is a new container, to which the connection is stale; and a stop or a deletion kills
the process before what it computed from the file is out of date. Hence the real run rejects no hunk, each file changes as a whole, and
a process that ends with exit code 0 has been through all its files.

`StreamBridge_proofs`, for any number of requests and statuses:

- `TypeCorrect`: `Spec => []TypeOK`.
- `StreamIsComplete`: `Spec => []StreamComplete`. The strengthening is `StreamInv`: while the generator polls,
  what was sent and what is queued add up to what was put, and the queue's head is the next
  status; a generator past its last `is_alive()` check has a thread that ended, so no put follows. Proved for the
  request that moves (`GeneratorGood`, `WorkerGood`, `PageGood`) and kept by the steps of others (`Untouched`).
- `Invariance` and `BubblesAreOwn`: `Spec => []Inv`, `Spec => []OneBubblePerRequest`. To `StreamInv` they add `AnswerInv` (a generator
  that has no thread has no answer) and `BubbleInv` (the page waits for its last request only, no bubble is about a later
  one, and what a bubble says was settled when it appeared, although its thread may still be at work).
- `AnswersAreSaved`: `Spec /\ []NoBlankError => []AnswerIsSaved`. `SavedInv`: a thread has an answer only after it was
  saved, and a thread that has ended has an outcome, so that only a blank exception can pass for a response without one.
- `FormIsAwaited`: `Spec => []FormNeverStuck`, the safety half of `FormComesBack`. `FormInv`: the page has handled only
  statuses of its source, and a generator that has finished on an open connection has sent a final event; so what could enable
  the form is still unseen, or the connection is lost and `onerror` due.
- `StreamKeepsContract`: `Spec => Contract!Spec`. The variables of the thread map to themselves, `told` is what was
  sent and `over` a generator that has been closed. The queue has no counterpart: taking a status from it is a stutter, as
  are the polls and all that the page does, and `StreamInv` shows that the status next in the queue is the next one to be told and that an
  outcome is only told when all are.

`ChatSessions_proofs`, for any number of tabs, projects, sessions, requests and seconds:

- `TypeCorrect`: `Spec => []TypeOK`. Inductive alone, for a page of a project is only shown when the cookie has one.
- `Invariance`: `Spec => []Inv`. To `TypeOK` and the properties `Inv` adds `RowOK` (a row bears the key of the request that
  wrote it, and its role tells how far the request is), `OneQuestion` (a request has one row with its question) and `RequestOK`:
  as long as a thread is at work its question is in the table or was deleted, and after a deletion nothing older than the
  request is left. The last part is what `EditOlderOnlyByTie` needs: a question that is deleted
  could otherwise uncover an older one.
- `AnswersFollowQuestions`, `EditsAreCurrent`, `ContextIsOwn`, `MigrationComesFirst`: `OrphanOnlyByDelete`,
  `EditOlderOnlyByTie`, `ContextHasQuestion` and `MigratedFirst`.
- `OnlyStaleTabsMix`: `Spec /\ [][SwitchesAlone /\ OwnAddresses]_vars => []SessionOneProject`. `SwitchesAlone` says that no tab shows a
  conversation when a project is selected, `OwnAddresses` that a tab opens only what its page mentions, what the selected project
  has, or a session nobody has had. `OwnProject`: requests of one session are of one project, a session is drawn once, and while a
  project is selected each session that any page mentions (its own or one in its list) has requests of this project only.
  `OneTabOneProject`, `Spec /\ [][OwnAddresses]_vars => []SessionOneProject` for one tab, follows, as a tab that selects a
  project is on the home page.

`Workspace_proofs`: `ChatGoesOn`, `WSpec => Spec`: what is done to projects is a stutter of the chat, and what `Workspace` adds to the
chat's actions only restricts them. With it `ConversationsHold`, the chat's properties under `WSpec`. `FreshIfEmptied`:
`WSpec /\ [][EmptiedFirst]_<<vars, lifeVars>> => []FreshProjectFreshChat`. `OwnLife`: the rows of a project, and the requests at work on
it, are of its present life or of a time without one.

`ContainerLifecycle_proofs`, for any names, hosts (`FolderOf`), ports and number of requests and creations:

- `Invariance`: `Spec => []Inv`. `LocalOK` says what a request knows at its place, and that its container is not there before it
  runs it. `SeenOK`: what a request found or touched was made by another request that has come, under the same name;
  it holds because whoever searches has no container yet. `AloneOK`: a creation without rivals has folder, image and
  build context to itself. `InOrder`: requests come in the order of their numbers, and a creation at work on a folder came after every
  success that had it to itself, which is what `FolderLeftByFailure` needs. A folder serves one container (`LifecycleAssumption`), so whoever writes
  to a creation's folder is its rival, and the arrival of a rival ends its solitude.
- `TypeCorrect`, `CreatedIsServed`, `DeletionIsReal`, `BuildBeforeReplacing`, `FoldersAccountedFor`: the five invariants of
  the run `lifecycle`.
- `RequestsProgress`: `Spec => [][Forward]_vars`, the safety half of `RequestsEnd`. Places in the order of the routes, and for the
  search the port, which grows to `MaxPort + 1` at most (`TypeCorrect`): neither the search nor the second stage of a deletion,
  nor a failing call, goes back.

The proofs go by what a step does to one request (`Path`: where it may go and what it keeps; `Fates`:
whatever others do leaves it as it is), one container (`BoxStep`), one folder (`FolderStep`) and one image
(`ImageStep`), so that each invariant is shown for one request against an arbitrary step.

`ContainerContract_proofs`, on top of `Invariance`:

- `PortsHold`: `Spec => []PortInv`. To `Inv` it adds `AllOwn` (only a creation has a container, which has the port that the creation
  found, from 1 on) and `Apart` (of two containers that run each has a port of its own). `Apart` holds by what Docker
  refuses (`MayStart`), not by the search: a start whose port is taken fails, whenever it was found free.
- `NoClashWhileRunning`: `Spec => []ClashNeedsStopped`. A container reported as created has been running or has exited since, and of two
  with one port not both run.
- `RoutesKeepContract`: `Spec => Contract!Spec`. What Docker is not asked for, and what only reads, is a stutter. That the container
  touched has the name of the request is `SeenOK`, and that a creation answers with success only for a container that has
  run is in `LocalOK`; that a name has one container and a port one running container are Docker's refusals at `run` and at a start.

The assumptions are `SubAgentAssumption`, `DiffAssumption`, `NoneAssumption`, `StreamAssumption`, `ChatAssumption` and
`LifecycleAssumption`: bounds are naturals, at least one attempt is made, a diff names places and is written for contents, a
sentinel is none of the values, there is a container and a folder, and one folder does not serve two containers. TLC evaluates them in the runs.

Only model-checked: liveness (`Terminates`, `FormComesBack`, `RequestsEnd`), which is out of the prover's reach; their
safety halves are `StepsProgress`, `FormIsAwaited` and `RequestsProgress`. Every other property of a passing run is a theorem.

## 6. Not modelled

Prompts and the texts of messages; what the model chooses (nondeterministic); logging; the temporary
files on the host, which have unique names; the numbering of lines and the tar format; session ids
with `::` in them; the tables' system row; the timeouts of SQLite's lock, which appear as exceptions; the markup.
`get_containers` changes nothing; what it returns appears where a route decides by it (`Workspace`'s `Select`). The
dialogs of `index.html` hide and disable buttons while a request is under way; the models let the user send any request at any
time, which more than one window does. The port in the cookie is only rendered. The fallback of `chat.html` to
`/api/chat` is reached only where `EventSource` cannot be constructed; on the server it
takes the steps of `ChatSessions`. The command line chats, the scripts under `tests/` and the container template take
part in no request of the server.

## 7. Plan

Done, in this order: `SubAgent` with contract, refinement and proofs; `StreamBridge` with proofs;
`ChatSessions` with the migration, and its proofs; `ContainerLifecycle` with its proofs; `Workspace`, the
composition of chat and projects, with its proofs; the contracts of stream and projects with their refinements as
theorems; for the findings, theorems that say how far they go.

What could follow: a refinement of `EditContract` by several tasks whose uploads keep apart; the session key and its parsing.
