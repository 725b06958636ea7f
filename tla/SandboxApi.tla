------------------------------ MODULE SandboxApi ------------------------------
(***************************************************************************)
(* What a caller of the HTTP API reads between the steps of the manager:   *)
(* the routes of src/routes/sandboxes.ts and src/routes/metrics.ts, over   *)
(* the reading half of manager.ts, store.ts and prometheus.ts.  A read has *)
(* no await, so it is a function of the state.  The detail, the logs and   *)
(* the list are read from the table, the two writes are decided by the     *)
(* table and then by the Map, the counts come from the Map.                *)
(***************************************************************************)
EXTENDS SandboxManager

Recorded == {id \in Sandboxes : row[id].status # "none"}

\* getSandbox: a record exists, and its owner is the caller unless one of the
\* two has no user.
Visible(id, user) ==
    /\ id \in Recorded
    /\ NoUser \in {user, row[id].userId} \/ user = row[id].userId

\* getLogs looks the record up and compares its owner once more, with the same
\* condition.
LogsVisible(id, user) == Visible(id, user)

Routes == {"detail", "logs", "execute", "destroy"}

\* Every route about one sandbox looks its record up, if only for the log line;
\* then the writes are decided by the Map.
Answer(route, id, user) ==
    IF /\ Visible(id, user)
       /\ route = "logs" => LogsVisible(id, user)
       /\ route \in {"execute", "destroy"} => MayUse(id, user)
    THEN "found" ELSE "not found"

\* The seeded templates, the only rows of that table.
Templates == {"node-22", "python-3.12"}

TemplateKnown(template) == template \in Templates

\* POST /sandboxes: the limit is compared before the template is looked up.
CreateAnswer(template) ==
    IF ~UnderLimit THEN "limit reached"
    ELSE IF ~TemplateKnown(template) THEN "unknown template" ELSE "accepted"

\* The store's query.  The SQL comparison leaves the records without an owner
\* out of a user's list.
Rows(status, user) ==
    {id \in Recorded : /\ status # "all" => row[id].status = status
                       /\ user # NoUser => row[id].userId = user}

\* listSandboxes: open records unless the query asks otherwise.
Listed(status, user) == Rows(IF status = "unset" THEN "running" ELSE status, user)

\* The rows of execution_logs: the length of the logs, and the executionCount
\* of the list and of the detail.
ExecutionCount(id) == logs[id]

\* Mutant: the number of open sandboxes is derived from the two counters.
ActiveByCounters == metrics.created - metrics.destroyed

\* activeSandboxCount: the count of the list and of the capacity.
ActiveCount == Cardinality(running)

\* GET /sandboxes: the caller's list, beside the count and the limit of the whole
\* process.
ListAnswer(status, user) ==
    [sandboxes |-> Listed(status, user), count |-> ActiveCount, maxCount |-> MaxSandboxes]

\* The worker's GET /sandboxes: its caller, the control plane, has no user.
WorkerList == ListAnswer("running", NoUser)

\* What a worker tells of its room.
Available == IF ActiveCount < MaxSandboxes THEN MaxSandboxes - ActiveCount ELSE 0

\* The gauges and counters, as JSON and as Prometheus text.
Summary ==
    [active |-> ActiveCount, created |-> metrics.created,
     destroyed |-> metrics.destroyed, executions |-> metrics.executions]

Scrape ==
    [active |-> ActiveCount, created |-> metrics.created,
     destroyed |-> metrics.destroyed, executions |-> metrics.executions,
     max |-> MaxSandboxes]

Exposed(format) == IF format = "json" THEN Summary ELSE Scrape

\* What a caller may do agrees with what the caller is shown.
\*  - Who is refused a detail is refused every write to that sandbox and has it
\*    in no list, so a foreign id and an unknown one look the same.
\*  - Who sees an open record can act on it, unless the process has restarted:
\*    then the sandbox is listed as running and every write is answered 404.
\*  - What one user lists, closed or not, does not exist for another user.
CallerAgrees(id, user) ==
    /\ Answer("detail", id, user) = "not found" =>
           ~MayUse(id, user) /\ id \notin Listed("all", user)
    /\ id \in Listed("unset", user) /\ restarts = 0 =>
           \A route \in Routes : Answer(route, id, user) = "found"
    /\ \A other \in Users \ {user} :
           user \in Users /\ id \in Listed("all", other) =>
               \A route \in Routes : Answer(route, id, user) = "not found"

\* The count beside a user's list is not the length of that list: it is
\* everybody's.  The two are equal exactly while the caller's sandboxes are the
\* only open ones, as they always are for the worker's caller.
ListAgrees(user) ==
    LET answer == ListAnswer("unset", user) IN
    /\ Cardinality(answer.sandboxes) <= answer.count
    /\ answer.count = Cardinality(answer.sandboxes) <=>
           answer.sandboxes = WorkerList.sandboxes

\* A create is refused for the limit, and the worker tells that it has no room,
\* exactly when everybody's open sandboxes reach the limit, however short the
\* list of the user who asks.
LimitAgrees ==
    LET full == Cardinality(WorkerList.sandboxes) >= MaxSandboxes IN
    /\ \A template \in Templates \cup {"unknown"} :
           CreateAnswer(template) = "limit reached" <=> full
    /\ Available = 0 <=> full

\* The gauges and counters tell the numbers of the worker's list and of the
\* records, and no sandbox has more executions than were counted.
MetricsAgree(format) ==
    /\ Exposed(format).active = Cardinality(WorkerList.sandboxes)
    /\ Exposed(format).created = Cardinality(Listed("all", NoUser))
    /\ \A id \in Sandboxes : ExecutionCount(id) <= Exposed(format).executions

\* The answers of the routes fit together although the table gives some of them
\* and the Map the others, on both sides of every await.  A restart empties the
\* Map: from then on only what a caller is refused, and that the Map has nothing
\* the table has not, can be relied on.
ApiAgrees ==
    /\ \A id \in Sandboxes, user \in Owners : CallerAgrees(id, user)
    /\ \A id \in Sandboxes : ExecutionCount(id) > 0 => id \in Listed("all", NoUser)
    /\ WorkerList.count <= Cardinality(WorkerList.sandboxes)
    /\ restarts = 0 =>
           /\ \A user \in Owners : ListAgrees(user)
           /\ MaxSandboxes > 0 => LimitAgrees
           /\ \A format \in {"json", "text"} : MetricsAgree(format)
===============================================================================
