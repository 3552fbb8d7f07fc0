-------------------------------- MODULE Mcp --------------------------------
(***************************************************************************)
(* tools/mcp.py: a tool server is a child process that speaks JSON-RPC     *)
(* over its pipes.  It is started, after asking, by the first request that *)
(* needs it and shared by those that come later; a request numbers its     *)
(* message and reads lines until one bears its number, 30 seconds at most. *)
(* What it no longer waits for may still be answered, and the server may   *)
(* talk without end, exit at any time or be given another command.         *)
(***************************************************************************)
EXTENDS Naturals, Sequences

CONSTANTS
  Asking,      \* requests of the web server, each on a thread of its own
  NoRequest,      \* holds no lock
  MaxServers,  \* bound: processes started
  MaxIds,      \* bound: messages to one process
  MaxLines,    \* bound: lines of one process that wait to be read
  MaxConfigs   \* bound: edits of mcp.json

ASSUME McpAssumption ==
  /\ MaxServers \in Nat /\ MaxIds \in Nat /\ MaxLines \in Nat /\ MaxConfigs \in Nat
  /\ NoRequest \notin Asking

VARIABLES
  config,    \* the command mcp.json names
  running,   \* _running: the process in use, or 0
  listed,    \* _tools has an entry for it
  starter,   \* who holds _starting
  servers,   \* the child processes
  asking     \* the requests

mcpvars == <<config, running, listed, starter, servers, asking>>

Servers == 1..MaxServers
Ids == 1..MaxIds
Ended == 0             \* the end of a process's output
Chatter == MaxIds + 1  \* a line that answers nothing: a log line, a notification

Server == [state: {"unborn", "alive", "dead"}, argv: 0..MaxConfigs,
           sent: 0..MaxIds, open: SUBSET Ids,                    \* numbers given; not answered yet
           lines: Seq(0..MaxIds + 1), lock: Asking \cup {NoRequest}]
Request == [phase: {"idle", "start", "card", "send", "wait", "found"},
            method: {"none", "start", "initialize", "list", "call"},
            argv: 0..MaxConfigs, server: 0..MaxServers, id: 0..MaxIds, answer: 0..MaxIds,
            expired: BOOLEAN]
Resting == [phase |-> "idle", method |-> "none", argv |-> 0, server |-> 0, id |-> 0, answer |-> 0,
            expired |-> FALSE]

McpTypeOK ==
  /\ config \in 0..MaxConfigs /\ running \in 0..MaxServers /\ listed \in BOOLEAN
  /\ starter \in Asking \cup {NoRequest}
  /\ servers \in [Servers -> Server] /\ asking \in [Asking -> Request]
  /\ \A s \in Servers : Len(servers[s].lines) <= MaxLines + 1

McpInit ==
  /\ config = 0 /\ running = 0 /\ listed = FALSE /\ starter = NoRequest
  /\ servers = [s \in Servers |-> [state |-> "unborn", argv |-> 0, sent |-> 0, open |-> {},
                                   lines |-> <<>>, lock |-> NoRequest]]
  /\ asking = [r \in Asking |-> Resting]
-----------------------------------------------------------------------------
Becoming(r, q) == asking' = [asking EXCEPT ![r] = q]
ServerBecomes(s, p) == servers' = [servers EXCEPT ![s] = p]

\* The request is over; what it was answered is kept for the property below.
RequestOver(r) == [Resting EXCEPT !.id = asking[r].id, !.answer = asking[r].answer]

\* close, or an exit: what was written is read before the end.
Dead(p) == [p EXCEPT !.state = "dead", !.open = {},
              !.lines = IF p.state = "alive" THEN Append(p.lines, Ended) ELSE p.lines]

\* The process after a request that failed: one that was starting up is closed,
\* since it never joins the running set.
Failed(p, method, r) ==
  LET free == IF p.lock = r THEN [p EXCEPT !.lock = NoRequest] ELSE p IN
    IF method = "call" THEN free ELSE Dead(free)

RequestFails(r, unread) ==
  /\ ServerBecomes(asking[r].server,
       Failed([servers[asking[r].server] EXCEPT !.lines = unread], asking[r].method, r))
  /\ starter' = IF starter = r THEN NoRequest ELSE starter
  /\ Becoming(r, RequestOver(r))
  /\ UNCHANGED <<config, running, listed>>

\* listing / call: the file is read, and the request is for what it says.
Begin(r) ==
  /\ asking[r].phase = "idle"
  /\ Becoming(r, [Resting EXCEPT !.phase = "start", !.argv = config])
  /\ UNCHANGED <<config, running, listed, starter, servers>>

\* _server: the running process, or its start, with _starting held from here on.
Reuse(r) ==
  /\ asking[r].phase = "start" /\ starter = NoRequest
  /\ running # 0 /\ servers[running].state = "alive" /\ servers[running].argv = asking[r].argv
  /\ Becoming(r, [asking[r] EXCEPT !.phase = "found", !.server = running, !.argv = 0])
  /\ UNCHANGED <<config, running, listed, starter, servers>>

Restart(r) ==
  /\ asking[r].phase = "start" /\ starter = NoRequest
  /\ running # 0 => servers[running].state = "dead" \/ servers[running].argv # asking[r].argv
  /\ servers' = [s \in Servers |-> IF s = running THEN Dead(servers[s]) ELSE servers[s]]
  /\ running' = 0 /\ listed' = FALSE /\ starter' = r
  /\ Becoming(r, [asking[r] EXCEPT !.phase = "card", !.method = "start"])
  /\ UNCHANGED config

\* The card to start it: Popen starts the process, or raises.
StartAllowed(r) ==
  /\ asking[r].phase = "card" /\ asking[r].method = "start"
  /\ \E s \in Servers :
       /\ servers[s].state = "unborn" /\ \A t \in 1..(s - 1) : servers[t].state # "unborn"
       /\ ServerBecomes(s, [servers[s] EXCEPT !.state = "alive", !.argv = asking[r].argv])
       /\ Becoming(r, [asking[r] EXCEPT !.phase = "send", !.method = "initialize", !.server = s, !.argv = 0])
  /\ UNCHANGED <<config, running, listed, starter>>

StartRefused(r) ==
  /\ asking[r].phase = "card" /\ asking[r].method = "start"
  /\ starter' = NoRequest
  /\ Becoming(r, RequestOver(r))
  /\ UNCHANGED <<config, running, listed, servers>>

\* call looks for the tool, or listing names them all: KeyError when another
\* request is restarting the server since.
LookUp(r) ==
  /\ asking[r].phase = "found"
  /\ \/ Becoming(r, RequestOver(r))
     \/ listed /\ Becoming(r, [asking[r] EXCEPT !.phase = "card", !.method = "call"])
  /\ UNCHANGED <<config, running, listed, starter, servers>>

\* The card of the call; the deadline runs before the process is free.
CallAnswered(r) ==
  /\ asking[r].phase = "card" /\ asking[r].method = "call"
  /\ Becoming(r, RequestOver(r)) \/ Becoming(r, [asking[r] EXCEPT !.phase = "send"])
  /\ UNCHANGED <<config, running, listed, starter, servers>>
-----------------------------------------------------------------------------
\* request, once it has the lock: the message is written, or the pipe is broken.
SendMessage(r) ==
  LET s == asking[r].server
      id == servers[s].sent + 1 IN
    /\ asking[r].phase = "send" /\ servers[s].lock = NoRequest
    /\ IF servers[s].state = "dead" THEN RequestFails(r, servers[s].lines)
       ELSE /\ id \in Ids
            /\ ServerBecomes(s, [servers[s] EXCEPT !.sent = id, !.open = servers[s].open \cup {id}, !.lock = r])
            /\ Becoming(r, [asking[r] EXCEPT !.phase = "wait", !.id = id, !.answer = 0])
            /\ UNCHANGED <<config, running, listed, starter>>

\* Mutant of Expired: the deadline of the old code, which every line put off.
ExpiredWhenQuiet(r) == asking[r].expired /\ servers[asking[r].server].lines = <<>>

Expired(r) == asking[r].expired

\* Stop, or the deadline; the answer may still come.
StopsWaiting(r) ==
  /\ asking[r].phase = "wait"
  /\ RequestFails(r, servers[asking[r].server].lines)

TimesOut(r) == Expired(r) /\ StopsWaiting(r)

IsAnswer(id, line) == line = id

\* The process's tools are listed: it is the one in use from now on.
Started(r) ==
  /\ running' = asking[r].server /\ listed' = TRUE /\ starter' = NoRequest
  /\ UNCHANGED config

ReadLine(r) ==
  LET s == asking[r].server
      line == Head(servers[s].lines)
      unread == Tail(servers[s].lines)
      free == [servers[s] EXCEPT !.lines = unread, !.lock = NoRequest]
      answered == [asking[r] EXCEPT !.answer = line, !.expired = FALSE] IN
    /\ asking[r].phase = "wait" /\ ~Expired(r) /\ servers[s].lines # <<>>
    /\ IF line = Ended THEN RequestFails(r, unread)
       ELSE IF ~IsAnswer(asking[r].id, line)
       THEN /\ ServerBecomes(s, [servers[s] EXCEPT !.lines = unread])
            /\ UNCHANGED <<config, running, listed, starter, asking>>
       ELSE \/ RequestFails(r, unread)     \* an error is an answer
            \/ /\ ServerBecomes(s, free) /\ asking[r].method = "initialize"
               /\ Becoming(r, [answered EXCEPT !.phase = "send", !.method = "list"])
               /\ UNCHANGED <<config, running, listed, starter>>
            \/ /\ ServerBecomes(s, free) /\ asking[r].method = "list" /\ Started(r)
               /\ Becoming(r, [answered EXCEPT !.phase = "found", !.method = "none", !.argv = 0])
            \/ /\ ServerBecomes(s, free) /\ asking[r].method = "call"
               /\ Becoming(r, [RequestOver(r) EXCEPT !.answer = line])
               /\ UNCHANGED <<config, running, listed, starter>>

DeadlinePasses(r) ==
  /\ asking[r].phase \in {"send", "wait"} /\ ~asking[r].expired
  /\ Becoming(r, [asking[r] EXCEPT !.expired = TRUE])
  /\ UNCHANGED <<config, running, listed, starter, servers>>
-----------------------------------------------------------------------------
\* The server's side of the pipes, and the owner's of the file.
ServerWrites(s) ==
  /\ servers[s].state = "alive" /\ Len(servers[s].lines) < MaxLines
  /\ \E line \in servers[s].open \cup {Chatter} :
       ServerBecomes(s, [servers[s] EXCEPT !.open = servers[s].open \ {line},
                                           !.lines = Append(servers[s].lines, line)])
  /\ UNCHANGED <<config, running, listed, starter, asking>>

ServerExits(s) ==
  /\ servers[s].state = "alive"
  /\ ServerBecomes(s, Dead(servers[s]))
  /\ UNCHANGED <<config, running, listed, starter, asking>>

OwnerEdits ==
  /\ config < MaxConfigs
  /\ config' = config + 1
  /\ UNCHANGED <<running, listed, starter, servers, asking>>

ThreadStep(r) == SendMessage(r) \/ ReadLine(r) \/ TimesOut(r)

McpNext ==
  \/ \E r \in Asking : \/ Begin(r) \/ Reuse(r) \/ Restart(r) \/ StartAllowed(r) \/ StartRefused(r)
                       \/ LookUp(r) \/ CallAnswered(r) \/ StopsWaiting(r) \/ ThreadStep(r) \/ DeadlinePasses(r)
  \/ \E s \in Servers : ServerWrites(s) \/ ServerExits(s)
  \/ OwnerEdits

\* A thread takes its own steps and time passes; the server need do nothing.
McpFairness == \A r \in Asking : WF_mcpvars(ThreadStep(r)) /\ WF_mcpvars(DeadlinePasses(r))

McpSpec == McpInit /\ [][McpNext]_mcpvars /\ McpFairness
-----------------------------------------------------------------------------
\* A request is given the answer to its own message, although answers to
\* messages nobody waits for any more come out of the same pipe.
AnswersAreTheirOwn ==
  \A r \in Asking : asking[r].answer \in {0, asking[r].id}

\* No process is forgotten: one that lives is the one in use, or its starter
\* still has it in hand, whichever step of the start fails.
NoServerIsForgotten ==
  \A s \in Servers : servers[s].state = "alive" =>
    s = running \/ (starter # NoRequest /\ asking[starter].server = s)

\* Whatever fails, times out, exits or is stopped, in whichever order, requests
\* get their own answers and processes are somebody's.
ServersAreAccountedFor == AnswersAreTheirOwn /\ NoServerIsForgotten

\* A server that talks without end holds neither the request nor the lock the
\* other requests to it wait for.
TheServerIsFreed ==
  \A s \in Servers, r \in Asking : (servers[s].lock = r) ~> (servers[s].lock # r)
=============================================================================
