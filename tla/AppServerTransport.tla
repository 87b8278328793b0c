-------------------------- MODULE AppServerTransport --------------------------
(***************************************************************************)
(* JSON-RPC over the pipes of one codex app-server process                 *)
(* (codex_app_server_transport.py) and the client around it                *)
(* (codex_app_server.py): start, request, the reader task, close.          *)
(*                                                                         *)
(* Everything runs on one event loop, so what runs between two awaits is   *)
(* one action.  A request is suspended from its write on (the write lock,  *)
(* the drain and the wait for its future): a drain that finds the pipe     *)
(* broken ends it like the limit of the wait does.  The server is external:*)
(* it takes the requests that were written in any order, answers some of   *)
(* them, and may exit at any moment.  What a request asks, and what an     *)
(* answer says, is of no concern here.                                     *)
(***************************************************************************)
EXTENDS Naturals, FiniteSets

CONSTANTS
    Callers,   \* the concurrent calls of request()
    Starter    \* the call of it that client.start() makes

ASSUME StarterAssumption == Starter \notin Callers

VARIABLES
    process,      \* the state of the process
    reader,       \* the task of _read_stdout
    failure,      \* whether _failure is set
    closer,       \* whether close() is suspended; _closing is set meanwhile
    initialized,  \* whether the client has an _initialize_result
    told,         \* whether app-server/exited is in the notification queue
    nextId,       \* _next_id
    call,         \* the calls of request(), and _pending: the id and the future of each
    sent,         \* requests on stdin that the server has not taken
    stdout        \* answers on stdout that the reader has not read

transportVars ==
    <<process, reader, failure, closer, initialized, told, nextId, call, sent, stdout>>

Everybody == Callers \cup {Starter}

\* An answer is a positive number; 0 is an error answer.
Call == [at : {"idle", "waiting"}, id : Nat,
         future : {"open", "answer", "error"}, answer : Nat]

TransportTypeOK ==
    /\ process \in {"none", "running", "exited"}
    /\ reader \in {"none", "reading", "ended"}
    /\ failure \in BOOLEAN /\ initialized \in BOOLEAN /\ told \in BOOLEAN
    /\ closer \in {"idle", "closing"}
    /\ nextId \in Nat
    /\ call \in [Everybody -> Call]
    /\ sent \subseteq [id : Nat, what : {m.what : m \in sent}]
    /\ stdout \subseteq [id : Nat, answer : Nat]

NoCall == [at |-> "idle", id |-> 0, future |-> "open", answer |-> 0]

TransportInit ==
    /\ process = "none" /\ reader = "none" /\ failure = FALSE /\ closer = "idle"
    /\ initialized = FALSE /\ told = FALSE /\ nextId = 0
    /\ call = [c \in Everybody |-> NoCall]
    /\ sent = {} /\ stdout = {}

-----------------------------------------------------------------------------
\* The keys of _pending.
Registered == {c \in Everybody : call[c].at # "idle"}

\* _fail_pending(): every future that is not done.
FailPending ==
    [c \in Everybody |-> IF c \in Registered /\ call[c].future = "open"
                         THEN [NoCall EXCEPT !.at = "waiting", !.future = "error"] ELSE call[c]]

\* Mutant of CanWrite: _failure is not looked at.
CanWriteWhileRunning == process = "running"

\* _write() raises at once when the reader failed, or with no process or one that exited.
CanWrite == ~failure /\ process = "running"

\* Mutant of FreshId: the number of pending requests.
PendingId == Cardinality(Registered)

\* The id of a request: the counter of a client is never set back.
FreshId == nextId

\* _request() up to its first suspension, for a client that is initialized and a caller
\* that has no other request under way: the future is registered before the write.  A
\* message that waits for the write lock counts as written: the server only takes it sooner.
Request(c, what) ==
    /\ initialized /\ CanWrite
    /\ call' = [call EXCEPT ![c] = [NoCall EXCEPT !.at = "waiting", !.id = FreshId]]
    /\ sent' = sent \cup {[id |-> FreshId, what |-> what]}
    /\ nextId' = nextId + 1
    /\ UNCHANGED <<process, reader, failure, closer, initialized, told, stdout>>

\* It raises before it suspends: its caller goes on with the error.
RequestRefused == ~initialized \/ ~CanWrite

\* request() is over, and its finally clause takes the id out of _pending.
Popped(c) ==
    /\ call' = [call EXCEPT ![c] = NoCall]
    /\ UNCHANGED <<process, reader, failure, closer, initialized, told, nextId, sent, stdout>>

\* request() returns the answer that its future was given.
Answered(c) == call[c].at = "waiting" /\ call[c].future = "answer" /\ Popped(c)

\* It raises: the future was failed, the wait reached its limit, or the drain found the
\* pipe broken.
Raised(c) == call[c].at = "waiting" /\ call[c].future # "answer" /\ Popped(c)

-----------------------------------------------------------------------------
\* _resolve_response(): an answer resolves the pending future of its id, if that is not
\* done; an answer that nobody waits for any more is dropped.
Resolved(line) ==
    [c \in Everybody |->
        IF c \in Registered /\ call[c].id = line.id /\ call[c].future = "open"
        THEN [NoCall EXCEPT !.at = "waiting", !.future = "answer",
                         !.answer = line.answer] ELSE call[c]]

ReadAnswer(line) ==
    /\ reader = "reading" /\ line \in stdout
    /\ stdout' = stdout \ {line}
    /\ call' = Resolved(line)
    /\ UNCHANGED <<process, reader, failure, closer, initialized, told, nextId, sent>>

\* The reader raises: a line is no message, or its reply to a request of the server cannot
\* be written.  It tells everybody and terminates the process, which need not end at once.
ReadFails ==
    /\ reader = "reading"
    /\ reader' = "ended"
    /\ failure' = TRUE
    /\ call' = FailPending
    /\ told' = (closer = "idle" \/ told)
    /\ UNCHANGED <<process, closer, initialized, nextId, sent, stdout>>

\* End of file: unless the client is closing this is the exit that everybody is told of.
ReadEnds ==
    /\ reader = "reading" /\ process = "exited" /\ stdout = {}
    /\ reader' = "ended"
    /\ IF closer = "idle"
       THEN failure' = TRUE /\ call' = FailPending /\ told' = TRUE
       ELSE UNCHANGED <<failure, call, told>>
    /\ UNCHANGED <<process, closer, initialized, nextId, sent, stdout>>

-----------------------------------------------------------------------------
\* client.close(), or the except clause of client.start(): the client is not initialized
\* from here on; what is pending fails, stdin is closed and the end of the process awaited,
\* which is told to end, ever more firmly, after each limit of _wait_or_stop().
Close ==
    /\ closer = "idle"
    /\ initialized' = FALSE
    /\ call' = FailPending
    /\ closer' = "closing"
    /\ UNCHANGED <<process, reader, failure, told, nextId, sent, stdout>>

\* The process is gone: the tasks are cancelled and the transport is as good as new.
CloseEnds ==
    /\ closer = "closing" /\ process # "running"
    /\ closer' = "idle" /\ process' = "none" /\ reader' = "none"
    /\ failure' = FALSE /\ told' = FALSE
    /\ sent' = {} /\ stdout' = {}
    /\ UNCHANGED <<initialized, nextId, call>>

\* client.start() of a new client: the process is spawned and asked to initialize.
ClientStart(what) ==
    /\ process = "none" /\ closer = "idle" /\ ~initialized
    /\ process' = "running" /\ reader' = "reading"
    /\ call' = [call EXCEPT ![Starter] = [NoCall EXCEPT !.at = "waiting"]]
    /\ sent' = {[id |-> 0, what |-> what]}
    /\ nextId' = 1
    /\ UNCHANGED <<failure, closer, initialized, told, stdout>>

\* Its answer fits and the notification that follows is written.
ClientInitialized ==
    /\ call[Starter].at = "waiting" /\ call[Starter].future = "answer"
    /\ call[Starter].answer # 0 /\ CanWrite
    /\ initialized' = TRUE
    /\ call' = [call EXCEPT ![Starter] = NoCall]
    /\ UNCHANGED <<process, reader, failure, closer, told, nextId, sent, stdout>>

\* The request raised, the answer does not fit, or the notification cannot be written.
ClientStartFailed == call[Starter].at = "waiting"

\* External: the server takes a request and answers it.
ServerAnswers(message, answer) ==
    /\ process = "running" /\ message \in sent
    /\ sent' = sent \ {message}
    /\ stdout' = stdout \cup {[id |-> message.id, answer |-> answer]}
    /\ UNCHANGED <<process, reader, failure, closer, initialized, told, nextId, call>>

\* External: the process ends; what it wrote can still be read.
ProcessExits ==
    /\ process = "running"
    /\ process' = "exited"
    /\ sent' = {}
    /\ UNCHANGED <<reader, failure, closer, initialized, told, nextId, call, stdout>>

-----------------------------------------------------------------------------
\* Once the reader has ended, or the client is closing, nobody waits for an answer any
\* more: every pending future was failed, and no request is registered after that.
NobodyWaits ==
    \A c \in Registered :
       call[c].future = "open" => reader = "reading" /\ closer = "idle"
=============================================================================
