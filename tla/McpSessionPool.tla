----------------------------- MODULE McpSessionPool -----------------------------
(***************************************************************************)
(* The pool of the sessions a Sage process keeps with MCP servers.         *)
(*                                                                         *)
(* Every session has an owner task, which alone opens, serves and exits    *)
(* the server's context.  The calls of the pool are tasks of the same      *)
(* event loop: each action is what one task does between two awaits.  What *)
(* the server does is outside: it may never answer, fail, or die.          *)
(***************************************************************************)
EXTENDS Naturals, Sequences, FiniteSets, SequencesExt

CONSTANTS
  Scope,       \* owner, workspace and thread: a chat
  Server,      \* configured MCP servers
  Call,        \* bound: calls of the pool at once
  MaxSessions, \* max_sessions: the capacity of the pool
  MaxOwners    \* bound: sessions made

ASSUME PoolAssumption ==
  /\ Scope # {} /\ Server # {}
  /\ MaxSessions \in Nat \ {0} /\ MaxOwners \in Nat \ {0}

\* One transport serves one revision of the configuration.
Key   == Scope \X Server
Owner == 1 .. MaxOwners

VARIABLES
  owner,    \* owner[o]: an owner task with its ready future and its close event
  entries,  \* _entries: the owners of the sessions in use, least recently used first
  inflight, \* _inflight: the owners of the sessions being made
  closed,   \* _closed
  call      \* call[c]: what the call c waits for

poolVars == <<owner, entries, inflight, closed, call>>

------------------------------------------------------------------------------
(* Types *)

\* born: created, not yet run; opening: entering the context or initializing; serving:
\* waiting for the close event; leaving: exiting the context; told: to stop by its close
\* event, or by a cancellation as well.
Task == [at : {"born", "opening", "serving", "leaving", "done"},
         key : Key, ready : {"pending", "session", "failed"},
         told : {"", "stop", "cancel"}]

\* join: it waits for a session someone else makes; wait: for the one it makes; evict:
\* for the one that made room; undo: for the one it gives up; close: for those it closes.
\* todo: the owners it has still to shut down, the first one under way; hard: those it
\* cancels as well.
Pending == [at : {"idle", "join", "wait", "evict", "undo", "close"},
            owner : Owner \union {0}, todo : Seq(Owner), hard : SUBSET Owner]

SomeKey == CHOOSE k \in Key : TRUE
NotMade == [at |-> "done", key |-> SomeKey, ready |-> "pending", told |-> ""]
Idle  == [at |-> "idle", owner |-> 0, todo |-> <<>>, hard |-> {}]

Entries    == Range(entries)
Registered == Entries \union inflight

\* _entries and _inflight are dictionaries: an owner per key.  The sessions in use are
\* no more than the capacity of the pool, however many are being made when it is full.
TypeOK ==
  /\ owner \in [Owner -> Task]
  /\ \A i, j \in DOMAIN entries : owner[entries[i]].key = owner[entries[j]].key => i = j
  /\ \A o, q \in inflight : owner[o].key = owner[q].key => o = q
  /\ entries \in Seq(Owner) /\ Len(entries) <= MaxSessions /\ inflight \subseteq Owner
  /\ closed \in BOOLEAN
  /\ call \in [Call -> Pending]

Init ==
  /\ owner = [o \in Owner |-> NotMade]
  /\ entries = <<>> /\ inflight = {} /\ closed = FALSE
  /\ call = [c \in Call |-> Idle]

------------------------------------------------------------------------------
(* Owners *)

Over(o)   == owner[o].at = "done"
OfKey(S, k) == {o \in S : owner[o].key = k}

\* Owners are numbered as they are made.
Unmade == {o \in Owner : owner[o] = NotMade}
Fresh  == CHOOSE o \in Unmade : \A q \in Unmade : o <= q

\* _shutdown_owner up to its wait: the first owner of a list is told to stop.  It makes
\* no difference to one that is exiting its context already.
Stopping(todo, hard) ==
  LET o == Head(todo) IN
  IF owner[o].at \in {"leaving", "done"} \/ owner[o].told = "cancel" THEN owner
  ELSE [owner EXCEPT ![o].told = IF o \in hard THEN "cancel" ELSE "stop"]

------------------------------------------------------------------------------
(* _run_session *)

Moves(o, at) ==
  /\ owner' = [owner EXCEPT ![o].at = at]
  /\ UNCHANGED <<entries, inflight, closed, call>>

\* The future is set if it is not yet set.
Ends(o, at) ==
  /\ owner' = [owner EXCEPT ![o] =
       [key |-> owner[o].key, at |-> at, told |-> "",
        ready |-> IF owner[o].ready = "pending" THEN "failed" ELSE owner[o].ready]]
  /\ UNCHANGED <<entries, inflight, closed, call>>

Starts(o) == owner[o].at = "born" /\ owner[o].told # "cancel" /\ Moves(o, "opening")

\* A task that is cancelled before it has run ends without touching its future.
NeverStarts(o) == owner[o].at = "born" /\ owner[o].told = "cancel" /\ Moves(o, "done")

Initialized(o) ==
  /\ owner[o].at = "opening" /\ owner[o].told # "cancel"
  /\ owner' = [owner EXCEPT ![o].at = "serving", ![o].ready = "session"]
  /\ UNCHANGED <<entries, inflight, closed, call>>

\* The context cannot be entered, or, once entered, the session not initialized.
OpenFails(o) == owner[o].at = "opening" /\ (Ends(o, "done") \/ Ends(o, "leaving"))

\* The server dies, and with it the cancel scope of its context.
Dies(o) == owner[o].at = "serving" /\ Ends(o, "leaving")

\* The close event, or a cancellation, is seen at the await the task is at.
Closes(o) ==
  \/ owner[o].at = "serving" /\ owner[o].told # "" /\ Ends(o, "leaving")
  \/ owner[o].told = "cancel" /\ OpenFails(o)

\* The context is closed, or its cleanup fails or is cancelled.
Left(o) == owner[o].at = "leaving" /\ Ends(o, "done")

------------------------------------------------------------------------------
(* get_session, until its first await: a session in use is taken at once and  *)
(* is now the most recently used, one being made is waited for, else one is   *)
(* made.  An owner that is over is passed over and replaced.                  *)

Becomes(c, pending) == call' = [call EXCEPT ![c] = pending]

InUse(k)     == {o \in OfKey(Entries, k) : ~Over(o)}
BeingMade(k) == {o \in OfKey(inflight, k) : ~Over(o)}

\* The elements of s that are in S, in their order.
Kept(s, S) ==
  LET upTo[n \in 0 .. Len(s)] ==
        IF n = 0 THEN <<>>
        ELSE IF s[n] \in S THEN Append(upTo[n - 1], s[n]) ELSE upTo[n - 1]
  IN  upTo[Len(s)]

\* _entries once the owners of S are popped
Popped(S) == Kept(entries, Entries \ S)

Take(k) ==
  \E o \in InUse(k) :
    /\ entries' = Append(Popped({o}), o)
    /\ UNCHANGED <<owner, inflight, call>>

Join(c, k) ==
  /\ InUse(k) = {}
  /\ \E o \in BeingMade(k) : Becomes(c, [Idle EXCEPT !.at = "join", !.owner = o])
  /\ entries' = Popped(OfKey(Entries, k))
  /\ UNCHANGED <<owner, inflight>>

Replaced(k) == inflight \ OfKey(inflight, k)

Make(c, k) ==
  /\ InUse(k) = {} /\ BeingMade(k) = {} /\ Unmade # {}
  /\ owner' = [owner EXCEPT ![Fresh] =
       [at |-> "born", key |-> k, ready |-> "pending", told |-> ""]]
  /\ inflight' = Replaced(k) \union {Fresh}
  /\ entries' = Popped(OfKey(Entries, k))
  /\ Becomes(c, [Idle EXCEPT !.at = "wait", !.owner = Fresh])

GetSession(c, k) ==
  /\ call[c] = Idle /\ ~closed
  /\ Take(k) \/ Join(c, k) \/ Make(c, k)
  /\ UNCHANGED closed

------------------------------------------------------------------------------
(* get_session, after its awaits *)

\* The call shuts a list of owners down, one after the other, and waits for each.
Shutting(c, at, todo, hard) ==
  /\ owner' = Stopping(todo, hard)
  /\ Becomes(c, [call[c] EXCEPT !.at = at, !.todo = todo, !.hard = hard])

\* A session that someone else has made is there, or could not be made.
Joined(c) ==
  /\ call[c].at = "join" /\ owner[call[c].owner].ready # "pending"
  /\ Becomes(c, Idle)
  /\ UNCHANGED <<owner, entries, inflight, closed>>

\* Mutant of StillCurrent: a session that was closed meanwhile is not noticed.
StillCurrent_Unchecked(o) == ~closed

\* The session is still the one being made for its key.
StillCurrent(o) == o \in inflight /\ ~closed

\* Mutant of Full: room is made for a session one session too late.
Full_Late == Len(entries) > MaxSessions

Full == Len(entries) >= MaxSessions

\* Mutant of Register: the session that makes room is forgotten.
Register_Forgets(c) ==
  LET o == call[c].owner IN
  /\ call[c].at = "wait" /\ owner[o].ready = "session" /\ StillCurrent(o)
  /\ inflight' = inflight \ {o}
  /\ entries' = Append(IF Full THEN Tail(entries) ELSE entries, o)
  /\ Becomes(c, Idle)
  /\ UNCHANGED <<owner, closed>>

\* The session enters the pool; the least recently used one makes room for it.
Register(c) ==
  LET o == call[c].owner IN
  /\ call[c].at = "wait" /\ owner[o].ready = "session" /\ StillCurrent(o)
  /\ inflight' = inflight \ {o}
  /\ IF Full
       THEN /\ entries' = Append(Tail(entries), o)
            /\ Shutting(c, "evict", <<Head(entries)>>, {})
       ELSE /\ entries' = Append(entries, o)
            /\ Becomes(c, Idle) /\ UNCHANGED owner
  /\ UNCHANGED closed

\* The scope or the pool was closed while the session was being made.
Reject(c) ==
  LET o == call[c].owner IN
  /\ call[c].at = "wait" /\ owner[o].ready = "session" /\ ~StillCurrent(o)
  /\ Shutting(c, "undo", <<o>>, {})
  /\ UNCHANGED <<entries, inflight, closed>>

\* The session could not be made: its owner has only to come to its end.
MakingFails(c) ==
  LET o == call[c].owner IN
  /\ call[c].at = "wait" /\ owner[o].ready = "failed"
  /\ Becomes(c, [call[c] EXCEPT !.at = "undo", !.todo = <<o>>])
  /\ UNCHANGED <<owner, entries, inflight, closed>>

\* The call waits no longer for the first of its list; after the last one it returns,
\* or gives up its place in the pool and raises.
Advance(c) ==
  LET cl == call[c]
      rest == Tail(cl.todo)
  IN
  IF rest # <<>>
    THEN /\ Shutting(c, cl.at, rest, cl.hard)
         /\ UNCHANGED <<entries, inflight, closed>>
    ELSE /\ Becomes(c, Idle)
         /\ inflight' = IF cl.at = "undo" THEN inflight \ {cl.owner} ELSE inflight
         /\ UNCHANGED <<owner, entries, closed>>

IsShutting(c) == call[c].at \in {"evict", "undo", "close"}

\* _shutdown_owner returns
ShutDown(c) == IsShutting(c) /\ Over(Head(call[c].todo)) /\ Advance(c)

------------------------------------------------------------------------------
(* A timeout of the call or the cancellation of its run.  A wait for a        *)
(* session to be shut down swallows it: the wait ends and the call goes on.   *)

\* Mutant of GiveUp: the session being made is left alone.
GiveUp_Forgets(c) ==
  Becomes(c, Idle) /\ UNCHANGED <<owner, entries, inflight, closed>>

\* Mutant of GiveUp: the session is told to stop, its task is not cancelled.
GiveUp_Softly(c) ==
  Shutting(c, "undo", <<call[c].owner>>, {}) /\ UNCHANGED <<entries, inflight, closed>>

\* The session being made is given up, unless it has failed of itself.
GiveUp(c) ==
  LET o == call[c].owner IN
  /\ owner[o].ready # "failed"
  /\ Shutting(c, "undo", <<o>>, {o})
  /\ UNCHANGED <<entries, inflight, closed>>

Interrupt(c) ==
  \/ /\ call[c].at = "join" /\ Becomes(c, Idle)
     /\ UNCHANGED <<owner, entries, inflight, closed>>
  \/ call[c].at = "wait" /\ (GiveUp(c) \/ MakingFails(c))
  \/ IsShutting(c) /\ Advance(c)

------------------------------------------------------------------------------
(* Closing: the sessions in use first, then those being made, which are       *)
(* cancelled.                                                                 *)

OfKeys(S, keys) == {o \in S : owner[o].key \in keys}
Making(keys) == OfKeys(inflight, keys)
Using(keys)  == OfKeys(Entries, keys)

Closing(c, keys, todo, hard) ==
  /\ call[c] = Idle
  /\ entries' = Popped(Using(keys))
  /\ IF todo = <<>> THEN UNCHANGED <<owner, call>> ELSE Shutting(c, "close", todo, hard)

\* _pop_matching and _close_owners
CloseOwners(c, keys) ==
  /\ Closing(c, keys, Kept(entries, Using(keys)) \o SetToSeq(Making(keys)), Making(keys))
  /\ inflight' = inflight \ Making(keys)

\* A tool failed on its session.
CloseSession(c, k) == CloseOwners(c, {k}) /\ UNCHANGED closed

\* A chat is archived, or its tools are not those its plan has frozen.
CloseScope(c, s) == CloseOwners(c, {s} \X Server) /\ UNCHANGED closed

InvalidateRevision(c) == CloseOwners(c, Key) /\ UNCHANGED closed

\* The application shuts down.
Close(c) == ~closed /\ closed' = TRUE /\ CloseOwners(c, Key)

------------------------------------------------------------------------------

OwnerStep(o) ==
  \/ Starts(o) \/ NeverStarts(o) \/ Initialized(o) \/ OpenFails(o)
  \/ Dies(o) \/ Closes(o) \/ Left(o)

TimesOut(c) == call[c].at \in {"join", "wait"} /\ Interrupt(c)

Resume(c) == Joined(c) \/ Register(c) \/ Reject(c) \/ MakingFails(c) \/ ShutDown(c)

CallStep(c) ==
  \/ \E k \in Key : GetSession(c, k) \/ CloseSession(c, k)
  \/ \E s \in Scope : CloseScope(c, s)
  \/ InvalidateRevision(c) \/ Close(c)
  \/ Resume(c) \/ Interrupt(c)

Next == (\E o \in Owner : OwnerStep(o)) \/ (\E c \in Call : CallStep(c))

Spec == Init /\ [][Next]_poolVars

\* The event loop runs the tasks that are ready; a call has a timeout; a context that is
\* exited is exited in the end.  Nothing else is expected of a server.
Fairness ==
  /\ \A o \in Owner : WF_poolVars(Starts(o) \/ NeverStarts(o) \/ Closes(o) \/ Left(o))
  /\ \A c \in Call : WF_poolVars(Resume(c)) /\ WF_poolVars(TimesOut(c))

FairSpec == Spec /\ Fairness

------------------------------------------------------------------------------
(* Properties *)

\* No session is left to itself, whichever calls are cancelled or time out and whatever
\* is closed around them: the session of an owner that is not over is in use, or awaited
\* by the call that makes it, or was told to stop or is at its end, or will be told.
SessionsOwned ==
  \A o \in Owner :
    \/ owner[o].at \in {"leaving", "done"} \/ owner[o].told # ""
    \/ o \in Entries
    \/ \E c \in Call : call[c].owner = o /\ call[c].at = "wait"
    \/ \E c \in Call : Contains(call[c].todo, o)

\* A session in use is not being closed, nor is a call, begun however long ago, still
\* about to close it; no session is made for a key that has one; and a pool that is closed
\* gets no session any more, whichever sessions were being made when it was closed.
PoolCoherent ==
  /\ \A o \in Entries : owner[o].told = "" /\ \A c \in Call : ~Contains(call[c].todo, o)
  /\ \A o \in Entries, q \in inflight : owner[o].key # owner[q].key
  /\ closed => Registered = {}

\* A call of the pool returns, though the server may never answer, the task that makes
\* the session may never start, and another call may close it.
CallsReturn == \A c \in Call : (call[c] # Idle) ~> (call[c] = Idle)

\* A session that has left the pool comes to its end: no server process outlives it.
RemovedSessionsEnd ==
  \A o \in Owner : (~Over(o) /\ o \notin Registered) ~> Over(o)
=============================================================================
