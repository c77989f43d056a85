------------------------------ MODULE Consoles ------------------------------
(***************************************************************************)
(* Consoles of a node in the browser: the SSH terminal                     *)
(* (api/routes/webssh.py) with its cache of connections                    *)
(* (services/ssh_connection_cache.py), and the shared screen               *)
(* (api/routes/vnc.py).  One API process, whose coroutines interleave at   *)
(* every await; what a user may do and how the recording looks is left     *)
(* out.  A connection is named after the session that opened it.           *)
(***************************************************************************)
EXTENDS Naturals, FiniteSets

CONSTANTS
    Shells,        \* SSH sessions
    Screens,       \* VNC sessions
    Credential,    \* the credential of each shell: a host, a user, a secret
    SshKeys,       \* the credentials that are keys, not passwords
    MaxCached,     \* MAX_CACHED_CONNECTIONS
    None

Sessions == Shells \cup Screens
Credentials == {Credential[s] : s \in Shells}

ASSUME ConsolesAssumption ==
    /\ Shells \cap Screens = {} /\ None \notin Sessions
    /\ DOMAIN Credential = Shells
    /\ MaxCached \in Nat \ {0}

VARIABLES
    opened,      \* the sessions that users open in this behaviour
    record,      \* status of each session's row in ssh_sessions
    at,          \* where the handler of each session is
    conn,        \* the connection each shell uses
    open,        \* the connections that are open
    cache,       \* the connections in the cache
    used,        \* last_used of each: at which use of the cache that was
    idle,        \* those that were not asked for in five minutes
    lock,        \* who holds the lock of the cache
    cut,         \* history: sessions whose handler ended without an end of the row
    stopped      \* the API process was stopped, which it is once at most

consoleVars == <<opened, record, at, conn, open, cache, used, idle, lock, cut, stopped>>

RecordStatus == {"none", "active", "closed", "timed_out", "failed"}
ShellStep == {"new", "opened", "connect", "connecting", "verify", "start", "live", "timing_out",
              "closing", "over"}
ScreenStep == {"new", "connect", "live", "failing", "closing", "over"}

GoTo(s, l) == at' = [at EXCEPT ![s] = l]

\* MUTANT of CacheKey: without the fingerprint of the credentials.
CacheKeyOfHost(s) == "host"

\* host, port, user and a digest of the secret.  A key is digested by the
\* path of the file it was written to, which no two sessions share.
CacheKey(s) == IF Credential[s] \in SshKeys THEN <<Credential[s], s>> ELSE <<Credential[s]>>

-----------------------------------------------------------------------------
(* get_connection                                                          *)

\* The entries that stay when the dead and the idle ones are evicted.
Remaining == (cache \cap open) \ idle

Uses == Cardinality({s \in Shells : conn[s] # None})

\* The time of an entry is that of its last use, be it the first.
Touched(c) == [used EXCEPT ![c] = Uses + 1]

\* Used longest ago.
Oldest(c, entries) == c \in entries /\ \A d \in entries : used[c] <= used[d]

\* The lock is taken, old entries are evicted, and a connection with the same
\* key is used again: nothing awaits in between.
Reuse(s) ==
    /\ at[s] = "connect" /\ lock = None
    /\ \E c \in Remaining :
          /\ CacheKey(c) = CacheKey(s)
          /\ conn' = [conn EXCEPT ![s] = c]
          /\ used' = Touched(c)
    /\ cache' = Remaining
    /\ open' = open \cap Remaining
    /\ idle' = {}
    /\ GoTo(s, "verify")
    /\ UNCHANGED <<opened, record, lock, cut, stopped>>

\* A full cache closes the connection that was asked for longest ago.
Room(entries) ==
    IF Cardinality(entries) >= MaxCached
    THEN {entries \ {c} : c \in {d \in entries : Oldest(d, entries)}}
    ELSE {entries}

\* Otherwise room is made, and the lock is held while the new one connects.
Connect(s) ==
    /\ at[s] = "connect" /\ lock = None
    /\ \A c \in Remaining : CacheKey(c) # CacheKey(s)
    /\ cache' \in Room(Remaining)
    /\ open' = open \cap cache'
    /\ idle' = {}
    /\ lock' = s
    /\ GoTo(s, "connecting")
    /\ UNCHANGED <<opened, record, conn, used, cut, stopped>>

Connected(s) ==
    /\ at[s] = "connecting"
    /\ conn' = [conn EXCEPT ![s] = s]
    /\ cache' = cache \cup {s}
    /\ used' = Touched(s)
    /\ open' = open \cup {s}
    /\ lock' = None
    /\ GoTo(s, "verify")
    /\ UNCHANGED <<opened, record, idle, cut, stopped>>

\* MUTANT of ConnectFails: the lock stays with a session that gave up.
ConnectFailsLocked(s) ==
    /\ at[s] = "connecting"
    /\ GoTo(s, "closing")
    /\ UNCHANGED <<opened, record, conn, open, cache, used, idle, lock, cut, stopped>>

\* Refused, or no answer within connect_timeout.
ConnectFails(s) ==
    /\ at[s] = "connecting"
    /\ lock' = None
    /\ GoTo(s, "closing")
    /\ UNCHANGED <<opened, record, conn, open, cache, used, idle, cut, stopped>>

-----------------------------------------------------------------------------
(* webssh_session                                                          *)

\* Token, node and credentials are good: the session's row is committed.
OpenSession(s) ==
    /\ s \in opened \cap Shells
    /\ at[s] = "new"
    /\ record' = [record EXCEPT ![s] = "active"]
    /\ GoTo(s, "opened")
    /\ UNCHANGED <<opened, conn, open, cache, used, idle, lock, cut, stopped>>

\* The time limit, the banner and the security event come before the try
\* block: a browser that has left, or a failed commit, ends the handler here.
Announce(s) ==
    /\ at[s] = "opened"
    /\ \/ GoTo(s, "connect") /\ UNCHANGED cut
       \/ GoTo(s, "over") /\ cut' = cut \cup {s}
    /\ UNCHANGED <<opened, record, conn, open, cache, used, idle, lock, stopped>>

\* verify_or_store_host_key: a key that is not the node's closes the
\* connection, whoever else uses it; or the database fails.
VerifyHostKey(s) ==
    /\ at[s] = "verify"
    /\ \/ GoTo(s, "start") /\ UNCHANGED open
       \/ GoTo(s, "closing") /\ open' \in {open, open \ {conn[s]}}
    /\ UNCHANGED <<opened, record, conn, cache, used, idle, lock, cut, stopped>>

\* create_process needs a connection that is still open.
StartShell(s) ==
    /\ at[s] = "start"
    /\ \/ conn[s] \in open /\ GoTo(s, "live")
       \/ GoTo(s, "closing")
    /\ UNCHANGED <<opened, record, conn, open, cache, used, idle, lock, cut, stopped>>

\* The browser leaves, or a keystroke meets a connection that is closed.
Leave(s) ==
    /\ s \in Shells /\ at[s] = "live"
    /\ GoTo(s, "closing")
    /\ UNCHANGED <<opened, record, conn, open, cache, used, idle, lock, cut, stopped>>

TimeLimit(s) ==
    /\ s \in Shells /\ at[s] = "live"
    /\ GoTo(s, "timing_out")
    /\ UNCHANGED <<opened, record, conn, open, cache, used, idle, lock, cut, stopped>>

\* close("timed_out"); the finally clause then closes once more.
CloseTimedOut(s) ==
    /\ at[s] = "timing_out"
    /\ record' \in {record, [record EXCEPT ![s] = "timed_out"]}
    /\ GoTo(s, "closing")
    /\ UNCHANGED <<opened, conn, open, cache, used, idle, lock, cut, stopped>>

\* close() in the finally clause: the connection belongs to the cache and
\* stays.  A failed flush of the recording keeps it from ending the row.
Close(s) ==
    /\ s \in Shells /\ at[s] = "closing"
    /\ \/ record' = [record EXCEPT ![s] = "closed"] /\ UNCHANGED cut
       \/ cut' = cut \cup {s} /\ UNCHANGED record
    /\ GoTo(s, "over")
    /\ UNCHANGED <<opened, conn, open, cache, used, idle, lock, stopped>>

-----------------------------------------------------------------------------
(* The shared screen                                                       *)

OpenScreen(s) ==
    /\ s \in opened \cap Screens
    /\ at[s] = "new"
    /\ record' = [record EXCEPT ![s] = "active"]
    /\ GoTo(s, "connect")
    /\ UNCHANGED <<opened, conn, open, cache, used, idle, lock, cut, stopped>>

\* Ten seconds for the TCP connection.
ConnectScreen(s) ==
    /\ s \in Screens /\ at[s] = "connect"
    /\ \E l \in {"live", "failing"} : GoTo(s, l)
    /\ UNCHANGED <<opened, record, conn, open, cache, used, idle, lock, cut, stopped>>

\* The browser or the node ends it; there is no time limit.
ScreenEnds(s) ==
    /\ s \in Screens /\ at[s] = "live"
    /\ GoTo(s, "closing")
    /\ UNCHANGED <<opened, record, conn, open, cache, used, idle, lock, cut, stopped>>

\* _close_session, unless the WebSocket cannot be closed or the commit fails.
CloseScreen(s) ==
    /\ s \in Screens /\ at[s] \in {"failing", "closing"}
    /\ \/ /\ record' = [record EXCEPT ![s] = IF at[s] = "failing" THEN "failed" ELSE "closed"]
          /\ UNCHANGED cut
       \/ cut' = cut \cup {s} /\ UNCHANGED record
    /\ GoTo(s, "over")
    /\ UNCHANGED <<opened, conn, open, cache, used, idle, lock, stopped>>

-----------------------------------------------------------------------------
(* The world                                                               *)

\* The node or the network closes a connection.
ConnectionDies(c) ==
    /\ c \in open
    /\ open' = open \ {c}
    /\ UNCHANGED <<opened, record, at, conn, cache, used, idle, lock, cut, stopped>>

\* Five minutes since an entry was last asked for, in use or not.
IdlePasses ==
    /\ \E c \in cache \ idle : Oldest(c, cache \ idle) /\ idle' = idle \cup {c}
    /\ UNCHANGED <<opened, record, at, conn, open, cache, used, lock, cut, stopped>>

\* Connections and handlers end with the process; the rows stay.
ApiStops ==
    /\ ~stopped
    /\ stopped' = TRUE
    /\ at' = [s \in Sessions |-> IF at[s] = "new" THEN "new" ELSE "over"]
    /\ cut' = cut \cup {s \in Sessions : at[s] \notin {"new", "over"}}
    /\ open' = {}
    /\ cache' = {}
    /\ idle' = {}
    /\ lock' = None
    /\ UNCHANGED <<opened, record, conn, used>>

InitConsoles(who) ==
    /\ opened = who
    /\ record = [s \in Sessions |-> "none"]
    /\ at = [s \in Sessions |-> "new"]
    /\ conn = [s \in Shells |-> None]
    /\ open = {}
    /\ cache = {}
    /\ used = [s \in Shells |-> 0]
    /\ idle = {}
    /\ lock = None
    /\ cut = {}
    /\ stopped = FALSE

\* What the handler of a session does by itself, and within time limits.
Shell(s) ==
    \/ Announce(s)
    \/ Reuse(s) \/ Connect(s) \/ Connected(s) \/ ConnectFails(s)
    \/ VerifyHostKey(s) \/ StartShell(s)
    \/ TimeLimit(s) \/ CloseTimedOut(s) \/ Close(s)

Screen(s) == ConnectScreen(s) \/ CloseScreen(s)

Console ==
    \/ \E s \in Shells : OpenSession(s) \/ Shell(s) \/ Leave(s)
    \/ \E s \in Screens : OpenScreen(s) \/ Screen(s) \/ ScreenEnds(s)
    \/ \E c \in Shells : ConnectionDies(c)
    \/ IdlePasses
    \/ ApiStops

\* Every step of a handler is bounded by a timeout or is local; that the
\* cache's lock is handed on in turn makes the wait for it end.
ConsoleFairness ==
    /\ \A s \in Shells : WF_consoleVars(Shell(s)) /\ SF_consoleVars(Reuse(s) \/ Connect(s))
    /\ \A s \in Screens : WF_consoleVars(Screen(s))
=============================================================================
