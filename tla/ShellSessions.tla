---------------------------- MODULE ShellSessions ----------------------------
(***************************************************************************)
(* The shell sessions of the server inside a sandbox image: ShellManager   *)
(* of sandbox/server/shell.py with its routes in app.py.  A command writes *)
(* to a log file of its own; requests start commands, read what is new in  *)
(* the log, and kill.  Beside each command runs a task that waits for its  *)
(* exit and a guard that kills it when its log has grown too long.         *)
(*                                                                         *)
(* A step goes from one await to the next.  Output is counted in chunks,   *)
(* numbered by their place in the log.  A request may answer at any poll:  *)
(* its deadline has come, its pattern has matched or the command has ended.*)
(*                                                                         *)
(* External: a command prints, and exits by itself, with or without a      *)
(* child in the background that goes on printing, or because of SIGKILL.   *)
(***************************************************************************)
EXTENDS Integers, Sequences, SequencesExt

CONSTANTS
    ShellClient,    \* requests that may be under way at once
    MaxShells,      \* bound on the commands ever run
    MaxShellOps,    \* bound on requests
    MaxOutput,      \* bound on the chunks a command and its child print
    MaxLog,         \* max_log_bytes, in chunks; not 0
    MaxInline,      \* max_inline_read_bytes, in chunks; not 0
    MaxCompleted    \* max_completed_shell_sessions; not 0

LogHead == 1        \* _LOG_HEAD_KEEP_BYTES

ASSUME ShellAssumption ==
    /\ MaxShells \in Nat \ {0} /\ MaxShellOps \in Nat /\ MaxOutput \in Nat
    /\ MaxLog \in Nat /\ MaxLog > LogHead /\ MaxOutput >= MaxLog
    /\ MaxInline \in Nat \ {0} /\ MaxCompleted \in Nat \ {0}

Shell == 1..MaxShells
Chunk == 1..MaxOutput

VARIABLES
    session,    \* session[s]: ShellSession, its process and its log
    ended,      \* sessions that have ended and are kept, the oldest first
    request,    \* request[c]: what the client's request waits for
    shellOps,   \* how many requests have come
    told        \* told[s]: what the answers about s have said (history)

shellVars == <<session, ended, request, shellOps, told>>

Session ==
    [status    : {"none", "running", "ended"}, \* "ended": completed or failed
     process   : {"live", "child", "gone"},    \* "child": only one in the background is left
     doomed    : BOOLEAN,                      \* SIGKILL was sent
     at        : Nat,                          \* the file offset of those who print
     size      : Nat,                          \* output_size()
     delivered : Nat,                          \* last_delivered_offset
     capped    : BOOLEAN,                      \* log_capped
     guard     : {"watches", "kills", "truncates", "done"}, \* _size_guard
     kept      : BOOLEAN]                      \* in _sessions, and on disk

ShellRequest == [op : {"none", "run", "await"}, s : Shell, start : Nat]
NoRequest == [op |-> "none", s |-> 1, start |-> 0]

\* times: in how many answers each chunk was; noted: chunks an answer said it
\* leaves out; ending: an answer has said that s has ended; atExit: what the
\* command had printed when it exited; alone: no two requests read s at once.
Told == [times : [Chunk -> Nat], noted : SUBSET Chunk, ending : BOOLEAN,
         atExit : Nat, alone : BOOLEAN]

NoSession == [status |-> "none", process |-> "gone", doomed |-> FALSE, at |-> 0, size |-> 0,
              delivered |-> 0, capped |-> FALSE, guard |-> "done", kept |-> FALSE]
NewSession == [NoSession EXCEPT !.status = "running", !.process = "live",
                             !.guard = "watches", !.kept = TRUE]

ShellSessionsInit ==
    /\ session = [s \in Shell |-> NoSession]
    /\ ended = <<>>
    /\ request = [c \in ShellClient |-> NoRequest]
    /\ shellOps = 0
    /\ told = [s \in Shell |-> [times |-> [i \in Chunk |-> 0], noted |-> {}, ending |-> FALSE,
                                atExit |-> 0, alone |-> TRUE]]

IsRunning(s) == session[s].status = "running"
Comes(c) == request[c].op = "none" /\ shellOps < MaxShellOps /\ shellOps' = shellOps + 1

-----------------------------------------------------------------------------
(* Requests *)

\* _gc forgets those that ended first: the ones past the TTL, and so many of the
\* others that MaxCompleted are left.
Forgets(n) == n \in Max({0, Len(ended) - MaxCompleted})..Len(ended)

\* run.  Nobody else knows the session before its process is started.
RunShell(c) ==
    /\ Comes(c)
    /\ \E s \in Shell, n \in 0..Len(ended) :
          /\ session[s].status = "none" /\ \A r \in Shell : r < s => session[r].status # "none"
          /\ Forgets(n)
          /\ ended' = SubSeq(ended, n + 1, Len(ended))
          /\ session' = [r \in Shell |->
                IF r = s THEN NewSession
                ELSE [session[r] EXCEPT !.kept = @ /\ \A i \in 1..n : ended[i] # r]]
          /\ request' = [request EXCEPT ![c] = [op |-> "run", s |-> s, start |-> 0]]
    /\ UNCHANGED told

\* await_shell, up to its first poll.
Since_Now(s) == session[s].size
Since(s) == session[s].delivered
AwaitShell(c, s) ==
    /\ session[s].kept /\ Comes(c)
    /\ request' = [request EXCEPT ![c] = [op |-> "await", s |-> s, start |-> Since(s)]]
    /\ told' = [told EXCEPT ![s].alone = @ /\ \A d \in ShellClient :
                                request[d].op = "none" \/ request[d].s # s]
    /\ UNCHANGED <<session, ended>>

\* The end of run and of await_shell: the log from start on, or its last
\* MaxInline chunks and a note; a session whose log was cut has a note too.
Reads(s) == IF session[s].kept THEN session[s].size ELSE 0
ShellAnswers(c) ==
    LET s    == request[c].s
        end  == Reads(s)
        from == Max({request[c].start, end - MaxInline})
    IN  /\ request[c].op # "none"
        /\ request' = [request EXCEPT ![c] = NoRequest]
        /\ session' = [session EXCEPT ![s].delivered = end]
        /\ told' = [told EXCEPT
              ![s].times = [i \in Chunk |-> IF i \in (from + 1)..end THEN @[i] + 1 ELSE @[i]],
              ![s].noted = @ \cup IF session[s].capped THEN Chunk ELSE (request[c].start + 1)..from,
              ![s].ending = @ \/ (session[s].kept /\ ~IsRunning(s))]
        /\ UNCHANGED <<ended, shellOps>>

\* SIGKILL to the process group.  Where the command has exited and left a child,
\* it is hit only if nobody has reaped the command yet.
ShellKilled(s) == {[session[s] EXCEPT !.doomed = hit] :
                 hit \in IF session[s].process = "live" THEN {TRUE} ELSE BOOLEAN}

\* kill; waiting for the exit delays its reply only.
KillShell(c, s) ==
    /\ session[s].kept /\ IsRunning(s) /\ Comes(c)
    /\ \E k \in ShellKilled(s) : session' = [session EXCEPT ![s] = k]
    /\ UNCHANGED <<ended, request, told>>

-----------------------------------------------------------------------------
(* The tasks beside a command *)

\* _await_exit
ExitSeen(s) ==
    /\ IsRunning(s) /\ session[s].process # "live"
    /\ session' = [session EXCEPT ![s].status = "ended"]
    /\ ended' = Append(ended, s)
    /\ UNCHANGED <<request, shellOps, told>>

\* _size_guard kills through kill, which waits for the exit but no longer than 2 s.
TooLong(s) == session[s].size >= MaxLog
GuardKills(s) ==
    /\ session[s].guard = "watches" /\ IsRunning(s) /\ TooLong(s)
    /\ \E k \in ShellKilled(s) :
          session' = [session EXCEPT ![s] = [k EXCEPT !.capped = TRUE, !.guard = "kills"]]
    /\ UNCHANGED <<ended, request, shellOps, told>>
GuardWaited(s) ==
    /\ session[s].guard = "kills"
    /\ session' = [session EXCEPT ![s].guard = "truncates"]
    /\ UNCHANGED <<ended, request, shellOps, told>>
GuardEnds(s) ==
    /\ session[s].guard = "watches" /\ ~IsRunning(s)
    /\ session' = [session EXCEPT ![s].guard = "done"]
    /\ UNCHANGED <<ended, request, shellOps, told>>

\* _truncate_log: the head, and a note one chunk long.
Truncates(s) ==
    /\ session[s].guard = "truncates"
    /\ session' = [session EXCEPT ![s].guard = "done",
                                  ![s].size = IF session[s].kept THEN LogHead + 1 ELSE @]
    /\ UNCHANGED <<ended, request, shellOps, told>>

-----------------------------------------------------------------------------
(* Commands (external) *)

\* The log is not opened for appending: they print where they were.
Prints(s) ==
    /\ session[s].kept /\ session[s].process # "gone" /\ session[s].at < MaxOutput
    /\ session' = [session EXCEPT ![s].at = @ + 1,
                                  ![s].size = Max({@, session[s].at + 1})]
    /\ UNCHANGED <<ended, request, shellOps, told>>

Exits(s, left) ==
    /\ session[s].process = "live"
    /\ session' = [session EXCEPT ![s].process = left]
    /\ told' = [told EXCEPT ![s].atExit = session[s].at]
    /\ UNCHANGED <<ended, request, shellOps>>
Dies(s) == session[s].doomed /\ Exits(s, "gone")
ChildDies(s) ==
    /\ session[s].doomed /\ session[s].process = "child"
    /\ session' = [session EXCEPT ![s].process = "gone"]
    /\ UNCHANGED <<ended, request, shellOps, told>>

-----------------------------------------------------------------------------
ShellTask(s) == ExitSeen(s) \/ GuardKills(s) \/ GuardWaited(s) \/ GuardEnds(s) \/ Truncates(s)

ShellSessionsNext ==
    \/ \E c \in ShellClient : \/ RunShell(c) \/ ShellAnswers(c)
                              \/ \E s \in Shell : AwaitShell(c, s) \/ KillShell(c, s)
    \/ \E s \in Shell : \/ ShellTask(s) \/ Prints(s) \/ Dies(s) \/ ChildDies(s)
                        \/ \E left \in {"child", "gone"} : ~session[s].doomed /\ Exits(s, left)

ShellSessionsSpec == ShellSessionsInit /\ [][ShellSessionsNext]_shellVars

-----------------------------------------------------------------------------
(* Properties *)

\* Every variable has its type.
ShellTypeOK ==
    /\ session \in [Shell -> Session]
    /\ ended \in Seq(Shell)
    /\ request \in [ShellClient -> ShellRequest]
    /\ shellOps \in Nat
    /\ told \in [Shell -> Told]

\* Output is not skipped: what comes before the offset was in an answer, or an
\* answer said that it leaves it out.
NothingSkipped(s) ==
    \A i \in Chunk : i <= session[s].delivered => told[s].times[i] > 0 \/ i \in told[s].noted
\* Requests that come one after the other get nothing twice, unless the log was cut.
NothingTwice(s) ==
    told[s].alone /\ ~session[s].capped => \A i \in Chunk : told[s].times[i] <= 1
\* Once an answer said that the command has ended, all it had printed was given.
EndIsComplete(s) ==
    told[s].ending => \A i \in 1..told[s].atExit : told[s].times[i] > 0 \/ i \in told[s].noted
\* The output of a session reaches its readers once and whole, over run, any
\* await_shell, kills and the guard's cut, until _gc forgets the session
\* (shell.py, last_delivered_offset).
OutputGivenOnce ==
    \A s \in Shell : session[s].kept => NothingSkipped(s) /\ NothingTwice(s) /\ EndIsComplete(s)
=============================================================================
