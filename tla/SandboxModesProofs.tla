------------------------- MODULE SandboxModesProofs -------------------------
(***************************************************************************)
(* Proofs about the server in a sandbox: the output of a shell session     *)
(* reaches its readers once and whole (ShellSessions); every kernel is in  *)
(* the pool or on its way, and nobody reads a client that was replaced     *)
(* (KernelPool).  Then about the modes in which the server is checked next *)
(* to the manager of sandboxes (MCSandboxModes): every mode is a behaviour *)
(* of the three, and what is left out of a mode is a setting of the        *)
(* manager, with which its invariant is the one of SandboxLifecycleProofs. *)
(* For any clients, commands, outputs, cells, kernels, requests,           *)
(* sandboxes, containers, limits and bounds.                               *)
(***************************************************************************)
EXTENDS MCSandboxModes, SandboxLifecycleProofs

-----------------------------------------------------------------------------
(* Shell sessions: the inductive invariant *)

\* What holds of a session and what was said of it, by themselves.
\*   - A session not yet run was not spoken of; one in whose process the command
\*     still lives is running.
\*   - An uncut log reaches as far as was printed and delivered, and while no two
\*     requests read it at once nothing beyond the offset was given.
\*   - The guard that has killed has marked the log as capped.
Given(T, i) == T.times[i] > 0 \/ i \in T.noted
Sound(S, T) ==
    /\ S.at <= MaxOutput /\ S.size <= MaxOutput /\ T.atExit <= S.at
    /\ S.status = "none" => /\ ~S.kept /\ ~T.ending /\ T.atExit = 0
                            /\ \A i \in Chunk : T.times[i] = 0
    /\ S.status # "running" => S.process # "live"
    /\ T.ending => S.status = "ended" /\ \A i \in 1..T.atExit : Given(T, i)
    /\ S.guard \in {"kills", "truncates"} => S.capped
    /\ S.kept /\ ~S.capped => S.at <= S.size /\ S.delivered <= S.size
    /\ S.kept /\ ~S.capped /\ T.alone => \A i \in Chunk : i > S.delivered => T.times[i] = 0
    /\ ~S.capped /\ T.alone => \A i \in Chunk : T.times[i] <= 1
    /\ \A i \in Chunk : i <= S.delivered => Given(T, i)

\* A request under way is for a session that was run; what comes before the offset
\* it has read was given; and the offset is still that if the request is alone.
Asked(q, S, T) ==
    /\ S.status # "none"
    /\ \A i \in Chunk : i <= q.start => Given(T, i)
    /\ T.alone => q.start = S.delivered
OneAtATime ==
    \A c, d \in ShellClient :
        /\ request[c].op # "none" /\ request[d].op # "none" /\ request[c].s = request[d].s
        /\ told[request[c].s].alone
        => c = d

ShellInv ==
    /\ ShellTypeOK
    /\ \A s \in Shell : Sound(session[s], told[s])
    /\ \A c \in ShellClient : request[c].op # "none" =>
          Asked(request[c], session[request[c].s], told[request[c].s])
    /\ OneAtATime

-----------------------------------------------------------------------------
(* Shell sessions: the steps *)

\* The larger of two numbers.
LEMMA LargerOfTwo ==
    ASSUME NEW a \in Int, NEW b \in Int
    PROVE  Max({a, b}) = IF a >= b THEN a ELSE b
<1> DEFINE m == IF a >= b THEN a ELSE b
<1>1. m \in {a, b} /\ \A y \in {a, b} : m >= y
  OBVIOUS
<1>2. \A x \in {a, b} : (\A y \in {a, b} : x >= y) => x = m
  OBVIOUS
<1> QED
  BY <1>1, <1>2 DEF Max

\* A step of the tasks beside a command or of the command itself: the session changes,
\* what was said and asked does not.
LEMMA SessionStep ==
    ASSUME ShellInv, NEW s \in Shell, NEW n \in Session,
           session' = [session EXCEPT ![s] = n], ended' \in Seq(Shell),
           UNCHANGED <<request, told>>, shellOps' \in Nat,
           Sound(n, told[s]), n.delivered = session[s].delivered,
           n.status = "none" => session[s].status = "none"
    PROVE  ShellInv'
<1>1. ShellTypeOK'
  BY DEF ShellInv, ShellTypeOK
<1>2. \A r \in Shell : session'[r] = IF r = s THEN n ELSE session[r]
  BY DEF ShellInv, ShellTypeOK
<1>3. \A r \in Shell : Sound(session[r], told[r])'
  BY <1>2 DEF ShellInv
<1>4. ASSUME NEW c \in ShellClient, request'[c].op # "none"
      PROVE  Asked(request[c], session[request[c].s], told[request[c].s])'
  <2>1. request[c].s \in Shell
    BY DEF ShellInv, ShellTypeOK, ShellRequest
  <2> QED
    BY <1>2, <1>4, <2>1 DEF ShellInv, Asked
<1>5. OneAtATime'
  BY DEF ShellInv, OneAtATime
<1> QED
  BY <1>1, <1>3, <1>4, <1>5 DEF ShellInv

\* SIGKILL, whether it hits the child or not.
LEMMA KilledSound ==
    ASSUME ShellInv, NEW s \in Shell, NEW k \in ShellKilled(s)
    PROVE  /\ k \in Session /\ Sound(k, told[s])
           /\ k.delivered = session[s].delivered /\ k.status = session[s].status
           /\ \E b \in BOOLEAN : k = [session[s] EXCEPT !.doomed = b]
<1>1. session[s] \in Session /\ Sound(session[s], told[s])
  BY DEF ShellInv, ShellTypeOK
<1>2. PICK b \in BOOLEAN : k = [session[s] EXCEPT !.doomed = b]
  BY DEF ShellKilled
<1> QED
  BY <1>1, <1>2 DEF Session, Sound

\* kill does no more than that.
LEMMA KillStep ==
    ASSUME ShellInv, NEW c \in ShellClient, NEW s \in Shell, KillShell(c, s)
    PROVE  ShellInv'
<1>1. PICK k \in ShellKilled(s) : session' = [session EXCEPT ![s] = k]
  BY DEF KillShell
<1>2. /\ IsRunning(s) /\ UNCHANGED <<ended, request, told>>
      /\ ended \in Seq(Shell) /\ shellOps' \in Nat
  BY DEF KillShell, Comes, ShellInv, ShellTypeOK
<1> QED
  BY <1>1, <1>2, KilledSound, SessionStep DEF IsRunning

\* The exit is seen, or the guard acts: it kills, marks the log, and cuts it.
LEMMA TaskStep ==
    ASSUME ShellInv, NEW s \in Shell, ShellTask(s)
    PROVE  ShellInv'
<1> USE ShellAssumption
<1>1. /\ session[s] \in Session /\ Sound(session[s], told[s]) /\ ended \in Seq(Shell)
      /\ shellOps \in Nat /\ told[s] \in Told
  BY DEF ShellInv, ShellTypeOK
<1>2. CASE ExitSeen(s)
  <2> DEFINE n == [session[s] EXCEPT !.status = "ended"]
  <2>1. session' = [session EXCEPT ![s] = n] /\ UNCHANGED <<request, told, shellOps>>
    BY <1>2 DEF ExitSeen
  <2>2. n \in Session /\ n.delivered = session[s].delivered /\ n.status = "ended"
    BY <1>1 DEF Session
  <2>3. Sound(n, told[s])
    BY <1>1, <1>2 DEF ExitSeen, IsRunning, Session, Sound
  <2>4. ended' \in Seq(Shell)
    BY <1>1, <1>2, AppendProperties DEF ExitSeen
  <2> HIDE DEF n
  <2> QED
    BY <1>1, <2>1, <2>2, <2>3, <2>4, SessionStep
<1>3. CASE GuardKills(s)
  <2>1. PICK k \in ShellKilled(s) :
             session' = [session EXCEPT ![s] = [k EXCEPT !.capped = TRUE, !.guard = "kills"]]
    BY <1>3 DEF GuardKills
  <2>2. /\ k \in Session /\ Sound(k, told[s])
        /\ k.delivered = session[s].delivered /\ k.status = "running"
        /\ UNCHANGED <<request, told, shellOps, ended>>
    BY <1>3, KilledSound DEF GuardKills, IsRunning
  <2> DEFINE n == [k EXCEPT !.capped = TRUE, !.guard = "kills"]
  <2>3. n \in Session /\ n.delivered = session[s].delivered /\ n.status = "running"
    BY <2>2 DEF Session
  <2>4. Sound(n, told[s])
    BY <2>2 DEF Session, Sound
  <2>5. session' = [session EXCEPT ![s] = n]
    BY <2>1
  <2> HIDE DEF n
  <2> QED
    BY <1>1, <2>2, <2>3, <2>4, <2>5, SessionStep
<1>4. CASE GuardWaited(s) \/ GuardEnds(s)
  <2>1. PICK g \in {"truncates", "done"} :
           /\ session' = [session EXCEPT ![s] = [session[s] EXCEPT !.guard = g]]
           /\ g = "truncates" => session[s].guard = "kills"
    BY <1>4 DEF GuardWaited, GuardEnds
  <2>2. UNCHANGED <<request, told, shellOps, ended>>
    BY <1>4 DEF GuardWaited, GuardEnds
  <2> DEFINE n == [session[s] EXCEPT !.guard = g]
  <2>3. n \in Session /\ n.delivered = session[s].delivered /\ n.status = session[s].status
    BY <1>1 DEF Session
  <2>4. Sound(n, told[s])
    BY <1>1, <2>1 DEF Session, Sound
  <2>5. session' = [session EXCEPT ![s] = n]
    BY <2>1
  <2> HIDE DEF n
  <2> QED
    BY <1>1, <2>2, <2>3, <2>4, <2>5, SessionStep
<1>5. CASE Truncates(s)
  <2>0. PICK z \in {session[s].size, LogHead + 1} :
           z = IF session[s].kept THEN LogHead + 1 ELSE session[s].size
    OBVIOUS
  <2>1. session' = [session EXCEPT ![s] = [session[s] EXCEPT !.guard = "done", !.size = z]]
    BY <1>5, <2>0, session \in [Shell -> Session] DEF Truncates, ShellInv, ShellTypeOK
  <2>2. session[s].capped /\ UNCHANGED <<request, told, shellOps, ended>>
    BY <1>1, <1>5 DEF Truncates, Sound
  <2>3. z \in Nat /\ z <= MaxOutput
    BY <1>1, <2>1 DEF Session, Sound, LogHead
  <2> DEFINE n == [session[s] EXCEPT !.guard = "done", !.size = z]
  <2>4. n \in Session /\ n.delivered = session[s].delivered /\ n.status = session[s].status
    BY <1>1, <2>3 DEF Session
  <2>5. Sound(n, told[s])
    BY <1>1, <2>2, <2>3 DEF Session, Sound
  <2>6. session' = [session EXCEPT ![s] = n]
    BY <2>1
  <2> HIDE DEF n
  <2> QED
    BY <1>1, <2>2, <2>4, <2>5, <2>6, SessionStep
<1> QED
  BY <1>2, <1>3, <1>4, <1>5 DEF ShellTask

\* Printing moves the place and, where it is the end, the size.
LEMMA PrintStep ==
    ASSUME ShellInv, NEW s \in Shell, Prints(s)
    PROVE  ShellInv'
<1> USE ShellAssumption
<1>1. /\ session[s] \in Session /\ Sound(session[s], told[s]) /\ ended \in Seq(Shell)
      /\ shellOps \in Nat /\ told[s] \in Told
  BY DEF ShellInv, ShellTypeOK
<1>2. session[s].size \in Int /\ session[s].at + 1 \in Int
  BY <1>1 DEF Session
<1>a. PICK a \in Nat : a = session[s].at + 1
  BY <1>1 DEF Session
<1>b. PICK z \in Nat : z = IF session[s].size >= a THEN session[s].size ELSE a
  BY <1>1, <1>a DEF Session
<1>c. Max({session[s].size, session[s].at + 1}) = z
  BY <1>2, <1>a, <1>b, LargerOfTwo
<1>3. session' = [session EXCEPT ![s] = [session[s] EXCEPT !.at = a, !.size = z]]
  BY <1>a, <1>c, session \in [Shell -> Session] DEF Prints, ShellInv, ShellTypeOK
<1>4. /\ session[s].at < MaxOutput /\ UNCHANGED <<request, told, shellOps, ended>>
  BY DEF Prints
<1> DEFINE n == [session[s] EXCEPT !.at = a, !.size = z]
<1>5. n \in Session /\ n.delivered = session[s].delivered /\ n.status = session[s].status
  BY <1>1 DEF Session
<1>6. Sound(n, told[s])
  <2>1. /\ n.at = a /\ n.size = z /\ n.status = session[s].status
        /\ n.process = session[s].process /\ n.kept = session[s].kept
        /\ n.guard = session[s].guard /\ n.capped = session[s].capped
        /\ n.delivered = session[s].delivered
    BY <1>1 DEF Session
  <2>2. /\ a \in Int /\ z \in Int /\ session[s].at \in Int /\ session[s].size \in Int
        /\ session[s].delivered \in Int /\ told[s].atExit \in Int /\ MaxOutput \in Int
    BY <1>1 DEF Session, Told
  <2>3. /\ a <= MaxOutput /\ session[s].at <= a /\ a <= z /\ session[s].size <= z
        /\ (session[s].size <= MaxOutput => z <= MaxOutput)
    BY <1>a, <1>b, <1>4, <2>2
  <2> HIDE DEF n
  <2> QED
    BY <1>1, <2>1, <2>2, <2>3 DEF Sound
<1>7. session' = [session EXCEPT ![s] = n]
  BY <1>3
<1> HIDE DEF n
<1> QED
  BY <1>1, <1>4, <1>5, <1>6, <1>7, SessionStep

\* The child of a killed command dies.
LEMMA ChildStep ==
    ASSUME ShellInv, NEW s \in Shell, ChildDies(s)
    PROVE  ShellInv'
<1>1. /\ session[s] \in Session /\ Sound(session[s], told[s]) /\ ended \in Seq(Shell)
      /\ shellOps \in Nat
  BY DEF ShellInv, ShellTypeOK
<1> DEFINE n == [session[s] EXCEPT !.process = "gone"]
<1>2. n \in Session /\ n.delivered = session[s].delivered /\ n.status = session[s].status
  BY <1>1 DEF Session
<1>3. Sound(n, told[s])
  BY <1>1 DEF Session, Sound
<1>4. session' = [session EXCEPT ![s] = n] /\ UNCHANGED <<request, told, shellOps, ended>>
  BY DEF ChildDies
<1> HIDE DEF n
<1> QED
  BY <1>1, <1>2, <1>3, <1>4, SessionStep

\* The command exits: what it had printed is noted.
LEMMA ExitStep ==
    ASSUME ShellInv, NEW s \in Shell, NEW left \in {"child", "gone"}, Exits(s, left)
    PROVE  ShellInv'
<1> USE ShellAssumption
<1>1. /\ session[s] \in Session /\ Sound(session[s], told[s]) /\ ended \in Seq(Shell)
      /\ shellOps \in Nat /\ told[s] \in Told
      /\ session \in [Shell -> Session] /\ told \in [Shell -> Told]
  BY DEF ShellInv, ShellTypeOK
<1> DEFINE n == [session[s] EXCEPT !.process = left]
           t == [told[s] EXCEPT !.atExit = session[s].at]
<1>2. /\ session[s].process = "live" /\ UNCHANGED <<request, shellOps, ended>>
      /\ session' = [session EXCEPT ![s] = n] /\ told' = [told EXCEPT ![s] = t]
  BY <1>1 DEF Exits
<1>3. n \in Session /\ n.delivered = session[s].delivered /\ n.status = session[s].status
  BY <1>1 DEF Session
<1>4. t \in Told /\ t.times = told[s].times /\ t.noted = told[s].noted /\ t.alone = told[s].alone
  BY <1>1 DEF Told, Session
<1>5. Sound(n, t)
  BY <1>1, <1>2 DEF Session, Told, Sound, Given
<1> HIDE DEF n, t
<1>6. ShellTypeOK'
  BY <1>1, <1>2, <1>3, <1>4 DEF ShellInv, ShellTypeOK
<1>7. \A r \in Shell : /\ session'[r] = IF r = s THEN n ELSE session[r]
                       /\ told'[r] = IF r = s THEN t ELSE told[r]
  BY <1>1, <1>2
<1>8. \A r \in Shell : Sound(session[r], told[r])'
  BY <1>5, <1>7 DEF ShellInv
<1>9. ASSUME NEW c \in ShellClient, request'[c].op # "none"
      PROVE  Asked(request[c], session[request[c].s], told[request[c].s])'
  <2>1. request[c].s \in Shell
    BY DEF ShellInv, ShellTypeOK, ShellRequest
  <2> QED
    BY <1>2, <1>3, <1>4, <1>7, <1>9, <2>1 DEF ShellInv, Asked, Given
<1>10. OneAtATime'
  <2>1. \A c \in ShellClient : request[c].s \in Shell
    BY DEF ShellInv, ShellTypeOK, ShellRequest
  <2> QED
    BY <1>2, <1>4, <1>7, <2>1 DEF ShellInv, OneAtATime
<1> QED
  BY <1>6, <1>8, <1>9, <1>10 DEF ShellInv

\* A command is run: a session that nobody asked for or spoke of; _gc forgets others.
LEMMA RunStep ==
    ASSUME ShellInv, NEW c \in ShellClient, RunShell(c)
    PROVE  ShellInv'
<1> USE ShellAssumption
<1>1. /\ ended \in Seq(Shell) /\ shellOps \in Nat /\ request \in [ShellClient -> ShellRequest]
      /\ session \in [Shell -> Session] /\ told \in [Shell -> Told]
  BY DEF ShellInv, ShellTypeOK
<1>2. PICK s \in Shell, n \in 0..Len(ended) :
         /\ session[s].status = "none"
         /\ ended' = SubSeq(ended, n + 1, Len(ended))
         /\ session' = [r \in Shell |->
               IF r = s THEN NewSession
               ELSE [session[r] EXCEPT !.kept = @ /\ \A i \in 1..n : ended[i] # r]]
         /\ request' = [request EXCEPT ![c] = [op |-> "run", s |-> s, start |-> 0]]
  BY DEF RunShell
<1>3. request[c].op = "none" /\ UNCHANGED told /\ shellOps' = shellOps + 1
  BY DEF RunShell, Comes
<1>4. /\ NewSession \in Session /\ NewSession.status = "running"
      /\ NewSession.at = 0 /\ NewSession.size = 0 /\ NewSession.delivered = 0
      /\ ~NewSession.capped /\ NewSession.guard = "watches"
  <2>1. /\ NoSession \in Session /\ NoSession.at = 0 /\ NoSession.size = 0
        /\ NoSession.delivered = 0 /\ ~NoSession.capped
    BY DEF NoSession, Session
  <2> QED
    BY <2>1 DEF NewSession, Session
<1>5. [op |-> "run", s |-> s, start |-> 0] \in ShellRequest
  BY DEF ShellRequest
<1>6. \A r \in Shell : r # s => \E b \in BOOLEAN : /\ b => session[r].kept
                                                   /\ session'[r] = [session[r] EXCEPT !.kept = b]
  <2> SUFFICES ASSUME NEW r \in Shell, r # s
               PROVE  \E b \in BOOLEAN : /\ b => session[r].kept
                                         /\ session'[r] = [session[r] EXCEPT !.kept = b]
    OBVIOUS
  <2> DEFINE b == session[r].kept /\ \A i \in 1..n : ended[i] # r
  <2>1. b \in BOOLEAN /\ (b => session[r].kept)
    BY <1>1 DEF Session
  <2>2. session'[r] = [session[r] EXCEPT !.kept = b]
    BY <1>2
  <2> HIDE DEF b
  <2> QED
    BY <2>1, <2>2
<1>7. session'[s] = NewSession
  BY <1>2
<1>8. session' \in [Shell -> Session]
  <2>1. \A r \in Shell : session'[r] \in Session
    <3> SUFFICES ASSUME NEW r \in Shell, r # s PROVE session'[r] \in Session
      BY <1>4, <1>7
    <3>1. PICK b \in BOOLEAN : session'[r] = [session[r] EXCEPT !.kept = b]
      BY <1>6
    <3> QED
      BY <1>1, <3>1 DEF Session
  <2>2. session' = [r \in Shell |-> session'[r]]
    BY <1>2
  <2> QED
    BY <2>1, <2>2
<1>9. ended' \in Seq(Shell)
  BY <1>1, <1>2, SubSeqProperties
<1>10. ShellTypeOK'
  <2>1. request' \in [ShellClient -> ShellRequest]
    BY <1>1, <1>2, <1>5
  <2>2. shellOps' \in Nat /\ told' \in [Shell -> Told]
    BY <1>1, <1>3
  <2> QED
    BY <1>8, <1>9, <2>1, <2>2 DEF ShellTypeOK
<1>11. \A r \in Shell : Sound(session[r], told[r])'
  <2> SUFFICES ASSUME NEW r \in Shell PROVE Sound(session'[r], told[r])
    BY <1>3
  <2>1. Sound(session[r], told[r]) /\ session[r] \in Session /\ told[r] \in Told
    BY <1>1 DEF ShellInv
  <2>2. CASE r = s
    BY <1>2, <1>4, <1>7, <2>1, <2>2 DEF Sound, Told, Chunk
  <2>3. CASE r # s
    <3>1. PICK b \in BOOLEAN : (b => session[r].kept) /\ session'[r] = [session[r] EXCEPT !.kept = b]
      BY <1>6, <2>3
    <3> QED
      BY <2>1, <3>1 DEF Sound, Session
  <2> QED
    BY <2>2, <2>3
<1>12. \A d \in ShellClient : d # c => request'[d] = request[d]
                               /\ (request[d].op # "none" => request[d].s # s)
  BY <1>1, <1>2 DEF ShellInv, Asked
<1>13. ASSUME NEW d \in ShellClient, request'[d].op # "none"
       PROVE  Asked(request[d], session[request[d].s], told[request[d].s])'
  <2>1. CASE d = c
    <3>1. request'[d] = [op |-> "run", s |-> s, start |-> 0]
      BY <1>1, <1>2, <2>1
    <3> QED
      BY <1>2, <1>3, <1>4, <1>7, <3>1 DEF Asked, Chunk
  <2>2. CASE d # c
    <3>1. /\ request'[d] = request[d] /\ request[d].s \in Shell /\ request[d].s # s
          /\ Asked(request[d], session[request[d].s], told[request[d].s])
      BY <1>1, <1>12, <1>13, <2>2 DEF ShellInv, ShellRequest
    <3>2. PICK b \in BOOLEAN : session'[request[d].s] = [session[request[d].s] EXCEPT !.kept = b]
      BY <1>6, <3>1
    <3> QED
      BY <1>1, <1>3, <3>1, <3>2 DEF Asked, Session
  <2> QED
    BY <2>1, <2>2
<1>14. OneAtATime'
  BY <1>1, <1>2, <1>3, <1>12 DEF ShellInv, OneAtATime
<1> QED
  BY <1>10, <1>11, <1>13, <1>14 DEF ShellInv

\* A request to await a session reads its offset; it is alone only if no other waits.
LEMMA AwaitStep ==
    ASSUME ShellInv, NEW c \in ShellClient, NEW s \in Shell, AwaitShell(c, s)
    PROVE  ShellInv'
<1>1. /\ ended \in Seq(Shell) /\ shellOps \in Nat /\ request \in [ShellClient -> ShellRequest]
      /\ session \in [Shell -> Session] /\ told \in [Shell -> Told]
      /\ Sound(session[s], told[s])
  BY DEF ShellInv, ShellTypeOK
<1> DEFINE others == \A d \in ShellClient : request[d].op = "none" \/ request[d].s # s
<1>2. PICK a \in BOOLEAN : a = (told[s].alone /\ others)
  BY <1>1 DEF Told
<1> DEFINE t == [told[s] EXCEPT !.alone = a]
<1>3. /\ session[s].kept /\ request[c].op = "none" /\ shellOps' = shellOps + 1
      /\ request' = [request EXCEPT ![c] = [op |-> "await", s |-> s, start |-> session[s].delivered]]
      /\ told' = [told EXCEPT ![s] = t] /\ UNCHANGED <<session, ended>>
  BY <1>1, <1>2 DEF AwaitShell, Comes, Since
<1>4. t \in Told /\ (a => told[s].alone)
      /\ t.times = told[s].times /\ t.noted = told[s].noted
      /\ t.ending = told[s].ending /\ t.atExit = told[s].atExit /\ t.alone = a
  BY <1>1, <1>2 DEF Told
<1> HIDE DEF t
<1>5. ShellTypeOK'
  BY <1>1, <1>3, <1>4 DEF ShellTypeOK, ShellRequest, Session
<1>6. \A r \in Shell : told'[r] = IF r = s THEN t ELSE told[r]
  BY <1>1, <1>3
<1>7. \A r \in Shell : Sound(session[r], told[r])'
  <2>1. Sound(session[s], t)
    BY <1>1, <1>4 DEF Sound, Given
  <2> QED
    BY <1>3, <1>6, <2>1 DEF ShellInv
<1>8. ASSUME NEW d \in ShellClient, request'[d].op # "none"
      PROVE  Asked(request[d], session[request[d].s], told[request[d].s])'
  <2>1. CASE d = c
    <3>1. request'[d] = [op |-> "await", s |-> s, start |-> session[s].delivered]
      BY <1>1, <1>3, <2>1
    <3>2. session[s].status # "none" /\ \A i \in Chunk : i <= session[s].delivered => Given(t, i)
      BY <1>1, <1>3, <1>4 DEF Sound, Given
    <3> QED
      BY <1>3, <1>6, <3>1, <3>2 DEF Asked
  <2>2. CASE d # c
    <3>1. /\ request'[d] = request[d] /\ request[d].s \in Shell
          /\ Asked(request[d], session[request[d].s], told[request[d].s])
      BY <1>1, <1>3, <1>8, <2>2 DEF ShellInv, ShellRequest
    <3>2. \/ told'[request[d].s] = told[request[d].s]
          \/ request[d].s = s /\ told'[request[d].s] = t
      BY <1>6, <3>1
    <3> QED
      BY <1>3, <1>4, <3>1, <3>2 DEF Asked, Given
  <2> QED
    BY <2>1, <2>2
<1>9. OneAtATime'
  <2> SUFFICES ASSUME NEW d \in ShellClient, NEW e \in ShellClient,
                      request'[d].op # "none", request'[e].op # "none",
                      request'[d].s = request'[e].s, told'[request'[d].s].alone
               PROVE  d = e
    BY DEF OneAtATime
  <2>1. \A x \in ShellClient : request[x].s \in Shell
    BY <1>1 DEF ShellRequest
  <2>2. request'[c].s = s /\ \A x \in ShellClient : x # c => request'[x] = request[x]
    BY <1>1, <1>3
  <2>3. CASE d # c /\ e # c
    BY <1>4, <1>6, <2>1, <2>2, <2>3 DEF ShellInv, OneAtATime
  <2>4. CASE d = c \/ e = c
    <3>1. request'[d].s = s /\ request'[e].s = s /\ a
      BY <1>4, <1>6, <2>2, <2>4
    <3>2. others
      BY <1>2, <3>1
    <3> QED
      BY <2>2, <2>4, <3>1, <3>2
  <2> QED
    BY <2>3, <2>4
<1> QED
  BY <1>5, <1>7, <1>8, <1>9 DEF ShellInv

\* An answer.  What it gives lies beyond the offset its request read, up to the size;
\* what it leaves out is noted.
LEMMA AnswerStep ==
    ASSUME ShellInv, NEW c \in ShellClient, ShellAnswers(c)
    PROVE  ShellInv'
<1> USE ShellAssumption
<1> DEFINE s == request[c].s
           S == session[s]
           T == told[s]
           start == request[c].start
<1>1. /\ ended \in Seq(Shell) /\ shellOps \in Nat /\ request \in [ShellClient -> ShellRequest]
      /\ session \in [Shell -> Session] /\ told \in [Shell -> Told]
      /\ s \in Shell /\ S \in Session /\ T \in Told /\ start \in Nat
      /\ Sound(S, T) /\ request[c].op # "none" /\ Asked(request[c], S, T)
  BY DEF ShellInv, ShellTypeOK, ShellRequest, ShellAnswers
<1>2. PICK end \in Nat : end = Reads(s) /\ end = (IF S.kept THEN S.size ELSE 0)
  BY <1>1 DEF Reads, Session
<1>3. end <= MaxOutput
  BY <1>1, <1>2 DEF Sound, Session
<1>4. PICK from \in Nat : /\ from = Max({start, end - MaxInline})
                          /\ from = IF start >= end - MaxInline THEN start ELSE end - MaxInline
  BY <1>1, LargerOfTwo
<1>5. from >= start /\ (from # start => from < end)
  <2>1. from = IF start >= end - MaxInline THEN start ELSE end - MaxInline
    BY <1>4
  <2>2. start \in Nat /\ end \in Nat /\ MaxInline \in Nat /\ MaxInline > 0
    BY <1>1
  <2> HIDE DEF start
  <2> QED
    BY <2>1, <2>2
<1> DEFINE times == [i \in Chunk |-> IF i \in (from + 1)..end THEN T.times[i] + 1 ELSE T.times[i]]
           noted == T.noted \cup IF S.capped THEN Chunk ELSE (start + 1)..from
           ending == T.ending \/ (S.kept /\ ~IsRunning(s))
<1>6. /\ request' = [request EXCEPT ![c] = NoRequest] /\ UNCHANGED <<ended, shellOps>>
      /\ session' = [session EXCEPT ![s] = [S EXCEPT !.delivered = end]]
      /\ told' = [told EXCEPT ![s] = [T EXCEPT !.times = times, !.noted = noted,
                                               !.ending = ending]]
  BY <1>1, <1>2, <1>4 DEF ShellAnswers
<1>7. /\ times \in [Chunk -> Nat] /\ noted \in SUBSET Chunk /\ ending \in BOOLEAN
  <2>1. times \in [Chunk -> Nat]
    BY <1>1 DEF Told, Chunk
  <2>2. from # start => from <= MaxOutput
    BY <1>3, <1>5
  <2>3. (start + 1)..from \subseteq Chunk
    BY <1>1, <1>5, <2>2 DEF Chunk
  <2>4. noted \in SUBSET Chunk
    BY <1>1, <2>3 DEF Told
  <2>5. ending \in BOOLEAN
    BY <1>1 DEF Told, Session
  <2> QED
    BY <2>1, <2>4, <2>5
<1> DEFINE n == [S EXCEPT !.delivered = end]
           t == [T EXCEPT !.times = times, !.noted = noted, !.ending = ending]
<1>8. /\ \A i \in Chunk : /\ times[i] >= T.times[i]
                          /\ i > from /\ i <= end => times[i] = T.times[i] + 1
                          /\ ~(i > from /\ i <= end) => times[i] = T.times[i]
      /\ T.noted \subseteq noted
      /\ S.capped => noted = Chunk
      /\ \A i \in Chunk : i > start /\ i <= from => i \in noted
  BY <1>1, <1>7 DEF Told, Chunk
<1>9. ending = (T.ending \/ (S.kept /\ S.status # "running"))
  BY DEF IsRunning
<1> HIDE DEF times, noted, ending
<1>10. n \in Session /\ t \in Told
  BY <1>1, <1>7 DEF Session, Told
<1>11. /\ n.status = S.status /\ n.process = S.process /\ n.at = S.at /\ n.size = S.size
       /\ n.delivered = end /\ n.capped = S.capped /\ n.guard = S.guard /\ n.kept = S.kept
       /\ t.times = times /\ t.noted = noted /\ t.ending = ending
       /\ t.atExit = T.atExit /\ t.alone = T.alone
  BY <1>1 DEF Session, Told
<1>12. /\ request' = [request EXCEPT ![c] = NoRequest]
       /\ session' = [session EXCEPT ![s] = n] /\ told' = [told EXCEPT ![s] = t]
  BY <1>6
<1> HIDE DEF n, t
<1>13. \A i \in Chunk : Given(T, i) => Given(t, i)
  BY <1>1, <1>7, <1>8, <1>11 DEF Given, Told
<1>14. \A i \in Chunk : i <= end => Given(t, i)
  <2> SUFFICES ASSUME NEW i \in Chunk, i <= end PROVE Given(t, i)
    OBVIOUS
  <2>0. i \in Nat
    BY DEF Chunk
  <2>1. CASE i <= start
    BY <1>1, <1>13, <2>1 DEF Asked
  <2>2. CASE i > start /\ i <= from
    BY <1>8, <1>11, <2>2 DEF Given
  <2>3. CASE i > from
    <3>1. times[i] = T.times[i] + 1 /\ T.times[i] \in Nat
      BY <1>1, <1>8, <2>3 DEF Told
    <3> QED
      BY <1>11, <3>1 DEF Given
  <2> QED
    BY <1>1, <2>0, <2>1, <2>2, <2>3
<1>15. T.alone => start = S.delivered
  BY <1>1 DEF Asked
<1>16. ASSUME S.kept, ~S.capped, T.alone, NEW i \in Chunk, i > end PROVE times[i] = 0
  <2>1. S.delivered <= end
    BY <1>1, <1>2, <1>16 DEF Sound
  <2>2. i > S.delivered
    BY <1>1, <1>16, <2>1 DEF Chunk, Session
  <2>3. T.times[i] = 0
    BY <1>1, <1>16, <2>2 DEF Sound
  <2> QED
    BY <1>8, <1>16, <2>3 DEF Chunk
<1>17. ASSUME ~S.capped, T.alone, NEW i \in Chunk PROVE times[i] <= 1
  <2>1. T.times[i] \in Nat /\ T.times[i] <= 1 /\ i \in Nat
    BY <1>1, <1>17 DEF Sound, Told, Chunk
  <2>2. CASE i > from /\ i <= end
    <3>1. S.kept
      BY <1>2, <2>1, <2>2 DEF Chunk
    <3>2. i > S.delivered
      BY <1>1, <1>5, <1>15, <1>17, <2>1, <2>2
    <3>3. T.times[i] = 0
      BY <1>1, <1>17, <3>1, <3>2 DEF Sound
    <3> QED
      BY <1>8, <2>2, <3>3
  <2>3. CASE ~(i > from /\ i <= end)
    BY <1>8, <2>1, <2>3
  <2> QED
    BY <2>2, <2>3
<1>18. ASSUME ending PROVE S.status = "ended" /\ \A i \in 1..T.atExit : Given(t, i)
  <2>1. T.atExit \in Nat /\ T.atExit <= S.at /\ S.at <= MaxOutput /\ S.at \in Nat
    BY <1>1 DEF Sound, Told, Session
  <2>2. 1..T.atExit \subseteq Chunk
    BY <2>1 DEF Chunk
  <2>3. CASE T.ending
    BY <1>1, <1>13, <2>2, <2>3 DEF Sound
  <2>4. CASE S.kept /\ S.status # "running"
    <3>1. S.status = "ended"
      BY <1>1, <2>4 DEF Sound, Session
    <3>2. CASE S.capped
      BY <1>8, <1>11, <2>2, <3>1, <3>2 DEF Given
    <3>3. CASE ~S.capped
      <4>1. S.at <= end
        BY <1>1, <1>2, <2>4, <3>3 DEF Sound
      <4>2. \A i \in 1..T.atExit : i <= end
        BY <2>1, <4>1
      <4> QED
        BY <1>14, <2>2, <3>1, <4>2
    <3> QED
      BY <3>2, <3>3
  <2> QED
    BY <1>9, <1>18, <2>3, <2>4
<1>19. Sound(n, t)
  <2>1. S.status = "none" => /\ ~S.kept /\ ~T.ending /\ ~ending /\ T.atExit = 0
                             /\ \A i \in Chunk : times[i] = 0
    BY <1>1 DEF Asked
  <2>2. S.kept /\ ~S.capped => S.at <= S.size /\ end <= S.size
    BY <1>1, <1>2 DEF Sound, Session
  <2> QED
    BY <1>1, <1>11, <1>14, <1>16, <1>17, <1>18, <2>1, <2>2 DEF Sound
<1>20. ShellTypeOK'
  BY <1>1, <1>6, <1>10, <1>12 DEF ShellTypeOK, NoRequest, ShellRequest, Shell
<1>21. \A r \in Shell : /\ session'[r] = IF r = s THEN n ELSE session[r]
                        /\ told'[r] = IF r = s THEN t ELSE told[r]
  BY <1>1, <1>12
<1>22. \A r \in Shell : Sound(session[r], told[r])'
  BY <1>19, <1>21 DEF ShellInv
<1>23. \A d \in ShellClient : request'[d] = IF d = c THEN NoRequest ELSE request[d]
  BY <1>1, <1>12
<1>24. ASSUME NEW d \in ShellClient, request'[d].op # "none"
       PROVE  Asked(request[d], session[request[d].s], told[request[d].s])'
  <2>1. d # c /\ request'[d] = request[d] /\ request[d].s \in Shell
        /\ Asked(request[d], session[request[d].s], told[request[d].s])
    BY <1>1, <1>23, <1>24 DEF NoRequest, ShellInv, ShellRequest
  <2>2. CASE request[d].s = s
    <3>1. ~T.alone
      BY <1>1, <1>24, <2>1, <2>2 DEF ShellInv, OneAtATime
    <3> QED
      BY <1>11, <1>13, <1>21, <2>1, <2>2, <3>1 DEF Asked
  <2>3. CASE request[d].s # s
    BY <1>21, <2>1, <2>3
  <2> QED
    BY <2>2, <2>3
<1>25. OneAtATime'
  <2>1. \A d \in ShellClient : request[d].s \in Shell
    BY <1>1 DEF ShellRequest
  <2> QED
    BY <1>11, <1>21, <1>23, <2>1 DEF ShellInv, OneAtATime, NoRequest
<1> QED
  BY <1>20, <1>22, <1>24, <1>25 DEF ShellInv

-----------------------------------------------------------------------------
(* Shell sessions: the theorem *)

\* No session, no request, nothing said.
LEMMA ShellStarts == ShellSessionsInit => ShellInv
<1> SUFFICES ASSUME ShellSessionsInit PROVE ShellInv
  OBVIOUS
<1> USE ShellAssumption
<1> DEFINE t == [times |-> [i \in Chunk |-> 0], noted |-> {}, ending |-> FALSE,
                 atExit |-> 0, alone |-> TRUE]
<1>1. ShellTypeOK
  <2>1. t \in Told
    BY DEF Told
  <2>2. NoSession \in Session
    BY DEF NoSession, Session
  <2>3. <<>> \in Seq(Shell)
    BY EmptySeq
  <2>4. 1 \in Shell
    BY DEF Shell
  <2> QED
    BY <2>1, <2>2, <2>3, <2>4 DEF ShellSessionsInit, ShellTypeOK, NoRequest, ShellRequest
<1>2. \A s \in Shell : session[s] = NoSession /\ told[s] = t
  BY DEF ShellSessionsInit
<1>3. Sound(NoSession, t)
  BY DEF Sound, NoSession, Chunk, Given
<1>4. \A c \in ShellClient : request[c].op = "none"
  BY DEF ShellSessionsInit, NoRequest
<1> HIDE DEF t
<1> QED
  BY <1>1, <1>2, <1>3, <1>4 DEF ShellInv, OneAtATime

\* Every step keeps the invariant.
LEMMA ShellSteps == ShellInv /\ [ShellSessionsNext]_shellVars => ShellInv'
<1> SUFFICES ASSUME ShellInv, [ShellSessionsNext]_shellVars PROVE ShellInv'
  OBVIOUS
<1>1. CASE UNCHANGED shellVars
  <2>1. UNCHANGED <<session, ended, request, shellOps, told>>
    BY <1>1 DEF shellVars
  <2> QED
    BY <2>1 DEF ShellInv, ShellTypeOK, OneAtATime, Asked
<1>2. CASE ShellSessionsNext
  <2>1. CASE \E c \in ShellClient : \/ RunShell(c) \/ ShellAnswers(c)
                                    \/ \E s \in Shell : AwaitShell(c, s) \/ KillShell(c, s)
    BY <2>1, RunStep, AnswerStep, AwaitStep, KillStep
  <2>2. CASE \E s \in Shell : \/ ShellTask(s) \/ Prints(s) \/ Dies(s) \/ ChildDies(s)
                              \/ \E left \in {"child", "gone"} : ~session[s].doomed /\ Exits(s, left)
    BY <2>2, TaskStep, PrintStep, ExitStep, ChildStep DEF Dies
  <2> QED
    BY <1>2, <2>1, <2>2 DEF ShellSessionsNext
<1> QED
  BY <1>1, <1>2

\* The invariant gives what the readers are promised.
LEMMA SoundIsGiven == ShellInv => OutputGivenOnce
BY DEF ShellInv, Sound, Given, OutputGivenOnce, NothingSkipped, NothingTwice, EndIsComplete

\* Readers of a session get its output once and whole, over run, any await_shell, kills
\* and the guard's cut, for any number of clients and commands (shell.py,
\* last_delivered_offset).
THEOREM OutputReachesReaders == ShellSessionsSpec => []OutputGivenOnce
BY ShellStarts, ShellSteps, SoundIsGiven, PTL DEF ShellSessionsSpec

\* Every session, request and reader of a shell keeps its type, for any number of them.
THEOREM ShellTypes == ShellSessionsSpec => []ShellTypeOK
<1>1. ShellInv => ShellTypeOK
  BY DEF ShellInv
<1> QED
  BY <1>1, ShellStarts, ShellSteps, PTL DEF ShellSessionsSpec
-----------------------------------------------------------------------------
(* Kernels: the inductive invariant *)

KernelTypes ==
    /\ entries \in Seq(KernelId) /\ used \in 0..MaxStarts
    /\ managed \subseteq 1..used /\ alive \subseteq 1..used
    /\ caller \in [Caller -> CallerState]
    /\ cells \in [KernelId -> Seq(Caller)] /\ waiting \in [KernelId -> Seq(Caller)]
    /\ client \in [KernelId -> [gen : Nat, open : BOOLEAN]]
    /\ holder \in [KernelId -> Caller \cup {Nobody}] /\ poolLock \in Caller \cup {Nobody}

\* Who holds an entry's lock is where the code holds it, and at that kernel.
MayHold == HoldsLock \cup {"shutdown"}
LocksExact ==
    /\ \A k \in KernelId : holder[k] # Nobody =>
          caller[holder[k]].k = k /\ caller[holder[k]].pc \in MayHold
    /\ \A c \in Caller : caller[c].pc \in HoldsLock =>
          caller[c].k \in KernelId /\ holder[caller[c].k] = c

\* Who waits for it is queued there, once.
QueuesExact ==
    /\ \A k \in KernelId : \A i \in DOMAIN waiting[k] :
          /\ caller[waiting[k][i]].pc = "queued" /\ caller[waiting[k][i]].k = k
          /\ \A j \in DOMAIN waiting[k] : waiting[k][i] = waiting[k][j] => i = j
    /\ \A c \in Caller : caller[c].pc = "queued" =>
          caller[c].k \in KernelId /\ \E i \in DOMAIN waiting[caller[c].k] : waiting[caller[c].k][i] = c

\* The pool's lock is held throughout create.
Creating == {"evict", "evicting", "starting"}
CreatesAlone == \A c \in Caller : poolLock = c <=> caller[c].pc \in Creating

\* Requests that have passed get_or_create or the check of restart, and will take the
\* lock of their kernel's entry; nobody does so with a kernel that is being started.
Pursuing == {"preempt", "polling", "restarted", "queued", "rebuilding", "run", "input",
             "restart", "delete", "deleting", "shutdown"}
Pursues(r) == r.pc \in Pursuing \/ (r.pc = "ready" /\ r.op = "execute")
StartsUnseen ==
    \A c \in Caller : caller[c].pc = "starting" =>
        /\ Len(entries) < MaxKernels /\ ~InPool(caller[c].k)
        /\ \A d \in Caller : d # c /\ caller[d].k = caller[c].k => ~Pursues(caller[d])

\* Kernels that callers and entries name were started; a delete goes its own way.
Unplaced == {"new", "lookup", "create", "evict", "done"}
DeletePcs == {"lookup", "delete", "deleting", "queued", "shutdown", "done"}
PlaceOK(r, n) ==
    /\ r.k <= n
    /\ r.pc \notin Unplaced => r.k # NewKernel
    /\ r.op = "delete" => r.pc \in DeletePcs /\ (r.pc = "queued" => r.then = "shutdown")
    /\ r.op \in {"interrupt", "restart", "delete"} => r.k # NewKernel
    /\ r.pc = "new" => r.op = "execute"
PlacesOK ==
    /\ \A c \in Caller : PlaceOK(caller[c], used)
    /\ \A i \in DOMAIN entries : entries[i] <= used

KernelInv == /\ KernelTypes /\ LocksExact /\ QueuesExact /\ CreatesAlone /\ StartsUnseen
             /\ PlacesOK /\ ReaderKeepsClient /\ PoolHasEveryKernel

-----------------------------------------------------------------------------
(* Kernels: helpers *)

\* What others see of a request stays.
Unmoved(d) ==
    /\ caller'[d].op = caller[d].op /\ caller'[d].pc = caller[d].pc /\ caller'[d].k = caller[d].k
    /\ caller'[d].then = caller[d].then /\ caller'[d].reads = caller[d].reads
OnlyMoves(c) == caller' \in [Caller -> CallerState] /\ \A d \in Caller : d # c => Unmoved(d)
Pcs == {"new", "lookup", "create", "evict", "evicting", "starting", "ready",
        "preempt", "polling", "restarted", "queued", "rebuilding", "run", "input",
        "interrupt", "restart", "delete", "deleting", "shutdown", "done"}

\* A request goes on to another place.
LEMMA MovedForm ==
    ASSUME KernelTypes, NEW c \in Caller, NEW pc \in Pcs
    PROVE  /\ Moved(c, pc) \in [Caller -> CallerState]
           /\ Moved(c, pc)[c] = [caller[c] EXCEPT !.pc = pc]
           /\ Moved(c, pc)[c].pc = pc /\ Moved(c, pc)[c].op = caller[c].op
           /\ Moved(c, pc)[c].k = caller[c].k /\ Moved(c, pc)[c].then = caller[c].then
           /\ Moved(c, pc)[c].reads = caller[c].reads
           /\ \A d \in Caller : d # c => Moved(c, pc)[d] = caller[d]
<1>1. caller[c] \in CallerState /\ caller \in [Caller -> CallerState]
  BY DEF KernelTypes
<1>2. [caller[c] EXCEPT !.pc = pc] \in CallerState
  BY <1>1 DEF CallerState, Pcs
<1>3. [caller[c] EXCEPT !.pc = pc].pc = pc
  BY <1>1 DEF CallerState
<1> QED
  BY <1>1, <1>2, <1>3 DEF Moved, CallerState

\* A cell's fate changes nothing others see of its request.
LEMMA FateForm ==
    ASSUME NEW cs \in [Caller -> CallerState], NEW s, NEW fate \in {"none", "sent", "ended", "lost"}
    PROVE  /\ Fates(s, fate, cs) \in [Caller -> CallerState]
           /\ \A d \in Caller :
                 /\ Fates(s, fate, cs)[d].op = cs[d].op /\ Fates(s, fate, cs)[d].pc = cs[d].pc
                 /\ Fates(s, fate, cs)[d].k = cs[d].k /\ Fates(s, fate, cs)[d].then = cs[d].then
                 /\ Fates(s, fate, cs)[d].reads = cs[d].reads
<1>1. \A d \in Caller : cs[d] \in CallerState /\ [cs[d] EXCEPT !.fate = fate] \in CallerState
  BY DEF CallerState
<1> QED
  BY <1>1 DEF Fates, CallerState

\* A caller that moves, whatever becomes of cells.
LEMMA MovesOne ==
    ASSUME KernelTypes, NEW c \in Caller, NEW pc \in Pcs, NEW s,
           NEW fate \in {"none", "sent", "ended", "lost"},
           caller' \in {Moved(c, pc), Fates(s, fate, Moved(c, pc))}
    PROVE  /\ OnlyMoves(c) /\ caller'[c].pc = pc /\ caller'[c].op = caller[c].op
           /\ caller'[c].k = caller[c].k /\ caller'[c].then = caller[c].then
           /\ caller'[c].reads = caller[c].reads
<1> DEFINE m == Moved(c, pc)
<1>1. /\ m \in [Caller -> CallerState]
      /\ m[c].pc = pc /\ m[c].op = caller[c].op /\ m[c].k = caller[c].k
      /\ m[c].then = caller[c].then /\ m[c].reads = caller[c].reads
      /\ \A d \in Caller : d # c => m[d] = caller[d]
  BY MovedForm
<1> HIDE DEF m
<1>2. CASE caller' = m
  BY <1>1, <1>2 DEF OnlyMoves, Unmoved
<1>3. CASE caller' = Fates(s, fate, m)
  BY <1>1, <1>3, FateForm DEF OnlyMoves, Unmoved
<1> QED
  BY <1>2, <1>3 DEF m

\* SIGINT and the end of the process: cells stay typed, and fates are all that changes.
LEMMA Signals ==
    ASSUME KernelTypes, NEW c \in Caller, NEW pc \in Pcs, NEW k \in KernelId,
           SigInt(k, Moved(c, pc)) \/ Killed(k, Moved(c, pc))
    PROVE  /\ OnlyMoves(c) /\ caller'[c].pc = pc /\ caller'[c].op = caller[c].op
           /\ caller'[c].k = caller[c].k /\ caller'[c].then = caller[c].then
           /\ caller'[c].reads = caller[c].reads
           /\ cells' \in [KernelId -> Seq(Caller)]
<1>1. cells' \in [KernelId -> Seq(Caller)]
  BY EmptySeq DEF KernelTypes, SigInt, Killed
<1>2. \/ caller' = Moved(c, pc) \/ caller' = Fates(cells[k], "ended", Moved(c, pc))
      \/ caller' = Fates(cells[k], "lost", Moved(c, pc))
  BY DEF SigInt, Killed
<1>3. PICK fate \in {"none", "sent", "ended", "lost"} :
         caller' \in {Moved(c, pc), Fates(cells[k], fate, Moved(c, pc))}
  BY <1>2
<1> QED
  BY <1>1, <1>3, MovesOne

\* An id leaves the pool: others stay, and there is room for it again.
LEMMA PoppedRest ==
    ASSUME KernelTypes, NEW k
    PROVE  /\ Popped(k) \in Seq(KernelId)
           /\ Len(Popped(k)) = IF InPool(k) THEN Len(entries) - 1 ELSE Len(entries)
           /\ \A i \in DOMAIN Popped(k) : \E h \in DOMAIN entries : entries[h] = Popped(k)[i]
           /\ \A h \in DOMAIN entries : entries[h] # k =>
                 \E i \in DOMAIN Popped(k) : Popped(k)[i] = entries[h]
<1>1. entries \in Seq(KernelId) /\ Len(entries) \in Nat /\ DOMAIN entries = 1..Len(entries)
  BY LenProperties DEF KernelTypes
<1>2. CASE ~InPool(k)
  BY <1>1, <1>2 DEF Popped, InPool
<1>3. CASE InPool(k)
  <2>1. PICK p \in 1..Len(entries) :
           entries[p] = k /\ Popped(k) = SubSeq(entries, 1, p - 1) \o SubSeq(entries, p + 1, Len(entries))
    BY <1>1, <1>3 DEF Popped, RemoveAt, InPool
  <2>a. PICK n \in Nat : n = Len(entries)
    BY <1>1
  <2>2. n \in Nat /\ n = Len(entries) /\ p \in 1..n /\ p \in Int
    BY <2>1, <2>a
  <2> DEFINE a == SubSeq(entries, 1, p - 1)
             b == SubSeq(entries, p + 1, n)
  <2>3. /\ a \in Seq(KernelId) /\ Len(a) = p - 1
        /\ \A i \in 1..(p - 1) : a[i] = entries[i]
    <3>1. \A i \in 1..(p - 1) : entries[i] \in KernelId
      BY <1>1, <2>2
    <3>2. /\ SubSeq(entries, 1, p - 1) \in Seq(KernelId)
          /\ Len(SubSeq(entries, 1, p - 1)) = IF 1 <= p - 1 THEN (p - 1) - 1 + 1 ELSE 0
          /\ \A i \in 1..((p - 1) - 1 + 1) : SubSeq(entries, 1, p - 1)[i] = entries[1 + i - 1]
      BY <2>2, <3>1, SubSeqProperties
    <3> QED
      BY <2>2, <3>2
  <2>4. /\ b \in Seq(KernelId) /\ Len(b) = n - p
        /\ \A i \in 1..(n - p) : b[i] = entries[p + i]
    <3>1. \A i \in (p + 1)..n : entries[i] \in KernelId
      BY <1>1, <2>2
    <3>2. /\ SubSeq(entries, p + 1, n) \in Seq(KernelId)
          /\ Len(SubSeq(entries, p + 1, n)) = IF p + 1 <= n THEN n - (p + 1) + 1 ELSE 0
          /\ \A i \in 1..(n - (p + 1) + 1) : SubSeq(entries, p + 1, n)[i] = entries[(p + 1) + i - 1]
      BY <2>2, <3>1, SubSeqProperties
    <3> QED
      BY <2>2, <3>2
  <2>5. Popped(k) = a \o b
    BY <2>1, <2>2
  <2> HIDE DEF a, b
  <2>6. /\ a \o b \in Seq(KernelId) /\ Len(a \o b) = Len(a) + Len(b)
        /\ \A i \in 1..(Len(a) + Len(b)) : (a \o b)[i] = IF i <= Len(a) THEN a[i] ELSE b[i - Len(a)]
    BY <2>3, <2>4, ConcatProperties
  <2> DEFINE r == a \o b
  <2>7. r \in Seq(KernelId) /\ Len(r) = n - 1 /\ DOMAIN r = 1..(n - 1)
    <3>1. Len(r) = n - 1
      BY <2>2, <2>3, <2>4, <2>6
    <3> QED
      BY <2>6, <3>1, LenProperties
  <2>8. \A i \in 1..(n - 1) : r[i] = IF i < p THEN entries[i] ELSE entries[i + 1]
    <3> SUFFICES ASSUME NEW i \in 1..(n - 1)
                 PROVE  r[i] = IF i < p THEN entries[i] ELSE entries[i + 1]
      OBVIOUS
    <3>1. r[i] = IF i <= p - 1 THEN a[i] ELSE b[i - (p - 1)]
      BY <2>2, <2>3, <2>4, <2>6
    <3>2. CASE i < p
      BY <2>2, <2>3, <3>1, <3>2
    <3>3. CASE ~(i < p)
      <4>1. i - (p - 1) \in 1..(n - p) /\ p + (i - (p - 1)) = i + 1
        BY <2>2, <3>3
      <4> QED
        BY <2>2, <2>4, <3>1, <3>3, <4>1
    <3> QED
      BY <3>2, <3>3
  <2> HIDE DEF r
  <2>9. \A i \in 1..(n - 1) : \E h \in 1..n : entries[h] = r[i]
    <3> SUFFICES ASSUME NEW i \in 1..(n - 1) PROVE \E h \in 1..n : entries[h] = r[i]
      OBVIOUS
    <3>1. i \in 1..n /\ i + 1 \in 1..n
      BY <2>2
    <3> QED
      BY <2>8, <3>1
  <2>10. ASSUME NEW h \in 1..n, entries[h] # k
         PROVE  \E i \in 1..(n - 1) : r[i] = entries[h]
    <3>1. CASE h < p
      <4>1. h \in 1..(n - 1)
        BY <2>2, <3>1
      <4> QED
        BY <2>8, <3>1, <4>1
    <3>2. CASE h > p
      <4>1. h - 1 \in 1..(n - 1) /\ ~(h - 1 < p) /\ (h - 1) + 1 = h
        BY <2>2, <3>2
      <4> QED
        BY <2>8, <4>1
    <3>3. h # p
      BY <2>1, <2>2, <2>10
    <3> QED
      BY <2>2, <3>1, <3>2, <3>3
  <2> QED
    BY <1>1, <1>3, <2>2, <2>5, <2>7, <2>9, <2>10, ZenonT(30) DEF r
<1> QED
  BY <1>2, <1>3

-----------------------------------------------------------------------------
(* Kernels: what a step does to each part of the invariant *)

\* The entries' locks: those c has no part in stay ...
LEMMA LocksKept ==
    ASSUME KernelTypes, LocksExact, NEW c \in Caller, OnlyMoves(c), UNCHANGED holder,
           \A k \in KernelId : holder[k] # c, caller'[c].pc \notin HoldsLock
    PROVE  LocksExact'
<1>1. \A k \in KernelId : holder[k] # Nobody => holder[k] \in Caller /\ holder[k] # c
  BY DEF KernelTypes
<1> QED
  BY <1>1 DEF LocksExact, OnlyMoves, Unmoved

\* ... and one that is its own or free, it takes, keeps or releases.
LEMMA LockSet ==
    ASSUME KernelTypes, LocksExact, NEW c \in Caller, OnlyMoves(c), NEW k \in KernelId,
           NEW h \in {c, Nobody}, holder' = [holder EXCEPT ![k] = h], holder[k] \in {c, Nobody},
           caller[c].k = k, caller'[c].k = k,
           h = c => caller'[c].pc \in MayHold, caller'[c].pc \in HoldsLock => h = c
    PROVE  LocksExact' /\ holder' \in [KernelId -> Caller \cup {Nobody}]
<1>1. c # Nobody /\ \A j \in KernelId : holder[j] \in Caller \cup {Nobody}
  BY DEF KernelTypes, Caller, Nobody
<1>2. \A j \in KernelId : holder'[j] = IF j = k THEN h ELSE holder[j]
  BY DEF KernelTypes
<1>3. \A j \in KernelId : j # k => holder[j] # c
  BY <1>1 DEF LocksExact
<1>4. ASSUME NEW j \in KernelId, holder'[j] # Nobody
      PROVE  caller'[holder'[j]].k = j /\ caller'[holder'[j]].pc \in MayHold
  <2>1. CASE j = k
    BY <1>2, <1>4, <2>1
  <2>2. CASE j # k
    BY <1>1, <1>2, <1>3, <1>4, <2>2 DEF LocksExact, OnlyMoves, Unmoved
  <2> QED
    BY <2>1, <2>2
<1>5. ASSUME NEW d \in Caller, caller'[d].pc \in HoldsLock
      PROVE  caller'[d].k \in KernelId /\ holder'[caller'[d].k] = d
  <2>1. CASE d = c
    BY <1>2, <1>5, <2>1
  <2>2. CASE d # c
    <3>1. caller[d].k \in KernelId /\ holder[caller[d].k] = d /\ caller'[d].k = caller[d].k
      BY <1>5, <2>2 DEF LocksExact, OnlyMoves, Unmoved
    <3>2. d # Nobody
      BY DEF Caller, Nobody
    <3> QED
      BY <1>2, <2>2, <3>1, <3>2
  <2> QED
    BY <2>1, <2>2
<1>6. holder' \in [KernelId -> Caller \cup {Nobody}]
  BY DEF KernelTypes
<1> QED
  BY <1>4, <1>5, <1>6 DEF LocksExact

\* The queues: they stay ...
LEMMA QueuesKept ==
    ASSUME KernelTypes, QueuesExact, NEW c \in Caller, OnlyMoves(c), UNCHANGED waiting,
           caller[c].pc # "queued", caller'[c].pc # "queued"
    PROVE  QueuesExact'
<1>1. \A k \in KernelId : \A i \in DOMAIN waiting[k] : waiting[k][i] \in Caller /\ waiting[k][i] # c
  BY LenProperties DEF KernelTypes, QueuesExact
<1> QED
  BY <1>1 DEF QueuesExact, OnlyMoves, Unmoved

\* ... a request joins one ...
LEMMA QueueJoined ==
    ASSUME KernelTypes, QueuesExact, NEW c \in Caller, OnlyMoves(c), NEW k \in KernelId,
           waiting' = [waiting EXCEPT ![k] = Append(waiting[k], c)],
           caller[c].pc # "queued", caller'[c].pc = "queued", caller'[c].k = k
    PROVE  QueuesExact' /\ waiting' \in [KernelId -> Seq(Caller)]
<1>1. \A j \in KernelId : \A i \in DOMAIN waiting[j] : waiting[j][i] \in Caller /\ waiting[j][i] # c
  BY LenProperties DEF KernelTypes, QueuesExact
<1>2. PICK q \in Seq(Caller) : q = waiting[k]
  BY DEF KernelTypes
<1>3. PICK n \in Nat : n = Len(q) /\ DOMAIN q = 1..n
  BY LenProperties
<1>4. PICK p \in Seq(Caller) : p = Append(q, c)
  BY AppendProperties
<1>5. DOMAIN p = 1..(n + 1) /\ p[n + 1] = c /\ \A i \in 1..n : p[i] = q[i]
  BY <1>3, <1>4, AppendProperties, LenProperties
<1>6. \A j \in KernelId : waiting'[j] = IF j = k THEN p ELSE waiting[j]
  BY <1>2, <1>4 DEF KernelTypes
<1>7. waiting' \in [KernelId -> Seq(Caller)]
  BY <1>2, <1>4 DEF KernelTypes
<1>8. ASSUME NEW j \in KernelId, NEW i \in DOMAIN waiting'[j]
      PROVE  /\ caller'[waiting'[j][i]].pc = "queued" /\ caller'[waiting'[j][i]].k = j
             /\ \A h \in DOMAIN waiting'[j] : waiting'[j][i] = waiting'[j][h] => i = h
  <2>1. CASE j # k
    BY <1>1, <1>6, <1>8, <2>1 DEF QueuesExact, OnlyMoves, Unmoved
  <2>2. CASE j = k
    <3>1. i \in 1..(n + 1) /\ waiting'[j] = p
      BY <1>5, <1>6, <1>8, <2>2
    <3>2. \A h \in 1..(n + 1) : h \in 1..n \/ h = n + 1
      BY <1>3
    <3>3. \A h \in 1..n : /\ q[h] \in Caller /\ q[h] # c
                          /\ caller[q[h]].pc = "queued" /\ caller[q[h]].k = k
                          /\ \A g \in 1..n : q[g] = q[h] => g = h
      BY <1>1, <1>2, <1>3 DEF QueuesExact
    <3>4. CASE i = n + 1
      <4>1. p[i] = c /\ \A h \in 1..n : p[h] # c
        BY <1>5, <3>3, <3>4
      <4>2. \A h \in DOMAIN p : p[i] = p[h] => i = h
        BY <1>5, <3>2, <3>4, <4>1
      <4> QED
        BY <2>2, <3>1, <4>1, <4>2
    <3>5. CASE i \in 1..n
      <4>1. p[i] = q[i] /\ p[i] # c
        BY <1>5, <3>3, <3>5
      <4>2. caller'[p[i]].pc = "queued" /\ caller'[p[i]].k = k
        BY <3>3, <3>5, <4>1 DEF OnlyMoves, Unmoved
      <4>a. \A h \in 1..n : p[i] = p[h] => i = h
        BY <1>5, <3>3, <3>5, <4>1
      <4>3. \A h \in DOMAIN p : p[i] = p[h] => i = h
        BY <1>5, <3>2, <4>1, <4>a
      <4> QED
        BY <2>2, <3>1, <4>2, <4>3
    <3> QED
      BY <3>1, <3>2, <3>4, <3>5
  <2> QED
    BY <2>1, <2>2
<1>9. ASSUME NEW d \in Caller, caller'[d].pc = "queued"
      PROVE  /\ caller'[d].k \in KernelId
             /\ \E i \in DOMAIN waiting'[caller'[d].k] : waiting'[caller'[d].k][i] = d
  <2>1. CASE d = c
    <3>1. n + 1 \in DOMAIN p
      BY <1>3, <1>5
    <3> QED
      BY <1>5, <1>6, <2>1, <3>1
  <2>2. CASE d # c
    <3>1. caller[d].k \in KernelId /\ caller'[d].k = caller[d].k /\ caller[d].pc = "queued"
      BY <1>9, <2>2 DEF QueuesExact, OnlyMoves, Unmoved
    <3>2. PICK i \in DOMAIN waiting[caller[d].k] : waiting[caller[d].k][i] = d
      BY <3>1 DEF QueuesExact
    <3>3. CASE caller[d].k = k
      <4>1. i \in 1..n /\ q[i] = d
        BY <1>2, <1>3, <3>2, <3>3
      <4>2. i \in DOMAIN p /\ p[i] = d
        BY <1>3, <1>5, <4>1
      <4> QED
        BY <1>6, <3>1, <3>3, <4>2
    <3>4. CASE caller[d].k # k
      BY <1>6, <3>1, <3>2, <3>4
    <3> QED
      BY <3>3, <3>4
  <2> QED
    BY <2>1, <2>2
<1> QED
  BY <1>7, <1>8, <1>9 DEF QueuesExact

\* ... or the first one leaves it.
LEMMA QueueLeft ==
    ASSUME KernelTypes, QueuesExact, NEW c \in Caller, OnlyMoves(c), NEW k \in KernelId,
           waiting[k] # <<>>, waiting' = [waiting EXCEPT ![k] = Tail(waiting[k])],
           Head(waiting[k]) = c, caller'[c].pc # "queued"
    PROVE  QueuesExact' /\ waiting' \in [KernelId -> Seq(Caller)]
<1>2. PICK q \in Seq(Caller) : q = waiting[k] /\ q # <<>>
  BY DEF KernelTypes
<1>3. PICK n \in Nat : n = Len(q) - 1 /\ DOMAIN q = 1..(n + 1)
  <2>1. Len(q) \in Nat /\ Len(q) # 0 /\ DOMAIN q = 1..Len(q)
    BY <1>2, LenProperties, EmptySeq
  <2>2. Len(q) - 1 \in Nat /\ (Len(q) - 1) + 1 = Len(q)
    BY <2>1
  <2> QED
    BY <2>1, <2>2
<1>4. PICK p \in Seq(Caller) : p = Tail(q)
  BY <1>2, HeadTailProperties
<1>5. q[1] = c /\ DOMAIN p = 1..n /\ \A i \in 1..n : p[i] = q[i + 1]
  <2>1. q[1] = c
    BY <1>2 DEF Head
  <2>2. Len(p) = n /\ \A i \in 1..Len(p) : p[i] = q[i + 1]
    BY <1>2, <1>3, <1>4, HeadTailProperties, LenProperties
  <2> QED
    BY <1>4, <2>1, <2>2, LenProperties
<1>6. \A j \in KernelId : waiting'[j] = IF j = k THEN p ELSE waiting[j]
  BY <1>2, <1>4 DEF KernelTypes
<1>7. waiting' \in [KernelId -> Seq(Caller)]
  BY <1>2, <1>4 DEF KernelTypes
<1>a. \A h \in 1..(n + 1) : /\ q[h] \in Caller
                            /\ caller[q[h]].pc = "queued" /\ caller[q[h]].k = k
                            /\ \A g \in 1..(n + 1) : q[g] = q[h] => g = h
  BY <1>2, <1>3 DEF QueuesExact
<1>b. caller[c].pc = "queued" /\ caller[c].k = k
  BY <1>3, <1>5, <1>a
<1>8. ASSUME NEW j \in KernelId, NEW i \in DOMAIN waiting'[j]
      PROVE  /\ caller'[waiting'[j][i]].pc = "queued" /\ caller'[waiting'[j][i]].k = j
             /\ \A h \in DOMAIN waiting'[j] : waiting'[j][i] = waiting'[j][h] => i = h
  <2>1. CASE j # k
    <3>1. waiting'[j] = waiting[j] /\ waiting[j][i] \in Caller /\ waiting[j][i] # c
      BY <1>6, <1>8, <1>b, <2>1, LenProperties DEF KernelTypes, QueuesExact
    <3>2. /\ caller[waiting[j][i]].pc = "queued" /\ caller[waiting[j][i]].k = j
          /\ \A h \in DOMAIN waiting[j] : waiting[j][i] = waiting[j][h] => i = h
      BY <1>8, <3>1 DEF QueuesExact
    <3> QED
      BY <3>1, <3>2 DEF OnlyMoves, Unmoved
  <2>2. CASE j = k
    <3>1. waiting'[j] = p /\ i \in 1..n
      BY <1>5, <1>6, <1>8, <2>2
    <3>2. \A h \in 1..n : h + 1 \in 1..(n + 1) /\ h + 1 # 1 /\ 1 \in 1..(n + 1)
      BY <1>3
    <3>3. p[i] = q[i + 1] /\ p[i] # c /\ p[i] \in Caller
      BY <1>5, <1>a, <3>1, <3>2
    <3>4. caller'[p[i]].pc = "queued" /\ caller'[p[i]].k = k
      BY <1>a, <3>1, <3>2, <3>3 DEF OnlyMoves, Unmoved
    <3>5. \A h \in 1..n : p[i] = p[h] => i = h
      <4> SUFFICES ASSUME NEW h \in 1..n, p[i] = p[h] PROVE i = h
        OBVIOUS
      <4>1. q[i + 1] = q[h + 1]
        BY <1>5, <3>1
      <4>2. i + 1 = h + 1
        BY <1>a, <3>1, <3>2, <4>1
      <4> QED
        BY <3>1, <4>2
    <3> QED
      BY <1>5, <2>2, <3>1, <3>4, <3>5
  <2> QED
    BY <2>1, <2>2
<1>9. ASSUME NEW d \in Caller, caller'[d].pc = "queued"
      PROVE  /\ caller'[d].k \in KernelId
             /\ \E i \in DOMAIN waiting'[caller'[d].k] : waiting'[caller'[d].k][i] = d
  <2>1. d # c
    BY <1>9
  <2>2. caller[d].k \in KernelId /\ caller'[d].k = caller[d].k /\ caller[d].pc = "queued"
    BY <1>9, <2>1 DEF QueuesExact, OnlyMoves, Unmoved
  <2>3. PICK i \in DOMAIN waiting[caller[d].k] : waiting[caller[d].k][i] = d
    BY <2>2 DEF QueuesExact
  <2>4. CASE caller[d].k = k
    <3>1. i \in 1..(n + 1) /\ q[i] = d /\ i # 1
      BY <1>2, <1>3, <1>5, <2>1, <2>3, <2>4
    <3>2. i - 1 \in 1..n /\ (i - 1) + 1 = i
      BY <1>3, <3>1
    <3>3. i - 1 \in DOMAIN p /\ p[i - 1] = d
      BY <1>5, <3>1, <3>2
    <3> QED
      BY <1>6, <2>2, <2>4, <3>3
  <2>5. CASE caller[d].k # k
    BY <1>6, <2>2, <2>3, <2>5
  <2> QED
    BY <2>4, <2>5
<1> QED
  BY <1>7, <1>8, <1>9 DEF QueuesExact

\* Readers: those of clients that stay.
LEMMA ReadersKept ==
    ASSUME ReaderKeepsClient, NEW c \in Caller, OnlyMoves(c),
           \A d \in Caller : d # c /\ caller[d].pc \in {"run", "input"} =>
               client'[caller[d].k].gen = client[caller[d].k].gen,
           caller'[c].pc \in {"run", "input"} => caller'[c].reads = client'[caller'[c].k].gen
    PROVE  ReaderKeepsClient'
BY DEF ReaderKeepsClient, OnlyMoves, Unmoved

\* A request that carries a kernel in or out.
Carries(r, k) ==
    r.k = k /\ \/ r.pc \in {"evicting", "starting", "shutdown"}
               \/ r.op = "delete" /\ r.pc \in {"delete", "deleting", "queued"}

\* A step outside the pool: it leaves the entries and the pool's lock, and adds no kernel.
LEMMA LocalStep ==
    ASSUME KernelInv, NEW c \in Caller, OnlyMoves(c), UNCHANGED <<entries, used, poolLock>>,
           managed' \subseteq managed,
           cells' \in [KernelId -> Seq(Caller)], waiting' \in [KernelId -> Seq(Caller)],
           client' \in [KernelId -> [gen : Nat, open : BOOLEAN]],
           holder' \in [KernelId -> Caller \cup {Nobody}], alive' \subseteq 1..used,
           LocksExact', QueuesExact', ReaderKeepsClient',
           caller[c].pc \notin Creating, caller'[c].pc \notin Creating, PlaceOK(caller'[c], used),
           Pursues(caller'[c]) => \/ Pursues(caller[c]) /\ caller'[c].k = caller[c].k
                                  \/ InPool(caller'[c].k),
           \A k \in KernelId : Carries(caller[c], k) /\ k \in managed' => Carries(caller'[c], k)
    PROVE  KernelInv'
<1>1. KernelTypes'
  BY DEF KernelInv, KernelTypes, OnlyMoves
<1>2. CreatesAlone'
  BY DEF KernelInv, CreatesAlone, OnlyMoves, Unmoved
<1>3. StartsUnseen'
  <2> SUFFICES ASSUME NEW e \in Caller, caller'[e].pc = "starting"
               PROVE  /\ Len(entries) < MaxKernels /\ ~InPool(caller'[e].k)
                      /\ \A d \in Caller : d # e /\ caller'[d].k = caller'[e].k => ~Pursues(caller'[d])
    BY DEF StartsUnseen, InPool
  <2>1. e # c /\ caller[e].pc = "starting" /\ caller'[e].k = caller[e].k
    BY DEF Creating, OnlyMoves, Unmoved
  <2>2. /\ Len(entries) < MaxKernels /\ ~InPool(caller[e].k)
        /\ \A d \in Caller : d # e /\ caller[d].k = caller[e].k => ~Pursues(caller[d])
    BY <2>1 DEF KernelInv, StartsUnseen
  <2>3. ASSUME NEW d \in Caller, d # e, caller'[d].k = caller[e].k PROVE ~Pursues(caller'[d])
    <3>1. CASE d = c
      BY <2>1, <2>2, <2>3, <3>1
    <3>2. CASE d # c
      BY <2>2, <2>3, <3>2 DEF OnlyMoves, Unmoved, Pursues
    <3> QED
      BY <3>1, <3>2
  <2> QED
    BY <2>1, <2>2, <2>3
<1>4. PlacesOK'
  BY SMTT(30) DEF KernelInv, PlacesOK, PlaceOK, OnlyMoves, Unmoved
<1>5. PoolHasEveryKernel'
  <2>1. ASSUME NEW k \in managed', ~InPool(k) PROVE InTransit(k)'
    <3>1. k \in KernelId /\ k \in managed
      BY <2>1, KernelPoolAssumption DEF KernelInv, KernelTypes, KernelId
    <3>2. PICK d \in Caller : Carries(caller[d], k)
      BY <2>1, <3>1 DEF KernelInv, PoolHasEveryKernel, InTransit, Carries
    <3>3. Carries(caller'[d], k)
      BY <2>1, <3>1, <3>2 DEF Carries, OnlyMoves, Unmoved
    <3> QED
      BY <3>3 DEF InTransit, Carries
  <2> QED
    BY <2>1 DEF KernelInv, PoolHasEveryKernel, InPool
<1> QED
  BY <1>1, <1>2, <1>3, <1>4, <1>5 DEF KernelInv

-----------------------------------------------------------------------------
(* Kernels: steps with an entry's lock *)

\* c goes on with the lock of its kernel, which it holds or which is free.
LEMMA GoesOnForm ==
    ASSUME KernelInv, NEW c \in Caller, NEW then \in {"run", "rebuild", "restart", "shutdown"},
           caller[c].k \in KernelId, holder[caller[c].k] \in {c, Nobody}, GoesOn(c, then)
    PROVE  /\ OnlyMoves(c) /\ caller'[c].op = caller[c].op /\ caller'[c].k = caller[c].k
           /\ caller'[c].pc \in {"run", "done", "rebuilding", "restart", "shutdown"}
           /\ then = "shutdown" => caller'[c].pc = "shutdown"
           /\ caller'[c].then = caller[c].then
           /\ cells' \in [KernelId -> Seq(Caller)]
           /\ client' \in [KernelId -> [gen : Nat, open : BOOLEAN]]
           /\ holder' \in [KernelId -> Caller \cup {Nobody}]
           /\ LocksExact' /\ ReaderKeepsClient'
<1> DEFINE k == caller[c].k
<1>1. KernelTypes /\ LocksExact /\ ReaderKeepsClient /\ caller[c] \in CallerState
  BY DEF KernelInv, KernelTypes
<1>2. ASSUME NEW d \in Caller, d # c, caller[d].pc \in {"run", "input"}
      PROVE  caller[d].k # k /\ caller[d].k \in KernelId
  <2>1. d # Nobody /\ holder[caller[d].k] = d /\ caller[d].k \in KernelId
    BY <1>1, <1>2 DEF LocksExact, HoldsLock, Caller, Nobody
  <2> QED
    BY <1>2, <2>1
<1>3. CASE then = "run" /\ client[k].open
  <2>1. /\ holder' = [holder EXCEPT ![k] = c] /\ cells' = [cells EXCEPT ![k] = Append(cells[k], c)]
        /\ caller' = [caller EXCEPT ![c].pc = "run", ![c].fate = "sent", ![c].reads = client[k].gen]
        /\ UNCHANGED client
    BY <1>3 DEF GoesOn
  <2>2. client[k].gen \in Nat
    BY <1>1 DEF KernelTypes
  <2>3. /\ OnlyMoves(c) /\ caller'[c].op = caller[c].op /\ caller'[c].k = k
        /\ caller'[c].pc = "run" /\ caller'[c].reads = client[k].gen
        /\ caller'[c].then = caller[c].then
    BY <1>1, <2>1, <2>2 DEF KernelTypes, OnlyMoves, Unmoved, CallerState
  <2>4. LocksExact' /\ holder' \in [KernelId -> Caller \cup {Nobody}]
    BY <1>1, <2>1, <2>3, LockSet DEF MayHold, HoldsLock
  <2>5. ReaderKeepsClient'
    BY <1>1, <2>1, <2>3, ReadersKept
  <2>6. cells' \in [KernelId -> Seq(Caller)]
    BY <1>1, <2>1, AppendProperties DEF KernelTypes
  <2> QED
    BY <1>1, <1>3, <2>1, <2>3, <2>4, <2>5, <2>6 DEF KernelTypes
<1>4. CASE then = "run" /\ ~client[k].open
  <2>1. holder' = [holder EXCEPT ![k] = Nobody] /\ caller' = Moved(c, "done") /\ UNCHANGED <<cells, client>>
    BY <1>4 DEF GoesOn, Releases, MoveTo
  <2>2. OnlyMoves(c) /\ caller'[c].pc = "done" /\ caller'[c].op = caller[c].op /\ caller'[c].k = k
        /\ caller'[c].then = caller[c].then
    BY <1>1, <2>1, MovesOne DEF Pcs
  <2>a. c # Nobody /\ Nobody \in {c, Nobody} /\ "done" \notin HoldsLock
    BY DEF HoldsLock, Caller, Nobody
  <2>3. LocksExact' /\ holder' \in [KernelId -> Caller \cup {Nobody}]
    BY <1>1, <2>1, <2>2, <2>a, LockSet
  <2>4. ReaderKeepsClient'
    BY <1>1, <2>1, <2>2, ReadersKept
  <2> QED
    BY <1>1, <1>4, <2>1, <2>2, <2>3, <2>4 DEF KernelTypes
<1>5. CASE then = "rebuild"
  <2>1. /\ holder' = [holder EXCEPT ![k] = c] /\ caller' = Moved(c, "rebuilding") /\ UNCHANGED cells
        /\ Replaced(k)
    BY <1>5 DEF GoesOn, MoveTo
  <2>2. OnlyMoves(c) /\ caller'[c].pc = "rebuilding" /\ caller'[c].op = caller[c].op /\ caller'[c].k = k
        /\ caller'[c].then = caller[c].then
    BY <1>1, <2>1, MovesOne DEF Pcs
  <2>3. LocksExact' /\ holder' \in [KernelId -> Caller \cup {Nobody}]
    BY <1>1, <2>1, <2>2, LockSet DEF MayHold, HoldsLock
  <2>4. /\ client' \in [KernelId -> [gen : Nat, open : BOOLEAN]]
        /\ \A j \in KernelId : j # k => client'[j] = client[j]
    BY <1>1, <2>1 DEF KernelTypes, Replaced
  <2>5. ReaderKeepsClient'
    BY <1>1, <1>2, <2>2, <2>4, ReadersKept
  <2> QED
    BY <1>1, <1>5, <2>1, <2>2, <2>3, <2>4, <2>5 DEF KernelTypes
<1>6. CASE then \in {"restart", "shutdown"}
  <2>1. /\ holder' = [holder EXCEPT ![k] = c] /\ caller' = Moved(c, then) /\ UNCHANGED <<cells, client>>
    BY <1>6 DEF GoesOn, MoveTo
  <2>2. OnlyMoves(c) /\ caller'[c].pc = then /\ caller'[c].op = caller[c].op /\ caller'[c].k = k
        /\ caller'[c].then = caller[c].then
    BY <1>1, <1>6, <2>1, MovesOne DEF Pcs
  <2>3. LocksExact' /\ holder' \in [KernelId -> Caller \cup {Nobody}]
    BY <1>1, <1>6, <2>1, <2>2, LockSet DEF MayHold, HoldsLock
  <2>4. ReaderKeepsClient'
    BY <1>1, <1>6, <2>1, <2>2, ReadersKept
  <2> QED
    BY <1>1, <1>6, <2>1, <2>2, <2>3, <2>4 DEF KernelTypes
<1> QED
  BY <1>3, <1>4, <1>5, <1>6

\* A place outside of MayHold holds no lock.
LEMMA HoldsNone ==
    ASSUME KernelInv, NEW c \in Caller, caller[c].pc \notin MayHold
    PROVE  \A k \in KernelId : holder[k] # c
BY DEF KernelInv, LocksExact, Caller, Nobody

\* c asks for the lock of its kernel: it goes on with it, or waits.
LEMMA AcquireStep ==
    ASSUME KernelInv, NEW c \in Caller, NEW then \in {"run", "rebuild", "restart", "shutdown"},
           caller[c].k \in KernelId, caller[c].pc \notin MayHold \cup Creating \cup {"queued"},
           Pursues(caller[c]) \/ InPool(caller[c].k),
           caller[c].op = "delete" => then = "shutdown",
           Acquires(c, then), UNCHANGED <<entries, kernelVars, poolLock>>
    PROVE  KernelInv'
<1> DEFINE k == caller[c].k
<1>1. /\ KernelTypes /\ LocksExact /\ QueuesExact /\ ReaderKeepsClient /\ caller[c] \in CallerState
      /\ PlaceOK(caller[c], used) /\ UNCHANGED <<entries, managed, alive, used, poolLock>>
      /\ alive \subseteq 1..used /\ \A j \in KernelId : holder[j] # c
  BY HoldsNone DEF KernelInv, KernelTypes, PlacesOK, kernelVars
<1>2. ASSUME OnlyMoves(c), caller'[c].op = caller[c].op, caller'[c].k = k,
             caller'[c].pc \in {"queued", "run", "done", "rebuilding", "restart", "shutdown"},
             caller'[c].op = "delete" => caller'[c].pc \in {"queued", "shutdown"},
             caller'[c].op = "delete" /\ caller'[c].pc = "queued" => caller'[c].then = "shutdown"
      PROVE  /\ PlaceOK(caller'[c], used) /\ caller'[c].pc \notin Creating
             /\ \A j \in KernelId : Carries(caller[c], j) => Carries(caller'[c], j)
  <2>1. k # NewKernel /\ k <= used
    BY <1>1 DEF PlaceOK, KernelId, NewKernel
  <2>2. PlaceOK(caller'[c], used) /\ caller'[c].pc \notin Creating
    BY <1>2, <2>1 DEF PlaceOK, DeletePcs, Creating
  <2>3. \A j \in KernelId : Carries(caller[c], j) => Carries(caller'[c], j)
    BY <1>2 DEF Carries, MayHold, Creating
  <2> QED
    BY <2>2, <2>3
<1>3. CASE LockFree(k)
  <2>1. GoesOn(c, then) /\ UNCHANGED waiting /\ holder[k] \in {c, Nobody}
    BY <1>3 DEF Acquires, LockFree
  <2>2. /\ OnlyMoves(c) /\ caller'[c].op = caller[c].op /\ caller'[c].k = caller[c].k
        /\ caller'[c].pc \in {"run", "done", "rebuilding", "restart", "shutdown"}
        /\ then = "shutdown" => caller'[c].pc = "shutdown"
        /\ cells' \in [KernelId -> Seq(Caller)]
        /\ client' \in [KernelId -> [gen : Nat, open : BOOLEAN]]
        /\ holder' \in [KernelId -> Caller \cup {Nobody}]
        /\ LocksExact' /\ ReaderKeepsClient'
    BY <2>1, GoesOnForm
  <2>3. QueuesExact' /\ waiting' \in [KernelId -> Seq(Caller)]
    <3>1. caller'[c].pc # "queued"
      BY <2>2
    <3> QED
      BY <1>1, <2>1, <2>2, <3>1, QueuesKept DEF KernelTypes
  <2>4. /\ PlaceOK(caller'[c], used) /\ caller'[c].pc \notin Creating
        /\ \A j \in KernelId : Carries(caller[c], j) => Carries(caller'[c], j)
    BY <1>2, <2>2
  <2>5. InPool(k) => InPool(caller'[c].k)
    BY <2>2
  <2> QED
    BY <1>1, <2>2, <2>3, <2>4, <2>5, LocalStep
<1>4. CASE ~LockFree(k)
  <2>1. /\ waiting' = [waiting EXCEPT ![k] = Append(waiting[k], c)]
        /\ caller' = [caller EXCEPT ![c].pc = "queued", ![c].then = then]
        /\ UNCHANGED <<holder, cells, client>>
    BY <1>4 DEF Acquires
  <2>2. /\ OnlyMoves(c) /\ caller'[c].op = caller[c].op /\ caller'[c].k = k
        /\ caller'[c].pc = "queued" /\ caller'[c].then = then
    BY <1>1, <2>1 DEF KernelTypes, OnlyMoves, Unmoved, CallerState
  <2>3. QueuesExact' /\ waiting' \in [KernelId -> Seq(Caller)]
    BY <1>1, <2>1, <2>2, QueueJoined
  <2>4. LocksExact'
    BY <1>1, <2>1, <2>2, LocksKept DEF HoldsLock
  <2>5. ReaderKeepsClient'
    BY <1>1, <2>1, <2>2, ReadersKept
  <2>6. /\ PlaceOK(caller'[c], used) /\ caller'[c].pc \notin Creating
        /\ \A j \in KernelId : Carries(caller[c], j) => Carries(caller'[c], j)
    BY <1>2, <2>2
  <2>7. /\ cells' \in [KernelId -> Seq(Caller)] /\ holder' \in [KernelId -> Caller \cup {Nobody}]
        /\ client' \in [KernelId -> [gen : Nat, open : BOOLEAN]]
    BY <1>1, <2>1 DEF KernelTypes
  <2>8. InPool(k) => InPool(caller'[c].k)
    BY <2>2
  <2> QED
    BY <1>1, <2>2, <2>3, <2>4, <2>5, <2>6, <2>7, <2>8, LocalStep
<1> QED
  BY <1>3, <1>4

\* The requests that ask for it, and the first waiter, which gets it.
LEMMA AskStep ==
    ASSUME KernelInv, NEW c \in Caller,
           \/ SeesLockFree(c) \/ WantsRebuild(c) \/ DeleteWaits(c)
    PROVE  KernelInv'
<1>1. PlaceOK(caller[c], used) /\ caller[c] \in CallerState
  BY DEF KernelInv, KernelTypes, PlacesOK
<1>2. PICK then \in {"run", "rebuild", "restart", "shutdown"} :
         /\ Acquires(c, then) /\ UNCHANGED <<entries, kernelVars, poolLock>>
         /\ caller[c].pc \in {"polling", "restarted", "deleting"}
         /\ caller[c].pc = "deleting" => then = "shutdown"
  BY DEF SeesLockFree, WantsRebuild, DeleteWaits
<1>3. caller[c].k \in KernelId
  BY <1>1, <1>2 DEF PlaceOK, Unplaced, CallerState
<1>4. /\ caller[c].pc \notin MayHold \cup Creating \cup {"queued"} /\ Pursues(caller[c])
      /\ caller[c].op = "delete" => then = "shutdown"
  BY <1>1, <1>2 DEF MayHold, HoldsLock, Creating, Pursues, Pursuing, PlaceOK, DeletePcs
<1> QED
  BY <1>2, <1>3, <1>4, AcquireStep

\* A caller that queues for a kernel's lock gets it and goes on where it wanted to.
LEMMA GetsStep ==
    ASSUME KernelInv, NEW c \in Caller, GetsLock(c)
    PROVE  KernelInv'
<1> DEFINE k == caller[c].k
           then == caller[c].then
<1>1. /\ KernelTypes /\ LocksExact /\ QueuesExact /\ ReaderKeepsClient /\ caller[c] \in CallerState
      /\ PlaceOK(caller[c], used) /\ alive \subseteq 1..used
  BY DEF KernelInv, KernelTypes, PlacesOK
<1>2. /\ caller[c].pc = "queued" /\ Head(waiting[k]) = c /\ holder[k] = Nobody /\ GoesOn(c, then)
      /\ waiting' = [waiting EXCEPT ![k] = Tail(waiting[k])]
      /\ UNCHANGED <<entries, managed, alive, used, poolLock>>
  BY DEF GetsLock, kernelVars
<1>3. k \in KernelId /\ waiting[k] # <<>> /\ then \in {"run", "rebuild", "restart", "shutdown"}
  <2>1. k \in KernelId /\ \E i \in DOMAIN waiting[k] : waiting[k][i] = c
    BY <1>1, <1>2 DEF QueuesExact
  <2> QED
    BY <1>1, <2>1 DEF CallerState
<1>4. /\ OnlyMoves(c) /\ caller'[c].op = caller[c].op /\ caller'[c].k = k
      /\ caller'[c].pc \in {"run", "done", "rebuilding", "restart", "shutdown"}
      /\ then = "shutdown" => caller'[c].pc = "shutdown"
      /\ cells' \in [KernelId -> Seq(Caller)]
      /\ client' \in [KernelId -> [gen : Nat, open : BOOLEAN]]
      /\ holder' \in [KernelId -> Caller \cup {Nobody}]
      /\ LocksExact' /\ ReaderKeepsClient'
  BY <1>2, <1>3, GoesOnForm
<1>5. QueuesExact' /\ waiting' \in [KernelId -> Seq(Caller)]
  <2>1. caller'[c].pc # "queued"
    BY <1>4
  <2> QED
    BY <1>1, <1>2, <1>3, <1>4, <2>1, QueueLeft
<1>6. /\ PlaceOK(caller'[c], used) /\ caller'[c].pc \notin Creating /\ caller[c].pc \notin Creating
      /\ \A j \in KernelId : Carries(caller[c], j) => Carries(caller'[c], j)
  BY <1>1, <1>2, <1>4 DEF PlaceOK, Unplaced, DeletePcs, Carries, Creating
<1>7. Pursues(caller[c])
  BY <1>2 DEF Pursues, Pursuing
<1> QED
  BY <1>1, <1>2, <1>4, <1>5, <1>6, <1>7, LocalStep

\* A new cell: to a client that is gone, past a cell under way, or for the lock.
LEMMA EnterStep ==
    ASSUME KernelInv, NEW c \in Caller, Enters(c)
    PROVE  KernelInv'
<1>1. /\ KernelTypes /\ LocksExact /\ QueuesExact /\ ReaderKeepsClient /\ caller[c] \in CallerState
      /\ PlaceOK(caller[c], used) /\ alive \subseteq 1..used
  BY DEF KernelInv, KernelTypes, PlacesOK
<1>2. /\ caller[c].op = "execute" /\ caller[c].pc = "ready" /\ UNCHANGED <<entries, kernelVars, poolLock>>
      /\ Pursues(caller[c])
  BY DEF Enters, Pursues
<1>3. caller[c].k \in KernelId
  BY <1>1, <1>2 DEF PlaceOK, Unplaced, CallerState
<1>4. CASE Acquires(c, "run")
  BY <1>2, <1>3, <1>4, AcquireStep DEF MayHold, HoldsLock, Creating
<1>5. CASE /\ caller' = Moved(c, "done") \/ caller' = Moved(c, "preempt")
           /\ UNCHANGED <<cells, client, holder, waiting>>
  <2>1. PICK pc \in {"done", "preempt"} : caller' = Moved(c, pc)
    BY <1>5
  <2>2. OnlyMoves(c) /\ caller'[c].pc = pc /\ caller'[c].op = caller[c].op /\ caller'[c].k = caller[c].k
    BY <1>1, <2>1, MovesOne DEF Pcs
  <2>3. LocksExact'
    BY <1>1, <1>2, <1>5, <2>2, HoldsNone, LocksKept DEF MayHold, HoldsLock
  <2>4. QueuesExact'
    BY <1>1, <1>2, <1>5, <2>2, QueuesKept
  <2>5. ReaderKeepsClient'
    BY <1>1, <1>5, <2>2, ReadersKept
  <2>6. /\ PlaceOK(caller'[c], used) /\ caller'[c].pc \notin Creating /\ caller[c].pc \notin Creating
        /\ \A j \in KernelId : Carries(caller[c], j) => Carries(caller'[c], j)
    BY <1>1, <1>2, <2>2 DEF PlaceOK, Unplaced, Carries, Creating
  <2> QED
    BY <1>1, <1>2, <1>5, <2>2, <2>3, <2>4, <2>5, <2>6, LocalStep DEF KernelTypes, kernelVars
<1> QED
  BY <1>4, <1>5 DEF Enters, MoveTo, lockVars

-----------------------------------------------------------------------------
(* Kernels: steps of one request *)

\* A step that neither has to do with locks nor with the pool.
LEMMA WalkStep ==
    ASSUME KernelInv, NEW c \in Caller, OnlyMoves(c),
           UNCHANGED <<entries, managed, used, poolLock, client, holder, waiting>>,
           cells' \in [KernelId -> Seq(Caller)], alive' \subseteq 1..used,
           caller[c].pc \notin MayHold \cup Creating \cup {"queued"},
           caller'[c].pc \notin HoldsLock \cup Creating \cup {"queued"},
           PlaceOK(caller'[c], used),
           Pursues(caller'[c]) => \/ Pursues(caller[c]) /\ caller'[c].k = caller[c].k
                                  \/ InPool(caller'[c].k),
           \A k \in KernelId : Carries(caller[c], k) => Carries(caller'[c], k)
    PROVE  KernelInv'
<1>1. KernelTypes /\ LocksExact /\ QueuesExact /\ ReaderKeepsClient
  BY DEF KernelInv
<1>2. LocksExact' /\ QueuesExact'
  BY <1>1, HoldsNone, LocksKept, QueuesKept
<1>3. ReaderKeepsClient'
  BY <1>1, ReadersKept DEF HoldsLock
<1> QED
  BY <1>1, <1>2, <1>3, LocalStep DEF KernelTypes

\* A client asks for something.
LEMMA ArriveStep ==
    ASSUME KernelInv, NEW c \in Caller, Execute(c) \/ KernelRequest(c)
    PROVE  KernelInv'
<1>1. /\ KernelTypes /\ caller[c] \in CallerState /\ caller[c].pc = "new" /\ used \in 0..MaxStarts
      /\ PlaceOK(caller[c], used)
  BY DEF KernelInv, KernelTypes, Execute, KernelRequest, Arrives, PlacesOK
<1>2. \A k \in 0..used : k \in KernelId \cup {NewKernel} /\ k <= used
  BY <1>1, KernelPoolAssumption DEF KernelId, NewKernel
<1>3. UNCHANGED <<entries, managed, alive, used, cells, client, poolLock, holder, waiting>>
  BY DEF Execute, KernelRequest, kernelVars, lockVars
<1>4. /\ OnlyMoves(c) /\ PlaceOK(caller'[c], used) /\ ~Pursues(caller'[c])
      /\ caller'[c].pc \in {"lookup", "create", "interrupt", "ready"}
  <2>1. CASE Execute(c)
    <3>1. PICK k \in 0..used, cell \in CellKinds :
             caller' = [caller EXCEPT ![c].pc = "lookup", ![c].k = k, ![c].cell = cell]
      BY <2>1 DEF Execute
    <3>2. cell \in AllCellKinds
      BY KernelPoolAssumption
    <3>3. OnlyMoves(c) /\ caller'[c].k = k /\ caller'[c].pc = "lookup" /\ caller'[c].op = caller[c].op
      BY <1>1, <1>2, <3>1, <3>2 DEF KernelTypes, OnlyMoves, Unmoved, CallerState
    <3> QED
      BY <1>1, <1>2, <3>3 DEF PlaceOK, Unplaced, DeletePcs, Pursues, Pursuing
  <2>2. CASE KernelRequest(c)
    <3>1. PICK op \in PoolOps, k \in 0..used :
             /\ op = "create" <=> k = NewKernel
             /\ caller' = [caller EXCEPT ![c].op = op, ![c].k = k,
                           ![c].pc = CASE op = "create" -> "create"
                                       [] op = "interrupt" -> "interrupt"
                                       [] op = "restart" -> "ready"
                                       [] op = "delete" -> "lookup"]
      BY <2>2 DEF KernelRequest
    <3>2. op \in AllPoolOps
      BY KernelPoolAssumption
    <3>3. PICK pc \in {"lookup", "create", "interrupt", "ready"} :
             /\ caller' = [caller EXCEPT ![c].op = op, ![c].k = k, ![c].pc = pc]
             /\ op = "delete" <=> pc = "lookup"
             /\ op = "create" <=> pc = "create"
             /\ op = "restart" <=> pc = "ready"
      BY <3>1, <3>2 DEF AllPoolOps
    <3>4. OnlyMoves(c) /\ caller'[c].k = k /\ caller'[c].pc = pc /\ caller'[c].op = op
      BY <1>1, <1>2, <3>2, <3>3 DEF KernelTypes, OnlyMoves, Unmoved, CallerState
    <3> QED
      BY <1>2, <3>1, <3>2, <3>3, <3>4
         DEF PlaceOK, Unplaced, DeletePcs, Pursues, Pursuing, AllPoolOps
  <2> QED
    BY <2>1, <2>2
<1>5. /\ caller[c].pc \notin MayHold \cup Creating \cup {"queued"}
      /\ caller'[c].pc \notin HoldsLock \cup Creating \cup {"queued"}
      /\ \A k \in KernelId : Carries(caller[c], k) => Carries(caller'[c], k)
  BY <1>1, <1>4 DEF MayHold, HoldsLock, Creating, Carries
<1> QED
  BY <1>1, <1>3, <1>4, <1>5, WalkStep DEF KernelTypes

\* A signal is sent, by whoever needs no lock for it.
LEMMA SignalStep ==
    ASSUME KernelInv, NEW c \in Caller,
           Preempts(c) \/ PreemptsHard(c) \/ DeleteInterrupts(c) \/ Interrupts(c)
    PROVE  KernelInv'
<1>1. KernelTypes /\ caller[c] \in CallerState /\ PlaceOK(caller[c], used) /\ alive \subseteq 1..used
      /\ managed \subseteq 1..used
  BY DEF KernelInv, KernelTypes, PlacesOK
<1>2. UNCHANGED <<entries, managed, used, client, poolLock, holder, waiting>>
  BY DEF Preempts, PreemptsHard, DeleteInterrupts, Interrupts, kernelVars, lockVars
<1>3. caller[c].pc \in {"preempt", "polling", "delete", "interrupt"}
  BY DEF Preempts, PreemptsHard, LosesPatience, DeleteInterrupts, Interrupts
<1>4. caller[c].k \in KernelId /\ caller[c].k <= used
  BY <1>1, <1>3 DEF PlaceOK, Unplaced, CallerState
<1>5. PICK pc \in {"polling", "restarted", "deleting", "done"} :
         /\ \/ SigInt(caller[c].k, Moved(c, pc)) \/ Killed(caller[c].k, Moved(c, pc))
            \/ caller' = Moved(c, pc) /\ UNCHANGED cells
         /\ alive' = alive \/ alive' = alive \cup {caller[c].k}
         /\ pc = "done" <=> caller[c].pc = "interrupt"
         /\ pc = "deleting" <=> caller[c].pc = "delete"
  <2>1. CASE Preempts(c)
    <3>1. SigInt(caller[c].k, Moved(c, "polling")) /\ alive' = alive /\ caller[c].pc = "preempt"
      BY <2>1 DEF Preempts, kernelVars
    <3> QED
      BY <3>1
  <2>2. CASE PreemptsHard(c)
    <3>1. /\ Killed(caller[c].k, Moved(c, "restarted")) /\ alive' = alive \cup {caller[c].k}
          /\ caller[c].pc = "polling"
      BY <2>2 DEF PreemptsHard, LosesPatience, Restarted
    <3> QED
      BY <3>1
  <2>3. CASE DeleteInterrupts(c)
    <3>1. SigInt(caller[c].k, Moved(c, "deleting")) /\ alive' = alive /\ caller[c].pc = "delete"
      BY <2>3 DEF DeleteInterrupts, kernelVars
    <3> QED
      BY <3>1
  <2>4. CASE Interrupts(c)
    <3>1. /\ \/ SigInt(caller[c].k, Moved(c, "done"))
             \/ caller' = Moved(c, "done") /\ UNCHANGED cells
          /\ alive' = alive /\ caller[c].pc = "interrupt"
      BY <2>4 DEF Interrupts, kernelVars, MoveTo
    <3> QED
      BY <3>1
  <2> QED
    BY <2>1, <2>2, <2>3, <2>4
<1>6. /\ OnlyMoves(c) /\ caller'[c].pc = pc /\ caller'[c].op = caller[c].op
      /\ caller'[c].k = caller[c].k /\ cells' \in [KernelId -> Seq(Caller)]
  <2>1. pc \in Pcs
    BY DEF Pcs
  <2>2. CASE caller' = Moved(c, pc) /\ UNCHANGED cells
    BY <1>1, <2>1, <2>2, MovesOne DEF KernelTypes
  <2> QED
    BY <1>1, <1>4, <1>5, <2>1, <2>2, Signals
<1>7. /\ caller[c].pc \notin MayHold \cup Creating \cup {"queued"}
      /\ caller'[c].pc \notin HoldsLock \cup Creating \cup {"queued"}
      /\ PlaceOK(caller'[c], used) /\ (Pursues(caller'[c]) => Pursues(caller[c]))
  BY <1>1, <1>3, <1>4, <1>5, <1>6
     DEF MayHold, HoldsLock, Creating, PlaceOK, Unplaced, DeletePcs, Pursues, Pursuing
<1>8. \A k \in KernelId : Carries(caller[c], k) => Carries(caller'[c], k)
  BY <1>3, <1>5, <1>6 DEF Carries
<1>9. alive' \subseteq 1..used
  <2>1. caller[c].k \in 1..used
    BY <1>1, <1>4, KernelPoolAssumption DEF KernelTypes, KernelId
  <2> QED
    BY <1>1, <1>5, <2>1
<1> QED
  BY <1>2, <1>6, <1>7, <1>8, <1>9, WalkStep

\* restart asks for the lock of a kernel in the pool.
LEMMA WantsStep ==
    ASSUME KernelInv, NEW c \in Caller, WantsRestart(c)
    PROVE  KernelInv'
<1>1. KernelTypes /\ caller[c] \in CallerState /\ PlaceOK(caller[c], used)
  BY DEF KernelInv, KernelTypes, PlacesOK
<1>2. /\ caller[c].op = "restart" /\ caller[c].pc = "ready"
      /\ UNCHANGED <<entries, kernelVars, poolLock>>
  BY DEF WantsRestart
<1>3. /\ caller[c].k \in KernelId
      /\ caller[c].pc \notin MayHold \cup Creating \cup {"queued"}
  BY <1>1, <1>2 DEF PlaceOK, Unplaced, CallerState, MayHold, HoldsLock, Creating
<1>4. CASE InPool(caller[c].k) /\ Acquires(c, "restart")
  BY <1>2, <1>3, <1>4, AcquireStep
<1>5. CASE caller' = Moved(c, "done") /\ UNCHANGED <<cells, client, lockVars>>
  <2>1. /\ OnlyMoves(c) /\ caller'[c].pc = "done" /\ caller'[c].op = caller[c].op
        /\ caller'[c].k = caller[c].k
    BY <1>1, <1>5, MovesOne DEF Pcs
  <2>2. /\ caller'[c].pc \notin HoldsLock \cup Creating \cup {"queued"}
        /\ PlaceOK(caller'[c], used) /\ ~Pursues(caller'[c])
        /\ \A k \in KernelId : Carries(caller[c], k) => Carries(caller'[c], k)
    BY <1>1, <1>2, <2>1
       DEF HoldsLock, Creating, PlaceOK, Unplaced, DeletePcs, Pursues, Pursuing, Carries
  <2> QED
    BY <1>1, <1>2, <1>3, <1>5, <2>1, <2>2, WalkStep DEF KernelTypes, kernelVars, lockVars
<1> QED
  BY <1>4, <1>5 DEF WantsRestart, RestartBegins, MoveTo

\* A cell asks for input and gets it: c has the lock all the while.
LEMMA InputStep ==
    ASSUME KernelInv, NEW c \in Caller, AsksInput(c) \/ Replies(c)
    PROVE  KernelInv'
<1>1. /\ KernelTypes /\ LocksExact /\ QueuesExact /\ ReaderKeepsClient /\ caller[c] \in CallerState
      /\ PlaceOK(caller[c], used)
  BY DEF KernelInv, KernelTypes, PlacesOK
<1>2. UNCHANGED <<entries, managed, alive, used, cells, client, poolLock, holder, waiting>>
  BY DEF AsksInput, Replies, kernelVars, lockVars
<1>3. /\ OnlyMoves(c) /\ caller[c].pc \in {"run", "input"} /\ caller'[c].pc \in {"run", "input"}
      /\ caller'[c].op = caller[c].op /\ caller'[c].k = caller[c].k
      /\ caller'[c].reads = caller[c].reads
  <2>1. CASE AsksInput(c)
    <3>1. caller[c].pc = "run" /\ caller' = Moved(c, "input")
      BY <2>1 DEF AsksInput, Runs, MoveTo
    <3> QED
      BY <1>1, <3>1, MovesOne DEF Pcs
  <2>2. CASE Replies(c)
    <3>1. caller[c].pc = "input" /\ caller' = [caller EXCEPT ![c].pc = "run", ![c].cell = "quick"]
      BY <2>2 DEF Replies
    <3> QED
      BY <1>1, <3>1 DEF KernelTypes, OnlyMoves, Unmoved, CallerState, AllCellKinds
  <2> QED
    BY <2>1, <2>2
<1>4. caller[c].k \in KernelId /\ holder[caller[c].k] = c
  BY <1>1, <1>3 DEF LocksExact, HoldsLock
<1>5. LocksExact'
  <2>1. holder' = [holder EXCEPT ![caller[c].k] = c]
    BY <1>1, <1>2, <1>4 DEF KernelTypes
  <2> QED
    BY <1>1, <1>3, <1>4, <2>1, LockSet DEF MayHold, HoldsLock
<1>6. QueuesExact'
  BY <1>1, <1>2, <1>3, QueuesKept
<1>7. ReaderKeepsClient'
  BY <1>1, <1>2, <1>3, ReadersKept DEF ReaderKeepsClient
<1>8. /\ PlaceOK(caller'[c], used) /\ Pursues(caller[c])
      /\ caller[c].pc \notin Creating /\ caller'[c].pc \notin Creating
      /\ \A k \in KernelId : Carries(caller[c], k) => Carries(caller'[c], k)
  BY <1>1, <1>3 DEF PlaceOK, Unplaced, DeletePcs, Pursues, Pursuing, Creating, Carries
<1> QED
  BY <1>1, <1>2, <1>3, <1>5, <1>6, <1>7, <1>8, LocalStep DEF KernelTypes

\* c releases the lock it holds.
LEMMA ReleaseStep ==
    ASSUME KernelInv, NEW c \in Caller, caller[c].pc \in HoldsLock,
           NEW pc \in {"done", "interrupt"}, caller' = Moved(c, pc), Releases(caller[c].k),
           UNCHANGED <<entries, kernelVars, cells, client, poolLock, waiting>>
    PROVE  KernelInv'
<1>1. /\ KernelTypes /\ LocksExact /\ QueuesExact /\ ReaderKeepsClient /\ caller[c] \in CallerState
      /\ PlaceOK(caller[c], used)
  BY DEF KernelInv, KernelTypes, PlacesOK
<1>2. /\ OnlyMoves(c) /\ caller'[c].pc = pc /\ caller'[c].op = caller[c].op
      /\ caller'[c].k = caller[c].k
  BY <1>1, MovesOne DEF Pcs
<1>3. /\ caller[c].k \in KernelId /\ holder[caller[c].k] = c /\ c # Nobody
      /\ holder' = [holder EXCEPT ![caller[c].k] = Nobody] /\ Nobody \in {c, Nobody}
      /\ pc \notin HoldsLock
  BY <1>1 DEF LocksExact, Releases, Caller, Nobody, HoldsLock
<1>4. LocksExact' /\ holder' \in [KernelId -> Caller \cup {Nobody}]
  BY <1>1, <1>2, <1>3, LockSet
<1>5. QueuesExact'
  BY <1>1, <1>2, QueuesKept DEF HoldsLock
<1>6. ReaderKeepsClient'
  BY <1>1, <1>2, ReadersKept
<1>7. /\ PlaceOK(caller'[c], used) /\ ~Pursues(caller'[c])
      /\ caller[c].pc \notin Creating /\ caller'[c].pc \notin Creating
      /\ \A k \in KernelId : Carries(caller[c], k) => Carries(caller'[c], k)
  BY <1>1, <1>2 DEF PlaceOK, Unplaced, DeletePcs, Pursues, Pursuing, Creating, Carries, HoldsLock
<1> QED
  BY <1>1, <1>2, <1>4, <1>5, <1>6, <1>7, LocalStep DEF KernelTypes, kernelVars

\* A cell ends, breaks, or its client has left; a rebuild fails.
LEMMA EndStep ==
    ASSUME KernelInv, NEW c \in Caller,
           \/ Ends(c) \/ Torn(c) \/ OutputNoticesDisconnect(c) \/ InputNoticesDisconnect(c)
           \/ RebuildFails(c)
    PROVE  KernelInv'
<1>1. PICK pc \in {"done", "interrupt"} : caller' = Moved(c, pc)
  BY DEF Ends, Torn, OutputNoticesDisconnect, InputNoticesDisconnect, RebuildFails, MoveTo
<1>2. /\ caller[c].pc \in HoldsLock /\ Releases(caller[c].k)
      /\ UNCHANGED <<entries, kernelVars, cells, client, poolLock, waiting>>
  BY DEF Ends, Torn, OutputNoticesDisconnect, InputNoticesDisconnect, RebuildFails, Runs, HoldsLock
<1> QED
  BY <1>1, <1>2, ReleaseStep

\* The kernel is ready again: restart is done; a cell goes on, or waits for its turn.
LEMMA RebuiltStep ==
    ASSUME KernelInv, NEW c \in Caller, Rebuilt(c)
    PROVE  KernelInv'
<1> DEFINE k == caller[c].k
<1>1. /\ KernelTypes /\ LocksExact /\ QueuesExact /\ ReaderKeepsClient /\ caller[c] \in CallerState
      /\ PlaceOK(caller[c], used) /\ alive \subseteq 1..used
  BY DEF KernelInv, KernelTypes, PlacesOK
<1>2. caller[c].pc = "rebuilding" /\ UNCHANGED <<entries, kernelVars, poolLock>>
  BY DEF Rebuilt
<1>3. /\ k \in KernelId /\ holder[k] = c /\ c # Nobody
      /\ caller[c].op # "delete" /\ Pursues(caller[c]) /\ caller[c].pc \notin Creating
      /\ k # NewKernel /\ k <= used
      /\ \A j \in KernelId : ~Carries(caller[c], j)
  BY <1>1, <1>2 DEF LocksExact, HoldsLock, Caller, Nobody, PlaceOK, DeletePcs, Pursues, Pursuing,
                    Creating, Carries, KernelId, NewKernel
<1>4. CASE caller' = Moved(c, "done") /\ Releases(k) /\ UNCHANGED <<cells, client, waiting>>
  BY <1>2, <1>4, ReleaseStep DEF HoldsLock
<1>5. CASE GoesOn(c, "run") /\ UNCHANGED waiting
  <2>1. /\ OnlyMoves(c) /\ caller'[c].op = caller[c].op /\ caller'[c].k = k
        /\ caller'[c].pc \in {"run", "done", "rebuilding", "restart", "shutdown"}
        /\ cells' \in [KernelId -> Seq(Caller)]
        /\ client' \in [KernelId -> [gen : Nat, open : BOOLEAN]]
        /\ holder' \in [KernelId -> Caller \cup {Nobody}]
        /\ LocksExact' /\ ReaderKeepsClient'
    BY <1>3, <1>5, GoesOnForm
  <2>2. QueuesExact'
    BY <1>1, <1>2, <1>5, <2>1, QueuesKept
  <2>3. PlaceOK(caller'[c], used) /\ caller'[c].pc \notin Creating
    BY <1>3, <2>1 DEF PlaceOK, Creating
  <2> QED
    BY <1>1, <1>2, <1>3, <1>5, <2>1, <2>2, <2>3, LocalStep DEF KernelTypes, kernelVars
<1>6. CASE /\ Releases(k)
           /\ waiting' = [waiting EXCEPT ![k] = Append(waiting[k], c)]
           /\ caller' = [caller EXCEPT ![c].pc = "queued", ![c].then = "run"]
           /\ UNCHANGED <<cells, client>>
  <2>1. /\ OnlyMoves(c) /\ caller'[c].op = caller[c].op /\ caller'[c].k = k
        /\ caller'[c].pc = "queued"
    BY <1>1, <1>6 DEF KernelTypes, OnlyMoves, Unmoved, CallerState
  <2>2. QueuesExact' /\ waiting' \in [KernelId -> Seq(Caller)]
    BY <1>1, <1>2, <1>3, <1>6, <2>1, QueueJoined
  <2>3. Nobody \in {c, Nobody} /\ "queued" \notin HoldsLock
    BY DEF HoldsLock
  <2>4. LocksExact' /\ holder' \in [KernelId -> Caller \cup {Nobody}]
    BY <1>1, <1>3, <1>6, <2>1, <2>3, LockSet DEF Releases
  <2>5. ReaderKeepsClient'
    BY <1>1, <1>6, <2>1, ReadersKept
  <2>6. PlaceOK(caller'[c], used) /\ caller'[c].pc \notin Creating
    BY <1>3, <2>1 DEF PlaceOK, Creating
  <2> QED
    BY <1>1, <1>2, <1>3, <1>6, <2>1, <2>2, <2>4, <2>5, <2>6, LocalStep DEF KernelTypes, kernelVars
<1> QED
  BY <1>4, <1>5, <1>6 DEF Rebuilt, MoveTo

\* restart, with the lock: nobody else reads the client that is replaced.
LEMMA RestartStep ==
    ASSUME KernelInv, NEW c \in Caller, Restarts(c)
    PROVE  KernelInv'
<1> DEFINE k == caller[c].k
<1>1. /\ KernelTypes /\ LocksExact /\ QueuesExact /\ ReaderKeepsClient /\ caller[c] \in CallerState
      /\ PlaceOK(caller[c], used) /\ alive \subseteq 1..used
  BY DEF KernelInv, KernelTypes, PlacesOK
<1>2. /\ caller[c].pc = "restart" /\ Killed(k, Moved(c, "rebuilding")) /\ alive' = alive \cup {k}
      /\ Replaced(k) /\ UNCHANGED <<entries, managed, used, poolLock, holder, waiting>>
  BY DEF Restarts, Restarted, lockVars
<1>3. /\ k \in KernelId /\ holder[k] = c /\ k <= used /\ k # NewKernel
  BY <1>1, <1>2 DEF LocksExact, HoldsLock, PlaceOK, Unplaced
<1>4. /\ OnlyMoves(c) /\ caller'[c].pc = "rebuilding" /\ caller'[c].op = caller[c].op
      /\ caller'[c].k = k /\ cells' \in [KernelId -> Seq(Caller)]
  BY <1>1, <1>2, <1>3, Signals DEF Pcs
<1>5. LocksExact'
  <2>1. holder' = [holder EXCEPT ![k] = c]
    BY <1>1, <1>2, <1>3 DEF KernelTypes
  <2> QED
    BY <1>1, <1>3, <1>4, <2>1, LockSet DEF MayHold, HoldsLock
<1>6. QueuesExact'
  BY <1>1, <1>2, <1>4, QueuesKept
<1>7. /\ client' \in [KernelId -> [gen : Nat, open : BOOLEAN]]
      /\ \A j \in KernelId : j # k => client'[j] = client[j]
  <2>1. client \in [KernelId -> [gen : Nat, open : BOOLEAN]] /\ Replaced(k) /\ k \in KernelId
    BY <1>1, <1>2, <1>3 DEF KernelTypes
  <2> QED
    BY <2>1 DEF Replaced
<1>8. ReaderKeepsClient'
  <2>1. \A d \in Caller : d # c /\ caller[d].pc \in {"run", "input"} =>
            caller[d].k \in KernelId /\ caller[d].k # k
    BY <1>1, <1>3 DEF LocksExact, HoldsLock
  <2> QED
    BY <1>1, <1>4, <1>7, <2>1, ReadersKept
<1>9. /\ PlaceOK(caller'[c], used) /\ Pursues(caller[c])
      /\ caller[c].pc \notin Creating /\ caller'[c].pc \notin Creating
      /\ \A j \in KernelId : Carries(caller[c], j) => Carries(caller'[c], j)
  BY <1>1, <1>2, <1>3, <1>4
     DEF PlaceOK, Unplaced, DeletePcs, Pursues, Pursuing, Creating, Carries
<1>10. alive' \subseteq 1..used
  <2>1. k \in 1..used
    BY <1>1, <1>3, KernelPoolAssumption DEF KernelTypes, KernelId
  <2> QED
    BY <1>1, <1>2, <2>1
<1> QED
  BY <1>1, <1>2, <1>4, <1>5, <1>6, <1>7, <1>8, <1>9, <1>10, LocalStep DEF KernelTypes

\* The kernel of a delete is shut down, whether or not it has the entry's lock.
LEMMA ShutStep ==
    ASSUME KernelInv, NEW c \in Caller, ShutsDown(c)
    PROVE  KernelInv'
<1> DEFINE k == caller[c].k
<1>1. /\ KernelTypes /\ LocksExact /\ QueuesExact /\ ReaderKeepsClient /\ caller[c] \in CallerState
      /\ PlaceOK(caller[c], used) /\ alive \subseteq 1..used
  BY DEF KernelInv, KernelTypes, PlacesOK
<1>2. caller[c].pc = "shutdown" /\ UNCHANGED <<entries, used, poolLock, waiting>>
  BY DEF ShutsDown
<1>3. k \in KernelId /\ Nobody \in {c, Nobody} /\ c # Nobody /\ "done" \notin HoldsLock
  BY <1>1, <1>2 DEF PlaceOK, Unplaced, CallerState, Caller, Nobody, HoldsLock
<1>4. /\ OnlyMoves(c) /\ caller'[c].pc = "done" /\ caller'[c].op = caller[c].op
      /\ caller'[c].k = k /\ cells' \in [KernelId -> Seq(Caller)]
      /\ managed' \subseteq managed /\ k \notin managed' /\ alive' \subseteq alive
  <2>1. CASE k \in managed
    <3>1. /\ Killed(k, Moved(c, "done")) /\ managed' = managed \ {k} /\ alive' = alive \ {k}
      BY <1>2, <2>1 DEF ShutsDown, ShutDown
    <3>2. "done" \in Pcs
      BY DEF Pcs
    <3>3. /\ OnlyMoves(c) /\ caller'[c].pc = "done" /\ caller'[c].op = caller[c].op
          /\ caller'[c].k = k /\ cells' \in [KernelId -> Seq(Caller)]
      BY <1>1, <1>3, <3>1, <3>2, Signals
    <3> QED
      BY <3>1, <3>3
  <2>2. CASE k \notin managed
    <3>1. caller' = Moved(c, "done") /\ UNCHANGED <<cells, managed, alive>>
      BY <2>2 DEF ShutsDown, MoveTo
    <3> QED
      BY <1>1, <2>2, <3>1, MovesOne DEF Pcs, KernelTypes
  <2> QED
    BY <2>1, <2>2
<1>5. \/ holder[k] = c /\ client' = [client EXCEPT ![k].open = FALSE]
         /\ holder' = [holder EXCEPT ![k] = Nobody]
      \/ holder[k] # c /\ UNCHANGED <<client, holder>>
  BY DEF ShutsDown, Releases
<1>6. LocksExact' /\ holder' \in [KernelId -> Caller \cup {Nobody}]
  <2>1. CASE holder[k] = c
    BY <1>1, <1>3, <1>4, <1>5, <2>1, LockSet
  <2>2. CASE holder[k] # c
    <3>1. \A j \in KernelId : holder[j] # c
      BY <1>1, <1>3, <2>2 DEF LocksExact
    <3> QED
      BY <1>1, <1>3, <1>4, <1>5, <2>2, <3>1, LocksKept DEF KernelTypes
  <2> QED
    BY <2>1, <2>2
<1>7. QueuesExact'
  BY <1>1, <1>2, <1>4, QueuesKept
<1>8. /\ client' \in [KernelId -> [gen : Nat, open : BOOLEAN]]
      /\ \A j \in KernelId : client'[j].gen = client[j].gen
  <2>1. client \in [KernelId -> [gen : Nat, open : BOOLEAN]] /\ k \in KernelId
    BY <1>1, <1>3 DEF KernelTypes
  <2>2. CASE UNCHANGED client
    BY <2>1, <2>2
  <2>3. CASE client' = [client EXCEPT ![k].open = FALSE]
    BY <2>1, <2>3
  <2> QED
    BY <1>5, <2>2, <2>3
<1>9. ReaderKeepsClient'
  <2>1. \A d \in Caller : caller[d].pc \in {"run", "input"} => caller[d].k \in KernelId
    BY <1>1 DEF LocksExact, HoldsLock
  <2> QED
    BY <1>1, <1>4, <1>8, <2>1, ReadersKept
<1>10. /\ PlaceOK(caller'[c], used) /\ ~Pursues(caller'[c])
       /\ caller[c].pc \notin Creating /\ caller'[c].pc \notin Creating
       /\ \A j \in KernelId : Carries(caller[c], j) => j = k
  BY <1>1, <1>2, <1>4
     DEF PlaceOK, Unplaced, DeletePcs, Pursues, Pursuing, Creating, Carries
<1> QED
  BY <1>1, <1>2, <1>4, <1>6, <1>7, <1>8, <1>9, <1>10, LocalStep DEF KernelTypes

-----------------------------------------------------------------------------
(* Kernels: steps in the pool *)

\* A step with the pool's lock, or while it is free: nobody else starts a kernel.  Every
\* kernel is still in the pool, with c, or where it was.
LEMMA PoolStep ==
    ASSUME KernelInv, NEW c \in Caller, OnlyMoves(c), UNCHANGED <<holder, waiting>>,
           poolLock \in {c, Nobody}, poolLock' \in {c, Nobody},
           poolLock' = c <=> caller'[c].pc \in Creating,
           caller[c].pc \notin MayHold \cup {"queued"}, caller'[c].pc \notin HoldsLock \cup {"queued"},
           entries' \in Seq(KernelId), used' \in 0..MaxStarts, used <= used',
           managed' \subseteq 1..used', alive' \subseteq 1..used',
           cells' \in [KernelId -> Seq(Caller)],
           client' \in [KernelId -> [gen : Nat, open : BOOLEAN]],
           \A d \in Caller : d # c /\ caller[d].pc \in {"run", "input"} =>
               client'[caller[d].k].gen = client[caller[d].k].gen,
           PlaceOK(caller'[c], used'), \A i \in DOMAIN entries' : entries'[i] <= used',
           Len(entries') <= MaxKernels,
           \A k \in managed' : \/ \E i \in DOMAIN entries' : entries'[i] = k
                               \/ Carries(caller'[c], k)
                               \/ k \in managed /\ ~InPool(k) /\ ~Carries(caller[c], k),
           caller'[c].pc = "starting" =>
               /\ Len(entries') < MaxKernels /\ \A i \in DOMAIN entries' : entries'[i] # caller'[c].k
               /\ \A d \in Caller : d # c => caller[d].k # caller'[c].k
    PROVE  KernelInv'
<1>1. KernelTypes /\ LocksExact /\ QueuesExact /\ ReaderKeepsClient /\ CreatesAlone
  BY DEF KernelInv
<1>2. LocksExact' /\ QueuesExact' /\ ReaderKeepsClient'
  BY <1>1, HoldsNone, LocksKept, QueuesKept, ReadersKept DEF HoldsLock
<1>3. \A d \in Caller : d # Nobody
  BY DEF Caller, Nobody
<1>4. KernelTypes'
  BY <1>1 DEF KernelTypes, OnlyMoves
<1>5. CreatesAlone'
  BY <1>1, <1>3, SMTT(30) DEF CreatesAlone, OnlyMoves, Unmoved
<1>6. StartsUnseen'
  <2> SUFFICES ASSUME NEW e \in Caller, caller'[e].pc = "starting"
               PROVE  /\ Len(entries') < MaxKernels
                      /\ ~\E i \in DOMAIN entries' : entries'[i] = caller'[e].k
                      /\ \A d \in Caller : d # e /\ caller'[d].k = caller'[e].k => ~Pursues(caller'[d])
    BY DEF StartsUnseen, InPool
  <2>1. e = c
    BY <1>1, <1>3 DEF CreatesAlone, Creating, OnlyMoves, Unmoved
  <2> QED
    BY <2>1 DEF OnlyMoves, Unmoved
<1>7. PlacesOK'
  <2>1. used \in Nat /\ used' \in Nat /\ \A d \in Caller : caller[d] \in CallerState
    BY <1>1, KernelPoolAssumption DEF KernelTypes
  <2>2. \A d \in Caller : d # c => PlaceOK(caller'[d], used')
    <3> SUFFICES ASSUME NEW d \in Caller, d # c PROVE PlaceOK(caller'[d], used')
      OBVIOUS
    <3>1. PlaceOK(caller[d], used) /\ Unmoved(d)
      BY DEF KernelInv, PlacesOK, OnlyMoves
    <3>2. caller[d].k \in Nat
      BY <2>1 DEF CallerState, KernelId, NewKernel
    <3> QED
      BY <2>1, <3>1, <3>2 DEF PlaceOK, Unmoved
  <2> QED
    BY <2>2 DEF PlacesOK
<1>8. PoolHasEveryKernel'
  <2>1. ASSUME NEW k \in managed', ~\E i \in DOMAIN entries' : entries'[i] = k PROVE InTransit(k)'
    <3>1. CASE Carries(caller'[c], k)
      BY <3>1 DEF InTransit, Carries
    <3>2. CASE k \in managed /\ ~InPool(k) /\ ~Carries(caller[c], k)
      <4>1. PICK d \in Caller : Carries(caller[d], k)
        BY <3>2 DEF KernelInv, PoolHasEveryKernel, InTransit, Carries
      <4>2. Carries(caller'[d], k)
        BY <3>2, <4>1 DEF Carries, OnlyMoves, Unmoved
      <4> QED
        BY <4>2 DEF InTransit, Carries
    <3> QED
      BY <2>1, <3>1, <3>2
  <2> QED
    BY <2>1 DEF PoolHasEveryKernel, InPool
<1> QED
  BY <1>2, <1>4, <1>5, <1>6, <1>7, <1>8 DEF KernelInv

\* get_or_create finds an entry, which becomes the last, or not.
LEMMA LookStep ==
    ASSUME KernelInv, NEW c \in Caller, LooksUp(c)
    PROVE  KernelInv'
<1> DEFINE k == caller[c].k
           found == k # NewKernel /\ InPool(k) /\ k \in managed
<1>1. /\ KernelTypes /\ CreatesAlone /\ ReaderKeepsClient /\ PlacesOK /\ caller[c] \in CallerState
      /\ PlaceOK(caller[c], used) /\ PoolHasEveryKernel /\ used \in 0..MaxStarts /\ used <= used
  BY KernelPoolAssumption DEF KernelInv, KernelTypes, PlacesOK
<1>2. /\ caller[c].op = "execute" /\ caller[c].pc = "lookup" /\ poolLock = Nobody
      /\ entries' = (IF found THEN Append(Popped(k), k) ELSE entries)
      /\ caller' = Moved(c, IF found THEN "ready" ELSE "create")
      /\ UNCHANGED <<managed, alive, used, cells, client, poolLock, holder, waiting>>
  BY DEF LooksUp, MoveTo, kernelVars, lockVars
<1>3. /\ OnlyMoves(c) /\ caller'[c].op = "execute" /\ caller'[c].k = k
      /\ caller'[c].pc = IF found THEN "ready" ELSE "create"
  <2>1. (IF found THEN "ready" ELSE "create") \in Pcs
    BY DEF Pcs
  <2> QED
    BY <1>1, <1>2, <2>1, MovesOne
<1>4. /\ entries' \in Seq(KernelId) /\ Len(entries') <= MaxKernels
      /\ \A i \in DOMAIN entries' : entries'[i] <= used
      /\ \A j \in managed : InPool(j) => \E i \in DOMAIN entries' : entries'[i] = j
  <2>1. CASE ~found
    BY <1>1, <1>2, <2>1 DEF KernelTypes, PlacesOK, PoolHasEveryKernel, InPool
  <2>2. CASE found
    <3>1. k \in KernelId /\ InPool(k) /\ k <= used /\ k \in managed
      BY <1>1, <2>2 DEF CallerState, PlaceOK
    <3>2. PICK p \in Seq(KernelId) :
             /\ p = Popped(k) /\ Len(p) = Len(entries) - 1
             /\ \A i \in DOMAIN p : \E h \in DOMAIN entries : entries[h] = p[i]
             /\ \A h \in DOMAIN entries : entries[h] # k => \E i \in DOMAIN p : p[i] = entries[h]
      BY <1>1, <3>1, PoppedRest
    <3>3. PICK n \in Nat : n = Len(p) /\ DOMAIN p = 1..n /\ n + 1 = Len(entries)
      BY <1>1, <3>2, LenProperties DEF KernelTypes
    <3>4. PICK q \in Seq(KernelId) : q = Append(p, k)
      BY <3>1, <3>2, AppendProperties
    <3>5. /\ Len(q) = n + 1 /\ DOMAIN q = 1..(n + 1) /\ q[n + 1] = k
          /\ \A i \in 1..n : i \in DOMAIN q /\ q[i] = p[i]
      BY <3>1, <3>2, <3>3, <3>4, AppendProperties, LenProperties
    <3>6. entries' = q
      BY <1>2, <2>2, <3>2, <3>4
    <3>7. \A i \in DOMAIN p : p[i] <= used
      BY <1>1, <3>2 DEF PlacesOK
    <3>8. \A i \in DOMAIN q : q[i] <= used
      <4>1. \A i \in 1..(n + 1) : i \in 1..n \/ i = n + 1
        BY <3>3
      <4> QED
        BY <3>1, <3>3, <3>5, <3>7, <4>1
    <3>9. Len(q) <= MaxKernels
      BY <1>1, <3>3, <3>5 DEF PoolHasEveryKernel
    <3>10. ASSUME NEW j \in managed, InPool(j) PROVE \E i \in DOMAIN q : q[i] = j
      <4>1. CASE j = k
        <5>1. n + 1 \in DOMAIN q
          BY <3>3, <3>5
        <5> QED
          BY <3>5, <4>1, <5>1
      <4>2. CASE j # k
        <5>1. PICK h \in DOMAIN entries : entries[h] = j
          BY <3>10 DEF InPool
        <5>2. PICK i \in DOMAIN p : p[i] = j
          BY <3>2, <4>2, <5>1
        <5> QED
          BY <3>3, <3>5, <5>2
      <4> QED
        BY <4>1, <4>2
    <3> QED
      BY <3>4, <3>6, <3>8, <3>9, <3>10
  <2> QED
    BY <2>1, <2>2
<1>5. PlaceOK(caller'[c], used)
  BY <1>1, <1>3 DEF PlaceOK, Unplaced
<1>6. \A j \in KernelId : ~Carries(caller[c], j)
  BY <1>2 DEF Carries
<1>7. \A j \in managed : \/ \E i \in DOMAIN entries' : entries'[i] = j
                         \/ j \in managed /\ ~InPool(j) /\ ~Carries(caller[c], j)
  BY <1>2, <1>4 DEF Carries
<1>8. /\ caller[c].pc \notin MayHold \cup {"queued"} /\ caller'[c].pc \notin HoldsLock \cup {"queued"}
      /\ caller'[c].pc \notin Creating /\ c # Nobody
  BY <1>2, <1>3 DEF MayHold, HoldsLock, Creating, Caller, Nobody
<1>9. \A d \in Caller : client'[caller[d].k].gen = client[caller[d].k].gen
  BY <1>2
<1>10. caller'[c].pc # "starting"
  BY <1>3
<1> QED
  BY <1>1, <1>2, <1>3, <1>4, <1>5, <1>7, <1>8, <1>9, <1>10, PoolStep DEF KernelTypes

\* create takes the pool's lock ...
LEMMA CreateStep ==
    ASSUME KernelInv, NEW c \in Caller, CreatesKernel(c)
    PROVE  KernelInv'
<1>1. /\ KernelTypes /\ caller[c] \in CallerState /\ PlacesOK
      /\ PlaceOK(caller[c], used) /\ PoolHasEveryKernel /\ used \in 0..MaxStarts /\ used <= used
  BY KernelPoolAssumption DEF KernelInv, KernelTypes, PlacesOK
<1>2. /\ caller[c].pc = "create" /\ poolLock = Nobody /\ poolLock' = c /\ caller' = Moved(c, "evict")
      /\ UNCHANGED <<entries, managed, alive, used, cells, client, holder, waiting>>
  BY DEF CreatesKernel, MoveTo, kernelVars, lockVars
<1>3. /\ OnlyMoves(c) /\ caller'[c].op = caller[c].op /\ caller'[c].k = caller[c].k
      /\ caller'[c].pc = "evict"
  BY <1>1, <1>2, MovesOne DEF Pcs
<1>4. PlaceOK(caller'[c], used) /\ \A i \in DOMAIN entries : entries[i] <= used
  BY <1>1, <1>2, <1>3 DEF PlaceOK, Unplaced, DeletePcs, PlacesOK
<1>5. \A j \in managed : \/ \E i \in DOMAIN entries' : entries'[i] = j
                         \/ j \in managed /\ ~InPool(j) /\ ~Carries(caller[c], j)
  BY <1>2 DEF Carries, InPool
<1>6. /\ caller[c].pc \notin MayHold \cup {"queued"} /\ caller'[c].pc \notin HoldsLock \cup {"queued"}
      /\ caller'[c].pc \in Creating
  BY <1>2, <1>3 DEF MayHold, HoldsLock, Creating
<1>7. Len(entries) <= MaxKernels
  BY <1>1 DEF PoolHasEveryKernel
<1> QED
  BY <1>1, <1>2, <1>3, <1>4, <1>5, <1>6, <1>7, PoolStep DEF KernelTypes

\* ... makes room: the first entry goes, and c with it until its kernel is shut down ...
LEMMA EvictStep ==
    ASSUME KernelInv, NEW c \in Caller, Evicts(c)
    PROVE  KernelInv'
<1> DEFINE k == Head(entries)
<1>1. /\ KernelTypes /\ LocksExact /\ CreatesAlone /\ caller[c] \in CallerState /\ PlacesOK
      /\ PlaceOK(caller[c], used) /\ PoolHasEveryKernel /\ used \in 0..MaxStarts /\ used <= used
  BY KernelPoolAssumption DEF KernelInv, KernelTypes, PlacesOK
<1>2. /\ caller[c].pc = "evict" /\ Len(entries) >= MaxKernels
      /\ entries' = Tail(entries) /\ client' = [client EXCEPT ![k].open = FALSE]
      /\ caller' = [caller EXCEPT ![c].pc = "evicting", ![c].k = k]
      /\ UNCHANGED <<managed, alive, used, cells, poolLock, holder, waiting>>
  BY DEF Evicts, Full, kernelVars, lockVars
<1>3. /\ entries \in Seq(KernelId) /\ entries # <<>> /\ k \in KernelId
      /\ entries' \in Seq(KernelId) /\ Len(entries') = Len(entries) - 1
      /\ \A i \in 1..Len(entries') : entries'[i] = entries[i + 1]
      /\ Len(entries) \in Nat /\ DOMAIN entries = 1..Len(entries)
      /\ DOMAIN entries' = 1..Len(entries')
  <2>1. /\ entries \in Seq(KernelId) /\ Len(entries) \in Nat /\ Len(entries) # 0
        /\ DOMAIN entries = 1..Len(entries)
    BY <1>1, <1>2, KernelPoolAssumption, LenProperties DEF KernelTypes
  <2>2. entries # <<>>
    BY <2>1, EmptySeq
  <2> QED
    BY <1>2, <2>1, <2>2, HeadTailProperties, LenProperties
<1>4. k = entries[1] /\ k <= used /\ k # NewKernel
  BY <1>1, <1>3 DEF PlacesOK, KernelId, NewKernel
<1>5. OnlyMoves(c) /\ caller'[c].op = caller[c].op /\ caller'[c].k = k /\ caller'[c].pc = "evicting"
  BY <1>1, <1>2, <1>3 DEF KernelTypes, OnlyMoves, Unmoved, CallerState
<1>6. PlaceOK(caller'[c], used) /\ \A i \in DOMAIN entries' : entries'[i] <= used
  <2>1. \A i \in DOMAIN entries' : i + 1 \in DOMAIN entries
    BY <1>3
  <2>2. PlaceOK(caller'[c], used)
    BY <1>1, <1>2, <1>4, <1>5 DEF PlaceOK, DeletePcs
  <2> QED
    BY <1>1, <1>3, <2>1, <2>2 DEF PlacesOK
<1>7. ASSUME NEW j \in managed
      PROVE  \/ \E i \in DOMAIN entries' : entries'[i] = j
             \/ Carries(caller'[c], j)
             \/ j \in managed /\ ~InPool(j) /\ ~Carries(caller[c], j)
  <2>1. CASE ~InPool(j)
    BY <1>2, <2>1 DEF Carries
  <2>2. CASE InPool(j)
    <3>1. PICK h \in 1..Len(entries) : entries[h] = j
      BY <1>3, <2>2 DEF InPool
    <3>2. CASE h = 1
      BY <1>4, <1>5, <3>1, <3>2 DEF Carries
    <3>3. CASE h # 1
      <4>1. h - 1 \in DOMAIN entries' /\ (h - 1) + 1 = h
        BY <1>3, <3>1, <3>3
      <4>2. entries'[h - 1] = j
        BY <1>3, <3>1, <4>1
      <4> QED
        BY <4>1, <4>2
    <3> QED
      BY <3>2, <3>3
  <2> QED
    BY <2>1, <2>2
<1>8. /\ caller[c].pc \notin MayHold \cup {"queued"} /\ caller'[c].pc \notin HoldsLock \cup {"queued"}
      /\ caller'[c].pc \in Creating /\ poolLock = c /\ caller'[c].pc # "starting"
  BY <1>1, <1>2, <1>5 DEF MayHold, HoldsLock, Creating, CreatesAlone
<1>9. Len(entries') <= MaxKernels
  BY <1>1, <1>3, KernelPoolAssumption DEF PoolHasEveryKernel
<1>10. /\ client' \in [KernelId -> [gen : Nat, open : BOOLEAN]]
       /\ \A j \in KernelId : client'[j].gen = client[j].gen
  <2>1. client \in [KernelId -> [gen : Nat, open : BOOLEAN]] /\ k \in KernelId
    BY <1>1, <1>3 DEF KernelTypes
  <2> QED
    BY <1>2, <2>1
<1>11. \A d \in Caller : caller[d].pc \in {"run", "input"} => caller[d].k \in KernelId
  BY <1>1 DEF LocksExact, HoldsLock
<1> HIDE DEF k
<1> QED
  BY <1>1, <1>2, <1>3, <1>5, <1>6, <1>7, <1>8, <1>9, <1>10, <1>11, PoolStep DEF KernelTypes

\* ... whose cells are lost, and which the manager forgets; if its start failed, too.
LEMMA GoneStep ==
    ASSUME KernelInv, NEW c \in Caller, Evicted(c) \/ StartingFails(c)
    PROVE  KernelInv'
<1> DEFINE k == caller[c].k
<1>1. /\ KernelTypes /\ CreatesAlone /\ caller[c] \in CallerState /\ PlacesOK
      /\ PlaceOK(caller[c], used) /\ PoolHasEveryKernel /\ used \in 0..MaxStarts /\ used <= used
  BY KernelPoolAssumption DEF KernelInv, KernelTypes, PlacesOK
<1>2. PICK pc \in {"evict", "done"} :
         /\ ShutDown(k, Moved(c, pc)) /\ UNCHANGED <<entries, used, client, holder, waiting>>
         /\ \/ pc = "evict" /\ caller[c].pc = "evicting" /\ poolLock' = poolLock
            \/ pc = "done" /\ caller[c].pc = "starting" /\ poolLock' = Nobody
  <2>1. CASE Evicted(c)
    BY <2>1 DEF Evicted, lockVars
  <2>2. CASE StartingFails(c)
    BY <2>2 DEF StartingFails, AfterFailedStart, lockVars
  <2> QED
    BY <2>1, <2>2
<1>3. k \in KernelId /\ pc \in Pcs /\ c # Nobody /\ poolLock = c
  BY <1>1, <1>2 DEF PlaceOK, Unplaced, CallerState, Pcs, Caller, Nobody, CreatesAlone, Creating
<1>4. /\ OnlyMoves(c) /\ caller'[c].op = caller[c].op /\ caller'[c].k = k /\ caller'[c].pc = pc
      /\ cells' \in [KernelId -> Seq(Caller)]
  BY <1>1, <1>2, <1>3, Signals DEF ShutDown
<1>5. managed' = managed \ {k} /\ alive' = alive \ {k}
  BY <1>2 DEF ShutDown
<1>6. PlaceOK(caller'[c], used) /\ \A i \in DOMAIN entries : entries[i] <= used
  BY <1>1, <1>2, <1>4 DEF PlaceOK, Unplaced, DeletePcs, PlacesOK
<1>7. ASSUME NEW j \in managed'
      PROVE  \/ \E i \in DOMAIN entries' : entries'[i] = j
             \/ j \in managed /\ ~InPool(j) /\ ~Carries(caller[c], j)
  BY <1>2, <1>5 DEF Carries, InPool
<1>8. /\ caller[c].pc \notin MayHold \cup {"queued"} /\ caller'[c].pc \notin HoldsLock \cup {"queued"}
      /\ poolLock' \in {c, Nobody} /\ (poolLock' = c <=> caller'[c].pc \in Creating)
      /\ caller'[c].pc # "starting"
  BY <1>2, <1>3, <1>4 DEF MayHold, HoldsLock, Creating
<1>9. Len(entries) <= MaxKernels
  BY <1>1 DEF PoolHasEveryKernel
<1>10. managed' \subseteq 1..used /\ alive' \subseteq 1..used
  BY <1>1, <1>5 DEF KernelTypes
<1> HIDE DEF k
<1> QED
  BY <1>1, <1>2, <1>3, <1>4, <1>6, <1>7, <1>8, <1>9, <1>10, PoolStep DEF KernelTypes

\* A new kernel is started, that nobody has heard of ...
LEMMA StartsStep ==
    ASSUME KernelInv, NEW c \in Caller, Starts(c)
    PROVE  KernelInv'
<1>1. /\ KernelTypes /\ CreatesAlone /\ caller[c] \in CallerState /\ PlacesOK
      /\ PlaceOK(caller[c], used) /\ PoolHasEveryKernel /\ used \in Nat
  BY KernelPoolAssumption DEF KernelInv, KernelTypes, PlacesOK
<1>2. PICK u \in Nat : u = used + 1
  BY <1>1
<1>3. /\ caller[c].pc = "evict" /\ Len(entries) < MaxKernels /\ used < MaxStarts /\ used' = u
      /\ managed' = managed \cup {u} /\ alive' = alive \cup {u}
      /\ caller' = [caller EXCEPT ![c].pc = "starting", ![c].k = u]
      /\ UNCHANGED <<entries, cells, client, poolLock, holder, waiting>>
  <2>1. Len(entries) \in Nat
    BY <1>1, LenProperties DEF KernelTypes
  <2> QED
    BY <1>2, <2>1, KernelPoolAssumption DEF Starts, Full, lockVars
<1>4. u \in KernelId /\ used' \in 0..MaxStarts /\ used <= used' /\ u # NewKernel
      /\ u \in 1..used' /\ 1..used \subseteq 1..used'
  BY <1>1, <1>2, <1>3, KernelPoolAssumption DEF KernelId, NewKernel
<1>5. OnlyMoves(c) /\ caller'[c].op = caller[c].op /\ caller'[c].k = u /\ caller'[c].pc = "starting"
  BY <1>1, <1>3, <1>4 DEF KernelTypes, OnlyMoves, Unmoved, CallerState
<1>6. PlaceOK(caller'[c], used')
  BY <1>1, <1>2, <1>3, <1>4, <1>5 DEF PlaceOK, DeletePcs
<1>7. \A d \in Caller : caller[d].k # u
  <2>1. \A d \in Caller : caller[d] \in CallerState /\ caller[d].k <= used
    BY <1>1 DEF KernelTypes, PlacesOK, PlaceOK
  <2>2. \A d \in Caller : caller[d].k \in Nat
    BY <2>1 DEF CallerState, KernelId, NewKernel
  <2> QED
    BY <1>1, <1>2, <2>1, <2>2
<1>8. \A i \in DOMAIN entries : entries[i] <= used' /\ entries[i] # u
  <2>1. \A i \in DOMAIN entries : entries[i] <= used /\ entries[i] \in Nat
    <3>1. \A i \in DOMAIN entries : entries[i] \in KernelId
      BY <1>1, LenProperties DEF KernelTypes
    <3> QED
      BY <1>1, <3>1 DEF KernelId, PlacesOK
  <2> QED
    BY <1>1, <1>2, <1>3, <2>1
<1>9. ASSUME NEW j \in managed'
      PROVE  \/ \E i \in DOMAIN entries' : entries'[i] = j
             \/ Carries(caller'[c], j)
             \/ j \in managed /\ ~InPool(j) /\ ~Carries(caller[c], j)
  BY <1>3, <1>5 DEF Carries, InPool
<1>10. /\ caller[c].pc \notin MayHold \cup {"queued"} /\ caller'[c].pc \notin HoldsLock \cup {"queued"}
       /\ poolLock = c /\ caller'[c].pc \in Creating
  BY <1>1, <1>3, <1>5 DEF MayHold, HoldsLock, Creating, CreatesAlone
<1>11. managed' \subseteq 1..used' /\ alive' \subseteq 1..used'
  BY <1>1, <1>3, <1>4 DEF KernelTypes
<1>12. Len(entries) <= MaxKernels
  BY <1>1 DEF PoolHasEveryKernel
<1> QED
  BY <1>1, <1>3, <1>4, <1>5, <1>6, <1>7, <1>8, <1>9, <1>10, <1>11, <1>12, PoolStep DEF KernelTypes

\* ... gets its entry and its client when it is ready ...
LEMMA StartedStep ==
    ASSUME KernelInv, NEW c \in Caller, Started(c)
    PROVE  KernelInv'
<1> DEFINE k == caller[c].k
<1>1. /\ KernelTypes /\ LocksExact /\ CreatesAlone /\ StartsUnseen /\ caller[c] \in CallerState
      /\ PlacesOK /\ PlaceOK(caller[c], used) /\ PoolHasEveryKernel
      /\ used \in 0..MaxStarts /\ used <= used
  BY KernelPoolAssumption DEF KernelInv, KernelTypes, PlacesOK
<1>2. PICK pc \in {"ready", "done"} :
         /\ caller[c].pc = "starting" /\ entries' = Append(entries, k)
         /\ client' = [client EXCEPT ![k] = [gen |-> 1, open |-> TRUE]]
         /\ poolLock' = Nobody /\ caller' = Moved(c, pc)
         /\ pc = "ready" <=> caller[c].op = "execute"
         /\ UNCHANGED <<managed, alive, used, cells, holder, waiting>>
  BY DEF Started, MoveTo, kernelVars, lockVars
<1>3. /\ k \in KernelId /\ pc \in Pcs /\ c # Nobody /\ poolLock = c /\ k <= used
      /\ Len(entries) < MaxKernels
  BY <1>1, <1>2 DEF PlaceOK, Unplaced, CallerState, Pcs, Caller, Nobody, CreatesAlone, Creating,
                    StartsUnseen
<1>4. OnlyMoves(c) /\ caller'[c].op = caller[c].op /\ caller'[c].k = k /\ caller'[c].pc = pc
  BY <1>1, <1>2, <1>3, MovesOne
<1>5. PICK n \in Nat : n = Len(entries) /\ DOMAIN entries = 1..n
  BY <1>1, LenProperties DEF KernelTypes
<1>6. /\ entries' \in Seq(KernelId) /\ Len(entries') = n + 1 /\ DOMAIN entries' = 1..(n + 1)
      /\ entries'[n + 1] = k /\ \A i \in 1..n : entries'[i] = entries[i]
  BY <1>1, <1>2, <1>3, <1>5, AppendProperties, LenProperties DEF KernelTypes
<1>7. PlaceOK(caller'[c], used) /\ \A i \in DOMAIN entries' : entries'[i] <= used
  <2>1. PlaceOK(caller'[c], used)
    BY <1>1, <1>2, <1>4 DEF PlaceOK, Unplaced, DeletePcs
  <2>2. \A i \in 1..(n + 1) : i \in 1..n \/ i = n + 1
    BY <1>5
  <2> QED
    BY <1>1, <1>3, <1>5, <1>6, <2>1, <2>2 DEF PlacesOK
<1>8. ASSUME NEW j \in managed
      PROVE  \/ \E i \in DOMAIN entries' : entries'[i] = j
             \/ j \in managed /\ ~InPool(j) /\ ~Carries(caller[c], j)
  <2>1. CASE j = k
    <3>1. n + 1 \in DOMAIN entries'
      BY <1>5, <1>6
    <3> QED
      BY <1>6, <2>1, <3>1
  <2>2. CASE j # k /\ InPool(j)
    <3>1. PICK h \in 1..n : entries[h] = j
      BY <1>5, <2>2 DEF InPool
    <3>2. h \in DOMAIN entries' /\ entries'[h] = j
      BY <1>5, <1>6, <3>1
    <3> QED
      BY <3>2
  <2>3. CASE j # k /\ ~InPool(j)
    BY <2>3 DEF Carries
  <2> QED
    BY <2>1, <2>2, <2>3
<1>9. /\ caller[c].pc \notin MayHold \cup {"queued"} /\ caller'[c].pc \notin HoldsLock \cup {"queued"}
      /\ caller'[c].pc \notin Creating /\ caller'[c].pc # "starting"
  BY <1>2, <1>4 DEF MayHold, HoldsLock, Creating
<1>10. Len(entries') <= MaxKernels
  BY <1>3, <1>5, <1>6, KernelPoolAssumption
<1>11. /\ client' \in [KernelId -> [gen : Nat, open : BOOLEAN]]
       /\ \A j \in KernelId : j # k => client'[j] = client[j]
  <2>1. client \in [KernelId -> [gen : Nat, open : BOOLEAN]] /\ k \in KernelId
    BY <1>1, <1>3 DEF KernelTypes
  <2> QED
    BY <1>2, <2>1
<1>12. \A d \in Caller : d # c /\ caller[d].pc \in {"run", "input"} =>
           caller[d].k \in KernelId /\ caller[d].k # k
  BY <1>1, <1>2 DEF LocksExact, HoldsLock, StartsUnseen, Pursues, Pursuing
<1> HIDE DEF k
<1> QED
  BY <1>1, <1>2, <1>3, <1>4, <1>6, <1>7, <1>8, <1>9, <1>10, <1>11, <1>12, PoolStep, SMTT(30)
     DEF KernelTypes

\* ... or is taken out of the pool by a delete, which then has it.
LEMMA DeleteStep ==
    ASSUME KernelInv, NEW c \in Caller, Deletes(c)
    PROVE  KernelInv'
<1> DEFINE k == caller[c].k
<1>1. /\ KernelTypes /\ caller[c] \in CallerState /\ PlacesOK
      /\ PlaceOK(caller[c], used) /\ PoolHasEveryKernel /\ used \in 0..MaxStarts /\ used <= used
  BY KernelPoolAssumption DEF KernelInv, KernelTypes, PlacesOK
<1>2. PICK pc \in {"delete", "shutdown", "done"} :
         /\ caller[c].op = "delete" /\ caller[c].pc = "lookup" /\ poolLock = Nobody
         /\ entries' = Popped(k) /\ caller' = Moved(c, pc)
         /\ pc = "delete" <=> InPool(k)
         /\ pc = "done" => k \notin managed
         /\ UNCHANGED <<managed, alive, used, cells, client, poolLock, holder, waiting>>
  BY DEF Deletes, MoveTo, kernelVars, lockVars
<1>3. pc \in Pcs /\ c # Nobody /\ k # NewKernel
  BY <1>1, <1>2 DEF PlaceOK, Pcs, Caller, Nobody
<1>4. OnlyMoves(c) /\ caller'[c].op = "delete" /\ caller'[c].k = k /\ caller'[c].pc = pc
  BY <1>1, <1>2, <1>3, MovesOne
<1>5. PICK p \in Seq(KernelId) :
         /\ p = Popped(k) /\ Len(p) = IF InPool(k) THEN Len(entries) - 1 ELSE Len(entries)
         /\ \A i \in DOMAIN p : \E h \in DOMAIN entries : entries[h] = p[i]
         /\ \A h \in DOMAIN entries : entries[h] # k => \E i \in DOMAIN p : p[i] = entries[h]
  BY <1>1, PoppedRest
<1>6. Len(p) <= MaxKernels /\ \A i \in DOMAIN p : p[i] <= used
  <2>1. Len(entries) \in Nat /\ Len(entries) <= MaxKernels
    BY <1>1, LenProperties DEF KernelTypes, PoolHasEveryKernel
  <2>2. Len(p) <= MaxKernels
    BY <1>5, <2>1, KernelPoolAssumption
  <2> QED
    BY <1>1, <1>5, <2>2 DEF PlacesOK
<1>7. PlaceOK(caller'[c], used)
  BY <1>1, <1>3, <1>4 DEF PlaceOK, DeletePcs
<1>8. ASSUME NEW j \in managed
      PROVE  \/ \E i \in DOMAIN p : p[i] = j
             \/ Carries(caller'[c], j)
             \/ j \in managed /\ ~InPool(j) /\ ~Carries(caller[c], j)
  <2>1. CASE j = k
    BY <1>2, <1>4, <2>1 DEF Carries
  <2>2. CASE j # k /\ InPool(j)
    BY <1>5, <2>2 DEF InPool
  <2>3. CASE j # k /\ ~InPool(j)
    BY <2>3 DEF Carries
  <2> QED
    BY <2>1, <2>2, <2>3
<1>9. /\ caller[c].pc \notin MayHold \cup {"queued"} /\ caller'[c].pc \notin HoldsLock \cup {"queued"}
      /\ caller'[c].pc \notin Creating /\ caller'[c].pc # "starting"
  BY <1>2, <1>4 DEF MayHold, HoldsLock, Creating
<1>10. /\ entries' = p /\ poolLock' = Nobody /\ Nobody \in {c, Nobody}
       /\ UNCHANGED <<managed, alive, used, cells, client, holder, waiting>>
  BY <1>2, <1>5
<1>11. /\ entries' \in Seq(KernelId) /\ Len(entries') <= MaxKernels
       /\ \A i \in DOMAIN entries' : entries'[i] <= used
  <2>1. entries' = p
    BY <1>10
  <2>2. p \in Seq(KernelId) /\ Len(p) <= MaxKernels /\ \A i \in DOMAIN p : p[i] <= used
    BY <1>5, <1>6
  <2> QED
    BY <2>1, <2>2
<1>14. ASSUME NEW j \in managed
       PROVE  \/ \E i \in DOMAIN entries' : entries'[i] = j
              \/ Carries(caller'[c], j)
              \/ j \in managed /\ ~InPool(j) /\ ~Carries(caller[c], j)
  <2>1. entries' = p
    BY <1>10
  <2> QED
    BY <1>8, <2>1, Zenon
<1>12. \A d \in Caller : client'[caller[d].k].gen = client[caller[d].k].gen
  BY <1>10
<1>13. /\ poolLock = Nobody /\ managed' \subseteq 1..used /\ alive' \subseteq 1..used
       /\ cells' \in [KernelId -> Seq(Caller)]
       /\ client' \in [KernelId -> [gen : Nat, open : BOOLEAN]]
  BY <1>1, <1>2, <1>10 DEF KernelTypes
<1> HIDE DEF k
<1> QED
  BY <1>1, <1>3, <1>4, <1>7, <1>9, <1>10, <1>11, <1>12, <1>13, <1>14, PoolStep

-----------------------------------------------------------------------------
(* Kernels: the theorems *)

\* A cell ends by itself, or a client leaves: nobody's place changes.
LEMMA UnseenStep ==
    ASSUME KernelInv, caller' \in [Caller -> CallerState], \A d \in Caller : Unmoved(d),
           cells' \in [KernelId -> Seq(Caller)],
           UNCHANGED <<entries, kernelVars, client, poolLock, lockVars>>
    PROVE  KernelInv'
<1>1. UNCHANGED <<entries, managed, alive, used, client, poolLock, holder, waiting>>
  BY DEF kernelVars, lockVars
<1>2. KernelTypes'
  BY <1>1 DEF KernelInv, KernelTypes
<1>3. LocksExact'
  <2>1. \A k \in KernelId : holder[k] # Nobody => holder[k] \in Caller
    BY DEF KernelInv, KernelTypes
  <2> QED
    BY <1>1, <2>1 DEF KernelInv, LocksExact, Unmoved
<1>4. QueuesExact'
  <2>1. \A k \in KernelId : \A i \in DOMAIN waiting[k] : waiting[k][i] \in Caller
    BY LenProperties DEF KernelInv, KernelTypes
  <2> QED
    BY <1>1, <2>1 DEF KernelInv, QueuesExact, Unmoved
<1>5. CreatesAlone' /\ StartsUnseen'
  BY <1>1 DEF KernelInv, CreatesAlone, StartsUnseen, Unmoved, InPool, Pursues
<1>6. PlacesOK'
  BY <1>1 DEF KernelInv, PlacesOK, PlaceOK, Unmoved
<1>7. ReaderKeepsClient'
  BY <1>1 DEF KernelInv, ReaderKeepsClient, Unmoved
<1>8. PoolHasEveryKernel'
  BY <1>1 DEF KernelInv, PoolHasEveryKernel, InPool, InTransit, Unmoved
<1> QED
  BY <1>2, <1>3, <1>4, <1>5, <1>6, <1>7, <1>8 DEF KernelInv

\* A client closes its connection: the request goes on, and nobody's place changes.
LEMMA LeaveStep ==
    ASSUME KernelInv, NEW c \in Caller, Leaves(c)
    PROVE  KernelInv'
<1>1. caller \in [Caller -> CallerState] /\ cells \in [KernelId -> Seq(Caller)]
  BY DEF KernelInv, KernelTypes
<1>2. /\ caller' = [caller EXCEPT ![c].gone = TRUE] /\ UNCHANGED cells
      /\ UNCHANGED <<entries, kernelVars, client, poolLock, lockVars>>
  BY DEF Leaves
<1>3. caller' \in [Caller -> CallerState] /\ \A d \in Caller : Unmoved(d)
  <2> DEFINE r == [caller[c] EXCEPT !.gone = TRUE]
  <2>1. /\ r \in CallerState /\ r.op = caller[c].op /\ r.pc = caller[c].pc /\ r.k = caller[c].k
        /\ r.then = caller[c].then /\ r.reads = caller[c].reads
    BY <1>1, ZenonT(30) DEF CallerState
  <2>2. caller' = [caller EXCEPT ![c] = r]
    BY <1>1, <1>2
  <2> HIDE DEF r
  <2> QED
    BY <1>1, <2>1, <2>2 DEF Unmoved
<1> QED
  BY <1>1, <1>2, <1>3, UnseenStep

\* A cell ends on its kernel: nobody's place changes.
LEMMA CellStep ==
    ASSUME KernelInv, NEW k \in KernelId, CellEnds(k)
    PROVE  KernelInv'
<1>1. caller \in [Caller -> CallerState] /\ cells \in [KernelId -> Seq(Caller)]
  BY DEF KernelInv, KernelTypes
<1>2. /\ caller' = Fates(<<Head(cells[k])>>, "ended", caller) /\ cells[k] # <<>>
      /\ cells' = [cells EXCEPT ![k] = Tail(cells[k])]
      /\ UNCHANGED <<entries, kernelVars, client, poolLock, lockVars>>
  BY DEF CellEnds
<1>3. caller' \in [Caller -> CallerState] /\ \A d \in Caller : Unmoved(d)
  BY <1>1, <1>2, FateForm DEF Unmoved
<1>4. cells' \in [KernelId -> Seq(Caller)]
  BY <1>1, <1>2, HeadTailProperties
<1> QED
  BY <1>2, <1>3, <1>4, UnseenStep

\* No kernels, no requests.
LEMMA KernelsStart == KernelPoolInit => KernelInv
<1> SUFFICES ASSUME KernelPoolInit PROVE KernelInv
  OBVIOUS
<1> USE KernelPoolAssumption
<1>1. /\ entries = <<>> /\ managed = {} /\ alive = {} /\ used = 0 /\ poolLock = Nobody
      /\ cells = [k \in KernelId |-> <<>>] /\ waiting = [k \in KernelId |-> <<>>]
      /\ client = [k \in KernelId |-> [gen |-> 0, open |-> FALSE]]
      /\ holder = [k \in KernelId |-> Nobody] /\ caller = [c \in Caller |-> NewCaller]
  BY DEF KernelPoolInit
<1>2. NewCaller \in CallerState /\ NewCaller.pc = "new" /\ NewCaller.k = 0 /\ NewCaller.op = "execute"
  BY DEF NewCaller, CallerState, NewKernel, AllCellKinds
<1>3. KernelTypes
  BY <1>1, <1>2, EmptySeq DEF KernelTypes
<1>4. \A c \in Caller : caller[c] = NewCaller /\ c # Nobody
  BY <1>1 DEF Caller, Nobody
<1>5. LocksExact /\ ReaderKeepsClient /\ StartsUnseen /\ CreatesAlone
  BY <1>1, <1>2, <1>4 DEF LocksExact, HoldsLock, ReaderKeepsClient, StartsUnseen, CreatesAlone, Creating
<1>6. QueuesExact
  <2>1. \A k \in KernelId : DOMAIN waiting[k] = {}
    BY <1>1
  <2> QED
    BY <1>2, <1>4, <2>1 DEF QueuesExact
<1>7. PlacesOK /\ PoolHasEveryKernel
  <2>1. DOMAIN entries = {} /\ Len(entries) = 0
    BY <1>1
  <2> QED
    BY <1>1, <1>2, <1>4, <2>1 DEF PlacesOK, PlaceOK, Unplaced, PoolHasEveryKernel
<1> QED
  BY <1>3, <1>5, <1>6, <1>7 DEF KernelInv

\* Every step keeps the invariant.
LEMMA KernelSteps == KernelInv /\ [KernelPoolNext]_poolVars => KernelInv'
<1> SUFFICES ASSUME KernelInv, [KernelPoolNext]_poolVars PROVE KernelInv'
  OBVIOUS
<1>1. CASE UNCHANGED poolVars
  <2>1. /\ UNCHANGED <<caller, cells>> /\ UNCHANGED <<entries, kernelVars, client, poolLock, lockVars>>
    BY <1>1 DEF poolVars
  <2>2. caller' \in [Caller -> CallerState] /\ cells' \in [KernelId -> Seq(Caller)]
    BY <2>1 DEF KernelInv, KernelTypes
  <2> QED
    BY <2>1, <2>2, UnseenStep DEF Unmoved
<1>2. ASSUME NEW c \in Caller, Serves(c) PROVE KernelInv'
  <2>1. CASE \/ LooksUp(c) \/ CreatesKernel(c) \/ Evicts(c) \/ Evicted(c) \/ Starts(c) \/ Started(c)
             \/ StartingFails(c) \/ Deletes(c)
    BY <2>1, LookStep, CreateStep, EvictStep, GoneStep, StartsStep, StartedStep, DeleteStep
  <2>2. CASE \/ Enters(c) \/ SeesLockFree(c) \/ WantsRebuild(c) \/ GetsLock(c) \/ Rebuilt(c)
             \/ WantsRestart(c) \/ DeleteWaits(c)
    BY <2>2, EnterStep, AskStep, GetsStep, RebuiltStep, WantsStep
  <2>3. CASE \/ Preempts(c) \/ PreemptsHard(c) \/ Interrupts(c) \/ DeleteInterrupts(c)
             \/ AsksInput(c) \/ Restarts(c) \/ ShutsDown(c)
    BY <2>3, SignalStep, InputStep, RestartStep, ShutStep
  <2>4. CASE \/ RebuildFails(c) \/ Ends(c) \/ Torn(c) \/ OutputNoticesDisconnect(c)
             \/ InputNoticesDisconnect(c)
    BY <2>4, EndStep
  <2> QED
    BY <1>2, <2>1, <2>2, <2>3, <2>4 DEF Serves
<1>3. ASSUME NEW c \in Caller, Execute(c) \/ KernelRequest(c) \/ Replies(c) \/ Leaves(c)
      PROVE  KernelInv'
  BY <1>3, ArriveStep, InputStep, LeaveStep
<1> QED
  BY <1>1, <1>2, <1>3, CellStep DEF KernelPoolNext

\* The inductive invariant holds in every reachable state.
THEOREM KernelInvariant == KernelPoolSpec => []KernelInv
BY KernelsStart, KernelSteps, PTL DEF KernelPoolSpec

\* A kernel's lock is held where the code holds it, and those who wait for it are the
\* ones queued (KernelEntry.lock); everything keeps its type.
LEMMA InvTypes == KernelInv => KernelPoolTypeOK
<1> SUFFICES ASSUME KernelInv PROVE KernelPoolTypeOK
  OBVIOUS
<1>1. KernelTypes /\ LocksExact /\ QueuesExact
  BY DEF KernelInv
<1>2. ASSUME NEW c \in Caller
      PROVE  caller[c].pc = "queued" <=> \E k \in KernelId : c \in ToSet(waiting[k])
  BY <1>1 DEF QueuesExact, ToSet
<1>3. /\ used <= MaxStarts /\ managed \cup alive \subseteq 1..used
      /\ \A k \in KernelId : /\ cells[k] \in Seq(Caller) /\ waiting[k] \in Seq(Caller)
                            /\ client[k].gen \in Nat /\ client[k].open \in BOOLEAN
                            /\ holder[k] \in Caller \cup {Nobody}
  BY <1>1, KernelPoolAssumption DEF KernelTypes
<1> QED
  BY <1>1, <1>2, <1>3 DEF KernelTypes, LocksExact, KernelPoolTypeOK
\* The same of every reachable state.
THEOREM KernelTypesHold == KernelPoolSpec => []KernelPoolTypeOK
BY KernelInvariant, InvTypes, PTL

\* The pool stays within max_kernels and forgets no kernel the manager runs, whatever is
\* created, evicted, deleted and fails to start.
THEOREM PoolForgetsNone == KernelPoolSpec => []PoolHasEveryKernel
<1>1. KernelInv => PoolHasEveryKernel
  BY DEF KernelInv
<1> QED
  BY <1>1, KernelInvariant, PTL

\* Nobody's client is replaced while it reads from it (the comment in restart).
THEOREM ReadersAreSafe == KernelPoolSpec => []ReaderKeepsClient
<1>1. KernelInv => ReaderKeepsClient
  BY DEF KernelInv
<1> QED
  BY <1>1, KernelInvariant, PTL

\* A request waits for the lock of the pool, or for the one of its kernel's entry, in the
\* queue or by looking; d is who holds it.
Waits(c, d) ==
    \/ caller[c].pc \in {"lookup", "create"} /\ poolLock = d
    \/ caller[c].pc \in {"queued", "polling"} /\ holder[caller[c].k] = d
WaitersMayGo(k) ==
    waiting[k] # <<>> => \/ \E d \in Caller : Waits(Head(waiting[k]), d)
                         \/ /\ holder[k] = Nobody
                            /\ caller[Head(waiting[k])].pc = "queued"
                            /\ caller[Head(waiting[k])].k = k

\* Requests do not wait for one another in a circle, nor in a chain: who holds the pool's
\* lock (create, delete and get_or_create of kernels.py) or an entry's (execute, restart,
\* delete) waits for neither.  And no queue is left behind: its first request waits for
\* somebody who holds the lock, or the lock is free and it is its turn.
THEOREM LocksDoNotWait ==
    KernelPoolSpec => [](/\ \A c, d, e \in Caller : ~(Waits(c, d) /\ Waits(d, e))
                         /\ \A k \in KernelId : WaitersMayGo(k))
<1>1. ASSUME KernelInv, NEW c \in Caller, NEW d \in Caller, NEW e \in Caller,
             Waits(c, d), Waits(d, e)
      PROVE  FALSE
  <2>1. KernelTypes /\ LocksExact /\ CreatesAlone /\ PlacesOK
    BY <1>1 DEF KernelInv
  <2>2. caller[d].pc \in {"lookup", "create", "queued", "polling"}
    BY <1>1 DEF Waits
  <2>3. CASE poolLock = d
    BY <2>1, <2>2, <2>3 DEF CreatesAlone, Creating
  <2>4. CASE poolLock # d
    <3>1. caller[c].pc \in {"queued", "polling"} /\ holder[caller[c].k] = d
      BY <1>1, <2>4 DEF Waits
    <3>2. caller[c].k \in KernelId
      BY <2>1, <3>1 DEF PlacesOK, PlaceOK, Unplaced, KernelTypes, CallerState
    <3>3. caller[d].pc \in MayHold
      BY <2>1, <3>1, <3>2 DEF LocksExact, Caller, Nobody
    <3> QED
      BY <2>2, <3>3 DEF MayHold, HoldsLock
  <2> QED
    BY <2>3, <2>4
<1>2. ASSUME KernelInv, NEW k \in KernelId PROVE WaitersMayGo(k)
  <2>1. KernelTypes /\ QueuesExact
    BY <1>2 DEF KernelInv
  <2>2. SUFFICES ASSUME waiting[k] # <<>> PROVE WaitersMayGo(k)
    BY DEF WaitersMayGo
  <2>3. 1 \in DOMAIN waiting[k] /\ Head(waiting[k]) = waiting[k][1]
    BY <2>1, <2>2, LenProperties DEF KernelTypes
  <2>4. /\ caller[Head(waiting[k])].pc = "queued" /\ caller[Head(waiting[k])].k = k
    BY <2>1, <2>3 DEF QueuesExact
  <2>5. holder[k] \in Caller \cup {Nobody}
    BY <2>1 DEF KernelTypes
  <2> QED
    BY <2>4, <2>5 DEF WaitersMayGo, Waits
<1>3. KernelInv => /\ \A c, d, e \in Caller : ~(Waits(c, d) /\ Waits(d, e))
                   /\ \A k \in KernelId : WaitersMayGo(k)
  BY <1>1, <1>2
<1> QED
  BY <1>3, KernelInvariant, PTL

-----------------------------------------------------------------------------
(* The manager without the orphan sweeper and without faults *)

\* What it means that the orphan sweeper is not there and Docker does not fail.
One == INSTANCE SandboxLifecycleProofs WITH Sweeps <- Sweeps \ {"orphan"}, MaxFaults <- 0

\* Finite sets are the same there.
LEMMA OneSets ==
    \A S : (One!IsFiniteSet(S) <=> IsFiniteSet(S)) /\ One!Cardinality(S) = Cardinality(S)
BY DEF One!IsFiniteSet, IsFiniteSet, One!Cardinality, Cardinality

\* It starts in the same states.
LEMMA OneInit ==
    Init => One!Init
BY DEF Init, One!Init, BlankRow, One!BlankRow, Task, One!Task, FreeTask, One!FreeTask

\* Requests come in the same way.
LEMMA OneAsk ==
    ASSUME NEW t \in Request, NEW s \in Sandbox, Ask(t, s)
    PROVE  One!Ask(t, s)
BY DEF Ask, One!Ask, WantRunning, One!WantRunning, WantStop, One!WantStop, Begin,
       One!Begin, Requested, One!Requested, Finished, One!Finished, FreeTask,
       One!FreeTask, BlankRow, One!BlankRow, Commit, One!Commit, Committed,
       One!Committed, dbVars, One!dbVars

\* The other sweeps select what they select.
LEMMA OneSweep ==
    ASSUME NEW s \in Sandbox, SelectIdle(s) \/ SelectStale(s)
    PROVE  One!Sweep(s)
BY DEF Sweep, One!Sweep, SelectIdle, One!SelectIdle, SelectStale, One!SelectStale,
       StaleStarting, One!StaleStarting, Begin, One!Begin, Finished, One!Finished,
       FreeTask, One!FreeTask, BlankRow, One!BlankRow, Commit, One!Commit, Committed,
       One!Committed, dbVars, One!dbVars

\* The orphan sweeper's plans are the same, if it has any.
LEMMA OneLists == ListBoxes => One!ListBoxes
<1>1. \A S : One!SetToSeqs(S) = SetToSeqs(S)
  BY OneSets DEF SetToSeqs, One!SetToSeqs
<1>2. \A found, r : One!UnboundPlans(found, r) = UnboundPlans(found, r)
  BY <1>1 DEF UnboundPlans, One!UnboundPlans
<1>3. \A found, r : One!BoundPlan(found, r) = BoundPlan(found, r)
  BY DEF BoundPlan, One!BoundPlan, Running, One!Running, Plan, One!Plan
<1>4. \A s : One!BoxesOf(s) = BoxesOf(s)
  BY DEF BoxesOf, One!BoxesOf
<1>5. One!FreeTask = FreeTask
  BY DEF FreeTask, One!FreeTask, BlankRow, One!BlankRow
<1>6. dbVars' = dbVars <=> One!dbVars' = One!dbVars
  BY DEF dbVars, One!dbVars
<1> QED
  BY <1>2, <1>3, <1>4, <1>5, <1>6 DEF ListBoxes, One!ListBoxes

\* An operation enters the lock the same way.
LEMMA OneEnter ==
    ASSUME NEW t \in Task, EnsureReuses(t) \/ EnsureRecreates(t) \/ EnsureStarts(t)
           \/ Stops(t) \/ OrphanActs(t)
    PROVE  One!Enter(t)
BY DEF Enter, One!Enter, EnsureReuses, One!EnsureReuses, EnsureRecreates,
       One!EnsureRecreates, EnsureStarts, One!EnsureStarts, Stops, One!Stops,
       OrphanActs, One!OrphanActs, Locks, One!Locks, Read, One!Read, Running,
       One!Running, Through, One!Through, StopBegins, One!StopBegins, Forced, One!Forced,
       Under, One!Under, Stopped, One!Stopped, Cleared, One!Cleared, Removed, One!Removed, Exists,
       One!Exists, Finished, One!Finished, FreeTask, One!FreeTask, BlankRow,
       One!BlankRow, Commit, One!Commit, Committed, One!Committed, dbVars, One!dbVars

\* A sandbox that is down is restarted.
LEMMA OneRestarts ==
    ASSUME NEW t \in Task, EnsureRestarts(t), ~Fault
    PROVE  One!EnsureRestarts(t)
BY DEF EnsureRestarts, One!EnsureRestarts, Locks, One!Locks, Read, One!Read, Running,
       One!Running, StopBegins, One!StopBegins, Forced, One!Forced, Finished, One!Finished, FreeTask,
       One!FreeTask, BlankRow, One!BlankRow, Commit, One!Commit, Committed,
       One!Committed, dbVars, One!dbVars

\* A start that is stale is reconciled.
LEMMA OneReconciles ==
    ASSUME NEW t \in Task, Reconciles(t), ~Fault
    PROVE  One!Reconciles(t)
BY DEF Reconciles, One!Reconciles, Locks, One!Locks, Read, One!Read, Running,
       One!Running, Through, One!Through, Stopped, One!Stopped, Cleared, One!Cleared,
       Finished, One!Finished, FreeTask, One!FreeTask, BlankRow, One!BlankRow, Commit,
       One!Commit, Committed, One!Committed, dbVars, One!dbVars

\* It goes on the same way.
LEMMA OneProceed ==
    ASSUME NEW t \in Task, Up(t) \/ Ready(t) \/ Recreate(t) \/ StopSucceeds(t), ~Fault
    PROVE  One!Proceed(t)
BY DEF Proceed, One!Proceed, Up, One!Up, Ready, One!Ready, Recreate, One!Recreate,
       StopSucceeds, One!StopSucceeds, Finish, One!Finish, Reusable, One!Reusable,
       Creates, One!Creates, Created, One!Created, Unused, One!Unused, Task, One!Task,
       BoxesOf, One!BoxesOf, Bound, One!Bound, Goto, One!Goto, AfterStop, One!AfterStop,
       Running, One!Running, Stopped, One!Stopped, Cleared, One!Cleared, Removed,
       One!Removed, Exists, One!Exists, Finished, One!Finished, FreeTask, One!FreeTask,
       BlankRow, One!BlankRow, Commit, One!Commit, Committed, One!Committed, dbVars,
       One!dbVars

\* A start whose container is gone fails.
LEMMA OneFails ==
    ASSUME NEW t \in Task, StartFails(t), ~Fault
    PROVE  One!StartFails(t)
BY DEF StartFails, One!StartFails, Running, One!Running, Stopped, One!Stopped, Finish,
       One!Finish, Finished, One!Finished, FreeTask, One!FreeTask, BlankRow,
       One!BlankRow, Commit, One!Commit, Committed, One!Committed, dbVars, One!dbVars

\* Room is made for a start the same way.
LEMMA OneReserve ==
    ASSUME NEW t \in Task, Reserve(t)
    PROVE  One!Reserve(t)
<1>1. One!Cardinality(One!Active) = Cardinality(Active)
  BY OneSets DEF Active, One!Active
<1> HIDE DEF Active, One!Active
<1> QED
  BY <1>1 DEF Reserve, One!Reserve, Finish, One!Finish, Finished, One!Finished, FreeTask,
       One!FreeTask, BlankRow, One!BlankRow, Commit, One!Commit, Committed, One!Committed,
       dbVars, One!dbVars

\* Operations are cut short the same way.
LEMMA OneAbandon ==
    ASSUME NEW t \in Task, Abandon(t)
    PROVE  One!Abandon(t)
BY DEF Abandon, One!Abandon, Finished, One!Finished, FreeTask, One!FreeTask, BlankRow,
       One!BlankRow, Commit, One!Commit, Committed, One!Committed, dbVars, One!dbVars

\* Time passes the same way.
LEMMA OneTime ==
    ASSUME NEW s \in Sandbox, Use(s) \/ GetsIdle(s) \/ Ages(s)
    PROVE  One!Use(s) \/ One!GetsIdle(s) \/ One!Ages(s)
BY DEF Use, One!Use, GetsIdle, One!GetsIdle, Ages, One!Ages

\* A step in which the orphan sweeper rests and nothing fails is a step without both.
LEMMA OneStep ==
    ASSUME Next, count.faults = 0, count'.faults = 0, task'[OrphanSweeper].kind = "none",
           OrphanSweeper \in DOMAIN task, "faults" \in DOMAIN count
    PROVE  One!Next
<1>0. ~Fault
  BY DEF Fault
<1>1. ASSUME NEW t \in Request, NEW s \in Sandbox, Ask(t, s)
      PROVE  One!Next
  BY <1>1, OneAsk DEF One!Next
<1>2. ASSUME NEW s \in Sandbox, Sweep(s)
      PROVE  One!Next
  <2>1. ~SelectRows(s)
    BY DEF SelectRows, FreeTask
  <2> QED
    BY <1>2, <2>1, OneSweep DEF Sweep, One!Next
<1>3. ASSUME NEW s \in Sandbox, Use(s) \/ GetsIdle(s) \/ Ages(s)
      PROVE  One!Next
  BY <1>3, OneTime DEF One!Next
<1>4. CASE ListBoxes
  BY <1>4, OneLists DEF One!Next
<1>5. ASSUME NEW t \in Task, Enter(t)
      PROVE  One!Enter(t)
  BY <1>0, <1>5, OneEnter, OneRestarts, OneReconciles DEF Enter, One!Enter
<1>6. ASSUME NEW t \in Task, Proceed(t)
      PROVE  One!Proceed(t)
  <2>1. ~Replaces(t) /\ ~StopFails(t)
    BY <1>0 DEF Replaces, StopFails
  <2> QED
    BY <1>0, <1>6, <2>1, OneReserve, OneProceed, OneFails DEF Proceed, One!Proceed
<1>7. ASSUME NEW t \in Task, Enter(t) \/ Proceed(t) \/ Abandon(t)
      PROVE  One!Next
  <2>1. One!Enter(t) \/ One!Proceed(t) \/ One!Abandon(t)
    BY <1>5, <1>6, <1>7, OneAbandon
  <2> QED
    BY <2>1 DEF One!Next, Task, One!Task
<1>8. \A b \in Box : ~BoxDies(b)
  BY <1>0 DEF BoxDies
<1> QED
  BY <1>1, <1>2, <1>3, <1>4, <1>7, <1>8 DEF Next

\* The invariant of the lifecycle without them.
LEMMA OneInvariant ==
    /\ One!Init => One!LifecycleInv
    /\ One!LifecycleInv /\ [One!Next]_(One!vars) => One!LifecycleInv'
BY OneSets, LifecycleAssumption, One!LifecycleInit, One!LifecycleNext DEF Task, One!Task

-----------------------------------------------------------------------------
(* The modes *)

\* A step of the modes is a step of the manager, of the kernels or of the shells; the
\* other two stay, and so does the mode.
LEMMA ModesStep ==
    ASSUME [ModesNext]_modesVars
    PROVE  /\ [Next]_vars /\ [KernelPoolNext]_poolVars /\ [ShellSessionsNext]_shellVars
           /\ UNCHANGED mode
<1>1. CASE UNCHANGED modesVars
  BY <1>1 DEF modesVars
<1>2. CASE ManagerModes /\ UNCHANGED mode
  BY <1>2 DEF ManagerModes
<1>3. CASE KernelMode /\ UNCHANGED mode
  BY <1>3 DEF KernelMode
<1>4. CASE ShellMode /\ UNCHANGED mode
  BY <1>4 DEF ShellMode
<1> QED
  BY <1>1, <1>2, <1>3, <1>4 DEF ModesNext

\* In every mode the three parts behave as they are specified: what a mode adds only
\* leaves behaviours out.
THEOREM ModesAreOfTheParts == ModesSpec => Spec /\ KernelPoolSpec /\ ShellSessionsSpec
<1>1. ModesInit => Init /\ KernelPoolInit /\ ShellSessionsInit
  BY DEF ModesInit
<1>2. [ModesNext]_modesVars
      => [Next]_vars /\ [KernelPoolNext]_poolVars /\ [ShellSessionsNext]_shellVars
  BY ModesStep
<1> QED
  BY <1>1, <1>2, PTL DEF ModesSpec, Spec, KernelPoolSpec, ShellSessionsSpec

\* Every variable of the three has its type, in every mode.
THEOREM TypesOfTheModes == ModesSpec => []ModesTypes
<1>1. TypeOK /\ KernelPoolTypeOK /\ ShellTypeOK => ModesTypes
  BY DEF ModesTypes
<1> QED
  BY <1>1, ModesAreOfTheParts, SandboxTypes, KernelTypesHold, ShellTypes, PTL

\* However many sandboxes are started, recreated, stopped and swept at once, no more rows
\* are active than max_active_sandboxes in the mode of many, as long as no request makes a
\* row RUNNING again from an object it held before the lock
\* (_reserve_capacity_and_mark_starting).
THEOREM LimitIsKeptByMany == ModesSpec /\ [][~StaleRevival]_vars => []CapacityOfMany
<1>1. CapacityRespected => CapacityOfMany
  BY DEF CapacityOfMany
<1> QED
  BY <1>1, ModesAreOfTheParts, LimitIsKept, PTL

\* The promises of the server in a sandbox hold in every mode.
THEOREM ModesKeepPromises ==
    ModesSpec => [](PoolHasEveryKernel /\ ReaderKeepsClient /\ OutputGivenOnce)
BY ModesAreOfTheParts, PoolForgetsNone, ReadersAreSafe, OutputReachesReaders, PTL

\* Whatever requests, the idle sweeper and the reconciler do to it, a stopped sandbox
\* keeps its container for the next start where not_remove is set, as long as the orphan
\* sweeper rests and Docker does not fail (_stop_runtime_for_sandbox).
THEOREM OneKeepsItsBox == ModesSpec => []OneKeepsBox
<1> DEFINE Inv == mode = "one" => One!LifecycleInv /\ count.faults = 0
<1>1. ModesInit => Inv
  BY OneInit, OneInvariant DEF ModesInit, Init
<1>2. Inv /\ [ModesNext]_modesVars => Inv'
  <2> SUFFICES ASSUME mode' = "one", Inv, [ModesNext]_modesVars
               PROVE  One!LifecycleInv' /\ count'.faults = 0
    OBVIOUS
  <2>1. mode = "one" /\ One!LifecycleInv /\ count.faults = 0
    BY DEF ModesNext, modesVars
  <2>2. \/ Next /\ task'[OrphanSweeper].kind = "none" /\ count'.faults = 0
        \/ UNCHANGED vars
    BY <2>1 DEF ModesNext, modesVars, ManagerModes, KernelMode, ShellMode
  <2>3. OrphanSweeper \in DOMAIN task /\ "faults" \in DOMAIN count
    BY <2>1 DEF One!LifecycleInv, One!LifecycleTypes, One!Task
  <2>4. UNCHANGED vars => UNCHANGED One!vars /\ UNCHANGED count
    BY DEF vars, dbVars, One!vars, One!dbVars
  <2>5. [One!Next]_(One!vars)
    BY <2>1, <2>2, <2>3, <2>4, OneStep
  <2> QED
    BY <2>1, <2>2, <2>4, <2>5, OneInvariant
<1>3. Inv => OneKeepsBox
  <2> SUFFICES ASSUME One!LifecycleInv, Preserve
               PROVE  StoppedKeepsBox
    BY DEF OneKeepsBox, StoppedKeepsBox
  <2>1. \A s \in Sandbox : row[s].ext # NoBox => One!Exists(row[s].ext)
    BY DEF One!LifecycleInv, One!KeepsBoxes
  <2> QED
    BY <2>1 DEF StoppedKeepsBox, Exists, One!Exists
<1> QED
  BY <1>1, <1>2, <1>3, PTL DEF ModesSpec
=============================================================================
